------------------------------ MODULE MCBasic ------------------------------
(* The BASIC machine with the programs of BasicPrograms in memory, and what *)
(* it does with them compared with what they mean (BasicLang).              *)
EXTENDS BasicPrograms, BasicVM, BasicLang

(* TLC evaluates what stands for a constant again and again, and any other *)
(* definition once.                                                        *)
MCCodeImages == CodeImages
MCReadyImages == ReadyImages

(* Properties of running a program.                                        *)

Fuel == 3 * MaxOps
RunEnded == mode = "run" /\ result # <<"running", 0>>

Does(m) ==
  IF ops = MaxOps THEN IsPrefix(out, m.out)
  ELSE /\ out = m.out /\ vars = m.vars
       /\ chain = IF m.chain = <<>> THEN NoChain
                  ELSE [to |-> m.chain[1], line |-> m.chain[2]]
       /\ result = IF m.how = "failed" THEN <<"failed", m.code>> ELSE <<"ended", 0>>

(* What a program that was typed prints, leaves in its variables, chains to *)
(* and ends with (for an error, with which) is what its statements mean,    *)
(* for every nest of loops, branches, modifiers, subroutines, functions and *)
(* error traps (parser.go, pcode_compile.go, pcode_vm.go).  A run that the  *)
(* limit on instructions cuts short has printed a part of it.               *)
CodeMeans ==
  RunEnded /\ ~Renumbered(program) => Does(LangRun(Meant(program), Zero, Fuel))

(* After RENUM a program does what it did: every reference to one of its    *)
(* lines, and nothing else, has the line's new number, which ERL shows too  *)
(* (rewriteRefs in renum.go).                                               *)
RenumKeeps ==
  RunEnded /\ Renumbered(program) => Does(LangRun(Meant(program), Zero, Fuel))
============================================================================
