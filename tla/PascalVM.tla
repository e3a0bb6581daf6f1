------------------------------ MODULE PascalVM ------------------------------
(***************************************************************************)
(* The machine that runs P-code (pascal_pvm.go): an action for each kind   *)
(* of instruction, and one for RunPascal, which compiles what it runs.  p  *)
(* is the program, image its code.  The stack holds values, addrs the      *)
(* addresses of cells; calls are the procedures to return from.  A ^C is   *)
(* seen between any two instructions (the code looks every 64).  No        *)
(* instruction looks at scope: it records the block of every procedure and *)
(* of every frame, for the properties.                                     *)
(***************************************************************************)
EXTENDS PascalData

CONSTANTS
  Numbers, Characters,  \* the tokens that are literals, and their values
  Texts,                \* the text of every program, in tokens
  Typed,                \* the lines typed while it runs
  Disk                  \* the text files there are, by name

VARIABLES p, image, scope, m, stack, addrs, calls, ip, status
vars == <<p, image, scope, m, stack, addrs, calls, ip, status>>

Parser == INSTANCE PascalParse
Compiler == INSTANCE PascalCode

Outermost == 0   \* the block of the program; others go by the procedure's number
Code == image.code
NoImage == [code |-> <<>>, procs |-> <<>>]

Init ==
  /\ p \in DOMAIN Texts
  /\ image = NoImage
  /\ scope = [blocks |-> <<>>, frames |-> << <<>>, <<Outermost>> >>]
  /\ m = StartMemory(0, {}, Typed, Disk)
  /\ stack = <<>> /\ addrs = <<>> /\ calls = <<>>
  /\ ip = 0
  /\ status = "text"

(* CompilePascal and compilePascalImage. *)
Parsed(text) == Parser!Program(text)
CheckedProgram(parsed) ==
  IF parsed.ok THEN Compiler!CheckProgram(parsed.v) ELSE [ok |-> FALSE]
ImageOf(prog) == IF prog.ok THEN Compiler!Compile(prog) ELSE [ok |-> FALSE]

(* The block of every procedure: the blocks it lies in, itself the last. *)
RECURSIVE Blocks(_, _)
Blocks(b, around) ==
  FoldLeft(LAMBDA found, pr : (pr.sym.id :> Append(around, pr.sym.id))
                                @@ Blocks(pr.block, Append(around, pr.sym.id)) @@ found,
           <<>>, b.procs)

(* RunPascal: what does not compile does not run; runPascalImage.           *)
Refused(img) == ~img.ok /\ status' = "refused" /\ UNCHANGED <<image, scope, m, ip>>
Loaded(img, prog) ==
  /\ img.ok
  /\ image' = [code |-> img.code, procs |-> img.procs]
  /\ scope' = [scope EXCEPT !.blocks = Blocks(prog.b, <<Outermost>>)]
  /\ m' = StartMemory(img.nslot, img.target, Typed, Disk)
  /\ ip' = img.entry
  /\ status' = "run"
Start(img, prog) == Refused(img) \/ Loaded(img, prog)
StartProgram(prog) == Start(ImageOf(prog), prog)
RunPascal ==
  /\ status = "text"
  /\ StartProgram(CheckedProgram(Parsed(Texts[p])))
  /\ UNCHANGED <<p, stack, addrs, calls>>

-----------------------------------------------------------------------------
Running(ops) == status = "run" /\ Code[ip].op \in ops
Instr == Code[ip]
Popped(s, n) == SubSeq(s, 1, Len(s) - n)
Top(s, n) == s[Len(s) - n]

(* The next instruction, with the memory, the stack and the addresses it    *)
(* finds.                                                                   *)
Step(m1, stack1, addrs1) ==
  /\ m' = m1 /\ stack' = stack1 /\ addrs' = addrs1
  /\ ip' = ip + 1
  /\ UNCHANGED <<p, image, scope, calls, status>>
(* An error ends the program; the files are written all the same. *)
Stop(why, m1) ==
  /\ status' = why
  /\ m' = FlushFiles(m1)
  /\ UNCHANGED <<p, image, scope, stack, addrs, calls, ip>>
StepOr(err, m1, stack1, addrs1) == IF err = "" THEN Step(m1, stack1, addrs1) ELSE Stop(err, m1)

(* pop and popAddr: an instruction that finds too little stops the machine. *)
Enough(v, a) == Len(stack) >= v /\ Len(addrs) >= a
Underflow == "stack underflow"
With(v, a, A) == IF Enough(v, a) THEN A ELSE Stop(Underflow, m)

Halt == Running({"Halt"}) /\ Stop("halt", m)

Push == /\ Running({"Push"})
        /\ Step(m, Append(stack, Of(Instr.t, Instr.a)), addrs)

AddrVar ==
  /\ Running({"AddrVar"})
  /\ LET r == VarSlot(m, [level |-> Instr.a, off |-> Instr.b, t |-> Instr.t])
     IN StepOr(r.err, r.m, stack, Append(addrs, r.c))

(* addrIdx: one index after the other; the type is that of the array.       *)
RECURSIVE Indexed(_, _, _)
Indexed(c, t, is) ==
  LET e == Element(m, c, t, is[1].i)
  IN CASE is = <<>> -> [c |-> c, err |-> ""]
       [] is # <<>> /\ e.err # "" -> e
       [] OTHER -> Indexed(e.c, t.elem, Tail(is))
AddrIdx ==
  /\ Running({"AddrIdx"})
  /\ With(Instr.a, 1,
       LET base == Top(addrs, 0)
           e == Indexed(base, m.cells[base].t, SubSeq(stack, Len(stack) - Instr.a + 1, Len(stack)))
       IN StepOr(e.err, m, Popped(stack, Instr.a), Append(Popped(addrs, 1), e.c)))

AddrField ==
  /\ Running({"AddrField"})
  /\ With(0, 1,
       LET es == m.cells[Top(addrs, 0)].e
           found == Instr.a \in DOMAIN es
       IN StepOr(IF found THEN "" ELSE "record field", m, stack,
                 Append(Popped(addrs, 1), IF found THEN es[Instr.a] ELSE 0)))

AddrDeref ==
  /\ Running({"AddrDeref"})
  /\ With(0, 1, LET d == Deref(m, Top(addrs, 0))
                IN StepOr(d.err, m, stack, Append(Popped(addrs, 1), d.c)))

AddrWith ==
  /\ Running({"AddrWith"})
  /\ LET j == Len(m.withs) - Instr.b
         w == m.withs[j]
         found == j >= 1 /\ HasField(w.t, Instr.a)
     IN StepOr(IF found THEN "" ELSE "unknown field", m, stack,
               Append(addrs, IF found THEN m.cells[w.c].e[FieldAt(w.t, Instr.a)] ELSE 0))

Load ==
  /\ Running({"Load"})
  /\ With(0, 1, Step(m, Append(stack, Tree(m, Top(addrs, 0))), Popped(addrs, 1)))

(* rangeAssign, unless the instruction is the step of a FOR. *)
Store ==
  /\ Running({"Store"})
  /\ With(1, 1,
       LET v == Top(stack, 0)
           c == Top(addrs, 0)
           bad == Instr.b = 0 /\ ~OrdInRange(m.cells[c].t, v.i)
       IN StepOr(IF bad THEN "value out of range" ELSE "",
                 IF bad THEN m ELSE AssignVal(m, c, v), Popped(stack, 1), Popped(addrs, 1)))

Dup == Running({"Dup"}) /\ With(1, 0, Step(m, Append(stack, Top(stack, 0)), addrs))
Pop == Running({"Pop"}) /\ With(1, 0, Step(m, Popped(stack, 1), addrs))
DupAddr == Running({"DupAddr"}) /\ With(0, 1, Step(m, stack, Append(addrs, Top(addrs, 0))))

BinOp ==
  /\ Running({"Bin"})
  /\ With(2, 0, LET r == Bin(Instr.a, Top(stack, 1), Top(stack, 0))
                IN StepOr(r.err, m, Append(Popped(stack, 2), r.v), addrs))
UnOp ==
  /\ Running({"Un"})
  /\ With(1, 0, Step(m, Append(Popped(stack, 1), Un(Instr.a, Top(stack, 0))), addrs))

SetIncl ==
  /\ Running({"SetIncl", "SetRange"})
  /\ LET n == IF Instr.op = "SetRange" THEN 2 ELSE 1
     IN With(n + 1, 0, Step(m, Append(Popped(stack, n + 1),
                                      SetBits(Top(stack, n), Top(stack, n - 1).i..Top(stack, 0).i)),
                            addrs))

Jump ==
  /\ Running({"Jmp"})
  /\ m' = PopWith(m, Instr.b)
  /\ ip' = Instr.a
  /\ UNCHANGED <<p, image, scope, stack, addrs, calls, status>>

JumpFalse ==
  /\ Running({"Jz"})
  /\ With(1, 0,
       /\ ip' = IF Top(stack, 0).i = 0 THEN Instr.a ELSE ip + 1
       /\ stack' = Popped(stack, 1)
       /\ UNCHANGED <<p, image, scope, m, addrs, calls, status>>)

CaseFail == Running({"CaseFail"}) /\ Stop("case selector matches no constant", m)

WithPush == Running({"WithPush"}) /\ With(0, 1, Step(PushWith(m, Top(addrs, 0)), stack, Popped(addrs, 1)))
WithPop == Running({"WithPop"}) /\ Step(PopWith(m, 1), stack, addrs)

-----------------------------------------------------------------------------
(* Calls. *)

ProcRef ==
  /\ Running({"ProcRef"})
  /\ LET link == FrameAt(m, m.fp, image.procs[Instr.a].level)
     IN Step(m, Append(stack, [Blank EXCEPT !.i = Instr.a, !.slink = link]), addrs)

(* The arguments are taken off the stacks from the last to the first, an    *)
(* address for a VAR parameter and a value for any other; one more than     *)
(* there are parameters goes to slot 0.                                     *)
ExtraParam == [kind |-> "var", byRef |-> FALSE, off |-> 0, t |-> NoType, conf |-> <<>>]
TakeArgs(ps, n) ==
  LET param(j) == IF j \in DOMAIN ps THEN ps[j] ELSE ExtraParam
      byAddr(j) == param(j).kind = "var" /\ param(j).byRef
      As == {j \in 1..n : byAddr(j)}
      after(S, j) == Cardinality({k \in S : k > j})
  IN [vals |-> n - Cardinality(As), addrs |-> Cardinality(As),
      args |-> [j \in 1..n |-> [pm |-> param(j), byAddr |-> byAddr(j),
                                k |-> after(IF byAddr(j) THEN As ELSE 1..n \ As, j)]]]

(* vm.call, one argument: an alias, a bound procedure or a copy. *)
BindArg(st, mem, a) ==
  LET pm == a.pm
      f == Len(mem.frames)
      slot == SlotOf(mem, f, pm.off)
      c == Top(addrs, a.k)
      v == Top(st, a.k)
      copy == ValueParam(pm.t, v)
  IN CASE a.byAddr ->
            BindConf([mem EXCEPT !.cells[slot].ref = c, !.cells[slot].t = mem.cells[c].t],
                     f, pm.conf, mem.cells[c].t)
       [] ~a.byAddr /\ pm.kind \in {"proc", "func"} -> Put(mem, slot, v)
       [] OTHER -> BindConf(Put(mem, slot, copy), f, pm.conf, copy.t)

(* A call with n arguments, in the frame link or, when it is 0, in the one  *)
(* the procedure was declared in.                                           *)
Enter(id, n, link, st) ==
  LET info == image.procs[id]
      take == TakeArgs(info.params, n)
      framed == NewFrame(m, info.level + 1,
                         IF link = 0 THEN FrameAt(m, m.fp, info.level) ELSE link,
                         IF info.nslot < 8 THEN 8 ELSE info.nslot)
      bound == FoldLeft(LAMBDA mem, a : BindArg(st, mem, a), framed, take.args)
      fr == Len(framed.frames)
      ret == SlotOf(framed, fr, info.retOff)
      ready == IF info.isFunc /\ bound.cells[ret].t = NoType
               THEN Put(bound, ret, ZeroVal(info.ret)) ELSE bound
  IN IF Len(st) < take.vals \/ Len(addrs) < take.addrs THEN Stop(Underflow, m)
     ELSE /\ m' = [ready EXCEPT !.fp = fr]
          /\ stack' = Popped(st, take.vals)
          /\ addrs' = Popped(addrs, take.addrs)
          /\ calls' = Append(calls, [ip |-> ip + 1, fp |-> m.fp, proc |-> id, mark |-> Len(m.withs)])
          /\ ip' = info.ip
          /\ scope' = [scope EXCEPT !.frames = Append(@, scope.blocks[id])]
          /\ UNCHANGED <<p, image, status>>

Call == Running({"Call"}) /\ Enter(Instr.a, Instr.b, 0, stack)

(* A procedural parameter is above its arguments. *)
CallValHere ==  \* mutant: the link is sought from the caller
  /\ Running({"CallVal"})
  /\ With(1, 0, LET callee == Top(stack, 0)
                IN IF callee.i \in DOMAIN image.procs
                   THEN Enter(callee.i, Instr.b, 0, Popped(stack, 1))
                   ELSE Stop("undefined procedure", m))
CallVal ==
  /\ Running({"CallVal"})
  /\ With(1, 0, LET callee == Top(stack, 0)
                IN IF callee.i \in DOMAIN image.procs
                   THEN Enter(callee.i, Instr.b, callee.slink, Popped(stack, 1))
                   ELSE Stop("undefined procedure", m))

Ret ==
  /\ Running({"Ret"})
  /\ LET top == Last(calls)
         info == image.procs[top.proc]
         value == IF info.isFunc THEN Tree(m, SlotOf(m, m.fp, info.retOff)) ELSE Of(DummyT, 0)
         extra == Len(m.withs) - top.mark
     IN /\ m' = [PopWith(m, IF extra > 0 THEN extra ELSE 0) EXCEPT !.fp = top.fp]
        /\ stack' = Append(stack, value)
        /\ calls' = Front(calls)
        /\ ip' = top.ip
        /\ UNCHANGED <<p, image, scope, addrs, status>>

-----------------------------------------------------------------------------
(* vm.std: the standard procedures and functions. *)

Std(names) == Running({"Std"}) /\ Instr.a \in names
FileOr(v, default) == IF v.file = 0 THEN default ELSE v.file
Nothing == Of(DummyT, 0)

StdFunction ==
  /\ Std(OrdinalFns)
  /\ With(1, 0, LET r == OrdinalFn(Instr.a, Top(stack, 0))
                IN StepOr(r.err, m, Append(Popped(stack, 1), r.v), addrs))

FileTest ==
  /\ Std({"EOF", "EOLN"})
  /\ With(1, 0, LET f == m.files[FileOr(Top(stack, 0), InFile)]
                IN Step(m, Append(Popped(stack, 1), Truth(IF Instr.a = "EOF" THEN f.eof ELSE f.eoln)),
                        addrs))

WriteVals ==
  /\ Std({"WRITE", "WRITELN"})
  /\ With(Instr.b + 1, 0,
       LET f == FileOr(Top(stack, Instr.b), OutFile)
           vals == SubSeq(stack, Len(stack) - Instr.b + 1, Len(stack))
       IN Step(Write(m, f, vals, Instr.a = "WRITELN"),
               Append(Popped(stack, Instr.b + 1), Nothing), addrs))

(* doReadVals: the type of the variable is the one its cell has.            *)
ReadVals ==
  /\ Std({"READ", "READLN"})
  /\ With(1, Instr.b,
       LET f == FileOr(Top(stack, 0), InFile)
           read(acc, c) == LET t == acc.m.cells[c].t
                           IN IF acc.err # "" THEN acc ELSE ReadVal(acc.m, f, c, t, Unwrap(t))
           r == FoldLeft(read, [m |-> m, err |-> ""],
                         SubSeq(addrs, Len(addrs) - Instr.b + 1, Len(addrs)))
       IN StepOr(r.err, IF Instr.a = "READLN" /\ r.err = "" THEN ReadLn(r.m, f) ELSE r.m,
                 Append(Popped(stack, 1), Nothing), Popped(addrs, Instr.b)))

NewVar ==
  /\ Std({"NEW"})
  /\ LET n == IF Instr.b > 1 THEN Instr.b - 1 ELSE 0
     IN With(n, 1, Step(NewHeap(m, Top(addrs, 0), SubSeq(stack, Len(stack) - n + 1, Len(stack))),
                        Append(Popped(stack, n), Nothing), Popped(addrs, 1)))
DisposeVar ==
  /\ Std({"DISPOSE"})
  /\ IF Instr.b = 0 THEN Step(m, Append(stack, Nothing), addrs)
     ELSE With(0, 1, Step(Dispose(m, Top(addrs, 0)), Append(stack, Nothing), Popped(addrs, 1)))

Open ==
  /\ Std({"RESET", "REWRITE"})
  /\ With(0, 1, LET c == Top(addrs, 0)
                    o == OpenFile(m, c, m.cells[c].t, Instr.t, Instr.a = "REWRITE")
                IN StepOr(o.err, o.m, Append(stack, Nothing), Popped(addrs, 1)))

GetFile ==
  /\ Std({"GET"})
  /\ With(1, 0, Step(GetNext(m, FileOr(Top(stack, 0), InFile)),
                     Append(Popped(stack, 1), Nothing), addrs))
PutFile ==
  /\ Std({"PUT"})
  /\ With(1, 0, IF Top(stack, 0).file = 0 THEN Stop("PUT needs a file", m)
                ELSE Step(PutNext(m, Top(stack, 0).file), Append(Popped(stack, 1), Nothing), addrs))
Page == Std({"PAGE"}) /\ Step([m EXCEPT !.out = Append(@, FormFeed)], Append(stack, Nothing), addrs)

PackVar ==
  /\ Std({"PACK"})
  /\ With(1, 2, Step(Pack(m, Top(addrs, 1), Top(stack, 0).i, Top(addrs, 0)),
                     Append(Popped(stack, 1), Nothing), Popped(addrs, 2)))
UnpackVar ==
  /\ Std({"UNPACK"})
  /\ With(1, 2, Step(Unpack(m, Top(addrs, 1), Top(addrs, 0), Top(stack, 0).i),
                     Append(Popped(stack, 1), Nothing), Popped(addrs, 2)))

-----------------------------------------------------------------------------
(* PollStop: a ^C ends the program before any of its instructions.          *)
Interrupt == status = "run" /\ Stop("^C", m)

Next ==
  \/ RunPascal
  \/ Halt \/ Push \/ AddrVar \/ AddrIdx \/ AddrField \/ AddrDeref \/ AddrWith
  \/ Load \/ Store \/ Dup \/ Pop \/ DupAddr \/ BinOp \/ UnOp \/ SetIncl
  \/ Jump \/ JumpFalse \/ CaseFail \/ WithPush \/ WithPop
  \/ ProcRef \/ Call \/ CallVal \/ Ret
  \/ StdFunction \/ FileTest \/ WriteVals \/ ReadVals \/ NewVar \/ DisposeVar
  \/ Open \/ GetFile \/ PutFile \/ Page \/ PackVar \/ UnpackVar
  \/ Interrupt

Spec == Init /\ [][Next]_vars

-----------------------------------------------------------------------------
(* Properties. *)

(* What the instructions hand on stays well formed: an address, an element, *)
(* a VAR parameter and a record opened by WITH are cells there are, and     *)
(* every frame and pointer named exists (pascal_pvm.go:11-26).              *)
TypeOK ==
  LET Known == 1..Len(m.cells)
      Whole(x) == /\ \A j \in DOMAIN x.e : x.e[j] \in Known
                  /\ x.ref \in 0..Len(m.cells)
                  /\ x.ptr \in 0..Len(m.heap)
                  /\ x.file \in 0..Len(m.files)
  IN /\ status \notin {"text", "refused"} => ip \in DOMAIN Code
     /\ \A j \in DOMAIN addrs : addrs[j] \in Known
     /\ \A c \in Known : Whole(m.cells[c])
     /\ \A j \in DOMAIN m.withs : m.withs[j].c \in Known
     /\ m.fp \in DOMAIN m.frames
     /\ \A j \in DOMAIN calls : calls[j].fp \in DOMAIN m.frames /\ calls[j].ip \in DOMAIN Code

(* The machine calls and returns as the module Activations promises: what   *)
(* runs finds its free variables where its procedure was named (addrVar,    *)
(* procRef, call, callVal, ret).                                            *)
Passed(s) == {[proc |-> s[j].i, link |-> s[j].slink] : j \in {k \in DOMAIN s : s[k].slink # 0}}
Procedures == INSTANCE Activations WITH
  block <- scope.blocks,
  frames <- [f \in DOMAIN m.frames |-> [block |-> scope.frames[f], slink |-> m.frames[f].slink]],
  fp <- m.fp,
  calls <- [k \in DOMAIN calls |->
              [fp |-> calls[k].fp, proc |-> calls[k].proc, mark |-> calls[k].mark]],
  refs <- Passed(stack) \cup Passed(m.cells),
  withs <- Len(m.withs)
ActivationSpec == Procedures!Spec

(* What the checker accepts never stops the machine with an error of the    *)
(* machine itself: those of the language are the only ones it ends with,    *)
(* and a program that comes to its end leaves no value, address, call or    *)
(* WITH behind (pascal_pvm.go:80-291).                                      *)
LanguageErrors == {"value out of range", "index out of range", "division by zero",
                   "MOD divisor must be positive", "integer overflow", "out of range",
                   "CHR argument out of range", "nil pointer dereference", "EOF",
                   "case selector matches no constant", "no such file"}
Sound ==
  /\ status \in LanguageErrors \cup {"text", "refused", "run", "halt", "^C"}
  /\ status = "halt" => stack = <<>> /\ addrs = <<>> /\ calls = <<>> /\ m.withs = <<>>
=============================================================================
