----------------------------- MODULE Activations -----------------------------
(***************************************************************************)
(* What the P-code machine promises of procedures, whatever the program    *)
(* computes.  A call makes a frame, which hangs by its static link on a    *)
(* frame of the block its procedure is declared in; a return goes back to  *)
(* the frame of the caller.  A procedure that is passed as a parameter     *)
(* takes with it the frame it was named in.  The WITHs that a procedure    *)
(* opens are its own.                                                      *)
(*                                                                         *)
(* A block is the sequence of the blocks it lies in, itself the last: that *)
(* of INPUT and OUTPUT is <<>>, that of the program has one element.  The  *)
(* machine knows only its length, which is its level.  What the checker    *)
(* accepts names a procedure where its name can be seen, and closes no     *)
(* WITH that it did not open.                                              *)
(***************************************************************************)
EXTENDS Naturals, Sequences, SequencesExt

Program == 0   \* the block of the program; others go by any number

VARIABLES
  block,   \* the block of each procedure
  frames,  \* every frame made: its block, and its static link
  fp,      \* the frame of what runs
  calls,   \* who called: its frame, what it called, the WITHs it had open
  refs,    \* the procedures passed as parameters, each with its frame
  withs    \* how many WITHs are open

vars == <<block, frames, fp, calls, refs, withs>>

Around(b, level) == SubSeq(b, 1, level)
Up(b) == Around(b, Len(b) - 1)

(* The frame at a level, along the static links of fs from f on. *)
Reach(fs, f, level) ==
  LET at[g \in 0..f] == IF g = 0 THEN 0
                        ELSE IF Len(fs[g].block) > level THEN at[fs[g].slink] ELSE g
  IN at[f]
FrameAt(f, level) == Reach(frames, f, level)

Level(id) == Len(block[id]) - 1
Mark == IF calls = <<>> THEN 0 ELSE Last(calls).mark

Init ==
  /\ block = <<>>
  /\ frames = << [block |-> <<>>, slink |-> 0], [block |-> <<Program>>, slink |-> 1] >>
  /\ fp = 2
  /\ calls = <<>> /\ refs = {} /\ withs = 0

Load ==
  /\ DOMAIN block = {}
  /\ \A id \in DOMAIN block' : block'[id] \in Seq(Nat) /\ Len(block'[id]) > 1
  /\ UNCHANGED <<frames, fp, calls, refs, withs>>

-----------------------------------------------------------------------------
(* The block it is declared in is the block of what runs or lies around it. *)
Visible(id) == /\ id \in DOMAIN block
               /\ Level(id) <= Len(frames[fp].block)
               /\ Around(frames[fp].block, Level(id)) = Up(block[id])

Enter(id, link) ==
  /\ frames' = Append(frames, [block |-> block[id], slink |-> link])
  /\ fp' = Len(frames) + 1
  /\ calls' = Append(calls, [fp |-> fp, proc |-> id, mark |-> withs])
  /\ refs' \subseteq refs
  /\ UNCHANGED <<block, withs>>

Call(id) == Visible(id) /\ Enter(id, FrameAt(fp, Level(id)))

CallRef(r) == r \in refs /\ Enter(r.proc, r.link)

(* A procedure is named as an actual parameter. *)
Refer(id) ==
  /\ Visible(id)
  /\ refs' \subseteq refs \cup {[proc |-> id, link |-> FrameAt(fp, Level(id))]}
  /\ UNCHANGED <<block, frames, fp, calls, withs>>

(* What the procedure left open is closed. *)
Return ==
  /\ calls # <<>>
  /\ fp' = Last(calls).fp
  /\ calls' = Front(calls)
  /\ withs' = Mark
  /\ refs' \subseteq refs
  /\ UNCHANGED <<block, frames>>

(* Any other instruction: it may open a WITH, close some (the end of one,   *)
(* a GOTO) or drop the last copy of a procedure.                            *)
Other ==
  /\ withs' \in Mark..(withs + 1)
  /\ refs' \subseteq refs
  /\ UNCHANGED <<block, frames, fp, calls>>

Next ==
  \/ Load
  \/ \E id \in DOMAIN block : Call(id) \/ Refer(id)
  \/ \E r \in refs : CallRef(r)
  \/ Return \/ Other

Spec == Init /\ [][Next]_vars

-----------------------------------------------------------------------------
(* Properties. *)

(* What the machine keeps of procedures names blocks, frames and procedures *)
(* there are (pascal_pvm.go:11-26).                                         *)
TypeOK ==
  /\ \A id \in DOMAIN block : block[id] \in Seq(Nat) /\ Len(block[id]) > 1
  /\ frames \in Seq([block : Seq(Nat), slink : Nat])
  /\ fp \in DOMAIN frames /\ withs \in Nat
  /\ calls \in Seq([fp : DOMAIN frames, proc : DOMAIN block, mark : Nat])
  /\ refs \subseteq [proc : DOMAIN block, link : DOMAIN frames]

(* Every frame hangs on a frame of the block its procedure is declared in,  *)
(* whoever calls it and however it was passed (addrVar, procRef, call).     *)
StaticChain ==
  \A f \in DOMAIN frames : f > 1 =>
    /\ frames[f].slink \in 1..(f - 1)
    /\ frames[frames[f].slink].block = Up(frames[f].block)

(* What runs after k calls: the program, or the procedure called last. *)
Running(k) == IF k = 0 THEN <<Program>> ELSE block[calls[k].proc]

(* Code runs in a frame of its own block, and every caller is gone back to  *)
(* in a frame of its own (pVM.call, pVM.ret).                               *)
OwnBlock ==
  /\ frames[fp].block = Running(Len(calls))
  /\ \A k \in DOMAIN calls : frames[calls[k].fp].block = Running(k - 1)

(* A procedure that is passed on keeps a frame of the block it is declared  *)
(* in, for as long as it can be called (procRef, callVal).                  *)
RefsInScope ==
  \A r \in refs : frames[r.link].block = Up(block[r.proc])

(* The walk along the links looks at levels only, and would take any frame  *)
(* of the level for the right one (pascal_pvm.go:323).  It ends at a frame  *)
(* of the block that lies there around the code: the level and the offset   *)
(* that an instruction holds mean the variable that the compiler meant.     *)
BlocksReached ==
  \A f \in DOMAIN frames : \A level \in 0..Len(frames[f].block) :
    /\ FrameAt(f, level) \in 1..f
    /\ frames[FrameAt(f, level)].block = Around(frames[f].block, level)

(* No procedure closes a WITH of its caller (withMark): what a caller had   *)
(* open is open for as long as the call lasts.                              *)
WithsNested ==
  /\ Mark <= withs
  /\ \A k \in DOMAIN calls : k > 1 => calls[k - 1].mark <= calls[k].mark

(* Around a procedure that is called are the frames that were around the    *)
(* place that named it: the caller's, for one that is called by its name,   *)
(* and for a parameter those it was passed with, whoever calls it.          *)
Surrounded(f, id) ==
  \A level \in 0..Level(id) : FrameAt(fp, level)' = FrameAt(f, level)
ScopeKept ==
  [][/\ \A id \in DOMAIN block : Call(id) => Surrounded(fp, id)
     /\ \A r \in refs : CallRef(r) => Surrounded(r.link, r.proc)]_vars
=============================================================================
