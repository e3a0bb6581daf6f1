--------------------------- MODULE BasicVMProofs ---------------------------
(***************************************************************************)
(* Proofs about the BASIC machine, for every set of programs and of lines  *)
(* typed at Ready, whatever the compiler makes of them as long as the code *)
(* of a program has the form that ImageAssumption states.                  *)
(***************************************************************************)
EXTENDS BasicVM, TLAPS

-----------------------------------------------------------------------------
(* The inductive invariant.                                                *)

Made(v, img) == "img" \in DOMAIN v /\ v.img = img

(* A program that has begun knows the line it is in; before that it is at  *)
(* the number of a line and has no error handler yet.                      *)
Entered ==
  \/ HasLine(vm.img, line)
  \/ /\ vm.pc \in DOMAIN vm.img.code /\ vm.img.code[vm.pc].op = "line"
     /\ err.onErrorLine = 0 /\ ~err.inHandler

RunsProgram ==
  InProgram =>
    /\ program \in Programs /\ Image[program].ok
    /\ Made(vm, Image[program])
    /\ paused = NoVM
    /\ Entered
    /\ stopped => HasLine(vm.img, line)
    /\ err.inHandler => HasLine(vm.img, err.resumeLine)

RunsTyped == mode = "immediate" => \E i \in Immediates : Made(vm, Image[i])

CanContinue ==
  paused # NoVM /\ ~edited =>
    /\ program \in Programs /\ Image[program].ok
    /\ Made(paused, Image[program])
    /\ HasLine(Image[program], line)
    /\ err.inHandler => HasLine(Image[program], err.resumeLine)

(* The error state stays a record of its four fields. *)
ErrOK(e) == /\ DOMAIN e = {"onErrorLine", "errNum", "resumeLine", "inHandler"}
            /\ e.errNum \in Nat /\ e.inHandler \in BOOLEAN

IInv == TypeOK /\ ErrOK(err) /\ RunsProgram /\ RunsTyped /\ CanContinue

-----------------------------------------------------------------------------
(* What an instruction does to the machine, whichever it is.               *)

LEMMA ExceptMade ==
  ASSUME NEW v, NEW img, NEW x, Made(v, img)
  PROVE  /\ Made([v EXCEPT !.pc = x], img) /\ Made([v EXCEPT !.stack = x], img)
         /\ Made([v EXCEPT !.gosub = x], img) /\ Made([v EXCEPT !.fors = x], img)
         /\ Made([v EXCEPT !.fns = x], img) /\ Made([v EXCEPT !.calls = x], img)
         /\ Made([v EXCEPT !.print = x], img)
BY DEF Made

LEMMA FramesMade ==
  ASSUME NEW img, Made(vm, img)
  PROVE  /\ Made(Next1, img)
         /\ \A n : Made(Popped(n), img)
         /\ \A v, x : Made(v, img) => Made(Push(v, x), img)
BY DEF Made, Next1, Popped, Push

GoodResult(r) == \/ r[1] \in {"running", "ended", "interrupted"}
                 \/ r[1] = "failed" /\ r[2] \in Nat

(* An error is the one before, or is trapped in the line being executed.   *)
ErrorStep == \/ err' = err
             \/ /\ ErrOK(err')
                /\ err'.inHandler =>
                     \/ err.inHandler /\ err'.resumeLine = err.resumeLine
                     \/ err'.resumeLine = line

VMStep == Made(vm', vm.img) /\ ErrorStep /\ GoodResult(result')

LEMMA RaiseInStep ==
  ASSUME NEW e, NEW v, NEW code \in Nat, NEW img,
         ErrOK(e), Made(v, img), RaiseIn(e, v, code), GoodResult(result)
  PROVE  /\ Made(vm', img) /\ GoodResult(result') /\ ErrOK(err')
         /\ \/ err' = e
            \/ Traps(e) /\ err'.resumeLine = line
<1>1. CASE Traps(e)
  <2>1. err' = HandlerOf(e, code) /\ ErrOK(err') /\ err'.resumeLine = line
    <3>1. err' = [e EXCEPT !.errNum = code, !.resumeLine = line, !.inHandler = TRUE]
      BY <1>1 DEF RaiseIn, HandlerOf
    <3>2. QED
      BY <3>1 DEF HandlerOf, ErrOK
  <2>2. \/ vm' = [v EXCEPT !.pc = LineIP(vm.img, e.onErrorLine)] /\ result' = result
        \/ vm' = v /\ result' = <<"failed", Unnumbered>>
    BY <1>1 DEF RaiseIn
  <2>3. Made(vm', img)
    BY <2>2 DEF Made
  <2>4. GoodResult(result')
    BY <2>2 DEF GoodResult, Unnumbered
  <2>5. QED
    BY <1>1, <2>1, <2>3, <2>4
<1>2. CASE ~Traps(e)
  <2>1. err' = e /\ vm' = v /\ result' = <<"failed", code>>
    BY <1>2 DEF RaiseIn
  <2>2. QED
    BY <2>1 DEF GoodResult
<1>3. QED
  BY <1>1, <1>2

LEMMA RaiseStep ==
  ASSUME NEW v, NEW code \in Nat, ErrOK(err), GoodResult(result),
         Made(v, vm.img), Raise(v, code)
  PROVE  VMStep
BY RaiseInStep DEF Raise, VMStep, ErrorStep

LEMMA ProceedStep ==
  ASSUME NEW v, GoodResult(result), Made(v, vm.img), Proceed(v)
  PROVE  VMStep
BY DEF Proceed, VMStep, ErrorStep

LEMMA GotoLineStep ==
  ASSUME NEW v, NEW n, ErrOK(err), GoodResult(result), Made(v, vm.img), GotoLine(v, n)
  PROVE  VMStep
<1>1. CASE HasLine(vm.img, n)
  BY <1>1, ExceptMade, ProceedStep DEF GotoLine
<1>2. CASE ~HasLine(vm.img, n)
  BY <1>2, RaiseStep DEF GotoLine, Unnumbered
<1>3. QED
  BY <1>1, <1>2

-----------------------------------------------------------------------------
(* The invariant outlives every step of the machine that stays in its line.*)

LEMMA RunningTyped ==
  ASSUME IInv, Running
  PROVE  /\ Made(vm, vm.img) /\ ErrOK(err) /\ GoodResult(result)
         /\ InProgram \/ mode = "immediate"
BY DEF IInv, Running, RunsProgram, RunsTyped, InProgram, Made, GoodResult

LEMMA QuietKeeps ==
  ASSUME IInv, Running, VMStep,
         UNCHANGED <<program, edited, paused, mode, line>>,
         DOMAIN vars' = Vars, ops' \in 0..MaxOps, typed' \in 0..MaxTyped,
         {stopped', trapCtrlC', intr'} \subseteq BOOLEAN,
         InProgram => \/ HasLine(vm.img, line)
                      \/ vm'.pc = vm.pc /\ err' = err /\ stopped' = stopped
  PROVE  IInv'
<1>1. ErrOK(err')
  BY DEF IInv, VMStep, ErrorStep
<1>2. "img" \in DOMAIN vm' /\ vm'.img = vm.img
  BY DEF VMStep, Made
<1>3. err'.inHandler =>
        \/ err.inHandler /\ err'.resumeLine = err.resumeLine
        \/ err'.resumeLine = line
  BY DEF VMStep, ErrorStep
<1>4. TypeOK'
  <2>1. \E i \in Images : vm.img = Image[i]
    BY DEF IInv, RunsProgram, RunsTyped, Running, InProgram, Made, Images
  <2>2. \A v \in {paused', vm'} :
          v # NoVM => "img" \in DOMAIN v /\ \E i \in Images : v.img = Image[i]
    BY <1>2, <2>1 DEF IInv, TypeOK
  <2>3. QED
    BY <1>1, <2>2 DEF IInv, TypeOK, ErrOK, VMStep, GoodResult
<1>5. RunsProgram'
  <2>1. SUFFICES ASSUME InProgram
                 PROVE  /\ program \in Programs /\ Image[program].ok
                        /\ Made(vm', Image[program])
                        /\ paused = NoVM
                        /\ Entered'
                        /\ stopped' => HasLine(vm.img, line)
                        /\ err'.inHandler => HasLine(vm.img, err'.resumeLine)
    BY <1>2 DEF RunsProgram, InProgram
  <2>2. /\ program \in Programs /\ Image[program].ok
        /\ Made(vm, Image[program]) /\ paused = NoVM
        /\ Entered
        /\ stopped => HasLine(vm.img, line)
        /\ err.inHandler => HasLine(vm.img, err.resumeLine)
    BY <2>1 DEF IInv, RunsProgram
  <2>3. CASE HasLine(vm.img, line)
    BY <1>2, <1>3, <2>2, <2>3 DEF Made, Entered
  <2>4. CASE ~HasLine(vm.img, line)
    <3>1. vm'.pc = vm.pc /\ err' = err /\ stopped' = stopped
      BY <2>1, <2>4
    <3>2. QED
      BY <1>2, <2>2, <2>4, <3>1 DEF Made, Entered
  <2>5. QED
    BY <2>3, <2>4
<1>6. RunsTyped'
  BY <1>2 DEF IInv, RunsTyped, Made
<1>7. CanContinue'
  BY <1>3 DEF IInv, CanContinue
<1>8. QED
  BY <1>1, <1>4, <1>5, <1>6, <1>7 DEF IInv

(* An instruction that is not the number of a line. *)
LEMMA ExecutingKeeps ==
  ASSUME IInv, NEW op, op # "line", Executing(op), VMStep, line' = line,
         DOMAIN vars' = Vars, {stopped', trapCtrlC'} \subseteq BOOLEAN
  PROVE  IInv'
<1>1. Running /\ ops' = ops + 1 /\ ops < MaxOps /\ Op # "line"
  BY DEF Executing
<1>2. UNCHANGED <<program, edited, paused, mode, intr, typed>>
  BY DEF Executing, session
<1>3. ops' \in 0..MaxOps /\ typed' \in 0..MaxTyped /\ intr' \in BOOLEAN
  BY <1>1, <1>2, BasicAssumption DEF IInv, TypeOK
<1>4. InProgram => HasLine(vm.img, line)
  BY <1>1 DEF IInv, RunsProgram, Entered, Op, Instr
<1>5. QED
  BY <1>1, <1>2, <1>3, <1>4, QuietKeeps

(* What happens while the machine waits, or instead of an instruction.     *)
LEMMA WaitingKeeps ==
  ASSUME IInv, Running, UNCHANGED <<program, edited, paused, mode, line>>,
         UNCHANGED <<trapCtrlC, stopped>>,
         VMStep, \/ Traps(err)
                 \/ vm'.pc = vm.pc /\ err' = err,
         DOMAIN vars' = Vars, ops' \in 0..MaxOps, typed' \in 0..MaxTyped,
         intr' \in BOOLEAN
  PROVE  IInv'
<1>1. {stopped', trapCtrlC', intr'} \subseteq BOOLEAN
  BY DEF IInv, TypeOK
<1>2. Traps(err) /\ InProgram => HasLine(vm.img, line)
  BY DEF IInv, RunsProgram, Entered, Traps
<1>3. QED
  BY <1>1, <1>2, QuietKeeps

LEMMA ExecutingTyped ==
  ASSUME IInv, NEW op, Executing(op)
  PROVE  /\ ErrOK(err) /\ GoodResult(result)
         /\ Made(vm, vm.img) /\ Made(Next1, vm.img)
         /\ \A n : Made(Popped(n), vm.img)
         /\ \A v, x : Made(v, vm.img) => Made(Push(v, x), vm.img)
<1>1. Running
  BY DEF Executing
<1>2. QED
  BY <1>1, RunningTyped, FramesMade

(* An instruction that changes no more than the frames.                    *)
LEMMA FramesKeep ==
  ASSUME IInv, NEW op, op # "line", Executing(op), VMStep, OnlyFrames
  PROVE  IInv'
<1>1. DOMAIN vars' = Vars /\ line' = line /\ {stopped', trapCtrlC'} \subseteq BOOLEAN
  BY DEF OnlyFrames, NoIO, IInv, TypeOK
<1>2. QED
  BY <1>1, ExecutingKeeps

LEMMA ProceedKeeps ==
  ASSUME IInv, NEW op, op # "line", Executing(op),
         NEW v, Made(v, vm.img), Proceed(v), OnlyFrames
  PROVE  IInv'
<1>1. VMStep
  BY ExecutingTyped, ProceedStep
<1>2. QED
  BY <1>1, FramesKeep

-----------------------------------------------------------------------------
(* The instructions, in the order of BasicVM.                              *)

LEMMA LineKeeps ==
  ASSUME IInv, Line
  PROVE  IInv'
<1>1. /\ Running /\ ops' = ops + 1 /\ ops < MaxOps /\ Op = "line"
      /\ UNCHANGED <<program, edited, paused, mode, intr, typed, err, result,
                     stopped, trapCtrlC, vars>>
      /\ line' = Instr.arg /\ vm' = Next1
  BY DEF Line, Executing, session, Proceed, NoIO
<1>2. Made(vm, vm.img) /\ Made(Next1, vm.img)
  BY <1>1, RunningTyped, FramesMade
<1>3. vm.pc \in DOMAIN vm.img.code /\ vm.img.code[vm.pc].op = "line"
  BY <1>1 DEF Op, Instr
<1>4. InProgram
  <2>1. mode # "immediate"
    BY <1>3, ImageAssumption DEF IInv, RunsTyped, Made
  <2>2. QED
    BY <1>1, <2>1, RunningTyped
<1>5. /\ program \in Programs /\ Image[program].ok /\ vm.img = Image[program]
      /\ paused = NoVM /\ (err.inHandler => HasLine(vm.img, err.resumeLine))
  BY <1>4 DEF IInv, RunsProgram, Made
<1>6. HasLine(vm.img, line')
  BY <1>1, <1>3, <1>5, ImageAssumption DEF Instr
<1>7. vm'.img = vm.img /\ "img" \in DOMAIN vm'
  BY <1>1, <1>2 DEF Made
<1>8. TypeOK'
  <2>1. \A v \in {paused', vm'} :
          v # NoVM => "img" \in DOMAIN v /\ \E i \in Images : v.img = Image[i]
    BY <1>1, <1>5, <1>7 DEF Images
  <2>2. ops' \in 0..MaxOps
    BY <1>1, BasicAssumption DEF IInv, TypeOK
  <2>3. QED
    BY <1>1, <2>1, <2>2 DEF IInv, TypeOK
<1>9. RunsProgram'
  BY <1>1, <1>5, <1>6, <1>7 DEF RunsProgram, Entered, Made
<1>10. RunsTyped' /\ CanContinue'
  BY <1>1, <1>4, <1>5 DEF RunsTyped, CanContinue, InProgram
<1>11. QED
  BY <1>1, <1>8, <1>9, <1>10 DEF IInv

LEMMA OperandsKeep ==
  ASSUME IInv, PushNum \/ LoadVar \/ StoreVar \/ Dup \/ BinOp \/ Neg \/ Pos \/ Not
  PROVE  IInv'
<1>1. CASE PushNum
  BY <1>1, ExecutingTyped, ProceedKeeps DEF PushNum
<1>2. CASE LoadVar
  BY <1>2, ExecutingTyped, ProceedKeeps DEF LoadVar
<1>3. CASE StoreVar
  <2>1. /\ Executing("storeVar") /\ Proceed(Popped(1)) /\ line' = line
        /\ {stopped', trapCtrlC'} \subseteq BOOLEAN
    BY <1>3 DEF StoreVar, NoIO, IInv, TypeOK
  <2>2. DOMAIN vars' = Vars
    BY <1>3 DEF StoreVar, IInv, TypeOK
  <2>3. VMStep
    BY <2>1, ExecutingTyped, ProceedStep
  <2>4. QED
    BY <2>1, <2>2, <2>3, ExecutingKeeps
<1>4. CASE Dup
  BY <1>4, ExecutingTyped, ProceedKeeps DEF Dup
<1>5. CASE BinOp
  <2>1. Executing("bin") /\ OnlyFrames
    BY <1>5 DEF BinOp
  <2>2. DivisionBy0 \in Nat
    BY DEF DivisionBy0
  <2>3. VMStep
    BY <1>5, <2>1, <2>2, ExecutingTyped, RaiseStep, ProceedStep DEF BinOp
  <2>4. QED
    BY <2>1, <2>3, FramesKeep
<1>6. CASE Neg
  BY <1>6, ExecutingTyped, ProceedKeeps DEF Neg
<1>7. CASE Pos
  BY <1>7, ExecutingTyped, ProceedKeeps DEF Pos
<1>8. CASE Not
  BY <1>8, ExecutingTyped, ProceedKeeps DEF Not
<1>9. QED
  BY <1>1, <1>2, <1>3, <1>4, <1>5, <1>6, <1>7, <1>8

LEMMA JumpsKeep ==
  ASSUME IInv, Jump \/ JumpFalse \/ JumpTrue
  PROVE  IInv'
<1>1. CASE Jump
  <2>1. Executing("jump") /\ Proceed([vm EXCEPT !.pc = Instr.to]) /\ OnlyFrames
    BY <1>1 DEF Jump
  <2>2. VMStep
    BY <2>1, ExecutingTyped, ExceptMade, ProceedStep
  <2>3. QED
    BY <2>1, <2>2, FramesKeep
<1>2. CASE JumpFalse
  <2>1. Executing("jumpFalse") /\ OnlyFrames
    BY <1>2 DEF JumpFalse
  <2>2. \/ Proceed(Popped(1))
        \/ Proceed([Popped(1) EXCEPT !.pc = Instr.to])
    BY <1>2 DEF JumpFalse
  <2>3. VMStep
    BY <2>1, <2>2, ExecutingTyped, ExceptMade, ProceedStep
  <2>4. QED
    BY <2>1, <2>3, FramesKeep
<1>3. CASE JumpTrue
  <2>1. Executing("jumpTrue") /\ OnlyFrames
    BY <1>3 DEF JumpTrue
  <2>2. \/ Proceed(Popped(1))
        \/ Proceed([Popped(1) EXCEPT !.pc = Instr.to])
    BY <1>3 DEF JumpTrue
  <2>3. VMStep
    BY <2>1, <2>2, ExecutingTyped, ExceptMade, ProceedStep
  <2>4. QED
    BY <2>1, <2>3, FramesKeep
<1>4. QED
  BY <1>1, <1>2, <1>3

LEMMA SubroutinesKeep ==
  ASSUME IInv, Goto \/ Gosub \/ Return \/ OnJump
  PROVE  IInv'
<1>0. Unnumbered \in Nat /\ ReturnWithoutGosub \in Nat
  BY DEF Unnumbered, ReturnWithoutGosub
<1>1. CASE Goto
  <2>1. Executing("goto") /\ OnlyFrames
    BY <1>1 DEF Goto
  <2>2. Raise(Next1, Unnumbered) \/ GotoLine(Popped(1), Top(0))
    BY <1>1 DEF Goto
  <2>3. VMStep
    BY <1>0, <2>1, <2>2, ExecutingTyped, RaiseStep, GotoLineStep
  <2>4. QED
    BY <2>1, <2>3, FramesKeep
<1>2. CASE Gosub
  <2>1. Executing("gosub") /\ OnlyFrames
    BY <1>2 DEF Gosub
  <2>2. PICK frames :
          \/ Raise(Next1, Unnumbered)
          \/ GotoLine([Popped(1) EXCEPT !.gosub = frames], Top(0))
    BY <1>2 DEF Gosub
  <2>3. VMStep
    BY <1>0, <2>1, <2>2, ExecutingTyped, ExceptMade, RaiseStep, GotoLineStep
  <2>4. QED
    BY <2>1, <2>3, FramesKeep
<1>3. CASE Return
  <2>1. Executing("return") /\ OnlyFrames
    BY <1>3 DEF Return
  <2>2. \/ Raise(Next1, Unnumbered)
        \/ Raise(Next1, ReturnWithoutGosub)
        \/ Proceed([vm EXCEPT !.pc = Last(vm.gosub), !.gosub = Front(@)])
    BY <1>3 DEF Return
  <2>3. Made([vm EXCEPT !.pc = Last(vm.gosub), !.gosub = Front(@)], vm.img)
    BY <2>1, ExecutingTyped DEF Made
  <2>4. VMStep
    BY <1>0, <2>1, <2>2, <2>3, ExecutingTyped, RaiseStep, ProceedStep
  <2>5. QED
    BY <2>1, <2>4, FramesKeep
<1>4. CASE OnJump
  <2>1. Executing("onJump") /\ OnlyFrames
    BY <1>4 DEF OnJump
  <2>2. PICK n, t, frames :
          \/ Proceed(Popped(n))
          \/ GotoLine(Popped(n), t)
          \/ Raise(Popped(n), Unnumbered)
          \/ GotoLine([Popped(n) EXCEPT !.gosub = frames], t)
    BY <1>4 DEF OnJump
  <2>3. VMStep
    BY <1>0, <2>1, <2>2, ExecutingTyped, ExceptMade, RaiseStep, GotoLineStep,
       ProceedStep
  <2>4. QED
    BY <2>1, <2>3, FramesKeep
<1>5. QED
  BY <1>1, <1>2, <1>3, <1>4

LEMMA ForKeeps ==
  ASSUME IInv, ForBegin \/ ForNext
  PROVE  IInv'
<1>1. CASE ForBegin
  <2>1. /\ Executing("forBegin") /\ line' = line
        /\ {stopped', trapCtrlC'} \subseteq BOOLEAN
    BY <1>1 DEF ForBegin, NoIO, IInv, TypeOK
  <2>2. DOMAIN vars' = Vars
    BY <1>1 DEF ForBegin, IInv, TypeOK
  <2>3. \/ Proceed([Popped(3) EXCEPT !.fors = Append(@,
              [name |-> Instr.arg, end |-> Top(1), step |-> Top(0),
               body |-> vm.pc + 1])])
        \/ Proceed([Popped(3) EXCEPT !.pc = Instr.to])
    BY <1>1 DEF ForBegin
  <2>4. VMStep
    BY <2>1, <2>3, ExecutingTyped, ExceptMade, ProceedStep
  <2>5. QED
    BY <2>1, <2>2, <2>4, ExecutingKeeps
<1>2. CASE ForNext
  <2>1. /\ Executing("forNext") /\ line' = line
        /\ {stopped', trapCtrlC'} \subseteq BOOLEAN
    BY <1>2, ZenonT(60) DEF ForNext, NoIO, IInv, TypeOK
  <2>2. DOMAIN vars' = Vars
    BY <1>2, ZenonT(60) DEF ForNext, IInv, TypeOK
  <2>3. \/ Raise([Next1 EXCEPT !.fors = <<>>], Unnumbered)
        \/ \E k : \/ Proceed([vm EXCEPT !.pc = vm.fors[k].body,
                                        !.fors = SubSeq(@, 1, k)])
                  \/ Proceed([Next1 EXCEPT !.fors = SubSeq(@, 1, k - 1)])
    BY <1>2 DEF ForNext
  <2>4. CASE Raise([Next1 EXCEPT !.fors = <<>>], Unnumbered)
    <3>1. Made([Next1 EXCEPT !.fors = <<>>], vm.img) /\ Unnumbered \in Nat
      BY <2>1, ExecutingTyped, ExceptMade DEF Unnumbered
    <3>2. VMStep
      BY <2>1, <2>4, <3>1, ExecutingTyped, RaiseStep
    <3>3. QED
      BY <2>1, <2>2, <3>2, ExecutingKeeps
  <2>5. CASE \E k : \/ Proceed([vm EXCEPT !.pc = vm.fors[k].body,
                                        !.fors = SubSeq(@, 1, k)])
                   \/ Proceed([Next1 EXCEPT !.fors = SubSeq(@, 1, k - 1)])
    <3>1. \A k : /\ Made([vm EXCEPT !.pc = vm.fors[k].body,
                                    !.fors = SubSeq(@, 1, k)], vm.img)
                /\ Made([Next1 EXCEPT !.fors = SubSeq(@, 1, k - 1)], vm.img)
      BY <2>1, ExecutingTyped DEF Made
    <3>2. VMStep
      BY <2>1, <2>5, <3>1, ExecutingTyped, ProceedStep
    <3>3. QED
      BY <2>1, <2>2, <3>2, ExecutingKeeps
  <2>6. QED
    BY <2>3, <2>4, <2>5
<1>3. QED
  BY <1>1, <1>2

LEMMA FunctionsKeep ==
  ASSUME IInv, DefFn \/ Call \/ FnReturn
  PROVE  IInv'
<1>1. CASE DefFn
  <2>1. Executing("defFn") /\ OnlyFrames
    BY <1>1 DEF DefFn
  <2>2. PICK fns : Proceed([Next1 EXCEPT !.fns = fns])
    BY <1>1 DEF DefFn
  <2>3. VMStep
    BY <2>1, <2>2, ExecutingTyped, ExceptMade, ProceedStep
  <2>4. QED
    BY <2>1, <2>3, FramesKeep
<1>2. CASE Call
  <2>1. Executing("call") /\ line' = line /\ stopped' \in BOOLEAN
    BY <1>2 DEF Call, IInv, TypeOK
  <2>2. trapCtrlC' \in BOOLEAN
    BY <1>2 DEF Call, IInv, TypeOK
  <2>3. PICK f, argc :
          \/ CallUser(f, argc)
          \/ Raise(Popped(argc), UndefinedFunction) /\ UNCHANGED vars
          \/ Proceed(Push(Popped(argc), BuiltinOf(f))) /\ UNCHANGED vars
    BY <1>2 DEF Call
  <2>4. UndefinedFunction \in Nat /\ ArgumentCount \in Nat
    BY DEF UndefinedFunction, ArgumentCount
  <2>5. DOMAIN vars = Vars
    BY DEF IInv, TypeOK
  <2>6. CASE CallUser(f, argc)
    <3>1. DOMAIN vars' = Vars
      BY <2>5, <2>6 DEF CallUser
    <3>2. PICK ret, calls :
            \/ Raise(Popped(argc), ArgumentCount)
            \/ Proceed([Popped(argc) EXCEPT !.pc = ret, !.calls = calls])
      BY <2>6 DEF CallUser
    <3>3. Made([Popped(argc) EXCEPT !.pc = ret, !.calls = calls], vm.img)
      BY <2>1, ExecutingTyped DEF Made
    <3>4. VMStep
      BY <2>1, <2>4, <3>2, <3>3, ExecutingTyped, RaiseStep, ProceedStep
    <3>5. QED
      BY <2>1, <2>2, <3>1, <3>4, ExecutingKeeps
  <2>7. CASE Raise(Popped(argc), UndefinedFunction) /\ UNCHANGED vars
    <3>1. VMStep
      BY <2>1, <2>4, <2>7, ExecutingTyped, RaiseStep
    <3>2. QED
      BY <2>1, <2>2, <2>5, <2>7, <3>1, ExecutingKeeps
  <2>8. CASE Proceed(Push(Popped(argc), BuiltinOf(f))) /\ UNCHANGED vars
    <3>1. VMStep
      BY <2>1, <2>8, ExecutingTyped, ProceedStep
    <3>2. QED
      BY <2>1, <2>2, <2>5, <2>8, <3>1, ExecutingKeeps
  <2>9. QED
    BY <2>3, <2>6, <2>7, <2>8
<1>3. CASE FnReturn
  <2>1. /\ Executing("fnReturn") /\ line' = line
        /\ {stopped', trapCtrlC'} \subseteq BOOLEAN
    BY <1>3 DEF FnReturn, NoIO, IInv, TypeOK
  <2>2. DOMAIN vars' = Vars
    BY <1>3 DEF FnReturn, IInv, TypeOK
  <2>3. PICK ret, calls :
          \/ Raise(Popped(1), Unnumbered)
          \/ Proceed([vm EXCEPT !.pc = ret, !.calls = calls])
    BY <1>3 DEF FnReturn
  <2>4. Made([vm EXCEPT !.pc = ret, !.calls = calls], vm.img) /\ Unnumbered \in Nat
    BY <2>1, ExecutingTyped DEF Made, Unnumbered
  <2>5. VMStep
    BY <2>1, <2>3, <2>4, ExecutingTyped, RaiseStep, ProceedStep
  <2>6. QED
    BY <2>1, <2>2, <2>5, ExecutingKeeps
<1>4. QED
  BY <1>1, <1>2, <1>3

(* RESUME leaves the handler, and may come to it again at once.            *)
LEMMA ResumeToStep ==
  ASSUME NEW v, NEW ok, NEW ip, ErrOK(err), GoodResult(result),
         Made(v, vm.img), ResumeTo(v, ok, ip)
  PROVE  VMStep
<1>1. ResumeAndNoError \in Nat /\ Unnumbered \in Nat
  BY DEF ResumeAndNoError, Unnumbered
<1>2. CASE Raise(v, ResumeAndNoError)
  BY <1>1, <1>2, RaiseStep
<1>3. CASE LeaveHandler(v, ok, ip)
  <2> DEFINE e == [err EXCEPT !.inHandler = FALSE]
  <2>1. ErrOK(e) /\ ~e.inHandler
    BY DEF ErrOK
  <2>2. CASE err' = e /\ vm' = [v EXCEPT !.pc = ip] /\ result' = result
    <3>1. ErrorStep
      BY <2>1, <2>2 DEF ErrorStep
    <3>2. Made(vm', vm.img)
      BY <2>2 DEF Made
    <3>3. QED
      BY <2>2, <3>1, <3>2 DEF VMStep
  <2>3. CASE RaiseIn(e, v, Unnumbered)
    <3>1. /\ Made(vm', vm.img) /\ GoodResult(result') /\ ErrOK(err')
          /\ err' = e \/ err'.resumeLine = line
      BY <1>1, <2>1, <2>3, RaiseInStep
    <3>2. QED
      BY <2>1, <3>1 DEF VMStep, ErrorStep
  <2>4. QED
    BY <1>3, <2>2, <2>3 DEF LeaveHandler
<1>4. QED
  BY <1>2, <1>3 DEF ResumeTo

LEMMA HandlersKeep ==
  ASSUME IInv, OnError \/ ResumeNext \/ ResumeRetry \/ ResumeLine
  PROVE  IInv'
<1>1. CASE OnError
  <2>1. /\ Executing("onError") /\ line' = line
        /\ {stopped', trapCtrlC'} \subseteq BOOLEAN /\ DOMAIN vars' = Vars
    BY <1>1 DEF OnError, NoIO, IInv, TypeOK
  <2>2. ErrorStep
    <3>1. err' = [err EXCEPT !.onErrorLine = Top(0)]
      BY <1>1 DEF OnError
    <3>2. ErrOK(err)
      BY DEF IInv
    <3>3. QED
      BY <3>1, <3>2 DEF ErrorStep, ErrOK
  <2>3. VMStep
    BY <1>1, <2>1, <2>2, ExecutingTyped DEF OnError, VMStep
  <2>4. QED
    BY <2>1, <2>3, ExecutingKeeps
<1>2. CASE ResumeNext
  <2>1. Executing("resumeNext") /\ OnlyFrames
    BY <1>2 DEF ResumeNext
  <2>2. VMStep
    BY <1>2, <2>1, ExecutingTyped, ResumeToStep DEF ResumeNext
  <2>3. QED
    BY <2>1, <2>2, FramesKeep
<1>3. CASE ResumeRetry
  <2>1. Executing("resumeRetry") /\ OnlyFrames
    BY <1>3 DEF ResumeRetry
  <2>2. VMStep
    BY <1>3, <2>1, ExecutingTyped, ResumeToStep DEF ResumeRetry
  <2>3. QED
    BY <2>1, <2>2, FramesKeep
<1>4. CASE ResumeLine
  <2>1. Executing("resumeLine") /\ OnlyFrames
    BY <1>4 DEF ResumeLine
  <2>2. PICK ok, ip : ResumeTo(Popped(1), ok, ip)
    BY <1>4 DEF ResumeLine
  <2>3. VMStep
    BY <2>1, <2>2, ExecutingTyped, ResumeToStep
  <2>4. QED
    BY <2>1, <2>3, FramesKeep
<1>5. QED
  BY <1>1, <1>2, <1>3, <1>4

LEMMA DataKeeps ==
  ASSUME IInv, Read \/ Restore \/ RestoreAt
  PROVE  IInv'
<1>1. CASE Read
  <2>1. /\ Executing("read") /\ line' = line
        /\ {stopped', trapCtrlC'} \subseteq BOOLEAN
    BY <1>1 DEF Read, IInv, TypeOK
  <2>2. DOMAIN vars' = Vars
    BY <1>1 DEF Read, IInv, TypeOK
  <2>3. OutOfData \in Nat
    BY DEF OutOfData
  <2>4. VMStep
    BY <1>1, <2>1, <2>3, ExecutingTyped, RaiseStep, ProceedStep DEF Read
  <2>5. QED
    BY <2>1, <2>2, <2>4, ExecutingKeeps
<1>2. CASE Restore \/ RestoreAt
  <2>1. PICK op : /\ op # "line" /\ Executing(op)
                  /\ Proceed(Next1) \/ Proceed(Popped(1))
    BY <1>2 DEF Restore, RestoreAt
  <2>2. /\ line' = line /\ {stopped', trapCtrlC'} \subseteq BOOLEAN
        /\ DOMAIN vars' = Vars
    BY <1>2 DEF Restore, RestoreAt, IInv, TypeOK
  <2>3. VMStep
    BY <2>1, ExecutingTyped, ProceedStep
  <2>4. QED
    BY <2>1, <2>2, <2>3, ExecutingKeeps
<1>3. QED
  BY <1>1, <1>2

LEMMA TerminalKeeps ==
  ASSUME IInv, PrintStart \/ PrintItem \/ PrintEnd \/ InputOne \/ Sleep
  PROVE  IInv'
<1>1. CASE PrintStart \/ PrintItem
  <2>1. PICK op, items : /\ op # "line" /\ Executing(op) /\ OnlyFrames
                         /\ \/ Proceed([Next1 EXCEPT !.print = items])
                            \/ Proceed([Popped(1) EXCEPT !.print = items])
    BY <1>1 DEF PrintStart, PrintItem
  <2>2. VMStep
    BY <2>1, ExecutingTyped, ExceptMade, ProceedStep
  <2>3. QED
    BY <2>1, <2>2, FramesKeep
<1>2. CASE PrintEnd \/ InputOne \/ Sleep
  <2>1. PICK op : /\ op # "line" /\ Executing(op)
                  /\ Proceed(Next1) \/ Proceed(Popped(1))
    BY <1>2 DEF PrintEnd, InputOne, Sleep
  <2>2. /\ line' = line /\ {stopped', trapCtrlC'} \subseteq BOOLEAN
        /\ DOMAIN vars' = Vars
    BY <1>2 DEF PrintEnd, InputOne, Sleep, IInv, TypeOK
  <2>3. VMStep
    BY <2>1, ExecutingTyped, ProceedStep
  <2>4. QED
    BY <2>1, <2>2, <2>3, ExecutingKeeps
<1>3. QED
  BY <1>1, <1>2

-----------------------------------------------------------------------------
(* ^C, the waits, and the ways out of the loop.                            *)

LEMMA RaiseTrapped ==
  ASSUME IInv, Running, NEW code \in Nat, Raise(vm, code)
  PROVE  VMStep /\ (Traps(err) \/ (vm'.pc = vm.pc /\ err' = err))
<1>1. VMStep
  BY RunningTyped, RaiseStep
<1>2. ~Traps(err) => vm' = vm /\ err' = err
  BY DEF Raise, RaiseIn
<1>3. QED
  BY <1>1, <1>2

LEMMA InterruptStep ==
  ASSUME IInv, Running, InterruptErr
  PROVE  VMStep /\ (Traps(err) \/ (vm'.pc = vm.pc /\ err' = err))
<1>1. CASE Raise(vm, CtrlCTrap)
  BY <1>1, RaiseTrapped DEF CtrlCTrap
<1>2. CASE result' = <<"interrupted", 0>> /\ UNCHANGED <<vm, err>>
  BY <1>2, RunningTyped DEF VMStep, ErrorStep, GoodResult
<1>3. QED
  BY <1>1, <1>2 DEF InterruptErr

LEMMA WaitsKeep ==
  ASSUME IInv,
         \/ Answered \/ InputInterrupted \/ ReadCtrlC
         \/ SleptEnough \/ SleepInterrupted
  PROVE  IInv'
<1>1. PICK w : Waiting(w)
  BY DEF Answered, InputInterrupted, ReadCtrlC, SleptEnough, SleepInterrupted
<1>2. /\ Running
      /\ UNCHANGED <<program, edited, paused, mode, line, trapCtrlC, stopped, ops>>
  BY <1>1 DEF Waiting, session
<1>3. intr' \in BOOLEAN /\ DOMAIN vars' = Vars
  BY DEF Answered, InputInterrupted, ReadCtrlC, SleptEnough, SleepInterrupted,
         IInv, TypeOK
<1>4. typed' \in 0..MaxTyped
  BY BasicAssumption
  DEF Answered, InputInterrupted, ReadCtrlC, SleptEnough, SleepInterrupted,
      IInv, TypeOK
<1>5. ops' \in 0..MaxOps
  BY <1>2 DEF IInv, TypeOK
<1>6. Raise(vm, IllegalNumber) \/ Proceed(vm) \/ InterruptErr
  BY DEF Answered, InputInterrupted, ReadCtrlC, SleptEnough, SleepInterrupted
<1>7. VMStep /\ (Traps(err) \/ (vm'.pc = vm.pc /\ err' = err))
  <2>1. CASE Raise(vm, IllegalNumber)
    BY <1>2, <2>1, RaiseTrapped DEF IllegalNumber
  <2>2. CASE Proceed(vm)
    <3>1. VMStep
      BY <1>2, <2>2, RunningTyped, ProceedStep
    <3>2. QED
      BY <2>2, <3>1 DEF Proceed
  <2>3. CASE InterruptErr
    BY <1>2, <2>3, InterruptStep
  <2>4. QED
    BY <1>6, <2>1, <2>2, <2>3
<1>8. QED
  BY <1>2, <1>3, <1>4, <1>5, <1>7, WaitingKeeps

LEMMA LeavingKeeps ==
  ASSUME IInv, End \/ Stop
  PROVE  IInv'
<1>1. PICK op : op # "line" /\ Executing(op)
  BY DEF End, Stop
<1>2. vm' = Next1 /\ err' = err /\ result' = <<"ended", 0>>
  BY DEF End, Stop, Leave
<1>3. line' = line /\ DOMAIN vars' = Vars /\ {stopped', trapCtrlC'} \subseteq BOOLEAN
  BY DEF End, Stop, OnlyFrames, NoIO, IInv, TypeOK
<1>4. VMStep
  BY <1>1, <1>2, ExecutingTyped DEF VMStep, ErrorStep, GoodResult
<1>5. QED
  BY <1>1, <1>3, <1>4, ExecutingKeeps

LEMMA LoopKeeps ==
  ASSUME IInv, Chain \/ TooManyIterations \/ HandleInterrupt
  PROVE  IInv'
<1>1. /\ Running
      /\ UNCHANGED <<program, edited, paused, mode, line, trapCtrlC, stopped,
                     vars, typed>>
  BY DEF Chain, TooManyIterations, HandleInterrupt, session, machine, OnlyFrames, NoIO
<1>2. DOMAIN vars' = Vars /\ typed' \in 0..MaxTyped
  BY <1>1 DEF IInv, TypeOK
<1>3. intr' \in BOOLEAN
  BY DEF Chain, TooManyIterations, HandleInterrupt, IInv, TypeOK
<1>4. ops' \in 0..MaxOps
  BY BasicAssumption DEF Chain, TooManyIterations, HandleInterrupt, IInv, TypeOK
<1>5. {stopped', trapCtrlC', intr'} \subseteq BOOLEAN
  BY <1>1, <1>3 DEF IInv, TypeOK
<1>6. CASE Chain
  <2>1. /\ Op = "chain" /\ err' = err /\ result' = <<"ended", 0>>
        /\ vm' = Popped(1) \/ vm' = Next1
    BY <1>6 DEF Chain
  <2>2. Made(vm', vm.img)
    BY <1>1, <2>1, RunningTyped, FramesMade
  <2>3. VMStep
    BY <2>1, <2>2 DEF VMStep, ErrorStep, GoodResult
  <2>4. InProgram => HasLine(vm.img, line)
    BY <2>1 DEF IInv, RunsProgram, Entered, Op, Instr
  <2>5. QED
    BY <1>1, <1>2, <1>4, <1>5, <2>3, <2>4, QuietKeeps
<1>7. CASE TooManyIterations
  <2>1. vm' = vm /\ err' = err /\ result' = <<"failed", Unnumbered>>
    BY <1>7 DEF TooManyIterations, machine
  <2>2. VMStep
    BY <1>1, <2>1, RunningTyped DEF VMStep, ErrorStep, GoodResult, Unnumbered
  <2>3. QED
    BY <1>1, <1>2, <1>3, <1>4, <2>1, <2>2, WaitingKeeps
<1>8. CASE HandleInterrupt
  <2>1. VMStep /\ (Traps(err) \/ (vm'.pc = vm.pc /\ err' = err))
    <3>1. CASE Raise(vm, CtrlCTrap)
      BY <1>1, <3>1, RaiseTrapped DEF CtrlCTrap
    <3>2. CASE result' = <<"interrupted", 0>> /\ UNCHANGED <<vm, err>>
      BY <1>1, <3>2, RunningTyped DEF VMStep, ErrorStep, GoodResult
    <3>3. QED
      BY <1>8, <3>1, <3>2 DEF HandleInterrupt
  <2>2. QED
    BY <1>1, <1>2, <1>3, <1>4, <2>1, WaitingKeeps
<1>9. QED
  BY <1>6, <1>7, <1>8

LEMMA StepKeeps ==
  ASSUME IInv, Step
  PROVE  IInv'
BY LineKeeps, OperandsKeep, JumpsKeep, SubroutinesKeep, ForKeeps, FunctionsKeep,
   HandlersKeep, DataKeeps, TerminalKeeps, WaitsKeep, LeavingKeeps, LoopKeeps
DEF Step

-----------------------------------------------------------------------------
(* The session: what starts, ends, continues and replaces a program.       *)

LEMMA CtrlCKeeps ==
  ASSUME IInv, TypeCtrlC
  PROVE  IInv'
<1>1. /\ UNCHANGED <<program, edited, paused, mode, vm, vars, err, line, stopped,
                     trapCtrlC, result, ops>>
      /\ intr' = TRUE /\ typed' = typed + 1 /\ typed < MaxTyped
  BY DEF TypeCtrlC, session, machine
<1>2. TypeOK'
  BY <1>1, BasicAssumption DEF IInv, TypeOK
<1>3. RunsProgram' /\ RunsTyped' /\ CanContinue'
  BY <1>1 DEF IInv, RunsProgram, RunsTyped, CanContinue, InProgram, Entered, Made
<1>4. QED
  BY <1>1, <1>2, <1>3 DEF IInv

(* Back at Ready, or on the way to the next program, nothing runs.         *)
LEMMA RestKeeps ==
  ASSUME TypeOK', ErrOK(err'), mode' \in {"ready", "chain", "load"}, CanContinue'
  PROVE  IInv'
BY DEF IInv, RunsProgram, RunsTyped, InProgram

LEMMA RestTyped ==
  ASSUME Rest
  PROVE  vm' = NoVM /\ GoodResult(result') /\ ops' \in 0..MaxOps
BY BasicAssumption DEF Rest, GoodResult

LEMMA NoErrorOK == ErrOK(NoError) /\ ~NoError.inHandler /\ NoError.onErrorLine = 0
BY DEF NoError, ErrOK

LEMMA EndKeeps ==
  ASSUME IInv, EndRun \/ EndContinue
  PROVE  IInv'
<1>1. /\ InProgram /\ Pause /\ Rest /\ mode' \in {"ready", "chain"}
      /\ UNCHANGED <<program, vars, err, line, stopped, trapCtrlC, intr, typed>>
  BY DEF EndRun, EndContinue, InProgram
<1>2. /\ program \in Programs /\ Image[program].ok
      /\ Made(vm, Image[program]) /\ paused = NoVM
      /\ stopped => HasLine(vm.img, line)
      /\ err.inHandler => HasLine(vm.img, err.resumeLine)
  BY <1>1 DEF IInv, RunsProgram
<1>3. \/ stopped /\ paused' = vm /\ edited' = FALSE
      \/ paused' = NoVM /\ edited' = edited
  BY <1>1 DEF Pause
<1>4. CanContinue'
  <2>1. CASE stopped /\ paused' = vm /\ edited' = FALSE
    BY <1>1, <1>2, <2>1 DEF CanContinue, Made
  <2>2. CASE paused' = NoVM
    BY <2>2 DEF CanContinue
  <2>3. QED
    BY <1>3, <2>1, <2>2
<1>5. TypeOK'
  <2>1. \A v \in {paused', vm'} :
          v # NoVM => "img" \in DOMAIN v /\ \E i \in Images : v.img = Image[i]
    BY <1>1, <1>2, <1>3, RestTyped DEF Made, Images
  <2>2. QED
    BY <1>1, <1>3, <2>1, RestTyped DEF IInv, TypeOK, GoodResult
<1>6. QED
  BY <1>1, <1>4, <1>5, RestKeeps DEF IInv

LEMMA EndImmediateKeeps ==
  ASSUME IInv, EndImmediate
  PROVE  IInv'
<1>1. /\ Rest /\ mode' \in {"ready", "chain"}
      /\ UNCHANGED <<program, edited, paused, vars, err, line, stopped, trapCtrlC,
                     intr, typed>>
  BY DEF EndImmediate
<1>2. TypeOK'
  BY <1>1, RestTyped DEF IInv, TypeOK, GoodResult
<1>3. CanContinue'
  BY <1>1 DEF IInv, CanContinue
<1>4. QED
  BY <1>1, <1>2, <1>3, RestKeeps DEF IInv

LEMMA ChainKeeps ==
  ASSUME IInv, TakeChain
  PROVE  IInv'
<1>1. mode' \in {"ready", "load"} /\ UNCHANGED <<vm, intr, result, ops, typed>>
  BY DEF TakeChain
<1>2. CASE chain.to \in Programs
  <2>1. /\ program' = chain.to /\ edited' = TRUE /\ stopped' = FALSE
        /\ vars' = Zero /\ err' = NoError /\ paused' = NoVM /\ trapCtrlC' = FALSE
    BY <1>2 DEF TakeChain, ResetRuntime
  <2>2. ErrOK(err')
    BY <2>1, NoErrorOK
  <2>3. TypeOK'
    BY <1>1, <1>2, <2>1, <2>2 DEF IInv, TypeOK, Zero, ErrOK
  <2>4. QED
    BY <1>1, <2>1, <2>2, <2>3, RestKeeps DEF CanContinue
<1>3. CASE chain.to \notin Programs
  <2>1. UNCHANGED <<program, edited, paused, vars, err, line, stopped, trapCtrlC>>
    BY <1>3 DEF TakeChain
  <2>2. TypeOK'
    BY <1>1, <2>1 DEF IInv, TypeOK
  <2>3. CanContinue'
    BY <2>1 DEF IInv, CanContinue
  <2>4. QED
    BY <1>1, <2>1, <2>2, <2>3, RestKeeps DEF IInv
<1>4. QED
  BY <1>2, <1>3

LEMMA EditKeeps ==
  ASSUME IInv, StoreLine \/ DeleteLines \/ Renumber \/ ClearProgram
  PROVE  IInv'
<1>1. /\ mode' = "ready" /\ edited' = TRUE
      /\ program' \in Programs \cup {NoProgram}
      /\ paused' \in {paused, NoVM}
      /\ UNCHANGED <<vm, intr, result, ops, typed>>
  BY DEF StoreLine, DeleteLines, Renumber, ClearProgram, ResetRuntime, AtReady, AtRest
<1>2. \/ UNCHANGED <<vars, err, stopped, trapCtrlC>>
      \/ vars' = Zero /\ err' = NoError /\ stopped' = FALSE /\ trapCtrlC' = FALSE
  BY DEF StoreLine, DeleteLines, Renumber, ClearProgram, ResetRuntime
<1>3. ErrOK(err')
  BY <1>2, NoErrorOK DEF IInv
<1>4. TypeOK'
  BY <1>1, <1>2, <1>3 DEF IInv, TypeOK, Zero, ErrOK
<1>5. QED
  BY <1>1, <1>3, <1>4, RestKeeps DEF CanContinue

LEMMA NewVMMade ==
  ASSUME NEW img, NEW ip, NEW immediate
  PROVE  Made(NewVM(img, ip, immediate), img) /\ NewVM(img, ip, immediate).pc = ip
BY DEF NewVM, Made

LEMMA EnterTyped ==
  ASSUME NEW v, NEW how, Enter(v, how)
  PROVE  GoodResult(result') /\ ops' \in 0..MaxOps
<1>1. result' = <<"running", 0>> /\ ops' = 0
  BY DEF Enter
<1>2. GoodResult(result')
  BY <1>1 DEF GoodResult
<1>3. QED
  BY <1>1, <1>2, BasicAssumption

(* A program starts at the number of a line.                               *)
LEMMA LineIPAtLine ==
  ASSUME NEW p \in Programs, Image[p].ok, NEW n, HasLine(Image[p], n)
  PROVE  /\ LineIP(Image[p], n) \in DOMAIN Image[p].code
         /\ Image[p].code[LineIP(Image[p], n)].op = "line"
<1>1. LineAt(Image[p], n) \in DOMAIN Image[p].lines
  BY DEF HasLine, LineAt
<1>2. QED
  BY <1>1, ImageAssumption DEF LineIP

LEMMA StartKeeps ==
  ASSUME IInv, Start(Image[program]), UNCHANGED <<program, edited, typed>>
  PROVE  IInv'
<1>1. /\ program \in Programs /\ Image[program].ok
      /\ vars' = Zero /\ err' = NoError /\ paused' = NoVM /\ trapCtrlC' = FALSE
      /\ stopped' = FALSE /\ intr' = FALSE
  BY DEF Start, Runnable, ResetRuntime, IInv, TypeOK
<1>2. ErrOK(err') /\ ~err'.inHandler /\ err'.onErrorLine = 0
  BY <1>1, NoErrorOK
<1>3. CanContinue'
  BY <1>1 DEF CanContinue
<1>4. CASE mode' \in {"chain", "ready"} /\ Rest
  <2>1. TypeOK'
    BY <1>1, <1>2, <1>4, RestTyped DEF IInv, TypeOK, GoodResult, Zero, ErrOK
  <2>2. QED
    BY <1>2, <1>3, <1>4, <2>1, RestKeeps
<1>5. CASE \E ip : /\ ip \in DOMAIN Image[program].code
                   /\ Image[program].code[ip].op = "line"
                   /\ Enter(NewVM(Image[program], ip, FALSE), "run")
  <2>1. PICK ip : /\ ip \in DOMAIN Image[program].code
                  /\ Image[program].code[ip].op = "line"
                  /\ vm' = NewVM(Image[program], ip, FALSE) /\ mode' = "run"
                  /\ GoodResult(result') /\ ops' \in 0..MaxOps
    BY <1>5, EnterTyped DEF Enter
  <2>2. "img" \in DOMAIN vm' /\ vm'.img = Image[program] /\ vm'.pc = ip
    <3>1. Made(vm', Image[program]) /\ vm'.pc = ip
      BY <2>1, NewVMMade
    <3>2. QED
      BY <3>1 DEF Made
  <2>3. TypeOK'
    <3>1. \A v \in {paused', vm'} :
            v # NoVM => "img" \in DOMAIN v /\ \E i \in Images : v.img = Image[i]
      BY <1>1, <2>2 DEF Images
    <3>2. QED
      BY <1>1, <1>2, <2>1, <3>1 DEF IInv, TypeOK, Zero, ErrOK, GoodResult
  <2>4. RunsProgram'
    BY <1>1, <1>2, <2>1, <2>2 DEF RunsProgram, Entered, Made
  <2>5. RunsTyped'
    BY <2>1 DEF RunsTyped
  <2>6. QED
    BY <1>2, <1>3, <2>3, <2>4, <2>5 DEF IInv
<1>6. QED
  <2>1. 1 \in DOMAIN Image[program].code /\ Image[program].code[1].op = "line"
    BY <1>1, ImageAssumption
  <2>2. CASE startLine > 0 /\ HasLine(Image[program], startLine)
    <3>1. Enter(NewVM(Image[program], LineIP(Image[program], startLine), FALSE), "run")
      BY <2>2 DEF Start
    <3>2. QED
      BY <1>1, <1>5, <2>2, <3>1, LineIPAtLine
  <2>3. CASE startLine > 0 /\ ~HasLine(Image[program], startLine)
    BY <1>4, <2>3 DEF Start
  <2>4. CASE ~(startLine > 0)
    <3>1. Enter(NewVM(Image[program], 1, FALSE), "run")
      BY <2>4 DEF Start
    <3>2. QED
      BY <1>5, <2>1, <3>1
  <2>5. QED
    BY <2>2, <2>3, <2>4

LEMMA RunKeeps ==
  ASSUME IInv, RunProgram
  PROVE  IInv'
<1>1. UNCHANGED <<program, edited, typed>>
  BY DEF RunProgram
<1>2. CASE Start(Image[program])
  BY <1>1, <1>2, StartKeeps
<1>3. CASE Refuse(Image[program])
  <2>1. /\ mode' = "ready" /\ Rest
        /\ UNCHANGED <<paused, vars, err, line, stopped, trapCtrlC, intr>>
    BY <1>3 DEF Refuse
  <2>2. TypeOK'
    BY <1>1, <2>1, RestTyped DEF IInv, TypeOK, GoodResult
  <2>3. CanContinue'
    BY <1>1, <2>1 DEF IInv, CanContinue
  <2>4. QED
    BY <2>1, <2>2, <2>3, RestKeeps DEF IInv
<1>4. QED
  BY <1>2, <1>3 DEF RunProgram

LEMMA ContKeeps ==
  ASSUME IInv, Cont
  PROVE  IInv'
<1>1. /\ paused # NoVM /\ ~edited
      /\ vm' = paused /\ mode' = "continue"
      /\ GoodResult(result') /\ ops' \in 0..MaxOps
      /\ paused' = NoVM /\ stopped' = FALSE /\ intr' = FALSE
      /\ UNCHANGED <<program, edited, vars, err, line, trapCtrlC, typed>>
  BY EnterTyped DEF Cont, Enter
<1>2. /\ program \in Programs /\ Image[program].ok
      /\ Made(paused, Image[program])
      /\ HasLine(Image[program], line)
      /\ err.inHandler => HasLine(Image[program], err.resumeLine)
  BY <1>1 DEF IInv, CanContinue
<1>3. TypeOK'
  BY <1>1 DEF IInv, TypeOK, GoodResult
<1>4. RunsProgram'
  BY <1>1, <1>2 DEF RunsProgram, Entered, Made
<1>5. RunsTyped' /\ CanContinue'
  BY <1>1 DEF RunsTyped, CanContinue
<1>6. QED
  BY <1>1, <1>3, <1>4, <1>5 DEF IInv

LEMMA ImmediateKeeps ==
  ASSUME IInv, ExecImmediate
  PROVE  IInv'
<1>1. PICK i \in Immediates :
        /\ vm' = NewVM(Image[i], 1, TRUE) /\ mode' = "immediate"
        /\ GoodResult(result') /\ ops' \in 0..MaxOps
  BY EnterTyped DEF ExecImmediate, Enter
<1>2. /\ stopped' = FALSE
      /\ UNCHANGED <<program, edited, paused, vars, err, line, trapCtrlC, intr, typed>>
  BY DEF ExecImmediate
<1>3. Made(vm', Image[i])
  BY <1>1, NewVMMade
<1>4. TypeOK'
  <2>1. \A v \in {paused', vm'} :
          v # NoVM => "img" \in DOMAIN v /\ \E t \in Images : v.img = Image[t]
    BY <1>2, <1>3 DEF Made, Images, IInv, TypeOK
  <2>2. QED
    BY <1>1, <1>2, <2>1 DEF IInv, TypeOK, GoodResult
<1>5. RunsProgram'
  BY <1>1 DEF RunsProgram, InProgram
<1>6. RunsTyped'
  BY <1>3 DEF RunsTyped
<1>7. CanContinue'
  BY <1>2 DEF IInv, CanContinue
<1>8. QED
  BY <1>2, <1>4, <1>5, <1>6, <1>7 DEF IInv

-----------------------------------------------------------------------------
(* The theorems.                                                           *)

LEMMA InitHolds == Init => IInv
<1> SUFFICES ASSUME Init PROVE IInv
  OBVIOUS
<1>1. ErrOK(err)
  BY NoErrorOK DEF Init
<1>2. TypeOK
  <2>1. result = <<"ended", 0>> /\ ops = 0 /\ typed = 0
    BY DEF Init
  <2>2. GoodResult(result) /\ ops \in 0..MaxOps /\ typed \in 0..MaxTyped
    BY <2>1, BasicAssumption DEF GoodResult
  <2>3. QED
    BY <1>1, <2>2 DEF Init, TypeOK, Zero, ErrOK, GoodResult
<1>3. RunsProgram /\ RunsTyped /\ CanContinue
  BY DEF Init, RunsProgram, RunsTyped, CanContinue, InProgram
<1>4. QED
  BY <1>1, <1>2, <1>3 DEF IInv

LEMMA NextKeeps ==
  ASSUME IInv, Next
  PROVE  IInv'
<1>1. CASE Work
  <2>1. Step \/ EndRun \/ EndContinue \/ EndImmediate \/ TakeChain \/ RunProgram
    BY <1>1 DEF Work, RunChained
  <2>2. QED
    BY <2>1, StepKeeps, EndKeeps, EndImmediateKeeps, ChainKeeps, RunKeeps
<1>2. CASE Typed
  <2>1. \/ RunProgram \/ Cont \/ ExecImmediate \/ TypeCtrlC
        \/ StoreLine \/ DeleteLines \/ Renumber \/ ClearProgram
        \/ Answered \/ ReadCtrlC
    BY <1>2 DEF Typed, Run
  <2>2. QED
    BY <2>1, RunKeeps, ContKeeps, ImmediateKeeps, CtrlCKeeps, EditKeeps, WaitsKeep
<1>3. QED
  BY <1>1, <1>2 DEF Next

LEMMA Inductive == Spec => []IInv
<1>1. IInv /\ [Next]_allVars => IInv'
  <2>1. IInv /\ Next => IInv'
    BY NextKeeps
  <2>2. IInv /\ UNCHANGED allVars => IInv'
    BY DEF allVars, IInv, TypeOK, RunsProgram, RunsTyped, CanContinue, InProgram,
           Entered, Made
  <2>3. QED
    BY <2>1, <2>2
<1>2. QED
  BY <1>1, InitHolds, PTL DEF Spec

(* The state of the machine and of the session stays well formed, and a    *)
(* machine that has been made is always one of a compiled image.           *)
THEOREM TypeCorrect == Spec => []TypeOK
<1>1. IInv => TypeOK
  BY DEF IInv
<1>2. QED
  BY <1>1, Inductive, PTL

(* Whatever is typed between STOP and CONT, edits, RUN, CHAIN, NEW and OLD *)
(* among it, CONT goes on with the code of the program in memory or not at *)
(* all (editSeq, pauseSeq and paused of interp.go).                        *)
THEOREM SameProgram == Spec => []ContinuesSameProgram
<1>1. IInv => ContinuesSameProgram
  BY DEF IInv, RunsProgram, CanContinue, ContinuesSameProgram, Made
<1>2. QED
  BY <1>1, Inductive, PTL

(* RESUME in an error handler always finds the line it is to go back to:   *)
(* trap never records a line that the program does not have.               *)
THEOREM HandlerLineKnown == Spec => []HandlerKnowsLine
<1>1. IInv => HandlerKnowsLine
  BY DEF IInv, RunsProgram, HandlerKnowsLine
<1>2. QED
  BY <1>1, Inductive, PTL
=============================================================================
