------------------------------ MODULE BasicVM ------------------------------
(***************************************************************************)
(* The BASIC machine of one job: the P-code VM of pcode_vm.go, the error   *)
(* and ^C traps of plus.go, and the commands at Ready that start, stop,    *)
(* continue and replace a program (interp.go, renum.go, shell.go).         *)
(*                                                                         *)
(* The VM is one goroutine; every opcode is an action.  What comes from    *)
(* outside is what is typed: commands at Ready, answers to INPUT, and ^C,  *)
(* which another goroutine records at any time.                            *)
(*                                                                         *)
(* Code is a sequence of instructions, not of bytes.  Values are numbers.  *)
(* Channels, arrays, MAT, MAP, COMMON and SCALE are left out.              *)
(***************************************************************************)
EXTENDS Integers, FiniteSets, Sequences, SequencesExt

CONSTANTS
  Programs,     \* the texts a session may have in memory or load
  Immediates,   \* the lines it may type at Ready
  Image,        \* what the compiler makes of each of them
  Vars,         \* variables, the names of functions among them
  FnNames,      \* names of user functions
  Inputs, Junk, \* answers to INPUT: numbers, and one that is none
  NoProgram, NoVM,
  MaxOps,       \* pcodeMaxOps
  MaxTyped,     \* bound on the ^Cs typed
  Commands      \* the commands typed at Ready

Images == Programs \cup Immediates
Builtins == {"ERR", "ERL", "SYS"}

ASSUME BasicAssumption ==
  /\ NoProgram \notin Programs
  /\ MaxOps \in Nat /\ MaxTyped \in Nat
  /\ FnNames \subseteq Vars /\ FnNames \cap Builtins = {}
  /\ {"none", "sleep"} \cap Vars = {}

HasLine(img, n) == \E k \in DOMAIN img.lines : img.lines[k].num = n

(* The code of a program starts with the number of its first line, every   *)
(* line starts with its number, and no other number is in it; what is      *)
(* typed at Ready has none.                                                *)
ASSUME ImageAssumption ==
  /\ \A p \in Programs :
       LET img == Image[p]
       IN img.ok => /\ 1 \in DOMAIN img.code /\ img.code[1].op = "line"
                    /\ \A k \in DOMAIN img.lines :
                         /\ img.lines[k].ip \in DOMAIN img.code
                         /\ img.code[img.lines[k].ip].op = "line"
                    /\ \A pc \in DOMAIN img.code :
                         img.code[pc].op = "line" => HasLine(img, img.code[pc].arg)
  /\ \A i \in Immediates : \A pc \in DOMAIN Image[i].code :
       Image[i].code[pc].op # "line"

VARIABLES
  program,     \* m.Program
  edited,      \* m.editSeq # m.pauseSeq
  paused,      \* m.paused
  vm,          \* the pvm whose run loop is executing
  vars,        \* m.vars; a variable that is absent reads 0
  read,        \* m.data with m.dataLines, and m.dataPtr
  err,         \* onErrorLine, errNum, resumeLine (also errLine), inHandler
  line,        \* m.CurrentLine
  stopped,     \* m.Stopped
  trapCtrlC,   \* m.trapCtrlC
  intr,        \* m.intr
  chain,       \* m.chainTo and m.chainLine
  startLine,   \* m.startLine
  mode,        \* "ready", or whose call of vm.run this is
  result,      \* "running" (m.running), or how vm.run returned
  wait,        \* what the VM waits in: SLEEP, or INPUT of a variable
  ops,         \* the instruction count of vm.run
  out,         \* what was printed since the last command
  typed        \* ^Cs typed so far

session == <<program, edited, paused, chain, startLine, mode>>
machine == <<vm, vars, read, err, line, stopped, trapCtrlC, out>>
allVars == <<program, edited, paused, vm, vars, read, err, line, stopped,
           trapCtrlC, intr, chain, startLine, mode, result, wait, ops, out,
           typed>>

-----------------------------------------------------------------------------
(* Images, frames and the machine at rest.                                 *)

NoChain == [to |-> NoProgram, line |-> 0]
NoError == [onErrorLine |-> 0, errNum |-> 0, resumeLine |-> 0,
            inHandler |-> FALSE]
NoData == [data |-> <<>>, ptr |-> 0]
Zero == [x \in Vars |-> 0]

LineAt(img, n) == CHOOSE k \in DOMAIN img.lines : img.lines[k].num = n
LineIP(img, n) == img.lines[LineAt(img, n)].ip
NextLineIP(img, n) == IF LineAt(img, n) < Len(img.lines)
                      THEN img.lines[LineAt(img, n) + 1].ip
                      ELSE img.halt

NewVM(img, ip, immediate) ==
  [img |-> img, pc |-> ip, stack |-> <<>>, gosub |-> <<>>, fors |-> <<>>,
   fns |-> <<>>, calls |-> <<>>, print |-> <<>>, immediate |-> immediate]

(* The error numbers that programs see in ERR. *)
Unnumbered == 1
OutOfData == 57
DivisionBy0 == 61
ReturnWithoutGosub == 72
UndefinedFunction == 73
ArgumentCount == 88
ResumeAndNoError == 104
IllegalNumber == 52
CtrlCTrap == 28

-----------------------------------------------------------------------------
(* Errors.  An error that is trapped makes the handler's line the next; a  *)
(* handler that does not exist, an error inside it, or no handler at all   *)
(* ends the program.  v is the VM when the error is found: what it popped  *)
(* or pushed before stays popped or pushed.                                *)

Traps(e) == e.onErrorLine # 0 /\ ~e.inHandler
HandlerOf(e, code) == [e EXCEPT !.errNum = code, !.resumeLine = line,
                                !.inHandler = TRUE]

RaiseIn(e, v, code) ==
  IF Traps(e)
  THEN /\ err' = HandlerOf(e, code)
       /\ IF HasLine(vm.img, e.onErrorLine)
          THEN /\ vm' = [v EXCEPT !.pc = LineIP(vm.img, e.onErrorLine)]
               /\ UNCHANGED result
          ELSE /\ vm' = v
               /\ result' = <<"failed", Unnumbered>>
  ELSE /\ err' = e
       /\ vm' = v
       /\ result' = <<"failed", code>>

Raise(v, code) == RaiseIn(err, v, code)

Proceed(v) == vm' = v /\ UNCHANGED <<err, result>>

GotoLine(v, n) == IF HasLine(vm.img, n)
                  THEN Proceed([v EXCEPT !.pc = LineIP(vm.img, n)])
                  ELSE Raise(v, Unnumbered)

(* interruptErr: ^C found while the VM waits; m.intr is left as it is. *)
InterruptErr == IF trapCtrlC /\ Traps(err)
                THEN Raise(vm, CtrlCTrap)
                ELSE /\ result' = <<"interrupted", 0>>
                     /\ UNCHANGED <<vm, err>>

-----------------------------------------------------------------------------
(* One round of vm.run: the instruction at pc, unless ^C or the limit on   *)
(* the number of rounds comes first.                                       *)

Running == mode \in {"run", "immediate", "continue"} /\ result = <<"running", 0>>
Instr == vm.img.code[vm.pc]
Op == IF vm.pc \in DOMAIN vm.img.code THEN Instr.op ELSE "end"

(* Mutant: the limit is one round too high. *)
ExecutingOneMore(op) == /\ Running /\ wait = "none" /\ ~intr /\ ops <= MaxOps
                        /\ Op = op
                        /\ ops' = ops + 1
                        /\ UNCHANGED <<session, intr, typed>>

Executing(op) == /\ Running /\ wait = "none" /\ ~intr /\ ops < MaxOps
                 /\ Op = op
                 /\ ops' = ops + 1
                 /\ UNCHANGED <<session, intr, typed>>

Next1 == [vm EXCEPT !.pc = @ + 1]
Top(n) == vm.stack[Len(vm.stack) - n]     \* Top(0) is the operand popped first
Popped(n) == [Next1 EXCEPT !.stack = SubSeq(@, 1, Len(@) - n)]
Push(v, x) == [v EXCEPT !.stack = Append(@, x)]
Truth(x) == x # 0
Bool(b) == IF b THEN -1 ELSE 0

NoIO == UNCHANGED <<read, trapCtrlC, stopped, wait, out>>
OnlyFrames == NoIO /\ UNCHANGED <<vars, line>>

Line == /\ Executing("line")
        /\ line' = Instr.arg
        /\ Proceed(Next1)
        /\ NoIO /\ UNCHANGED vars

PushNum == /\ Executing("pushNum")
           /\ Proceed(Push(Next1, Instr.arg))
           /\ OnlyFrames

LoadVar == /\ Executing("loadVar")
           /\ Proceed(Push(Next1, vars[Instr.arg]))
           /\ OnlyFrames

StoreVar == /\ Executing("storeVar")
            /\ vars' = [vars EXCEPT ![Instr.arg] = Top(0)]
            /\ Proceed(Popped(1))
            /\ NoIO /\ UNCHANGED line

Dup == /\ Executing("dup")
       /\ Proceed(Push(Next1, Top(0)))
       /\ OnlyFrames

Quotient(a, b) == IF (a < 0) = (b < 0)
                  THEN (IF a < 0 THEN -a ELSE a) \div (IF b < 0 THEN -b ELSE b)
                  ELSE -((IF a < 0 THEN -a ELSE a) \div (IF b < 0 THEN -b ELSE b))

(* AND, OR, XOR, EQV and IMP work on words of 16 bits. *)
Bit(x, i) == (x \div 2^i) % 2
BitOp(op, x, y) == CASE op = "AND" -> x * y
                     [] op = "OR" -> x + y - x * y
                     [] op = "XOR" -> (x + y) % 2
                     [] op = "EQV" -> (1 + x + y) % 2
                     [] op = "IMP" -> 1 - x + x * y
WordOp(op, a, b) ==
  LET sum[i \in 0..15] == 2^i * BitOp(op, Bit(a, i), Bit(b, i))
                             + (IF i = 0 THEN 0 ELSE sum[i - 1])
  IN IF sum[15] >= 2^15 THEN sum[15] - 2^16 ELSE sum[15]

BinOpOf(op, a, b) ==
  CASE op = "+" -> a + b
    [] op = "-" -> a - b
    [] op = "*" -> a * b
    [] op = "\\" -> Quotient(a, b)
    [] op = "MOD" -> a - b * Quotient(a, b)
    [] op \in {"AND", "OR", "XOR", "EQV", "IMP"} -> WordOp(op, a, b)
    [] op \in {"=", "=="} -> Bool(a = b)
    [] op = "<>" -> Bool(a # b)
    [] op = "<" -> Bool(a < b)
    [] op = "<=" -> Bool(a <= b)
    [] op = ">" -> Bool(a > b)
    [] op = ">=" -> Bool(a >= b)

BinOp == /\ Executing("bin")
         /\ IF Instr.arg \in {"\\", "MOD"} /\ Top(0) = 0
            THEN Raise(Popped(2), DivisionBy0)
            ELSE Proceed(Push(Popped(2), BinOpOf(Instr.arg, Top(1), Top(0))))
         /\ OnlyFrames

Neg == /\ Executing("neg")
       /\ Proceed(Push(Popped(1), -Top(0)))
       /\ OnlyFrames

Pos == /\ Executing("pos")
       /\ Proceed(Push(Popped(1), Top(0)))
       /\ OnlyFrames

Not == /\ Executing("not")
       /\ Proceed(Push(Popped(1), -Top(0) - 1))
       /\ OnlyFrames

Jump == /\ Executing("jump")
        /\ Proceed([vm EXCEPT !.pc = Instr.to])
        /\ OnlyFrames

JumpFalse == /\ Executing("jumpFalse")
             /\ Proceed(IF Truth(Top(0)) THEN Popped(1)
                        ELSE [Popped(1) EXCEPT !.pc = Instr.to])
             /\ OnlyFrames

JumpTrue == /\ Executing("jumpTrue")
            /\ Proceed(IF Truth(Top(0)) THEN [Popped(1) EXCEPT !.pc = Instr.to]
                       ELSE Popped(1))
            /\ OnlyFrames

-----------------------------------------------------------------------------
(* Lines, subroutines and loops.                                           *)

Goto == /\ Executing("goto")
        /\ IF vm.immediate THEN Raise(Next1, Unnumbered)
           ELSE GotoLine(Popped(1), Top(0))
        /\ OnlyFrames

Gosub == /\ Executing("gosub")
         /\ IF vm.immediate THEN Raise(Next1, Unnumbered)
            ELSE GotoLine([Popped(1) EXCEPT !.gosub = Append(@, vm.pc + 1)],
                          Top(0))
         /\ OnlyFrames

Return == /\ Executing("return")
          /\ IF vm.immediate THEN Raise(Next1, Unnumbered)
             ELSE IF vm.gosub = <<>> THEN Raise(Next1, ReturnWithoutGosub)
             ELSE Proceed([vm EXCEPT !.pc = Last(vm.gosub),
                                     !.gosub = Front(@)])
          /\ OnlyFrames

(* ON x GOTO or GOSUB: arg.n line numbers under the selector. *)
OnJump ==
  /\ Executing("onJump")
  /\ LET n == Instr.arg.n
         i == Top(n)
         v == Popped(n + 1)
     IN IF i < 1 \/ i > n THEN Proceed(v)
        ELSE IF ~Instr.arg.gosub THEN GotoLine(v, Top(n - i))
        ELSE IF vm.immediate THEN Raise(v, Unnumbered)
        ELSE GotoLine([v EXCEPT !.gosub = Append(@, vm.pc + 1)], Top(n - i))
  /\ OnlyFrames

Within(x, step, end) == IF step < 0 THEN x >= end ELSE x <= end

ForBegin ==
  /\ Executing("forBegin")
  /\ vars' = [vars EXCEPT ![Instr.arg] = Top(2)]
  /\ Proceed(IF Within(Top(2), Top(0), Top(1))
             THEN [Popped(3) EXCEPT !.fors = Append(@,
                     [name |-> Instr.arg, end |-> Top(1), step |-> Top(0),
                      body |-> vm.pc + 1])]
             ELSE [Popped(3) EXCEPT !.pc = Instr.to])
  /\ NoIO /\ UNCHANGED line

(* Mutant: NEXT takes the innermost frame, whatever its name. *)
LastFrame(x) == {Len(vm.fors)} \ {0}

(* Frames above the one that NEXT names are dropped, even when none is     *)
(* found.                                                                  *)
FrameOf(x) == {k \in DOMAIN vm.fors : vm.fors[k].name = x
                 /\ \A j \in DOMAIN vm.fors : j > k => vm.fors[j].name # x}

ForNext ==
  /\ Executing("forNext")
  /\ IF FrameOf(Instr.arg) = {}
     THEN Raise([Next1 EXCEPT !.fors = <<>>], Unnumbered) /\ UNCHANGED vars
     ELSE \E k \in FrameOf(Instr.arg) :
            LET f == vm.fors[k]
                x == vars[f.name] + f.step
            IN /\ vars' = [vars EXCEPT ![f.name] = x]
               /\ Proceed(IF Within(x, f.step, f.end)
                          THEN [vm EXCEPT !.pc = f.body,
                                          !.fors = SubSeq(@, 1, k)]
                          ELSE [Next1 EXCEPT !.fors = SubSeq(@, 1, k - 1)])
  /\ NoIO /\ UNCHANGED line

-----------------------------------------------------------------------------
(* User functions.  A call saves the parameters and the variable that      *)
(* carries the result; only the return puts them back.                     *)

SetFn(fns, f, d) == [g \in DOMAIN fns \cup {f} |-> IF g = f THEN d ELSE fns[g]]

DefFn == /\ Executing("defFn")
         /\ Proceed([Next1 EXCEPT !.fns = SetFn(@, Instr.arg.name,
                       [params |-> Instr.arg.params, ip |-> Instr.to])])
         /\ OnlyFrames

ParamsOf(f) == vm.fns[f].params
Saved(f) == Range(ParamsOf(f)) \cup {f}
ArgOf(f, x) == LET k == CHOOSE k \in DOMAIN ParamsOf(f) : ParamsOf(f)[k] = x
               IN Top(Len(ParamsOf(f)) - k)

BuiltinOf(f) == CASE f = "ERR" -> err.errNum
                  [] f = "ERL" -> err.resumeLine
                  [] f = "SYS" -> 0

CallUser(f, argc) ==
  IF argc # Len(ParamsOf(f))
  THEN Raise(Popped(argc), ArgumentCount) /\ UNCHANGED vars
  ELSE /\ vars' = [x \in Vars |-> IF x \in Range(ParamsOf(f)) THEN ArgOf(f, x)
                                  ELSE vars[x]]
       /\ Proceed([Popped(argc) EXCEPT
                     !.pc = vm.fns[f].ip,
                     !.calls = Append(@, [ret |-> vm.pc + 1,
                        saved |-> [x \in Saved(f) |-> vars[x]]])])

(* SYS here is the FIP call -7, which sets or clears the ^C trap. *)
Call ==
  /\ Executing("call")
  /\ LET f == Instr.arg.name
         argc == Instr.arg.argc
     IN \/ /\ f \in DOMAIN vm.fns
           /\ CallUser(f, argc)
           /\ UNCHANGED trapCtrlC
        \/ /\ f \notin DOMAIN vm.fns /\ f \in FnNames
           /\ Raise(Popped(argc), UndefinedFunction)
           /\ UNCHANGED <<vars, trapCtrlC>>
        \/ /\ f \in Builtins
           /\ Proceed(Push(Popped(argc), BuiltinOf(f)))
           /\ trapCtrlC' = IF f = "SYS" THEN Top(0) # 0 ELSE trapCtrlC
           /\ UNCHANGED vars
  /\ UNCHANGED <<line, read, stopped, wait, out>>

FnReturn ==
  /\ Executing("fnReturn")
  /\ IF vm.calls = <<>>
     THEN Raise(Popped(1), Unnumbered) /\ UNCHANGED vars
     ELSE LET fr == Last(vm.calls)
          IN /\ vars' = [x \in Vars |-> IF x \in DOMAIN fr.saved
                                        THEN fr.saved[x] ELSE vars[x]]
             /\ Proceed([vm EXCEPT !.pc = fr.ret, !.calls = Front(@)])
  /\ NoIO /\ UNCHANGED line

-----------------------------------------------------------------------------
(* ON ERROR and RESUME.                                                    *)

OnError == /\ Executing("onError")
           /\ err' = [err EXCEPT !.onErrorLine = Top(0)]
           /\ vm' = Popped(1)
           /\ NoIO /\ UNCHANGED <<vars, line, result>>

(* RESUME leaves the handler first, so that a line it does not find is an  *)
(* error that may be trapped again.  RESUME of a negative number is RESUME *)
(* NEXT.                                                                   *)
LeaveHandler(v, ok, ip) ==
  LET e == [err EXCEPT !.inHandler = FALSE]
  IN IF ok THEN /\ err' = e
                /\ vm' = [v EXCEPT !.pc = ip]
                /\ UNCHANGED result
     ELSE RaiseIn(e, v, Unnumbered)

ResumeTo(v, ok, ip) == IF ~err.inHandler /\ err.errNum = 0
                       THEN Raise(v, ResumeAndNoError)
                       ELSE LeaveHandler(v, ok, ip)

ResumeNext == /\ Executing("resumeNext")
              /\ ResumeTo(Next1, HasLine(vm.img, err.resumeLine),
                          NextLineIP(vm.img, err.resumeLine))
              /\ OnlyFrames

ResumeRetry == /\ Executing("resumeRetry")
               /\ ResumeTo(Next1, HasLine(vm.img, err.resumeLine),
                           LineIP(vm.img, err.resumeLine))
               /\ OnlyFrames

ResumeLine == /\ Executing("resumeLine")
              /\ LET n == IF Top(0) > 0 THEN Top(0) ELSE err.resumeLine
                 IN ResumeTo(Popped(1), HasLine(vm.img, n),
                             IF Top(0) < 0 THEN NextLineIP(vm.img, n)
                             ELSE LineIP(vm.img, n))
              /\ OnlyFrames

-----------------------------------------------------------------------------
(* Data, printing and the terminal.                                        *)

Read == /\ Executing("read")
        /\ IF read.ptr >= Len(read.data)
           THEN Raise(Next1, OutOfData) /\ UNCHANGED <<vars, read>>
           ELSE /\ vars' = [vars EXCEPT ![Instr.arg] = read.data[read.ptr + 1].v]
                /\ read' = [read EXCEPT !.ptr = @ + 1]
                /\ Proceed(Next1)
        /\ UNCHANGED <<line, trapCtrlC, stopped, wait, out>>

Restore == /\ Executing("restore")
           /\ read' = [read EXCEPT !.ptr = 0]
           /\ Proceed(Next1)
           /\ UNCHANGED <<vars, line, trapCtrlC, stopped, wait, out>>

(* restoreAt: the first item of a DATA at or after the line. *)
Before(n) == {k \in DOMAIN read.data :
                \A j \in 1..k : read.data[j].line < n}
RestoreAt == /\ Executing("restoreAt")
             /\ read' = [read EXCEPT !.ptr = IF Top(0) <= 0 THEN 0
                                             ELSE Cardinality(Before(Top(0)))]
             /\ Proceed(Popped(1))
             /\ UNCHANGED <<vars, line, trapCtrlC, stopped, wait, out>>

PrintStart == /\ Executing("printStart")
              /\ Proceed([Next1 EXCEPT !.print = <<>>])
              /\ OnlyFrames

PrintItem == /\ Executing("printItem")
             /\ Proceed([Popped(1) EXCEPT !.print = Append(@, Top(0))])
             /\ OnlyFrames

PrintEnd == /\ Executing("printEnd")
            /\ out' = Append(out, vm.print)
            /\ Proceed(Next1)
            /\ UNCHANGED <<vars, line, read, trapCtrlC, stopped, wait>>

(* INPUT of one variable from the terminal; SLEEP.  Both wait outside the  *)
(* loop's own look at m.intr.                                              *)
InputOne == /\ Executing("inputOne")
            /\ wait' = Instr.arg
            /\ Proceed(Next1)
            /\ UNCHANGED <<vars, line, read, trapCtrlC, stopped, out>>

Sleep == /\ Executing("sleep")
         /\ wait' = IF Top(0) > 0 THEN "sleep" ELSE "none"
         /\ Proceed(Popped(1))
         /\ UNCHANGED <<vars, line, read, trapCtrlC, stopped, out>>

Waiting(w) == /\ Running /\ wait = w
              /\ wait' = "none"
              /\ UNCHANGED <<session, read, line, trapCtrlC, stopped, ops, out>>

Answered == \E x \in Vars, a \in Inputs \cup {Junk} :
  /\ Waiting(x)
  /\ IF a = Junk THEN Raise(vm, IllegalNumber) /\ UNCHANGED vars
     ELSE vars' = [vars EXCEPT ![x] = a] /\ Proceed(vm)
  /\ UNCHANGED <<intr, typed>>

(* Mutant: only a trapped ^C ends the read. *)
InputTrapped == \E x \in Vars :
  /\ Waiting(x) /\ intr /\ trapCtrlC
  /\ InterruptErr
  /\ UNCHANGED <<intr, typed, vars>>

(* ^C from the console is recorded first and then ends the read; from a    *)
(* line it is a character that ends the read and is not recorded.          *)
InputInterrupted == \E x \in Vars :
  /\ Waiting(x) /\ intr
  /\ InterruptErr
  /\ UNCHANGED <<intr, typed, vars>>

ReadCtrlC == \E x \in Vars :
  /\ Waiting(x) /\ typed < MaxTyped
  /\ typed' = typed + 1
  /\ InterruptErr
  /\ UNCHANGED <<intr, vars>>

SleptEnough == /\ Waiting("sleep")
               /\ Proceed(vm)
               /\ UNCHANGED <<intr, typed, vars>>

SleepInterrupted == /\ Waiting("sleep") /\ intr
                    /\ InterruptErr
                    /\ UNCHANGED <<intr, typed, vars>>

-----------------------------------------------------------------------------
(* The ways out of the loop.                                               *)

Leave(how) == result' = <<how, 0>> /\ vm' = Next1 /\ UNCHANGED err

End == /\ Executing("end")
       /\ Leave("ended")
       /\ OnlyFrames

Stop == /\ Executing("stop")
        /\ stopped' = TRUE
        /\ Leave("ended")
        /\ UNCHANGED <<vars, line, read, trapCtrlC, wait, out>>

(* CHAIN, with arg.hasLine when LINE is given. *)
Chain ==
  /\ Running /\ wait = "none" /\ ~intr /\ ops < MaxOps
  /\ Op = "chain"
  /\ chain' = [to |-> Instr.arg.to,
               line |-> IF Instr.arg.hasLine THEN Top(0) ELSE 0]
  /\ result' = <<"ended", 0>>
  /\ vm' = IF Instr.arg.hasLine THEN Popped(1) ELSE Next1
  /\ ops' = ops + 1
  /\ UNCHANGED <<program, edited, paused, startLine, mode, err, intr, typed>>
  /\ OnlyFrames

TooManyIterations == /\ Running /\ wait = "none" /\ ops = MaxOps
                     /\ result' = <<"failed", Unnumbered>>
                     /\ UNCHANGED <<session, machine, intr, wait, ops, typed>>

HandleInterrupt ==
  /\ Running /\ wait = "none" /\ intr /\ ops < MaxOps
  /\ ops' = ops + 1
  /\ IF trapCtrlC /\ Traps(err)
     THEN intr' = FALSE /\ Raise(vm, CtrlCTrap)
     ELSE result' = <<"interrupted", 0>> /\ UNCHANGED <<vm, err, intr>>
  /\ UNCHANGED <<session, typed>> /\ OnlyFrames

Step ==
  \/ Line \/ PushNum \/ LoadVar \/ StoreVar \/ Dup \/ BinOp
  \/ Neg \/ Pos \/ Not
  \/ Jump \/ JumpFalse \/ JumpTrue
  \/ Goto \/ Gosub \/ Return \/ OnJump \/ ForBegin \/ ForNext
  \/ DefFn \/ Call \/ FnReturn
  \/ OnError \/ ResumeNext \/ ResumeRetry \/ ResumeLine
  \/ Read \/ Restore \/ RestoreAt
  \/ PrintStart \/ PrintItem \/ PrintEnd
  \/ InputOne \/ Sleep \/ SleptEnough \/ SleepInterrupted \/ InputInterrupted
  \/ End \/ Stop \/ Chain \/ TooManyIterations \/ HandleInterrupt

(* Another goroutine records ^C, whatever the machine is doing. *)
TypeCtrlC == /\ typed < MaxTyped
             /\ typed' = typed + 1
             /\ intr' = TRUE
             /\ UNCHANGED <<session, machine, result, wait, ops>>

-----------------------------------------------------------------------------
(* Starting a program: resetRuntime, and what runImage sets up.            *)

(* Mutant: the error and its handler outlive the program. *)
ResetVariables == /\ vars' = Zero
                  /\ err' = err
                  /\ line' = 0
                  /\ paused' = NoVM
                  /\ trapCtrlC' = FALSE

ResetRuntime == /\ vars' = Zero
                /\ err' = NoError
                /\ line' = 0
                /\ paused' = NoVM
                /\ trapCtrlC' = FALSE

Rest == vm' = NoVM /\ result' = <<"ended", 0>> /\ ops' = 0 /\ out' = <<>>

Enter(v, how) == /\ vm' = v /\ mode' = how /\ result' = <<"running", 0>>
                 /\ ops' = 0 /\ out' = <<>>

(* RunProgram up to the call of vm.run.  What it refuses before            *)
(* resetRuntime leaves startLine for the next RUN.                         *)
Runnable(img) == program # NoProgram /\ img.ok

Refuse(img) == /\ ~Runnable(img)
               /\ mode' = "ready" /\ Rest
               /\ UNCHANGED <<paused, vars, read, err, line, stopped, trapCtrlC,
                              intr, startLine>>

Start(img) == /\ Runnable(img)
              /\ intr' = FALSE
              /\ ResetRuntime
              /\ stopped' = FALSE
              /\ startLine' = 0
              /\ IF startLine > 0 /\ ~HasLine(img, startLine)
                 THEN /\ mode' = IF chain.to # NoProgram THEN "chain" ELSE "ready"
                      /\ Rest /\ read' = NoData
                 ELSE /\ read' = [data |-> img.data, ptr |-> 0]
                      /\ Enter(NewVM(img, IF startLine > 0
                                          THEN LineIP(img, startLine)
                                          ELSE 1, FALSE), "run")

RunProgram == /\ Refuse(Image[program]) \/ Start(Image[program])
              /\ UNCHANGED <<program, edited, chain, wait, typed>>

(* Each program that a CHAIN loaded is another round of RunProgram. *)
RunChained == mode = "load" /\ RunProgram

TakeChain ==
  /\ mode = "chain"
  /\ chain' = NoChain
  /\ IF chain.to \in Programs
     THEN /\ program' = chain.to
          /\ edited' = TRUE
          /\ ResetRuntime
          /\ stopped' = FALSE /\ read' = NoData
          /\ startLine' = chain.line
          /\ mode' = "load"
     ELSE /\ mode' = "ready"
          /\ UNCHANGED <<program, edited, paused, vars, read, err, line, stopped,
                         trapCtrlC, startLine>>
  /\ UNCHANGED <<vm, intr, result, wait, ops, out, typed>>

(* What runImage and Continue defer. *)
Returned == mode # "ready" /\ result # <<"running", 0>>
Pause == IF stopped THEN paused' = vm /\ edited' = FALSE
                    ELSE paused' = NoVM /\ UNCHANGED edited

EndRun == /\ Returned /\ mode = "run"
          /\ Pause /\ Rest
          /\ mode' = IF chain.to # NoProgram THEN "chain" ELSE "ready"
          /\ UNCHANGED <<program, vars, read, err, line, stopped, trapCtrlC,
                         intr, chain, startLine, wait, typed>>

EndContinue == /\ Returned /\ mode = "continue"
               /\ Pause /\ Rest
               /\ mode' = "ready"
               /\ UNCHANGED <<program, vars, read, err, line, stopped,
                              trapCtrlC, intr, chain, startLine, wait, typed>>

EndImmediate == /\ Returned /\ mode = "immediate"
                /\ Rest
                /\ mode' = IF result = <<"ended", 0>> /\ chain.to # NoProgram
                           THEN "chain" ELSE "ready"
                /\ UNCHANGED <<program, edited, paused, vars, read, err, line,
                               stopped, trapCtrlC, intr, chain, startLine,
                               wait, typed>>

-----------------------------------------------------------------------------
(* What is typed at Ready.                                                 *)

AtReady(c) == mode = "ready" /\ c \in Commands

Run == AtReady("RUN") /\ RunProgram

Cont == /\ AtReady("CONT")
        /\ paused # NoVM /\ stopped /\ ~edited
        /\ Enter(paused, "continue")
        /\ paused' = NoVM
        /\ stopped' = FALSE
        /\ intr' = FALSE
        /\ UNCHANGED <<program, edited, vars, read, err, line, trapCtrlC, chain,
                       startLine, wait, typed>>

ExecImmediate ==
  /\ AtReady("immediate")
  /\ \E i \in Immediates :
       /\ Image[i].ok
       /\ Enter(NewVM(Image[i], 1, TRUE), "immediate")
       /\ read' = [data |-> Image[i].data, ptr |-> 0]
  /\ stopped' = FALSE
  /\ UNCHANGED <<program, edited, paused, vars, err, line, trapCtrlC, intr,
                 chain, startLine, wait, typed>>

AtRest == UNCHANGED <<vm, intr, chain, startLine, mode, result, wait, ops, out,
                      typed>>

(* Mutant: a stored line is not counted as an edit. *)
StoreSilently ==
  /\ AtReady("store")
  /\ program' \in Programs
  /\ UNCHANGED <<edited, paused, vars, read, err, line, stopped, trapCtrlC>>
  /\ AtRest

(* StoreLine and DELETE n-m change the text and count an edit each. *)
StoreLine ==
  /\ AtReady("store")
  /\ program' \in Programs
  /\ edited' = TRUE
  /\ UNCHANGED <<paused, vars, read, err, line, stopped, trapCtrlC>> /\ AtRest

DeleteLines ==
  /\ AtReady("delete")
  /\ program' \in Programs
  /\ edited' = TRUE
  /\ UNCHANGED <<paused, vars, read, err, line, stopped, trapCtrlC>> /\ AtRest

Renumber ==
  /\ AtReady("renum")
  /\ program' \in Programs
  /\ edited' = TRUE
  /\ paused' = NoVM
  /\ UNCHANGED <<vars, read, err, line, stopped, trapCtrlC>> /\ AtRest

(* NEW and OLD: ClearProgram, and the lines of the file. *)
ClearProgram ==
  /\ AtReady("load")
  /\ program' \in Programs \cup {NoProgram}
  /\ edited' = TRUE
  /\ ResetRuntime
  /\ stopped' = FALSE /\ read' = NoData
  /\ AtRest

Typed == Run \/ Cont \/ ExecImmediate \/ StoreLine \/ DeleteLines \/ Renumber
         \/ ClearProgram \/ TypeCtrlC \/ Answered \/ ReadCtrlC

Init == /\ program \in Programs
        /\ edited = TRUE /\ paused = NoVM /\ vm = NoVM
        /\ vars = Zero /\ read = NoData /\ err = NoError /\ line = 0
        /\ stopped = FALSE /\ trapCtrlC = FALSE /\ intr = FALSE
        /\ chain = NoChain /\ startLine = 0
        /\ mode = "ready" /\ result = <<"ended", 0>> /\ wait = "none"
        /\ ops = 0 /\ out = <<>> /\ typed = 0

(* What the job's own goroutine does without anything being typed. *)
Work == Step \/ EndRun \/ EndContinue \/ EndImmediate \/ TakeChain \/ RunChained

Next == Work \/ Typed

Spec == Init /\ [][Next]_allVars

FairSpec == Spec /\ WF_allVars(Work)

-----------------------------------------------------------------------------
(* What must hold.                                                         *)

(* The session and the machine are well formed; a vm that has been made is *)
(* one of a compiled image.                                                *)
TypeOK ==
  /\ program \in Programs \cup {NoProgram}
  /\ {edited, stopped, trapCtrlC, intr} \subseteq BOOLEAN
  /\ \A v \in {paused, vm} :
       v # NoVM => "img" \in DOMAIN v /\ \E i \in Images : v.img = Image[i]
  /\ DOMAIN vars = Vars
  /\ err.errNum \in Nat /\ err.inHandler \in BOOLEAN
  /\ mode \in {"ready", "run", "immediate", "continue", "chain", "load"}
  /\ \/ result[1] \in {"running", "ended", "interrupted"}
     \/ result[1] = "failed" /\ result[2] \in Nat
  /\ ops \in 0..MaxOps /\ typed \in 0..MaxTyped

InProgram == mode \in {"run", "continue"}

(* CONT goes on with the code of the program that is in memory: every      *)
(* command that changes the text, and every CHAIN, makes it refuse         *)
(* (editSeq and pauseSeq, interp.go; renum.go; RunProgram).                *)
ContinuesSameProgram ==
  /\ paused # NoVM /\ ~edited => paused.img = Image[program]
  /\ InProgram => vm.img = Image[program]

(* RESUME and RESUME NEXT find the line they go back to, however the error *)
(* arose: at run time, by ^C, before a STOP and the CONT after it, or in a *)
(* line at Ready or an earlier program, whose error a RUN must not leave   *)
(* over (trap and resume).                                                 *)
HandlerKnowsLine ==
  InProgram /\ err.inHandler => HasLine(vm.img, err.resumeLine)

(* A program that ^C is recorded for ends or comes to its error handler,   *)
(* also when it waits for input that is never typed (handleInterrupt,      *)
(* interruptErr).                                                          *)
CtrlCEnds == Running /\ intr ~> ~Running \/ err.inHandler

(* CONT at Ready goes on after STOP unless the program was edited, as      *)
(* README.md says: a paused program that was not edited can continue.      *)
ContAfterStop == mode = "ready" /\ paused # NoVM /\ ~edited => stopped
============================================================================
