----------------------------- MODULE BasicCode -----------------------------
(***************************************************************************)
(* The compiler of pcode_compile.go: from statements, as the parser leaves *)
(* them, to the images that module BasicVM runs.                           *)
(*                                                                         *)
(* An expression is [k |-> "num", v], [k |-> "var", x], [k |-> "neg", e]   *)
(* ("pos" and "not" too), [k |-> "bin", op, l, r] or [k |-> "call", f,     *)
(* args].  A modified statement is [k |-> "mod", mod, s]: the modifier     *)
(* around what it modifies, so that the last modifier of the line is the   *)
(* outermost.                                                              *)
(* A program is a sequence of [num, stmts], in order of line number.       *)
(***************************************************************************)
EXTENDS Integers, Sequences, SequencesExt

(* The compiler: the code so far, the loops and the multi-line function    *)
(* that are open, the single-line functions whose bodies come last, the    *)
(* DATA, the lines, the line being compiled, and whether it has given up.  *)
New == [code |-> <<>>, loops |-> <<>>, fns |-> <<>>, defs |-> <<>>,
        data |-> <<>>, lines |-> <<>>, line |-> 0, immediate |-> FALSE,
        failed |-> FALSE]

Give(c) == [c EXCEPT !.failed = TRUE]

Here(c) == Len(c.code) + 1

EmitTo(c, op, arg, to) ==
  [c EXCEPT !.code = Append(@, [op |-> op, arg |-> arg, to |-> to])]
Emit(c, op, arg) == EmitTo(c, op, arg, 0)

(* A hole that was never made is at offset 0, the code of the first line's *)
(* number: filling it spoils that instruction.                             *)
NoHole == 0
Patch(c, at, to) == IF at = NoHole THEN [c EXCEPT !.code[1].op = "spoilt"]
                    ELSE [c EXCEPT !.code[at].to = to]

PushLit(c, n) == Emit(c, "pushNum", n)

RECURSIVE Expr(_, _), Exprs(_, _)

Exprs(c, es) == FoldLeft(Expr, c, es)

Expr(c, e) ==
  CASE e.k = "num" -> PushLit(c, e.v)
    [] e.k = "var" -> Emit(c, "loadVar", e.x)
    [] e.k \in {"neg", "pos", "not"} -> Emit(Expr(c, e.e), e.k, 0)
    [] e.k = "bin" -> Emit(Expr(Expr(c, e.l), e.r), "bin", e.op)
    [] e.k = "call" -> Emit(Exprs(c, e.args), "call",
                            [name |-> e.f, argc |-> Len(e.args)])

Store(c, x) == Emit(c, "storeVar", x)

LoadAddStore(c, x, step) ==
  Store(Emit(Expr(Emit(c, "loadVar", x), step), "bin", "+"), x)

-----------------------------------------------------------------------------
(* Loops.  Each open loop remembers what its NEXT will need.               *)

Loop(kind, name, begin, fail, test, step, cond) ==
  [kind |-> kind, name |-> name, begin |-> begin, failAt |-> fail,
   testJump |-> test, step |-> step, cond |-> cond]
Open(c, loop) == [c EXCEPT !.loops = Append(@, loop)]

ForHead(c, s) == Emit(Exprs(c, <<s.start, s.end, s.step>>), "forBegin", s.x)

For(c, s) == Open(ForHead(c, s),
                  Loop("for", s.x, 0, Len(ForHead(c, s).code), 0, s.step, s.end))

ForCond(c, s) ==
  LET a == Store(Expr(c, s.start), s.x)
      b == Emit(a, "jump", 0)
  IN Open(b, Loop(IF s.k = "forUntil" THEN "forUntil" ELSE "forWhile", s.x,
                  Here(b), NoHole, Here(a), s.step, s.cond))

ForCondFinish(c, loop) ==
  LET a == LoadAddStore(c, loop.name, loop.step)
      b == Expr(Patch(a, loop.testJump, Here(a)), loop.cond)
      d == Emit(b, IF loop.kind = "forUntil" THEN "jumpTrue" ELSE "jumpFalse", 0)
      e == EmitTo(d, "jump", 0, loop.begin)
  IN Patch(e, Here(b), Here(e))

WhileUntil(c, s) ==
  LET a == Expr(c, s.cond)
      b == Emit(a, IF s.k = "while" THEN "jumpFalse" ELSE "jumpTrue", 0)
  IN Open(b, Loop(s.k, "", Here(c), Here(a), 0, s.cond, s.cond))

CloseLoop(c, loop) ==
  IF loop.kind = "for"
  THEN LET a == Emit(c, "forNext", loop.name) IN Patch(a, loop.failAt, Here(a))
  ELSE IF loop.kind \in {"forWhile", "forUntil"}
  THEN ForCondFinish(c, loop)
  ELSE LET a == EmitTo(c, "jump", 0, loop.begin) IN Patch(a, loop.failAt, Here(a))

(* NEXT x closes the loops inside that of x too: they fail to where it     *)
(* ends.                                                                   *)
Named(loop, x) == loop.kind \in {"for", "forWhile", "forUntil"} /\ loop.name = x

NextStmt(c, x) ==
  LET n == Len(c.loops)
      m == IF x = "" THEN n
           ELSE SelectLastInSeq(c.loops, LAMBDA loop : Named(loop, x))
  IN IF m = 0 THEN Give(c)
     ELSE LET a == CloseLoop([c EXCEPT !.loops = SubSeq(@, 1, m - 1)], c.loops[m])
          IN FoldLeft(LAMBDA d, loop : Patch(d, loop.failAt, Here(a)), a,
                      SubSeq(c.loops, m + 1, n))

-----------------------------------------------------------------------------
(* Functions.  A single-line body is compiled after the program; a         *)
(* multi-line one stands where it is written, jumped around.               *)

Def(c, s) == LET a == Emit(c, "defFn", [name |-> s.f, params |-> s.params])
             IN [a EXCEPT !.fns = Append(@, [body |-> s.e, patch |-> Here(c)])]

DefMulti(c, s) ==
  IF c.immediate \/ c.defs # <<>> THEN Give(c)
  ELSE LET a == EmitTo(c, "defFn", [name |-> s.f, params |-> s.params],
                       Here(c) + 2)
           b == Emit(a, "jump", 0)
       IN [b EXCEPT !.defs = Append(@, [name |-> s.f, skip |-> Here(a)])]

FnResult(c, f) == Emit(Emit(c, "loadVar", f), "fnReturn", 0)

FnExit(c) == IF c.defs = <<>> THEN Give(c) ELSE FnResult(c, Last(c.defs).name)

FnEnd(c) == IF c.defs = <<>> THEN Give(c)
            ELSE LET a == FnResult([c EXCEPT !.defs = Front(@)], Last(c.defs).name)
                 IN Patch(a, Last(c.defs).skip, Here(a))

EmitFuncs(c) ==
  FoldLeft(LAMBDA d, f : Emit(Expr(Patch(d, f.patch, Here(d)), f.body), "fnReturn", 0),
           c, c.fns)

-----------------------------------------------------------------------------
(* Statements.                                                             *)

Let(c, s) ==
  LET a == Expr(c, s.e)
      b == FoldLeft(LAMBDA d, x : Emit(d, "dup", 0), a, Tail(s.xs))
  IN FoldLeft(Store, b, s.xs)

PrintList(c, s) ==
  LET a == Emit(c, "printStart", 0)
      b == FoldLeft(LAMBDA d, e : Emit(Expr(d, e), "printItem", 0), a, s.es)
  IN Emit(b, "printEnd", 0)

Datum(c, v) == [c EXCEPT !.data = Append(@, [v |-> v, line |-> c.line])]

RECURSIVE Stmt(_, _), Stmts(_, _), Mod(_, _), Branch(_, _)

Stmts(c, ss) == FoldLeft(Stmt, c, ss)

(* A branch is a line number or statements. *)
Branch(c, br) == IF br.isLine THEN Emit(Expr(c, br.line), "goto", 0)
                 ELSE Stmts(c, br.stmts)

If(c, s) ==
  LET a == Expr(c, s.cond)
      b == Branch(Emit(a, "jumpFalse", 0), s.then)
      d == Emit(b, "jump", 0)
      e == Branch(Patch(d, Here(a), Here(d)), s.else[1])
  IN IF s.else = <<>> THEN Patch(b, Here(a), Here(b))
     ELSE Patch(e, Here(b), Here(e))

Negative(mod) == mod \in {"unless", "until", "forUntil"}

(* One modifier around what it modifies. *)
Mod(c, s) ==
  CASE s.mod \in {"if", "unless"} ->
         LET a == Expr(c, s.cond)
             b == Stmt(Emit(a, IF Negative(s.mod) THEN "jumpTrue"
                               ELSE "jumpFalse", 0), s.s)
         IN Patch(b, Here(a), Here(b))
    [] s.mod \in {"while", "until"} ->
         LET a == Expr(c, s.cond)
             b == Stmt(Emit(a, IF Negative(s.mod) THEN "jumpTrue"
                               ELSE "jumpFalse", 0), s.s)
             d == EmitTo(b, "jump", 0, Here(c))
         IN Patch(d, Here(a), Here(d))
    [] s.mod = "for" ->
         LET a == ForHead(c, s)
             b == Emit(Stmt(a, s.s), "forNext", s.x)
         IN Patch(b, Len(a.code), Here(b))
    [] s.mod \in {"forWhile", "forUntil"} ->
         LET a == Store(Expr(c, s.start), s.x)
             b == LoadAddStore(Stmt(Emit(a, "jump", 0), s.s), s.x, s.step)
             d == Expr(Patch(b, Here(a), Here(b)), s.cond)
             e == EmitTo(Emit(d, IF Negative(s.mod) THEN "jumpTrue"
                                 ELSE "jumpFalse", 0), "jump", 0, Here(a) + 1)
         IN Patch(e, Here(d), Here(e))

Stmt(c, s) ==
  CASE s.k = "rem" -> c
    [] s.k = "mod" -> Mod(c, s)
    [] s.k = "data" -> FoldLeft(Datum, c, s.vs)
    [] s.k = "let" -> Let(c, s)
    [] s.k = "print" -> PrintList(c, s)
    [] s.k = "input" -> FoldLeft(LAMBDA d, x : Emit(d, "inputOne", x), c, s.xs)
    [] s.k = "goto" -> Emit(Expr(c, s.e), "goto", 0)
    [] s.k = "gosub" -> Emit(Expr(c, s.e), "gosub", 0)
    [] s.k = "return" -> Emit(c, "return", 0)
    [] s.k = "if" -> If(c, s)
    [] s.k = "for" -> For(c, s)
    [] s.k \in {"forWhile", "forUntil"} -> ForCond(c, s)
    [] s.k = "next" -> NextStmt(c, s.x)
    [] s.k \in {"while", "until"} -> WhileUntil(c, s)
    [] s.k = "read" -> FoldLeft(LAMBDA d, x : Emit(d, "read", x), c, s.xs)
    [] s.k = "restore" -> Emit(c, "restore", 0)
    [] s.k = "restoreAt" -> Emit(Expr(c, s.e), "restoreAt", 0)
    [] s.k = "end" -> Emit(c, "end", 0)
    [] s.k = "stop" -> Emit(c, "stop", 0)
    [] s.k \in {"onGoto", "onGosub"} ->
         Emit(Exprs(Expr(c, s.e), s.lines), "onJump",
              [n |-> Len(s.lines), gosub |-> s.k = "onGosub"])
    [] s.k = "def" -> Def(c, s)
    [] s.k = "defMulti" -> DefMulti(c, s)
    [] s.k = "fnExit" -> FnExit(c)
    [] s.k = "fnEnd" -> FnEnd(c)
    [] s.k = "onError" -> Emit(Expr(c, s.e), "onError", 0)
    [] s.k = "resumeNext" -> Emit(c, "resumeNext", 0)
    [] s.k = "resumeRetry" -> Emit(c, "resumeRetry", 0)
    [] s.k = "resumeLine" -> Emit(Expr(c, s.e), "resumeLine", 0)
    [] s.k = "chain" -> Emit(Exprs(c, s.line), "chain",
                             [to |-> s.to, hasLine |-> s.line # <<>>])
    [] s.k = "sleep" -> Emit(Expr(c, s.e), "sleep", 0)

-----------------------------------------------------------------------------
(* Images.                                                                 *)

CompileLine(c, l) ==
  LET a == Emit([c EXCEPT !.line = l.num,
                          !.lines = Append(@, [num |-> l.num, ip |-> Here(c)])],
                "line", l.num)
  IN IF c.failed THEN c ELSE Stmts(a, l.stmts)

ImageOf(c) ==
  LET a == EmitFuncs(Emit(c, "end", 0))
  IN [ok |-> ~c.failed /\ c.loops = <<>> /\ (c.immediate \/ c.defs = <<>>),
      code |-> a.code, lines |-> c.lines, halt |-> Here(c), data |-> c.data]

CompileProgram(prog) == ImageOf(FoldLeft(CompileLine, New, prog))

CompileStmtList(stmts) == ImageOf(Stmts([New EXCEPT !.immediate = TRUE], stmts))
============================================================================
