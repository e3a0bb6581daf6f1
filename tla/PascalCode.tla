----------------------------- MODULE PascalCode -----------------------------
(***************************************************************************)
(* From the checked tree to P-code (pascal_pcompile.go).                   *)
(*                                                                         *)
(* The compiler is a record c: the code so far; labels and fixups of the   *)
(* procedure it is in; withs, the types of the records opened by WITH;     *)
(* nslot, the slots of the frame, which grows by one for the limit of      *)
(* every FOR; level; procs, what is known of every procedure by its        *)
(* symbol; ok, that c.err is nil.  Every Emit operator returns c.  Code is *)
(* numbered from 1; an instruction is [op, a, b, t].                       *)
(***************************************************************************)
EXTENDS PascalCheck

Emit(c, op, a, b, t) == [c EXCEPT !.code = Append(@, [op |-> op, a |-> a, b |-> b, t |-> t])]
Op(c, op) == Emit(c, op, 0, 0, NoType)
Here(c) == Len(c.code) + 1
JumpTo(c, at, ip) == [c EXCEPT !.code[at].a = ip]
Land(c, at) == JumpTo(c, at, Here(c))
Refuse(c) == [c EXCEPT !.ok = FALSE]

AddrVar(c, level, off, t) == Emit(c, "AddrVar", level, off, t)
Binary(c, tok) == Emit(c, "Bin", tok, 0, NoType)

(* The innermost WITH that has the field, counted from the top of the stack *)
(* of WITH; -1 when none has.                                               *)
WithSkip(c, n) ==
  LET js == {j \in DOMAIN c.withs : HasField(c.withs[j], n)}
  IN IF js = {} THEN -1 ELSE Len(c.withs) - (CHOOSE j \in js : \A k \in js : k <= j)

(* Code for an expression, for an address and for a statement: they lie     *)
(* inside of one another, and Gen is the recursion.                         *)
RECURSIVE Gen(_, _, _)
EmitExpr(c, e) == Gen("expr", c, e)
EmitAddr(c, e) == Gen("addr", c, e)
EmitStmt(c, s) == Gen("stmt", c, s)
RECURSIVE EmitAll(_, _, _)
EmitAll(what, c, l) == IF l = <<>> THEN c ELSE EmitAll(what, Gen(what, c, Head(l)), Tail(l))

FileArg(args) == args # <<>> /\ IsFile(Unwrap(args[1].typ))
Console(c, off) == Op(AddrVar(c, 0, off, TextT), "Load")
FileName(e) == IF e.op \in {"id", "call"} THEN e.n ELSE "FILE"

(* emitStd: addresses for what the procedure changes, values for the rest,  *)
(* the console for a file that is not given.                                *)
EmitStd(c, e) ==
  LET args == e.args
      n == Len(args)
      Values(c0, es) == EmitAll("expr", c0, es)
      Std(c0, k) == Emit(c0, "Std", e.n, k, NoType)
      file(off) == IF FileArg(args) THEN EmitExpr(c, args[1]) ELSE Console(c, off)
      items == IF FileArg(args) THEN Tail(args) ELSE args
      first == EmitAddr(c, args[1])
  IN CASE e.n \in {"WRITE", "WRITELN"} -> Std(Values(file(1), items), Len(items))
       [] e.n \in {"READ", "READLN"} -> Std(EmitAll("addr", file(0), items), Len(items))
       [] e.n = "NEW" -> Std(IF n = 0 THEN c ELSE Values(first, Tail(args)), n)
       [] e.n = "DISPOSE" -> Std(IF n = 0 THEN c ELSE first, n)
       [] e.n \in {"RESET", "REWRITE"} -> Emit(first, "Std", e.n, 1, FileName(args[1]))
       [] e.n \in {"GET", "EOF", "EOLN"} ->
            Std(IF n = 0 THEN Console(c, 0) ELSE EmitExpr(c, args[1]), 1)
       [] e.n = "PUT" -> Std(IF n = 0 THEN c ELSE EmitExpr(c, args[1]), 1)
       [] e.n = "PACK" ->
            Std(IF n < 3 THEN c ELSE EmitAddr(EmitExpr(first, args[2]), args[3]), 3)
       [] e.n = "UNPACK" ->
            Std(IF n < 3 THEN c ELSE EmitExpr(EmitAddr(first, args[2]), args[3]), 3)
       [] OTHER -> Std(Values(c, args), n)

EmitProcRef(c, e) ==
  CASE e.sym.procParam -> Op(AddrVar(c, e.sym.level, e.sym.off, NoType), "Load")
    [] ~e.sym.procParam /\ e.sym.id \in DOMAIN c.procs -> Emit(c, "ProcRef", e.sym.id, 0, NoType)
    [] OTHER -> Refuse(c)

(* emitCall: every argument as its parameter wants it; one without a        *)
(* parameter is a value.                                                    *)
RECURSIVE EmitArgs(_, _, _)
EmitArgs(c, ps, args) ==
  LET pm == IF ps = <<>> THEN [byRef |-> FALSE, proc |-> FALSE]
            ELSE [byRef |-> ~IsProc(ps[1]) /\ ps[1].byRef, proc |-> IsProc(ps[1])]
      one == CASE pm.proc -> EmitProcRef(c, args[1])
               [] pm.byRef -> EmitAddr(c, args[1])
               [] OTHER -> EmitExpr(c, args[1])
  IN IF args = <<>> THEN c ELSE EmitArgs(one, IF ps = <<>> THEN ps ELSE Tail(ps), Tail(args))
EmitCall(c, e, args) ==
  LET sy == e.sym
      known == sy.procParam \/ sy.id \in DOMAIN c.procs
      ps == IF sy.procParam THEN sy.params ELSE c.procs[sy.id].params
      pushed == EmitArgs(c, ps, args)
  IN CASE sy.kind = "std" -> EmitStd(c, [args |-> args] @@ e)
       [] sy.kind # "std" /\ ~known -> Refuse(c)
       [] sy.kind # "std" /\ sy.procParam ->
            Emit(Op(AddrVar(pushed, sy.level, sy.off, sy.t), "Load"), "CallVal", 0, Len(args), NoType)
       [] OTHER -> Emit(pushed, "Call", sy.id, Len(args), NoType)

EmitIdent(c, e) ==
  CASE e.sym.kind = "const" -> Emit(c, "Push", e.sym.i, 0, e.sym.t)
    [] e.sym.kind \in {"std", "proc", "func"} -> EmitCall(c, e, <<>>)
    [] OTHER -> Op(EmitAddr(c, e), "Load")

ElemCode(c, e) == IF e.op = "range" THEN Op(EmitExpr(EmitExpr(c, e.x), e.y), "SetRange")
                  ELSE Op(EmitExpr(c, e), "SetIncl")
ExprCode(c, e) ==
  CASE e.op \in {"int", "char", "bool"} -> Emit(c, "Push", e.i, 0, e.typ)
    [] e.op = "nil" -> Emit(c, "Push", 0, 0, NilT)
    [] e.op = "id" -> EmitIdent(c, e)
    [] e.op = "call" -> EmitCall(c, e, e.args)
    [] e.op = "un" -> Emit(EmitExpr(c, e.x), "Un", e.tok, 0, NoType)
    [] e.op = "bin" -> Binary(EmitExpr(EmitExpr(c, e.x), e.y), e.tok)
    [] e.op \in {"index", "field", "deref"} -> Op(EmitAddr(c, e), "Load")
    [] e.op = "set" -> EmitAll("elem", Emit(c, "Push", 0, 0, e.typ), e.elems)

AddrCode(c, e) ==
  LET skip == WithSkip(c, e.n)
      rec == Unwrap(e.x.typ)
  IN CASE e.op = "id" /\ skip >= 0 -> Emit(c, "AddrWith", e.n, skip, NoType)
       [] e.op = "id" /\ skip < 0 -> AddrVar(c, e.sym.level, e.sym.off, e.sym.t)
       [] e.op = "index" -> Emit(EmitAll("expr", EmitAddr(c, e.x), e.args), "AddrIdx", Len(e.args), 0, NoType)
       [] e.op = "field" -> Emit(EmitAddr(c, e.x), "AddrField", FieldAt(rec, e.f), 0, NoType)
       [] e.op = "deref" -> Op(EmitAddr(c, e.x), "AddrDeref")
       [] OTHER -> Refuse(c)

-----------------------------------------------------------------------------
(* Statements. *)

EmitList(c, l) == EmitAll("stmt", c, l)

EmitIf(c, s) ==
  LET cond == EmitExpr(c, s.cond)
      body == EmitStmt(Op(cond, "Jz"), s.body)
      els == EmitStmt(Land(Op(body, "Jmp"), Here(cond)), s.els)
  IN IF s.els.k = "none" THEN Land(body, Here(cond)) ELSE Land(els, Here(body))

EmitWhile(c, s) ==
  LET cond == EmitExpr(c, s.cond)
      body == EmitStmt(Op(cond, "Jz"), s.body)
  IN Land(Emit(body, "Jmp", Here(c), 0, NoType), Here(cond))

(* The step of a FOR, whose Store checks no range; mutant: it checks one.   *)
StepStoreChecked(c) == Op(Binary(c, "+"), "Store")
StepStore(c) == Emit(Binary(c, "+"), "Store", 0, 1, NoType)

(* emitFor: the limit goes to a slot of its own.                            *)
EmitFor(c, s) ==
  LET lim == c.nslot
      Limit(c0) == AddrVar(c0, c.level, lim, IntT)
      start == Op(EmitExpr(EmitAddr([c EXCEPT !.nslot = @ + 1], s.lhs), s.rhs), "Store")
      loop == Op(Limit(EmitExpr(start, s.cond)), "Store")
      test == Binary(Op(Limit(Op(EmitAddr(loop, s.lhs), "Load")), "Load"),
                     IF s.down THEN ">=" ELSE "<=")
      body == EmitStmt(Op(test, "Jz"), s.body)
      step == Emit(Op(Op(EmitAddr(body, s.lhs), "DupAddr"), "Load"), "Push",
                   IF s.down THEN -1 ELSE 1, 0, NoType)
      next == StepStore(step)
  IN Land(Emit(next, "Jmp", Here(loop), 0, NoType), Here(test))

(* emitCase: the selector stays on the stack until an arm takes it.  All    *)
(* the constants of an arm jump to the jump of its first one.               *)
EmitConst(acc, k) ==
  LET dup == Op(acc.c, "Dup")
      low == Binary(EmitExpr(dup, k.x), ">=")
      high == Binary(EmitExpr(Op(Op(low, "Jz"), "Dup"), k.y), "<=")
      equal == Binary(EmitExpr(dup, k), "=")
      miss == IF k.op = "range" THEN high ELSE equal
      hit == Op(miss, "Jz")
      first == IF acc.matched = 0 THEN Here(hit) ELSE acc.matched
      gone == Emit(hit, "Jmp", IF acc.matched = 0 THEN 0 ELSE first, 0, NoType)
  IN [c |-> IF k.op = "range" THEN Land(Land(gone, Here(low)), Here(miss))
            ELSE Land(gone, Here(miss)),
      matched |-> first]

RECURSIVE EmitConsts(_, _), EmitArms(_, _)
EmitConsts(acc, ks) == IF ks = <<>> THEN acc ELSE EmitConsts(EmitConst(acc, Head(ks)), Tail(ks))

ArmEnd(ends, next, body) ==
  [c |-> Land(Op(body, "Jmp"), next), ends |-> ends \cup {Here(body)}]
ArmBody(ends, tests, a) ==
  ArmEnd(ends, Here(tests.c), EmitStmt(Op(Land(Op(tests.c, "Jmp"), tests.matched), "Pop"), a.body))
EmitArms(acc, as) ==
  IF as = <<>> THEN acc
  ELSE EmitArms(ArmBody(acc.ends, EmitConsts([c |-> acc.c, matched |-> 0], as[1].consts), as[1]),
                Tail(as))
LandAll(c, ats) ==
  [c EXCEPT !.code = [j \in DOMAIN @ |-> IF j \in ats THEN [@[j] EXCEPT !.a = Here(c)] ELSE @[j]]]
CaseEnd(arms, s) ==
  LandAll(IF s.other.k = "none" THEN Op(arms.c, "CaseFail") ELSE EmitStmt(Op(arms.c, "Pop"), s.other),
          arms.ends)
EmitCase(c, s) == CaseEnd(EmitArms([c |-> EmitExpr(c, s.cond), ends |-> {}], s.arms), s)

OpenCode(c, r) == [Op(EmitAddr(c, r), "WithPush") EXCEPT !.withs = Append(@, Unwrap(r.typ))]
RECURSIVE Closed(_, _)
Closed(c, n) == IF n = 0 THEN c ELSE Closed([Op(c, "WithPop") EXCEPT !.withs = Front(@)], n - 1)
EmitWith(c, s) == Closed(EmitStmt(EmitAll("open", c, s.recs), s.body), Len(s.recs))

StmtCode(c, s) ==
  CASE ~c.ok -> c
    [] s.k = "compound" -> EmitList(c, s.list)
    [] s.k = "label" -> EmitStmt([c EXCEPT !.labels =
                                    (s.lab :> [ip |-> Here(c), with |-> Len(c.withs)]) @@ @], s.body)
    [] s.k = "goto" -> [Op(c, "Jmp") EXCEPT !.fixups =
                          (Here(c) :> [lab |-> s.lab, with |-> Len(c.withs)]) @@ @]
    [] s.k = "assign" -> Op(EmitExpr(EmitAddr(c, s.lhs), s.rhs), "Store")
    [] s.k = "call" -> Op(EmitExpr(c, s.lhs), "Pop")
    [] s.k = "if" -> EmitIf(c, s)
    [] s.k = "while" -> EmitWhile(c, s)
    [] s.k = "repeat" -> Emit(EmitExpr(EmitList(c, s.list), s.cond), "Jz", Here(c), 0, NoType)
    [] s.k = "for" -> EmitFor(c, s)
    [] s.k = "case" -> EmitCase(c, s)
    [] s.k = "with" -> EmitWith(c, s)
    [] OTHER -> c

Gen(what, c, x) == CASE what = "expr" -> ExprCode(c, x)
                     [] what = "addr" -> AddrCode(c, x)
                     [] what = "stmt" -> StmtCode(c, x)
                     [] what = "elem" -> ElemCode(c, x)
                     [] what = "open" -> OpenCode(c, x)

(* patch: a GOTO closes the WITHs that lie between it and its label.        *)
PatchedOpen(instr, opened, to) == [instr EXCEPT !.a = to.ip]  \* mutant: they stay open
Patched(instr, opened, to) ==
  [instr EXCEPT !.a = to.ip, !.b = IF opened > to.with THEN opened - to.with ELSE 0]
Patch(c) ==
  IF \E j \in DOMAIN c.fixups : c.fixups[j].lab \notin DOMAIN c.labels THEN Refuse(c)
  ELSE [c EXCEPT !.code = [j \in DOMAIN @ |->
          IF j \in DOMAIN c.fixups
          THEN Patched(@[j], c.fixups[j].with, c.labels[c.fixups[j].lab]) ELSE @[j]]]

-----------------------------------------------------------------------------
(* Programs. *)

(* registerProcs: every procedure with a body, those inside of it after it. *)
RECURSIVE Procs(_)
Procs(b) == FlattenSeq([j \in DOMAIN b.procs |-> <<b.procs[j]>> \o Procs(b.procs[j].block)])

(* A procedure, or the program, with labels of its own. *)
Fresh(c, b, level) ==
  [c EXCEPT !.labels = <<>>, !.fixups = <<>>, !.withs = <<>>, !.nslot = b.nslot, !.level = level]
Bodied(c, b, level, last) == Op(Patch(EmitStmt(Fresh(c, b, level), b.body)), last)

(* emitAllProcs; procInfo is what c.procs has of a procedure. *)
Known(c, id, ip) == [c EXCEPT !.procs[id].ip = ip, !.procs[id].nslot = c.nslot]
RECURSIVE EmitProcs(_, _)
EmitProcs(c, ps) ==
  IF ps = <<>> \/ ~c.ok THEN c
  ELSE EmitProcs(Known(Bodied(c, ps[1].block, ps[1].sym.level + 1, "Ret"), ps[1].sym.id, Here(c)),
                 Tail(ps))
Info(ps) ==
  [id \in {ps[j].sym.id : j \in DOMAIN ps} |->
     LET p == CHOOSE q \in ToSet(ps) : q.sym.id = id
     IN [level |-> p.sym.level, params |-> p.params, isFunc |-> p.isFunc,
         ret |-> p.ret, retOff |-> p.retOff, ip |-> 0, nslot |-> p.block.nslot]]

(* compilePascalImage *)
Image(c, entry, target) ==
  [code |-> c.code, entry |-> entry, procs |-> c.procs, nslot |-> c.nslot, target |-> target,
   ok |-> c.ok]
Main(c, prog) == Image(Bodied(c, prog.b, 1, "Halt"), Here(c), prog.target)
Compiled(prog, ps) ==
  Main(EmitProcs([code |-> <<>>, labels |-> <<>>, fixups |-> <<>>, withs |-> <<>>, nslot |-> 0,
                  level |-> 1, procs |-> Info(ps), ok |-> TRUE], ps), prog)
Compile(prog) == Compiled(prog, Procs(prog.b))
=============================================================================
