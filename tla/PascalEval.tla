----------------------------- MODULE PascalEval -----------------------------
(***************************************************************************)
(* The meaning of a Pascal program by its tree: the evaluator of           *)
(* pascal_eval.go, which walks the tree the compiler is given.  Nothing    *)
(* calls evalPascal any more: RUN goes by the P-code, in memory or not.    *)
(* It says what a program means, and PascalVM is held against it.          *)
(*                                                                         *)
(* Eval gives [m, v, err], Lval [m, c, err] with c a cell, Exec            *)
(* [m, lab, err] with lab the label a GOTO is on its way to (NoGoto when   *)
(* none is).  m.procs are the procedures of the program by their symbol.   *)
(***************************************************************************)
EXTENDS PascalCheck

NoGoto == -1
Val(m, v) == [m |-> m, v |-> v, err |-> ""]
Cell(m, c) == [m |-> m, c |-> c, err |-> ""]
Done(m) == [m |-> m, lab |-> NoGoto, err |-> ""]
Leave(m, lab, err) == [m |-> m, lab |-> lab, err |-> err]
BadVal(m, err) == [m |-> m, v |-> Blank, err |-> err]
BadCell(m, err) == [m |-> m, c |-> 0, err |-> err]
OfFine(m, r) == [m |-> m, v |-> r.v, err |-> r.err]

RECURSIVE Eval(_, _), Lval(_, _), Exec(_, _), CallProc(_, _, _), StdCall(_, _, _)

(* The values of some expressions, one after the other: [m, vs, err].       *)
EvalAll(m, es) ==
  LET one(acc, e) == LET r == Eval(acc.m, e)
                     IN IF acc.err # "" THEN acc
                        ELSE [m |-> r.m, vs |-> Append(acc.vs, r.v), err |-> r.err]
  IN FoldLeft(one, [m |-> m, vs |-> <<>>, err |-> ""], es)

-----------------------------------------------------------------------------
(* Variables. *)

(* withField: the fields of whatever record is open, innermost first.       *)
WithFields(m, n) == {j \in DOMAIN m.withs : HasField(m.withs[j].t, n)}

Index(m, c, t, e) ==
  LET one(acc, ix) ==
        LET i == Eval(acc.m, ix)
            el == Element(i.m, acc.c, acc.t, i.v.i)
        IN CASE acc.err # "" -> acc
             [] acc.err = "" /\ i.err # "" -> [acc EXCEPT !.m = i.m, !.err = i.err]
             [] OTHER -> [m |-> i.m, c |-> el.c, err |-> el.err,
                          t |-> IF acc.t.k = "array" THEN acc.t.elem ELSE NoType]
      r == FoldLeft(one, [m |-> m, c |-> c, err |-> "", t |-> t], e.args)
  IN [m |-> r.m, c |-> r.c, err |-> r.err]

Lval(m, e) ==
  LET ws == WithFields(m, e.n)
      w == m.withs[CHOOSE j \in ws : \A k \in ws : k <= j]
      base == Lval(m, e.x)
      x == base.m.cells[base.c]
      rec == Unwrap(e.x.typ)
      to == Deref(base.m, base.c)
      tmp == Eval(m, e)
      made == New(tmp.m, tmp.v)
  IN CASE e.op = "id" /\ ws # {} -> Cell(m, m.cells[w.c].e[FieldAt(w.t, e.n)])
       [] e.op = "id" /\ ws = {} -> VarSlot(m, e.sym)
       [] e.op \in {"index", "field", "deref"} /\ base.err # "" -> base
       [] e.op = "index" /\ base.err = "" ->
            Index(base.m, base.c, IF x.t.k = "array" THEN x.t ELSE e.x.typ, e)
       [] e.op = "field" /\ base.err = "" ->
            IF HasField(rec, e.f) /\ FieldAt(rec, e.f) \in DOMAIN x.e
            THEN Cell(base.m, x.e[FieldAt(rec, e.f)]) ELSE BadCell(base.m, "record field")
       [] e.op = "deref" /\ base.err = "" -> [m |-> base.m, c |-> to.c, err |-> to.err]
       [] OTHER -> IF tmp.err # "" THEN BadCell(tmp.m, tmp.err) ELSE Cell(made.m, made.c)

-----------------------------------------------------------------------------
(* Expressions. *)

EvalSet(m, e) ==
  LET one(acc, el) ==
        LET r == IF el.op = "range" THEN EvalAll(acc.m, <<el.x, el.y>>) ELSE EvalAll(acc.m, <<el>>)
        IN CASE acc.err # "" -> acc
             [] acc.err = "" /\ r.err # "" -> BadVal(r.m, r.err)
             [] OTHER -> Val(r.m, SetBits(acc.v, r.vs[1].i..Last(r.vs).i))
  IN FoldLeft(one, Val(m, Of(e.typ, 0)), e.elems)

Eval(m, e) ==
  LET lv == Lval(m, e)
      x == Eval(m, e.x)
      xy == EvalAll(m, <<e.x, e.y>>)
  IN CASE e.op \in {"int", "char", "bool"} -> Val(m, Of(e.typ, e.i))
       [] e.op = "nil" -> Val(m, Of(NilT, 0))
       [] e.op = "id" /\ e.sym.kind = "const" -> Val(m, Of(e.sym.t, e.sym.i))
       [] e.op = "id" /\ e.sym.kind = "std" -> StdCall(m, e.n, <<>>)
       [] e.op = "id" /\ IsProc(e.sym) -> CallProc(m, e.sym, <<>>)
       [] e.op = "call" -> IF e.sym.kind = "std" THEN StdCall(m, e.n, e.args)
                           ELSE CallProc(m, e.sym, e.args)
       [] e.op = "un" -> IF x.err # "" THEN x ELSE Val(x.m, Un(e.tok, x.v))
       [] e.op = "bin" -> IF xy.err # "" THEN BadVal(xy.m, xy.err)
                          ELSE OfFine(xy.m, Bin(e.tok, xy.vs[1], xy.vs[2]))
       [] e.op = "set" -> EvalSet(m, e)
       [] OTHER -> IF lv.err # "" THEN BadVal(lv.m, lv.err) ELSE Val(lv.m, Tree(lv.m, lv.c))

-----------------------------------------------------------------------------
(* Procedures. *)

(* resolveCallee: the procedure and the frame it was declared in.           *)
Callee(m, sy) ==
  LET r == VarSlot(m, sy)
      slot == r.m.cells[r.c]
  IN CASE ~sy.procParam -> [m |-> m, id |-> sy.id, link |-> FrameAt(m, m.fp, sy.level), err |-> ""]
       [] sy.procParam /\ (r.err # "" \/ slot.proc = 0) ->
            [m |-> r.m, id |-> 0, link |-> 0, err |-> "unbound procedure"]
       [] OTHER -> [m |-> r.m, id |-> slot.proc, link |-> slot.slink, err |-> ""]

(* One argument into its slot of the new frame f, acc being [m, err]. *)
EvalArg(acc, f, pm, e) ==
  LET m == acc.m
      slot == SlotOf(m, f, pm.off)
      callee == Callee(m, e.sym)
      lv == Lval(m, e)
      v == Eval(m, e)
      copy == ValueParam(pm.t, v.v)
      t == lv.m.cells[lv.c].t
  IN CASE acc.err # "" -> acc
       [] acc.err = "" /\ IsProc(pm) ->
            [m |-> Put(callee.m, slot, [Blank EXCEPT !.proc = callee.id, !.slink = callee.link]),
             err |-> IF IsProc(e.sym) THEN callee.err ELSE "procedure expected"]
       [] acc.err = "" /\ ~IsProc(pm) /\ pm.byRef ->
            [m |-> IF lv.err # "" THEN lv.m
                   ELSE BindConf([lv.m EXCEPT !.cells[slot].ref = lv.c, !.cells[slot].t = t],
                                 f, pm.conf, t),
             err |-> lv.err]
       [] OTHER ->
            [m |-> IF v.err # "" THEN v.m ELSE BindConf(Put(v.m, slot, copy), f, pm.conf, copy.t),
             err |-> v.err]

CallProc(m, sy, args) ==
  LET callee == Callee(m, sy)
      pr == m.procs[callee.id]
      n == IF Len(args) < Len(pr.params) THEN Len(args) ELSE Len(pr.params)
      framed == NewFrame(callee.m, pr.sym.level + 1, callee.link,
                         IF pr.block.nslot < 8 THEN 8 ELSE pr.block.nslot)
      f == Len(framed.frames)
      bound == FoldLeft(LAMBDA acc, j : EvalArg(acc, f, pr.params[j], args[j]),
                        [m |-> framed, err |-> ""], [j \in 1..n |-> j])
      ret == SlotOf(bound.m, f, pr.retOff)
      ready == IF pr.isFunc /\ bound.m.cells[ret].t = NoType
               THEN Put(bound.m, ret, ZeroVal(pr.ret)) ELSE bound.m
      run == Exec([ready EXCEPT !.fp = f], pr.block.body)
      back == [run.m EXCEPT !.fp = m.fp]
  IN CASE callee.err # "" -> BadVal(callee.m, callee.err)
       [] callee.err = "" /\ callee.id \notin DOMAIN m.procs -> BadVal(m, "undefined procedure")
       [] OTHER -> IF bound.err # "" THEN BadVal(bound.m, bound.err)
                   ELSE IF run.err # "" THEN BadVal(back, run.err)
                   ELSE Val(back, IF pr.isFunc THEN Tree(back, ret) ELSE Of(DummyT, 0))

-----------------------------------------------------------------------------
(* Standard procedures. *)

FileGiven(args) == args # <<>> /\ IsFile(Unwrap(args[1].typ))
FileName(e) == IF e.op \in {"id", "call"} THEN e.n ELSE "FILE"
Nil(m) == Val(m, Blank)
Carry(r) == [m |-> r.m, v |-> Blank, err |-> r.err]

(* The file of a READ, WRITE, GET or EOF: [m, f, err].                      *)
FileOf(m, args, default) ==
  IF args = <<>> \/ ~FileGiven(args) THEN [m |-> m, f |-> default, err |-> ""]
  ELSE LET r == Eval(m, args[1])
       IN [m |-> r.m, f |-> IF r.v.file = 0 THEN default ELSE r.v.file, err |-> r.err]

DoWrite(m, args, nl) ==
  LET file == FileOf(m, args, OutFile)
      items == IF FileGiven(args) THEN Tail(args) ELSE args
      all == EvalAll(file.m, items)
      one(acc, e) == LET r == Eval(acc.m, e)
                     IN CASE acc.err # "" -> acc
                          [] acc.err = "" /\ r.err # "" -> Carry(r)
                          [] OTHER -> Nil(Write(r.m, file.f, <<r.v>>, FALSE))
  IN CASE file.err # "" -> Carry(file)
       [] file.err = "" /\ ~file.m.files[file.f].text -> FoldLeft(one, Nil(file.m), items)
       [] OTHER -> IF all.err # "" THEN Carry(all) ELSE Nil(Write(all.m, file.f, all.vs, nl))

DoRead(m, args, ln) ==
  LET file == FileOf(m, args, InFile)
      one(acc, e) == LET lv == Lval(acc.m, e)
                     IN CASE acc.err # "" -> acc
                          [] acc.err = "" /\ lv.err # "" -> Carry(lv)
                          [] OTHER -> Carry(ReadVal(lv.m, file.f, lv.c, e.typ, e.typ))
      r == FoldLeft(one, Nil(file.m), IF FileGiven(args) THEN Tail(args) ELSE args)
  IN CASE file.err # "" -> Carry(file)
       [] file.err = "" /\ r.err # "" -> r
       [] OTHER -> IF ln THEN Nil(ReadLn(r.m, file.f)) ELSE r

StdCall(m, name, args) ==
  LET x == Eval(m, args[1])
      lv == Lval(m, args[1])
      file == FileOf(m, args, InFile)
      more == EvalAll(lv.m, Tail(args))
      open == OpenFile(lv.m, lv.c, args[1].typ, FileName(args[1]), name = "REWRITE")
      at == Eval(lv.m, args[2])
      z == Lval(at.m, args[3])
      a2 == Lval(lv.m, args[2])
      i3 == Eval(a2.m, args[3])
      needs == name \in OrdinalFns \cup {"NEW", "RESET", "REWRITE", "PUT"}
  IN CASE needs /\ args = <<>> -> BadVal(m, "argument expected")
       [] ~needs /\ name \in {"PACK", "UNPACK"} /\ Len(args) < 3 -> BadVal(m, "argument expected")
       [] name \in OrdinalFns /\ args # <<>> ->
            IF x.err # "" THEN x ELSE OfFine(x.m, OrdinalFn(name, x.v))
       [] name \in {"WRITE", "WRITELN"} -> DoWrite(m, args, name = "WRITELN")
       [] name \in {"READ", "READLN"} -> DoRead(m, args, name = "READLN")
       [] name \in {"EOF", "EOLN"} ->
            IF file.err # "" THEN Carry(file)
            ELSE Val(file.m, Truth(IF name = "EOF" THEN file.m.files[file.f].eof
                                   ELSE file.m.files[file.f].eoln))
       [] name = "NEW" /\ args # <<>> ->
            IF lv.err # "" \/ more.err # "" THEN Carry(IF lv.err # "" THEN lv ELSE more)
            ELSE Nil(NewHeap(more.m, lv.c, more.vs))
       [] name = "DISPOSE" -> IF args = <<>> THEN Nil(m)
                              ELSE IF lv.err # "" THEN Carry(lv) ELSE Nil(Dispose(lv.m, lv.c))
       [] name \in {"RESET", "REWRITE"} /\ args # <<>> ->
            IF lv.err # "" THEN Carry(lv) ELSE Carry(open)
       [] name = "GET" -> IF file.err # "" THEN Carry(file) ELSE Nil(GetNext(file.m, file.f))
       [] name = "PUT" /\ args # <<>> ->
            IF x.err # "" THEN x
            ELSE IF x.v.file = 0 THEN BadVal(x.m, "PUT needs a file") ELSE Nil(PutNext(x.m, x.v.file))
       [] name = "PAGE" -> Nil([m EXCEPT !.out = Append(@, FormFeed)])
       [] name = "PACK" /\ Len(args) >= 3 ->
            IF lv.err \o at.err \o z.err # "" THEN BadVal(z.m, lv.err \o at.err \o z.err)
            ELSE Nil(Pack(z.m, lv.c, at.v.i, z.c))
       [] name = "UNPACK" /\ Len(args) >= 3 ->
            IF lv.err \o a2.err \o i3.err # "" THEN BadVal(i3.m, lv.err \o a2.err \o i3.err)
            ELSE Nil(Unpack(i3.m, lv.c, a2.c, i3.v.i))

-----------------------------------------------------------------------------
(* Statements. *)

RECURSIVE ExecFrom(_, _, _), ExecEach(_, _), While(_, _), Repeat(_, _), For(_, _, _, _)

(* A compound goes on at the label when it has it. *)
ExecFrom(m, l, i) ==
  LET r == Exec(m, l[i])
      here == {j \in DOMAIN l : l[j].k = "label" /\ l[j].lab = r.lab}
  IN CASE i > Len(l) -> Done(m)
       [] i <= Len(l) /\ r.err # "" -> r
       [] OTHER -> IF r.lab = NoGoto THEN ExecFrom(r.m, l, i + 1)
                   ELSE IF here = {} THEN r
                   ELSE ExecFrom(r.m, l, CHOOSE j \in here : \A k \in here : j <= k)

ExecEach(m, l) ==
  LET r == Exec(m, Head(l))
  IN IF l = <<>> THEN Done(m)
     ELSE IF r.err # "" \/ r.lab # NoGoto THEN r ELSE ExecEach(r.m, Tail(l))

While(m, s) ==
  LET c == Eval(m, s.cond)
      r == Exec(c.m, s.body)
  IN CASE c.err # "" -> Leave(c.m, NoGoto, c.err)
       [] c.err = "" /\ c.v.i = 0 -> Done(c.m)
       [] OTHER -> IF r.err # "" \/ r.lab # NoGoto THEN r ELSE While(r.m, s)

Repeat(m, s) ==
  LET r == ExecEach(m, s.list)
      c == Eval(r.m, s.cond)
  IN CASE r.err # "" \/ r.lab # NoGoto -> r
       [] r.err = "" /\ r.lab = NoGoto /\ c.err # "" -> Leave(c.m, NoGoto, c.err)
       [] OTHER -> IF c.v.i # 0 THEN Done(c.m) ELSE Repeat(c.m, s)

For(m, s, c, last) ==
  LET i == m.cells[c].i
      r == Exec(m, s.body)
  IN CASE IF s.down THEN i < last ELSE i > last -> Done(m)
       [] OTHER -> IF r.err # "" \/ r.lab # NoGoto THEN r
                   ELSE For([r.m EXCEPT !.cells[c].i = IF s.down THEN @ - 1 ELSE @ + 1], s, c, last)

ExecFor(m, s) ==
  LET lv == Lval(m, s.lhs)
      ab == EvalAll(lv.m, <<s.rhs, s.cond>>)
      start == [ab.m EXCEPT !.cells[lv.c].i = ab.vs[1].i, !.cells[lv.c].t = s.lhs.typ]
  IN IF lv.err # "" THEN Leave(lv.m, NoGoto, lv.err)
     ELSE IF ab.err # "" THEN Leave(ab.m, NoGoto, ab.err)
     ELSE For(start, s, lv.c, ab.vs[2].i)

(* The constants of the arms are constants: their values need no storage.   *)
Matches(m, k, i) ==
  IF k.op = "range" THEN Eval(m, k.x).v.i <= i /\ i <= Eval(m, k.y).v.i ELSE Eval(m, k).v.i = i
ExecCase(m, s) ==
  LET v == Eval(m, s.cond)
      arms == SelectSeq(s.arms, LAMBDA a : \E j \in DOMAIN a.consts : Matches(v.m, a.consts[j], v.v.i))
  IN CASE v.err # "" -> Leave(v.m, NoGoto, v.err)
       [] v.err = "" /\ arms # <<>> -> Exec(v.m, arms[1].body)
       [] OTHER -> IF s.other.k # "none" THEN Exec(v.m, s.other)
                   ELSE Leave(v.m, NoGoto, "case selector matches no constant")

ExecWith(m, s) ==
  LET open(acc, e) == LET lv == Lval(acc.m, e)
                      IN CASE acc.err # "" -> acc
                           [] acc.err = "" /\ lv.err # "" -> Leave(lv.m, NoGoto, lv.err)
                           [] OTHER -> Done(PushWith(lv.m, lv.c))
      o == FoldLeft(open, Done(m), s.recs)
      r == Exec(o.m, s.body)
  IN IF o.err # "" THEN o ELSE [r EXCEPT !.m = PopWith(@, Len(s.recs))]

ExecAssign(m, s) ==
  LET lv == Lval(m, s.lhs)
      v == Eval(lv.m, s.rhs)
  IN CASE lv.err # "" -> Leave(lv.m, NoGoto, lv.err)
       [] lv.err = "" /\ v.err # "" -> Leave(v.m, NoGoto, v.err)
       [] OTHER -> IF OrdInRange(v.m.cells[lv.c].t, v.v.i) THEN Done(AssignVal(v.m, lv.c, v.v))
                   ELSE Leave(v.m, NoGoto, "value out of range")

Exec(m, s) ==
  LET c == Eval(m, s.cond)
      call == Eval(m, s.lhs)
  IN CASE s.k = "compound" -> ExecFrom(m, s.list, 1)
       [] s.k = "label" -> Exec(m, s.body)
       [] s.k = "assign" -> ExecAssign(m, s)
       [] s.k = "call" -> Leave(call.m, NoGoto, call.err)
       [] s.k = "if" -> IF c.err # "" THEN Leave(c.m, NoGoto, c.err)
                        ELSE Exec(c.m, IF c.v.i # 0 THEN s.body ELSE s.els)
       [] s.k = "while" -> While(m, s)
       [] s.k = "repeat" -> Repeat(m, s)
       [] s.k = "for" -> ExecFor(m, s)
       [] s.k = "case" -> ExecCase(m, s)
       [] s.k = "with" -> ExecWith(m, s)
       [] s.k = "goto" -> Leave(m, s.lab, "")
       [] OTHER -> Done(m)

-----------------------------------------------------------------------------
RECURSIVE AllProcs(_)
AllProcs(b) == UNION {{b.procs[j]} \cup AllProcs(b.procs[j].block) : j \in DOMAIN b.procs}

(* evalPascal: the memory at the end and how it ended. *)
Meaning(prog, typed, disk) ==
  LET ps == AllProcs(prog.b)
      table == [id \in {q.sym.id : q \in ps} |-> CHOOSE q \in ps : q.sym.id = id]
      r == Exec([procs |-> table] @@ StartMemory(prog.b.nslot, prog.target, typed, disk), prog.b.body)
  IN [m |-> FlushFiles(r.m), end |-> IF r.err = "" THEN "halt" ELSE r.err]
=============================================================================
