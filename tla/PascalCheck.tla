----------------------------- MODULE PascalCheck -----------------------------
(***************************************************************************)
(* The type checker of Pascal (pascal_check.go): it gives every expression *)
(* its type and every name its symbol, and refuses what breaks a rule.     *)
(*                                                                         *)
(* The checker is a record sc: the scopes, innermost last; the records     *)
(* opened by WITH; fn, the procedure whose body it is in; params, which    *)
(* are known of a procedure only from its body on; target, the type each   *)
(* pointer type points to, and ptrs, those not yet known; and ok, that     *)
(* c.err is still nil.  An expression checked has typ, sym and ok beside   *)
(* what the parser gave it.  FORWARD and its body are one symbol, as in    *)
(* declProcHeader.                                                         *)
(***************************************************************************)
EXTENDS PascalData

NoSym == [kind |-> "none", n |-> "", t |-> NoType, level |-> 0, off |-> 0, byRef |-> FALSE,
          param |-> FALSE, procParam |-> FALSE, fwd |-> FALSE, id |-> 0, i |-> 0,
          params |-> <<>>, conf |-> <<>>]
IsProc(sy) == sy.kind \in {"proc", "func"}

Standard == {"ABS", "SQR", "ORD", "CHR", "SUCC", "PRED", "ODD", "EOF", "EOLN",
             "READ", "READLN", "WRITE", "WRITELN", "NEW", "DISPOSE", "RESET",
             "REWRITE", "PAGE", "PACK", "UNPACK", "GET", "PUT"}

-----------------------------------------------------------------------------
(* Scopes. *)

Level(sc) == Len(sc.scopes) - 1
Scope(sc) == Last(sc.scopes)
Slots(sc) == Scope(sc).nslot
PushScope(sc) == [sc EXCEPT !.scopes = Append(@, [syms |-> <<>>, nslot |-> 0])]
Fail(sc, cond) == [sc EXCEPT !.ok = @ /\ ~cond]

(* The fields of the records in WITH come before every scope, those of the  *)
(* outermost first.                                                         *)
Lookup(sc, n) ==
  LET ws == {j \in DOMAIN sc.withs : HasField(sc.withs[j], n)}
      ss == {j \in DOMAIN sc.scopes : n \in DOMAIN sc.scopes[j].syms}
      w == CHOOSE j \in ws : \A k \in ws : j <= k
      s == CHOOSE j \in ss : \A k \in ss : k <= j
  IN CASE ws # {} -> [NoSym EXCEPT !.kind = "field", !.n = n,
                                   !.t = sc.withs[w].fields[FieldAt(sc.withs[w], n)].t]
       [] ws = {} /\ ss # {} -> sc.scopes[s].syms[n]
       [] OTHER -> NoSym

Declare(sc, n, sy0) ==
  LET old == IF n \in DOMAIN Scope(sc).syms THEN Scope(sc).syms[n] ELSE NoSym
      sy == [sy0 EXCEPT !.n = n, !.level = Level(sc)]
      put == [sc EXCEPT !.scopes[Len(sc.scopes)].syms = (n :> sy) @@ @]
  IN CASE ~sc.ok -> sc
       [] sc.ok /\ (old = NoSym \/ (IsProc(sy) /\ old.fwd)) -> put
       [] OTHER -> Fail(sc, TRUE)

DeclType(sc, n, t) == Declare(sc, n, [NoSym EXCEPT !.kind = "type", !.t = t])
DeclConst(sc, n, t, i) == Declare(sc, n, [NoSym EXCEPT !.kind = "const", !.t = t, !.i = i])
NewSlot(sc) == [sc EXCEPT !.scopes[Len(sc.scopes)].nslot = @ + 1]
DeclVar(sc, n, sy) ==
  IF ~sc.ok THEN sc ELSE Declare(NewSlot(sc), n, [sy EXCEPT !.kind = "var", !.off = Slots(sc)])

ParamsOf(sc, sy) ==
  CASE sy.procParam -> sy.params
    [] ~sy.procParam /\ sy.id \in DOMAIN sc.params -> sc.params[sy.id]
    [] OTHER -> <<>>

-----------------------------------------------------------------------------
(* Expressions. *)

Numeric(t) == Unwrap(t).k = "int"
Boolish(e) == Unwrap(e.typ).k \in {"none", "bool"}
IsVarAccess(e) == (e.op = "id" /\ e.sym.kind \in {"var", "field"})
                  \/ e.op \in {"index", "field", "deref"}

Checked(e, t, ok) == [typ |-> t, ok |-> ok, sym |-> NoSym] @@ e
AllOk(es) == \A j \in DOMAIN es : es[j].ok

BinType(op, x, y) ==
  CASE op \in {"=", "<>"} -> [t |-> BoolT, ok |-> ~IsFile(Unwrap(x.typ))]
    [] op \in {"<", "<=", ">", ">="} -> [t |-> BoolT, ok |-> Unwrap(x.typ).k # "ptr"]
    [] op = "in" -> [t |-> BoolT, ok |-> TRUE]
    [] op \in {"and", "or"} -> [t |-> BoolT, ok |-> Boolish(x) /\ Boolish(y)]
    [] op \in {"div", "mod"} -> [t |-> IntT, ok |-> Numeric(x.typ) /\ Numeric(y.typ)]
    [] OTHER -> IF Unwrap(x.typ).k = "set" THEN [t |-> x.typ, ok |-> TRUE]
                ELSE [t |-> IntT, ok |-> Numeric(x.typ) /\ Numeric(y.typ)]

StdType(name, args) ==
  CASE name \in {"ABS", "SQR", "ORD"} -> IntT
    [] name = "CHR" -> CharT
    [] name \in {"SUCC", "PRED"} -> IF args = <<>> THEN IntT ELSE args[1].typ
    [] name \in {"ODD", "EOF", "EOLN"} -> BoolT
    [] OTHER -> DummyT

ProcCompat(sc, formal, actual) ==
  LET fs == formal.params  as == ParamsOf(sc, actual)
  IN /\ IsProc(actual)
     /\ formal.kind = actual.kind
     /\ formal.kind = "func" => SameType(formal.t, actual.t)
     /\ Len(fs) = Len(as)
     /\ \A j \in DOMAIN fs : fs[j].byRef = as[j].byRef /\ SameType(fs[j].t, as[j].t)

RECURSIVE Indexed(_, _)
Indexed(t, n) == CASE n = 0 -> [t |-> t, ok |-> TRUE]
                   [] n > 0 /\ t.k # "array" -> [t |-> IntT, ok |-> FALSE]
                   [] OTHER -> Indexed(t.elem, n - 1)

DerefType(sc, t) ==
  CASE t.k = "ptr" -> sc.target[t.to]
    [] t.k = "text" -> CharT
    [] t.k = "file" -> t.elem
    [] OTHER -> NoType

(* What expressions, constants, types, field lists, parameters, statements  *)
(* and blocks are checked with: they lie inside of one another, and Check   *)
(* is the recursion.                                                        *)
RECURSIVE Check(_, _, _)
CheckExpr(sc, e) == Check("expr", sc, e)
ConstVal(sc, e) == Check("const", sc, e)
ResolveType(sc, r) == Check("type", sc, r)
ResolveFields(r, list) == Check("fields", r, list)
BindProcParam(sc, head) == Check("param", sc, head)
CheckStmt(sc, s) == Check("stmt", sc, s)
CheckBlock(sc, b) == Check("block", sc, b)

CheckAll(sc, es) == Listed([j \in DOMAIN es |-> CheckExpr(sc, es[j])])

(* checkCall: the name of the procedure itself means a call inside of it,   *)
(* though its result variable hides it.  The arguments are checked against  *)
(* the parameters known so far.                                             *)
CheckCall(sc, e) ==
  LET sy == IF sc.fn.kind # "none" /\ e.n = sc.fn.n THEN sc.fn ELSE Lookup(sc, e.n)
      args == CheckAll(sc, e.args)
      done == [e EXCEPT !.args = args]
      ps == ParamsOf(sc, sy)
      Fits(j) == /\ IsProc(ps[j]) => args[j].sym # NoSym /\ ProcCompat(sc, ps[j], args[j].sym)
                 /\ ~IsProc(ps[j]) /\ ps[j].byRef => IsVarAccess(args[j])
  IN CASE sy.kind = "none" -> Checked(e, IntT, FALSE)
       [] sy.kind = "std" ->
            [Checked(done, StdType(e.n, args),
                     AllOk(args) /\ (e.n \in {"READ", "READLN"} =>
                        \A j \in DOMAIN args : IsFile(Unwrap(args[j].typ)) \/ IsVarAccess(args[j])))
               EXCEPT !.sym = sy]
       [] IsProc(sy) ->
            [Checked(done, IF sy.kind = "func" THEN sy.t ELSE DummyT,
                     AllOk(args) /\ \A j \in DOMAIN args \cap DOMAIN ps : Fits(j))
               EXCEPT !.sym = sy]
       [] OTHER -> Checked(e, IntT, TRUE)

ExprChecked(sc, e) ==
  LET sy == Lookup(sc, e.n)
      x == CheckExpr(sc, e.x)
      y == CheckExpr(sc, e.y)
      bin == BinType(e.tok, x, y)
      args == CheckAll(sc, e.args)
      elem == Indexed(x.typ, Len(args))
      elems == CheckAll(sc, e.elems)
      rec == Unwrap(x.typ)
      to == DerefType(sc, Unwrap(x.typ))
  IN CASE e.op = "int" -> Checked(e, IntT, TRUE)
       [] e.op = "char" -> Checked(e, CharT, TRUE)
       [] e.op = "bool" -> Checked(e, BoolT, TRUE)
       [] e.op = "nil" -> Checked(e, NilT, TRUE)
       [] e.op = "id" -> [Checked(e, IF sy.kind = "std" THEN IntT ELSE sy.t, sy # NoSym)
                            EXCEPT !.sym = sy]
       [] e.op = "call" -> CheckCall(sc, e)
       [] e.op = "un" -> Checked([e EXCEPT !.x = x], IF e.tok = "not" THEN BoolT ELSE x.typ,
                                 x.ok /\ (e.tok = "not" => Boolish(x)))
       [] e.op = "bin" -> Checked([e EXCEPT !.x = x, !.y = y], bin.t, x.ok /\ y.ok /\ bin.ok)
       [] e.op = "index" -> Checked([e EXCEPT !.x = x, !.args = args], elem.t,
                                    x.ok /\ AllOk(args) /\ elem.ok)
       [] e.op = "field" -> Checked([e EXCEPT !.x = x],
                                    IF HasField(rec, e.f) THEN rec.fields[FieldAt(rec, e.f)].t
                                    ELSE IntT, x.ok /\ HasField(rec, e.f))
       [] e.op = "deref" -> Checked([e EXCEPT !.x = x], to, x.ok /\ to # NoType)
       [] e.op = "set" -> Checked([e EXCEPT !.elems = elems],
                                  SetT(IF elems = <<>> THEN IntT ELSE Last(elems).typ),
                                  AllOk(elems))
       [] e.op = "range" -> Checked([e EXCEPT !.x = x, !.y = y], x.typ, x.ok /\ y.ok)

Assignable(d, s) ==
  LET dst == Unwrap(d)  src == Unwrap(s)
  IN \/ dst = NoType \/ src = NoType
     \/ /\ ~IsFile(dst) /\ ~IsFile(src)
        /\ \/ SameType(dst, src)
           \/ dst.k = "ptr" /\ src.k = "nil"
           \/ dst.k = "set" /\ src.k = "set"

(* constVal: the value and the type of a constant expression.               *)
Const(t, i, ok) == [t |-> t, i |-> i, ok |-> ok]
Bit(b) == IF b THEN 1 ELSE 0
ConstUn(tok, x) == CASE tok = "-" -> Const(x.t, -x.i, x.ok)
                     [] tok = "+" -> x
                     [] tok = "not" -> Const(BoolT, Bit(x.i = 0), x.ok)
ConstBin(tok, x, y) ==
  LET ok == x.ok /\ y.ok
  IN CASE tok = "+" -> Const(IntT, x.i + y.i, ok)
       [] tok = "-" -> Const(IntT, x.i - y.i, ok)
       [] tok = "*" -> Const(IntT, x.i * y.i, ok)
       [] tok = "div" /\ y.i # 0 -> Const(IntT, Quotient(x.i, y.i), ok)
       [] tok = "mod" /\ y.i # 0 -> Const(IntT, x.i - Quotient(x.i, y.i) * y.i, ok)
       [] tok \in Relations -> Const(BoolT, Bit(Holds(tok, Sign(x.i - y.i))), ok)
       [] tok = "and" -> Const(BoolT, Bit(x.i # 0 /\ y.i # 0), ok)
       [] tok = "or" -> Const(BoolT, Bit(x.i # 0 \/ y.i # 0), ok)
       [] OTHER -> Const(IntT, 0, FALSE)
ConstFn(f, a) == CASE f = "ORD" -> Const(IntT, a.i, a.ok)
                   [] f = "CHR" -> Const(CharT, a.i % 256, a.ok)
                   [] f = "ABS" -> Const(IntT, IF a.i < 0 THEN -a.i ELSE a.i, a.ok)
                   [] f = "SQR" -> Const(IntT, a.i * a.i, a.ok)
                   [] f = "SUCC" -> Const(a.t, a.i + 1, a.ok)
                   [] f = "PRED" -> Const(a.t, a.i - 1, a.ok)
                   [] OTHER -> Const(IntT, 0, FALSE)

ConstOf(sc, e) ==
  LET sy == Lookup(sc, e.n)
      checked == CheckExpr(sc, e)
      isStd == e.args # <<>> /\ Lookup(sc, e.n).kind = "std"
      v == CASE e.op \in {"int", "char", "bool"} -> Const(checked.typ, e.i, TRUE)
             [] e.op = "id" -> Const(sy.t, sy.i, sy.kind = "const")
             [] e.op = "un" -> ConstUn(e.tok, ConstVal(sc, e.x))
             [] e.op = "bin" -> ConstBin(e.tok, ConstVal(sc, e.x), ConstVal(sc, e.y))
             [] e.op = "call" -> IF isStd THEN ConstFn(e.n, ConstVal(sc, e.args[1]))
                                 ELSE Const(IntT, 0, FALSE)
             [] OTHER -> Const(IntT, 0, FALSE)
  IN [v EXCEPT !.ok = @ /\ checked.ok]

-----------------------------------------------------------------------------
(* Types. *)

(* The fields of a list, and those of every arm of its variant part, in one *)
(* row; r is the checker and the record so far.                             *)
Variant(r, v) ==
  LET tag == ResolveType(r.sc, v.r)
      tagged == [sc |-> tag.sc, t |-> [r.t EXCEPT !.tag = v.tag,
                   !.fields = Append(@, [n |-> v.tag, t |-> tag.t])]]
  IN FoldLeft(ResolveFields, IF v.tag = "" THEN r ELSE tagged, v.arms)

FieldsOf(r, list) ==
  LET one(acc, f) ==
        LET t == ResolveType(acc.sc, f.r)
        IN IF ~acc.sc.ok THEN acc
           ELSE [sc |-> t.sc, t |-> [acc.t EXCEPT !.fields =
                   @ \o [j \in DOMAIN f.names |-> [n |-> f.names[j], t |-> t.t]]]]
      fixed == FoldLeft(one, r, list.fields)
  IN IF list.variant = <<>> THEN fixed ELSE Variant(fixed, list.variant[1])

(* An array of several indexes is an array of arrays. *)
ResolveArray(sc, r) ==
  LET elem == ResolveType(sc, r.elem)
      bounded(ix, acc) ==
        LET i == ResolveType(acc.sc, ix)
        IN [sc |-> Fail(i.sc, ~Ordinal(i.t)), t |-> ArrayT(i.t, acc.t)]
      open(b, acc) ==
        LET i == ResolveType(acc.sc, b.r)
        IN [sc |-> i.sc, t |-> [ConfT(acc.t, b.lo, b.hi)
                                  EXCEPT !.index = IF Ordinal(i.t) THEN i.t ELSE IntT]]
  IN IF r.conf # <<>> THEN FoldRight(open, r.conf, elem) ELSE FoldRight(bounded, r.idx, elem)

(* A pointer type has a target of its own, which is known now or later.     *)
Pointed(sc, n) ==
  LET sy == Lookup(sc, n)
  IN IF sy.kind = "type" THEN [sc EXCEPT !.target = Append(@, sy.t)]
     ELSE [sc EXCEPT !.target = Append(@, NoType), !.ptrs = @ \cup {[at |-> Len(sc.target) + 1, n |-> n]}]

TypeOf(sc, r) ==
  LET sy == Lookup(sc, r.n)
      lo == ConstVal(sc, r.lo)
      hi == ConstVal(sc, r.hi)
      enum == EnumT(r.names[1], Len(r.names))
      elem == ResolveType(sc, r.elem)
      rec == ResolveFields([sc |-> sc, t |-> RecordT(<<>>, "")], r)
      is(sc1, t) == [sc |-> sc1, t |-> t]
  IN CASE r.k = "named" -> is(Fail(sc, sy.kind # "type"),
                              IF sy.kind = "type" THEN sy.t ELSE IntT)
       [] r.k = "enum" ->
            is(FoldLeftDomain(LAMBDA acc, j : DeclConst(acc, r.names[j], enum, j - 1), sc, r.names),
               enum)
       [] r.k = "sub" -> is(Fail(sc, ~lo.ok \/ ~hi.ok), SubT(lo.i, hi.i, Unwrap(lo.t)))
       [] r.k = "array" -> ResolveArray(sc, r)
       [] r.k = "record" -> rec
       [] r.k = "set" -> is(Fail(elem.sc, ~Ordinal(elem.t)), SetT(elem.t))
       [] r.k = "file" -> IF r.elem = <<>> THEN is(sc, TextT)
                          ELSE LET e == ResolveType(sc, r.elem[1]) IN is(e.sc, FileT(e.t))
       [] r.k = "ptr" -> is(Pointed(sc, r.n), PtrT(Len(sc.target) + 1, r.n))

(* resolvePtrs, after the types of a block and at the end: what a pointer   *)
(* names is a type by then.                                                 *)
ResolvePtrs(sc) ==
  LET found == {p \in sc.ptrs : Lookup(sc, p.n).kind = "type"}
      bind(p, tg) == [tg EXCEPT ![p.at] = Lookup(sc, p.n).t]
  IN Fail([sc EXCEPT !.target = FoldSet(bind, @, found),
                     !.ptrs = @ \ found], found # sc.ptrs)

-----------------------------------------------------------------------------
(* Statements. *)

Stated(s, ok) == [ok |-> ok] @@ s

(* The assignments threatened finds in the body of a FOR.  It looks at      *)
(* calls too, but by symbols that are not there before the body is checked. *)
RECURSIVE Threatened(_, _)
Threatened(s, n) ==
  CASE s.k = "assign" -> s.lhs.op = "id" /\ s.lhs.n = n
    [] s.k \in {"compound", "repeat"} -> \E j \in DOMAIN s.list : Threatened(s.list[j], n)
    [] s.k = "if" -> Threatened(s.body, n) \/ Threatened(s.els, n)
    [] s.k \in {"while", "for", "with", "label"} -> Threatened(s.body, n)
    [] s.k = "case" -> Threatened(s.other, n) \/ \E j \in DOMAIN s.arms : Threatened(s.arms[j].body, n)
    [] OTHER -> FALSE

(* mutant: the body is not looked at *)
ForControlAny(sc, v, body) ==
  /\ v.typ = NoType \/ Ordinal(v.typ)
  /\ v.op = "id" /\ v.sym.kind = "var" /\ ~v.sym.param /\ v.sym.level = Level(sc)
ForControl(sc, v, body) ==
  /\ v.typ = NoType \/ Ordinal(v.typ)
  /\ v.op = "id" /\ v.sym.kind = "var" /\ ~v.sym.param /\ v.sym.level = Level(sc)
  /\ ~Threatened(body, v.n)

(* The values of the constants of a CASE, each at most once. *)
Chosen(sc, k) == IF k.op = "range" THEN ConstVal(sc, k.x).i..ConstVal(sc, k.y).i
                 ELSE {ConstVal(sc, k).i}
ConstOk(sc, k) == IF k.op = "range" THEN ConstVal(sc, k.x).ok /\ ConstVal(sc, k.y).ok
                  ELSE ConstVal(sc, k).ok
Distinct(sc, consts) ==
  /\ \A j \in DOMAIN consts : ConstOk(sc, consts[j])
  /\ \A j, k \in DOMAIN consts : j # k => Chosen(sc, consts[j]) \cap Chosen(sc, consts[k]) = {}

(* Where the labels and the GOTOs of a statement are: the branches of       *)
(* structured statements they lie in, each branch by its position; in the   *)
(* order they are checked in.                                               *)
Branches(s) == CASE s.k = "if" -> <<s.body, s.els>>
                 [] s.k \in {"while", "for", "with"} -> <<s.body>>
                 [] s.k = "case" -> Append([j \in DOMAIN s.arms |-> s.arms[j].body], s.other)
                 [] OTHER -> <<>>
RECURSIVE Places(_, _, _)
Places(s, pos, path) ==
  CASE s.k = "label" -> <<[lab |-> s.lab, at |-> TRUE, path |-> path]>>
                        \o Places(s.body, Append(pos, 1), path)
    [] s.k = "goto" -> <<[lab |-> s.lab, at |-> FALSE, path |-> path]>>
    [] s.k \in {"compound", "repeat"} ->
         FlattenSeq(Listed([j \in DOMAIN s.list |->
           Places(s.list[j], Append(pos, j), IF s.k = "repeat" THEN Append(path, pos) ELSE path)]))
    [] OTHER -> LET b == Branches(s)
                IN FlattenSeq(Listed([j \in DOMAIN b |->
                     Places(b[j], Append(pos, j), Append(path, Append(pos, j)))]))

(* resolveGotos: the label, where it is put last, is in this block, and no  *)
(* branch is jumped into.                                                   *)
GotosOk(body, labels) ==
  LET places == Places(body, <<>>, <<>>)
      put(n) == SelectLastInSeq(places, LAMBDA p : p.at /\ p.lab = n)
  IN \A g \in ToSet(places) : ~g.at =>
       /\ g.lab \in labels /\ put(g.lab) # 0
       /\ IsPrefix(places[put(g.lab)].path, g.path)

CheckList(sc, l) == Listed([j \in DOMAIN l |-> CheckStmt(sc, l[j])])

CheckWith(sc, s) ==
  LET open(acc, e) == LET x == CheckExpr(acc.sc, e)
                      IN [sc |-> [acc.sc EXCEPT !.withs = Append(@, Unwrap(x.typ))],
                          recs |-> Append(acc.recs, x)]
      o == FoldLeft(open, [sc |-> sc, recs |-> <<>>], s.recs)
      body == CheckStmt(o.sc, s.body)
  IN Stated([s EXCEPT !.recs = o.recs, !.body = body], AllOk(o.recs) /\ body.ok)

StmtChecked(sc, s) ==
  LET list == CheckList(sc, s.list)
      lhs == CheckExpr(sc, s.lhs)
      rhs == CheckExpr(sc, s.rhs)
      cond == CheckExpr(sc, s.cond)
      body == CheckStmt(sc, s.body)
      els == CheckStmt(sc, s.els)
      other == CheckStmt(sc, s.other)
      arms == Listed([j \in DOMAIN s.arms |-> [consts |-> CheckAll(sc, s.arms[j].consts),
                                               body |-> CheckStmt(sc, s.arms[j].body)]])
      consts == FlattenSeq(Listed([j \in DOMAIN s.arms |-> s.arms[j].consts]))
      named == lhs.op = "id" /\ lhs.sym.kind # "none"
  IN CASE s.k = "compound" -> Stated([s EXCEPT !.list = list], AllOk(list))
       [] s.k = "assign" ->
            Stated([s EXCEPT !.lhs = lhs, !.rhs = rhs],
                   /\ lhs.ok /\ rhs.ok
                   /\ named => lhs.sym.kind \in {"var", "field"}
                   /\ Assignable(lhs.typ, rhs.typ))
       [] s.k = "call" -> Stated([s EXCEPT !.lhs = lhs],
                                 lhs.ok /\ (named => lhs.sym.kind \in {"proc", "func", "std"}))
       [] s.k = "if" -> Stated([s EXCEPT !.cond = cond, !.body = body, !.els = els],
                               cond.ok /\ Boolish(cond) /\ body.ok /\ els.ok)
       [] s.k = "while" -> Stated([s EXCEPT !.cond = cond, !.body = body],
                                  cond.ok /\ Boolish(cond) /\ body.ok)
       [] s.k = "repeat" -> Stated([s EXCEPT !.cond = cond, !.list = list],
                                   cond.ok /\ Boolish(cond) /\ AllOk(list))
       [] s.k = "for" -> Stated([s EXCEPT !.lhs = lhs, !.rhs = rhs, !.cond = cond, !.body = body],
                                lhs.ok /\ rhs.ok /\ cond.ok /\ ForControl(sc, lhs, s.body) /\ body.ok)
       [] s.k = "case" ->
            Stated([s EXCEPT !.cond = cond, !.arms = arms, !.other = other],
                   /\ cond.ok /\ (cond.typ = NoType \/ Ordinal(cond.typ)) /\ Distinct(sc, consts)
                   /\ \A j \in DOMAIN arms : AllOk(arms[j].consts) /\ arms[j].body.ok
                   /\ other.ok)
       [] s.k = "with" -> CheckWith(sc, s)
       [] s.k = "label" -> Stated([s EXCEPT !.body = body], body.ok)
       [] OTHER -> Stated(s, TRUE)

-----------------------------------------------------------------------------
(* Declarations. *)

RECURSIVE BindConformant(_, _)

(* A procedural parameter; a heading within its heading is declared beside  *)
(* it, in the same scope.                                                   *)
ParamBound(sc, head) ==
  LET ret == IF head.ret = <<>> THEN [sc |-> NewSlot(sc), t |-> NoType]
             ELSE ResolveType(NewSlot(sc), head.ret[1])
      bind(acc, p) ==
        IF p.k = "proc"
        THEN LET b == BindProcParam(acc.sc, p.head) IN [sc |-> b.sc, ps |-> Append(acc.ps, b.sym)]
        ELSE LET t == ResolveType(acc.sc, p.r)
             IN [sc |-> t.sc, ps |-> acc.ps \o [j \in DOMAIN p.names |->
                   [NoSym EXCEPT !.kind = "var", !.n = p.names[j], !.t = t.t, !.byRef = p.byRef]]]
      bound == FoldLeft(bind, [sc |-> ret.sc, ps |-> <<>>], head.params)
      sy == [NoSym EXCEPT !.kind = IF head.ret = <<>> THEN "proc" ELSE "func", !.t = ret.t,
                          !.off = Slots(sc), !.procParam = TRUE, !.params = bound.ps,
                          !.n = head.n, !.level = Level(sc)]
  IN [sc |-> Declare(bound.sc, head.n, sy), sym |-> sy]

(* The variables that hold the bounds of a conformant array parameter.      *)
BindConformant(sc, t) ==
  IF ~IsConf(t) THEN [sc |-> sc, offs |-> <<>>]
  ELSE LET bound == [NoSym EXCEPT !.t = t.index]
           both == DeclVar(DeclVar(sc, t.conf[1], bound), t.conf[2], bound)
           r == BindConformant(both, t.elem)
       IN [sc |-> r.sc, offs |-> <<Slots(sc), Slots(sc) + 1>> \o r.offs]

BindParam(acc, p) ==
  LET t == ResolveType(acc.sc, p.r)
      proc == BindProcParam(acc.sc, p.head)
      one(a, n) ==
        LET sy == [NoSym EXCEPT !.t = t.t, !.byRef = p.byRef, !.param = TRUE]
            c == BindConformant(DeclVar(a.sc, n, sy), t.t)
        IN [sc |-> c.sc, ps |-> Append(a.ps, [sy EXCEPT !.kind = "var", !.n = n,
                                                !.off = Slots(a.sc), !.conf = c.offs])]
  IN CASE ~acc.sc.ok -> acc
       [] acc.sc.ok /\ p.k = "proc" -> [sc |-> proc.sc, ps |-> Append(acc.ps, proc.sym)]
       [] OTHER -> FoldLeft(one, [acc EXCEPT !.sc = t.sc], p.names)

(* declProcHeader: a body takes over the symbol, the parameters and the     *)
(* type of its FORWARD.                                                     *)
DeclHeader(acc, pr) ==
  LET sc == acc.sc
      ret == IF pr.ret = <<>> THEN [sc |-> sc, t |-> NoType] ELSE ResolveType(sc, pr.ret[1])
      old == Lookup(sc, pr.n)
      sy == [NoSym EXCEPT !.kind = IF pr.ret = <<>> THEN "proc" ELSE "func", !.t = ret.t,
                          !.fwd = pr.fwd, !.id = Len(ret.sc.heads) + 1]
      fresh == [Declare(ret.sc, pr.n, sy) EXCEPT !.heads = Append(@, pr)]
      head == sc.heads[old.id]
      whole == [pr EXCEPT !.params = IF @ = <<>> THEN head.params ELSE @,
                          !.ret = IF @ = <<>> THEN head.ret ELSE @]
      same == [ret.sc EXCEPT !.scopes[old.level + 1].syms[pr.n].fwd = pr.fwd,
                             !.scopes[old.level + 1].syms[pr.n].t = IF pr.ret = <<>> THEN @ ELSE ret.t,
                             !.heads[old.id] = whole]
  IN IF ~sc.ok THEN acc
     ELSE IF IsProc(old) /\ old.fwd THEN [sc |-> same, procs |-> Append(acc.procs, whole)]
     ELSE [sc |-> fresh, procs |-> Append(acc.procs, pr)]

(* checkProcBody: the parameters, the result and the block in one scope.    *)
CheckProcBody(acc, pr) ==
  LET sy == Lookup(acc.sc, pr.n)
      bound == FoldLeft(BindParam, [sc |-> PushScope([acc.sc EXCEPT !.fn = sy]), ps |-> <<>>],
                        pr.params)
      known == [bound.sc EXCEPT !.params = (sy.id :> bound.ps) @@ @]
      ret == ResolveType(known, pr.ret[1])
      isFunc == pr.ret # <<>>
      inner == CheckBlock(IF isFunc THEN DeclVar(ret.sc, pr.n, [NoSym EXCEPT !.t = ret.t])
                          ELSE known, pr.block)
  IN IF ~acc.sc.ok \/ pr.fwd THEN acc
     ELSE [sc |-> [inner.sc EXCEPT !.scopes = acc.sc.scopes, !.fn = acc.sc.fn],
           procs |-> Append(acc.procs,
             [sym |-> sy, params |-> bound.ps, isFunc |-> isFunc, ret |-> IF isFunc THEN ret.t ELSE NoType,
              retOff |-> Slots(known), block |-> inner.b])]

(* The constants, types and variables of a block; its procedures, all the   *)
(* headings before the bodies; its statements.                              *)
Declared(sc, b) ==
  LET const(a, d) == LET v == ConstVal(a, d.val)
                     IN IF ~a.ok THEN a ELSE Fail(DeclConst(a, d.n, v.t, v.i), ~v.ok)
      type(a, d) == LET t == ResolveType(a, d.r) IN IF ~a.ok THEN a ELSE DeclType(t.sc, d.n, t.t)
      var(a, d) == LET t == ResolveType(a, d.r)
                       one(x, n) == DeclVar(x, n, [NoSym EXCEPT !.t = t.t])
                   IN IF ~a.ok THEN a ELSE FoldLeft(one, t.sc, d.names)
      types == FoldLeft(type, FoldLeft(const, sc, b.consts), b.types)
  IN FoldLeft(var, ResolvePtrs(types), b.vars)
Bodies(heads) == FoldLeft(CheckProcBody, [sc |-> heads.sc, procs |-> <<>>], heads.procs)
Ended(r, b) ==
  LET body == CheckStmt(r.sc, b.body)
  IN [sc |-> Fail(r.sc, ~body.ok \/ ~GotosOk(b.body, ToSet(b.labels))),
      b |-> [procs |-> r.procs, body |-> body, nslot |-> Slots(r.sc)]]
BlockChecked(sc, b) ==
  Ended(Bodies(FoldLeft(DeclHeader, [sc |-> Declared(sc, b), procs |-> <<>>], b.procs)), b)

Check(what, sc, x) == CASE what = "expr" -> ExprChecked(sc, x)
                        [] what = "const" -> ConstOf(sc, x)
                        [] what = "type" -> TypeOf(sc, x)
                        [] what = "fields" -> FieldsOf(sc, x)
                        [] what = "param" -> ParamBound(sc, x)
                        [] what = "stmt" -> StmtChecked(sc, x)
                        [] what = "block" -> BlockChecked(sc, x)

(* checkPascal: the predefined scope, then the program. *)
Predefined ==
  LET sc0 == [scopes |-> <<[syms |-> <<>>, nslot |-> 0]>>, withs |-> <<>>, fn |-> NoSym,
              params |-> <<>>, target |-> <<>>, ptrs |-> {}, heads |-> <<>>, ok |-> TRUE]
      types == FoldLeft(LAMBDA a, x : DeclType(a, x[1], x[2]), sc0,
                        << <<"INTEGER", IntT>>, <<"BOOLEAN", BoolT>>, <<"CHAR", CharT>>,
                           <<"TEXT", TextT>> >>)
      stds == [DeclConst(types, "MAXINT", IntT, MaxInt) EXCEPT
                 !.scopes[1].syms = [n \in Standard |-> [NoSym EXCEPT !.kind = "std", !.n = n]] @@ @]
  IN DeclVar(DeclVar(stds, "INPUT", [NoSym EXCEPT !.t = TextT]), "OUTPUT",
             [NoSym EXCEPT !.t = TextT])

Result(r) == LET sc == ResolvePtrs(r.sc)
             IN [b |-> r.b, target |-> sc.target, ok |-> sc.ok]
CheckProgram(b) == Result(CheckBlock(PushScope(Predefined), b))
=============================================================================
