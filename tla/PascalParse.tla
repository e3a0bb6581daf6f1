----------------------------- MODULE PascalParse -----------------------------
(***************************************************************************)
(* The parser of Pascal (pascal_parse.go): recursive descent over the      *)
(* tokens the lexer returns, to the tree the checker takes.                *)
(*                                                                         *)
(* A parse is [v, ts, ok]: what was read, the tokens left, and whether     *)
(* p.err is still nil.  The code goes on after an error and drops what it  *)
(* made; here the trees of a parse that is not ok mean nothing.  Numbers   *)
(* and Characters give the tokens that are literals; REAL, strings and the *)
(* field widths of WRITE are left out.                                     *)
(***************************************************************************)
EXTENDS Integers, Sequences

CONSTANTS Numbers, Characters

Keywords == {"program", "label", "const", "type", "var", "procedure", "function",
             "forward", "packed", "array", "record", "set", "file", "of", "case",
             "begin", "end", "if", "then", "else", "while", "do", "repeat", "until",
             "for", "to", "downto", "with", "goto", "otherwise", "nil", "true", "false",
             "not", "div", "mod", "and", "or", "in"}
Symbols == {"(", ")", "[", "]", ",", ";", ":", ".", "..", ":=", "^", "+", "-", "*",
            "=", "<>", "<", "<=", ">", ">=", "eot"}

Tok(ts) == IF ts = <<>> THEN "eot" ELSE Head(ts)
Rest(ts) == IF ts = <<>> THEN <<>> ELSE Tail(ts)
IsNumber(t) == t \in DOMAIN Numbers
IsIdent(t) == t \notin Keywords \cup Symbols \cup DOMAIN Numbers \cup DOMAIN Characters

P(v, ts, ok) == [v |-> v, ts |-> ts, ok |-> ok]
Got(ts, t) == IF Tok(ts) = t THEN Tail(ts) ELSE ts
(* p.want: the token, or an error. *)
Want(r, t) == [r EXCEPT !.ts = Got(@, t), !.ok = @ /\ Tok(r.ts) = t]
Ident(ts) == IF IsIdent(Tok(ts)) THEN P(Tok(ts), Tail(ts), TRUE) ELSE P("", ts, FALSE)

(* r extended by what s read after it. *)
Then(r, s) == P(Append(r.v, s.v), s.ts, r.ok /\ s.ok)

RECURSIVE IdentsFrom(_)
IdentsFrom(r) == IF Tok(r.ts) = "," THEN IdentsFrom(Then(r, Ident(Tail(r.ts)))) ELSE r
IdentList(ts) == IdentsFrom(Then(P(<<>>, ts, TRUE), Ident(ts)))

-----------------------------------------------------------------------------
(* Expressions. *)

None == [k |-> "none"]
Id(n) == [op |-> "id", n |-> n]
RelOps == {"=", "<>", "<", "<=", ">", ">=", "in"}
AddOps == {"+", "-", "or"}
MulOps == {"*", "div", "mod", "and"}

Binary(x, r) == P([op |-> "bin", tok |-> Tok(x.ts), x |-> x.v, y |-> r.v], r.ts, x.ok /\ r.ok)
RangeOf(a, b) == P([op |-> "range", x |-> a.v, y |-> b.v], b.ts, a.ok /\ b.ok)

(* What the constructs of the language are read with, each by its name:     *)
(* they lie inside of one another, and Read is the recursion.               *)
RECURSIVE Read(_, _)
Expr(ts) == Read("expr", ts)
TypeRef(ts) == Read("type", ts)
Fields(ts) == Read("fields", ts)
Stmt(ts) == Read("stmt", ts)
Heading(ts) == Read("heading", ts)
Block(ts) == Read("block", ts)

RECURSIVE AddFrom(_), MulFrom(_), Unary(_), DesignatorFrom(_), ExprsFrom(_), ElemsFrom(_)

Mul(ts) == MulFrom(Unary(ts))
Add(ts) == AddFrom(Mul(ts))
ComparedTight(x) == IF Tok(x.ts) \in RelOps THEN Binary(x, Mul(Tail(x.ts))) ELSE x  \* mutant
Compared(x) == IF Tok(x.ts) \in RelOps THEN Binary(x, Add(Tail(x.ts))) ELSE x
ReadExpr(ts) == Compared(Add(ts))
AddFrom(x) == IF Tok(x.ts) \in AddOps THEN AddFrom(Binary(x, Mul(Tail(x.ts)))) ELSE x
MulFrom(x) == IF Tok(x.ts) \in MulOps THEN MulFrom(Binary(x, Unary(Tail(x.ts)))) ELSE x

(* A value or a range of values, in a set or before the colon of an arm.    *)
Elem(ts) == LET a == Expr(ts)
            IN IF Tok(a.ts) = ".." THEN RangeOf(a, Expr(Tail(a.ts))) ELSE a
ExprsFrom(r) == IF Tok(r.ts) = "," THEN ExprsFrom(Then(r, Expr(Tail(r.ts)))) ELSE r
ElemsFrom(r) == IF Tok(r.ts) = "," THEN ElemsFrom(Then(r, Elem(Tail(r.ts)))) ELSE r
ExprList(ts) == ExprsFrom(Then(P(<<>>, ts, TRUE), Expr(ts)))
ElemList(ts) == ElemsFrom(Then(P(<<>>, ts, TRUE), Elem(ts)))
UntilClosed(list, ts, close) ==
  Want(IF Tok(ts) = close THEN P(<<>>, ts, TRUE) ELSE list, close)

Primary(ts) ==
  LET t == Tok(ts)
      args == UntilClosed(ExprList(Rest(Rest(ts))), Rest(Rest(ts)), ")")
      elems == UntilClosed(ElemList(Rest(ts)), Rest(ts), "]")
  IN CASE IsIdent(t) -> IF Tok(Tail(ts)) = "("
                        THEN P([op |-> "call", n |-> t, args |-> args.v], args.ts, args.ok)
                        ELSE P(Id(t), Tail(ts), TRUE)
       [] t \in {"true", "false"} ->
            P([op |-> "bool", i |-> IF t = "true" THEN 1 ELSE 0], Tail(ts), TRUE)
       [] t = "nil" -> P([op |-> "nil"], Tail(ts), TRUE)
       [] IsNumber(t) -> P([op |-> "int", i |-> Numbers[t]], Tail(ts), TRUE)
       [] t \in DOMAIN Characters -> P([op |-> "char", i |-> Characters[t]], Tail(ts), TRUE)
       [] t = "(" -> Want(Expr(Tail(ts)), ")")
       [] t = "[" -> P([op |-> "set", elems |-> elems.v], elems.ts, elems.ok)
       [] OTHER -> P([op |-> "int", i |-> 0], Rest(ts), FALSE)

DesignatorFrom(x) ==
  LET name == Ident(Rest(x.ts))
      args == Want(ExprList(Rest(x.ts)), "]")
  IN CASE Tok(x.ts) = "." ->
            DesignatorFrom(P([op |-> "field", x |-> x.v, f |-> name.v], name.ts, x.ok /\ name.ok))
       [] Tok(x.ts) = "[" ->
            DesignatorFrom(P([op |-> "index", x |-> x.v, args |-> args.v], args.ts, x.ok /\ args.ok))
       [] Tok(x.ts) = "^" -> DesignatorFrom(P([op |-> "deref", x |-> x.v], Tail(x.ts), x.ok))
       [] OTHER -> x
Designator(ts) == DesignatorFrom(Primary(ts))

Unary(ts) ==
  IF Tok(ts) \notin {"+", "-", "not"} THEN Designator(ts)
  ELSE LET x == Unary(Tail(ts)) IN P([op |-> "un", tok |-> Tok(ts), x |-> x.v], x.ts, x.ok)

-----------------------------------------------------------------------------
(* Types. *)

Named(n) == [k |-> "named", n |-> n]
RECURSIVE ArmsFrom(_), IndexesFrom(_)

Sub(lo, hi) == P([k |-> "sub", lo |-> lo.v, hi |-> hi.v], hi.ts, lo.ok /\ hi.ok)

(* The indexes of an array: index types, or the bounds of a conformant one. *)
IndexesFrom(r) ==
  LET ix == TypeRef(r.ts)
      isConf == Tok(ix.ts) = ":"
      b == TypeRef(Rest(ix.ts))
      names == ix.v.k = "sub" /\ ix.v.lo.op = "id" /\ ix.v.hi.op = "id"
      next == IF isConf
              THEN P([r.v EXCEPT !.conf = Append(@, IF names
                        THEN [lo |-> ix.v.lo.n, hi |-> ix.v.hi.n, r |-> b.v] ELSE None)],
                     b.ts, r.ok /\ ix.ok /\ b.ok /\ names)
              ELSE P([r.v EXCEPT !.idx = Append(@, ix.v)], ix.ts, r.ok /\ ix.ok)
  IN IF next.ok /\ Tok(next.ts) \in {",", ";"}
     THEN IndexesFrom([next EXCEPT !.ts = Tail(@)]) ELSE next

ReadType(ts0) ==
  LET ts == Got(ts0, "packed")
      t == Tok(ts)
      rest == Rest(ts)
      made(p, ref) == P(ref, p.ts, p.ok)
  IN CASE IsIdent(t) -> IF Tok(rest) = ".." THEN Sub(P(Id(t), rest, TRUE), Expr(Tail(rest)))
                        ELSE P(Named(t), rest, TRUE)
       [] t = "(" -> LET l == Want(IdentList(rest), ")") IN made(l, [k |-> "enum", names |-> l.v])
       [] IsNumber(t) \/ t \in DOMAIN Characters \cup {"true", "false", "-", "+"} ->
            LET lo == Want(Expr(ts), "..") IN Sub(lo, Expr(lo.ts))
       [] t = "^" -> LET n == Ident(rest) IN made(n, [k |-> "ptr", n |-> n.v])
       [] t = "array" ->
            LET open == Want(P(<<>>, rest, TRUE), "[")
                ix == IndexesFrom(P([idx |-> <<>>, conf |-> <<>>], open.ts, open.ok))
                head == Want(Want(ix, "]"), "of")
                e == TypeRef(head.ts)
            IN P([k |-> "array", idx |-> ix.v.idx, conf |-> ix.v.conf, elem |-> e.v],
                 e.ts, head.ok /\ e.ok)
       [] t = "record" ->
            LET f == Want(Fields(rest), "end")
            IN made(f, [k |-> "record", fields |-> f.v.fields, variant |-> f.v.variant])
       [] t = "set" -> LET of == Want(P(<<>>, rest, TRUE), "of")  e == TypeRef(of.ts)
                       IN P([k |-> "set", elem |-> e.v], e.ts, of.ok /\ e.ok)
       [] t = "file" -> IF Tok(rest) # "of" THEN P([k |-> "file", elem |-> <<>>], rest, TRUE)
                        ELSE LET e == TypeRef(Tail(rest))
                             IN made(e, [k |-> "file", elem |-> <<e.v>>])
       [] OTHER -> P(Named(""), ts, FALSE)

RECURSIVE FieldsFrom(_)
FieldsFrom(r) ==
  LET names == Want(IdentList(r.ts), ":")
      t == TypeRef(names.ts)
      one == P(Append(r.v, [names |-> names.v, r |-> t.v]), t.ts, r.ok /\ names.ok /\ t.ok)
      sep == Want(one, ";")
  IN CASE ~IsIdent(Tok(r.ts)) \/ ~r.ok -> r
       [] Tok(one.ts) \in {"end", ")", "case"} -> one
       [] OTHER -> FieldsFrom(sep)

ArmsFrom(r) ==
  LET consts == Want(Want(ElemList(r.ts), ":"), "(")
      f == Want(Fields(consts.ts), ")")
      arm == P(Append(r.v, [consts |-> consts.v, fields |-> f.v.fields, variant |-> f.v.variant]),
               f.ts, r.ok /\ consts.ok /\ f.ok)
  IN CASE Tok(r.ts) \in {"end", ")", "eot"} \/ ~r.ok -> r
       [] Tok(arm.ts) \in {"end", ")"} -> arm
       [] OTHER -> ArmsFrom([arm EXCEPT !.ts = Got(@, ";")])

VariantPart(fixed) ==
  LET tag == Rest(fixed.ts)
      tagged == IsIdent(Tok(tag)) /\ Tok(Rest(tag)) = ":"
      t == TypeRef(IF tagged THEN Rest(Rest(tag)) ELSE tag)
      of == Want(t, "of")
      arms == ArmsFrom(P(<<>>, of.ts, of.ok))
  IN IF Tok(fixed.ts) # "case"
     THEN P([fields |-> fixed.v, variant |-> <<>>], fixed.ts, fixed.ok)
     ELSE P([fields |-> fixed.v,
             variant |-> <<[tag |-> IF tagged THEN Tok(tag) ELSE "", r |-> t.v, arms |-> arms.v]>>],
            arms.ts, fixed.ok /\ arms.ok)
ReadFields(ts) == VariantPart(FieldsFrom(P(<<>>, ts, TRUE)))

-----------------------------------------------------------------------------
(* Statements. *)

RECURSIVE StmtsFrom(_, _), CaseArmsFrom(_), RecsFrom(_)

StmtsFrom(r, stop) ==
  LET s == Then(r, Stmt(r.ts))
  IN CASE Tok(r.ts) \in {stop, "eot", "until"} \/ ~r.ok -> r
       [] Tok(s.ts) = ";" -> StmtsFrom([s EXCEPT !.ts = Tail(@)], stop)
       [] OTHER -> s
StmtList(ts, stop) == StmtsFrom(P(<<>>, ts, TRUE), stop)

Compound(ts) ==
  LET open == Want(P(<<>>, ts, TRUE), "begin")
      l == Want(StmtList(open.ts, "end"), "end")
  IN P([k |-> "compound", list |-> l.v], l.ts, open.ok /\ l.ok)

CaseArmsFrom(r) ==
  LET consts == Want(ElemList(r.ts), ":")
      s == Stmt(consts.ts)
      arm == P(Append(r.v, [consts |-> consts.v, body |-> s.v]), s.ts, r.ok /\ consts.ok /\ s.ok)
  IN CASE Tok(r.ts) \in {"end", "otherwise", "eot"} \/ ~r.ok -> r
       [] Tok(arm.ts) \in {"end", "otherwise"} -> arm
       [] OTHER -> CaseArmsFrom([arm EXCEPT !.ts = Got(@, ";")])

RecsFrom(r) == IF Tok(r.ts) = "," THEN RecsFrom(Then(r, Designator(Tail(r.ts)))) ELSE r

ForFrom(v) ==
  LET from == Expr(v.ts)
      down == Tok(from.ts) = "downto"
      step == IF down THEN [from EXCEPT !.ts = Tail(@)] ELSE Want(from, "to")
      last == Want(Expr(step.ts), "do")
      body == Stmt(last.ts)
  IN P([k |-> "for", lhs |-> v.v, rhs |-> from.v, cond |-> last.v, body |-> body.v, down |-> down],
       body.ts, v.ok /\ step.ok /\ last.ok /\ body.ok)

If(ts) ==
  LET c == Want(Expr(ts), "then")
      body == Stmt(c.ts)
      els == IF Tok(body.ts) = "else" THEN Stmt(Tail(body.ts)) ELSE P(None, body.ts, TRUE)
  IN P([k |-> "if", cond |-> c.v, body |-> body.v, els |-> els.v], els.ts,
       c.ok /\ body.ok /\ els.ok)

CaseFrom(c, arms) ==
  LET other == IF Tok(arms.ts) = "otherwise" THEN Stmt(Got(Tail(arms.ts), ":"))
               ELSE P(None, arms.ts, TRUE)
      end == Want([other EXCEPT !.ts = Got(@, ";")], "end")
  IN P([k |-> "case", cond |-> c.v, arms |-> arms.v, other |-> other.v], end.ts,
       arms.ok /\ end.ok)
Case(c) == CaseFrom(c, CaseArmsFrom(P(<<>>, c.ts, c.ok)))

(* WHILE and WITH: what is before DO, and the statement after it. *)
Do(k, head) ==
  LET body == Stmt(head.ts)
      ok == head.ok /\ body.ok
  IN IF k = "while" THEN P([k |-> k, cond |-> head.v, body |-> body.v], body.ts, ok)
     ELSE P([k |-> k, recs |-> head.v, body |-> body.v], body.ts, ok)

Until(list) == LET c == Expr(list.ts)
               IN P([k |-> "repeat", list |-> list.v, cond |-> c.v], c.ts, list.ok /\ c.ok)
Labelled(n, colon) == LET s == Stmt(colon.ts)
                      IN P([k |-> "label", lab |-> n, body |-> s.v], s.ts, colon.ok /\ s.ok)
AssignOrCall(x) ==
  LET rhs == Expr(Rest(x.ts))
  IN IF Tok(x.ts) = ":=" THEN P([k |-> "assign", lhs |-> x.v, rhs |-> rhs.v], rhs.ts, x.ok /\ rhs.ok)
     ELSE P([k |-> "call", lhs |-> x.v], x.ts, x.ok)

ReadStmt(ts) ==
  LET t == Tok(ts)
      rest == Rest(ts)
      here == P(<<>>, rest, TRUE)
  IN CASE IsNumber(t) -> Labelled(Numbers[t], Want(here, ":"))
       [] t = "begin" -> Compound(ts)
       [] t = "if" -> If(rest)
       [] t = "case" -> Case(Want(Expr(rest), "of"))
       [] t = "while" -> Do(t, Want(Expr(rest), "do"))
       [] t = "repeat" -> Until(Want(StmtList(rest, "until"), "until"))
       [] t = "for" -> ForFrom(Want(Designator(rest), ":="))
       [] t = "with" -> Do(t, Want(RecsFrom(Then(here, Designator(rest))), "do"))
       [] t = "goto" -> IF IsNumber(Tok(rest))
                        THEN P([k |-> "goto", lab |-> Numbers[Tok(rest)]], Tail(rest), TRUE)
                        ELSE P([k |-> "goto", lab |-> 0], rest, FALSE)
       [] IsIdent(t) \/ t \in {"true", "false"} -> AssignOrCall(Designator(ts))
       [] OTHER -> P([k |-> "empty"], ts, TRUE)

-----------------------------------------------------------------------------
(* Declarations. *)

RECURSIVE ParamsFrom(_), ProcsFrom(_), LabelsFrom(_), ConstsFrom(_),
          TypesFrom(_), VarsFrom(_)

(* The parameters and the type of a procedure; a heading of its own when it *)
(* is a parameter.                                                          *)
ReadHeading(ts) ==
  LET name == Ident(Rest(ts))
      ps == IF Tok(name.ts) # "(" THEN P(<<>>, name.ts, name.ok)
            ELSE UntilClosed(ParamsFrom(P(<<>>, Tail(name.ts), name.ok)), Tail(name.ts), ")")
      t == TypeRef(Rest(ps.ts))
      isFunc == Tok(ts) = "function" /\ Tok(ps.ts) = ":"
  IN IF isFunc THEN P([n |-> name.v, params |-> ps.v, ret |-> <<t.v>>], t.ts, name.ok /\ ps.ok /\ t.ok)
     ELSE P([n |-> name.v, params |-> ps.v, ret |-> <<>>], ps.ts, name.ok /\ ps.ok)

ParamsFrom(r) ==
  LET isProc == Tok(r.ts) \in {"procedure", "function"}
      h == Heading(r.ts)
      names == Want(IdentList(Got(r.ts, "var")), ":")
      t == TypeRef(names.ts)
      one == IF isProc
             THEN P(Append(r.v, [k |-> "proc", head |-> h.v]), h.ts,
                    r.ok /\ h.ok /\ (Tok(r.ts) = "function" => h.v.ret # <<>>))
             ELSE P(Append(r.v, [k |-> "vals", names |-> names.v, r |-> t.v,
                                 byRef |-> Tok(r.ts) = "var"]),
                    t.ts, r.ok /\ names.ok /\ t.ok)
  IN IF one.ok /\ Tok(one.ts) = ";" THEN ParamsFrom([one EXCEPT !.ts = Tail(@)]) ELSE one

ProcsFrom(r) ==
  LET h == Want(Heading(r.ts), ";")
      fwd == Tok(h.ts) = "forward"
      b == IF fwd THEN P(None, Tail(h.ts), TRUE) ELSE Block(h.ts)
      one == Want(P(Append(r.v, [n |-> h.v.n, params |-> h.v.params, ret |-> h.v.ret,
                                 fwd |-> fwd, block |-> b.v]), b.ts, r.ok /\ h.ok /\ b.ok), ";")
  IN IF Tok(r.ts) \in {"procedure", "function"} /\ r.ok THEN ProcsFrom(one) ELSE r

LabelsFrom(r) ==
  LET one == P(Append(r.v, Numbers[Tok(r.ts)]), Rest(r.ts), r.ok)
  IN CASE ~IsNumber(Tok(r.ts)) -> [r EXCEPT !.ok = FALSE]
       [] IsNumber(Tok(r.ts)) /\ Tok(one.ts) = "," -> LabelsFrom([one EXCEPT !.ts = Tail(@)])
       [] OTHER -> one
ConstsFrom(r) ==
  LET v == Expr(Got(Rest(r.ts), "="))
      one == Want(P(Append(r.v, [n |-> Tok(r.ts), val |-> v.v]), v.ts,
                    r.ok /\ Tok(Rest(r.ts)) = "=" /\ v.ok), ";")
  IN IF IsIdent(Tok(r.ts)) /\ r.ok THEN ConstsFrom(one) ELSE r
TypesFrom(r) ==
  LET t == TypeRef(Got(Rest(r.ts), "="))
      one == Want(P(Append(r.v, [n |-> Tok(r.ts), r |-> t.v]), t.ts,
                    r.ok /\ Tok(Rest(r.ts)) = "=" /\ t.ok), ";")
  IN IF IsIdent(Tok(r.ts)) /\ r.ok THEN TypesFrom(one) ELSE r
VarsFrom(r) ==
  LET names == Want(IdentList(r.ts), ":")
      t == TypeRef(names.ts)
      one == Want(P(Append(r.v, [names |-> names.v, r |-> t.v]), t.ts,
                    r.ok /\ names.ok /\ t.ok), ";")
  IN IF IsIdent(Tok(r.ts)) /\ r.ok THEN VarsFrom(one) ELSE r

ReadBlock(ts) ==
  LET start(s, word) == P(<<>>, Got(s, word), TRUE)
      ls == IF Tok(ts) = "label" THEN Want(LabelsFrom(start(ts, "label")), ";")
            ELSE P(<<>>, ts, TRUE)
      cs == IF Tok(ls.ts) = "const" THEN ConstsFrom(start(ls.ts, "const")) ELSE P(<<>>, ls.ts, TRUE)
      tys == IF Tok(cs.ts) = "type" THEN TypesFrom(start(cs.ts, "type")) ELSE P(<<>>, cs.ts, TRUE)
      vs == IF Tok(tys.ts) = "var" THEN VarsFrom(start(tys.ts, "var")) ELSE P(<<>>, tys.ts, TRUE)
      ps == ProcsFrom(P(<<>>, vs.ts, TRUE))
      body == Compound(ps.ts)
  IN P([labels |-> ls.v, consts |-> cs.v, types |-> tys.v, vars |-> vs.v, procs |-> ps.v,
        body |-> body.v],
       body.ts, ls.ok /\ cs.ok /\ tys.ok /\ vs.ok /\ ps.ok /\ body.ok)

Read(what, ts) == CASE what = "expr" -> ReadExpr(ts)
                    [] what = "type" -> ReadType(ts)
                    [] what = "fields" -> ReadFields(ts)
                    [] what = "stmt" -> ReadStmt(ts)
                    [] what = "heading" -> ReadHeading(ts)
                    [] what = "block" -> ReadBlock(ts)

(* The names in parentheses after that of the program: there may be none,   *)
(* and a comma after the last one.                                          *)
RECURSIVE SkipFiles(_)
SkipFiles(ts) ==
  IF ~IsIdent(Tok(ts)) THEN ts
  ELSE IF Tok(Tail(ts)) # "," THEN Tail(ts) ELSE SkipFiles(Tail(Tail(ts)))

Program(ts) ==
  LET name == Ident(Got(ts, "program"))
      files == IF Tok(name.ts) # "(" THEN P(<<>>, name.ts, name.ok)
               ELSE Want(P(<<>>, SkipFiles(Tail(name.ts)), name.ok), ")")
      head == Want(files, ";")
      b == Want(Block(head.ts), ".")
  IN P(b.v, b.ts, Tok(ts) = "program" /\ name.ok /\ head.ok /\ b.ok)
=============================================================================
