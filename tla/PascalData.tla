----------------------------- MODULE PascalData -----------------------------
(***************************************************************************)
(* Types, values and storage of the Pascal of this system, shared by its   *)
(* two machines (the types of pascal_ast.go and the helpers of             *)
(* pascal_eval.go that the P-code machine calls too).                      *)
(*                                                                         *)
(* A pVal in storage is a cell, and a pointer to it is the cell's number:  *)
(* what refers to an element of an array goes on referring to that cell    *)
(* when the array is assigned and gets new ones, as the code's pointers    *)
(* into slices do.  A value away from storage is a tree of the same        *)
(* records.  REAL and strings are left out; a character is its code.       *)
(***************************************************************************)
EXTENDS Integers, Sequences, FiniteSets, SequencesExt

CONSTANTS
  MaxInt,     \* pascalMaxInt
  SetSpan     \* pascalSetSpan

(* A function on 1..n as a sequence (TLC evaluates its elements here). *)
Listed(f) == <<>> \o f

NoType == [k |-> "none"]
IntT == [k |-> "int"]
BoolT == [k |-> "bool"]
CharT == [k |-> "char"]
TextT == [k |-> "text"]
NilT == [k |-> "nil"]
DummyT == [k |-> "dummy"]
EnumT(name, size) == [k |-> "enum", name |-> name, size |-> size]
SubT(lo, hi, base) == [k |-> "sub", lo |-> lo, hi |-> hi, base |-> base]
ArrayT(index, elem) == [k |-> "array", index |-> index, elem |-> elem, conf |-> <<>>]
ConfT(elem, lo, hi) == [k |-> "array", index |-> IntT, elem |-> elem, conf |-> <<lo, hi>>]
RecordT(fields, tag) == [k |-> "record", fields |-> fields, tag |-> tag]
SetT(elem) == [k |-> "set", elem |-> elem]
PtrT(to, name) == [k |-> "ptr", to |-> to, name |-> name]  \* to: its target in the table
FileT(elem) == [k |-> "file", elem |-> elem]

Unwrap(t) == IF t.k = "sub" THEN t.base ELSE t
Ordinal(t) == t.k \in {"int", "bool", "char", "enum", "sub"}
IsFile(t) == t.k \in {"text", "file"}
IsConf(t) == t.k = "array" /\ t.conf # <<>>

RangeBounds(t) == CASE t.k = "int" -> <<-MaxInt, MaxInt>>
                    [] t.k = "bool" -> <<0, 1>>
                    [] t.k = "char" -> <<0, 255>>
                    [] t.k = "enum" -> <<0, t.size - 1>>
                    [] t.k = "sub" -> <<t.lo, t.hi>>
                    [] OTHER -> <<0, 0>>
Lo(t) == RangeBounds(t)[1]
Hi(t) == RangeBounds(t)[2]
OrdInRange(t, i) == ~Ordinal(t) \/ (Lo(t) <= i /\ i <= Hi(t))

ArrayLen(t) == IF t.k # "array" \/ IsConf(t) \/ Hi(t.index) < Lo(t.index) THEN 0
               ELSE Hi(t.index) - Lo(t.index) + 1

RECURSIVE SameType(_, _)
SameType(s, t) ==
  LET a == Unwrap(s)  b == Unwrap(t)
  IN \/ a = b
     \/ /\ a.k = b.k
        /\ CASE a.k = "array" -> /\ IsConf(a) \/ IsConf(b) \/ ArrayLen(a) = ArrayLen(b)
                                 /\ SameType(a.elem, b.elem)
             [] a.k = "record" ->
                  /\ Len(a.fields) = Len(b.fields)
                  /\ \A j \in DOMAIN a.fields :
                       /\ a.fields[j].n = b.fields[j].n
                       /\ SameType(a.fields[j].t, b.fields[j].t)
             [] a.k = "set" -> SameType(a.elem, b.elem)
             [] a.k = "ptr" -> a.name = b.name
             [] OTHER -> FALSE

-----------------------------------------------------------------------------
(* Values. *)

Blank == [t |-> NoType, i |-> 0, e |-> <<>>, bits |-> {}, ptr |-> 0, proc |-> 0,
          slink |-> 0, file |-> 0, ref |-> 0]
Of(t, i) == [Blank EXCEPT !.t = t, !.i = i]
Truth(p) == Of(BoolT, IF p THEN 1 ELSE 0)

RECURSIVE ZeroVal(_)
ZeroVal(t) ==
  [Blank EXCEPT !.t = t,
     !.e = CASE t.k = "array" -> Listed([j \in 1..ArrayLen(t) |-> ZeroVal(t.elem)])
             [] t.k = "record" -> Listed([j \in DOMAIN t.fields |-> ZeroVal(t.fields[j].t)])
             [] OTHER -> <<>>]

FieldAt(t, name) == CHOOSE j \in DOMAIN t.fields : t.fields[j].n = name
HasField(t, name) == t.k = "record" /\ \E j \in DOMAIN t.fields : t.fields[j].n = name

(* The bit of a set that stands for ord; -1 when the set cannot hold it.    *)
SetOrdIndex(elem, ord) ==
  LET span == Hi(elem) - Lo(elem) + 1
  IN CASE span > 0 /\ span <= SetSpan /\ ~OrdInRange(elem, ord) -> -1
       [] ord >= 0 /\ ord < SetSpan -> ord
       [] OTHER -> IF ord - Lo(elem) \in 0..(SetSpan - 1) THEN ord - Lo(elem) ELSE -1
SetBits(v, ords) ==
  [v EXCEPT !.bits = @ \cup ({SetOrdIndex(v.t.elem, o) : o \in ords} \ {-1})]
InSet(s, ord) == s.t.k = "set" /\ SetOrdIndex(s.t.elem, ord) \in s.bits
SetOp(op, a, b) ==
  [Blank EXCEPT !.t = a.t, !.bits = CASE op = "+" -> a.bits \cup b.bits
                                      [] op = "*" -> a.bits \cap b.bits
                                      [] op = "-" -> a.bits \ b.bits]

Sign(n) == IF n < 0 THEN -1 ELSE IF n > 0 THEN 1 ELSE 0
CompareVal(a, b) ==
  CASE a.t.k = "set" -> IF a.bits = b.bits THEN 0
                        ELSE IF a.bits \subseteq b.bits THEN -1 ELSE 1
    [] a.t.k = "ptr" -> Sign(a.ptr - b.ptr)
    [] OTHER -> Sign(a.i - b.i)

Relations == {"=", "<>", "<", "<=", ">", ">="}
Holds(op, cmp) == CASE op = "=" -> cmp = 0  [] op = "<>" -> cmp # 0
                    [] op = "<" -> cmp < 0  [] op = "<=" -> cmp <= 0
                    [] op = ">" -> cmp > 0  [] op = ">=" -> cmp >= 0

(* The quotient of Go truncates; MOD takes the remainder of ISO 7185.       *)
Quotient(a, b) == LET q == (IF a < 0 THEN -a ELSE a) \div (IF b < 0 THEN -b ELSE b)
                  IN IF (a < 0) # (b < 0) THEN -q ELSE q

Fine(v) == [v |-> v, err |-> ""]
Fails(err) == [v |-> Blank, err |-> err]

(* vm.bin and evalBin, which are the same text twice. *)
Bin(op, x, y) ==
  CASE op \in {"+", "-", "*"} /\ x.t.k = "set" -> Fine(SetOp(op, x, y))
    [] op = "div" /\ y.i = 0 -> Fails("division by zero")
    [] op = "mod" /\ y.i <= 0 -> Fails("MOD divisor must be positive")
    [] op \in {"+", "-", "*", "div", "mod"} /\ x.t.k # "set" ->
         LET r == CASE op = "+" -> x.i + y.i  [] op = "-" -> x.i - y.i
                    [] op = "*" -> x.i * y.i  [] op = "div" -> Quotient(x.i, y.i)
                    [] op = "mod" -> x.i % y.i
         IN IF r < -MaxInt \/ r > MaxInt THEN Fails("integer overflow") ELSE Fine(Of(IntT, r))
    [] op = "and" -> Fine(Truth(x.i # 0 /\ y.i # 0))
    [] op = "or" -> Fine(Truth(x.i # 0 \/ y.i # 0))
    [] op = "in" -> Fine(Truth(InSet(y, x.i)))
    [] op \in Relations -> Fine(Truth(Holds(op, CompareVal(x, y))))

Un(op, x) == CASE op = "not" -> Truth(x.i = 0)
               [] op = "-" -> [x EXCEPT !.i = -@]
               [] op = "+" -> x

(* The standard functions of one ordinal argument. *)
OrdinalFns == {"ABS", "SQR", "ORD", "CHR", "SUCC", "PRED", "ODD"}
OrdinalFn(f, x) ==
  CASE f = "ABS" -> Fine([x EXCEPT !.i = IF @ < 0 THEN -@ ELSE @])
    [] f = "SQR" -> Fine([x EXCEPT !.i = @ * @])
    [] f = "ORD" -> Fine(Of(IntT, x.i))
    [] f = "CHR" -> IF x.i < 0 \/ x.i > 255 THEN Fails("CHR argument out of range")
                    ELSE Fine(Of(CharT, x.i))
    [] f = "ODD" -> Fine(Of(BoolT, x.i % 2))
    [] f \in {"SUCC", "PRED"} ->
         LET r == [x EXCEPT !.i = IF f = "SUCC" THEN @ + 1 ELSE @ - 1]
         IN IF OrdInRange(r.t, r.i) THEN Fine(r) ELSE Fails("out of range")

-----------------------------------------------------------------------------
(* Storage: cells, frames, the heap, the stack of WITH, files. *)

RECURSIVE Put(_, _, _), New(_, _), Tree(_, _)

(* *dst = v: the cell takes the value, its elements are new cells. *)
Put(m, c, v) ==
  LET add(acc, x) == LET a == New(acc.m, x) IN [m |-> a.m, es |-> Append(acc.es, a.c)]
      r == FoldLeft(add, [m |-> m, es |-> <<>>], v.e)
  IN [r.m EXCEPT !.cells[c] = [v EXCEPT !.e = r.es]]

New(m, v) == LET c == Len(m.cells) + 1
             IN [m |-> Put([m EXCEPT !.cells = Append(@, Blank)], c, v), c |-> c]

(* copyVal: the value of a cell, its elements copied. *)
Tree(m, c) == LET x == m.cells[c]
              IN [x EXCEPT !.e = Listed([j \in DOMAIN x.e |-> Tree(m, x.e[j])])]

(* assignVal: the destination keeps its type. *)
Assigned(dst, v) == IF dst.t = NoType THEN v ELSE [v EXCEPT !.t = dst.t]
AssignVal(m, c, v) == Put(m, c, Assigned(m.cells[c], v))

(* A parameter passed by value; an array keeps the type of the actual.      *)
ValueParam(t, v) ==
  IF IsConf(t) \/ v.t.k = "array" THEN [Assigned(ZeroVal(t), v) EXCEPT !.t = v.t]
  ELSE Assigned(ZeroVal(t), v)

NewFrame(m, level, slink, n) ==
  [m EXCEPT !.cells = @ \o [j \in 1..n |-> Blank],
            !.frames = Append(@, [level |-> level, slink |-> slink,
                                  slots |-> Listed([j \in 1..n |-> Len(m.cells) + j])])]

FrameOfCaller(m, f, level) == f  \* mutant: the dynamic link
RECURSIVE FrameAt(_, _, _)
FrameAt(m, f, level) == IF f = 0 THEN 0 ELSE IF m.frames[f].level > level
                        THEN FrameAt(m, m.frames[f].slink, level) ELSE f
SlotOf(m, f, off) == m.frames[f].slots[off + 1]

(* The cell of a variable: what a VAR parameter stands for, or the slot,    *)
(* which is made when it is first used.                                     *)
VarSlot(m, sy) ==
  LET f == FrameAt(m, m.fp, sy.level)
      c == SlotOf(m, f, sy.off)
  IN CASE f = 0 -> [m |-> m, c |-> 0, err |-> "unknown identifier"]
       [] f # 0 /\ m.cells[c].ref # 0 -> [m |-> m, c |-> m.cells[c].ref, err |-> ""]
       [] OTHER -> [m |-> IF m.cells[c].t = NoType /\ sy.t # NoType /\ m.cells[c].slink = 0
                          THEN Put(m, c, ZeroVal(sy.t)) ELSE m,
                    c |-> c, err |-> ""]

(* lo and hi of each dimension of a conformant array parameter. *)
RECURSIVE BindConf(_, _, _, _)
BindConf(m, f, offs, t) ==
  IF offs = <<>> \/ t.k # "array" THEN m
  ELSE LET m1 == Put(m, SlotOf(m, f, offs[1]), Of(IntT, Lo(t.index)))
           m2 == Put(m1, SlotOf(m, f, offs[2]), Of(IntT, Hi(t.index)))
       IN BindConf(m2, f, SubSeq(offs, 3, Len(offs)), t.elem)

PushWith(m, c) == [m EXCEPT !.withs = Append(@, [c |-> c, t |-> m.cells[c].t])]
PopWith(m, n) == [m EXCEPT !.withs = IF n > Len(@) THEN <<>> ELSE SubSeq(@, 1, Len(@) - n)]

NewHeap(m, c, tags) ==
  LET t == Unwrap(m.cells[c].t)
      base == IF t.k = "ptr" THEN m.target[t.to] ELSE IntT
      zero == ZeroVal(base)
      made == IF base.k = "record" /\ base.tag # "" /\ tags # <<>>
              THEN LET j == FieldAt(base, base.tag)
                   IN [zero EXCEPT !.e[j] = Assigned(@, tags[Len(tags)])]
              ELSE zero
      a == New(m, made)
  IN [a.m EXCEPT !.heap = Append(@, [live |-> TRUE, c |-> a.c]),
                 !.cells[c].ptr = Len(m.heap) + 1, !.cells[c].t = t]
Dispose(m, c) ==
  LET p == m.cells[c].ptr
  IN IF p = 0 THEN m ELSE [m EXCEPT !.heap[p].live = FALSE, !.cells[c].ptr = 0]
(* mutant: nil points nowhere *)
DerefNil(m, c) ==
  LET x == m.cells[c]
  IN [c |-> IF x.file # 0 THEN m.files[x.file].buffer
            ELSE IF x.ptr # 0 THEN m.heap[x.ptr].c ELSE 0, err |-> ""]
Deref(m, c) ==
  LET x == m.cells[c]
  IN CASE x.file # 0 -> [c |-> m.files[x.file].buffer, err |-> ""]
       [] x.file = 0 /\ x.ptr # 0 /\ m.heap[x.ptr].live -> [c |-> m.heap[x.ptr].c, err |-> ""]
       [] OTHER -> [c |-> 0, err |-> "nil pointer dereference"]

(* One step of an index: the element, unless it is outside of the array.    *)
Element(m, c, t, i) ==
  LET j == i - Lo(t.index) + 1
  IN CASE t.k # "array" -> [c |-> 0, err |-> "array expected"]
       [] t.k = "array" /\ j \in DOMAIN m.cells[c].e -> [c |-> m.cells[c].e[j], err |-> ""]
       [] OTHER -> [c |-> 0, err |-> "index out of range"]

-----------------------------------------------------------------------------
(* Files.  A text file that is read is a sequence of characters; what is    *)
(* written is a sequence of values, each the kind of its type and a number. *)

NL == 10
EndLine == <<"char", NL>>
FormFeed == <<"char", 12>>
Space == 32
IsDigit(ch) == ch \in 48..57
InFile == 1
OutFile == 2

NewFile(name, t) == [text |-> t.k # "file", name |-> name, mode |-> 0, buf |-> <<>>,
                     pos |-> 0, eof |-> FALSE, eoln |-> FALSE, w |-> <<>>,
                     elems |-> <<>>, epos |-> 0, buffer |-> 0,
                     elemT |-> IF t.k = "file" THEN t.elem ELSE CharT]
AddFile(m, file, value) ==
  LET a == New(m, value)
  IN [a.m EXCEPT !.files = Append(@, [file EXCEPT !.buffer = a.c])]

AtEnd(m, f) == [m EXCEPT !.files[f].eof = TRUE, !.files[f].eoln = TRUE]

(* refill: INPUT asks the terminal for the next line.  *)
Refill(m, f) ==
  LET x == m.files[f]
  IN CASE x.pos < Len(x.buf) -> [m |-> m, err |-> ""]
       [] x.pos >= Len(x.buf) /\ (f # InFile \/ m.typed = <<>>) ->
            [m |-> AtEnd(m, f), err |-> "EOF"]
       [] OTHER -> [m |-> [m EXCEPT !.files[f].buf = Append(Head(m.typed), NL),
                                    !.files[f].pos = 0, !.files[f].eoln = FALSE,
                                    !.files[f].eof = FALSE, !.typed = Tail(@)],
                    err |-> ""]

FillTextBuffer(m0, f) ==
  LET r == Refill(m0, f)  x == r.m.files[f]
  IN IF r.err # "" \/ x.pos >= Len(x.buf) THEN AtEnd(r.m, f)
     ELSE LET ch == x.buf[x.pos + 1]
          IN [Put(r.m, x.buffer, Of(CharT, ch)) EXCEPT !.files[f].eoln = ch = NL,
                                                       !.files[f].eof = FALSE]
FillTypedBuffer(m, f) ==
  LET x == m.files[f]
  IN IF x.epos >= Len(x.elems) THEN [m EXCEPT !.files[f].eof = TRUE]
     ELSE [Put(m, x.buffer, x.elems[x.epos + 1]) EXCEPT !.files[f].eof = FALSE]

OpenFile(m, c, t, name, rewrite) ==
  LET u == Unwrap(t)
      f == Len(m.files) + 1
      old == IF name \in DOMAIN m.named THEN m.named[name] ELSE 0
      fresh == [NewFile(name, u) EXCEPT !.mode = IF rewrite THEN 2 ELSE 1, !.eof = rewrite]
      body == IF name \in DOMAIN m.disk THEN m.disk[name] ELSE <<>>
      opened ==
        CASE rewrite -> AddFile(m, fresh, ZeroVal(fresh.elemT))
          [] ~rewrite /\ fresh.text ->
               FillTextBuffer(AddFile(m, [fresh EXCEPT !.buf = body], Of(CharT, 0)), f)
          [] ~rewrite /\ ~fresh.text /\ old # 0 /\ ~m.files[old].text ->
               FillTypedBuffer(AddFile(m, [fresh EXCEPT !.elems = m.files[old].elems],
                                       ZeroVal(fresh.elemT)), f)
          [] OTHER -> AddFile(m, [fresh EXCEPT !.eof = TRUE], ZeroVal(fresh.elemT))
  IN IF ~rewrite /\ fresh.text /\ name \notin DOMAIN m.disk
     THEN [m |-> m, err |-> "no such file"]
     ELSE [m |-> [opened EXCEPT !.cells[c].file = f,
                                !.named = (name :> f) @@ @],
           err |-> ""]

GetNext(m, f) ==
  LET x == m.files[f]
  IN IF x.text THEN FillTextBuffer([m EXCEPT !.files[f].pos =
                                      IF @ < Len(x.buf) THEN @ + 1 ELSE @], f)
     ELSE FillTypedBuffer([m EXCEPT !.files[f].epos = IF x.eof THEN @ ELSE @ + 1], f)

PutNext(m, f) ==
  LET x == m.files[f]  v == Tree(m, x.buffer)
  IN IF x.text THEN [m EXCEPT !.files[f].w = Append(@, <<"char", v.i>>)]
     ELSE [m EXCEPT !.files[f].elems = Append(@, v)]

(* WRITE and WRITELN of values already evaluated. *)
Write(m, f, vals, nl) ==
  LET x == m.files[f]
      shown == [j \in DOMAIN vals |-> <<Unwrap(vals[j].t).k, vals[j].i>>]
                 \o (IF nl THEN <<EndLine>> ELSE <<>>)
      elems == Listed([j \in DOMAIN vals |-> [vals[j] EXCEPT !.t = x.elemT]])
  IN CASE ~x.text /\ vals = <<>> -> m
       [] ~x.text /\ vals # <<>> ->
            [Put(m, x.buffer, Last(elems)) EXCEPT !.files[f].elems = @ \o elems]
       [] x.text /\ f = OutFile -> [m EXCEPT !.out = @ \o shown]
       [] OTHER -> [m EXCEPT !.files[f].w = @ \o shown]

(* The number at the front of a text: skipWS and scanNum.  An end of line   *)
(* is not skipped, and no digits read as 0.                                 *)
Skipped(s) == SelectInSeq(s \o <<NL>>, LAMBDA ch : ch # Space) - 1
Digits(s) == SelectInSeq(s \o <<NL>>, LAMBDA ch : ~IsDigit(ch)) - 1
NumberAt(s) ==
  LET rest == SubSeq(s, Skipped(s) + 1, Len(s))
  IN [n |-> FoldLeft(LAMBDA a, ch : 10 * a + ch - 48, 0, SubSeq(rest, 1, Digits(rest))),
      len |-> Skipped(s) + Digits(rest)]

MarkEoln(m, f) ==
  LET x == m.files[f]
  IN IF x.pos >= Len(x.buf) \/ x.buf[x.pos + 1] = NL
     THEN [m EXCEPT !.files[f].eoln = TRUE] ELSE m

(* One READ into the cell c; argT is the type whose range is checked.  A    *)
(* number read takes the type that is not a subrange.                       *)
ReadVal(m0, f, c, t, argT) ==
  LET x0 == m0.files[f]
      r == Refill(m0, f)
      m == r.m
      x == m.files[f]
      s == SubSeq(x.buf, x.pos + 1, Len(x.buf))
      num == NumberAt(s)
  IN CASE ~x0.text -> IF x0.eof THEN [m |-> m0, err |-> "EOF"]
                      ELSE [m |-> FillTypedBuffer([AssignVal(m0, c, Tree(m0, x0.buffer))
                                                     EXCEPT !.files[f].epos = @ + 1], f),
                            err |-> ""]
       [] x0.text /\ r.err # "" -> [m |-> m, err |-> r.err]
       [] x0.text /\ r.err = "" /\ Unwrap(t).k = "char" ->
            [m |-> MarkEoln([m EXCEPT !.cells[c].i = s[1], !.files[f].pos = @ + 1], f),
             err |-> ""]
       [] OTHER ->
            [m |-> MarkEoln([m EXCEPT !.cells[c].i = num.n, !.cells[c].t = Unwrap(t),
                                      !.files[f].pos = @ + num.len], f),
             err |-> IF OrdInRange(argT, num.n) THEN "" ELSE "value out of range"]

ReadLn(m, f) ==
  LET x == m.files[f]
      s == SubSeq(x.buf, x.pos + 1, Len(x.buf))
      nl == SelectInSeq(s, LAMBDA ch : ch = NL)
  IN [m EXCEPT !.files[f].pos = IF nl = 0 THEN Len(x.buf) ELSE @ + nl,
               !.files[f].eoln = TRUE]

(* PACK and UNPACK: elements of a from i on into z, and back, one after     *)
(* another; the ones that a does not have are passed over.                  *)
Pack(m, a, i, z) ==
  LET from == m.cells[a].e  to == m.cells[z].e
      start == i - Lo(m.cells[a].t.index)
      copy(acc, k) == IF start + k \in DOMAIN from
                      THEN Put(acc, to[k], Tree(acc, from[start + k])) ELSE acc
  IN FoldLeftDomain(copy, m, to)
Unpack(m, z, a, i) ==
  LET from == m.cells[z].e  to == m.cells[a].e
      start == i - Lo(m.cells[a].t.index)
      copy(acc, k) == IF start + k \in DOMAIN to
                      THEN Put(acc, to[start + k], Tree(acc, from[k])) ELSE acc
  IN FoldLeftDomain(copy, m, from)

(* The state a program starts in: INPUT and OUTPUT on level 0.              *)
StartMemory(nslot, target, typed, disk) ==
  LET m0 == [cells |-> <<>>, frames |-> <<>>, fp |-> 0, withs |-> <<>>, heap |-> <<>>,
             files |-> <<>>, named |-> <<>>, typed |-> typed, disk |-> disk, out |-> <<>>,
             target |-> target]
      m1 == AddFile(m0, [NewFile("INPUT", TextT) EXCEPT !.mode = 1], Of(CharT, 0))
      m2 == AddFile(m1, [NewFile("OUTPUT", TextT) EXCEPT !.mode = 2], Of(CharT, 0))
      m3 == NewFrame(m2, 0, 0, 2)
      m4 == Put(m3, SlotOf(m3, 1, 0), [Blank EXCEPT !.t = TextT, !.file = InFile])
      m5 == Put(m4, SlotOf(m4, 1, 1), [Blank EXCEPT !.t = TextT, !.file = OutFile])
  IN [NewFrame(m5, 1, 1, nslot) EXCEPT !.fp = 2]

(* flushFiles: the files still open for output are written.                 *)
FlushFiles(m) ==
  LET written == {n \in DOMAIN m.named : m.files[m.named[n]].mode = 2}
  IN [m EXCEPT !.disk = [n \in written |-> m.files[m.named[n]].w] @@ @]
=============================================================================
