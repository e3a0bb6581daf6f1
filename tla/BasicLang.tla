----------------------------- MODULE BasicLang -----------------------------
(***************************************************************************)
(* What a BASIC program means, statement by statement: the definition that *)
(* the compiled code of modules BasicCode and BasicVM is checked against.  *)
(* Programs are those of module BasicCode.  There is no code here, no      *)
(* operand stack and no frame of a loop: expressions have values, a        *)
(* modifier or an IF replaces a statement by the statements left to do,    *)
(* and NEXT goes back to the loop it closes in the text.                   *)
(*                                                                         *)
(* The machine m: the line (at) and the statement of that line (next) to   *)
(* do after those of todo; the loops that are being run, by the place of   *)
(* their FOR; the subroutines to return from; the functions defined; what  *)
(* READ has read; the error trap; and what was printed.                    *)
(***************************************************************************)
EXTENDS Integers, Sequences, SequencesExt

LOCAL With(f, x, v) == [y \in DOMAIN f \cup {x} |-> IF y = x THEN v ELSE f[y]]
LOCAL Without(f, S) == [y \in DOMAIN f \ S |-> f[y]]

Begin(vars) ==
  [at |-> 1, next |-> 1, todo |-> <<>>, line |-> 0, vars |-> vars, loops |-> <<>>,
   subs |-> <<>>, fns |-> <<>>, ptr |-> 0, handler |-> 0, err |-> 0, erl |-> 0,
   inHandler |-> FALSE, out |-> <<>>, how |-> "running", code |-> 0,
   chain |-> <<>>]

-----------------------------------------------------------------------------
(* Expressions: <<TRUE, value>>, or <<FALSE, number of the error>>.        *)

Good(v) == <<TRUE, v>>
Bad(code) == <<FALSE, code>>

RECURSIVE DivideTowards0(_, _)
DivideTowards0(a, b) == IF b < 0 THEN DivideTowards0(-a, -b)
                        ELSE IF a < 0 THEN -((-a) \div b)
                        ELSE a \div b

Compare(b) == Good(IF b THEN -1 ELSE 0)

(* A number as the set of its bits that are 1, of 16. *)
Bits(x) == {i \in 0..15 : (x \div 2^i) % 2 = 1}
OfBits(S) == Good(FoldSet(LAMBDA i, acc : acc + (IF i = 15 THEN -(2^15) ELSE 2^i), 0, S))

Apply(op, a, b) ==
  CASE op = "+" -> Good(a + b)
    [] op = "-" -> Good(a - b)
    [] op = "*" -> Good(a * b)
    [] op = "\\" -> IF b = 0 THEN Bad(61) ELSE Good(DivideTowards0(a, b))
    [] op = "MOD" -> IF b = 0 THEN Bad(61) ELSE Good(a - b * DivideTowards0(a, b))
    [] op = "AND" -> OfBits(Bits(a) \cap Bits(b))
    [] op = "OR" -> OfBits(Bits(a) \cup Bits(b))
    [] op = "XOR" -> OfBits((Bits(a) \cup Bits(b)) \ (Bits(a) \cap Bits(b)))
    [] op = "EQV" -> OfBits({i \in 0..15 : i \in Bits(a) <=> i \in Bits(b)})
    [] op = "IMP" -> OfBits({i \in 0..15 : i \in Bits(a) => i \in Bits(b)})
    [] op \in {"=", "=="} -> Compare(a = b)
    [] op = "<>" -> Compare(a # b)
    [] op = "<" -> Compare(a < b)
    [] op = "<=" -> Compare(a <= b)
    [] op = ">" -> Compare(a > b)
    [] op = ">=" -> Compare(a >= b)

RECURSIVE Value(_, _, _), Values(_, _, _)

(* The values of es, or the first error among them. *)
Values(m, vars, es) ==
  FoldLeft(LAMBDA acc, e :
             IF ~acc[1] THEN acc
             ELSE LET r == Value(m, vars, e)
                  IN IF r[1] THEN Good(Append(acc[2], r[2])) ELSE r,
           Good(<<>>), es)

Value(m, vars, e) ==
  CASE e.k = "num" -> Good(e.v)
    [] e.k = "var" -> Good(vars[e.x])
    [] e.k \in {"neg", "pos", "not"} ->
         LET r == Value(m, vars, e.e)
         IN IF ~r[1] THEN r
            ELSE IF e.k = "neg" THEN Good(-r[2])
            ELSE IF e.k = "pos" THEN r
            ELSE OfBits((0..15) \ Bits(r[2]))
    [] e.k = "bin" -> LET r == Values(m, vars, <<e.l, e.r>>)
                      IN IF r[1] THEN Apply(e.op, r[2][1], r[2][2]) ELSE r
    [] e.k = "call" ->
         LET r == Values(m, vars, e.args)
         IN IF ~r[1] THEN r
            ELSE IF e.f = "ERR" THEN Good(m.err)
            ELSE IF e.f = "ERL" THEN Good(m.erl)
            ELSE IF e.f \notin DOMAIN m.fns THEN Bad(73)
            ELSE IF Len(m.fns[e.f].params) # Len(e.args) THEN Bad(88)
            ELSE Value(m, [x \in DOMAIN vars |->
                             IF Contains(m.fns[e.f].params, x)
                             THEN r[2][SelectInSeq(m.fns[e.f].params,
                                                   LAMBDA y : y = x)]
                             ELSE vars[x]], m.fns[e.f].e)

-----------------------------------------------------------------------------
(* Which loop a NEXT closes.  A place is <<line, statement>>, by position. *)
(* NEXT x ends the loops inside that of x with it.                         *)

LOCAL Heads == {"for", "forWhile", "forUntil", "while", "until"}

Places(prog) == FlattenSeq([i \in DOMAIN prog |->
                  [j \in DOMAIN prog[i].stmts |-> <<i, j>>]])

At(prog, p) == prog[p[1]].stmts[p[2]]
LOCAL Before(p, q) == p[1] < q[1] \/ (p[1] = q[1] /\ p[2] < q[2])

(* open: the loops open so far; ends: the NEXT of each closed one.         *)
Pair(prog, acc, p) ==
  LET s == At(prog, p)
      n == IF s.x = "" THEN Len(acc.open)
           ELSE SelectLastInSeq(acc.open, LAMBDA q : At(prog, q).k \in
                  {"for", "forWhile", "forUntil"} /\ At(prog, q).x = s.x)
  IN IF s.k \in Heads THEN [acc EXCEPT !.open = Append(@, p)]
     ELSE IF s.k # "next" THEN acc
     ELSE [open |-> SubSeq(acc.open, 1, n - 1),
           of |-> With(acc.of, p, acc.open[n]),
           ends |-> [q \in DOMAIN acc.ends
                          \cup Range(SubSeq(acc.open, n, Len(acc.open)))
                     |-> IF q \in DOMAIN acc.ends THEN acc.ends[q] ELSE p]]

(* The head that each NEXT goes back to, and the NEXT that ends each loop. *)
Nesting(prog) == FoldLeft(LAMBDA acc, p : Pair(prog, acc, p),
                          [open |-> <<>>, of |-> <<>>, ends |-> <<>>],
                          Places(prog))

-----------------------------------------------------------------------------
(* Going somewhere, and errors.                                            *)

HasNum(prog, n) == \E i \in DOMAIN prog : prog[i].num = n
IndexOf(prog, n) == CHOOSE i \in DOMAIN prog : prog[i].num = n

ToIndex(m, i) == [m EXCEPT !.at = i, !.next = 0, !.todo = <<>>]
After(m, p) == [m EXCEPT !.at = p[1], !.next = p[2] + 1, !.todo = <<>>]

Fails(prog, m, code) ==
  IF m.handler = 0 \/ m.inHandler
  THEN [m EXCEPT !.how = "failed", !.code = code]
  ELSE LET t == [m EXCEPT !.err = code, !.erl = m.line, !.inHandler = TRUE]
       IN IF HasNum(prog, m.handler) THEN ToIndex(t, IndexOf(prog, m.handler))
          ELSE [t EXCEPT !.how = "failed", !.code = 1]

ToLine(prog, m, n) == IF HasNum(prog, n) THEN ToIndex(m, IndexOf(prog, n))
                      ELSE Fails(prog, m, 1)

Holds(v) == v # 0
SetVar(m, x, v) == [m EXCEPT !.vars[x] = v]
First(m, ss) == [m EXCEPT !.todo = ss \o @]

-----------------------------------------------------------------------------
(* Loops and modifiers.  What is left to do of a loop or of a modifier is  *)
(* a statement of its own: "try" is the test of the loop whose head is at  *)
(* p, "again" the rounds of a FOR modifier that are left, its limits       *)
(* evaluated, and "test" those of FOR x = a WHILE c.                       *)

LOCAL InLimit(x, step, end) == IF step < 0 THEN x >= end ELSE x <= end

TryAt(p) == [k |-> "try", p |-> p]

(* The head of a loop, at p; v are its values. *)
Meet(m, s, p, v) ==
  First(CASE s.k = "for" -> [SetVar(m, s.x, v[1]) EXCEPT
                               !.loops = With(@, p, [end |-> v[2], step |-> v[3]])]
          [] s.k \in {"forWhile", "forUntil"} -> SetVar(m, s.x, v[1])
          [] OTHER -> m,
        <<TryAt(p)>>)

(* The body of the loop at p, or what follows its NEXT. *)
Try(prog, m, p, v) ==
  LET s == At(prog, p)
      again == IF s.k = "for" THEN InLimit(m.vars[s.x], m.loops[p].step, m.loops[p].end)
               ELSE Holds(v[1]) = (s.k \in {"while", "forWhile"})
  IN IF again THEN After(m, p)
     ELSE After([m EXCEPT !.loops = Without(@, {p})], Nesting(prog).ends[p])

(* NEXT, at q, drops the loops inside the one it goes back to. *)
GoBack(prog, m, q, v) ==
  LET p == Nesting(prog).of[q]
      s == At(prog, p)
      inside == {l \in DOMAIN m.loops : Before(p, l) /\ Before(l, q)}
      d == [m EXCEPT !.loops = Without(@, inside)]
  IN CASE s.k = "for" ->
            IF p \notin DOMAIN m.loops THEN Fails(prog, m, 1)
            ELSE First(SetVar(d, s.x, d.vars[s.x] + d.loops[p].step), <<TryAt(p)>>)
       [] s.k \in {"forWhile", "forUntil"} ->
            First(SetVar(m, s.x, m.vars[s.x] + v[1]), <<TryAt(p)>>)
       [] OTHER -> First(m, <<TryAt(p)>>)

(* One round of a modifier. *)
Modified(m, s, v) ==
  CASE s.mod \in {"if", "unless"} -> IF Holds(v[1]) = (s.mod = "if") THEN First(m, <<s.s>>) ELSE m
    [] s.mod \in {"while", "until"} ->
         IF Holds(v[1]) = (s.mod = "while") THEN First(m, <<s.s, s>>) ELSE m
    [] s.mod = "for" ->
         LET r == [k |-> "again", s |-> s.s, x |-> s.x, end |-> v[2], step |-> v[3]]
             d == SetVar(m, s.x, v[1])
         IN IF InLimit(v[1], v[3], v[2]) THEN First(d, <<s.s, r>>) ELSE d
    [] s.mod \in {"forWhile", "forUntil"} ->
         First(SetVar(m, s.x, v[1]),
               <<[k |-> "test", s |-> s.s, x |-> s.x, step |-> s.step, cond |-> s.cond,
                  mod |-> s.mod]>>)

Again(m, s) ==
  LET x == m.vars[s.x] + s.step
      d == SetVar(m, s.x, x)
  IN IF InLimit(x, s.step, s.end) THEN First(d, <<s.s, s>>) ELSE d

(* The test, then the statement, the step and the test again. *)
Test(m, s, v) ==
  IF Holds(v[1]) = (s.mod = "forWhile")
  THEN First(m, <<s.s, [k |-> "let", xs |-> <<s.x>>,
                        e |-> [k |-> "bin", op |-> "+",
                               l |-> [k |-> "var", x |-> s.x], r |-> s.step]],
                  s>>)
  ELSE m

-----------------------------------------------------------------------------
(* Statements.                                                             *)

AllData(prog) ==
  FlattenSeq([i \in DOMAIN prog |->
    FlattenSeq([j \in DOMAIN prog[i].stmts |->
      IF prog[i].stmts[j].k = "data"
      THEN [d \in DOMAIN prog[i].stmts[j].vs |->
              [v |-> prog[i].stmts[j].vs[d], line |-> prog[i].num]]
      ELSE <<>>])])

Taken(br, m) == First(m, IF br.isLine THEN <<[k |-> "goto", e |-> br.line]>> ELSE br.stmts)

(* Where RETURN goes, if there is a line n to return from. *)
Remember(m, prog, n) ==
  IF HasNum(prog, n)
  THEN [m EXCEPT !.subs = Append(@, [at |-> m.at, next |-> m.next,
                                     todo |-> m.todo])]
  ELSE m

Resumed(prog, m, n, Go(_)) ==
  IF ~m.inHandler /\ m.err = 0 THEN Fails(prog, m, 104)
  ELSE LET d == [m EXCEPT !.inHandler = FALSE]
       IN IF HasNum(prog, n) THEN Go(d) ELSE Fails(prog, d, 1)

(* READ of one variable after another. *)
ReadAll(prog, m, xs) ==
  FoldLeft(LAMBDA d, x :
             IF d.how # "running" \/ d.at # m.at \/ d.next # m.next THEN d
             ELSE IF d.ptr >= Len(AllData(prog)) THEN Fails(prog, d, 57)
             ELSE [SetVar(d, x, AllData(prog)[d.ptr + 1].v) EXCEPT !.ptr = @ + 1],
           m, xs)

(* The expressions whose values a statement needs, at the place p. *)
Operands(prog, s, p) ==
  CASE s.k \in {"let", "goto", "gosub", "onError", "restoreAt", "resumeLine"} -> <<s.e>>
    [] s.k = "print" -> s.es
    [] s.k \in {"if", "test"} -> <<s.cond>>
    [] s.k \in {"onGoto", "onGosub"} -> <<s.e>> \o s.lines
    [] s.k = "chain" -> s.line
    [] s.k = "for" \/ (s.k = "mod" /\ s.mod = "for") -> <<s.start, s.end, s.step>>
    [] {s.k, IF s.k = "mod" THEN s.mod ELSE ""} \cap {"forWhile", "forUntil"} # {} -> <<s.start>>
    [] s.k = "mod" /\ s.mod \in {"if", "unless", "while", "until"} -> <<s.cond>>
    [] s.k = "try" -> IF At(prog, s.p).k = "for" THEN <<>> ELSE <<At(prog, s.p).cond>>
    [] s.k = "next" -> LET h == At(prog, Nesting(prog).of[p])
                       IN IF h.k \in {"forWhile", "forUntil"} THEN <<h.step>> ELSE <<>>
    [] OTHER -> <<>>

(* The statement s, at the place p; v are the values of its operands. *)
Do(prog, m, s, p, v) ==
  CASE s.k \in {"rem", "data"} -> m
    [] s.k \in Heads -> Meet(m, s, p, v)
    [] s.k = "try" -> Try(prog, m, s.p, v)
    [] s.k = "next" -> GoBack(prog, m, p, v)
    [] s.k = "mod" -> Modified(m, s, v)
    [] s.k = "again" -> Again(m, s)
    [] s.k = "test" -> Test(m, s, v)
    [] s.k = "let" ->
         [m EXCEPT !.vars = [x \in DOMAIN @ |-> IF Contains(s.xs, x) THEN v[1] ELSE @[x]]]
    [] s.k = "print" -> [m EXCEPT !.out = Append(@, v)]
    [] s.k = "goto" -> ToLine(prog, m, v[1])
    [] s.k = "gosub" -> ToLine(prog, Remember(m, prog, v[1]), v[1])
    [] s.k = "return" ->
         IF m.subs = <<>> THEN Fails(prog, m, 72)
         ELSE LET r == Last(m.subs)
              IN [m EXCEPT !.subs = Front(@), !.at = r.at, !.next = r.next, !.todo = r.todo]
    [] s.k = "if" -> IF Holds(v[1]) THEN Taken(s.then, m)
                     ELSE IF s.else = <<>> THEN m ELSE Taken(s.else[1], m)
    [] s.k \in {"onGoto", "onGosub"} ->
         IF v[1] \notin DOMAIN s.lines THEN m
         ELSE LET n == v[v[1] + 1]
              IN ToLine(prog, IF s.k = "onGosub" THEN Remember(m, prog, n) ELSE m, n)
    [] s.k = "read" -> ReadAll(prog, m, s.xs)
    [] s.k = "restore" -> [m EXCEPT !.ptr = 0]
    [] s.k = "restoreAt" ->
         [m EXCEPT !.ptr = Len(SelectSeq(AllData(prog), LAMBDA d : d.line < v[1]))]
    [] s.k = "def" -> [m EXCEPT !.fns = With(@, s.f, [params |-> s.params, e |-> s.e])]
    [] s.k = "onError" -> [m EXCEPT !.handler = v[1]]
    [] s.k = "resumeNext" -> Resumed(prog, m, m.erl, LAMBDA d :
         ToIndex(d, IndexOf(prog, d.erl) + 1))
    [] s.k = "resumeRetry" -> Resumed(prog, m, m.erl, LAMBDA d :
         ToIndex(d, IndexOf(prog, d.erl)))
    [] s.k = "resumeLine" ->
         LET n == IF v[1] = 0 THEN m.erl ELSE v[1]
         IN Resumed(prog, m, n, LAMBDA d : ToIndex(d, IndexOf(prog, n)))
    [] s.k \in {"end", "stop"} -> [m EXCEPT !.how = "ended"]
    [] s.k = "chain" -> [m EXCEPT !.how = "ended",
                                  !.chain = <<s.to, IF v = <<>> THEN 0 ELSE v[1]>>]

(* A statement fails if one of its operands does. *)
DoWith(prog, m, s, p, r) == IF r[1] THEN Do(prog, m, s, p, r[2]) ELSE Fails(prog, m, r[2])
Perform(prog, m, s, p) == DoWith(prog, m, s, p, Values(m, m.vars, Operands(prog, s, p)))

(* One step: what is left of a statement, the next statement of the line,  *)
(* or the next line, whose number becomes that of the line being executed. *)
OneStep(prog, m) ==
  LET p == <<m.at, m.next>>
      left == m.todo # <<>>
  IN CASE m.at > Len(prog) -> [m EXCEPT !.how = "ended"]
       [] m.at <= Len(prog) /\ m.next = 0 -> [m EXCEPT !.next = 1, !.line = prog[m.at].num]
       [] m.at <= Len(prog) /\ m.next > Len(prog[m.at].stmts) /\ ~left -> ToIndex(m, m.at + 1)
       [] OTHER -> Perform(prog,
                              IF left THEN [m EXCEPT !.todo = Tail(@)] ELSE [m EXCEPT !.next = @ + 1],
                              IF left THEN Head(m.todo) ELSE At(prog, p), p)

RECURSIVE Meaning(_, _, _)
Meaning(prog, m, fuel) ==
  IF m.how # "running" \/ fuel = 0 THEN m
  ELSE Meaning(prog, OneStep(prog, m), fuel - 1)

(* What running prog does, in at most fuel steps. *)
LangRun(prog, vars, fuel) == Meaning(prog, ToIndex(Begin(vars), 1), fuel)
============================================================================
