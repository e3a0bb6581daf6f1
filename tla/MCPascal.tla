------------------------------ MODULE MCPascal ------------------------------
(* Programs for TLC: every pair of statements of a pool, the first of them  *)
(* in every wrapper, with the declarations below, as text; and the memory   *)
(* that the evaluator leaves, to hold that of the machine against.          *)
EXTENDS PascalVM

Digit == [t \in {"0", "1", "2", "3", "4", "7", "9"} |->
            CHOOSE n \in 0..9 : ToString(n) = t]
MCNumbers == Digit @@ [t \in {"999"} |-> 999]
MCCharacters == "'A'" :> 65 @@ "'B'" :> 66

Tree0 == INSTANCE PascalEval

-----------------------------------------------------------------------------
(* Trees, and their text with the fewest parentheses. *)

X(n) == [op |-> "id", n |-> n]
N(i) == [op |-> "int", i |-> i]
Ch(i) == [op |-> "char", i |-> i]
T(b) == [op |-> "bool", i |-> b]
Nil0 == [op |-> "nil"]
B(x, tok, y) == [op |-> "bin", tok |-> tok, x |-> x, y |-> y]
U(tok, x) == [op |-> "un", tok |-> tok, x |-> x]
F(n, args) == [op |-> "call", n |-> n, args |-> args]
At(x, args) == [op |-> "index", x |-> x, args |-> args]
Dot(x, f) == [op |-> "field", x |-> x, f |-> f]
To(x) == [op |-> "deref", x |-> x]
SetE(es) == [op |-> "set", elems |-> es]
Rng(x, y) == [op |-> "range", x |-> x, y |-> y]

Is(x, e) == [k |-> "assign", lhs |-> x, rhs |-> e]
Do(n, args) == [k |-> "call", lhs |-> IF args = <<>> THEN X(n) ELSE F(n, args)]
All(list) == [k |-> "compound", list |-> list]
None0 == [k |-> "none"]
If0(c, s, e) == [k |-> "if", cond |-> c, body |-> s, els |-> e]
While0(c, s) == [k |-> "while", cond |-> c, body |-> s]
Rep(list, c) == [k |-> "repeat", list |-> list, cond |-> c]
For0(v, a, z, down, s) == [k |-> "for", lhs |-> v, rhs |-> a, cond |-> z, body |-> s, down |-> down]
Case0(e, arms, other) == [k |-> "case", cond |-> e, arms |-> arms, other |-> other]
Arm(cs, s) == [consts |-> cs, body |-> s]
With0(rs, s) == [k |-> "with", recs |-> rs, body |-> s]
Goto0(n) == [k |-> "goto", lab |-> n]
Lab(n, s) == [k |-> "label", lab |-> n, body |-> s]

Prec(e) == CASE e.op = "bin" -> (CASE e.tok \in {"*", "div", "mod", "and"} -> 3
                                   [] e.tok \in {"+", "-", "or"} -> 2
                                   [] OTHER -> 1)
             [] e.op = "un" -> 4
             [] OTHER -> 5

Joined(ss, sep) == FoldLeft(LAMBDA a, s : IF a = <<>> THEN s ELSE a \o sep \o s, <<>>, ss)
Commas(ss) == Joined(ss, <<",">>)
NumberText(i) == CHOOSE t \in DOMAIN MCNumbers : MCNumbers[t] = i

RECURSIVE ExprText(_), Least(_, _)
Least(e, prec) == IF Prec(e) >= prec THEN ExprText(e) ELSE <<"(">> \o ExprText(e) \o <<")">>
ExprsText(es) == Commas([j \in DOMAIN es |-> ExprText(es[j])])
ExprText(e) ==
  CASE e.op = "id" -> <<e.n>>
    [] e.op = "int" -> <<NumberText(e.i)>>
    [] e.op = "char" -> <<CHOOSE t \in DOMAIN MCCharacters : MCCharacters[t] = e.i>>
    [] e.op = "bool" -> <<IF e.i = 1 THEN "true" ELSE "false">>
    [] e.op = "nil" -> <<"nil">>
    [] e.op = "bin" -> Least(e.x, IF Prec(e) = 1 THEN 2 ELSE Prec(e)) \o <<e.tok>>
                         \o Least(e.y, Prec(e) + 1)
    [] e.op = "un" -> <<e.tok>> \o Least(e.x, 4)
    [] e.op = "call" -> <<e.n, "(">> \o ExprsText(e.args) \o <<")">>
    [] e.op = "index" -> Least(e.x, 5) \o <<"[">> \o ExprsText(e.args) \o <<"]">>
    [] e.op = "field" -> Least(e.x, 5) \o <<".", e.f>>
    [] e.op = "deref" -> Least(e.x, 5) \o <<"^">>
    [] e.op = "set" -> <<"[">> \o ExprsText(e.elems) \o <<"]">>
    [] e.op = "range" -> ExprText(e.x) \o <<"..">> \o ExprText(e.y)

RECURSIVE StmtText(_)
StmtsText(l) == Joined([j \in DOMAIN l |-> StmtText(l[j])], <<";">>)
ArmsText(arms) == Joined([j \in DOMAIN arms |-> ExprsText(arms[j].consts) \o <<":">>
                                                  \o StmtText(arms[j].body)], <<";">>)
StmtText(s) ==
  CASE s.k = "assign" -> ExprText(s.lhs) \o <<":=">> \o ExprText(s.rhs)
    [] s.k = "call" -> ExprText(s.lhs)
    [] s.k = "compound" -> <<"begin">> \o StmtsText(s.list) \o <<"end">>
    [] s.k = "if" -> <<"if">> \o ExprText(s.cond) \o <<"then">> \o StmtText(s.body)
                       \o (IF s.els.k = "none" THEN <<>> ELSE <<"else">> \o StmtText(s.els))
    [] s.k = "while" -> <<"while">> \o ExprText(s.cond) \o <<"do">> \o StmtText(s.body)
    [] s.k = "repeat" -> <<"repeat">> \o StmtsText(s.list) \o <<"until">> \o ExprText(s.cond)
    [] s.k = "for" -> <<"for">> \o ExprText(s.lhs) \o <<":=">> \o ExprText(s.rhs)
                        \o <<IF s.down THEN "downto" ELSE "to">> \o ExprText(s.cond)
                        \o <<"do">> \o StmtText(s.body)
    [] s.k = "case" -> <<"case">> \o ExprText(s.cond) \o <<"of">> \o ArmsText(s.arms)
                         \o (IF s.other.k = "none" THEN <<>>
                             ELSE <<"otherwise">> \o StmtText(s.other)) \o <<"end">>
    [] s.k = "with" -> <<"with">> \o ExprsText(s.recs) \o <<"do">> \o StmtText(s.body)
    [] s.k = "goto" -> <<"goto", NumberText(s.lab)>>
    [] s.k = "label" -> <<NumberText(s.lab), ":">> \o StmtText(s.body)

-----------------------------------------------------------------------------
(* The declarations every program of the family has. *)

Proc(head, decls, list) == head \o <<";">> \o decls \o StmtText(All(list)) \o <<";">>

Declarations ==
  <<"label", "9", ";", "const", "LOW", "=", "1", ";", "HIGH", "=", "LOW", "+", "2", ";",
    "type", "COLOUR", "=", "(", "RED", ",", "GREEN", ",", "BLUE", ")", ";",
    "SMALL", "=", "LOW", "..", "HIGH", ";",
    "VEC", "=", "array", "[", "SMALL", "]", "of", "INTEGER", ";",
    "LINK", "=", "^", "NODE", ";",
    "NODE", "=", "record", "V", ":", "INTEGER", ";", "NEXT", ":", "LINK", "end", ";",
    "REC", "=", "record", "F", ",", "I", ":", "INTEGER", ";",
      "case", "G", ":", "BOOLEAN", "of", "false", ":", "(", "S", ":", "SMALL", ")", ";",
      "true", ":", "(", "D", ":", "COLOUR", ")", "end", ";",
    "var", "I", ",", "J", ":", "INTEGER", ";", "S", ":", "SMALL", ";", "V", ",", "W", ":", "VEC", ";",
    "M", ":", "array", "[", "SMALL", ",", "BOOLEAN", "]", "of", "INTEGER", ";",
    "R", ":", "REC", ";", "P", ",", "Q", ":", "LINK", ";", "E", ":", "COLOUR", ";",
    "H", ":", "CHAR", ";", "C", ":", "set", "of", "SMALL", ";", "Z", ":", "BOOLEAN", ";",
    "T", ":", "TEXT", ";", "N", ":", "file", "of", "INTEGER", ";">>

SwapText == Proc(<<"procedure", "SWAP", "(", "var", "A", ",", "B", ":", "INTEGER", ")">>,
                 <<"var", "O", ":", "INTEGER", ";">>,
                 <<Is(X("O"), X("A")), Is(X("A"), X("B")), Is(X("B"), X("O"))>>)
FactText == Proc(<<"function", "FACT", "(", "A", ":", "INTEGER", ")", ":", "INTEGER">>, <<>>,
                 <<If0(B(X("A"), "<=", N(1)), Is(X("FACT"), N(1)),
                       Is(X("FACT"), B(X("A"), "*", F("FACT", <<B(X("A"), "-", N(1))>>))))>>)
SumText == Proc(<<"function", "SUM", "(", "var", "A", ":", "array", "[", "L", "..", "U", ":", "INTEGER",
                  "]", "of", "INTEGER", ")", ":", "INTEGER">>,
                <<"var", "K", ",", "O", ":", "INTEGER", ";">>,
                <<Is(X("O"), N(0)),
                  For0(X("K"), X("L"), X("U"), FALSE,
                       All(<<Is(X("O"), B(X("O"), "+", At(X("A"), <<X("K")>>))),
                             Is(At(X("A"), <<X("K")>>), X("K"))>>)),
                  Is(X("SUM"), X("O"))>>)
(* EACH calls what it is given; INNER is inside of DEEP and refers to it,   *)
(* so that the frame it was passed with matters.                            *)
EachText == Proc(<<"procedure", "EACH", "(", "procedure", "ACT", "(", "var", "B", ":", "INTEGER", ")",
                   ";", "O", ":", "INTEGER", ")">>, <<>>,
                 <<Do("ACT", <<X("O")>>), Is(X("J"), X("O"))>>)
InnerText == Proc(<<"procedure", "INNER", "(", "var", "B", ":", "INTEGER", ")">>, <<>>,
                  <<Is(X("B"), B(X("B"), "+", X("A"))), Is(X("A"), B(X("A"), "+", N(1)))>>)
DeepText == Proc(<<"procedure", "DEEP", "(", "A", ":", "INTEGER", ")">>, InnerText,
                 <<With0(<<X("R")>>, Do("EACH", <<X("INNER"), X("J")>>)),
                   If0(B(X("A"), "<", N(3)), Do("DEEP", <<N(9)>>), None0),
                   Is(X("J"), X("A"))>>)
OddText == <<"function", "EVEN", "(", "A", ":", "INTEGER", ")", ":", "BOOLEAN", ";", "forward", ";">>
  \o Proc(<<"function", "UNEVEN", "(", "A", ":", "INTEGER", ")", ":", "BOOLEAN">>, <<>>,
          <<If0(B(X("A"), "=", N(0)), Is(X("UNEVEN"), T(0)),
                Is(X("UNEVEN"), F("EVEN", <<B(X("A"), "-", N(1))>>)))>>)
  \o Proc(<<"function", "EVEN">>, <<>>,
          <<If0(B(X("A"), "=", N(0)), Is(X("EVEN"), T(1)),
                Is(X("EVEN"), F("UNEVEN", <<B(X("A"), "-", N(1))>>)))>>)

ProgramText(body) ==
  <<"program", "DEMO", "(", "INPUT", ",", "OUTPUT", ")", ";">> \o Declarations
    \o SwapText \o FactText \o SumText \o EachText \o DeepText \o OddText
    \o StmtText(body) \o <<".">>

-----------------------------------------------------------------------------
(* The bodies. *)

Write0(es) == Do("WRITELN", es)
Inc(x) == Is(x, B(x, "+", N(1)))
V(i) == At(X("V"), <<i>>)

Pool == <<
  Is(X("I"), B(N(7), "-", B(X("J"), "*", N(2)))),
  Is(X("I"), B(U("-", X("I")), "-", B(X("J"), "-", N(1)))),
  Is(X("J"), B(B(N(7), "div", X("I")), "+", B(X("J"), "mod", X("I")))),
  Is(X("S"), B(X("I"), "+", N(1))),
  Is(V(X("I")), B(V(N(1)), "+", X("J"))),
  Is(X("W"), X("V")),
  Is(At(X("M"), <<X("S"), T(1)>>), X("J")),
  Is(X("I"), At(At(X("M"), <<N(2)>>), <<B(X("I"), "<", X("J"))>>)),
  With0(<<X("R")>>, All(<<Is(X("F"), X("J")), Inc(X("I")), Is(X("D"), X("E"))>>)),
  Is(X("J"), B(Dot(X("R"), "F"), "+", Dot(X("R"), "I"))),
  All(<<Do("NEW", <<X("P")>>), Is(Dot(To(X("P")), "V"), X("I")), Is(Dot(To(X("P")), "NEXT"), X("Q")),
        Is(X("Q"), X("P"))>>),
  With0(<<X("R"), To(X("Q"))>>, All(<<Is(X("V"), X("I")), Is(X("J"), X("F"))>>)),
  Do("DISPOSE", <<X("Q")>>),
  Is(X("Z"), B(X("P"), "=", Nil0)),
  Is(X("E"), F("SUCC", <<X("E")>>)),
  Is(X("H"), F("CHR", <<B(F("ORD", <<X("H")>>), "*", X("I"))>>)),
  Is(X("C"), B(SetE(<<N(1), Rng(X("I"), X("J"))>>), "*", SetE(<<Rng(N(2), N(3))>>))),
  Is(X("Z"), B(B(X("I"), "in", B(X("C"), "+", SetE(<<>>))), "and",
               U("not", B(B(X("C"), "<=", SetE(<<N(2)>>)), "or", X("Z"))))),
  Do("SWAP", <<X("I"), V(X("I"))>>),
  Is(X("J"), F("FACT", <<X("I")>>)),
  Is(X("J"), F("SUM", <<X("V")>>)),
  Do("DEEP", <<X("I")>>),
  Is(X("Z"), F("EVEN", <<X("J")>>)),
  Do("READ", <<X("J"), X("H")>>),
  Do("READLN", <<X("I")>>),
  All(<<Do("RESET", <<X("T")>>), Do("READ", <<X("T"), V(X("I")), X("S")>>)>>),
  Is(X("Z"), B(F("EOF", <<X("INPUT")>>), "or", F("EOLN", <<X("INPUT")>>))),
  All(<<Do("REWRITE", <<X("N")>>), Is(To(X("N")), X("J")), Do("PUT", <<X("N")>>),
        Do("WRITE", <<X("N"), N(3)>>), Do("RESET", <<X("N")>>)>>),
  All(<<Is(X("I"), To(X("N"))), Do("GET", <<X("N")>>)>>),
  All(<<Do("RESET", <<X("T")>>), Do("READ", <<X("T"), X("I"), X("H")>>)>>),
  All(<<Do("REWRITE", <<X("T")>>), Write0(<<X("T"), X("J")>>), Do("PAGE", <<>>)>>),
  Do("PACK", <<X("V"), X("J"), X("W")>>),
  Do("UNPACK", <<X("W"), X("V"), N(2)>>),
  Case0(X("I"), <<Arm(<<N(0), N(2)>>, Inc(X("J"))), Arm(<<Rng(N(3), N(4))>>, Is(X("E"), X("BLUE")))>>,
        None0),
  Is(X("I"), B(X("J"), "*", N(999))) >>

(* What the first statement of a body lies in. *)
Wrapped(w, s) ==
  CASE w = "plain" -> s
    [] w = "for" -> For0(X("I"), N(1), X("J"), FALSE, s)
    [] w = "down" -> For0(X("E"), X("BLUE"), X("GREEN"), TRUE, s)
    [] w = "while" -> While0(B(X("S"), "<", N(3)), All(<<Inc(X("S")), s>>))
    [] w = "repeat" -> Rep(<<s, Inc(X("S"))>>, B(X("S"), ">=", N(2)))
    [] w = "case" -> Case0(X("E"), <<Arm(<<X("RED")>>, s)>>, Write0(<<N(9)>>))
    [] w = "if" -> If0(B(X("I"), ">", X("J")), Write0(<<N(1)>>), s)
    [] w = "goto" -> For0(X("E"), X("RED"), X("BLUE"), FALSE,
                          With0(<<X("R")>>, All(<<s, If0(B(X("I"), "<", N(3)), Goto0(9), None0)>>)))
Wrappers == <<"for", "down", "while", "repeat", "case", "if", "goto">>

Body(s, t) ==
  All(<<Is(X("I"), N(2)), Is(X("J"), N(3)), Is(X("S"), N(1)), Is(X("H"), Ch(65)), Is(V(N(2)), N(4)),
        s, Lab(9, t), Write0(<<X("I"), X("J"), X("Z")>>)>>)

(* What the checker has to refuse, each for a reason of its own. *)
Faults == <<
  For0(X("I"), N(1), N(2), FALSE, If0(X("Z"), All(<<>>), Is(X("I"), N(3)))),
  For0(V(N(1)), N(1), N(2), FALSE, Inc(X("J"))),
  All(<<Goto0(9), While0(X("Z"), Lab(9, Inc(X("J"))))>>),
  Do("SWAP", <<X("I"), N(1)>>),
  Do("EACH", <<X("SWAP"), X("I")>>),
  Case0(X("I"), <<Arm(<<N(1)>>, Inc(X("I"))), Arm(<<Rng(N(0), N(2))>>, Inc(X("J")))>>, None0),
  Is(X("I"), X("Z")), Is(X("E"), X("I")), Is(X("W"), X("I")),
  Is(X("I"), Dot(X("R"), "V")), Is(X("I"), X("NOWHERE")), If0(X("I"), Inc(X("I")), None0),
  Is(X("P"), X("I")), Inc(X("SWAP")), Is(X("Z"), B(X("P"), "<", X("Q"))) >>

(* Every pair, then every statement in every wrapper and one of the others  *)
(* after it; the faulty ones last.                                          *)
K == Len(Pool)
BodyOf(c) ==
  LET a == (c - 1) % K
      w == ((c - 1) \div K) + 1
  IN CASE w <= K -> Body(Pool[w], Pool[a + 1])
       [] w \in (K + 1)..(K + Len(Wrappers)) ->
            Body(Wrapped(Wrappers[w - K], Pool[a + 1]), Pool[1 + ((3 * a + w) % K)])
       [] OTHER -> All(<<Inc(X("I")), Faults[a + 1]>>)
Sane == 1..(K * (K + Len(Wrappers)))
Faulty == {Cardinality(Sane) + j : j \in DOMAIN Faults}
Programs == Sane \cup Faulty

MCTexts == [c \in Programs |-> ProgramText(BodyOf(c))]
MCTyped == << <<Space, 55, Space, 65>>, <<51>> >>
MCDisk == "T" :> <<52, Space, 51, NL>>

-----------------------------------------------------------------------------
(* Properties. *)

(* A body written with as few parentheses as the language needs is read     *)
(* back as it was meant: precedence, the ELSE that belongs to the nearest   *)
(* IF, labels, variants and headings (pascal_parse.go).                     *)
ParsedIsMeant ==
  [][status = "text" =>
       LET r == Parsed(Texts[p]) IN r.ok /\ r.ts = <<>> /\ r.v.body = BodyOf(p)]_vars

(* What ISO 7185 forbids does not get to the machine: an assignment to the  *)
(* control variable of a FOR, a GOTO into a statement, an actual parameter  *)
(* that is no variable, two arms for one value (README.md:575), and what    *)
(* the types do not allow (pascal_check.go).                                *)
FaultsRefused == p \in Faulty => status \in {"text", "refused"}

(* What the compiled program leaves is what its tree means: the way it      *)
(* ends, what it wrote on the terminal and in its files, and every variable *)
(* of the program (pascal_pvm.go against pascal_eval.go).  No program reads *)
(* a number out of its subrange, which the machine takes and the tree does  *)
(* not, or a variable and then one that it is the index of, whose address   *)
(* the machine has before the first is read.                                *)
Left(mem, n) == [j \in 0..(n - 1) |-> Tree(mem, SlotOf(mem, 2, j))]
Means(prog, mem, end) ==
  LET meant == Tree0!Meaning(prog, Typed, Disk)
  IN /\ end = meant.end
     /\ mem.out = meant.m.out
     /\ mem.disk = meant.m.disk
     /\ Left(mem, prog.b.nslot) = Left(meant.m, prog.b.nslot)
PCodeMeans ==
  [][status = "run" /\ status' \notin {"run", "^C"} =>
       Means(CheckedProgram(Parsed(Texts[p])), m', status')]_vars
=============================================================================
