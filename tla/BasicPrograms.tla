--------------------------- MODULE BasicPrograms ----------------------------
(* Programs for TLC, as they are typed.  The run basic_code takes every     *)
(* combination of a loop, two statements in its body, what follows the loop *)
(* and an error handler, half of them renumbered; the run basic_ready takes *)
(* a few programs that wait, stop and chain.                                *)
EXTENDS BasicWords, BasicCode

CONSTANT p1, p2, p3, p4, i1, i2, i3, i4, i5

MCVars == {"I", "J", "X", "Y", "Z", "FNA", "FNB"}
MCFnNames == {"FNA", "FNB"}

T == INSTANCE BasicText WITH Literals <- {p1, p2, p3, p4, i1}, FnNames <- MCFnNames

(* Statements, as BasicLang takes them. *)
N(v) == [k |-> "num", v |-> v]
V(x) == [k |-> "var", x |-> x]
B(l, op, r) == [k |-> "bin", op |-> op, l |-> l, r |-> r]
Un(kind, e) == [k |-> kind, e |-> e]
F(f, args) == [k |-> "call", f |-> f, args |-> args]
Let1(x, e) == [k |-> "let", xs |-> <<x>>, e |-> e]
Show(es) == [k |-> "print", es |-> es]
Is(kind) == [k |-> kind]
With1(kind, e) == [k |-> kind, e |-> e]
ReadY == [k |-> "read", xs |-> <<"Y">>]
NextOf(x) == [k |-> "next", x |-> x]
Lines1(kind, e, ns) == [k |-> kind, e |-> e, lines |-> [i \in DOMAIN ns |-> N(ns[i])]]
ToLine1(n) == [isLine |-> TRUE, line |-> N(n)]
These(ss) == [isLine |-> FALSE, stmts |-> ss]
If1(c, then, else) == [k |-> "if", cond |-> c, then |-> then, else |-> else]
For1(x, a, b, s) == [k |-> "for", x |-> x, start |-> N(a), end |-> N(b), step |-> N(s)]
ForC(kind, x, a, s, c) == [k |-> kind, x |-> x, start |-> N(a), step |-> N(s), cond |-> c]
LoopC(kind, c) == [k |-> kind, x |-> "", cond |-> c]
ModC(s, mod, c) == [k |-> "mod", mod |-> mod, s |-> s, cond |-> c]
ModF(s, x, a, b, st) == [k |-> "mod", mod |-> "for", s |-> s, x |-> x,
                         start |-> N(a), end |-> N(b), step |-> N(st)]
ModW(s, mod, x, a, st, c) == [k |-> "mod", mod |-> mod, s |-> s, x |-> x,
                              start |-> N(a), step |-> N(st), cond |-> c]
ChainTo(p, n) == [k |-> "chain", to |-> p, line |-> <<N(n)>>]
L(num, stmts) == [num |-> num, stmts |-> stmts]

Bump(x) == Let1(x, B(V(x), "+", N(1)))

(* Each part of a program twice: the words that are typed and what they are *)
(* meant to say, where at is the number that each line has when it is run.  *)

(* 30: the head of the loop; 60: its NEXT. *)
HeadsAndNexts == <<
  << <<"FOR", "I", "=", "1", "TO", "2">>, For1("I", 1, 2, 1), "I" >>,
  << <<"FOR", "I", "=", "2", "TO", "1", "STEP", "-", "1">>, For1("I", 2, 1, -1), "" >>,
  << <<"FOR", "I", "=", "1", "TO", "0">>, For1("I", 1, 0, 1), "I" >>,
  << <<"FOR", "I", "=", "0", "WHILE", "I", "<", "2">>,
     ForC("forWhile", "I", 0, 1, B(V("I"), "<", N(2))), "I" >>,
  << <<"FOR", "I", "=", "3", "UNTIL", "X", ">=", "I", "STEP", "-", "1">>,
     ForC("forUntil", "I", 3, -1, B(V("X"), ">=", V("I"))), "" >>,
  << <<"WHILE", "X", "<", "3">>, LoopC("while", B(V("X"), "<", N(3))), "" >>,
  << <<"UNTIL", "X", ">", "1">>, LoopC("until", B(V("X"), ">", N(1))), "" >> >>

(* 50: the second statement of the body. *)
Seconds(at) == <<
  << <<"PRINT", "I", ",", "X", ";", "Y">>, <<Show(<<V("I"), V("X"), V("Y")>>)>> >>,
  << <<"IF", "X", "=", "2", "THEN", "70">>,
     <<If1(B(V("X"), "=", N(2)), ToLine1(at[70]), <<>>)>> >>,
  << <<"GOSUB", "80", "\\", "PRINT", "X", ";">>,
     <<With1("gosub", N(at[80])), Show(<<V("X")>>)>> >>,
  << <<"FOR", "J", "=", "0", "TO", "1", "\\", "Y", "=", "4", "\\", "J", "\\", "NEXT", "J">>,
     <<For1("J", 0, 1, 1), Let1("Y", B(N(4), "\\", V("J"))), NextOf("J")>> >>,
  << <<"FOR", "J", "=", "1", "TO", "2", ":", "PRINT", "J", "UNLESS", "J", "<", "X", "\\",
       "GOTO", "60", "IF", "J", "=", "X", "\\", "NEXT">>,
     <<For1("J", 1, 2, 1), ModC(Show(<<V("J")>>), "unless", B(V("J"), "<", V("X"))),
       ModC(With1("goto", N(at[60])), "if", B(V("J"), "=", V("X"))), NextOf("")>> >> >>

(* 40: the first. *)
Firsts(at) == Seconds(at) \o <<
  << <<"REM", "GOTO", "60">>, <<Is("rem")>> >>,
  << <<"READ", "Y">>, <<ReadY>> >>,
  << <<"RESTORE", "\\", "READ", "Y">>, <<[k |-> "restore"], ReadY>> >>,
  << <<"RESTORE", "80", "\\", "READ", "Y">>, <<With1("restoreAt", N(at[80])), ReadY>> >>,
  << <<"LET", "Y", ",", "Z", "=", "4", "\\", "(", "X", "-", "1", ")">>,
     <<[k |-> "let", xs |-> <<"Y", "Z">>, e |-> B(N(4), "\\", B(V("X"), "-", N(1)))]>> >>,
  << <<"IF", "X", "<=", "1", "THEN", "PRINT", "1", "\\", "PRINT", "2", "ELSE", "60">>,
     <<If1(B(V("X"), "<=", N(1)), These(<<Show(<<N(1)>>), Show(<<N(2)>>)>>),
           <<ToLine1(at[60])>>)>> >>,
  << <<"IF", "X", "THEN", "IF", "X", "=", "1", "THEN", "PRINT", "3", "ELSE", "GOSUB", "80",
       "\\", "PRINT", "4">>,
     <<If1(V("X"), These(<<If1(B(V("X"), "=", N(1)), These(<<Show(<<N(3)>>)>>),
                               <<These(<<With1("gosub", N(at[80])), Show(<<N(4)>>)>>)>>)>>),
           <<>>)>> >>,
  << <<"IF", "X", "<>", "1", "THEN", "80", "ELSE", "RETURN", "UNLESS", "Y">>,
     <<If1(B(V("X"), "<>", N(1)), ToLine1(at[80]),
           <<These(<<ModC(Is("return"), "unless", V("Y"))>>)>>)>> >>,
  << <<"ON", "X", "GOTO", "60", ",", "90", "\\", "PRINT", "6">>,
     <<Lines1("onGoto", V("X"), <<at[60], at[90]>>), Show(<<N(6)>>)>> >>,
  << <<"ON", "X", "-", "1", "GOSUB", "80", ",", "85", "\\", "PRINT", "6">>,
     <<Lines1("onGosub", B(V("X"), "-", N(1)), <<at[80], at[85]>>), Show(<<N(6)>>)>> >>,
  << <<"PRINT", "FNA", "(", "I", ")", ";", "FNA", "(", "FNA", "(", "X", ")", ")">>,
     <<Show(<<F("FNA", <<V("I")>>), F("FNA", <<F("FNA", <<V("X")>>)>>)>>)>> >>,
  << <<"PRINT", "1", ",", "FNA", "(", "I", ",", "2", ")">>,
     <<Show(<<N(1), F("FNA", <<V("I"), N(2)>>)>>)>> >>,
  << <<"PRINT", "1", ",", "FNB", "(", "I", ")">>,
     <<Show(<<N(1), F("FNB", <<V("I")>>)>>)>> >>,
  << <<"PRINT", "7", "-", "X", "-", "2", "*", "3", ";", "-", "X", "MOD", "2", ";", "+", "I",
       "=", "2", "=", "0">>,
     <<Show(<<B(B(N(7), "-", V("X")), "-", B(N(2), "*", N(3))),
              B(Un("neg", V("X")), "MOD", N(2)),
              B(B(V("I"), "=", N(2)), "=", N(0))>>)>> >>,
  << <<"PRINT", "I", "=", "1", "OR", "NOT", "X", ">", "1", "AND", "3", "XOR", "I", ";",
       "I", "IMP", "X", "EQV", "2">>,
     <<Show(<<B(B(B(V("I"), "=", N(1)), "OR",
                  B(Un("not", B(V("X"), ">", N(1))), "AND", N(3))), "XOR", V("I")),
              B(B(V("I"), "IMP", V("X")), "EQV", N(2))>>)>> >>,
  << <<"X", "=", "X", "+", "1", "WHILE", "X", "<", "2">>,
     <<ModC(Bump("X"), "while", B(V("X"), "<", N(2)))>> >>,
  << <<"X", "=", "X", "+", "1", "UNTIL", "X", ">", "2">>,
     <<ModC(Bump("X"), "until", B(V("X"), ">", N(2)))>> >>,
  << <<"GOSUB", "80", "FOR", "J", "=", "1", "TO", "2", "\\", "PRINT", "J">>,
     <<ModF(With1("gosub", N(at[80])), "J", 1, 2, 1), Show(<<V("J")>>)>> >>,
  << <<"PRINT", "J", "FOR", "J", "=", "2", "TO", "1", "\\", "PRINT", "J">>,
     <<ModF(Show(<<V("J")>>), "J", 2, 1, 1), Show(<<V("J")>>)>> >>,
  << <<"PRINT", "J", "UNLESS", "J", "=", "X", "FOR", "J", "=", "1", "WHILE", "J", "<", "3">>,
     <<ModW(ModC(Show(<<V("J")>>), "unless", B(V("J"), "=", V("X"))),
            "forWhile", "J", 1, 1, B(V("J"), "<", N(3)))>> >>,
  << <<"PRINT", "J", "FOR", "J", "=", "3", "UNTIL", "J", "<=", "X", "STEP", "-", "1",
       "IF", "X">>,
     <<ModC(ModW(Show(<<V("J")>>), "forUntil", "J", 3, -1, B(V("J"), "<=", V("X"))),
            "if", V("X"))>> >>,
  << <<"CHAIN", p3, "LINE", "60", "IF", "X">>, <<ModC(ChainTo(p3, 60), "if", V("X"))>> >>,
  << <<"CHAIN", p4, "LINE", "60", "IF", "X">>,
     <<ModC(ChainTo(p4, at[60]), "if", V("X"))>> >>,
  << <<"RETURN">>, <<Is("return")>> >>,
  << <<"RESUME", "NEXT">>, <<Is("resumeNext")>> >>,
  << <<"GOTO", "45">>, <<With1("goto", N(45))>> >>,
  << <<"ON", "ERROR", "GOTO", "0">>, <<With1("onError", N(0))>> >>,
  << <<"STOP">>, <<Is("stop")>> >> >>

(* 70: what follows the loop, once or after a second time through it. *)
Tails(at) == <<
  << <<"PRINT", "I", ",", "J", ",", "X", "\\", "END">>,
     <<Show(<<V("I"), V("J"), V("X")>>), Is("end")>> >>,
  << <<"GOTO", "95", "IF", "Z", "\\", "Z", "=", "1", "\\", "X", "=", "0", "\\",
       "GOTO", "30">>,
     <<ModC(With1("goto", N(at[95])), "if", V("Z")), Let1("Z", N(1)), Let1("X", N(0)),
       With1("goto", N(at[30]))>> >> >>

(* 90: the handler. *)
Handlers(at) == <<
  << <<"PRINT", "ERR", ",", "ERL", "\\", "RESUME", "NEXT">>,
     <<Show(<<F("ERR", <<>>), F("ERL", <<>>)>>), Is("resumeNext")>> >>,
  << <<"X", "=", "2", "\\", "RESUME">>, <<Let1("X", N(2)), Is("resumeRetry")>> >>,
  << <<"RESUME", "70">>, <<With1("resumeLine", N(at[70]))>> >> >>

Same == [n \in 0..95 |-> n]
(* The second tail with the first handler only. *)
Picks == {c \in (1..Len(HeadsAndNexts)) \X (1..Len(Firsts(Same))) \X (1..Len(Seconds(Same)))
                  \X (1..Len(Tails(Same))) \X (1..Len(Handlers(Same))) : c[4] = 1 \/ c[5] = 1}

(* What is typed, in this order: a line that is deleted again, one that is  *)
(* refused, and one that is replaced.                                       *)
TypedLines(c) ==
  LET h == HeadsAndNexts[c[1]]
  IN << <<95, <<"END">> >>,
        <<10, <<"ON", "ERROR", "GOTO", "90", "\\", "DEF", "FNA", "(", "X", ")", "=", "X",
                "*", "10">> >>,
        <<45, <<"GOTO", "45">> >>,
        <<20, <<"DATA", "7">> >>,
        <<30, h[1]>>,
        <<40, Firsts(Same)[c[2]][1]>>, <<40, <<"GOTO", ",">> >>,
        <<80, <<"PRINT", "80", "\\", "DATA", "8", ",", "-", "9">> >>,
        <<85, <<"RETURN">> >>,
        <<45, <<>> >>,
        <<50, <<"STOP">> >>, <<50, Seconds(Same)[c[3]][1]>>,
        <<60, <<"X", "=", "X", "+", "1", "\\", "NEXT">> \o IF h[3] = "" THEN <<>> ELSE <<h[3]>> >>,
        <<70, Tails(Same)[c[4]][1]>>,
        <<90, Handlers(Same)[c[5]][1]>> >>

TextOf(lines) == FoldLeft(LAMBDA text, l : T!StoreLine(text, l[1], l[2]), <<>>, lines)

(* Every other program is run after RENUM 20,20; its name is p4. *)
Renumbered(c) == (c[1] + c[2] + c[3] + c[4] + c[5]) % 2 = 0
ByTwenty == [n \in 0..95 |->
               CASE n \in {10, 20, 30, 40, 50, 60, 70, 80} -> 2 * n
                 [] n = 85 -> 180
                 [] n = 90 -> 200
                 [] n = 95 -> 220
                 [] OTHER -> n]

ProgramText(c) == LET text == TextOf(TypedLines(c))
                  IN IF Renumbered(c) THEN T!Renumber(text, p4, 20, 20) ELSE text

Meant(c) ==
  LET at == IF Renumbered(c) THEN ByTwenty ELSE Same
      h == HeadsAndNexts[c[1]]
  IN << L(at[10], <<With1("onError", N(at[90])),
                    [k |-> "def", f |-> "FNA", params |-> <<"X">>,
                     e |-> B(V("X"), "*", N(10))]>>),
        L(at[20], <<[k |-> "data", vs |-> <<7>>]>>),
        L(at[30], <<h[2]>>),
        L(at[40], Firsts(at)[c[2]][2]),
        L(at[50], Seconds(at)[c[3]][2]),
        L(at[60], <<Bump("X"), NextOf(h[3])>>),
        L(at[70], Tails(at)[c[4]][2]),
        L(at[80], <<Show(<<N(80)>>), [k |-> "data", vs |-> <<8, -9>>]>>),
        L(at[85], <<Is("return")>>),
        L(at[90], Handlers(at)[c[5]][2]),
        L(at[95], <<Is("end")>>) >>

CompiledText(text) == CompileProgram(T!ParseProgram(text).lines)
CodeImages == [c \in Picks |-> CompiledText(ProgramText(c))]

-----------------------------------------------------------------------------
(* Programs that wait, stop, chain and trap ^C, and lines typed at Ready.  *)

Text == [p \in {p1, p2, p3, p4} |->
  CASE p = p1 -> << <<10, <<"ON", "ERROR", "GOTO", "90", "\\", "X", "=", "SYS", "(", "1", ")">> >>,
                    <<20, <<"INPUT", "X">> >>,
                    <<30, <<"STOP">> >>,
                    <<40, <<"SLEEP", "X">> >>,
                    <<50, <<"GOTO", "80">> >>,
                    <<80, <<"END">> >>,
                    <<90, <<"RESUME", "NEXT">> >> >>
    [] p = p2 -> << <<10, <<"DEF", "FNA", "(", "Y", ")">> >>,
                    <<20, <<"IF", "Y", "THEN", "FNA", "=", "7", "\\", "FNEXIT">> >>,
                    <<30, <<"FNA", "=", "FNA", "(", "1", ")", "\\", "FNEND">> >>,
                    <<40, <<"X", "=", "FNA", "(", "0", ")", "\\", "STOP">> >>,
                    <<50, <<"CHAIN", p3, "LINE", "20">> >> >>
    [] p = p3 -> << <<10, <<"INPUT", "Y", "\\", "SLEEP", "1">> >>,
                    <<20, <<"CHAIN", p4>> >> >>
    [] p = p4 -> << <<10, <<"NEXT", "I">> >> >> ]

TypedAtReady == [i \in {i1, i2, i3, i4, i5} |->
  CASE i = i1 -> <<"PRINT", "X">>
    [] i = i2 -> <<"STOP">>
    [] i = i3 -> <<"CHAIN", p3, "LINE", "15">>
    [] i = i4 -> <<"GOTO", "10">>
    [] i = i5 -> <<"CHAIN", i1>> ]

ReadyImages == [p \in DOMAIN Text |-> CompiledText(TextOf(Text[p]))]
                 @@ [i \in DOMAIN TypedAtReady |->
                       CompileStmtList(T!ParseLine(TypedAtReady[i]).v)]
============================================================================
