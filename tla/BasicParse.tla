----------------------------- MODULE BasicParse -----------------------------
(***************************************************************************)
(* The parser of BASIC (parser.go): recursive descent over the words of a  *)
(* line (module BasicWords), to the statements that module BasicCode       *)
(* compiles.                                                               *)
(*                                                                         *)
(* A line is a sequence of words: what tokenize returns, before it is told *)
(* what kind each token is of.  A parse is [v, ts, refs, ok]: what was     *)
(* read last, the words left, the numbers read as line numbers (each by    *)
(* how many words there were from it to the end), and whether there has    *)
(* been no error.  The code returns at an error; here the tree of a parse  *)
(* that is not ok means nothing.                                           *)
(*                                                                         *)
(* Left out: what BasicCode leaves out (channels, USING, arrays, strings   *)
(* but the file of a CHAIN and the prompt of INPUT, and the statements     *)
(* about them), and EXTEND, with the names only it allows.                 *)
(***************************************************************************)
EXTENDS BasicWords, Sequences, SequencesExt

CONSTANTS
  FnNames,     \* names of user functions: those that begin with FN
  Literals     \* the words that are strings

IsNumber(w) == w \in NumberWords
IsIdent(w) == w \notin Reserved /\ w \notin Literals

Parse(words) == [v |-> <<>>, ts |-> words, refs |-> {}, ok |-> TRUE]
Word(ts) == IF ts = <<>> THEN "eol" ELSE Head(ts)
Tok(p) == Word(p.ts)
Yield(p, v) == [p EXCEPT !.v = v]
Error(p) == [p EXCEPT !.ok = FALSE, !.v = [k |-> "none"]]
Skip(p) == IF p.ts = <<>> THEN p ELSE [p EXCEPT !.ts = Tail(@)]
Expect(p, w) == IF Tok(p) = w THEN Skip(p) ELSE Error(p)
IdentName(p) == IF IsIdent(Tok(p)) THEN Yield(Skip(p), Tok(p)) ELSE Error(p)

AtStop(p) == Tok(p) \in {"eol", "\\", ":"}
ModifierStart(p) == Tok(p) \in {"IF", "UNLESS", "WHILE", "UNTIL", "FOR"}

(* A backslash divides, or ends a statement: it ends one when what follows *)
(* can only be the next, a keyword of a statement or a name that is given  *)
(* a value.                                                                *)
Depth(ts, k) == Len(SelectSeq(SubSeq(ts, 1, k), LAMBDA w : w = "("))
                  - Len(SelectSeq(SubSeq(ts, 1, k), LAMBDA w : w = ")"))
Closed(ts) == {k \in DOMAIN ts : Depth(ts, k) = 0}
Subscripted(ts) == IF Word(ts) # "(" THEN ts
                   ELSE IF Closed(ts) = {} THEN <<>>
                   ELSE LET k == CHOOSE k \in Closed(ts) : \A j \in Closed(ts) : k <= j
                        IN SubSeq(ts, k + 1, Len(ts))

BackslashStartsStatement(p) ==
  LET w == Word(Tail(p.ts))
  IN \/ w \in Starters \cup {"eol", "ELSE"}
     \/ IsIdent(w) /\ Word(Subscripted(Tail(Tail(p.ts)))) = "="

-----------------------------------------------------------------------------
(* Expressions. *)

Num(n) == [k |-> "num", v |-> n]
Bin(x, y) == Yield(y, [k |-> "bin", op |-> Tok(x), l |-> x.v, r |-> y.v])
Un(kind, x) == Yield(x, [k |-> kind, e |-> x.v])

(* What the constructs are read with, each by its name: they lie inside of *)
(* one another, and Read is the recursion.                                 *)
RECURSIVE Read(_, _)
Expr(p) == Read("expr", p)
Statement(p) == Read("statement", p)

(* Seven levels, the loosest first: parseOr, parseAnd, parseNot, parseRel,  *)
(* parseAdd, parseMul and parsePow.                                        *)
Infix == << {"OR", "XOR", "EQV", "IMP"}, {"AND"}, {}, {"=", "<>", "<", ">", "<=", ">=", "=="},
            {"+", "-"}, {"*", "/", "MOD", "\\"} >>
IsInfix(n, p) == Tok(p) \in Infix[n] /\ ~(Tok(p) = "\\" /\ BackslashStartsStatement(p))

RECURSIVE Level(_, _), LevelFrom(_, _), Unary(_), ExprsFrom(_, _)

PowFrom(x) == IF Tok(x) = "^" THEN Bin(x, Level(7, Skip(x))) ELSE x
LevelFrom(n, x) == IF IsInfix(n, x) THEN LevelFrom(n, Bin(x, Level(n + 1, Skip(x)))) ELSE x
Level(n, p) == CASE n = 7 -> PowFrom(Unary(p))
                 [] n = 3 /\ Tok(p) = "NOT" -> Un("not", Level(3, Skip(p)))
                 [] OTHER -> LevelFrom(n, Level(n + 1, p))

(* The expressions after commas, when the list es has been read. *)
ExprsFrom(es, p) == IF Tok(p) = "," THEN ExprsFrom(Append(es, p.v), Expr(Skip(p)))
                    ELSE Yield(p, Append(es, p.v))

Arguments(p) == Expect(IF Tok(p) = ")" THEN Yield(p, <<>>) ELSE ExprsFrom(<<>>, Expr(p)), ")")

Called(f, p) == Yield(p, [k |-> "call", f |-> f, args |-> p.v])

PrimaryFrom(w, p) ==
  CASE w = "(" -> Expect(Expr(p), ")")
    [] IsNumber(w) -> Yield(p, Num(Numbers[w]))
    [] w \in Literals -> Yield(p, [k |-> "str", v |-> w])
    [] w \in BuiltinNames \cup FnNames /\ Tok(p) = "(" -> Called(w, Arguments(Skip(p)))
    [] w \in BuiltinNames /\ Tok(p) # "(" -> Called(w, Yield(p, <<>>))
    [] IsIdent(w) /\ Tok(p) # "(" -> Yield(p, [k |-> "var", x |-> w])
    [] OTHER -> Error(p)

Unary(p) == CASE Tok(p) = "-" -> Un("neg", Unary(Skip(p)))
              [] Tok(p) = "+" -> Un("pos", Unary(Skip(p)))
              [] OTHER -> PrimaryFrom(Tok(p), Skip(p))

(* A line number that is a number is one of the references. *)
LineRef(p) == IF IsNumber(Tok(p))
              THEN [Skip(p) EXCEPT !.v = Num(Numbers[Tok(p)]), !.refs = @ \cup {Len(p.ts)}]
              ELSE Expr(p)

RECURSIVE LineRefsFrom(_, _), NamesFrom(_, _)

(* Mutant: only the first line of ON ... GOTO is taken for a reference. *)
FirstRefOnly(ls, p) == ExprsFrom(ls, p)

LineRefsFrom(ls, p) == IF Tok(p) = "," THEN LineRefsFrom(Append(ls, p.v), LineRef(Skip(p)))
                       ELSE Yield(p, Append(ls, p.v))

NamesFrom(xs, p) == IF Tok(p) = "," THEN NamesFrom(Append(xs, p.v), IdentName(Skip(p)))
                    ELSE Yield(p, Append(xs, p.v))
Names(p) == NamesFrom(<<>>, IdentName(p))

-----------------------------------------------------------------------------
(* Statements. *)

(* The kinds of what begins with a keyword, where the keyword tells them. *)
Lower == "GOTO" :> "goto" @@ "GOSUB" :> "gosub" @@ "IF" :> "if" @@ "UNLESS" :> "unless"
           @@ "WHILE" :> "while" @@ "UNTIL" :> "until"

Is(p, kind) == Yield(p, [k |-> kind])
WithExpr(kind, x) == Yield(x, [k |-> kind, e |-> x.v])

Let(xs, x) == Yield(x, [k |-> "let", xs |-> xs, e |-> x.v])
AssignmentTo(xs) == Let(xs.v, Expr(Expect(xs, "=")))
Assignment(p) == AssignmentTo(Names(p))

(* The items of PRINT, with commas, semicolons or nothing after them. *)
RECURSIVE ItemsFrom(_)
Separator(p) == Tok(p) \in {",", ";"}
AfterItem(p) == IF Separator(p) THEN ItemsFrom(Skip(p)) ELSE p
Item(es, x) == Yield(x, Append(es, x.v))
ItemsFrom(p) ==
  CASE Separator(p) -> ItemsFrom(Skip(p))
    [] AtStop(p) \/ ModifierStart(p) \/ Tok(p) \in Starters \cup {"ELSE"} -> p
    [] OTHER -> AfterItem(Item(p.v, Expr(p)))

Listed(kind, es) == Yield(es, [k |-> kind, es |-> es.v])
Named(kind, xs) == Yield(xs, [k |-> kind, xs |-> xs.v])

Prompted(p) == IF Tok(p) = ";" THEN Skip(p) ELSE Expect(p, ",")
Input(p) == Named("input", Names(IF Tok(p) \in Literals THEN Prompted(Skip(p)) ELSE p))

(* TO y, WHILE c or UNTIL c, and STEP z: what FOR has after its start. *)
Step(p) == IF Tok(p) = "STEP" THEN Expr(Skip(p)) ELSE Yield(p, Num(1))
Bound(start, how, x, step) ==
  Yield(step, IF how = "TO"
              THEN [k |-> "for", x |-> start.x, start |-> start.e, end |-> x.v, step |-> step.v]
              ELSE [k |-> IF how = "WHILE" THEN "forWhile" ELSE "forUntil",
                    x |-> start.x, start |-> start.e, step |-> step.v, cond |-> x.v])
BoundAfter(start, how, x) == Bound(start, how, x, Step(x))
ForFrom(x, start) ==
  IF Tok(start) \in {"TO", "WHILE", "UNTIL"}
  THEN BoundAfter([x |-> x.v, e |-> start.v], Tok(start), Expr(Skip(start)))
  ELSE Error(start)
ForOf(x) == ForFrom(x, Expr(Expect(x, "=")))

(* FOR x = a and its bound, as a statement or as a modifier. *)
For(p) == ForOf(IdentName(p))

NextStmt(p) == IF IsIdent(Tok(p)) THEN Yield(Skip(p), [k |-> "next", x |-> Tok(p)])
               ELSE Yield(p, [k |-> "next", x |-> ""])

Loop(kind, c) == Yield(c, [k |-> kind, x |-> "", cond |-> c.v])

(* DATA ends, without an error, at what is no item. *)
RECURSIVE DataFrom(_)
Datum(p, sign) == Yield(Skip(p), Append(p.v, sign * Numbers[Tok(p)]))
DataAfter(p) == IF Tok(p) = "," THEN DataFrom(Skip(p)) ELSE p
DataFrom(p) ==
  CASE IsNumber(Tok(p)) -> DataAfter(Datum(p, 1))
    [] Tok(p) = "-" -> IF IsNumber(Tok(Skip(p))) THEN DataAfter(Datum(Skip(p), -1)) ELSE Error(p)
    [] OTHER -> p
Data(vs) == Yield(vs, [k |-> "data", vs |-> vs.v])

Restore(p) == IF AtStop(p) \/ ModifierStart(p) THEN Is(p, "restore")
              ELSE WithExpr("restoreAt", LineRef(p))

Jump(kind, x, ls) == Yield(ls, [k |-> kind, e |-> x.v, lines |-> ls.v])
OnJump(x) == IF Tok(x) \notin {"GOTO", "GOSUB"} THEN Error(x)
             ELSE Jump(IF Tok(x) = "GOTO" THEN "onGoto" ELSE "onGosub", x,
                       LineRefsFrom(<<>>, LineRef(Skip(x))))
On(p) == IF Tok(p) = "ERROR" THEN WithExpr("onError", LineRef(Expect(Skip(p), "GOTO")))
         ELSE OnJump(Expr(p))

(* With no = the function is one of several lines. *)
ParamNames(p) == Expect(IF IsIdent(Tok(p)) THEN Names(p) ELSE Yield(p, <<>>), ")")
Params(p) == IF Tok(p) = "(" THEN ParamNames(Skip(p)) ELSE Yield(p, <<>>)
DefOf(f, ps, e) == Yield(e, [k |-> "def", f |-> f, params |-> ps, e |-> e.v])
DefFrom(f, ps) == IF Tok(ps) = "=" THEN DefOf(f, ps.v, Expr(Skip(ps)))
                  ELSE Yield(ps, [k |-> "defMulti", f |-> f, params |-> ps.v])
Def(p) == IF Tok(p) \in FnNames THEN DefFrom(Tok(p), Params(Skip(p))) ELSE Error(p)

Resume(p) == CASE Tok(p) = "NEXT" -> Is(Skip(p), "resumeNext")
               [] AtStop(p) \/ ModifierStart(p) -> Is(p, "resumeRetry")
               [] OTHER -> WithExpr("resumeLine", LineRef(p))

(* CHAIN "file" LINE n; a file that is no literal is left out. *)
ChainLine(to, x) == Yield(x, [k |-> "chain", to |-> to, line |-> <<x.v>>])
Chain(to) == CASE to.v.k # "str" -> Error(to)
               [] to.v.k = "str" /\ Tok(to) = "LINE" -> ChainLine(to.v.v, LineRef(Skip(to)))
               [] OTHER -> Yield(to, [k |-> "chain", to |-> to.v.v, line |-> <<>>])

-----------------------------------------------------------------------------
(* IF, modifiers and lines. *)

RECURSIVE BranchFrom(_, _), ModifiersFrom(_), LineFrom(_)

(* A branch is a line number, or statements up to the end of the line;     *)
(* that of THEN ends at ELSE too.                                          *)
BranchFrom(stopElse, p) ==
  CASE Tok(p) = "eol" \/ ~p.ok \/ (stopElse /\ Tok(p) = "ELSE") -> p
    [] Tok(p) \in {"\\", ":"} -> BranchFrom(stopElse, Skip(p))
    [] OTHER -> BranchFrom(stopElse, Item(p.v, Statement(p)))

ToLine(x) == Yield(x, [isLine |-> TRUE, line |-> x.v])
These(ss) == Yield(ss, [isLine |-> FALSE, stmts |-> ss.v])
Branch(stopElse, p) == IF IsNumber(Tok(p)) THEN ToLine(LineRef(p))
                       ELSE These(BranchFrom(stopElse, Yield(p, <<>>)))

IfElse(c, then, else) == Yield(else, [k |-> "if", cond |-> c, then |-> then, else |-> else.v])
IfThen(c, then) == IF Tok(then) # "ELSE" THEN IfElse(c, then.v, Yield(then, <<>>))
                   ELSE IfElse(c, then.v, Item(<<>>, Branch(FALSE, Skip(then))))
If(c) == IfThen(c.v, Branch(TRUE, Expect(c, "THEN")))

(* p is what comes after the word w. *)
Bare(w, p) ==
  CASE w = "PRINT" -> Listed("print", ItemsFrom(Yield(p, <<>>)))
    [] w = "INPUT" -> Input(p)
    [] w \in {"GOTO", "GOSUB"} -> WithExpr(Lower[w], LineRef(p))
    [] w = "RETURN" -> Is(p, "return")
    [] w = "IF" -> If(Expr(p))
    [] w = "FOR" -> For(p)
    [] w = "NEXT" -> NextStmt(p)
    [] w \in {"WHILE", "UNTIL"} -> Loop(Lower[w], Expr(p))
    [] w = "DATA" -> Data(DataFrom(Yield(p, <<>>)))
    [] w = "READ" -> Named("read", Names(p))
    [] w = "RESTORE" -> Restore(p)
    [] w = "END" -> Is(p, "end")
    [] w = "STOP" -> Is(p, "stop")
    [] w = "ON" -> On(p)
    [] w = "DEF" -> Def(p)
    [] w = "FNEND" -> Is(p, "fnEnd")
    [] w = "FNEXIT" -> Is(p, "fnExit")
    [] w = "RESUME" -> Resume(p)
    [] w = "CHAIN" -> Chain(Expr(p))
    [] w = "SLEEP" -> WithExpr("sleep", Expr(p))
    [] w = "LET" -> Assignment(p)
    [] OTHER -> Error(p)

CanModify(kind) == kind \notin {"rem", "data", "for", "forWhile", "forUntil", "next",
                                "while", "until", "def", "defMulti", "fnEnd", "onError",
                                "resumeNext", "resumeRetry", "resumeLine"}

(* The statement read last inside its modifiers, the last one outermost.   *)
Under(kind, s, c) == Yield(c, [k |-> "mod", mod |-> kind, s |-> s, cond |-> c.v])
UnderFor(s, f) == Yield(f, [k |-> "mod", mod |-> f.v.k, s |-> s] @@ f.v)
ModifiersFrom(p) ==
  CASE ~ModifierStart(p) \/ ~p.ok -> p
    [] p.ok /\ Tok(p) = "FOR" -> ModifiersFrom(UnderFor(p.v, For(Skip(p))))
    [] OTHER -> ModifiersFrom(Under(Lower[Tok(p)], p.v, Expr(Skip(p))))

Modified(s) == IF s.ok /\ CanModify(s.v.k) THEN ModifiersFrom(s) ELSE s
ReadStatement(p) == Modified(IF IsIdent(Tok(p)) THEN Assignment(p) ELSE Bare(Tok(p), Skip(p)))

Read(what, p) == IF what = "expr" THEN Level(1, p) ELSE ReadStatement(p)

(* REM takes the rest of a line.  What follows a statement and is neither  *)
(* \ nor : is not looked at.                                               *)
AfterStatement(p) == IF p.ok /\ Tok(p) \in {"\\", ":"} THEN LineFrom(Skip(p)) ELSE p
LineFrom(p) == CASE Tok(p) = "eol" -> p
                 [] Tok(p) = "REM" -> Yield(p, Append(p.v, [k |-> "rem"]))
                 [] OTHER -> AfterStatement(Item(p.v, Statement(p)))

ParseLine(words) == LineFrom(Parse(words))
=============================================================================
