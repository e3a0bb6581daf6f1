----------------------------- MODULE BasicText ------------------------------
(***************************************************************************)
(* The text of a BASIC program, m.Program: for each line number the words  *)
(* of the line.  StoreLine (interp.go) changes one line, Renumber          *)
(* (renum.go) all of them, and compileProgram takes the lines in order.    *)
(*                                                                         *)
(* RENUM works on the characters of a line: it asks the parser where the   *)
(* line numbers are, looks for the number after each RESTORE itself, and   *)
(* leaves the one after LINE alone if the line chains to another program.  *)
(* A word here stands for its characters, so that a RESTORE inside of a    *)
(* string or of a comment is left out.                                     *)
(***************************************************************************)
EXTENDS BasicParse, FiniteSetsExt

MaxLineNumber == 32767

Below(text, n) == Cardinality({m \in DOMAIN text : m < n})
LineOrder(text) == [i \in 1..Cardinality(DOMAIN text) |->
                      CHOOSE n \in DOMAIN text : Below(text, n) = i - 1]

(* A line that is not right is not stored, and what was there stays. *)
StoreLine(text, n, words) ==
  IF words = <<>> THEN [m \in DOMAIN text \ {n} |-> text[m]]
  ELSE IF ~ParseLine(words).ok THEN text
  ELSE n :> words @@ text

(* The lines in order, parsed, and whether they all could be. *)
ParseProgram(text) ==
  LET order == LineOrder(text)
      parsed == [i \in DOMAIN order |-> ParseLine(text[order[i]])]
  IN [ok |-> \A i \in DOMAIN order : parsed[i].ok,
      lines |-> [i \in DOMAIN order |-> [num |-> order[i], stmts |-> parsed[i].v]]]

-----------------------------------------------------------------------------
(* RENUM. *)

(* Where in the line the references are, by position. *)
LineRefOffsets(words, parse) == {Len(words) - r + 1 : r \in parse.refs}

NumbersAfter(w, words) == {i \in DOMAIN words : i > 1 /\ words[i - 1] = w /\ IsNumber(words[i])}

RECURSIVE Unmodified(_)
Unmodified(s) == IF s.k = "mod" THEN Unmodified(s.s) ELSE s

(* Only a CHAIN that is a statement of the line, not one in a branch of    *)
(* IF, is looked at, and only the first that has a LINE.                   *)
ForeignChainLineOffsets(words, parse, self) ==
  LET chains == SelectSeq(parse.v, LAMBDA s : Unmodified(s).k = "chain"
                                                /\ Unmodified(s).line # <<>>)
  IN IF chains = <<>> \/ Unmodified(Head(chains)).to = self THEN {}
     ELSE NumbersAfter("LINE", words)

(* A number that is no line of the program stays as it is. *)
RewriteRefs(words, parse, moved, self) ==
  LET refs == (LineRefOffsets(words, parse) \cup NumbersAfter("RESTORE", words))
                \ ForeignChainLineOffsets(words, parse, self)
  IN [i \in DOMAIN words |->
        IF i \in refs /\ Numbers[words[i]] \in DOMAIN moved
        THEN ToString(moved[Numbers[words[i]]]) ELSE words[i]]

Moved(text, start, step) == [n \in DOMAIN text |-> start + step * Below(text, n)]

(* Nothing is changed unless every line can be. *)
Renumber(text, self, start, step) ==
  LET parsed == [n \in DOMAIN text |-> ParseLine(text[n])]
      moved == Moved(text, start, step)
      last == start + step * (Cardinality(DOMAIN text) - 1)
      refused == start < 1 \/ step < 1 \/ last > MaxLineNumber
                   \/ \E n \in DOMAIN text : ~parsed[n].ok
  IN IF refused THEN text
     ELSE [to \in {moved[n] : n \in DOMAIN text} |->
             LET n == CHOOSE n \in DOMAIN text : moved[n] = to
             IN RewriteRefs(text[n], parsed[n], moved, self)]
=============================================================================
