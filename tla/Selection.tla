------------------------------ MODULE Selection ------------------------------
(***************************************************************************)
(* What the selection loops of the code do: keep, in order, the elements   *)
(* that are not in a set.  It is SelectSeq of the module Sequences with a  *)
(* set in place of the test, as a recursive function, so that facts about  *)
(* it can be proved (SelectionProofs).                                     *)
(***************************************************************************)
EXTENDS Naturals, Sequences

Without(s, T) ==
  LET kept[i \in 0 .. Len(s)] ==
        IF i = 0 THEN <<>>
        ELSE IF s[i] \in T THEN kept[i - 1] ELSE Append(kept[i - 1], s[i])
  IN  kept[Len(s)]
=============================================================================
