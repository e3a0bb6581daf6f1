----------------------------- MODULE MCKBAssign -----------------------------
(* Two or three keyboards and a few sessions on them. *)
EXTENDS KBAssign, TLC
CONSTANTS kb0, kb1, kb2, s1, s2, s3, a1, a2, a3

AlikeValues == Permutations(Sessions) \cup Permutations(Assignments)
=============================================================================
