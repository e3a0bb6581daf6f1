------------------------------- MODULE MCJobs -------------------------------
(* Small systems for TLC: two terminal lines, one batch or PK goroutine.   *)
EXTENDS Jobs, TLC
CONSTANTS l1, l2, w1, accA, accB, s1, s2, s3, s4, s5, NoLine

NoQuota == [x \in Accounts |-> 0]
AlikeLines == Permutations(Lines) \cup Permutations(Sessions)
AlikeSessions == Permutations(Sessions)
OneJobForB == [x \in Accounts |-> IF x = accB THEN 1 ELSE 0]
=============================================================================
