\* Two lines and two jobs under the scheduler's fairness; no symmetry, as
\* TLC needs for liveness.  All jobs detached is a real stop.
SPECIFICATION FairSpec
CONSTANTS
  l1 = l1  l2 = l2  w1 = w1  accA = accA  accB = accB
  s1 = s1  s2 = s2  s3 = s3  s4 = s4  s5 = s5
  NoSession = NoSession  NoAccount = NoAccount  NoUnit = NoUnit  NoLine = NoLine
  Lines = {l1, l2}
  Workers = {}
  Sessions = {s1, s2, s3}
  Accounts = {accA, accB}
  Privileged = {accA}
  Library = {accA}
  JobQuota <- OneJobForB
  Units = {}
  MaxUsers = 2
  Console = NoLine
  Ops = {"hello", "detach", "attach", "delete"}
PROPERTIES LineServed EndsClean
CHECK_DEADLOCK FALSE
