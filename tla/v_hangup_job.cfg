\* A small system in which the documented property fails.  The deadlock check
\* is off: all jobs detached is a real stop.
SPECIFICATION Spec
CONSTANTS
  l1 = l1  l2 = l2  w1 = w1  accA = accA  accB = accB
  s1 = s1  s2 = s2  s3 = s3  s4 = s4  s5 = s5
  NoSession = NoSession  NoAccount = NoAccount  NoUnit = NoUnit  NoLine = NoLine
  Lines = {l1, l2}
  Workers = {w1}
  Sessions = {s1, s2, s3, s4}
  Accounts = {accA}
  Privileged = {accA}
  Library = {}
  JobQuota <- NoQuota
  Units = {}
  MaxUsers = 3
  Console = NoLine
  Ops = {"hello", "hangup"}
SYMMETRY AlikeLines
INVARIANT SoleHolder
CHECK_DEADLOCK FALSE
