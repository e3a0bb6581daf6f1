\* Two privileged lines, two jobs: HANGUP against
\* DETACH and ATTACH; logins are disabled and enabled.  All jobs detached is a real stop.
SPECIFICATION Spec
CONSTANTS
  l1 = l1  l2 = l2  w1 = w1  accA = accA  accB = accB
  s1 = s1  s2 = s2  s3 = s3  s4 = s4  s5 = s5
  NoSession = NoSession  NoAccount = NoAccount  NoUnit = NoUnit  NoLine = NoLine
  Lines = {l1, l2}
  Workers = {}
  Sessions = {s1, s2, s3}
  Accounts = {accA}
  Privileged = {accA}
  Library = {accA}
  JobQuota <- NoQuota
  Units = {}
  MaxUsers = 2
  Console = NoLine
  Ops = {"hello", "hangup", "detach", "attach", "logins"}
SYMMETRY AlikeLines
INVARIANT ServedOnce
CHECK_DEADLOCK FALSE
