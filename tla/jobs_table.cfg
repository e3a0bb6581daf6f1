\* Two lines and one goroutine for SUBMIT jobs and PK children share a table of
\* two jobs, so that the table fills; one pseudo-keyboard unit.  All jobs
\* detached and both lines dropped is a stop the system really makes: the
\* deadlock check is off.
SPECIFICATION Spec
CONSTANTS
  l1 = l1  l2 = l2  w1 = w1  accA = accA  accB = accB
  s1 = s1  s2 = s2  s3 = s3  s4 = s4  s5 = s5
  NoSession = NoSession  NoAccount = NoAccount  NoUnit = NoUnit  NoLine = NoLine
  Lines = {l1, l2}
  Workers = {w1}
  Sessions = {s1, s2, s3}
  Accounts = {accA}
  Privileged = {accA}
  Library = {}
  JobQuota <- NoQuota
  Units = {0}
  MaxUsers = 2
  Console = NoLine
  Ops = {"hello", "bye", "detach", "attach", "submit", "pk"}
SYMMETRY AlikeLines
INVARIANTS TypeOK SoleHolder SlotsHeld Registered SeesLoggedIn
PROPERTY TableSpec
CHECK_DEADLOCK FALSE
