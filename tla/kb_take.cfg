\* Three keyboards, one of them a Telnet line, and three sessions: the user of
\* kb0 is privileged and may take any other, and a caller can come to a line
\* whose former session somebody still has on a channel.  With two assignments
\* OPEN of one keyboard on a channel that has another leaves the first taken; a
\* third OPEN would wait for the bound, so TLC's deadlock check is off.
SPECIFICATION Spec
CONSTANTS
  kb0 = kb0  kb1 = kb1  kb2 = kb2  s1 = s1  s2 = s2  s3 = s3
  a1 = a1  a2 = a2  a3 = a3
  NoSession = NoSession  NoAssignment = NoAssignment
  Keyboards = {kb0, kb1, kb2}
  Telnet = {kb1}
  Users = {kb0}
  Privileged = {kb0}
  Sessions = {s1, s2, s3}
  Assignments = {a1, a2}
SYMMETRY AlikeValues
INVARIANTS TypeOK StepsAside NoLostRelease OwnedByLive
CHECK_DEADLOCK FALSE
