\* Four programs, one that does not compile, and five lines typed at Ready.
SPECIFICATION FairSpec
CONSTANTS
  p1 = p1  p2 = p2  p3 = p3  p4 = p4  i1 = i1  i2 = i2  i3 = i3  i4 = i4  i5 = i5
  NoProgram = NoProgram  NoVM = NoVM  Junk = Junk
  Programs = {p1, p2, p3, p4}
  Immediates = {i1, i2, i3, i4, i5}
  Image <- MCReadyImages
  Vars <- MCVars
  FnNames <- MCFnNames
  Inputs = {1}
  MaxOps = 40
  MaxTyped = 2
  Commands = {"RUN", "CONT", "immediate", "store", "delete", "renum", "load"}
INVARIANTS TypeOK ContinuesSameProgram HandlerKnowsLine
PROPERTY CtrlCEnds
CHECK_DEADLOCK TRUE
