\* The same programs and lines: STOP, then a line that is not an edit.
SPECIFICATION Spec
CONSTANTS
  p1 = p1  p2 = p2  p3 = p3  p4 = p4  i1 = i1  i2 = i2  i3 = i3  i4 = i4  i5 = i5
  NoProgram = NoProgram  NoVM = NoVM  Junk = Junk
  Programs = {p1, p2, p3, p4}
  Immediates = {i1, i2, i3, i4, i5}
  Image <- MCReadyImages
  Vars <- MCVars
  FnNames <- MCFnNames
  Inputs = {1}
  MaxOps = 40
  MaxTyped = 0
  Commands = {"RUN", "CONT", "immediate", "store", "delete", "renum", "load"}
INVARIANT ContAfterStop
CHECK_DEADLOCK FALSE
