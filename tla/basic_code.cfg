\* Every program of a family, run once; nothing is typed but RUN.
SPECIFICATION Spec
CONSTANTS
  p1 = p1  p2 = p2  p3 = p3  p4 = p4  i1 = i1  i2 = i2  i3 = i3  i4 = i4  i5 = i5
  NoProgram = NoProgram  NoVM = NoVM  Junk = Junk
  Programs <- Picks
  Immediates = {}
  Image <- MCCodeImages
  Vars <- MCVars
  FnNames <- MCFnNames
  Inputs = {}
  MaxOps = 150
  MaxTyped = 0
  Commands = {"RUN"}
INVARIANTS CodeMeans RenumKeeps
CHECK_DEADLOCK FALSE
