SPECIFICATION FairSpec
CONSTANTS
  Printing <- Characters
  Keys <- KeysSent
  Prints <- Printed
  LineMax = 1
  MaxToJob = 2
  MaxToCtrl = 3
INVARIANTS InOrder SleepsForCause EofIsFinal
PROPERTIES ControllerLeaves HangupEnds
CHECK_DEADLOCK FALSE
