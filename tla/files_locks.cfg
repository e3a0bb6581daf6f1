\* Two jobs, one of them careless, with two channels each; the view leaves out
\* the channel and the record of a program that is not busy with them.
SPECIFICATION Spec
CONSTANTS
  j1 = j1  j2 = j2  c1 = c1  c2 = c2  f1 = f1  f2 = f2  r1 = r1  r2 = r2
  NoJob = NoJob  NoRecord = NoRecord  NoFile = NoFile
  Jobs = {j1, j2}
  MaxClaims = 1
  Careless = {j2}
  Channels = {c1, c2}
  Files = {f1}
  Records = {r1, r2}
SYMMETRY AlikeChannels
VIEW LiveState
INVARIANTS TypeOK RecordHeld RecordFreed ExclusiveKept ClaimsFreed
PROPERTY ReservationSpec
CHECK_DEADLOCK TRUE
