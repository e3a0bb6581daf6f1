SPECIFICATION Spec
CONSTANTS
  MaxInt = 2000
  SetSpan = 8
  Numbers <- MCNumbers
  Characters <- MCCharacters
  Texts <- MCTexts
  Typed <- MCTyped
  Disk <- MCDisk
INVARIANTS TypeOK Sound FaultsRefused
PROPERTIES ActivationSpec ParsedIsMeant PCodeMeans
CHECK_DEADLOCK FALSE
