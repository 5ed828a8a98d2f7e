SPECIFICATION Spec
CONSTANTS
  MaxRequests  =  3
  MaxOthers  =  1
  MaxEvents  =  4
  MaxAddresses  =  2
  MaxTyped  =  1
  MaxResizes  =  2
  ArgumentCounts  =  {0, 1, 2, 3}
  CommandLines  =  {"terminal", "flags", "qt", "font", "capture", "generate", "other"}
  ProfileFiles  =  {"two", "missing"}
  CapturedScreens  =  {"short", "wrapped", "words", "gap"}
  MaxHistoryLines  =  2
  MaxChunkSize  =  4
  MaxKeysTyped  =  1
  MaxScrolls  =  0
  CanHangUp  =  FALSE
INVARIANTS
  FilesReadBack
  SshKeepsOrder
  ProgramsDoAsTold
PROPERTIES
  SessionKeepsChoices
  CaptureFinishes
CHECK_DEADLOCK FALSE
