SPECIFICATION Spec
CONSTANTS
  Bytes = {7,10,24,27,36,48,49,58,59,63,80,91,92,93,94,109,113,195}
  MaxParameters = 2
  MaxOscLength = 3
  MaxSeen = 5
  EditLines = 3
  EditColumns = 4
  MaxCount = 3
  ProtectedCells = {{},{6},{1,7}}
  MaxModeSteps = 3
  DecNumbers = {1,6,1000,1002,1006,1007,1016,1049,2004,2026,2029}
  MaxPaletteSteps = 3
  MaxSgr = 2
  MaxShotCells = 3
  ShotColors = {"Default","Sea"}
  MaxReportSteps = 3
  ReportPages = {"small","large"}
  MaxStackDepth  =  3
  MaxKeyEvents  =  4
  Cells  =  {0,222,223}
  MaxMouseEvents  =  4
  MaxViEvents  =  5
  ScrollOff  =  1
  WideAtEnd  =  FALSE
  MaxJumps  =  6
  BarColumns = 8
  LeftTexts = {"empty","title","framed","bold","colored","prompt","tabs","unknown"}
  MiddleTexts = {"empty","bold"}
  RightTexts = {"empty","clock","state","tabs"}
  MaxBarSteps = 2
INVARIANTS
  SequencesAsReceived
  EditsStayInside
  StyleAndModesToldTruly
  InputReadBack
  ViDoesAsTyped
PROPERTIES
  StateAsAsked
CHECK_DEADLOCK FALSE
