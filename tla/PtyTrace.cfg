SPECIFICATION Spec
CONSTANTS
    MaxSent = 2
    MaxRequests = 2
    GuiModes = {"Waiting", "SingleStep", "BreakAtEmptyQueue"}
INVARIANTS InOrder ReadsOnlyWhenFlushed
PROPERTIES StepsTaken DeviceCloses
CHECK_DEADLOCK FALSE
