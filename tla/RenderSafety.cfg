SPECIFICATION Spec
CONSTANTS
    MaxContent = 3
    OutputActive = TRUE
    GuiCalls = {"refresh", "notify"}
    UseSync = TRUE
    UseReset = TRUE
    UseSmoothScroll = TRUE
    TimerArmed = TRUE
INVARIANTS SingleFiller NoHoldAndWait LocksHeld
CHECK_DEADLOCK FALSE
