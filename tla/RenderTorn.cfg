SPECIFICATION Spec
CONSTANTS
    MaxContent = 2
    OutputActive = TRUE
    GuiCalls = {}
    UseSync = TRUE
    UseReset = FALSE
    UseSmoothScroll = TRUE
    TimerArmed = FALSE
INVARIANTS FrontBufferReadOnly
CHECK_DEADLOCK FALSE
