SPECIFICATION Spec
CONSTANTS
    MaxContent = 2
    OutputActive = TRUE
    GuiCalls = {}
    UseSync = TRUE
    UseReset = FALSE
    UseSmoothScroll = TRUE
    TimerArmed = TRUE
PROPERTIES EventuallyDisplayed
CHECK_DEADLOCK FALSE
