SPECIFICATION Spec
CONSTANTS
    InitPage = 2
    HistoryLimit = 3
    ScrollOff = 0
    MaxPage = 3
    MaxScroll = 2
    MaxChanges = 3
    Ops = {"screen", "status", "clear", "reset", "resize", "vi", "visual", "mouse"}
PROPERTIES OffsetStays TextPinned
