SPECIFICATION Spec
CONSTANTS
    InitPageLines = 3
    InitLimit = 2
    Infinite = Infinite
    MaxPageLines = 3
    MaxLimit = 2
    MaxWrites = 2
    MaxScroll = 3
    MaxSize = 9
    Ops = {"region", "inner", "clear", "reset"}
PROPERTIES RefinesScrollback
