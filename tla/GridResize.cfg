SPECIFICATION Spec
CONSTANTS
    InitPageLines = 2
    InitLimit = 1
    Infinite = Infinite
    MaxPageLines = 3
    MaxLimit = 1
    MaxWrites = 2
    MaxScroll = 2
    MaxSize = 4
    Ops = {"down", "innerDown", "clear", "reset", "grow", "shrink", "limit"}
INVARIANTS VerifyState
PROPERTIES ShrinkKeepsLines
