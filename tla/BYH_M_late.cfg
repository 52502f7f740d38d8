CONSTANTS
    LongReply = 3
    ShortReply = 2
    Capacity = 6
    StackKept = FALSE
SPECIFICATION Spec
INVARIANTS OwnReply
