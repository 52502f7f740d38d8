CONSTANTS
    LongReply = 2
    ShortReply = 1
    Capacity = 4
    StackKept = TRUE
SPECIFICATION Spec
INVARIANTS TypeOK BacklogBounded AlignedUntilLate FreshIfAnswered
PROPERTIES RoundsGoOn
