CONSTANTS
    NULL = NULL
    Byte = {b1, b2}
    Size = 3
    RecvSize = 2
    NoticeMax = 2
SPECIFICATION FairSpec
INVARIANTS TypeOK NoSleepOnData
PROPERTIES ImplementsQueue WakesWithNextByte RecvReturns
