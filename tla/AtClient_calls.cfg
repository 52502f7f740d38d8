CONSTANTS
    NULL = NULL
    Requests <- TwoRequests
    CloseRequest <- CloseCommand
    UnknownLines = TRUE
    MaxWire = 1
    MaxModem = 1
SPECIFICATION FairSpec
INVARIANTS TypeOK OpenOnlyUnderLock TokensBounded InStepUntilTimeout CountWholeOrLost
PROPERTIES CallReturns
