CONSTANTS
    NULL = NULL
    Requests <- OneRequest
    CloseRequest <- CloseCommand
    UnknownLines = FALSE
    MaxWire = 1
    MaxModem = 1
SPECIFICATION Spec
INVARIANTS OkMeansAnswered
