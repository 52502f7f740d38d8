SPECIFICATION Spec
CONSTANTS
    NULL = NULL
    SamplePeriod = 3
    InitDelay = 1
    UploadMax = 1
    PageHalf = 1
    SemWrap = 4
    Batches = 3
    MayFail = {"sem_two"}
    MayRerun = FALSE
INVARIANTS
    SemaphoresExist
