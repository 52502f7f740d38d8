SPECIFICATION Spec
CONSTANTS
    NULL = NULL
    SamplePeriod = 6
    InitDelay = 2
    UploadMax = 5
    PageHalf = 2
    SemWrap = 4
    Batches = 3
    MayFail = {"sem_one", "sem_two", "NB_IOT", "BYH_M", "LED"}
    MayRerun = TRUE
INVARIANTS
    TypeOK
    UploadAligned
    LabelsAligned
    NoMailDropped
    CloudMatchesLabels
    TokenMeansBatch
PROPERTIES
    UploadsInOrder
    ImplementsMonitor
    PanelForever
    UploadsForever
