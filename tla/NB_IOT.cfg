CONSTANTS
    Instances = {h0, h1, h2}
    NoInstance = NoInstance
    Tries = 3
    Levels = {4, 12, 20, 31, 99}
SPECIFICATION Spec
INVARIANTS TypeOK OldOnlyAfterTwoFailures CleanRoundCloses CleanRoundUploads
PROPERTIES InitEnds UploadsRecover
