CONSTANTS
    Keys = {"k1", "k2"}
    Interval = TRUE
    BufferSize = 4
    MaxSaves = 3
    MaxDrops = 2
    MaxFailures = 2
SPECIFICATION FileSpec
CHECK_DEADLOCK FALSE
INVARIANTS LastSaveWins LoadIsCurrent
PROPERTIES DeletesOnlyMatching EventuallyFlushed
