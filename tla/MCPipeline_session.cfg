SPECIFICATION FairSpec
CONSTANTS
    NoPath = NoPath
    NoFile = NoFile
    NotThere = NoFile
    Paths <- FivePaths
    Extension <- Extensions
    Disks <- SomeDisks
    Commands <- SomeCommands
    MaxCommands = 2
    MaxRaised = 1
INVARIANTS
    TypeOK
    EventsInOrder
    ExtractFeedsRun
    LogTellsRuns
PROPERTY CommandsEnd
