SPECIFICATION Spec
CONSTANTS
    Alphabet <- ScriptAlphabet
    Numerals <- ScriptNumerals
    FieldNames <- ScriptFieldNames
    MaxInt <- ScriptMaxInt
    Now <- ScriptNow
    UnwritablePaths <- ScriptBadPaths
    Room <- ScriptRoom
    Modules <- AllModules
    Events <- AllEvents
    MaxEvents = 2
INVARIANTS
    TypeOK
    ActiveFrame
    FramesMatchCalls
    RowsFit
PROPERTY RecordKept
