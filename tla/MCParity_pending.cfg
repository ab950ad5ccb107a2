SPECIFICATION PFairSpec
CONSTANTS
    Alphabet <- ScriptAlphabet
    Numerals <- ScriptNumerals
    FieldNames <- ScriptFieldNames
    MaxInt <- ScriptMaxInt
    Now <- ScriptNow
    UnwritablePaths <- ScriptBadPaths
    Room <- ScriptRoom
    Programs <- PendingScripts
    Modules <- CompiledPrograms
    Events <- TwoEvents
    MaxEvents = 2
PROPERTY ImplementsInterpreter
