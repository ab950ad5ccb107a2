SPECIFICATION MCSpec
CONSTANTS
    Alphabet <- ScriptAlphabet
    Numerals <- ScriptNumerals
    FieldNames <- ScriptFieldNames
    MaxInt <- ScriptMaxInt
    Now <- ScriptNow
    UnwritablePaths <- ScriptBadPaths
    Room <- ScriptRoom
    Keywords <- ScriptKeywords
    Letters <- ScriptLetters
    TypeNames <- ScriptTypes
    Sources <- ScriptSources
    Programs <- ScriptPrograms
    Lines <- ScriptLines
    Events <- TwoEvents
    MaxEvents = 2
    MaxBlock = 4
CHECK_DEADLOCK FALSE
INVARIANTS
    PositionsAreTrue
    TextReadsBack
    ScriptReadsBack
    AcceptedScriptsRun
    BindingsAreOfOneScript
