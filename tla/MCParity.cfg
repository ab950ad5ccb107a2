SPECIFICATION PFairSpec
CONSTANTS
    Alphabet <- ScriptAlphabet
    Numerals <- ScriptNumerals
    FieldNames <- ScriptFieldNames
    MaxInt <- ScriptMaxInt
    Now <- ScriptNow
    UnwritablePaths <- ScriptBadPaths
    Room <- ScriptRoom
    Programs <- AgreeingScripts
    Modules <- CompiledPrograms
    Events <- TwoEvents
    MaxEvents = 2
INVARIANTS
    LoopYieldsOwnRows
    LocalsAreThere
    OperandsStayOwn
    BalancedWhenLoaded
    NestedWhenLoaded
PROPERTIES
    ImplementsInterpreter
    HandlersReturn
