\* What comes in: the snapshot length cuts frames anywhere, a day passes, a text
\* is hashed in pieces.  The parts stop when their input is used up.
SPECIFICATION InputSpec
CONSTANTS
    MaxPort = 65535
    MaxLength = 65535
    Expressions <- ProbeFilters
    Height <- ProbeHeight
    Packets <- MCPackets
    Probes <- MCProbes
    LastDay = 49710
    Seconds <- MCSeconds
    Bits = 2
    Block = 6
    Field = 2
    MaxBytes = 13
    Chunks <- MCChunks
INVARIANTS
    EventsTellThePacket
    FilterSeesTheEvents
    FilterReadsBack
    TimestampsAreDates
    BufferHasRoom
PROPERTIES
    CutsOnlyLose
    HashesTheWhole
CHECK_DEADLOCK FALSE
