\* A DNS message over TCP, which follows its length.
SPECIFICATION InputSpec
CONSTANTS
    MaxPort = 65535
    MaxLength = 65535
    Expressions <- ProbeFilters
    Height <- ProbeHeight
    Packets <- OverTcp
    Probes <- MCProbes
    LastDay = 0
    Seconds <- MCSeconds
    Bits = 2
    Block = 6
    Field = 2
    MaxBytes = 0
    Chunks <- MCChunks
INVARIANTS
    DnsOverTcpIsSeen
CHECK_DEADLOCK FALSE
