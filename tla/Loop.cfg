SPECIFICATION Spec
CONSTANTS
    Fd = {4, 5}
    Listen = 3
    Chunk = 2
    Window = 1
    Kind = {"part", "echo", "cast", "quit"}
    Stalled = {4}
    HangUpOnFin = {TRUE, FALSE}
    Signals = TRUE
    MaxPieces = 2
    MaxPeers = 2
INVARIANTS
    TypeOK
    EntriesAreClients
    WriteInterestExact
    RoundIsComplete
PROPERTIES
    SlowClientsKept
    LineServerSteps
    LineServerFairness
    StalledBlocksNobody
    EveryLineExecuted
    ShutdownHappens
CHECK_DEADLOCK FALSE
