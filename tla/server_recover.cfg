SPECIFICATION Spec
CONSTANTS
    NumSeats = 2
    NumRounds = 2
    NumTricks = 2
    Starter <- MCStarter
    Failures <- PromptFailures
    MaxFaults = 2
INVARIANTS
    TypeOK
    GameInv
    BarrierAligned
    NewRoundSafe
    SpawnOnce
    NoLostWakeup
    SemaphoreTCPBinary
    HandMatchesTricks
    OneTakenPerTrick
    ScoreTruthful
    TotalTruthful
    ExitAfterTotals
PROPERTIES
    TableSpec
