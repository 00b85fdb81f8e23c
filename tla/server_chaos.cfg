SPECIFICATION Spec
CONSTANTS
    NumSeats = 2
    NumRounds = 2
    NumTricks = 2
    Starter <- MCStarter
    Failures <- AllFailures
    MaxFaults = 1
INVARIANTS
    TurnToken
    ReplacementAwaited
    SocketInUse
