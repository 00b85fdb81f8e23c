SPECIFICATION Spec
CONSTANTS
    NumSeats = 2
    NumRounds = 1
    NumTricks = 2
    Starter <- MCStarter
    Failures <- HandoffOnly
    MaxFaults = 1
INVARIANTS
    NoTakenTwice
