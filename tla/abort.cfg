SPECIFICATION Spec
CONSTANTS
    NumSeats = 2
    NumRounds = 2
    NumTricks = 2
    Starter <- MCStarter
    Failures <- NoFailures
    MaxFaults = 0
INVARIANTS
    NoAbort
