SPECIFICATION Spec
CONSTANTS
    NumSeats = 4
    NumRounds = 1
    NumTricks = 2
    Starter <- MCStarter
    Failures <- NoFailures
    MaxFaults = 0
INVARIANTS
    TurnToken
PROPERTIES
    TableSpec
