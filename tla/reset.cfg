SPECIFICATION Spec
CONSTANTS
    NumSeats = 2
    NumRounds = 1
    NumTricks = 2
    Starter <- MCStarter
    Failures <- ResetOnly
    MaxFaults = 1
INVARIANTS
    NoLostWakeup
