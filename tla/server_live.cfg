SPECIFICATION FairSpec
CONSTANTS
    NumSeats = 2
    NumRounds = 1
    NumTricks = 2
    Starter <- MCStarter
    Failures <- PromptFailures
    MaxFaults = 2
PROPERTIES
    GameEnds
    SeatResumes
