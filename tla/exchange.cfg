SPECIFICATION FairSpec
CONSTANTS
    NumTricks = 3
    TwoDigits = 3
    Suits <- MCSuits
    Hands <- MCHands
    MaxLate = 1
    MaxJunk = 1
    MaxLost = 1
INVARIANTS
    TypeOK
    HandsAgree
    PromptClientServed
    ClientCountsTricks
    MarksReachClient
    ExchangeInv
PROPERTIES
    SeatSpec
    SeatFinishes
