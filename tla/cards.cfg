SPECIFICATION Spec
CONSTANTS
    NumPlayers = 3
    MaxNbrOfLewas = 3
    SeventhLewa = 2
    MaxOneColorSize = 3
    MaxOneFigureSize = 3
    NumRounds = 2
    Deck <- MCDeck
    Starter <- MCStarter
    Games <- MCGames
INVARIANTS
    TypeOK
    NoRevoke
    TakerHighest
    PointsByRules
    RoundOverWhenDealtOut
    ReplacementKnowsHand
    AutoPlayAccepted
