SPECIFICATION Spec
CONSTANTS
    ToServer <- MCToServer
    ToWaiting <- MCToWaiting
    ToPlaying <- MCToPlaying
    ReadersIds <- MCReadersIds
    MaxTimeouts = 2
INVARIANTS
    TypeOK
    EndCharsFit
    ReadAsWritten
    OtherLengthRejected
    TakesOnlyWritten
CHECK_DEADLOCK FALSE
