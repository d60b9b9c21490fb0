SPECIFICATION SystemSpec
CONSTANTS
    MinTransmission = 1
    MaxTransmission = 1
    MaxTurns = 2
    MaxQueuedMessages = 2
    MaxQueuedTranscriptions = 1
    MaxChatter = 1
INVARIANTS
    CloseInOnePlace
PROPERTIES
    KeepsTheDialogue
    OpenTurnIsSettled
    FinishedTurnIsSettled
    StopReturns
CHECK_DEADLOCK FALSE
