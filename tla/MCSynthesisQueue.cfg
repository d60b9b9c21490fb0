SPECIFICATION Spec
CONSTANTS
    Speeches = {1, 2, 3, 4}
    MaxWaiting = 2
    MaxSentences = 1
INVARIANTS
    UnfinishedSpeechHasAWorker
CHECK_DEADLOCK FALSE
