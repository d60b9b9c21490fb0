SPECIFICATION DeliverySpec
CONSTANTS
    Speeches = {1}
    MaxReplies = 1
    MaxQueuedReplies = 1
    MaxWaiting = 1
    MaxSentences = 2
INVARIANT
    AckOkMeansHeard
CHECK_DEADLOCK FALSE
