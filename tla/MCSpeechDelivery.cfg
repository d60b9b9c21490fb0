SPECIFICATION DeliverySpec
CONSTANTS
    Speeches = {1, 2, 3}
    MaxReplies = 3
    MaxQueuedReplies = 2
    MaxWaiting = 1
    MaxSentences = 2
INVARIANTS
    EachReplyInOnePlace
    AckFitsPlayback
    OnlyUrgentOvertakes
PROPERTIES
    KeepsTheLedger
    ReplyIsAcknowledged
CHECK_DEADLOCK FALSE
