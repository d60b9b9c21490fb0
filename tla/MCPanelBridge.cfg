SPECIFICATION Spec
CONSTANTS
    Requests = {1, 2}
    AckTimeout = 1
    RequestTimeout = 2
    EarlyAnswerTtl = 3
INVARIANTS
    AnswerIsNotLost
PROPERTY
    PromisesSettle
CHECK_DEADLOCK FALSE
