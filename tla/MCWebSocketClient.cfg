SPECIFICATION Spec
CONSTANTS
    Senders = {worker, recogniser}
    Handles = {1, 2}
    InitialDelay = 2
    MaxDelay = 5
    ConnectTimeout = 2
    MaxAddresses = 2
    MaxConnections = 3
    MaxTexts = 3
    MaxTokens = 1
INVARIANTS
    ConnectionIsFresh
PROPERTIES
    DialStartsArePaced
    KeepsTrying
    StopReturnsUnlessHeld
CHECK_DEADLOCK FALSE
