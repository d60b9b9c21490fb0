SPECIFICATION Spec
CONSTANTS
    Bounds <- MCBounds
    LocalIntervals = {1, 2}
    Orders = {0, 2}
    Preferences = {quiet}
    NoPreference = NoPreference
    kTrafficMinInterval = 2
    MaxAge = 2
    Skies <- MCSkies
    Samples <- MCSamples
    Unsampled = Unsampled
    TunedFor <- MCTunedFor
    MaxFrames = 2
    MaxConnections = 2
    MaxEvents = 3
INVARIANTS
    CommandIsTheConsoles
    AnswersInOrder
    PictureIsHonest
PROPERTIES
    RadiosNeverGoBack
    FeedNeverStalls
    NewConsoleIsTold
CHECK_DEADLOCK FALSE
