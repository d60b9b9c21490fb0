SPECIFICATION Spec
CONSTANTS
    EventNames = {flight, facility}
    MaxPending = 1
    MaxJsQueue = 2
    MaxIds = 2
    MaxEvents = 2
    MaxToggles = 4
INVARIANTS
    NothingOwedWithoutLink
    OneSubscribeOutstanding
    AnsweredOnce
    StatusIsCurrent
    ShownPanelIsCurrent
PROPERTIES
    ImplementsBroker
    RequestsDoNotLinger
CHECK_DEADLOCK FALSE
