SPECIFICATION Spec
CONSTANTS
    Words <- MCWords
    LowerCase <- MCLowerCase
    Number <- MCNumber
    Control <- MCControl
    Forging <- MCForging
    HandFiles <- MCHandFiles
    HandLines <- MCHandLines
    Tokens <- MCTokens
    PilotIds <- MCPilotIds
    Environments <- MCEnvironments
    MaxStarts = 3
    MaxSaves = 2
    MaxEdits = 1
    MaxFaults = 1
INVARIANTS
    LastAssignmentWins
    SavedIsObeyed
    IdentityIsKept
PROPERTIES
    OnlyOneLineChanges
CHECK_DEADLOCK FALSE
