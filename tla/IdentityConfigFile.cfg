SPECIFICATION Spec
CONSTANTS
    Words <- MCWords
    LowerCase <- MCLowerCase
    Number <- MCNumber
    Control <- MCControl
    Forging <- MCForging
    HandFiles <- MCHandFiles
    HandLines <- MCHandLines
    Tokens <- MCTokens
    PilotIds <- QuotedPilotIds
    Environments <- MCEnvironments
    MaxStarts = 3
    MaxSaves = 2
    MaxEdits = 0
    MaxFaults = 1
PROPERTIES
    IdentityIsStable
CHECK_DEADLOCK FALSE
