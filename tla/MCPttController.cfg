SPECIFICATION Spec
CONSTANTS
    MinTransmission = 1
    MaxTransmission = 3
    MaxTurns = 4
PROPERTIES
    OutcomeIsFinal
    HeldKeyIsReleased
