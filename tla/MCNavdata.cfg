SPECIFICATION Spec
CONSTANTS
    kRegionalAptRadiusNm = 1
    kFixBoxRadiusNm = 2
    Airports = {"A", "B"}
    DataFiles <- MCDataFiles
    Samples <- MCSamples
    NoOffer = NoOffer
    MaxFlights = 2
    MaxEvents = 2
INVARIANTS
    TextsAreTheRegion
    AnnouncedIsAnswerable
CHECK_DEADLOCK FALSE
PROPERTIES
    JobsAreDone
    RepairedInTheEnd
