SPECIFICATION Spec
CONSTANTS
    a1 = a1
    a2 = a2
    b1 = b1
    b2 = b2
    none = none
    Nodes <- FourNodes
    Zones = {"a", "b"}
    Images = {"good", "new"}
    Signatures = {"network", "disk"}
    NoSignature = none
    ZoneOf <- TwoZones
    ImageOf <- TwoImages
    Capacity <- EqualCapacity
    Critical <- OneCritical
    Writer <- OneWriter
    SignatureOf <- FailureSignatures
    Rank <- ByZoneAndName
    MaxCluster = 2
    MaxPerZone = 1
    Full = 100
    MinCapacityPercent = 60
    ImageFailurePercent = 60
    SignatureZones = 2
    RestartLimit = 0
    RequireReady = TRUE
    MaxFailures = 2
PROPERTIES
    RoundKeepsFloor
