SPECIFICATION StoreSpec
CONSTANTS
    c1 = c1
    c2 = c2
    Calls <- TwoCalls
    Bodies <- AllBodies
    WireSize <- Wires
    MemberWire <- Members
    PlainSize <- Plains
    Declared = {"huge", "small"}
    MaxWire = 2
    MaxDecoded = 3
    MaxChunk = 4
    MaxFaults = 2
SYMMETRY CallSymmetry
INVARIANTS
    PublishedIsFirstMember
PROPERTIES
    BlobsAreImmutable
    ReferencesResolve
CHECK_DEADLOCK FALSE
