SPECIFICATION LossySpec
CONSTANTS
    c1 = c1
    r1 = r1
    v1 = v1
    v2 = v2
    Values <- MCValues
    Seed = v1
    MaxMs = 1
    Unset = Unset
    NoDoc = NoDoc
    NoPatch = NoPatch
    Calls <- OneCall
    Workloads <- AnyCall
    Readers <- MCReaders
    Queries <- AnyQuery
    Deployed <- Seeded
    MaxFaults = 1
INVARIANTS ReadsTypeOK WholeUnlessRemoved AcknowledgedIsSeen VerifiedFindsOwner SeesItsStart ReadInv
PROPERTIES ReadsEnd
