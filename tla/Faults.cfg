SPECIFICATION Spec
CONSTANTS
    c1 = c1
    c2 = c2
    v1 = v1
    v2 = v2
    Values <- MCValues
    Seed = v1
    MaxMs = 2
    Unset = Unset
    NoDoc = NoDoc
    NoPatch = NoPatch
    NoAccount = NoAccount
    Calls <- OneCall
    Workloads <- Single
    Deployed <- Either
    MaxFaults = 2
INVARIANTS SessionInv EffectInv RefIntegrity RefusedLeavesNothing OnlyTheseHang OkMeansCommitted OkIsQuiescent
PROPERTIES ImplementsRegistry
