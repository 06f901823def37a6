SPECIFICATION RetrySpec
CONSTANTS
    c1 = c1
    c2 = c2
    v1 = v1
    v2 = v2
    Values <- MCValues
    Seed = v1
    MaxMs = 2
    Unset = Unset
    NoDoc = NoDoc
    NoPatch = NoPatch
    NoAccount = NoAccount
    Calls <- MCCalls
    Workloads <- Again
    Deployed <- Seeded
    MaxFaults = 1
INVARIANTS OnceForAll RefIntegrity SpentInv
