SPECIFICATION RepairSpec
CONSTANTS
    c1 = c1
    c2 = c2
    v1 = v1
    Values <- MCValues
    Seed = v1
    MaxMs = 1
    Unset = Unset
    NoDoc = NoDoc
    NoPatch = NoPatch
    Calls <- Runs
    Workloads <- OnlySeeds
    Deployed <- Either
    MaxFaults = 2
INVARIANTS RefreshRestores RestoreInv
