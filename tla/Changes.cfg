SPECIFICATION Spec
CONSTANTS
    c1 = c1
    c2 = c2
    v1 = v1
    v2 = v2
    Values <- MCValues
    Seed = v1
    MaxMs = 1
    Unset = Unset
    NoDoc = NoDoc
    NoPatch = NoPatch
    NoAccount = NoAccount
    Calls <- MCCalls
    Workloads <- Changes
    Deployed <- Seeded
    MaxFaults = 0
SYMMETRY CallSymmetry
INVARIANTS OnlyParallelStartsLinger StartInv IsolationInv
PROPERTIES DeletedAsAnswered UpdatedAsAsked ImplementsRegistry
