------------------------------ MODULE MCSeeder ------------------------------
(***************************************************************************)
(* A small instance of SeederRefresh: two runs of the seeder, one after    *)
(* the other, on a new database or on a seeded one.                        *)
(***************************************************************************)
EXTENDS SeederRefresh

CONSTANTS c1, c2, v1

MCValues == {v1}
Runs == {c1, c2}
OnlySeeds == [Runs -> {SeedRequest}]
Either == {EmptyStore, SeededStore}

\* Anything may go wrong in the first run; the second one is a refresh in which
\* nothing does.
RepairNext ==
    /\ RefreshNext
    /\ run = {} => run' # {c2}
    /\ run' = {c2} => full' /\ faults' = faults
RepairSpec == RefreshInit /\ [][RepairNext]_seederVars
=============================================================================
