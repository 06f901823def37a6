--------------------------- MODULE SeederRefresh ---------------------------
(***************************************************************************)
(* The seeder as a program: `yarn seed' runs seed(), `yarn seed --refresh' *)
(* drop() and then seed().  drop() empties the four collections side by    *)
(* side, outside any transaction; the failure of a deleteMany is logged    *)
(* only, and the command may be executed later or never.  Runs follow one  *)
(* another, once what an earlier one left behind on the server is gone.    *)
(***************************************************************************)
EXTENDS AccountService

\* The process runs seed() and nothing else.
ASSUME SeederAssumption == Workloads \subseteq [Calls -> {SeedRequest}]

VARIABLES
    run,        \* the run under way, or the last one: a set of one call
    full,       \* it was started with --refresh
    dropping,   \* collections whose deleteMany is still to be executed
    waiting,    \* collections whose deleteMany has not settled
    since       \* history: the faults there had been when the run began

refreshVars == <<run, full, dropping, waiting, since>>
seederVars == <<vars, refreshVars>>

RefreshInit ==
    /\ Init
    /\ run = {} /\ full = FALSE
    /\ dropping = {} /\ waiting = {}
    /\ since = 0

\* Mutant: drop() forgets the accounts.
WipedChildren == ChildKinds

\* The collections that drop() empties.
Wiped == Kinds

\* The command line; nestjs-seeder awaits drop() before it calls seed().
Start(c) ==
    /\ stage[c] = "new" /\ c \notin run
    /\ \A d \in run : Orphan(d) /\ phase[d] # "open"
    /\ late = {} /\ dropping = {}
    /\ run' = {c}
    /\ \E refresh \in BOOLEAN :
         /\ full' = refresh
         /\ dropping' = IF refresh THEN Wiped ELSE {}
         /\ waiting' = dropping'
    /\ since' = faults
    /\ UNCHANGED vars

\* deleteMany({}) without a session: a document that an open transaction has
\* written makes it wait, and it ends the transactions that write one later.
Wipe(kind) ==
    LET there == {i \in Ids : db[<<kind, i>>] # NoDoc}
        gone == {<<kind, i>> : i \in there} \cup
                UNION {LoginsOf(kind, db[<<kind, i>>]) : i \in there}
    IN  /\ kind \in dropping
        /\ \A c \in Calls : wrote[c] \cap gone = {}
        /\ dropping' = dropping \ {kind}
        /\ db' = [k \in Keys |-> IF k \in gone THEN NoDoc ELSE db[k]]
        /\ stale' = [c \in Calls |-> IF phase[c] = "open" THEN stale[c] \cup gone
                                     ELSE stale[c]]
        /\ UNCHANGED <<callVars, phase, view, wrote, late, faults,
                       run, full, waiting, since>>

\* The promise of one deleteMany settles: it was executed, or it failed and the
\* catch logs it.
WipeSettled(kind) ==
    /\ kind \in waiting
    /\ waiting' = waiting \ {kind}
    /\ \/ kind \notin dropping /\ UNCHANGED faults
       \/ faults < MaxFaults /\ faults' = faults + 1
    /\ UNCHANGED <<callVars, db, txnVars, late, run, full, dropping, since>>

\* A deleteMany that was given up is never executed.
WipeLost(kind) ==
    /\ kind \in dropping \ waiting
    /\ dropping' = dropping \ {kind}
    /\ UNCHANGED <<vars, run, full, waiting, since>>

\* Mutant: seed() is called without waiting for drop().
SeedingEarly ==
    /\ Next
    /\ \A c \in Calls : stage[c] = "new" /\ stage'[c] # "new" => c \in run
    /\ UNCHANGED refreshVars

\* seed() and everything it sends, once drop() has settled.
Seeding ==
    /\ Next
    /\ \A c \in Calls : stage[c] = "new" /\ stage'[c] # "new" => c \in run /\ waiting = {}
    /\ UNCHANGED refreshVars

RefreshNext ==
    \/ \E c \in Calls : Start(c)
    \/ \E kind \in Kinds : Wipe(kind) \/ WipeSettled(kind) \/ WipeLost(kind)
    \/ Seeding

RefreshSpec == RefreshInit /\ [][RefreshNext]_seederVars

\* A refresh during which nothing fails leaves the seeded account and nothing
\* else, or nothing at all if its saves overtook the start of their transaction,
\* whatever mixture of collections earlier runs, drops that failed in part and
\* commands executed late have left behind.
RefreshRestores ==
    \A c \in run : full /\ faults = since /\ Orphan(c) =>
        db = IF code[c] = "OK" THEN SeededStore ELSE EmptyStore

-----------------------------------------------------------------------------
(* An inductive strengthening of it.                                       *)

\* A commit that took effect is reported as one, or still under way.
Reported(c) ==
    /\ stage[c] \notin {"stuck", "crashed"}
    /\ \A m \in reqs : m.call = c => m.verb # "commit"
    /\ \A r \in resps : r.call = c /\ r.verb = "commit" => r.result = "ok"

\* A refresh during which nothing has failed: what it has dropped is gone until it
\* commits, and nobody else can.
Restoring(c) ==
    /\ late = {} /\ dropping \subseteq waiting
    /\ stage[c] # "new" => waiting = {}
    /\ IF phase[c] = "committed" THEN db = SeededStore /\ Reported(c)
       ELSE \A kind \in Kinds \ dropping, i \in Ids : db[<<kind, i>>] = NoDoc

\* One run at a time; the others are over or have not begun.
RestoreInv ==
    /\ since \in 0 .. faults /\ run \subseteq Calls
    /\ \A c \in Calls : code[c] = "OK" => stage[c] = "answered"
    /\ \A c \in Calls \ run : stage[c] = "new" \/ Orphan(c)
    /\ \A c \in run : run = {c} /\ (full /\ faults = since => Restoring(c))
=============================================================================
