---------------------------- MODULE SeedHandler ----------------------------
(***************************************************************************)
(* The seed() of the seeder: the transaction of a Create with fixed _ids   *)
(* and a fixed payload, without a catch of its own on any save and without *)
(* a read of the result.  A failure is logged, not thrown.                 *)
(***************************************************************************)
EXTENDS CreateHandler

\* Session and models; the _ids are those of the payload.
SeedBegin(c) ==
    /\ stage[c] = "new"
    /\ stage' = [stage EXCEPT ![c] = "saving"]
    /\ tstate' = [tstate EXCEPT ![c] = "starting"]
    /\ ids' = [ids EXCEPT ![c] = [k \in Kinds |-> req[c].id]]
    /\ todo' = [todo EXCEPT ![c] = ChildSaves]
    /\ pending' = [pending EXCEPT ![c] = ChildSaves]
    /\ UNCHANGED <<clock, req, missed, code, body, ended, reqs, resps>>

\* One child is saved; after the last one the account is.
SeedSaved(c) ==
    /\ \E r \in resps :
         /\ Awaited(c, "saving", r) /\ r.result = "ok"
         /\ resps' = resps \ {r}
         /\ IF pending[c] = {Op(r)}
            THEN Proceed(c, "account", AccountSave)
            ELSE /\ pending' = [pending EXCEPT ![c] = @ \ {Op(r)}]
                 /\ UNCHANGED <<stage, reqs>>
    /\ UNCHANGED <<clock, req, todo, missed, code, body, ids, tstate, ended>>

\* Mutant: the commit follows the first back reference.
SeedLinkedRace(c) ==
    /\ \E r \in resps :
         /\ Awaited(c, "linking", r) /\ r.result \in Fulfilled
         /\ resps' = resps \ {r}
    /\ Commit(c)
    /\ UNCHANGED <<clock, req, todo, pending, missed, body, ids>>

\* One back reference is written; after the last one the transaction is committed.
SeedLinked(c) ==
    /\ \E r \in resps :
         /\ Awaited(c, "linking", r) /\ r.result \in Fulfilled
         /\ resps' = resps \ {r}
         /\ pending' = [pending EXCEPT ![c] = @ \ {Op(r)}]
         /\ IF pending[c] = {Op(r)} THEN Commit(c)
            ELSE UNCHANGED <<stage, code, tstate, ended, reqs>>
    /\ UNCHANGED <<clock, req, todo, missed, body, ids>>

\* Each of the three nested catches aborts, ends the session and logs.
SeedRejected(c) ==
    /\ \E st \in {"saving", "account", "linking"}, r \in resps :
         /\ Awaited(c, st, r) /\ r.result \in Rejected
         /\ resps' = resps \ Dropped(c, r)
    /\ Abandon(c, "LOGGED")
    /\ UNCHANGED <<clock, req, todo, pending, missed, body, ids>>

SeedAccount(c) ==
    /\ req[c].op = "seed"
    /\ \/ SeedBegin(c) \/ SeedSaved(c) \/ AccountSaved(c) \/ SeedLinked(c)
       \/ SeedRejected(c)
=============================================================================
