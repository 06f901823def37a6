--------------------------- MODULE CreateHandler ---------------------------
(***************************************************************************)
(* AccountService.Create: three children saved in parallel, the account    *)
(* that refers to them, the three back references in parallel, a read of   *)
(* the result, and the commit; every failure abandons the transaction.     *)
(***************************************************************************)
EXTENDS AccountCalls

\* Mutant: the save of the credential is not among those awaited.
ChildSavesButOne == {"insert"} \X {"info", "place"}

ChildSaves == {"insert"} \X ChildKinds

\* Mutant: the back reference of the credential is forgotten.
ParentLinksButOne == {"link"} \X {"info", "place"}

ParentLinks == {"link"} \X ChildKinds
AccountSave == {<<"insert", "account">>}
AccountRead == {<<"aggregate", "account">>}

\* Session and models: the _id of a child is generated with its model, each at a
\* look at the clock of its own.
CreateBegin(c) ==
    /\ stage[c] = "new"
    /\ stage' = [stage EXCEPT ![c] = "saving"]
    /\ tstate' = [tstate EXCEPT ![c] = "starting"]
    /\ \E ms \in [ChildKinds -> clock .. MaxMs] :
         /\ ms["info"] <= ms["credential"] /\ ms["credential"] <= ms["place"]
         /\ ids' = [ids EXCEPT ![c] = [k \in Kinds |->
                                          IF k \in ChildKinds THEN ms[k] ELSE NoId]]
         /\ clock' = ms["place"]
    /\ todo' = [todo EXCEPT ![c] = ChildSaves]
    /\ pending' = [pending EXCEPT ![c] = ChildSaves]
    /\ UNCHANGED <<req, missed, code, body, ended, reqs, resps>>

\* Mutant: the account is saved without an _id of its own.
ChildSavedUnnamed(c) ==
    /\ \E r \in resps :
         /\ Awaited(c, "saving", r) /\ r.result = "ok"
         /\ resps' = resps \ {r}
         /\ IF pending[c] = {Op(r)}
            THEN Proceed(c, "account", AccountSave)
            ELSE /\ pending' = [pending EXCEPT ![c] = @ \ {Op(r)}]
                 /\ UNCHANGED <<stage, reqs>>
    /\ UNCHANGED <<clock, req, todo, missed, code, body, ids, tstate, ended>>

\* One child is saved; after the last one the account is.
ChildSaved(c) ==
    /\ \E r \in resps :
         /\ Awaited(c, "saving", r) /\ r.result = "ok"
         /\ resps' = resps \ {r}
         /\ IF pending[c] = {Op(r)}
            THEN /\ ids' = [ids EXCEPT ![c]["account"] = clock]
                 /\ Proceed(c, "account", AccountSave)
            ELSE /\ pending' = [pending EXCEPT ![c] = @ \ {Op(r)}]
                 /\ UNCHANGED <<stage, ids, reqs>>
    /\ UNCHANGED <<clock, req, todo, missed, code, body, tstate, ended>>

\* Code 11000: the catch of that save aborts the session itself, even when the
\* Promise.all has already been rejected and an abort is on its way; an abort of a
\* transaction that is over throws, and nobody listens.
ChildDuplicate(c) ==
    /\ \E r \in resps :
         /\ r.call = c /\ Op(r) \in ChildSaves /\ r.result = "duplicate"
         /\ resps' = resps \ {r}
         /\ reqs' = reqs \cup IF tstate[c] = "inProgress"
                             THEN Sent(c, {<<"abort", r.kind>>}) ELSE {}
    /\ UNCHANGED <<clock, req, stage, todo, pending, missed, code, body, ids,
                   tstate, ended>>

\* That abort came back: end the session and reject with ALREADY_EXISTS, which
\* is the answer unless the outer catch has taken over.
ChildAbortDone(c) ==
    /\ \E r \in resps :
         /\ r.call = c /\ r.verb = "abort" /\ r.kind \in ChildKinds
         /\ resps' = resps \ Dropped(c, r)
    /\ tstate' = [tstate EXCEPT ![c] = "aborted"]
    /\ ended' = [ended EXCEPT ![c] = TRUE]
    /\ IF stage[c] = "saving"
       THEN /\ stage' = [stage EXCEPT ![c] = "answered"]
            /\ code' = [code EXCEPT ![c] = "ALREADY_EXISTS"]
       ELSE UNCHANGED <<stage, code>>
    /\ UNCHANGED <<clock, req, todo, pending, missed, body, ids, reqs>>

\* Any other error of a save goes to the outermost catch.
ChildRejected(c) ==
    /\ \E r \in resps :
         /\ Awaited(c, "saving", r) /\ r.result \in Rejected \ {"duplicate"}
         /\ resps' = resps \ Dropped(c, r)
    /\ Abandon(c, "FAILED_PRECONDITION")
    /\ UNCHANGED <<clock, req, todo, pending, missed, body, ids>>

AccountSaved(c) ==
    /\ \E r \in resps :
         /\ Awaited(c, "account", r) /\ r.result = "ok"
         /\ resps' = resps \ {r}
    /\ Proceed(c, "linking", ParentLinks)
    /\ UNCHANGED <<clock, req, todo, missed, code, body, ids, tstate, ended>>

\* Mutant: Promise.race instead of Promise.all.
ParentLinkedRace(c) ==
    /\ \E r \in resps :
         /\ Awaited(c, "linking", r) /\ r.result \in Fulfilled
         /\ resps' = resps \ {r}
    /\ Proceed(c, "aggregating", AccountRead)
    /\ UNCHANGED <<clock, req, todo, missed, code, body, ids, tstate, ended>>

\* The number of documents an updateOne modified is not looked at.
ParentLinked(c) ==
    /\ \E r \in resps :
         /\ Awaited(c, "linking", r) /\ r.result \in Fulfilled
         /\ resps' = resps \ {r}
         /\ IF pending[c] = {Op(r)}
            THEN Proceed(c, "aggregating", AccountRead)
            ELSE /\ pending' = [pending EXCEPT ![c] = @ \ {Op(r)}]
                 /\ UNCHANGED <<stage, reqs>>
    /\ UNCHANGED <<clock, req, todo, missed, code, body, ids, tstate, ended>>

\* Mutant: the answer is the account document alone, without its children.
AggregatedBare(c) ==
    /\ \E r \in resps :
         /\ Awaited(c, "aggregating", r) /\ r.result = "ok"
         /\ resps' = resps \ {r}
         /\ IF r.docs["account"] = NoDoc
            THEN Abandon(c, "NOT_FOUND") /\ UNCHANGED body
            ELSE /\ body' = [body EXCEPT ![c]["account"] = r.docs["account"]]
                 /\ Commit(c)
    /\ UNCHANGED <<clock, req, todo, pending, missed, ids>>

\* The answer is read back inside the transaction, which is then committed.
Aggregated(c) ==
    /\ \E r \in resps :
         /\ Awaited(c, "aggregating", r) /\ r.result = "ok"
         /\ resps' = resps \ {r}
         /\ IF r.docs["account"] = NoDoc
            THEN Abandon(c, "NOT_FOUND") /\ UNCHANGED body
            ELSE /\ body' = [body EXCEPT ![c] = r.docs]
                 /\ Commit(c)
    /\ UNCHANGED <<clock, req, todo, pending, missed, ids>>

\* The three inner catches.
StepRejected(c) ==
    /\ \E st \in {"account", "linking", "aggregating"}, r \in resps :
         /\ Awaited(c, st, r) /\ r.result \in Rejected
         /\ resps' = resps \ Dropped(c, r)
    /\ Abandon(c, "ABORTED")
    /\ UNCHANGED <<clock, req, todo, pending, missed, body, ids>>

Create(c) ==
    /\ req[c].op = "create"
    /\ \/ CreateBegin(c) \/ ChildSaved(c) \/ ChildDuplicate(c) \/ ChildAbortDone(c)
       \/ ChildRejected(c) \/ AccountSaved(c) \/ ParentLinked(c) \/ Aggregated(c)
       \/ StepRejected(c)
=============================================================================
