--------------------------- MODULE UpdateHandler ---------------------------
(***************************************************************************)
(* AccountService.UpdateOne: the parts of the request are updated in       *)
(* parallel, each by its parent; the account is read back outside the      *)
(* session; the transaction is committed.                                  *)
(***************************************************************************)
EXTENDS AccountCalls

Parts(c) == {k \in ChildKinds : req[c].set[k] # NoPatch}
PartUpdates(c) == {"update"} \X Parts(c)
AccountFind == {<<"find", "account">>}
Populates == {"populate"} \X ChildKinds

\* `set' is looked into once the session is open, `query' with the first part.
UpdateThrows(c) ==
    /\ req[c].op = "update"
    /\ "set" \in req[c].omits \/ ("query" \in req[c].omits /\ Parts(c) # {})
    /\ tstate' = [tstate EXCEPT ![c] = "starting"]
    /\ Throw(c)

\* Without parts `query' is looked into behind the empty Promise.all, whose catch
\* abandons a transaction that has sent nothing.
UpdateUnasked(c) ==
    /\ stage[c] = "new" /\ req[c].op = "update"
    /\ req[c].omits = {"query"} /\ Parts(c) = {}
    /\ stage' = [stage EXCEPT ![c] = "answered"]
    /\ code' = [code EXCEPT ![c] = "INTERNAL"]
    /\ tstate' = [tstate EXCEPT ![c] = "aborted"]
    /\ ended' = [ended EXCEPT ![c] = TRUE]
    /\ UNCHANGED <<clock, req, todo, pending, missed, body, ids, reqs, resps>>

\* The session is opened, then the id of each part is checked: a rejection
\* leaves the session open.  Without parts the Promise.all is empty.
UpdateBegin(c) ==
    /\ stage[c] = "new" /\ req[c].op = "update" /\ req[c].omits = {}
    /\ tstate' = [tstate EXCEPT ![c] = "starting"]
    /\ \/ /\ Parts(c) # {} /\ req[c].id = NoId
          /\ stage' = [stage EXCEPT ![c] = "answered"]
          /\ code' = [code EXCEPT ![c] = "INVALID_ARGUMENT"]
          /\ UNCHANGED <<todo, pending, reqs>>
       \/ /\ Parts(c) # {} /\ req[c].id # NoId
          /\ stage' = [stage EXCEPT ![c] = "setting"]
          /\ todo' = [todo EXCEPT ![c] = PartUpdates(c)]
          /\ pending' = [pending EXCEPT ![c] = PartUpdates(c)]
          /\ UNCHANGED <<code, reqs>>
       \/ /\ Parts(c) = {}
          /\ Proceed(c, "finding", AccountFind)
          /\ UNCHANGED <<todo, code>>
    /\ UNCHANGED <<clock, req, missed, body, ids, ended, resps>>

\* Mutant: updates that changed nothing are sent again.
PartSetRetried(c) ==
    /\ \E r \in resps :
         /\ Awaited(c, "setting", r) /\ r.result \in Fulfilled
         /\ resps' = resps \ {r}
         /\ missed' = [missed EXCEPT ![c] = pending[c] # {Op(r)} /\ (@ \/ r.result # "ok")]
         /\ IF pending[c] # {Op(r)}
            THEN /\ pending' = [pending EXCEPT ![c] = @ \ {Op(r)}]
                 /\ UNCHANGED <<stage, reqs>>
            ELSE IF missed[c] \/ r.result # "ok"
            THEN Proceed(c, "setting", {"update"} \X Parts(c))
            ELSE Proceed(c, "finding", AccountFind)
    /\ UNCHANGED <<clock, req, todo, code, body, ids, tstate, ended>>

\* Mutant: modifiedCount is not looked at.
PartSetUncounted(c) ==
    /\ \E r \in resps :
         /\ Awaited(c, "setting", r) /\ r.result \in Fulfilled
         /\ resps' = resps \ {r}
         /\ IF pending[c] # {Op(r)}
            THEN /\ pending' = [pending EXCEPT ![c] = @ \ {Op(r)}]
                 /\ UNCHANGED <<stage, reqs>>
            ELSE Proceed(c, "finding", AccountFind)
    /\ UNCHANGED <<clock, req, todo, missed, code, body, ids, tstate, ended>>

\* One part is done; after the last one every modifiedCount must be 1.
PartSet(c) ==
    /\ \E r \in resps :
         /\ Awaited(c, "setting", r) /\ r.result \in Fulfilled
         /\ resps' = resps \ {r}
         /\ missed' = [missed EXCEPT ![c] = @ \/ r.result # "ok"]
         /\ IF pending[c] # {Op(r)}
            THEN /\ pending' = [pending EXCEPT ![c] = @ \ {Op(r)}]
                 /\ UNCHANGED <<stage, code, tstate, ended, reqs>>
            ELSE IF missed'[c]
            THEN Abandon(c, "RESOURCE_EXHAUSTED") /\ UNCHANGED pending
            ELSE /\ Proceed(c, "finding", AccountFind)
                 /\ UNCHANGED <<code, tstate, ended>>
    /\ UNCHANGED <<clock, req, todo, body, ids>>

\* Mutant: the catch of the Promise.all is missing.
PartRejectedUncaught(c) ==
    /\ \E r \in resps :
         /\ Awaited(c, "setting", r) /\ r.result \in Rejected
         /\ resps' = resps \ Dropped(c, r)
    /\ stage' = [stage EXCEPT ![c] = "stuck"]
    /\ UNCHANGED <<clock, req, todo, pending, missed, code, body, ids, tstate,
                   ended, reqs>>

PartRejected(c) ==
    /\ \E r \in resps :
         /\ Awaited(c, "setting", r) /\ r.result \in Rejected
         /\ resps' = resps \ Dropped(c, r)
    /\ Abandon(c, "INTERNAL")
    /\ UNCHANGED <<clock, req, todo, pending, missed, body, ids>>

\* The account is there: its three children are populated.
Found(c) ==
    /\ \E r \in resps :
         /\ Awaited(c, "finding", r) /\ r.result = "ok"
         /\ r.docs["account"] # NoDoc
         /\ resps' = resps \ {r}
         /\ body' = [body EXCEPT ![c] = r.docs]
    /\ Proceed(c, "populating", Populates)
    /\ UNCHANGED <<clock, req, todo, missed, code, ids, tstate, ended>>

\* No account, or a failed read: the TypeError or the error is caught.
NotFound(c) ==
    /\ \E st \in {"finding", "populating"}, r \in resps :
         /\ Awaited(c, st, r)
         /\ r.result \in Rejected \/ (st = "finding" /\ r.docs["account"] = NoDoc)
         /\ resps' = resps \ Dropped(c, r)
    /\ Abandon(c, "FAILED_PRECONDITION")
    /\ UNCHANGED <<clock, req, todo, pending, missed, body, ids>>

\* One child is populated; after the last one the transaction is committed.
Populated(c) ==
    /\ \E r \in resps :
         /\ Awaited(c, "populating", r) /\ r.result = "ok"
         /\ resps' = resps \ {r}
         /\ body' = [body EXCEPT ![c][r.kind] = r.docs[r.kind]]
         /\ pending' = [pending EXCEPT ![c] = @ \ {Op(r)}]
         /\ IF pending[c] = {Op(r)} THEN Commit(c)
            ELSE UNCHANGED <<stage, code, tstate, ended, reqs>>
    /\ UNCHANGED <<clock, req, todo, missed, ids>>

UpdateOne(c) ==
    \/ UpdateThrows(c) \/ UpdateUnasked(c) \/ UpdateBegin(c) \/ PartSet(c) \/ PartRejected(c)
    \/ Found(c) \/ NotFound(c) \/ Populated(c)
=============================================================================
