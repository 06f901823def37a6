--------------------------- MODULE DeleteHandler ---------------------------
(***************************************************************************)
(* AccountService.DeleteOne: the account is read inside the transaction,   *)
(* its three children, each by its parent, and the account are deleted in  *)
(* parallel, and the transaction is committed if each deleted one document.*)
(***************************************************************************)
EXTENDS AccountCalls

AccountList == {<<"list", "account">>}
Deletes == {"delete"} \X Kinds

\* `query' is looked into before anything else.
DeleteThrows(c) ==
    /\ req[c].op = "delete" /\ "query" \in req[c].omits
    /\ Throw(c)
    /\ UNCHANGED tstate

\* The id is validated before the connection is looked at.
DeleteInvalid(c) ==
    /\ stage[c] = "new" /\ req[c].op = "delete"
    /\ req[c].omits = {} /\ req[c].id = NoId
    /\ Refuse(c, "INVALID_ARGUMENT")

DeleteBegin(c) ==
    /\ stage[c] = "new" /\ req[c].op = "delete" /\ req[c].id # NoId
    /\ stage' = [stage EXCEPT ![c] = "listing"]
    /\ tstate' = [tstate EXCEPT ![c] = "starting"]
    /\ todo' = [todo EXCEPT ![c] = AccountList]
    /\ pending' = [pending EXCEPT ![c] = AccountList]
    /\ UNCHANGED <<clock, req, missed, code, body, ids, ended, reqs, resps>>

\* The target is picked out of the list; it may not be there.
Listed(c) ==
    /\ \E r \in resps :
         /\ Awaited(c, "listing", r) /\ r.result = "ok"
         /\ resps' = resps \ {r}
         /\ body' = [body EXCEPT ![c] = r.docs]
    /\ Proceed(c, "deleting", Deletes)
    /\ UNCHANGED <<clock, req, todo, missed, code, ids, tstate, ended>>

ListRejected(c) ==
    /\ \E r \in resps :
         /\ Awaited(c, "listing", r) /\ r.result \in Rejected
         /\ resps' = resps \ {r}
    /\ Abandon(c, "UNAVAILABLE")
    /\ UNCHANGED <<clock, req, todo, pending, missed, body, ids>>

\* Mutant: deletedCount is not looked at.
DeletedUncounted(c) ==
    /\ \E r \in resps :
         /\ Awaited(c, "deleting", r) /\ r.result \in Fulfilled
         /\ resps' = resps \ {r}
         /\ pending' = [pending EXCEPT ![c] = @ \ {Op(r)}]
         /\ IF pending[c] # {Op(r)}
            THEN UNCHANGED <<stage, code, tstate, ended, reqs>>
            ELSE Commit(c)
    /\ UNCHANGED <<clock, req, todo, missed, body, ids>>

\* One delete is done; after the last one every deletedCount must be 1.
Deleted(c) ==
    /\ \E r \in resps :
         /\ Awaited(c, "deleting", r) /\ r.result \in Fulfilled
         /\ resps' = resps \ {r}
         /\ missed' = [missed EXCEPT ![c] = @ \/ r.result # "ok"]
         /\ pending' = [pending EXCEPT ![c] = @ \ {Op(r)}]
         /\ IF pending[c] # {Op(r)}
            THEN UNCHANGED <<stage, code, tstate, ended, reqs>>
            ELSE IF missed'[c] THEN Abandon(c, "RESOURCE_EXHAUSTED")
            ELSE Commit(c)
    /\ UNCHANGED <<clock, req, todo, body, ids>>

DeleteRejected(c) ==
    /\ \E r \in resps :
         /\ Awaited(c, "deleting", r) /\ r.result \in Rejected
         /\ resps' = resps \ Dropped(c, r)
    /\ Abandon(c, "INTERNAL")
    /\ UNCHANGED <<clock, req, todo, pending, missed, body, ids>>

DeleteOne(c) ==
    \/ DeleteThrows(c) \/ DeleteInvalid(c) \/ DeleteBegin(c) \/ Listed(c) \/ ListRejected(c)
    \/ Deleted(c) \/ DeleteRejected(c)
=============================================================================
