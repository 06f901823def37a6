-------------------------- MODULE AccountIsolation --------------------------
(***************************************************************************)
(* What the transactions keep of the data: inductive strengthenings of the *)
(* properties of AccountService that speak of the store.                   *)
(***************************************************************************)
EXTENDS AccountInvariants

-----------------------------------------------------------------------------
(* Snapshots.                                                              *)

\* The transaction of call c can still write: it is open, or may be started.
Active(c) == phase[c] \in {"none", "open"}

\* The store that the next operation of call c finds.
Base(c) == IF phase[c] = "open" THEN view[c] ELSE db

\* A transaction sees the committed store but for what it wrote and what was
\* committed since it began, and no other transaction writes what it wrote.
Isolated(c) ==
    /\ phase[c] # "open" => wrote[c] = {}
    /\ phase[c] = "none" => stale[c] = {}
    /\ wrote[c] \cap stale[c] = {}
    /\ \A d \in Calls \ {c} : wrote[c] \cap wrote[d] = {}
    /\ phase[c] = "open" =>
          \A k \in Keys \ (wrote[c] \cup stale[c]) : view[c][k] = db[k]

-----------------------------------------------------------------------------
(* The unique index.                                                       *)

CredentialKey(i) == <<"credential", i>>
LoginKey(v) == <<"login", v>>

\* The login index of store s is that of its credentials.
IndexOK(s) ==
    /\ \A i \in Ids : s[CredentialKey(i)] # NoDoc =>
          LET login == s[CredentialKey(i)].fields["login"] IN
          login \in Values /\ s[LoginKey(login)] = [credential |-> i]
    /\ \A v \in Values : s[LoginKey(v)] # NoDoc =>
          LET owner == s[CredentialKey(s[LoginKey(v)].credential)] IN
          owner # NoDoc /\ owner.fields["login"] = v

\* A set of keys holds, with an index entry, the credential it points to.
Closed(keys, s) ==
    \A L \in keys \cap LoginKeys : s[L] # NoDoc => CredentialKey(s[L].credential) \in keys

\* A transaction keeps the index of its own view, and takes over, gives up or
\* misses a login only together with the credentials that own it.
Indexed(c) ==
    phase[c] = "open" =>
        /\ IndexOK(view[c])
        /\ Closed(wrote[c], db) /\ Closed(wrote[c], view[c])
        /\ Closed(stale[c], db) /\ Closed(stale[c], view[c])

\* No child is sent to be saved without its required fields.
InsertsValid ==
    \A m \in reqs \cup late :
        m.verb = "insert" /\ m.kind \in ChildKinds => Valid(m.kind, NewPatch(m.call, m.kind))

IsolationInv ==
    /\ IndexOK(db) /\ InsertsValid
    /\ \A c \in Calls : Isolated(c) /\ Indexed(c)
=============================================================================
