-------------------------- MODULE AccountRegistry --------------------------
(***************************************************************************)
(* What the account service promises: a registry of whole accounts.  Every *)
(* call takes effect in one step or not at all, at most once, and a call   *)
(* that is refused has not and will never take effect.  There are no       *)
(* documents, sessions, transactions or messages here.                     *)
(***************************************************************************)
EXTENDS AccountStore

CONSTANTS Calls, Workloads, NoAccount

VARIABLES
    req,        \* the request of each call
    accounts,   \* the fields of each account, by kind
    done,       \* the calls that have taken effect
    taken,      \* the account that a Create added or a DeleteOne removed
    outcome     \* what the client has been told

registryVars == <<req, accounts, done, taken, outcome>>

Parts(c) == {k \in ChildKinds : req[c].set[k] # NoPatch}
Payload(c, k) == IF k \in Parts(c) THEN req[c].set[k] ELSE [f \in FieldNames |-> Unset]

\* What a client sees of an account.
Shown(account) == [k \in ChildKinds |-> [account[k] EXCEPT !["password"] = Unset]]

Existing == {i \in Ids : accounts[i] # NoAccount}
LoginOf(account) == account["credential"]["login"]

\* No account but i has the login of account.
FreeFor(i, account) == \A j \in Existing \ {i} : LoginOf(accounts[j]) # LoginOf(account)

\* The account a Create or a seed asks for, and account i after an UpdateOne: the
\* place takes what the request says of the info.
Requested(c) == [k \in ChildKinds |-> NewChild(k, Payload(c, k)).fields]
Changed(c, i) ==
    [k \in ChildKinds |->
        LET patch == Payload(c, IF k = "place" THEN "info" ELSE k) IN
        [f \in FieldNames |-> IF k \in Parts(c) /\ f \in Accepted(k, patch)
                              THEN patch[f] ELSE accounts[i][k][f]]]

RegistryInit ==
    /\ req \in Workloads
    /\ accounts \in [Ids -> {NoAccount}] \cup
                    {[i \in Ids |-> IF i = 0 THEN [k \in ChildKinds |-> SeedChild(k).fields]
                                    ELSE NoAccount]}
    /\ done = {}
    /\ taken = [c \in Calls |-> NoAccount]
    /\ outcome = [c \in Calls |-> "none"]

-----------------------------------------------------------------------------
Effect(c, i, account) ==
    /\ c \notin done /\ done' = done \cup {c}
    /\ outcome[c] = "none"
    /\ accounts' = [accounts EXCEPT ![i] = account]
    /\ UNCHANGED <<req, outcome>>

\* A new account, under an id and with a login that no account has.
Add(c) ==
    /\ req[c].op \in {"create", "seed"}
    /\ \A k \in ChildKinds : Valid(k, Payload(c, k))
    /\ FreeFor(NoId, Requested(c))
    /\ \E i \in Ids \ Existing :
         /\ req[c].op = "seed" <=> i = req[c].id
         /\ Effect(c, i, Requested(c))
    /\ taken' = IF req[c].op = "seed" THEN taken
                ELSE [taken EXCEPT ![c] = Shown(Requested(c))]

\* All the parts of an account together, as long as its login stays its own.
Change(c) ==
    LET i == req[c].id IN
    /\ req[c].op = "update" /\ i \in Existing
    /\ FreeFor(i, Changed(c, i))
    /\ \A k \in Parts(c) : Changed(c, i)[k] # accounts[i][k]
    /\ Effect(c, i, Changed(c, i))
    /\ UNCHANGED taken

Remove(c) ==
    LET i == req[c].id IN
    /\ req[c].op = "delete" /\ i \in Existing
    /\ Effect(c, i, NoAccount)
    /\ taken' = [taken EXCEPT ![c] = Shown(accounts[i])]

-----------------------------------------------------------------------------
Tell(c, answer) ==
    /\ outcome[c] = "none"
    /\ outcome' = [outcome EXCEPT ![c] = answer]
    /\ UNCHANGED <<req, accounts, done, taken>>

\* OK for what was done, or for a change of nothing.
Confirm(c) ==
    /\ c \in done \/ (req[c].op = "update" /\ Parts(c) = {})
    /\ Tell(c, "OK")

Decline(c) == c \notin done /\ Tell(c, "refused")

RegistryNext ==
    \E c \in Calls : Add(c) \/ Change(c) \/ Remove(c) \/ Confirm(c) \/ Decline(c)

Spec == RegistryInit /\ [][RegistryNext]_registryVars

-----------------------------------------------------------------------------
\* No two accounts of the registry have one login.
LoginsApart ==
    \A i, j \in Existing : LoginOf(accounts[i]) = LoginOf(accounts[j]) => i = j

\* What a client was told is what happened: OK for an effect, refused for none.
ToldTheTruth ==
    \A c \in Calls :
        /\ outcome[c] = "refused" => c \notin done
        /\ outcome[c] = "OK" => c \in done \/ (req[c].op = "update" /\ Parts(c) = {})
=============================================================================
