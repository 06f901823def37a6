--------------------------- MODULE AccountService ---------------------------
(***************************************************************************)
(* The write side of the account service: concurrent calls of Create,      *)
(* UpdateOne and DeleteOne, served by any number of replicas, and runs of  *)
(* the seeder, on one MongoDB deployment.                                  *)
(***************************************************************************)
EXTENDS SeedHandler, UpdateHandler, DeleteHandler, MongoServer

vars == <<callVars, serverVars>>

Init == CallsInit /\ ServerInit

\* A step of the handler of call c.
Handle(c) ==
    \/ NotConnected(c) \/ Create(c) \/ UpdateOne(c) \/ DeleteOne(c)
    \/ SeedAccount(c) \/ Dispatch(c) \/ AbortDone(c) \/ Committed(c) \/ CommitFailed(c)

Step(c) == Handle(c) /\ UNCHANGED serverVars

Tick ==
    /\ clock < MaxMs
    /\ clock' = clock + 1
    /\ UNCHANGED <<req, stage, todo, pending, missed, code, body, ids, tstate,
                   ended, reqs, resps, serverVars>>

Fault == GiveUp \/ Vanish \/ LoseReply \/ \E c \in Calls : Crash(c)

\* Every call is over and nothing is left of it on the wire.
Quiet ==
    /\ \A c \in Calls : Orphan(c)
    /\ reqs = {} /\ resps = {} /\ late = {}
    /\ UNCHANGED vars

Next ==
    \/ \E c \in Calls : Step(c) \/ Serve(c) \/ Reap(c)
    \/ Tick \/ Fault \/ Quiet

Spec == Init /\ [][Next]_vars

\* A handler that was called runs its callbacks, the server serves what it
\* receives and reaps what was left behind.  Nobody has to call, the clock is
\* free, nothing has to fail.
Progress(c) ==
    \/ stage[c] # "new" /\ Step(c)
    \/ Serve(c)
    \/ Orphan(c) /\ Reap(c)

FairSpec == Spec /\ \A c \in Calls : WF_vars(Progress(c))

-----------------------------------------------------------------------------
\* Every variable stays in the set of values the code can give it.
TypeOK == CallsTypeOK /\ ServerTypeOK

-----------------------------------------------------------------------------
(* Safety.                                                                 *)

Accounts(s) == {i \in Ids : s[<<"account", i>>] # NoDoc}

\* The account a and the child of that kind it refers to refer to each other.
Linked(s, a, kind) ==
    LET i == s[<<"account", a>>][kind]
    IN  s[<<kind, i>>] # NoDoc /\ s[<<kind, i>>].parent = a

\* Create and DeleteOne write four collections: whatever they interleave with,
\* the committed store holds whole accounts only.  Every account has its three
\* children, each pointing back at it, and every child belongs to the account
\* it points to.
RefIntegrity ==
    /\ \A a \in Accounts(db), kind \in ChildKinds : Linked(db, a, kind)
    /\ \A kind \in ChildKinds, i \in Ids :
         LET child == db[<<kind, i>>] IN
         child # NoDoc =>
            /\ child.parent \in Accounts(db)
            /\ db[<<"account", child.parent>>][kind] = i

\* Two accounts never share a username or an e-mail address: concurrent Creates
\* of one login, a Create racing the UpdateOne that takes its login over, and the
\* DeleteOne of its owner.
UniqueLogin ==
    \A i, j \in Ids :
        LET one == db[<<"credential", i>>]
            two == db[<<"credential", j>>]
        IN  one # NoDoc /\ two # NoDoc /\ one.fields["login"] = two.fields["login"]
                => i = j

\* A call that is refused, and a call whose transaction the handler has given
\* up, has changed nothing: no operation that was still on its way, no second
\* abort and no late start of the transaction can make its writes durable.
RefusedLeavesNothing ==
    \A c \in Calls :
        \/ stage[c] = "answered" /\ code[c] # "OK"
        \/ tstate[c] = "aborted"
        => phase[c] # "committed"

\* An OK answer is given only for a committed transaction, or for an UpdateOne
\* without any part, which has sent no operation of its session.
OkMeansCommitted ==
    \A c \in Calls : stage[c] = "answered" /\ code[c] = "OK" =>
        \/ phase[c] = "committed"
        \/ phase[c] = "none" /\ req[c].op = "update" /\ Parts(c) = {}

\* When a call answers OK all its operations have settled: nothing of it is
\* created, on the wire, unanswered or given up (and so executed later), and its
\* session has ended.
OkIsQuiescent ==
    \A c \in Calls : stage[c] = "answered" /\ code[c] = "OK" =>
        /\ ended[c] /\ todo[c] = {}
        /\ ~\E m \in reqs \cup late \cup resps : m.call = c

\* A request that is sent again takes effect once, although the first call may
\* have been given up by its client and be executed during the second one: the
\* unique login, the counted deletes and the counted updates see to it.  Only
\* another request that takes effect in between can make room for it again.
OnceForAll ==
    \A c, d \in Calls :
        c # d /\ req[c] = req[d] /\ phase[c] = "committed" /\ phase[d] = "committed" =>
            \E e \in Calls : req[e] # req[c] /\ phase[e] = "committed"

\* Why a call may never be answered: its commit failed, so that every enclosing
\* catch throws; it is a Create that aborts its session twice; or it lacks a
\* sub-message that is looked into outside any catch.
Unanswerable(c) ==
    \/ tstate[c] = "committed"
    \/ tstate[c] = "aborted" /\ req[c].op = "create"
    \/ "set" \in req[c].omits
    \/ "query" \in req[c].omits /\ (req[c].op = "delete" \/ Parts(c) # {})

\* No other call is left without an answer, whichever of its operations fail, are
\* lost or come back in whatever order: each of the nested catches settles it.
OnlyTheseHang == \A c \in Calls : stage[c] = "stuck" => Unanswerable(c)

\* The first operations of call c are sent in parallel.
ParallelStart(c) ==
    \/ req[c].op \in {"create", "seed"}
    \/ req[c].op = "update" /\ \E j, k \in Parts(c) : j # k

\* While nothing is lost, an answered call leaves its transaction open (hence
\* its locks held until the server reaps it) only if its first operations were
\* sent in parallel, so that the abort could overtake the one that starts it.
OnlyParallelStartsLinger ==
    faults = 0 => \A c \in Calls :
        stage[c] = "answered" /\ phase[c] = "open" => ParallelStart(c)

-----------------------------------------------------------------------------
(* Action properties: what a commit makes durable is what the call answers. *)

Commits(c) == phase[c] = "open" /\ phase'[c] = "committed"

\* The account that Create read back before its commit, children included, is
\* the one its commit adds to the store.
CreatedAsAnswered ==
    [][\A c \in Calls : req[c].op = "create" /\ Commits(c) =>
          body[c] = Public(Assemble(db', ids[c]["account"]))]_vars

\* A seed adds its account, whole, to a store without it, and changes nothing
\* else: a second seed, or a seed against a running service, keeps its hands off.
SeededOnce ==
    [][\A c \in Calls : req[c].op = "seed" /\ Commits(c) =>
          \A k \in DocKeys :
             IF k[2] = 0 THEN db[k] = NoDoc /\ db'[k] = SeededStore[k]
             ELSE db'[k] = db[k]]_vars

\* The account that DeleteOne answers with is the one its commit removes as it
\* stood at that moment, whatever was committed since the list was read; the
\* account and its children are gone, and nothing else is.
DeletedAsAnswered ==
    [][\A c \in Calls : req[c].op = "delete" /\ Commits(c) =>
          LET id == req[c].id
              gone == {k \in DocKeys : db[k] # NoDoc /\ db'[k] = NoDoc}
          IN  /\ db[<<"account", id>>] # NoDoc
              /\ body[c] = Public(Assemble(db, id))
              /\ gone = {<<"account", id>>} \cup
                        {<<k, db[<<"account", id>>][k]>> : k \in ChildKinds}
              /\ \A k \in DocKeys \ gone : db'[k] = db[k]]_vars

\* An UpdateOne that takes effect changes a child of its account for each part it
\* was sent, and nothing else, whatever other calls did to the account since its
\* parts were set: the account is there, each of those children is changed and not
\* removed, and those of info and credential hold the fields that were sent.
UpdatedAsAsked ==
    [][\A c \in Calls : req[c].op = "update" /\ Commits(c) =>
          LET account == db[<<"account", req[c].id>>]
              child(k) == <<k, account[k]>>
          IN  /\ account # NoDoc
              /\ {k \in DocKeys : db'[k] # db[k]} = {child(k) : k \in Parts(c)}
              /\ \A k \in Parts(c) : db[child(k)] # NoDoc /\ db'[child(k)] # NoDoc
              /\ \A k \in Parts(c) \ {"place"} : \A f \in Accepted(k, req[c].set[k]) :
                    db'[child(k)].fields[f] = req[c].set[k][f]]_vars

-----------------------------------------------------------------------------
(* Liveness.                                                               *)

\* Every call ends: it is answered, its replica crashes, or it is one of the calls
\* that are never answered.
CallsEnd ==
    \A c \in Calls : stage[c] # "new" ~>
        stage[c] \in {"answered", "crashed"} \/ (stage[c] = "stuck" /\ Unanswerable(c))

\* No transaction stays open, with its locks held: neither one whose replica has
\* crashed before the commit, nor one that a message given up starts late.
TransactionsEnd ==
    \A c \in Calls : phase[c] = "open" ~> phase[c] # "open"

-----------------------------------------------------------------------------
(* What the repository says of itself, and the code does not do.           *)

\* The answer of UpdateOne is the new data: it is read back after the update
\* ("Failed To get new Data").
AnswerIsNewData ==
    \A c \in Calls :
        stage[c] = "answered" /\ code[c] = "OK" /\ req[c].op = "update" =>
            \A k \in Parts(c) : \A f \in Accepted(k, req[c].set[k]) :
                body[c][k].fields[f] = req[c].set[k][f]

\* The password of a credential is a hash; the original is not stored.
PasswordIsHash ==
    \A i \in Ids : db[<<"credential", i>>] # NoDoc =>
        db[<<"credential", i>>].fields["password"] \in {Hash(v) : v \in Values}

\* A Create that fails rejects, and its controller throws an RpcException.
FailureIsThrown ==
    \A c \in Calls :
        req[c].op = "create" /\ tstate[c] = "aborted" ~> stage[c] = "answered"

\* "Data Not Updated. may data is same old data. or not accepted": of an account
\* that is there, nobody else changing it, some part brought nothing but old values
\* among those its schema accepts, or none of these at all.
RefusedDataIsOld ==
    \A c \in Calls : req[c].op = "update" /\ code[c] = "RESOURCE_EXHAUSTED"
            /\ req[c].id \in Accounts(db) =>
        \E k \in Parts(c) : \A f \in Accepted(k, req[c].set[k]) :
            db[<<k, db[<<"account", req[c].id>>][k]>>].fields[f] = req[c].set[k][f]
=============================================================================
