---------------------------- MODULE AccountCalls ----------------------------
(***************************************************************************)
(* What every transactional handler of AccountService, and the seeder,     *)
(* share: the request a call carries, the promises it waits for, its driver session, and  *)
(* the operations of it that are on the wire.                              *)
(*                                                                         *)
(* An operation is a pair <<verb, kind>>.  It is created (todo), put on    *)
(* the wire (reqs), executed by the server, settled (resps), and consumed  *)
(* by the continuation that awaits it (pending).  Operations travel on a   *)
(* pool of connections: the sets reqs and resps keep no order.             *)
(***************************************************************************)
EXTENDS AccountStore, FiniteSets

CONSTANTS
    Calls,      \* concurrent gRPC calls, over all replicas, and runs of the seeder
    Workloads   \* which request each of them may carry

\* The account that the seeder creates.
SeedRequest == [op |-> "seed", id |-> 0, omits |-> {},
                set |-> [k \in ChildKinds |-> SeedPayload(k)]]

\* NoId stands for an id that is not a UUID; omits tells which of the sub-messages
\* `query' and `set' of a change the client left out altogether.
RequestType ==
    {r \in [op    : {"create", "update", "delete", "seed"},
            id    : Ids \cup {NoId},
            omits : SUBSET {"query", "set"},
            set   : [ChildKinds -> Patches \cup {NoPatch}]] :
        /\ \A k \in ChildKinds : r.set[k] \in Payloads(k) \cup {NoPatch}
        /\ r.op = "create" => r.id = NoId
        /\ r.op = "seed" => r = SeedRequest
        /\ "query" \in r.omits => r.op \in {"update", "delete"} /\ r.id = NoId
        /\ "set" \in r.omits => r.op = "update" /\ \A k \in ChildKinds : r.set[k] = NoPatch}

ASSUME CallAssumption == Workloads \subseteq [Calls -> RequestType]

VARIABLES
    clock,      \* the millisecond that moment.now() returns
    req,        \* the request of each call
    stage,      \* the continuation a call has reached
    todo,       \* operations created and not yet handed to a connection
    pending,    \* operations the current Promise.all still waits for
    missed,     \* some operation of it did not report exactly one document
    code,       \* the gRPC status of the answer, or of the one in preparation;
                \* a seed that fails is "LOGGED"
    body,       \* the account that an OK answer returns
    ids,        \* the _ids of the documents that a Create or a seed saves
    tstate,     \* the driver's transaction state of the session
    ended,      \* session.hasEnded
    reqs,       \* messages on their way to the server
    resps       \* settled operations that the handler has still to see

callVars == <<clock, req, stage, todo, pending, missed, code, body, ids,
              tstate, ended, reqs, resps>>

Stages == {"new", "saving", "account", "linking", "aggregating",
           "setting", "finding", "populating", "listing", "deleting",
           "committing", "aborting", "answered", "stuck", "crashed"}
Codes == {"", "OK", "ALREADY_EXISTS", "NOT_FOUND", "ABORTED", "INTERNAL",
          "FAILED_PRECONDITION", "INVALID_ARGUMENT", "RESOURCE_EXHAUSTED",
          "UNAVAILABLE", "UNKNOWN", "LOGGED"}
TStates == {"none", "starting", "inProgress", "committed", "aborted"}

Writes == {"insert", "link", "update", "delete"}
SessionReads == {"aggregate", "list"}
PlainReads == {"find", "populate"}
Verbs == Writes \cup SessionReads \cup PlainReads \cup {"commit", "abort"}
Scopes == Kinds \cup {"outer"}
Operations == Verbs \X Scopes

Fulfilled == {"ok", "miss", "unacknowledged"}
Rejected == {"duplicate", "conflict", "notxn", "lost", "invalid", "cast", "expired"}

Messages == [call : Calls, verb : Verbs, kind : Scopes, start : BOOLEAN]
Replies == [call : Calls, verb : Verbs, kind : Scopes,
            result : Fulfilled \cup Rejected, docs : Bodies]

Message(c, op, start) ==
    [call |-> c, verb |-> op[1], kind |-> op[2], start |-> start]
Reply(m, result, docs) ==
    [call |-> m.call, verb |-> m.verb, kind |-> m.kind,
     result |-> result, docs |-> docs]
Op(r) == <<r.verb, r.kind>>

\* Once its Promise.all is rejected nobody listens to an operation any more; the
\* saves of a Create keep the catch of a duplicate key, and the continuations of
\* commits and aborts are their own.
Over == {"committing", "aborting", "answered", "stuck", "crashed"}
OwnCatch(r) ==
    \/ r.verb \in {"commit", "abort"}
    \/ /\ r.verb = "insert" /\ r.kind \in ChildKinds /\ r.result = "duplicate"
       /\ req[r.call].op = "create"

\* What is left to see of an operation that settles as r.
Settled(r) == {q \in {r} : stage[q.call] \notin Over \/ OwnCatch(q)}

\* What call c drops when it takes r as the rejection of its Promise.all.
Dropped(c, r) == {r} \cup {q \in resps : q.call = c /\ ~OwnCatch(q)}

CallsInit ==
    /\ clock \in 1 .. MaxMs
    /\ req \in Workloads
    /\ stage = [c \in Calls |-> "new"]
    /\ todo = [c \in Calls |-> {}]
    /\ pending = [c \in Calls |-> {}]
    /\ missed = [c \in Calls |-> FALSE]
    /\ code = [c \in Calls |-> ""]
    /\ body = [c \in Calls |-> NoDocs]
    /\ ids = [c \in Calls |-> [k \in Kinds |-> NoId]]
    /\ tstate = [c \in Calls |-> "none"]
    /\ ended = [c \in Calls |-> FALSE]
    /\ reqs = {}
    /\ resps = {}

CallsTypeOK ==
    /\ clock \in Ids
    /\ req \in Workloads
    /\ stage \in [Calls -> Stages]
    /\ todo \in [Calls -> SUBSET Operations]
    /\ pending \in [Calls -> SUBSET Operations]
    /\ missed \in [Calls -> BOOLEAN]
    /\ code \in [Calls -> Codes]
    /\ body \in [Calls -> Bodies]
    /\ ids \in [Calls -> [Kinds -> Ids \cup {NoId}]]
    /\ tstate \in [Calls -> TStates]
    /\ ended \in [Calls -> BOOLEAN]
    /\ reqs \subseteq Messages
    /\ resps \subseteq Replies

-----------------------------------------------------------------------------
(* What an operation carries.                                              *)

\* new this.info(payload.data.info): a sub-message left out is an empty one.
NewPatch(c, kind) ==
    IF req[c].set[kind] = NoPatch THEN [f \in FieldNames |-> Unset]
    ELSE req[c].set[kind]

\* The document a Create saves in each collection.  The validators of an account
\* look its children up in the session, which sees the ones just saved.
SavedDoc(c, kind) ==
    IF kind = "account" THEN [k \in ChildKinds |-> ids[c][k]]
    ELSE NewChild(kind, NewPatch(c, kind))

\* The $set of each part of an UpdateOne: that of place is payload.data.set.info.
UpdatePatch(c, kind) ==
    IF kind = "place" THEN req[c].set["info"] ELSE req[c].set[kind]

\* How an operation settles without reaching the server, or "" if it is sent:
\* mongoose validates a save, casts a $set and drops an update that strict
\* mode empties; the driver refuses a session that has ended.
Settles(c, op) ==
    IF op[1] = "insert" /\ op[2] # "account" /\ ~Valid(op[2], NewPatch(c, op[2]))
    THEN "invalid"
    ELSE IF op[1] = "update" /\ UpdatePatch(c, op[2]) = NoPatch
    THEN "cast"
    ELSE IF op[1] = "update" /\ Accepted(op[2], UpdatePatch(c, op[2])) = {}
    THEN "unacknowledged"
    ELSE IF ended[c] THEN "expired" ELSE ""

-----------------------------------------------------------------------------
(* The session.                                                            *)

\* An operation reaches a connection.  The first one of a session to do so
\* carries startTransaction, whichever it is.
Dispatch(c) ==
    /\ \E op \in todo[c] :
         /\ todo' = [todo EXCEPT ![c] = @ \ {op}]
         /\ IF Settles(c, op) # ""
            THEN /\ resps' = resps \cup
                        Settled(Reply(Message(c, op, FALSE), Settles(c, op), NoDocs))
                 /\ UNCHANGED <<reqs, tstate>>
            ELSE /\ reqs' = reqs \cup {Message(c, op, tstate[c] = "starting")}
                 /\ tstate' = [tstate EXCEPT ![c] = "inProgress"]
                 /\ UNCHANGED resps
    /\ UNCHANGED <<clock, req, stage, pending, missed, code, body, ids, ended>>

\* The messages of operations sent inside a transaction already started.
Sent(c, ops) == {Message(c, op, FALSE) : op \in ops}

\* The continuation next, once the operations it waits for are sent.
Proceed(c, next, ops) ==
    /\ stage' = [stage EXCEPT ![c] = next]
    /\ pending' = [pending EXCEPT ![c] = ops]
    /\ reqs' = reqs \cup Sent(c, ops)

\* Mutant: the rejection without the abort.
AbandonWithoutAbort(c, status) ==
    /\ tstate[c] \in {"starting", "inProgress"}
    /\ code' = [code EXCEPT ![c] = status]
    /\ stage' = [stage EXCEPT ![c] = "answered"]
    /\ tstate' = [tstate EXCEPT ![c] = "aborted"]
    /\ ended' = [ended EXCEPT ![c] = TRUE]
    /\ reqs' = reqs

\* abortTransaction().then(endSession).then(reject): local before any operation
\* was sent, a round trip after; it throws once the transaction is over, and
\* then nothing is left to settle the promise.
Abandon(c, status) ==
    /\ code' = [code EXCEPT ![c] = status]
    /\ \/ /\ tstate[c] = "starting"
          /\ stage' = [stage EXCEPT ![c] = "answered"]
          /\ tstate' = [tstate EXCEPT ![c] = "aborted"]
          /\ ended' = [ended EXCEPT ![c] = TRUE]
          /\ reqs' = reqs
       \/ /\ tstate[c] = "inProgress"
          /\ stage' = [stage EXCEPT ![c] = "aborting"]
          /\ reqs' = reqs \cup Sent(c, {<<"abort", "outer">>})
          /\ UNCHANGED <<tstate, ended>>

\* Mutant: the session is not ended after the abort.
AbortDoneUnended(c) ==
    /\ stage[c] = "aborting"
    /\ \E r \in resps :
         /\ r.call = c /\ Op(r) = <<"abort", "outer">>
         /\ resps' = resps \ {r}
    /\ stage' = [stage EXCEPT ![c] =
                    IF tstate[c] = "aborted" THEN "stuck" ELSE "answered"]
    /\ tstate' = [tstate EXCEPT ![c] = "aborted"]
    /\ UNCHANGED <<clock, req, todo, pending, missed, code, body, ids, ended, reqs>>

\* The abort came back, whatever its result.  If another abort of the same
\* session came back first the transition is illegal and throws.  endSession sends
\* nothing: it follows in the same run of microtasks, in which no other callback of
\* this session gets a turn.
AbortDone(c) ==
    /\ stage[c] = "aborting"
    /\ \E r \in resps :
         /\ r.call = c /\ Op(r) = <<"abort", "outer">>
         /\ resps' = resps \ {r}
    /\ stage' = [stage EXCEPT ![c] =
                    IF tstate[c] = "aborted" THEN "stuck" ELSE "answered"]
    /\ tstate' = [tstate EXCEPT ![c] = "aborted"]
    /\ ended' = [ended EXCEPT ![c] = TRUE]
    /\ UNCHANGED <<clock, req, todo, pending, missed, code, body, ids, reqs>>

\* Mutant: the commit is not awaited.
CommitUnawaited(c) ==
    /\ stage' = [stage EXCEPT ![c] = "answered"]
    /\ code' = [code EXCEPT ![c] = "OK"]
    /\ tstate' = [tstate EXCEPT ![c] = "committed"]
    /\ ended' = [ended EXCEPT ![c] = TRUE]
    /\ reqs' = reqs \cup IF tstate[c] = "starting" THEN {}
                         ELSE Sent(c, {<<"commit", "outer">>})

\* commitTransaction(): nothing is sent for a transaction without operations.
Commit(c) ==
    IF tstate[c] = "starting"
    THEN /\ stage' = [stage EXCEPT ![c] = "answered"]
         /\ code' = [code EXCEPT ![c] = "OK"]
         /\ tstate' = [tstate EXCEPT ![c] = "committed"]
         /\ ended' = [ended EXCEPT ![c] = TRUE]
         /\ reqs' = reqs
    ELSE /\ stage' = [stage EXCEPT ![c] = "committing"]
         /\ reqs' = reqs \cup Sent(c, {<<"commit", "outer">>})
         /\ UNCHANGED <<code, tstate, ended>>

\* Mutant: finally instead of then, so that a failed commit resolves too.
CommittedAnyhow(c) ==
    /\ stage[c] = "committing"
    /\ \E r \in resps :
         /\ r.call = c /\ r.verb = "commit"
         /\ resps' = resps \ {r}
    /\ stage' = [stage EXCEPT ![c] = "answered"]
    /\ code' = [code EXCEPT ![c] = "OK"]
    /\ tstate' = [tstate EXCEPT ![c] = "committed"]
    /\ ended' = [ended EXCEPT ![c] = TRUE]
    /\ UNCHANGED <<clock, req, todo, pending, missed, body, ids, reqs>>

\* The commit was acknowledged: endSession and resolve.
Committed(c) ==
    /\ stage[c] = "committing"
    /\ \E r \in resps :
         /\ r.call = c /\ r.verb = "commit" /\ r.result = "ok"
         /\ resps' = resps \ {r}
    /\ stage' = [stage EXCEPT ![c] = "answered"]
    /\ code' = [code EXCEPT ![c] = "OK"]
    /\ tstate' = [tstate EXCEPT ![c] = "committed"]
    /\ ended' = [ended EXCEPT ![c] = TRUE]
    /\ UNCHANGED <<clock, req, todo, pending, missed, body, ids, reqs>>

\* Mutant: a failed commit is answered as an abort.
CommitFailedAnswered(c) ==
    /\ stage[c] = "committing"
    /\ \E r \in resps :
         /\ r.call = c /\ r.verb = "commit" /\ r.result \in Rejected
         /\ resps' = resps \ {r}
    /\ stage' = [stage EXCEPT ![c] = "answered"]
    /\ code' = [code EXCEPT ![c] = "ABORTED"]
    /\ tstate' = [tstate EXCEPT ![c] = "committed"]
    /\ ended' = [ended EXCEPT ![c] = TRUE]
    /\ UNCHANGED <<clock, req, todo, pending, missed, body, ids, reqs>>

\* The commit failed.  The driver's state is committed all the same, so the
\* abortTransaction of every enclosing catch throws.
CommitFailed(c) ==
    /\ stage[c] = "committing"
    /\ \E r \in resps :
         /\ r.call = c /\ r.verb = "commit" /\ r.result \in Rejected
         /\ resps' = resps \ {r}
    /\ stage' = [stage EXCEPT ![c] = "stuck"]
    /\ tstate' = [tstate EXCEPT ![c] = "committed"]
    /\ UNCHANGED <<clock, req, todo, pending, missed, code, body, ids, ended, reqs>>

-----------------------------------------------------------------------------
(* Steps common to the handlers.                                           *)

\* A rejection before any session is opened.
Refuse(c, status) ==
    /\ stage' = [stage EXCEPT ![c] = "answered"]
    /\ code' = [code EXCEPT ![c] = status]
    /\ UNCHANGED <<clock, req, todo, pending, missed, body, ids, tstate, ended,
                   reqs, resps>>

\* A sub-message that the client left out is looked into outside any catch: the
\* executor of the promise throws, and nothing settles the promise any more.
Throw(c) ==
    /\ stage[c] = "new"
    /\ stage' = [stage EXCEPT ![c] = "stuck"]
    /\ UNCHANGED <<clock, req, todo, pending, missed, code, body, ids, ended,
                   reqs, resps>>

\* connection.readyState is not `connected'.  DeleteOne looks at the id first.
NotConnected(c) ==
    /\ stage[c] = "new" /\ req[c].op # "seed"
    /\ req[c].op = "delete" => req[c].id # NoId
    /\ \E status \in {"UNAVAILABLE", "UNKNOWN"} : Refuse(c, status)

\* A result that the continuation of stage st waits for.
Awaited(c, st, r) ==
    /\ stage[c] = st
    /\ r \in resps
    /\ r.call = c
    /\ Op(r) \in pending[c]
=============================================================================
