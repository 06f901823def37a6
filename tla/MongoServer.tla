---------------------------- MODULE MongoServer ----------------------------
(***************************************************************************)
(* External: the MongoDB replica set, as the handlers rely on it.  A       *)
(* transaction reads and writes a snapshot taken by its first operation; a *)
(* write conflicts with the uncommitted or later-committed writes of other *)
(* transactions; any error of a write ends its transaction; an operation   *)
(* of a transaction that is not open is refused.  A client may give up an  *)
(* operation that is executed later or never, replies may be lost, a       *)
(* replica of the service may crash, and an open transaction may be reaped *)
(* (lifetime limit, step down), MaxFaults times in all.                    *)
(***************************************************************************)
EXTENDS AccountCalls

CONSTANTS
    Deployed,       \* the stores the service may start on
    MaxFaults       \* bound on timeouts, losses, crashes and reaped transactions

ASSUME ServerAssumption ==
    /\ Deployed \subseteq {EmptyStore, SeededStore}
    /\ MaxFaults \in Nat

VARIABLES
    db,         \* the committed store
    phase,      \* the transaction of each call's session
    view,       \* its snapshot together with its own writes
    wrote,      \* the keys it wrote
    stale,      \* the keys others committed since its snapshot
    late,       \* messages nobody waits for any more, that may still be executed
    faults      \* faults so far

serverVars == <<db, phase, view, wrote, stale, late, faults>>
txnVars == <<phase, view, wrote, stale>>

ServerInit ==
    /\ db \in Deployed
    /\ phase = [c \in Calls |-> "none"]
    /\ view = [c \in Calls |-> EmptyStore]
    /\ wrote = [c \in Calls |-> {}]
    /\ stale = [c \in Calls |-> {}]
    /\ late = {}
    /\ faults = 0

ServerTypeOK ==
    /\ db \in Stores
    /\ phase \in [Calls -> {"none", "open", "committed", "aborted"}]
    /\ view \in [Calls -> Stores]
    /\ wrote \in [Calls -> SUBSET Keys]
    /\ stale \in [Calls -> SUBSET Keys]
    /\ late \subseteq Messages
    /\ faults \in 0 .. MaxFaults

-----------------------------------------------------------------------------
\* Keys with an uncommitted write of another transaction.
Busy(c) == UNION {wrote[d] : d \in Calls \ {c}}

\* Message m finds the transaction it belongs to.
Live(m) == phase[m.call] = IF m.start THEN "none" ELSE "open"
Snapshot(m) == IF m.start THEN db ELSE view[m.call]
Stale(m) == IF m.start THEN {} ELSE stale[m.call]

\* The documents of its collection that write m applies to in store s (at most
\* one of them is written), and what the write makes of document i.
Targets(m, s) ==
    LET c == m.call
        there(i) == s[<<m.kind, i>>] # NoDoc
    IN  CASE m.verb = "insert" -> {ids[c][m.kind]}
          [] m.verb = "link"   -> {i \in {ids[c][m.kind]} : there(i)}
          [] m.verb = "delete" /\ m.kind = "account" -> {i \in {req[c].id} : there(i)}
          [] OTHER -> ChildrenOf(s, m.kind, req[c].id)

Image(m, s, i) ==
    LET c == m.call
        old == s[<<m.kind, i>>]
    IN  CASE m.verb = "insert" -> SavedDoc(c, m.kind)
          [] m.verb = "link"   -> [parent |-> ids[c]["account"], fields |-> old.fields]
          [] m.verb = "update" -> SetFields(old, m.kind, UpdatePatch(c, m.kind))
          [] m.verb = "delete" -> NoDoc

Images(m, s) == {[id |-> i, doc |-> Image(m, s, i)] : i \in Targets(m, s)}

\* The write leaves the document as it was.
Idle(m, w, s) == m.verb # "insert" /\ w.doc = s[<<m.kind, w.id>>]

Conflicts(m, w, s) ==
    Touched(s, m.kind, w.id, w.doc) \cap (Busy(m.call) \cup Stale(m)) # {}

Collides(m, w, s) ==
    \/ m.verb = "insert" /\ s[<<m.kind, w.id>>] # NoDoc
    \/ Duplicate(s, m.kind, w.id, w.doc)

\* The client hears the result of m, unless it has given m up.
Answer(m, result, docs) ==
    /\ IF m \in reqs
       THEN /\ reqs' = reqs \ {m}
            /\ resps' = resps \cup Settled(Reply(m, result, docs))
            /\ UNCHANGED late
       ELSE /\ late' = late \ {m}
            /\ UNCHANGED <<reqs, resps>>
    /\ UNCHANGED <<clock, req, stage, todo, pending, missed, code, body, ids,
                   tstate, ended>>

\* The transaction of call c takes a state and forgets its writes.
Finish(c, state) ==
    /\ phase' = [phase EXCEPT ![c] = state]
    /\ view' = [view EXCEPT ![c] = EmptyStore]
    /\ wrote' = [wrote EXCEPT ![c] = {}]

\* The transaction of m is open with the store s, having written keys.
Continue(m, s, keys) ==
    LET c == m.call IN
    /\ phase' = [phase EXCEPT ![c] = "open"]
    /\ view' = [view EXCEPT ![c] = s]
    /\ wrote' = [wrote EXCEPT ![c] = @ \cup keys]
    /\ UNCHANGED <<db, stale, faults>>

-----------------------------------------------------------------------------
(* The operations of a transaction.                                        *)

\* insertOne, updateOne or deleteOne with a session.
ServeWrite(m) ==
    LET s == Snapshot(m) IN
    /\ m.verb \in Writes /\ Live(m)
    /\ \/ /\ Images(m, s) = {}
          /\ Answer(m, "miss", NoDocs)
          /\ Continue(m, s, {})
       \/ \E w \in Images(m, s) :
            \/ /\ Idle(m, w, s)
               /\ Answer(m, "miss", NoDocs)
               /\ Continue(m, s, {})
            \/ /\ ~Idle(m, w, s) /\ ~Conflicts(m, w, s) /\ ~Collides(m, w, s)
               /\ Answer(m, "ok", NoDocs)
               /\ Continue(m, Put(s, m.kind, w.id, w.doc),
                           Touched(s, m.kind, w.id, w.doc))
            \/ /\ ~Idle(m, w, s) /\ (Conflicts(m, w, s) \/ Collides(m, w, s))
               /\ Answer(m, IF Conflicts(m, w, s) THEN "conflict" ELSE "duplicate",
                         NoDocs)
               /\ Finish(m.call, "aborted")
               /\ UNCHANGED <<db, stale, faults>>

\* aggregate with a session: the account of the request, children looked up.
ServeRead(m) ==
    LET c == m.call
        s == Snapshot(m)
        id == IF m.verb = "aggregate" THEN ids[c]["account"] ELSE req[c].id
    IN  /\ m.verb \in SessionReads /\ Live(m)
        /\ Answer(m, "ok", Public(Assemble(s, id)))
        /\ Continue(m, s, {})

\* The transaction is not there: not started yet, ended, or reaped.
ServeStranger(m) ==
    /\ m.verb \in Writes \cup SessionReads \cup {"commit", "abort"}
    /\ ~Live(m)
    /\ Answer(m, "notxn", NoDocs)
    /\ UNCHANGED <<db, txnVars, faults>>

ServeCommit(m) ==
    LET c == m.call IN
    /\ m.verb = "commit" /\ Live(m)
    /\ db' = [k \in Keys |-> IF k \in wrote[c] THEN view[c][k] ELSE db[k]]
    /\ stale' = [d \in Calls |-> IF d # c /\ phase[d] = "open"
                                 THEN stale[d] \cup wrote[c] ELSE stale[d]]
    /\ Finish(c, "committed")
    /\ Answer(m, "ok", NoDocs)
    /\ UNCHANGED faults

ServeAbort(m) ==
    /\ m.verb = "abort" /\ Live(m)
    /\ Finish(m.call, "aborted")
    /\ Answer(m, "ok", NoDocs)
    /\ UNCHANGED <<db, stale, faults>>

\* Operations without a session read the committed store, one collection each:
\* the account, then the child it refers to.
ServePlain(m) ==
    LET c == m.call
        id == IF m.verb = "find" THEN req[c].id ELSE body[c]["account"][m.kind]
        kind == IF m.verb = "find" THEN "account" ELSE m.kind
    IN  /\ m.verb \in PlainReads
        /\ Answer(m, "ok", [NoDocs EXCEPT ![kind] =
                               IF id = NoId THEN NoDoc ELSE db[<<kind, id>>]])
        /\ UNCHANGED <<db, txnVars, faults>>

Serve(c) ==
    \E m \in {m \in reqs \cup late : m.call = c} :
        \/ ServeWrite(m) \/ ServeRead(m) \/ ServeStranger(m)
        \/ ServeCommit(m) \/ ServeAbort(m) \/ ServePlain(m)

-----------------------------------------------------------------------------
(* Faults.  A lost commit or abort is one whose retry was lost as well.    *)

\* timeoutMS expires, or the connection breaks: the client takes an operation
\* for failed that the server may execute at any later moment, or never.
GiveUp ==
    /\ faults < MaxFaults
    /\ faults' = faults + 1
    /\ \E m \in reqs :
         /\ reqs' = reqs \ {m}
         /\ late' = late \cup {m}
         /\ resps' = resps \cup Settled(Reply(m, "lost", NoDocs))
    /\ UNCHANGED <<clock, req, stage, todo, pending, missed, code, body, ids,
                   tstate, ended, db, txnVars>>

Vanish ==
    /\ \E m \in late : late' = late \ {m}
    /\ UNCHANGED <<callVars, db, txnVars, faults>>

LoseReply ==
    /\ faults < MaxFaults
    /\ faults' = faults + 1
    /\ \E r \in resps :
         /\ r.result \in {"ok", "miss", "duplicate", "conflict", "notxn"}
         /\ resps' = (resps \ {r}) \cup Settled(Reply(r, "lost", NoDocs))
    /\ UNCHANGED <<clock, req, stage, todo, pending, missed, code, body, ids,
                   tstate, ended, reqs, db, txnVars, late>>

\* The replica that runs an unanswered call stops: what the call has sent stays
\* on its way, and nobody waits for it or ends its transaction.
Crash(c) ==
    /\ stage[c] \notin {"new", "answered", "stuck", "crashed"}
    /\ faults < MaxFaults
    /\ faults' = faults + 1
    /\ stage' = [stage EXCEPT ![c] = "crashed"]
    /\ todo' = [todo EXCEPT ![c] = {}]
    /\ reqs' = {m \in reqs : m.call # c}
    /\ late' = late \cup {m \in reqs : m.call = c}
    /\ resps' = {r \in resps : r.call # c}
    /\ UNCHANGED <<clock, req, pending, missed, code, body, ids, tstate, ended,
                   db, txnVars>>

\* A transaction nobody will end costs no fault: the server always reaps it.
Orphan(c) == stage[c] \in {"answered", "stuck", "crashed"}
Reap(c) ==
    /\ phase[c] = "open"
    /\ faults' = IF Orphan(c) THEN faults ELSE faults + 1
    /\ faults' <= MaxFaults
    /\ Finish(c, "aborted")
    /\ UNCHANGED <<db, stale, late>>
    /\ UNCHANGED callVars
=============================================================================
