-------------------------- MODULE AccountInvariants --------------------------
(***************************************************************************)
(* Inductive strengthenings of the properties of AccountService.           *)
(***************************************************************************)
EXTENDS AccountService

\* What an operation of call c can be, after what its handler has done so far.
Justified(c, op) ==
    \/ /\ op \in ChildSaves
       /\ req[c].op \in {"create", "seed"} /\ \A k \in ChildKinds : ids[c][k] \in Ids
       /\ req[c].op = "seed" => ids[c]["account"] \in Ids
    \/ /\ op \in AccountSave \cup ParentLinks \cup AccountRead
       /\ req[c].op \in {"create", "seed"} /\ \A k \in Kinds : ids[c][k] \in Ids
    \/ /\ op \in ({"update"} \X ChildKinds) \cup AccountFind
       /\ req[c].op = "update"
    \/ /\ op \in Populates
       /\ req[c].op = "update" /\ body[c]["account"] # NoDoc
    \/ /\ op \in AccountList \cup Deletes
       /\ req[c].op = "delete" /\ req[c].id # NoId
    \/ op \in {<<"commit", "outer">>, <<"abort", "outer">>} \cup ({"abort"} \X ChildKinds)

\* The Promise.all of each stage is over operations of one step of the handler.
StageOps(c) ==
    /\ stage[c] = "saving" => pending[c] \subseteq ChildSaves
    /\ stage[c] = "account" => pending[c] \subseteq AccountSave
    /\ stage[c] = "linking" => pending[c] \subseteq ParentLinks
    /\ stage[c] = "aggregating" => pending[c] \subseteq AccountRead
    /\ stage[c] = "setting" => pending[c] \subseteq {"update"} \X ChildKinds
    /\ stage[c] = "finding" => pending[c] \subseteq AccountFind
    /\ stage[c] = "populating" => pending[c] \subseteq Populates
    /\ stage[c] = "listing" => pending[c] \subseteq AccountList
    /\ stage[c] = "deleting" => pending[c] \subseteq Deletes

\* Every operation that a handler holds, awaits or has sent is justified, and
\* no update without a $set is ever sent.
OperationsOK ==
    /\ \A c \in Calls : \A op \in todo[c] \cup pending[c] : Justified(c, op)
    /\ \A m \in reqs \cup late :
         /\ Justified(m.call, Op(m))
         /\ m.verb = "update" => UpdatePatch(m.call, m.kind) # NoPatch
    /\ \A c \in Calls : stage[c] = "new" => ids[c]["account"] = NoId
    /\ \A c \in Calls : StageOps(c)

TypeInv == TypeOK /\ OperationsOK

-----------------------------------------------------------------------------
(* The discipline of one session.                                          *)

\* The operation a message or a result stands for: the abort that the catch of
\* a save sends stands for the save.
Stands(m) ==
    IF m.verb = "abort" /\ m.kind \in ChildKinds THEN <<"insert", m.kind>> ELSE Op(m)

\* Nothing of call c is created, on the wire or waiting to be seen (what it has
\* given up may still be executed).
Silent(c) ==
    /\ todo[c] = {}
    /\ \A m \in reqs : m.call # c
    /\ \A r \in resps : r.call # c

\* An operation is in one place only; what is created ahead of its sending are the
\* first operations of a session.
Once(c) ==
    /\ todo[c] \subseteq ChildSaves \cup ({"update"} \X ChildKinds) \cup AccountList
    /\ \A m \in reqs : m.call = c => Stands(m) \notin todo[c]
    /\ \A r \in resps : r.call = c => Stands(r) \notin todo[c]
    /\ \A m, n \in reqs : m.call = c /\ n.call = c /\ Stands(m) = Stands(n) => m = n
    /\ \A r, q \in resps : r.call = c /\ q.call = c /\ Stands(r) = Stands(q) => r = q
    /\ \A m \in reqs, r \in resps : m.call = c /\ r.call = c => Stands(m) # Stands(r)

\* A call that waits for a Promise.all has nothing else going on.
WaitOK(c) ==
    stage[c] \notin Over \cup {"new"} =>
        /\ todo[c] \subseteq pending[c]
        /\ \A m \in reqs : m.call = c => Stands(m) \in pending[c]
        /\ \A r \in resps : r.call = c => Stands(r) \in pending[c]
        /\ tstate[c] \in {"starting", "inProgress"}

\* A commit is on its way only while the call waits for it and for nothing else.
CommitOK(c) ==
    IF stage[c] = "committing"
    THEN /\ todo[c] = {} /\ tstate[c] = "inProgress"
         /\ \A m \in reqs : m.call = c => Op(m) = <<"commit", "outer">>
         /\ \A r \in resps : r.call = c => Op(r) = <<"commit", "outer">>
    ELSE /\ \A m \in reqs : m.call = c => m.verb # "commit"
         /\ \A r \in resps : r.call = c => r.verb # "commit"

\* The commit of call c can become durable, or has: the call awaits its result,
\* or has seen it fail or succeed, or has crashed.
Decided(c) ==
    \/ tstate[c] = "committed"
    \/ stage[c] \in {"committing", "crashed"} /\ tstate[c] = "inProgress"

\* The call learns, or has learnt, that message m of it was given up.
Rejection(m) ==
    LET c == m.call IN
    \/ stage[c] \in {"aborting", "stuck", "crashed"}
    \/ stage[c] = "answered" /\ code[c] # "OK"
    \/ \E r \in resps : r.call = c /\ r.result = "lost" /\ Stands(r) = Stands(m)

\* What call c has given up.
LateOK(c) ==
    \A m \in late : m.call = c =>
        /\ Rejection(m)
        /\ m.verb = "commit" => Decided(c)
        /\ tstate[c] \in {"none", "starting"} => m.verb \in PlainReads

\* The session of a call that has not begun, has given up or is over.
EndOK(c) ==
    /\ stage[c] = "new" => Silent(c) /\ tstate[c] = "none"
    /\ stage[c] = "crashed" => Silent(c)
    /\ stage[c] = "aborting" =>
          /\ tstate[c] \in {"inProgress", "aborted"} /\ code[c] # "OK"
          /\ tstate[c] = "aborted" => req[c].op = "create"
    /\ stage[c] = "answered" =>
          /\ tstate[c] \in {"none", "starting", "aborted", "committed"}
          /\ tstate[c] = "committed" <=> code[c] = "OK"
          /\ ended[c] \/ todo[c] = {}
    /\ stage[c] = "stuck" =>
          /\ Unanswerable(c) /\ tstate[c] # "inProgress"
          /\ tstate[c] \in {"none", "starting"} => Silent(c)
    /\ tstate[c] = "committed" => stage[c] \in {"answered", "stuck"} /\ Silent(c)
    /\ tstate[c] = "aborted" \/ (stage[c] = "answered" /\ code[c] = "OK") => ended[c]

\* What the server makes of the session.
PhaseOK(c) ==
    /\ tstate[c] \in {"none", "starting"} =>
          phase[c] = "none" /\ \A m \in reqs : m.call = c => m.verb \in PlainReads
    /\ tstate[c] = "starting" =>
          /\ \A r \in resps : r.call = c /\ r.result = "ok" => r.verb \in PlainReads
          /\ \/ stage[c] \in {"saving", "setting", "listing", "answered", "stuck", "crashed"}
             \/ stage[c] \in {"finding", "populating"} /\ Parts(c) = {} /\ req[c].op = "update"
    /\ phase[c] = "committed" => Decided(c)
    /\ \A r \in resps : r.call = c /\ r.verb = "commit" /\ r.result = "ok" =>
          phase[c] = "committed"
    /\ stage[c] = "answered" /\ code[c] = "OK" =>
          \/ phase[c] = "committed"
          \/ phase[c] = "none" /\ req[c].op = "update" /\ Parts(c) = {}

Disciplined(c) ==
    Once(c) /\ WaitOK(c) /\ CommitOK(c) /\ LateOK(c) /\ EndOK(c) /\ PhaseOK(c)

SessionInv == TypeInv /\ \A c \in Calls : Disciplined(c)

-----------------------------------------------------------------------------
(* The start of a transaction, and its end.                                *)

\* An UpdateOne without parts sends nothing of its session.
Partless(c) ==
    req[c].op = "update" /\ Parts(c) = {} =>
        /\ tstate[c] # "inProgress" /\ phase[c] = "none"
        /\ \A m \in reqs \cup late : m.call = c => m.verb \in PlainReads

\* An UpdateOne updates the parts of its request, and no others.
PartsOnly ==
    /\ \A c \in Calls : Partless(c)
    /\ \A c \in Calls, k \in ChildKinds :
          <<"update", k>> \in todo[c] \cup pending[c] => k \in Parts(c)
    /\ \A m \in reqs \cup late : m.verb = "update" => m.kind \in Parts(m.call)

\* A call that does not start in parallel waits for the operation that starts its
\* transaction before it sends another one, so that an abort that has come back
\* has ended the transaction, and nothing can start it again.
EndsWhatItStarts(c) ==
    /\ \A m \in reqs : m.call = c /\ m.start =>
          stage[c] \in {"setting", "listing"} /\ pending[c] = {Op(m)}
    /\ tstate[c] = "aborted" \/ (\E r \in resps : r.call = c /\ r.verb = "abort")
          => phase[c] # "open"

StartInv ==
    /\ PartsOnly
    /\ faults = 0 => /\ late = {}
                     /\ \A c \in Calls : ParallelStart(c) \/ EndsWhatItStarts(c)
=============================================================================
