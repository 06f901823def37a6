------------------------ MODULE SeederRefreshProofs ------------------------
(***************************************************************************)
(* What a refresh of the seeder leaves, for any number of runs, any bound  *)
(* on the clock and on the faults, and either store to start from.         *)
(***************************************************************************)
EXTENDS SeederRefresh, AccountIntegrityProofs

\* What every step of the seeder keeps.  Accounts need not be whole: a drop empties
\* one collection after another.
SeederInv == EffectsInv /\ RestoreInv

-----------------------------------------------------------------------------
(* The runs of the seeder, as calls.                                       *)

\* All that a run asks for is a seed.
LEMMA OnlySeeds == ASSUME TypeInv, NEW c \in Calls PROVE req[c] = SeedRequest
  BY SeederAssumption DEF TypeInv, TypeOK, CallsTypeOK

\* The steps of the handler of a run.
LEMMA SeedSteps ==
    ASSUME TypeInv, NEW c \in Calls, Handle(c)
    PROVE  \/ SeedBegin(c) \/ SeedSaved(c) \/ AccountSaved(c) \/ SeedLinked(c) \/ SeedRejected(c)
           \/ Dispatch(c) \/ AbortDone(c) \/ Committed(c) \/ CommitFailed(c)
<1>1. req[c].op = "seed"
  <2>1. SeedRequest.op = "seed"
    BY DEF SeedRequest
  <2> QED  BY <2>1, OnlySeeds
<1>2. ~NotConnected(c) /\ ~Create(c) /\ ~DeleteBegin(c) /\ ~DeleteInvalid(c) /\ ~UpdateBegin(c)
  BY <1>1 DEF NotConnected, Create, DeleteBegin, DeleteInvalid, UpdateBegin
<1>6. ~UpdateThrows(c) /\ ~UpdateUnasked(c) /\ ~DeleteThrows(c)
  BY <1>1, OmittedFacts
<1>3. ASSUME NEW st \in {"setting", "finding", "populating", "listing", "deleting"}, NEW r
      PROVE  ~Awaited(c, st, r)
  BY <1>1, <1>3, AwaitedRequest
<1>4. ~PartSet(c) /\ ~PartRejected(c) /\ ~Found(c) /\ ~NotFound(c) /\ ~Populated(c)
  BY <1>3 DEF PartSet, PartRejected, Found, NotFound, Populated
<1>5. ~Listed(c) /\ ~ListRejected(c) /\ ~Deleted(c) /\ ~DeleteRejected(c)
  BY <1>3 DEF Listed, ListRejected, Deleted, DeleteRejected
<1> QED  BY <1>2, <1>4, <1>5, <1>6 DEF Handle, UpdateOne, DeleteOne, SeedAccount

\* A status OK is given together with the answer.
LEMMA OkStays ==
    ASSUME SessionInv, [Next]_vars, NEW d \in Calls, code[d] = "OK" => stage[d] = "answered"
    PROVE  code'[d] = "OK" => stage'[d] = "answered"
<1> USE DEF SessionInv, TypeInv, TypeOK, CallsTypeOK
<1>1. ASSUME NEW c \in Calls, Step(c) PROVE code'[d] = "OK" => stage'[d] = "answered"
  <2>1. CASE c # d
    BY <1>1, <2>1, HandleAlone DEF Step, Untouched
  <2>2. CASE c = d /\ stage[d] = "answered"
    BY <1>1, <2>2, AnsweredOnce DEF Step
  <2>3. CASE c = d /\ stage[d] # "answered"
    <3>1. code[c] # "OK" /\ Handle(c)
      BY <1>1, <2>3 DEF Step
    <3>2. Abandon(c, "LOGGED") => code'[c] # "OK"
      BY DEF Abandon
    <3>3. Commit(c) => code'[c] # "OK" \/ stage'[c] = "answered"
      BY <3>1 DEF Commit
    <3>4. SeedLinked(c) => Commit(c) \/ code' = code
      BY DEF SeedLinked
    <3>5. SeedBegin(c) \/ SeedSaved(c) \/ AccountSaved(c) \/ Dispatch(c) \/ AbortDone(c)
             \/ CommitFailed(c) => code' = code
      BY DEF SeedBegin, SeedSaved, AccountSaved, Dispatch, AbortDone, CommitFailed
    <3>6. Committed(c) => stage'[c] = "answered"
      BY DEF Committed
    <3> QED  BY <2>3, <3>1, <3>2, <3>3, <3>4, <3>5, <3>6, SeedSteps DEF SeedRejected
  <2> QED  BY <2>1, <2>2, <2>3
<1>2. ASSUME NEW c \in Calls, Serve(c) PROVE UNCHANGED <<stage, code>>
  <2>1. \A m, result, docs : Answer(m, result, docs) => UNCHANGED <<stage, code>>
    BY DEF Answer
  <2> QED  BY <1>2, <2>1 DEF Serve, ServeWrite, ServeRead, ServeStranger, ServeCommit, ServeAbort,
           ServePlain
<1>3. CASE Fault
  <2>1. code' = code
    BY <1>3 DEF Fault, GiveUp, Vanish, LoseReply, Crash, callVars
  <2>2. stage[d] = "answered" => stage'[d] = "answered"
    BY <1>3 DEF Fault, GiveUp, Vanish, LoseReply, Crash, callVars
  <2> QED  BY <2>1, <2>2
<1>4. CASE Tick \/ Quiet \/ UNCHANGED vars \/ \E c \in Calls : Reap(c)
  BY <1>4 DEF Tick, Quiet, Reap, vars, callVars
<1> QED  BY <1>1, <1>2, <1>3, <1>4 DEF Next

\* A run that is over stays over.
LEMMA OrphanStays ==
    ASSUME SessionInv, [Next]_vars, NEW d \in Calls, Orphan(d)
    PROVE  Orphan(d)'
<1> USE DEF SessionInv, TypeInv, TypeOK, CallsTypeOK, Orphan
<1>1. ASSUME NEW c \in Calls, Step(c) PROVE stage'[d] = stage[d]
  BY <1>1, HandleAlone, OverStays DEF Step, Untouched
<1>2. ASSUME NEW c \in Calls, Serve(c) PROVE stage' = stage
  <2>1. \A m, result, docs : Answer(m, result, docs) => stage' = stage
    BY DEF Answer
  <2> QED  BY <1>2, <2>1 DEF Serve, ServeWrite, ServeRead, ServeStranger, ServeCommit, ServeAbort,
           ServePlain
<1>3. CASE Fault
  BY <1>3 DEF Fault, GiveUp, Vanish, LoseReply, Crash, callVars
<1>4. CASE Tick \/ Quiet \/ UNCHANGED vars \/ \E c \in Calls : Reap(c)
  BY <1>4 DEF Tick, Quiet, Reap, vars, callVars
<1> QED  BY <1>1, <1>2, <1>3, <1>4 DEF Next

-----------------------------------------------------------------------------
(* A commit that took effect, while nothing fails.                         *)

\* The handler of a committed call takes the news or goes on waiting for it.
LEMMA HandleReports ==
    ASSUME SessionInv, SessionInv', NEW c \in Calls, Step(c), phase[c] = "committed", Reported(c)
    PROVE  Reported(c)'
<1> USE DEF SessionInv, Disciplined
<1>1. Handle(c) /\ Decided(c) /\ phase' = phase
  BY DEF Step, serverVars, PhaseOK
<1>2. CASE stage[c] = "answered"
  <2>1. stage'[c] = "answered"
    BY <1>1, <1>2, AnsweredOnce
  <2> QED  BY <2>1 DEF Reported, CommitOK
<1>3. CASE stage[c] = "committing"
  <2>1. /\ todo[c] = {}
        /\ \A r \in resps : r.call = c => Op(r) = <<"commit", "outer">> /\ r.result = "ok"
    BY <1>3 DEF CommitOK, Reported, Op
  <2>2. ~Dispatch(c) /\ ~ChildDuplicate(c) /\ ~ChildAbortDone(c) /\ ~AbortDone(c)
    BY <1>3, <2>1 DEF Dispatch, ChildDuplicate, ChildAbortDone, AbortDone, ChildSaves, Op
  <2>3. ~CommitFailed(c)
    BY <2>1 DEF CommitFailed, Rejected
  <2>4. Committed(c)
    BY <1>1, <1>3, <2>2, <2>3, OverActs DEF Over
  <2>5. stage'[c] = "answered"
    BY <2>4 DEF Committed, TypeInv, TypeOK, CallsTypeOK
  <2> QED  BY <2>5 DEF Reported, CommitOK
<1>4. stage[c] \in {"answered", "committing"}
  BY <1>1 DEF Decided, Reported, EndOK
<1> QED  BY <1>2, <1>3, <1>4

\* The server reports the commit that it executes, and is not asked twice.
LEMMA ServeReports ==
    ASSUME SessionInv, NEW c \in Calls, Serve(c), late = {}, phase'[c] = "committed",
           phase[c] = "committed" => Reported(c)
    PROVE  Reported(c)'
<1> USE DEF SessionInv, Disciplined
<1>1. PICK m \in reqs :
        /\ m.call = c
        /\ \/ ServeWrite(m) \/ ServeRead(m) \/ ServeStranger(m)
           \/ ServeCommit(m) \/ ServeAbort(m) \/ ServePlain(m)
  BY DEF Serve
<1>2. \A result, docs : Answer(m, result, docs) =>
         /\ stage' = stage /\ reqs' \subseteq reqs \ {m}
         /\ resps' \subseteq resps \cup {Reply(m, result, docs)}
  BY SettledFacts DEF Answer
<1>3. \A result, docs : LET r == Reply(m, result, docs) IN
         r.call = c /\ r.verb = m.verb /\ r.result = result
  BY <1>1 DEF Reply
<1>4. CASE phase[c] = "committed"
  <2>1. m.verb # "commit"
    BY <1>1, <1>4 DEF Reported
  <2>2. \E result, docs : Answer(m, result, docs)
    BY <1>1 DEF ServeWrite, ServeRead, ServeStranger, ServeCommit, ServeAbort, ServePlain
  <2> QED  BY <1>2, <1>3, <1>4, <2>1, <2>2 DEF Reported
<1>5. CASE phase[c] # "committed"
  <2>1. ServeCommit(m)
    BY <1>1, <1>5 DEF ServeWrite, ServeRead, ServeStranger, ServeAbort, ServePlain, Continue,
       Finish, txnVars, TypeInv, TypeOK, ServerTypeOK
  <2>2. m.verb = "commit" /\ Answer(m, "ok", NoDocs)
    BY <2>1 DEF ServeCommit
  <2>3. stage[c] = "committing"
    BY <1>1, <2>2 DEF CommitOK
  <2>4. \A n \in reqs : n.call = c /\ n.verb = "commit" => n = m
    <3>1. \A n \in reqs : n.call = c => Stands(n) = <<"commit", "outer">>
      BY <2>3 DEF CommitOK, Stands, Op
    <3> QED  BY <1>1, <3>1 DEF Once
  <2>5. \A r \in resps : r.call = c => r.verb # "commit"
    <3>1. Stands(m) = <<"commit", "outer">>
      BY <1>1, <2>3 DEF CommitOK, Stands, Op
    <3>2. \A r \in resps : r.call = c => Stands(r) = <<"commit", "outer">>
      BY <2>3 DEF CommitOK, Stands, Op
    <3> QED  BY <1>1, <3>1, <3>2 DEF Once
  <2> QED  BY <1>2, <1>3, <2>2, <2>3, <2>4, <2>5 DEF Reported
<1> QED  BY <1>4, <1>5

\* No step that is not a fault makes a handler miss its own commit.
LEMMA ReportedStays ==
    ASSUME SessionInv, SessionInv', [Next]_vars, NEW c \in Calls, late = {}, faults' = faults,
           phase'[c] = "committed", phase[c] = "committed" => Reported(c)
    PROVE  Reported(c)'
<1> USE DEF SessionInv, TypeInv, TypeOK, ServerTypeOK
<1>1. Untouched(c) => Reported(c)'
  BY DEF Untouched, Reported
<1>2. ASSUME NEW d \in Calls, Step(d) PROVE Reported(c)'
  <2>1. CASE d # c
    BY <1>1, <1>2, <2>1, HandleAlone DEF Step
  <2>2. CASE d = c
    <3>1. phase[c] = "committed"
      BY <1>2, <2>2 DEF Step, serverVars
    <3> QED  BY <1>2, <2>2, <3>1, HandleReports
  <2> QED  BY <2>1, <2>2
<1>3. ASSUME NEW d \in Calls, Serve(d) PROVE Reported(c)'
  BY <1>1, <1>3, ServeAlone, ServeReports
<1>4. ASSUME NEW d \in Calls, Reap(d) PROVE Reported(c)'
  <2>1. d # c
    BY <1>4 DEF Reap, Finish
  <2>2. phase'[c] = phase[c] /\ UNCHANGED callVars
    BY <1>4, <2>1 DEF Reap, Finish
  <2> QED  BY <2>2 DEF callVars, Reported
<1>5. ~Fault
  <2>1. faults \in Nat
    BY ServerAssumption
  <2> QED  BY <2>1 DEF Fault, GiveUp, Vanish, LoseReply, Crash
<1>6. CASE Tick \/ Quiet \/ UNCHANGED vars
  BY <1>6 DEF Tick, Quiet, vars, callVars, serverVars, Reported
<1> QED  BY <1>2, <1>3, <1>4, <1>5, <1>6 DEF Next

-----------------------------------------------------------------------------
(* The steps of drop(), which no call takes.                               *)

\* A step that leaves the calls and their transactions alone, and what those have
\* written too, leaves them as disciplined as they were, and what they know as true.
LEMMA OutsideKeeps ==
    ASSUME EffectsInv, UNCHANGED <<callVars, phase, view, wrote, late>>,
           db' \in Stores, stale' \in [Calls -> SUBSET Keys], faults' \in 0 .. MaxFaults,
           \A c \in Calls : \A k \in wrote[c] : db'[k] = db[k]
    PROVE  SessionInv' /\ EffectInv'
<1>1. SessionInv'
  <2>1. TypeOK'
    BY DEF EffectsInv, SessionInv, TypeInv, TypeOK, CallsTypeOK, ServerTypeOK, callVars
  <2>2. OperationsOK'
    BY DEF EffectsInv, SessionInv, TypeInv, OperationsOK, Justified, StageOps, UpdatePatch, callVars
  <2>3. ASSUME NEW d \in Calls PROVE Disciplined(d)'
    <3>1. Untouched(d)
      BY DEF Untouched, callVars
    <3> QED  BY <3>1, UntouchedStays DEF EffectsInv, SessionInv
  <2> QED  BY <2>1, <2>2, <2>3 DEF SessionInv, TypeInv
<1>2. ASSUME NEW d \in Calls PROVE Effective(d)' /\ ListFirst(d)'
  <2>1. req' = req /\ ids' = ids /\ reqs' = reqs /\ resps' = resps /\ late' = late /\ wrote' = wrote
        /\ stage' = stage /\ todo' = todo /\ body' = body /\ pending' = pending /\ missed' = missed
    BY DEF callVars
  <2>2. Frozen(d)
    BY DEF Frozen, Active
  <2>3. Acknowledged(d)' = Acknowledged(d) /\ CommitSent(d)' = CommitSent(d)
    BY <2>1 DEF Acknowledged, Passed, CommitSent, Plan, PartUpdates, Parts
  <2>4. Knows(d)
    BY <2>1, <2>3 DEF Knows
  <2>5. Hears(d)
    BY <2>1, <2>3 DEF Hears
  <2>6. ListFirst(d)'
    BY <2>1 DEF EffectsInv, EffectInv, ListFirst
  <2> QED  BY <2>1, <2>2, <2>4, <2>5, <2>6, WrittenStays, EffectsStay, ReadsStay DEF Effective
<1> QED  BY <1>1, <1>2 DEF EffectInv

\* What a deleteMany removes: an index entry goes with its credential.
LEMMA WipeFacts ==
    ASSUME TypeInv, IndexOK(db), NEW kind \in Kinds, Wipe(kind)
    PROVE  \E gone \in SUBSET Keys :
             /\ \A c \in Calls : wrote[c] \cap gone = {}
             /\ \A k \in Keys : db'[k] = IF k \in gone THEN NoDoc ELSE db[k]
             /\ db' \in Stores /\ IndexOK(db')
             /\ stale' = [c \in Calls |-> IF phase[c] = "open" THEN stale[c] \cup gone ELSE stale[c]]
             /\ \A L \in gone \cap LoginKeys :
                   db[L] # NoDoc /\ CredentialKey(db[L].credential) \in gone
             /\ \A other \in Kinds, i \in Ids :
                   <<other, i>> \in gone <=> other = kind /\ db[<<kind, i>>] # NoDoc
<1> DEFINE there == {i \in Ids : db[<<kind, i>>] # NoDoc}
           gone == {<<kind, i>> : i \in there} \cup
                   UNION {LoginsOf(kind, db[<<kind, i>>]) : i \in there}
<1>1. /\ \A c \in Calls : wrote[c] \cap gone = {}
      /\ db' = [k \in Keys |-> IF k \in gone THEN NoDoc ELSE db[k]]
      /\ stale' = [c \in Calls |-> IF phase[c] = "open" THEN stale[c] \cup gone ELSE stale[c]]
  BY DEF Wipe
<1>2. \A i \in there : LoginsOf(kind, db[<<kind, i>>]) \subseteq LoginKeys
  BY LoginsFacts
<1>3. gone \subseteq Keys
  <2>1. \A i \in there : <<kind, i>> \in Keys
    BY DocumentKeys
  <2>2. LoginKeys \subseteq Keys
    BY IndexKeys
  <2> QED  BY <1>2, <2>1, <2>2
<1>4. \A other \in Kinds, i \in Ids :
         <<other, i>> \in gone <=> other = kind /\ db[<<kind, i>>] # NoDoc
  <2>1. \A other \in Kinds, i \in Ids : <<other, i>> \notin LoginKeys
    BY DocumentKeys, KeysApart
  <2> QED  BY <1>2, <2>1
<1>5. ASSUME NEW L \in gone \cap LoginKeys
      PROVE  /\ kind = "credential" /\ db[L] # NoDoc
             /\ CredentialKey(db[L].credential) \in gone
  <2>1. \A i \in there : <<kind, i>> \notin LoginKeys
    BY DocumentKeys, KeysApart
  <2>2. PICK i \in there : L \in LoginsOf(kind, db[<<kind, i>>])
    BY <2>1
  <2>3. kind = "credential" /\ db[L] = [credential |-> i]
    BY <2>2, OwnedEntries
  <2>4. [credential |-> i] # NoDoc
    BY StoreAssumption DEF Docs, LoginEntries
  <2>5. CredentialKey(i) \in gone
    BY <2>3, <2>2 DEF CredentialKey
  <2> QED  BY <2>3, <2>4, <2>5
<1>6. \A v \in Values : kind = "credential" /\ db[LoginKey(v)] # NoDoc => LoginKey(v) \in gone
  <2> SUFFICES ASSUME NEW v \in Values, kind = "credential", db[LoginKey(v)] # NoDoc
               PROVE  LoginKey(v) \in gone
    OBVIOUS
  <2> DEFINE i == db[LoginKey(v)].credential
  <2>1. i \in Ids
    BY IndexKeys, EntryType DEF TypeInv, TypeOK, ServerTypeOK
  <2>2. db[CredentialKey(i)] # NoDoc /\ db[CredentialKey(i)].fields["login"] = v
    BY DEF IndexOK
  <2> HIDE DEF i
  <2>3. i \in there /\ LoginKey(v) \in LoginsOf(kind, db[<<kind, i>>])
    BY <2>1, <2>2, LoginsFacts DEF CredentialKey
  <2> QED  BY <2>3
<1> HIDE DEF gone, there
<1>7. \A k \in Keys : db'[k] = IF k \in gone THEN NoDoc ELSE db[k]
  BY <1>1
<1>8. db' \in Stores
  <2>1. db \in Stores
    BY DEF TypeInv, TypeOK, ServerTypeOK
  <2>2. db' \in [Keys -> Docs \cup {NoDoc}]
    BY <1>1, <2>1 DEF Stores
  <2>3. \A other \in Kinds, i \in Ids : db'[<<other, i>>] \in DocsOf(other) \cup {NoDoc}
    BY <1>7, <2>1, DocumentKeys DEF Stores
  <2>4. \A k \in LoginKeys : db'[k] \in LoginEntries \cup {NoDoc}
    BY <1>7, <2>1, IndexKeys DEF Stores
  <2> QED  BY <2>2, <2>3, <2>4 DEF Stores
<1>9. IndexOK(db')
  <2>1. /\ \A i \in Ids : CredentialKey(i) \in Keys /\ "credential" \in Kinds
        /\ \A v \in Values : LoginKey(v) \in Keys /\ LoginKey(v) \in LoginKeys
    BY IndexKeys DEF Kinds
  <2>2. CASE kind = "credential"
    <3>1. \A i \in Ids : db'[CredentialKey(i)] = NoDoc
      BY <1>4, <1>7, <2>1, <2>2 DEF CredentialKey
    <3>2. \A v \in Values : db'[LoginKey(v)] = NoDoc
      BY <1>6, <1>7, <2>1, <2>2
    <3> QED  BY <3>1, <3>2 DEF IndexOK
  <2>3. CASE kind # "credential"
    <3>1. \A i \in Ids : db'[CredentialKey(i)] = db[CredentialKey(i)]
      BY <1>4, <1>7, <2>1, <2>3 DEF CredentialKey
    <3>2. \A v \in Values : db'[LoginKey(v)] = db[LoginKey(v)]
      BY <1>5, <1>7, <2>1, <2>3
    <3>3. \A v \in Values : db[LoginKey(v)] # NoDoc => db[LoginKey(v)].credential \in Ids
      BY <2>1, EntryType DEF TypeInv, TypeOK, ServerTypeOK
    <3> QED  BY <3>1, <3>2, <3>3 DEF IndexOK
  <2> QED  BY <2>2, <2>3
<1> QED  BY <1>1, <1>3, <1>4, <1>5, <1>7, <1>8, <1>9

\* It ends no transaction, but makes stale what it removes under one.
LEMMA WipeKeeps ==
    ASSUME EffectsInv, NEW kind \in Kinds, Wipe(kind)
    PROVE  EffectsInv'
<1>1. PICK gone \in SUBSET Keys :
        /\ \A c \in Calls : wrote[c] \cap gone = {}
        /\ \A k \in Keys : db'[k] = IF k \in gone THEN NoDoc ELSE db[k]
        /\ db' \in Stores /\ IndexOK(db')
        /\ stale' = [c \in Calls |-> IF phase[c] = "open" THEN stale[c] \cup gone ELSE stale[c]]
        /\ \A L \in gone \cap LoginKeys :
              db[L] # NoDoc /\ CredentialKey(db[L].credential) \in gone
  BY WipeFacts DEF EffectsInv, SessionInv, IsolationInv
<1>2. UNCHANGED <<callVars, phase, view, wrote, late, faults>>
  BY DEF Wipe
<1>3. wrote \in [Calls -> SUBSET Keys] /\ stale \in [Calls -> SUBSET Keys] /\ faults \in 0 .. MaxFaults
  BY DEF EffectsInv, SessionInv, TypeInv, TypeOK, ServerTypeOK
<1>4. \A c \in Calls : \A k \in wrote[c] : db'[k] = db[k]
  BY <1>1, <1>3
<1>5. SessionInv' /\ EffectInv'
  <2>1. stale' \in [Calls -> SUBSET Keys]
    BY <1>1, <1>3
  <2> QED  BY <1>1, <1>2, <1>3, <1>4, <2>1, OutsideKeeps
<1>6. InsertsValid'
  BY <1>2 DEF EffectsInv, IsolationInv, InsertsValid, NewPatch, callVars
<1>7. ASSUME NEW d \in Calls PROVE Isolated(d)' /\ Indexed(d)'
  <2>1. Isolated(d) /\ Indexed(d)
    BY DEF EffectsInv, IsolationInv
  <2>2. CASE phase[d] # "open"
    BY <1>1, <1>2, <2>1, <2>2 DEF Isolated, Indexed
  <2>3. CASE phase[d] = "open"
    <3> DEFINE S == stale[d]
               v == view[d]
               W == wrote[d]
    <3>1. wrote' = wrote /\ view' = view /\ phase' = phase /\ stale'[d] = S \cup gone
      BY <1>1, <1>2, <2>3
    <3>2. /\ IndexOK(v) /\ Closed(W, db) /\ Closed(W, v) /\ Closed(S, db) /\ Closed(S, v)
          /\ \A k \in Keys \ (W \cup S) : v[k] = db[k]
          /\ W \cap S = {} /\ W \cap gone = {} /\ W \subseteq Keys
      BY <1>1, <1>3, <2>1, <2>3 DEF Isolated, Indexed
    <3> HIDE DEF S, v, W
    <3>3. LoginKeys \subseteq Keys
      BY IndexKeys
    <3>4. Closed(W, db')
      BY <1>1, <3>2, <3>3 DEF Closed
    <3>5. Closed(S \cup gone, db')
      BY <1>1, <3>2, <3>3 DEF Closed
    <3>6. Closed(S \cup gone, v)
      <4> SUFFICES ASSUME NEW L \in (S \cup gone) \cap LoginKeys, v[L] # NoDoc
                   PROVE  CredentialKey(v[L].credential) \in S \cup gone
        BY DEF Closed
      <4>1. CASE L \in S
        BY <4>1, <3>2 DEF Closed
      <4>2. CASE L \notin S
        <5>1. L \in gone /\ v[L] = db[L]
          BY <4>2, <3>2, <3>3
        <5> QED  BY <5>1, <1>1
      <4> QED  BY <4>1, <4>2
    <3>7. \A k \in Keys \ (W \cup S \cup gone) : v[k] = db'[k]
      BY <1>1, <3>2
    <3>8. W \cap (S \cup gone) = {}
      BY <3>2
    <3>9. Isolated(d)'
      BY <2>1, <2>3, <3>1, <3>7, <3>8 DEF Isolated, S, W, v
    <3>10. Indexed(d)'
      BY <2>3, <3>1, <3>2, <3>4, <3>5, <3>6 DEF Indexed, S, W, v
    <3> QED  BY <3>9, <3>10
  <2> QED  BY <2>2, <2>3
<1> QED  BY <1>1, <1>5, <1>6, <1>7 DEF EffectsInv, IsolationInv

-----------------------------------------------------------------------------
(* What a refresh restores.                                                *)

\* Two stores with the same documents, each with the index of its credentials, are
\* the same.
LEMMA IndexDetermined ==
    ASSUME NEW s \in Stores, NEW t \in Stores, IndexOK(s), IndexOK(t),
           \A kind \in Kinds, i \in Ids : s[<<kind, i>>] = t[<<kind, i>>]
    PROVE  s = t
<1>1. \A k \in DocKeys : s[k] = t[k]
  BY DocumentKeys
<1>2. ASSUME NEW v \in Values, NEW x \in Stores, NEW y \in Stores, IndexOK(x), IndexOK(y),
             \A i \in Ids : x[CredentialKey(i)] = y[CredentialKey(i)], x[LoginKey(v)] # NoDoc
      PROVE  y[LoginKey(v)] = x[LoginKey(v)]
  <2> DEFINE i == x[LoginKey(v)].credential
  <2>1. i \in Ids /\ x[LoginKey(v)] = [credential |-> i]
    BY <1>2, IndexKeys, EntryType
  <2>2. x[CredentialKey(i)] # NoDoc /\ x[CredentialKey(i)].fields["login"] = v
    BY <1>2 DEF IndexOK
  <2> HIDE DEF i
  <2>3. y[CredentialKey(i)] # NoDoc /\ y[CredentialKey(i)].fields["login"] = v
    BY <1>2, <2>1, <2>2
  <2> QED  BY <1>2, <2>1, <2>3 DEF IndexOK
<1>3. \A i \in Ids : s[CredentialKey(i)] = t[CredentialKey(i)]
  BY DEF CredentialKey, Kinds
<1>4. \A v \in Values : s[LoginKey(v)] = t[LoginKey(v)]
  BY <1>2, <1>3
<1>5. \A k \in LoginKeys : s[k] = t[k]
  BY <1>4, IndexKeys
<1>6. \A k \in Keys : s[k] = t[k]
  BY <1>1, <1>5 DEF Keys
<1> QED  BY <1>6 DEF Stores

\* A call that has begun has a session, and one that has committed has begun.
LEMMA CommittedBegan ==
    ASSUME SessionInv, NEW c \in Calls, stage[c] = "new"
    PROVE  phase[c] = "none"
  BY DEF SessionInv, Disciplined, EndOK, PhaseOK

\* While nobody gives anything up only the run under way commits.
LEMMA OnlyRunMerges ==
    ASSUME EffectsInv, RestoreInv, NEW c \in run, late = {}, NEW e \in Calls, CommitSent(e)
    PROVE  e = c /\ stage[e] = "committing"
<1>1. stage[e] = "committing"
  BY DEF CommitSent, EffectsInv, SessionInv, Disciplined, CommitOK
<1>2. e \in run
  BY <1>1 DEF RestoreInv, Orphan
<1> QED  BY <1>1, <1>2 DEF RestoreInv

\* A seed into a store without documents leaves the seeded store.
LEMMA SeedRestores ==
    ASSUME EffectsInv, EffectsInv', [Next]_vars, NEW c \in Calls, Merges(c), CommitSent(c),
           \A kind \in Kinds, i \in Ids : db[<<kind, i>>] = NoDoc
    PROVE  db' = SeededStore
<1>1. req[c].op = "seed"
  <2>1. SeedRequest.op = "seed"
    BY DEF SeedRequest
  <2> QED  BY <2>1, OnlySeeds DEF EffectsInv, SessionInv
<1>2. Active(c)
  BY MergeFacts
<1>3. phase[c] = "open"
  <2>1. \A op \in Plan(c) : HasEffect(c, op)
    BY <1>2, PlanDone
  <2>2. <<"insert", "account">> \in Plan(c)
    BY <1>1 DEF Plan, AccountSave
  <2> QED  BY <2>1, <2>2, Unstarted
<1>4. phase'[c] = "committed"
  BY DEF Merges, Finish, EffectsInv, SessionInv, TypeInv, TypeOK, ServerTypeOK
<1>5. Commits(c)
  BY <1>3, <1>4 DEF Commits
<1>6. \A kind \in Kinds, i \in Ids : db'[<<kind, i>>] = SeededStore[<<kind, i>>]
  <2> SUFFICES ASSUME NEW kind \in Kinds, NEW i \in Ids
               PROVE  db'[<<kind, i>>] = SeededStore[<<kind, i>>]
    OBVIOUS
  <2>1. IF i = 0 THEN db[<<kind, i>>] = NoDoc /\ db'[<<kind, i>>] = SeededStore[<<kind, i>>]
        ELSE db'[<<kind, i>>] = db[<<kind, i>>]
    BY <1>1, <1>5, SeedLeaves
  <2> QED  BY <2>1, SeededDocs
<1>7. db' \in Stores /\ IndexOK(db')
  BY DEF EffectsInv, SessionInv, TypeInv, TypeOK, ServerTypeOK, IsolationInv
<1> QED  BY <1>6, <1>7, IndexDetermined, SeededType, DeployedIndex

\* The faults are counted, and while none is nothing is given up.
LEMMA FaultsGrow ==
    ASSUME TypeInv, [Next]_vars
    PROVE  faults' >= faults
<1>1. faults \in Nat
  BY ServerAssumption DEF TypeInv, TypeOK, ServerTypeOK
<1>2. CASE faults' = faults \/ faults' = faults + 1
  BY <1>1, <1>2
<1>3. ASSUME NEW c \in Calls, Serve(c) PROVE faults' = faults
  BY <1>3 DEF Serve, ServeWrite, ServeRead, ServeStranger, ServeCommit, ServeAbort, ServePlain, Continue
<1>4. ASSUME NEW c \in Calls, Step(c) \/ Reap(c) PROVE faults' = faults \/ faults' = faults + 1
  BY <1>4 DEF Step, Reap, serverVars
<1>5. CASE Tick \/ Fault \/ Quiet \/ UNCHANGED vars
  BY <1>5, <1>2 DEF Tick, Fault, GiveUp, Vanish, LoseReply, Crash, Quiet, vars, serverVars
<1> QED  BY <1>2, <1>3, <1>4, <1>5 DEF Next

LEMMA NothingLate ==
    ASSUME SessionInv, [Next]_vars, late = {}, faults' = faults
    PROVE  late' = {}
<1>1. faults \in Nat
  BY ServerAssumption DEF SessionInv, TypeInv, TypeOK, ServerTypeOK
<1>2. ASSUME NEW c \in Calls, Serve(c) PROVE late' = {}
  <2>1. \A m, result, docs : Answer(m, result, docs) => late' \subseteq late
    BY DEF Answer
  <2> QED  BY <1>2, <2>1 DEF Serve, ServeWrite, ServeRead, ServeStranger, ServeCommit, ServeAbort,
           ServePlain
<1>3. ASSUME NEW c \in Calls, Step(c) \/ Reap(c) PROVE late' = {}
  BY <1>3 DEF Step, Reap, serverVars
<1>4. ~Fault
  BY <1>1 DEF Fault, GiveUp, Vanish, LoseReply, Crash
<1>5. CASE Tick \/ Quiet \/ UNCHANGED vars
  BY <1>5 DEF Tick, Quiet, vars, serverVars
<1> QED  BY <1>2, <1>3, <1>4, <1>5 DEF Next

\* A step that leaves the variables of the service alone.
LEMMA VarsKeep ==
    ASSUME EffectsInv, UNCHANGED vars
    PROVE  EffectsInv'
  BY SessionNext, IsolationNext, EffectiveStays, ListFirstStays DEF EffectsInv, EffectInv

\* The run under way, in a step of its own or of what an earlier one has left.
LEMMA SeedingRestores ==
    ASSUME SeederInv, EffectsInv', Seeding, NEW c \in run, full, faults' = since
    PROVE  Restoring(c)'
<1> USE DEF SeederInv
<1>1. c \in Calls /\ run = {c} /\ since \in 0 .. faults /\ SessionInv /\ SessionInv' /\ [Next]_vars
  BY DEF RestoreInv, EffectsInv, Seeding
<1>2. phase \in [Calls -> {"none", "open", "committed", "aborted"}]
      /\ faults \in Nat /\ faults' \in Nat
  BY <1>1, ServerAssumption DEF SessionInv, TypeInv, TypeOK, ServerTypeOK
<1>3. faults' = faults
  BY <1>1, <1>2, FaultsGrow DEF SessionInv
<1>4. Restoring(c)
  BY <1>3 DEF RestoreInv
<1>5. late = {} /\ late' = {}
  <2>1. late = {}
    BY <1>4 DEF Restoring
  <2> QED  BY <1>1, <1>3, <2>1, NothingLate
<1>6. UNCHANGED <<dropping, waiting>> /\ dropping \subseteq waiting
  BY <1>4 DEF Seeding, refreshVars, Restoring
<1>7. stage'[c] # "new" => waiting = {}
  BY <1>1, <1>4 DEF Seeding, Restoring
<1>8. \A e \in Calls : Merges(e) /\ CommitSent(e) => e = c /\ stage[c] = "committing"
  BY <1>5, OnlyRunMerges
<1>9. CASE phase[c] = "committed"
  <2>1. phase'[c] = "committed" /\ db' = db
    BY <1>1, <1>8, <1>9, CommittedStays
  <2>2. db = SeededStore /\ Reported(c)
    BY <1>4, <1>9 DEF Restoring
  <2>3. Reported(c)'
    BY <1>1, <1>3, <1>5, <2>1, <2>2, ReportedStays
  <2> QED  BY <1>5, <1>6, <1>7, <2>1, <2>2, <2>3 DEF Restoring
<1>10. CASE phase[c] # "committed" /\ phase'[c] = "committed"
  <2>1. Merges(c) /\ CommitSent(c)
    BY <1>1, <1>8, <1>10, CommittedStays
  <2>2. dropping = {}
    BY <1>1, <1>4, <1>6, <1>8, <2>1 DEF Restoring
  <2>3. \A kind \in Kinds, i \in Ids : db[<<kind, i>>] = NoDoc
    BY <1>4, <1>10, <2>2 DEF Restoring
  <2>4. db' = SeededStore
    BY <1>1, <2>1, <2>3, SeedRestores
  <2>5. Reported(c)'
    BY <1>1, <1>3, <1>5, <1>10, ReportedStays
  <2> QED  BY <1>5, <1>6, <1>7, <1>10, <2>4, <2>5 DEF Restoring
<1>11. CASE phase[c] # "committed" /\ phase'[c] # "committed"
  <2>1. db' = db
    BY <1>1, <1>8, <1>11, CommittedStays
  <2> QED  BY <1>4, <1>5, <1>6, <1>7, <1>11, <2>1 DEF Restoring
<1> QED  BY <1>9, <1>10, <1>11

\* A run begins to drop; it has no transaction yet.
LEMMA StartKeeps ==
    ASSUME SeederInv, NEW c \in Calls, Start(c)
    PROVE  SeederInv'
<1> USE DEF SeederInv
<1>1. EffectsInv'
  BY VarsKeep DEF Start
<1>2. /\ stage[c] = "new" /\ late = {} /\ run' = {c} /\ since' = faults
      /\ dropping' = (IF full' THEN Kinds ELSE {}) /\ waiting' = dropping'
      /\ UNCHANGED <<stage, code, phase, db, late, faults>> /\ \A d \in run : Orphan(d)
  BY DEF Start, Wiped, vars, callVars, serverVars
<1>3. phase[c] = "none"
  BY <1>2, CommittedBegan DEF EffectsInv
<1>4. faults \in Nat
  BY ServerAssumption DEF EffectsInv, SessionInv, TypeInv, TypeOK, ServerTypeOK
<1>5. full' => Restoring(c)'
  BY <1>2, <1>3 DEF Restoring
<1>6. \A d \in Calls \ run' : stage'[d] = "new" \/ Orphan(d)'
  BY <1>2 DEF RestoreInv, Orphan
<1>7. since' \in 0 .. faults' /\ run' \subseteq Calls
  BY <1>2, <1>4
<1> QED  BY <1>1, <1>2, <1>5, <1>6, <1>7 DEF RestoreInv

\* A collection is emptied.
LEMMA WipeRestores ==
    ASSUME SeederInv, NEW kind \in Kinds, Wipe(kind)
    PROVE  SeederInv'
<1> USE DEF SeederInv
<1>1. EffectsInv'
  BY WipeKeeps
<1>2. /\ UNCHANGED <<stage, code, phase, late, faults, reqs, resps, run, full, waiting, since>>
      /\ kind \in dropping /\ dropping' = dropping \ {kind}
  BY DEF Wipe, callVars
<1>3. /\ \A i \in Ids : db'[<<kind, i>>] = NoDoc
      /\ \A other \in Kinds, i \in Ids : db[<<other, i>>] = NoDoc => db'[<<other, i>>] = NoDoc
  BY WipeFacts, DocumentKeys DEF EffectsInv, SessionInv, IsolationInv
<1>4. ASSUME NEW c \in run, full, faults = since PROVE Restoring(c)'
  <2>1. Restoring(c) /\ c \in Calls
    BY <1>4 DEF RestoreInv
  <2>2. stage[c] = "new"
    BY <1>2, <2>1 DEF Restoring
  <2>3. phase[c] = "none"
    BY <2>1, <2>2, CommittedBegan DEF EffectsInv
  <2> QED  BY <1>2, <1>3, <2>1, <2>2, <2>3 DEF Restoring
<1>5. \A d \in Calls \ run : stage'[d] = "new" \/ Orphan(d)'
  BY <1>2 DEF RestoreInv, Orphan
<1> QED  BY <1>1, <1>2, <1>4, <1>5 DEF RestoreInv

\* The promise of a deleteMany settles, at the price of a fault if it did not run.
LEMMA SettledRestores ==
    ASSUME SeederInv, NEW kind \in Kinds, WipeSettled(kind)
    PROVE  SeederInv'
<1> USE DEF SeederInv
<1>1. /\ UNCHANGED <<callVars, db, txnVars, late, run, full, dropping, since>>
      /\ waiting' = waiting \ {kind}
      /\ \/ kind \notin dropping /\ faults' = faults
         \/ faults < MaxFaults /\ faults' = faults + 1
  BY DEF WipeSettled
<1>2. faults \in 0 .. MaxFaults /\ MaxFaults \in Nat /\ since \in 0 .. faults
  BY ServerAssumption DEF EffectsInv, SessionInv, TypeInv, TypeOK, ServerTypeOK, RestoreInv
<1>3. faults' \in 0 .. MaxFaults /\ since \in 0 .. faults' /\ (faults' = since => faults' = faults)
  BY <1>1, <1>2
<1>4. EffectsInv'
  <2>1. SessionInv' /\ EffectInv'
    <3>1. db \in Stores /\ stale \in [Calls -> SUBSET Keys]
      BY DEF EffectsInv, SessionInv, TypeInv, TypeOK, ServerTypeOK
    <3> QED  BY <1>1, <1>3, <3>1, OutsideKeeps DEF txnVars
  <2>2. IsolationInv'
    BY <1>1 DEF txnVars, callVars, EffectsInv, IsolationInv, InsertsValid, NewPatch, Isolated, Indexed
  <2> QED  BY <2>1, <2>2 DEF EffectsInv
<1>5. UNCHANGED <<stage, code, phase, reqs, resps>>
  BY <1>1 DEF txnVars, callVars
<1>6. ASSUME NEW c \in run, full, faults' = since PROVE Restoring(c)'
  <2>1. faults = since /\ kind \notin dropping
    BY <1>1, <1>2, <1>3, <1>6
  <2>2. Restoring(c)
    BY <1>6, <2>1 DEF RestoreInv
  <2> QED  BY <1>1, <1>5, <2>1, <2>2 DEF Restoring, Reported
<1>7. \A d \in Calls \ run : stage'[d] = "new" \/ Orphan(d)'
  BY <1>5 DEF RestoreInv, Orphan
<1> QED  BY <1>1, <1>3, <1>4, <1>5, <1>6, <1>7 DEF RestoreInv

\* One that was given up is forgotten: something had failed before.
LEMMA LostRestores ==
    ASSUME SeederInv, NEW kind \in Kinds, WipeLost(kind)
    PROVE  SeederInv'
<1> USE DEF SeederInv
<1>1. EffectsInv'
  BY VarsKeep DEF WipeLost
<1>2. /\ UNCHANGED <<stage, code, phase, faults, run, full, since>>
      /\ kind \in dropping \ waiting
  BY DEF WipeLost, vars, callVars, serverVars
<1>3. \A c \in run : ~(full /\ faults = since)
  BY <1>2 DEF RestoreInv, Restoring
<1>4. \A d \in Calls \ run : stage'[d] = "new" \/ Orphan(d)'
  BY <1>2 DEF RestoreInv, Orphan
<1> QED  BY <1>1, <1>2, <1>3, <1>4 DEF RestoreInv

\* A step of the program and of the server.
LEMMA SeedingKeeps ==
    ASSUME SeederInv, Seeding
    PROVE  SeederInv'
<1> USE DEF SeederInv
<1>1. [Next]_vars /\ SessionInv
  BY DEF Seeding, EffectsInv
<1>2. EffectsInv'
  BY <1>1, SessionNext, IsolationNext, EffectiveStays, ListFirstStays DEF EffectsInv, EffectInv
<1>3. UNCHANGED <<run, full, since>>
  BY DEF Seeding, refreshVars
<1>4. \A c \in Calls : code'[c] = "OK" => stage'[c] = "answered"
  BY <1>1, OkStays DEF RestoreInv
<1>5. \A c \in Calls \ run : stage'[c] = "new" \/ Orphan(c)'
  BY <1>1, OrphanStays DEF RestoreInv, Seeding
<1>6. since \in 0 .. faults'
  <2>1. faults \in Nat /\ faults' \in Nat /\ since \in 0 .. faults
    BY <1>1, <1>2, ServerAssumption
    DEF EffectsInv, SessionInv, TypeInv, TypeOK, ServerTypeOK, RestoreInv
  <2> QED  BY <1>1, <2>1, FaultsGrow DEF SessionInv
<1>7. ASSUME NEW c \in run, full, faults' = since PROVE Restoring(c)'
  BY <1>2, <1>7, SeedingRestores
<1> QED  BY <1>2, <1>3, <1>4, <1>5, <1>6, <1>7 DEF RestoreInv

\* Whatever the runs, the faults and the store to start from.
LEMMA SeederCorrect == RefreshSpec => []SeederInv
<1>1. RefreshInit => SeederInv
  <2> SUFFICES ASSUME RefreshInit PROVE SeederInv
    OBVIOUS
  <2>1. EffectsInv
    BY SessionInit, IsolationInit, EffectInit DEF RefreshInit, EffectsInv
  <2>2. RestoreInv
    <3>1. since = 0 /\ faults = 0
      BY DEF RefreshInit, Init, ServerInit
    <3>2. since \in 0 .. faults
      BY <3>1
    <3>3. run = {} /\ \A c \in Calls : code[c] = "" /\ stage[c] = "new"
      BY DEF RefreshInit, Init, CallsInit
    <3> QED  BY <3>2, <3>3 DEF RestoreInv
  <2> QED  BY <2>1, <2>2 DEF SeederInv
<1>2. SeederInv /\ [RefreshNext]_seederVars => SeederInv'
  <2> SUFFICES ASSUME SeederInv, [RefreshNext]_seederVars PROVE SeederInv'
    OBVIOUS
  <2>1. CASE UNCHANGED seederVars
    <3>1. EffectsInv'
      BY <2>1, VarsKeep DEF seederVars, SeederInv
    <3>2. RestoreInv'
      BY <2>1 DEF seederVars, refreshVars, vars, callVars, serverVars, SeederInv, RestoreInv,
         Restoring, Reported, Orphan
    <3> QED  BY <3>1, <3>2 DEF SeederInv
  <2> QED  BY <2>1, StartKeeps, WipeRestores, SettledRestores, LostRestores, SeedingKeeps
           DEF RefreshNext
<1> QED  BY <1>1, <1>2, PTL DEF RefreshSpec

\* Runs of the seeder follow one another: what a refresh without a failure has dropped
\* stays away until its own commit, which is reported as one.
THEOREM RestoreInvHolds == RefreshSpec => []RestoreInv
  BY SeederCorrect, PTL DEF SeederInv

\* A refresh during which nothing fails leaves the seeded account and nothing else, or
\* nothing at all if its seed was not committed, whatever earlier runs, partial drops
\* and late commands have left behind.
THEOREM RefreshRestoresHolds == RefreshSpec => []RefreshRestores
<1>1. SeederInv => RefreshRestores
  <2> SUFFICES ASSUME SeederInv, NEW c \in run, full, faults = since, Orphan(c)
               PROVE  db = IF code[c] = "OK" THEN SeededStore ELSE EmptyStore
    BY DEF RefreshRestores
  <2> USE DEF SeederInv
  <2>1. c \in Calls /\ Restoring(c) /\ Disciplined(c) /\ TypeInv
    BY DEF RestoreInv, EffectsInv, SessionInv
  <2>2. stage[c] # "new" /\ dropping = {}
    BY <2>1 DEF Orphan, Restoring
  <2>3. CASE phase[c] = "committed"
    <3>1. db = SeededStore /\ stage[c] = "answered"
      BY <2>1, <2>3 DEF Restoring, Reported, Orphan
    <3>2. tstate[c] = "committed"
      BY <2>1, <2>3, <3>1 DEF Disciplined, PhaseOK, Decided
    <3> QED  BY <2>1, <3>1, <3>2 DEF Disciplined, EndOK
  <2>4. CASE phase[c] # "committed"
    <3>1. \A kind \in Kinds, i \in Ids : db[<<kind, i>>] = NoDoc
      BY <2>1, <2>2, <2>4 DEF Restoring
    <3>2. \A kind \in Kinds, i \in Ids : EmptyStore[<<kind, i>>] = NoDoc
      BY DocumentKeys DEF EmptyStore
    <3>3. db = EmptyStore
      BY <2>1, <3>1, <3>2, IndexDetermined, EmptyTypes, DeployedIndex
      DEF EffectsInv, IsolationInv, TypeInv, TypeOK, ServerTypeOK
    <3>4. req[c].op # "update"
      <4>1. SeedRequest.op # "update"
        BY DEF SeedRequest
      <4> QED  BY <2>1, <4>1, OnlySeeds
    <3>5. code[c] # "OK"
      BY <2>1, <2>4, <3>4 DEF RestoreInv, Disciplined, PhaseOK
    <3> QED  BY <3>3, <3>5
  <2> QED  BY <2>3, <2>4
<1> QED  BY <1>1, SeederCorrect, PTL
=============================================================================
