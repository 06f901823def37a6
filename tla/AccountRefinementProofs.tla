----------------------- MODULE AccountRefinementProofs -----------------------
(***************************************************************************)
(* What those who call the service, and those who run it, can rely on:     *)
(* which transactions can be left open, that a request takes effect once,  *)
(* and that the service is the registry of whole accounts it claims to be. *)
(***************************************************************************)
EXTENDS AccountRefinement, AccountIntegrityProofs

-----------------------------------------------------------------------------
(* UpdateOne updates the parts of its request.                             *)

\* The operations a handler comes to hold or await, but for the updates that an
\* UpdateOne begins with, are no updates.
LEMMA UpdatesCreated ==
    ASSUME SessionInv, NEW c \in Calls, Handle(c), NEW k \in ChildKinds,
           <<"update", k>> \in todo'[c] \cup pending'[c]
    PROVE  <<"update", k>> \in todo[c] \cup pending[c] \/ k \in Parts(c)
<1> USE DEF SessionInv, TypeInv, TypeOK, CallsTypeOK
<1>1. \A ops \in {ChildSaves, AccountSave, ParentLinks, AccountRead, AccountFind, Populates,
                  AccountList, Deletes} : <<"update", k>> \notin ops
  BY DEF ChildSaves, AccountSave, ParentLinks, AccountRead, AccountFind, Populates,
     AccountList, Deletes
<1>2. CASE CreateBegin(c) \/ SeedBegin(c) \/ DeleteBegin(c)
  BY <1>1, <1>2 DEF CreateBegin, SeedBegin, DeleteBegin
<1>3. CASE UpdateBegin(c)
  BY <1>1, <1>3 DEF UpdateBegin, Proceed, PartUpdates
<1>4. CASE ChildSaved(c) \/ SeedSaved(c) \/ AccountSaved(c) \/ ParentLinked(c)
           \/ Found(c) \/ Listed(c) \/ PartSet(c)
  <2>1. todo' = todo
    BY <1>4 DEF ChildSaved, SeedSaved, AccountSaved, ParentLinked, Found, Listed, PartSet
  <2>2. \/ pending' = pending
        \/ \E ops \in {AccountSave, ParentLinks, AccountRead, AccountFind, Populates, Deletes} :
              pending' = [pending EXCEPT ![c] = ops]
        \/ \E op : pending' = [pending EXCEPT ![c] = @ \ {op}]
    <3>1. CASE ChildSaved(c)
      BY <3>1 DEF ChildSaved, Proceed
    <3>2. CASE SeedSaved(c)
      BY <3>2 DEF SeedSaved, Proceed
    <3>3. CASE AccountSaved(c) \/ Found(c) \/ Listed(c)
      BY <3>3 DEF AccountSaved, Found, Listed, Proceed
    <3>4. CASE ParentLinked(c)
      BY <3>4 DEF ParentLinked, Proceed
    <3>5. CASE PartSet(c)
      BY <3>5 DEF PartSet, Proceed
    <3> QED  BY <1>4, <3>1, <3>2, <3>3, <3>4, <3>5
  <2>3. CASE pending' = pending
    BY <2>1, <2>3
  <2>4. ASSUME NEW ops \in {AccountSave, ParentLinks, AccountRead, AccountFind, Populates, Deletes},
               pending' = [pending EXCEPT ![c] = ops]
        PROVE  <<"update", k>> \in todo[c]
    BY <1>1, <2>1, <2>4
  <2>5. ASSUME NEW op, pending' = [pending EXCEPT ![c] = @ \ {op}]
        PROVE  <<"update", k>> \in todo[c] \cup pending[c]
    BY <2>1, <2>5
  <2> QED  BY <2>2, <2>3, <2>4, <2>5
<1>5. CASE Aggregated(c) \/ SeedLinked(c) \/ Populated(c) \/ Deleted(c)
  BY <1>5 DEF Aggregated, SeedLinked, Populated, Deleted
<1>6. CASE \/ ChildRejected(c) \/ StepRejected(c) \/ SeedRejected(c) \/ PartRejected(c)
           \/ NotFound(c) \/ ListRejected(c) \/ DeleteRejected(c)
           \/ ChildDuplicate(c) \/ ChildAbortDone(c)
  BY <1>6 DEF ChildRejected, StepRejected, SeedRejected, PartRejected, NotFound,
     ListRejected, DeleteRejected, ChildDuplicate, ChildAbortDone
<1>7. CASE NotConnected(c) \/ DeleteInvalid(c) \/ AbortDone(c) \/ Committed(c) \/ CommitFailed(c)
  BY <1>7 DEF NotConnected, DeleteInvalid, AbortDone, Committed, CommitFailed, Refuse
<1>8. CASE Dispatch(c)
  <2>1. (\E op : todo' = [todo EXCEPT ![c] = @ \ {op}]) /\ pending' = pending
    BY <1>8 DEF Dispatch
  <2> QED  BY <2>1
<1>9. CASE UpdateThrows(c) \/ UpdateUnasked(c) \/ DeleteThrows(c)
  BY <1>9, OmittedFacts
<1> QED  BY <1>2, <1>3, <1>4, <1>5, <1>6, <1>7, <1>8, <1>9
            DEF Handle, Create, SeedAccount, UpdateOne, DeleteOne

\* Nobody else creates an operation, or makes a handler await one.
LEMMA OthersCreateNothing ==
    ASSUME SessionInv, [Next]_vars, \A c \in Calls : ~Step(c), NEW d \in Calls
    PROVE  todo'[d] \subseteq todo[d] /\ pending' = pending
<1>1. ASSUME NEW c \in Calls, Serve(c) PROVE todo' = todo /\ pending' = pending
  <2>1. ASSUME NEW m, NEW result, NEW docs, Answer(m, result, docs)
        PROVE  todo' = todo /\ pending' = pending
    BY <2>1 DEF Answer
  <2> QED  BY <1>1, <2>1 DEF Serve, ServeWrite, ServeRead, ServeStranger, ServeCommit,
             ServeAbort, ServePlain
<1>2. ASSUME NEW c \in Calls, Reap(c) PROVE todo' = todo /\ pending' = pending
  BY <1>2 DEF Reap, callVars
<1>3. CASE Fault
  BY <1>3 DEF Fault, GiveUp, Vanish, LoseReply, Crash, callVars,
     SessionInv, TypeInv, TypeOK, CallsTypeOK
<1>4. CASE Tick \/ Quiet \/ UNCHANGED vars
  BY <1>4 DEF Tick, Quiet, vars, callVars
<1> QED  BY <1>1, <1>2, <1>3, <1>4 DEF Next

\* A handler starts its transaction, or has it started, with an operation created ahead.
LEMMA StartsByTodo ==
    ASSUME SessionInv, NEW c \in Calls, Handle(c), tstate'[c] = "inProgress"
    PROVE  tstate[c] = "inProgress" \/ todo[c] # {}
<1>0. tstate \in [Calls -> TStates]
  BY DEF SessionInv, TypeInv, TypeOK, CallsTypeOK
<1>1. ASSUME NEW status, Abandon(c, status) PROVE tstate[c] = "inProgress"
  BY <1>0, <1>1 DEF Abandon
<1>2. CASE tstate' = tstate
  BY <1>2
<1>3. ASSUME NEW s \in {"starting", "aborted", "committed"}, tstate' = [tstate EXCEPT ![c] = s]
      PROVE  FALSE
  BY <1>0, <1>3
<1>5. CASE Commit(c)
  BY <1>2, <1>3, <1>5 DEF Commit
<1>6. CASE Create(c) \/ SeedAccount(c)
  <2>1. ~CreateBegin(c) /\ ~SeedBegin(c) /\ ~ChildAbortDone(c)
    BY <1>3 DEF CreateBegin, SeedBegin, ChildAbortDone
  <2>2. CASE ChildSaved(c) \/ ChildDuplicate(c) \/ AccountSaved(c) \/ ParentLinked(c) \/ SeedSaved(c)
    BY <1>2, <2>2 DEF ChildSaved, ChildDuplicate, AccountSaved, ParentLinked, SeedSaved
  <2>3. CASE ChildRejected(c) \/ StepRejected(c) \/ SeedRejected(c) \/ Aggregated(c) \/ SeedLinked(c)
    BY <1>1, <1>2, <1>5, <2>3 DEF ChildRejected, StepRejected, SeedRejected, Aggregated, SeedLinked
  <2> QED  BY <1>6, <2>1, <2>2, <2>3 DEF Create, SeedAccount
<1>7. CASE UpdateOne(c) \/ DeleteOne(c)
  <2>1. ~UpdateBegin(c) /\ ~DeleteBegin(c)
    BY <1>3 DEF UpdateBegin, DeleteBegin
  <2>2. CASE Found(c) \/ Listed(c) \/ DeleteInvalid(c)
    BY <1>2, <2>2 DEF Found, Listed, DeleteInvalid, Refuse
  <2>3. CASE PartRejected(c) \/ NotFound(c) \/ ListRejected(c) \/ DeleteRejected(c)
    BY <1>1, <2>3 DEF PartRejected, NotFound, ListRejected, DeleteRejected
  <2>4. CASE PartSet(c) \/ Populated(c) \/ Deleted(c)
    BY <1>1, <1>2, <1>5, <2>4 DEF PartSet, Populated, Deleted
  <2>5. CASE UpdateThrows(c) \/ UpdateUnasked(c) \/ DeleteThrows(c)
    BY <1>2, <1>3, <2>5, OmittedFacts
  <2> QED  BY <1>7, <2>1, <2>2, <2>3, <2>4, <2>5 DEF UpdateOne, DeleteOne
<1>8. CASE NotConnected(c) \/ AbortDone(c) \/ Committed(c) \/ CommitFailed(c)
  BY <1>2, <1>3, <1>8 DEF NotConnected, Refuse, AbortDone, Committed, CommitFailed
<1>9. CASE Dispatch(c)
  BY <1>9 DEF Dispatch
<1> QED  BY <1>6, <1>7, <1>8, <1>9 DEF Handle

\* An operation created ahead for an UpdateOne is an update of one of its parts.
LEMMA TodoOfUpdate ==
    ASSUME SessionInv, PartsOnly, NEW c \in Calls, req[c].op = "update", NEW op \in todo[c]
    PROVE  op[1] = "update" /\ op[2] \in Parts(c)
<1>1. /\ op \in ChildSaves \cup ({"update"} \X ChildKinds) \cup AccountList
      /\ Justified(c, op)
  BY DEF SessionInv, Disciplined, Once, TypeInv, OperationsOK
<1>2. op \notin ChildSaves \cup AccountList
  BY <1>1 DEF Justified, ChildSaves, AccountSave, ParentLinks, AccountRead, AccountFind,
           Populates, AccountList, Deletes
<1>3. PICK k \in ChildKinds : op = <<"update", k>>
  BY <1>1, <1>2
<1>4. k \in Parts(c)
  BY <1>3 DEF PartsOnly
<1> QED  BY <1>3, <1>4

\* A commit or an abort is sent inside a transaction.
LEMMA EndsSent ==
    ASSUME SessionInv, NEW c \in Calls, Handle(c), NEW m \in reqs' \ reqs,
           m.verb \in {"commit", "abort"}
    PROVE  tstate[c] = "inProgress"
<1>1. tstate[c] \in TStates
  BY DEF SessionInv, TypeInv, TypeOK, CallsTypeOK
<1>2. ASSUME NEW ops \in {AccountSave, ParentLinks, AccountRead, AccountFind, Populates, Deletes},
             NEW n \in Sent(c, ops)
      PROVE  n.verb \notin {"commit", "abort"}
  BY <1>2 DEF AccountSave, ParentLinks, AccountRead, AccountFind, Populates, Deletes, Sent, Message
<1>3. ASSUME NEW next, NEW ops \in {AccountSave, ParentLinks, AccountRead, AccountFind, Populates, Deletes},
             Proceed(c, next, ops)
      PROVE  FALSE
  BY <1>2, <1>3 DEF Proceed
<1>4. ASSUME NEW status, Abandon(c, status) PROVE tstate[c] = "inProgress"
  BY <1>4 DEF Abandon
<1>5. ASSUME NEW st, NEW r, Commit(c), Awaited(c, st, r), st \in Waiting PROVE tstate[c] = "inProgress"
  <2>1. WaitOK(c) /\ stage[c] \notin Over \cup {"new"}
    BY <1>5 DEF SessionInv, Disciplined, Awaited, Waiting
  <2> QED  BY <1>5, <2>1 DEF Commit, WaitOK
<1>6. CASE Create(c) \/ SeedAccount(c)
  <2>1. reqs' # reqs
    OBVIOUS
  <2>2. CASE ChildDuplicate(c)
    BY <2>2 DEF ChildDuplicate
  <2>3. ~CreateBegin(c) /\ ~ChildAbortDone(c) /\ ~SeedBegin(c)
    BY <2>1 DEF CreateBegin, ChildAbortDone, SeedBegin
  <2>4. CASE ChildRejected(c) \/ StepRejected(c) \/ SeedRejected(c)
    BY <1>4, <2>4 DEF ChildRejected, StepRejected, SeedRejected
  <2>5. ~ChildSaved(c) /\ ~SeedSaved(c) /\ ~AccountSaved(c) /\ ~ParentLinked(c)
    BY <1>3, <2>1 DEF ChildSaved, SeedSaved, AccountSaved, ParentLinked
  <2>6. CASE Aggregated(c) \/ SeedLinked(c)
    BY <1>4, <1>5, <2>1, <2>6 DEF Aggregated, SeedLinked, Waiting, Stages, Over
  <2> QED  BY <1>6, <2>2, <2>3, <2>4, <2>5, <2>6 DEF Create, SeedAccount
<1>7. CASE UpdateOne(c) \/ DeleteOne(c)
  <2>1. reqs' # reqs
    OBVIOUS
  <2>2. ~UpdateBegin(c) /\ ~DeleteBegin(c) /\ ~DeleteInvalid(c)
    BY <1>3, <2>1 DEF UpdateBegin, DeleteBegin, DeleteInvalid, Refuse
  <2>3. CASE PartRejected(c) \/ NotFound(c) \/ ListRejected(c) \/ DeleteRejected(c)
    BY <1>4, <2>3 DEF PartRejected, NotFound, ListRejected, DeleteRejected
  <2>4. ~Found(c) /\ ~Listed(c)
    BY <1>3 DEF Found, Listed
  <2>5. CASE PartSet(c)
    BY <1>3, <1>4, <2>1, <2>5 DEF PartSet
  <2>6. CASE Populated(c) \/ Deleted(c)
    BY <1>4, <1>5, <2>1, <2>6 DEF Populated, Deleted, Waiting, Stages, Over
  <2>7. ~UpdateThrows(c) /\ ~UpdateUnasked(c) /\ ~DeleteThrows(c)
    BY <2>1, OmittedFacts
  <2> QED  BY <1>7, <2>2, <2>3, <2>4, <2>5, <2>6, <2>7 DEF UpdateOne, DeleteOne
<1>8. CASE NotConnected(c) \/ AbortDone(c) \/ Committed(c) \/ CommitFailed(c)
  BY <1>8 DEF NotConnected, Refuse, AbortDone, Committed, CommitFailed
<1>9. CASE Dispatch(c)
  <2>1. PICK op \in todo[c] : reqs' \in {reqs, reqs \cup {Message(c, op, tstate[c] = "starting")}}
    BY <1>9 DEF Dispatch
  <2>2. m.verb = op[1]
    BY <2>1 DEF Message
  <2> QED  BY <2>2 DEF SessionInv, Disciplined, Once, ChildSaves, AccountList
<1> QED  BY <1>6, <1>7, <1>8, <1>9 DEF Handle

\* An UpdateOne without parts stays without a transaction.
LEMMA PartlessStays ==
    ASSUME SessionInv, PartsOnly, [Next]_vars, NEW c \in Calls
    PROVE  Partless(c)'
<1> SUFFICES ASSUME req[c].op = "update", Parts(c) = {} PROVE Partless(c)'
  BY OthersSendNothing DEF Partless, Parts
<1>1. /\ tstate[c] # "inProgress" /\ phase[c] = "none" /\ todo[c] = {}
      /\ \A m \in reqs \cup late : m.call = c => m.verb \in PlainReads
  BY TodoOfUpdate DEF PartsOnly, Partless
<1>2. CASE Step(c)
  <2>1. Handle(c) /\ phase' = phase /\ late' = late
    BY <1>2 DEF Step, serverVars
  <2>2. tstate'[c] # "inProgress"
    BY <1>1, <2>1, StartsByTodo
  <2>3. ASSUME NEW m \in reqs' \ reqs PROVE m.verb \in PlainReads
    <3>1. m.verb \notin {"commit", "abort"}
      BY <1>1, <2>1, EndsSent
    <3> DEFINE sessions == AccountSave \cup ParentLinks \cup AccountRead \cup Deletes
    <3>2. Op(m) \in sessions \cup AccountFind \cup Populates
      BY <1>1, <2>1, <3>1, HandleSends DEF Op
    <3>3. Justified(c, Op(m))'
      <4>1. SessionInv'
        BY SessionNext
      <4>2. m \in reqs' \cup late' /\ m.call = c
        BY <2>1, HandleSends
      <4>3. \A n \in reqs' \cup late' : Justified(n.call, Op(n))'
        BY <4>1 DEF SessionInv, TypeInv, OperationsOK
      <4> QED  BY <4>2, <4>3
    <3>4. req' = req
      BY OthersSendNothing
    <3>5. Op(m) \notin sessions
      BY <3>3, <3>4 DEF Justified, ChildSaves, AccountSave, ParentLinks, AccountRead, AccountFind,
           Populates, AccountList, Deletes
    <3> QED  BY <3>2, <3>5 DEF AccountFind, Populates, Op, PlainReads
  <2> QED  BY <1>1, <2>1, <2>2, <2>3 DEF Partless
<1>3. CASE Serve(c)
  <2>1. PICK m \in reqs \cup late :
        /\ m.call = c
        /\ \/ ServeWrite(m) \/ ServeRead(m) \/ ServeStranger(m)
           \/ ServeCommit(m) \/ ServeAbort(m) \/ ServePlain(m)
    BY <1>3 DEF Serve
  <2>2. ServePlain(m)
    BY <1>1, <2>1 DEF ServeWrite, ServeRead, ServeStranger, ServeCommit, ServeAbort, PlainReads,
       Writes, SessionReads
  <2>3. phase' = phase /\ tstate' = tstate /\ reqs' \subseteq reqs /\ late' \subseteq late
    BY <2>2 DEF ServePlain, txnVars, Answer
  <2> QED  BY <1>1, <2>3 DEF Partless
<1>4. CASE \E d \in Calls \ {c} : Step(d) \/ Serve(d)
  <2>1. Untouched(c)
    BY <1>4, HandleAlone, ServeAlone DEF Step
  <2> QED  BY <1>1, <2>1 DEF Untouched, Partless
<1>5. CASE (\E d \in Calls : Reap(d)) \/ Fault \/ Tick \/ Quiet \/ UNCHANGED vars
  <2>1. tstate' = tstate /\ reqs' \cup late' \subseteq reqs \cup late
    <3>1. CASE Fault
      BY <3>1 DEF Fault, GiveUp, Vanish, LoseReply, Crash, callVars
    <3>2. CASE (\E d \in Calls : Reap(d)) \/ Tick \/ Quiet \/ UNCHANGED vars
      BY <3>2 DEF Reap, Tick, Quiet, vars, callVars, serverVars
    <3> QED  BY <1>5, <3>1, <3>2
  <2>2. phase'[c] = phase[c]
    <3>1. CASE Fault
      BY <3>1 DEF Fault, GiveUp, Vanish, LoseReply, Crash, txnVars
    <3>2. CASE \E d \in Calls : Reap(d)
      <4>1. PICK d \in Calls : phase[d] = "open" /\ phase' = [phase EXCEPT ![d] = "aborted"]
        BY <3>2 DEF Reap, Finish
      <4> QED  BY <1>1, <4>1
    <3>3. CASE Tick \/ Quiet \/ UNCHANGED vars
      BY <3>3 DEF Tick, Quiet, vars, serverVars
    <3> QED  BY <1>5, <3>1, <3>2, <3>3
  <2> QED  BY <1>1, <2>1, <2>2 DEF Partless
<1> QED  BY <1>2, <1>3, <1>4, <1>5 DEF Next

\* No step makes an UpdateOne touch a part it was not asked for.
LEMMA PartsOnlyStays == SessionInv /\ PartsOnly /\ [Next]_vars => PartsOnly'
<1> SUFFICES ASSUME SessionInv, PartsOnly, [Next]_vars PROVE PartsOnly'
  OBVIOUS
<1>1. \A d \in Calls : Parts(d)' = Parts(d)
  BY OthersSendNothing DEF Parts
<1>2. ASSUME NEW d \in Calls, NEW k \in ChildKinds, <<"update", k>> \in todo'[d] \cup pending'[d]
      PROVE  k \in Parts(d)
  <2>1. ASSUME NEW c \in Calls, Step(c) PROVE k \in Parts(d)
    <3>1. Handle(c) /\ UNCHANGED serverVars
      BY <2>1 DEF Step
    <3>2. CASE d = c
      BY <1>2, <3>1, <3>2, UpdatesCreated DEF PartsOnly
    <3>3. CASE d # c
      <4>1. Untouched(d)
        BY <3>1, <3>3, HandleAlone
      <4> QED  BY <1>2, <4>1 DEF Untouched, PartsOnly
    <3> QED  BY <3>2, <3>3
  <2>2. CASE \A c \in Calls : ~Step(c)
    BY <1>2, <2>2, OthersCreateNothing DEF PartsOnly
  <2> QED  BY <2>1, <2>2
<1>3. ASSUME NEW m \in reqs' \cup late', m.verb = "update" PROVE m.kind \in Parts(m.call)
  <2>1. CASE m \in reqs \cup late
    BY <1>3, <2>1 DEF PartsOnly
  <2>2. CASE m \notin reqs \cup late
    <3>1. PICK c \in Calls : Step(c)
      BY <2>2, OthersSendNothing
    <3>2. m \in reqs' \ reqs /\ Handle(c)
      BY <2>2, <3>1 DEF Step, serverVars
    <3>3. Op(m) = <<"update", m.kind>>
      BY <1>3 DEF Op
    <3> DEFINE others == AccountSave \cup ParentLinks \cup AccountRead \cup AccountFind
                         \cup Populates \cup Deletes \cup {<<"commit", "outer">>, <<"abort", "outer">>}
                         \cup ({"abort"} \X ChildKinds)
    <3>6. \A op \in others : op[1] # "update"
      BY DEF AccountSave, ParentLinks, AccountRead, AccountFind, Populates, Deletes
    <3>7. m.call = c /\ (Op(m) \in others \/ Op(m) \in todo[c])
      BY <3>2, HandleSends
    <3> HIDE DEF others
    <3>4. m.call = c /\ Op(m) \in todo[c]
      BY <3>3, <3>6, <3>7
    <3>5. Op(m) \in ChildSaves \cup ({"update"} \X ChildKinds) \cup AccountList
      BY <3>4 DEF SessionInv, Disciplined, Once
    <3>8. m.kind \in ChildKinds
      BY <3>3, <3>5 DEF ChildSaves, AccountList
    <3> QED  BY <3>3, <3>4, <3>8, <1>1 DEF PartsOnly
  <2> QED  BY <2>1, <2>2
<1>4. \A m \in reqs' \cup late' : m.call \in Calls
  <2>1. SessionInv'
    BY SessionNext
  <2> QED  BY <2>1 DEF SessionInv, TypeInv, TypeOK, CallsTypeOK, ServerTypeOK, Messages
<1> QED  BY <1>1, <1>2, <1>3, <1>4, PartlessStays DEF PartsOnly

-----------------------------------------------------------------------------
(* The transactions that are left open.                                    *)

\* A handler that was called moves only with an operation to send or a result to see.
LEMMA HandleNeeds ==
    ASSUME NEW c \in Calls, Handle(c)
    PROVE  stage[c] = "new" \/ todo[c] # {} \/ \E r \in resps : r.call = c
<1>1. CASE Create(c) \/ SeedAccount(c)
  BY <1>1 DEF Create, SeedAccount, CreateBegin, ChildSaved, ChildDuplicate, ChildAbortDone,
     ChildRejected, AccountSaved, ParentLinked, Aggregated, StepRejected, SeedBegin, SeedSaved,
     SeedLinked, SeedRejected, Awaited
<1>2. CASE UpdateOne(c) \/ DeleteOne(c)
  BY <1>2, OmittedFacts
  DEF UpdateOne, DeleteOne, UpdateBegin, PartSet, PartRejected, Found, NotFound, Populated,
     DeleteInvalid, DeleteBegin, Listed, ListRejected, Deleted, DeleteRejected, Awaited
<1>3. CASE NotConnected(c) \/ Dispatch(c) \/ AbortDone(c) \/ Committed(c) \/ CommitFailed(c)
  BY <1>3 DEF NotConnected, Dispatch, AbortDone, Committed, CommitFailed
<1> QED  BY <1>1, <1>2, <1>3 DEF Handle

\* Only the first operation that reaches a connection carries startTransaction.
LEMMA StartsSent ==
    ASSUME SessionInv, NEW c \in Calls, Handle(c), NEW m \in reqs' \ reqs, m.start
    PROVE  /\ m.call = c /\ Op(m) \in todo[c] /\ tstate[c] = "starting" /\ ~ended[c]
           /\ stage' = stage /\ pending' = pending
<1>1. \A ops : \A n \in Sent(c, ops) : ~n.start
  BY DEF Sent, Message
<1>2. ASSUME NEW next, NEW ops, Proceed(c, next, ops) PROVE FALSE
  BY <1>1, <1>2 DEF Proceed
<1>3. ASSUME NEW status, Abandon(c, status) PROVE FALSE
  BY <1>1, <1>3 DEF Abandon
<1>4. ASSUME Commit(c) PROVE FALSE
  BY <1>1, <1>4 DEF Commit
<1>5. CASE Create(c) \/ SeedAccount(c)
  <2>1. reqs' # reqs
    OBVIOUS
  <2>2. ~ChildDuplicate(c)
    BY <1>1 DEF ChildDuplicate
  <2>3. ~CreateBegin(c) /\ ~ChildAbortDone(c) /\ ~SeedBegin(c)
    BY <2>1 DEF CreateBegin, ChildAbortDone, SeedBegin
  <2>4. ~ChildRejected(c) /\ ~StepRejected(c) /\ ~SeedRejected(c)
    BY <1>3 DEF ChildRejected, StepRejected, SeedRejected
  <2>5. ~ChildSaved(c) /\ ~SeedSaved(c) /\ ~AccountSaved(c) /\ ~ParentLinked(c)
    BY <1>2, <2>1 DEF ChildSaved, SeedSaved, AccountSaved, ParentLinked
  <2>6. ~Aggregated(c) /\ ~SeedLinked(c)
    BY <1>3, <1>4, <2>1 DEF Aggregated, SeedLinked
  <2> QED  BY <1>5, <2>2, <2>3, <2>4, <2>5, <2>6 DEF Create, SeedAccount
<1>6. CASE UpdateOne(c) \/ DeleteOne(c)
  <2>1. reqs' # reqs
    OBVIOUS
  <2>2. ~UpdateBegin(c) /\ ~DeleteBegin(c) /\ ~DeleteInvalid(c)
    BY <1>2, <2>1 DEF UpdateBegin, DeleteBegin, DeleteInvalid, Refuse
  <2>3. ~PartRejected(c) /\ ~NotFound(c) /\ ~ListRejected(c) /\ ~DeleteRejected(c)
    BY <1>3 DEF PartRejected, NotFound, ListRejected, DeleteRejected
  <2>4. ~Found(c) /\ ~Listed(c)
    BY <1>2 DEF Found, Listed
  <2>5. ~PartSet(c) /\ ~Populated(c) /\ ~Deleted(c)
    BY <1>2, <1>3, <1>4, <2>1 DEF PartSet, Populated, Deleted
  <2>6. ~UpdateThrows(c) /\ ~UpdateUnasked(c) /\ ~DeleteThrows(c)
    BY <2>1, OmittedFacts
  <2> QED  BY <1>6, <2>2, <2>3, <2>4, <2>5, <2>6 DEF UpdateOne, DeleteOne
<1>7. CASE NotConnected(c) \/ AbortDone(c) \/ Committed(c) \/ CommitFailed(c)
  BY <1>7 DEF NotConnected, Refuse, AbortDone, Committed, CommitFailed
<1>8. CASE Dispatch(c)
  <2>1. PICK op \in todo[c] :
           IF Settles(c, op) # "" THEN reqs' = reqs
           ELSE reqs' = reqs \cup {Message(c, op, tstate[c] = "starting")}
    BY <1>8 DEF Dispatch
  <2>2. Settles(c, op) = "" /\ m = Message(c, op, tstate[c] = "starting")
    BY <2>1
  <2>3. m.call = c /\ m.verb = op[1] /\ m.kind = op[2] /\ (m.start <=> tstate[c] = "starting")
    BY <2>2 DEF Message
  <2>4. ~ended[c]
    BY <2>2 DEF Settles
  <2>5. op \in Operations
    BY DEF SessionInv, TypeInv, TypeOK, CallsTypeOK
  <2>6. Op(m) = op
    BY <2>3, <2>5 DEF Op, Operations
  <2> QED  BY <1>8, <2>3, <2>4, <2>6 DEF Dispatch
<1> QED  BY <1>5, <1>6, <1>7, <1>8 DEF Handle

\* Nothing is lost that was not lost before.
LEMMA FaultsStay ==
    ASSUME SessionInv, [Next]_vars, faults' = 0
    PROVE  /\ faults = 0
           /\ \/ \E c \in Calls : Step(c) \/ Serve(c)
              \/ /\ UNCHANGED <<req, stage, todo, pending, tstate, reqs, resps>>
                 /\ late' \subseteq late
                 /\ \A d \in Calls : phase'[d] \in {phase[d], "aborted"}
<1>1. faults \in Nat
  BY ServerAssumption DEF SessionInv, TypeInv, TypeOK, ServerTypeOK
<1>2. ~GiveUp /\ ~LoseReply /\ \A c \in Calls : ~Crash(c)
  BY <1>1 DEF GiveUp, LoseReply, Crash
<1>3. ASSUME NEW c \in Calls, Step(c) PROVE faults = 0
  BY <1>3 DEF Step, serverVars
<1>4. ASSUME NEW c \in Calls, Serve(c) PROVE faults = 0
  <2>1. faults' = faults
    BY <1>4 DEF Serve, ServeWrite, ServeRead, ServeStranger, ServeCommit, ServeAbort,
       ServePlain, Continue
  <2> QED  BY <2>1
<1>5. ASSUME NEW c \in Calls, Reap(c)
      PROVE  /\ faults = 0 /\ UNCHANGED callVars /\ late' = late
             /\ \A d \in Calls : phase'[d] \in {phase[d], "aborted"}
  <2>1. faults = 0
    BY <1>1, <1>5 DEF Reap
  <2>2. phase' = [phase EXCEPT ![c] = "aborted"] /\ UNCHANGED callVars /\ late' = late
    BY <1>5 DEF Reap, Finish
  <2>3. phase \in [Calls -> {"none", "open", "committed", "aborted"}]
    BY DEF SessionInv, TypeInv, TypeOK, ServerTypeOK
  <2> QED  BY <2>1, <2>2, <2>3
<1>6. CASE Tick
  BY <1>6 DEF Tick, serverVars, txnVars
<1>7. CASE Vanish \/ Quiet \/ UNCHANGED vars
  <2>1. UNCHANGED <<callVars, phase, faults>> /\ late' \subseteq late
    BY <1>7 DEF Vanish, Quiet, vars, serverVars, txnVars
  <2> QED  BY <2>1 DEF callVars
<1> QED
  <2>1. CASE \E c \in Calls : Step(c) \/ Serve(c)
    BY <2>1, <1>3, <1>4
  <2>2. CASE \E c \in Calls : Reap(c)
    BY <2>2, <1>5 DEF callVars
  <2> QED  BY <1>2, <1>6, <1>7, <2>1, <2>2 DEF Next, Fault

-----------------------------------------------------------------------------
\* A session is aborted once: before anything was sent, or by an abort that came back.
LEMMA EndsByAbort ==
    ASSUME SessionInv, NEW c \in Calls, Handle(c), tstate'[c] = "aborted"
    PROVE  \/ stage[c] = "new" \/ tstate[c] \in {"aborted", "starting"}
           \/ \E r \in resps : r.call = c /\ r.verb = "abort"
<1>0. tstate \in [Calls -> TStates]
  BY DEF SessionInv, TypeInv, TypeOK, CallsTypeOK
<1>1. ASSUME NEW status, Abandon(c, status) PROVE tstate[c] \in {"aborted", "starting"}
  BY <1>1 DEF Abandon
<1>2. CASE tstate' = tstate
  BY <1>2
<1>3. CASE AbortDone(c) \/ ChildAbortDone(c)
  BY <1>3 DEF AbortDone, ChildAbortDone, Op
<1>4. ASSUME NEW s \in {"starting", "inProgress", "committed"}, tstate' = [tstate EXCEPT ![c] = s]
      PROVE  FALSE
  BY <1>0, <1>4
<1>5. CASE Commit(c)
  BY <1>2, <1>4, <1>5 DEF Commit
<1>6. CASE Create(c) \/ SeedAccount(c)
  <2>1. ~CreateBegin(c) /\ ~SeedBegin(c)
    BY <1>4 DEF CreateBegin, SeedBegin
  <2>2. CASE ChildSaved(c) \/ ChildDuplicate(c) \/ AccountSaved(c) \/ ParentLinked(c) \/ SeedSaved(c)
    BY <1>2, <2>2 DEF ChildSaved, ChildDuplicate, AccountSaved, ParentLinked, SeedSaved
  <2>3. CASE ChildRejected(c) \/ StepRejected(c) \/ SeedRejected(c) \/ Aggregated(c) \/ SeedLinked(c)
    BY <1>1, <1>2, <1>5, <2>3 DEF ChildRejected, StepRejected, SeedRejected, Aggregated, SeedLinked
  <2> QED  BY <1>3, <1>6, <2>1, <2>2, <2>3 DEF Create, SeedAccount
<1>7. CASE UpdateOne(c) \/ DeleteOne(c)
  <2>1. ~UpdateBegin(c) /\ ~DeleteBegin(c)
    BY <1>4 DEF UpdateBegin, DeleteBegin
  <2>2. CASE Found(c) \/ Listed(c) \/ DeleteInvalid(c)
    BY <1>2, <2>2 DEF Found, Listed, DeleteInvalid, Refuse
  <2>3. CASE PartRejected(c) \/ NotFound(c) \/ ListRejected(c) \/ DeleteRejected(c)
    BY <1>1, <2>3 DEF PartRejected, NotFound, ListRejected, DeleteRejected
  <2>4. CASE PartSet(c) \/ Populated(c) \/ Deleted(c)
    BY <1>1, <1>2, <1>5, <2>4 DEF PartSet, Populated, Deleted
  <2>5. CASE UpdateThrows(c) \/ UpdateUnasked(c) \/ DeleteThrows(c)
    BY <1>2, <1>3, <1>4, <2>5, OmittedFacts
  <2> QED  BY <1>7, <2>1, <2>2, <2>3, <2>4, <2>5 DEF UpdateOne, DeleteOne
<1>8. CASE NotConnected(c) \/ Dispatch(c) \/ Committed(c) \/ CommitFailed(c)
  <2>1. CASE NotConnected(c) \/ tstate' = tstate
    BY <1>2, <2>1 DEF NotConnected, Refuse
  <2>2. CASE \E s \in {"inProgress", "committed"} : tstate' = [tstate EXCEPT ![c] = s]
    BY <1>4, <2>2
  <2> QED  BY <1>8, <2>1, <2>2 DEF Dispatch, Committed, CommitFailed
<1> QED  BY <1>3, <1>6, <1>7, <1>8 DEF Handle

\* A handler makes no reply but for an operation that it settles itself.
LEMMA HandleReplies ==
    ASSUME NEW c \in Calls, Handle(c), NEW r \in resps' \ resps
    PROVE  \E op \in todo[c] : r.call = c /\ r.verb = op[1] /\ r.kind = op[2]
<1>1. CASE Create(c) \/ SeedAccount(c)
  BY <1>1 DEF Create, SeedAccount, CreateBegin, ChildSaved, ChildDuplicate, ChildAbortDone,
     ChildRejected, AccountSaved, ParentLinked, Aggregated, StepRejected, SeedBegin, SeedSaved,
     SeedLinked, SeedRejected
<1>2. CASE UpdateOne(c) \/ DeleteOne(c)
  BY <1>2, OmittedFacts
  DEF UpdateOne, DeleteOne, UpdateBegin, PartSet, PartRejected, Found, NotFound, Populated,
     DeleteInvalid, DeleteBegin, Listed, ListRejected, Deleted, DeleteRejected, Refuse
<1>3. CASE NotConnected(c) \/ AbortDone(c) \/ Committed(c) \/ CommitFailed(c)
  BY <1>3 DEF NotConnected, AbortDone, Committed, CommitFailed, Refuse
<1>4. CASE Dispatch(c)
  <2>1. PICK op \in todo[c] :
           \/ resps' = resps \cup Settled(Reply(Message(c, op, FALSE), Settles(c, op), NoDocs))
           \/ resps' = resps
    BY <1>4 DEF Dispatch
  <2>2. r = Reply(Message(c, op, FALSE), Settles(c, op), NoDocs)
    BY <2>1 DEF Settled
  <2> QED  BY <2>2 DEF Reply, Message
<1> QED  BY <1>1, <1>2, <1>3, <1>4 DEF Handle

-----------------------------------------------------------------------------
\* While the message that starts its transaction is on its way, a call that does
\* not start in parallel waits for it alone: it has seen no result of any kind.
LEMMA StartAlone ==
    ASSUME SessionInv, NEW c \in Calls, EndsWhatItStarts(c), NEW m \in reqs, m.call = c, m.start
    PROVE  /\ Stands(m) = Op(m) /\ m.verb \in {"update", "list"}
           /\ todo[c] = {} /\ (\A r \in resps : r.call # c)
           /\ tstate[c] # "aborted" /\ stage[c] # "new"
<1>1. stage[c] \in {"setting", "listing"} /\ pending[c] = {Op(m)}
  BY DEF EndsWhatItStarts
<1>2. Op(m) \in ({"update"} \X ChildKinds) \cup AccountList
  BY <1>1 DEF SessionInv, TypeInv, OperationsOK, StageOps
<1>3. m.verb \in {"update", "list"} /\ Stands(m) = Op(m)
  BY <1>2 DEF Op, AccountList, Stands
<1>4. Once(c) /\ WaitOK(c)
  BY DEF SessionInv, Disciplined
<1>5. stage[c] \notin Over \cup {"new"}
  BY <1>1 DEF Over
<1>6. /\ todo[c] \subseteq {Op(m)} /\ \A r \in resps : r.call = c => Stands(r) = Op(m)
      /\ tstate[c] \in {"starting", "inProgress"}
  BY <1>1, <1>4, <1>5 DEF WaitOK
<1>7. Op(m) \notin todo[c] /\ \A r \in resps : r.call = c => Stands(r) # Op(m)
  BY <1>3, <1>4 DEF Once
<1> QED  BY <1>3, <1>5, <1>6, <1>7

\* So its handler cannot move.
LEMMA StartWaits ==
    ASSUME SessionInv, NEW c \in Calls, EndsWhatItStarts(c), NEW m \in reqs, m.call = c, m.start
    PROVE  ~Handle(c)
  BY StartAlone, HandleNeeds

\* A call that does not start in parallel sends the start of its transaction while
\* it waits for nothing else.
LEMMA StartFirst ==
    ASSUME SessionInv, PartsOnly, NEW c \in Calls, ~ParallelStart(c), tstate[c] = "starting",
           ~ended[c], NEW op \in todo[c]
    PROVE  stage[c] \in {"setting", "listing"} /\ pending[c] = {op}
<1>1. /\ Once(c) /\ WaitOK(c) /\ EndOK(c) /\ PhaseOK(c) /\ StageOps(c) /\ Justified(c, op)
  BY DEF SessionInv, Disciplined, TypeInv, OperationsOK
<1>2. stage[c] \notin {"crashed", "answered", "stuck"}
  BY <1>1 DEF EndOK, Silent
<1>3. stage[c] \in {"saving", "setting", "listing", "finding", "populating"}
  BY <1>1, <1>2 DEF PhaseOK
<1>4. todo[c] \subseteq pending[c]
  BY <1>1, <1>3 DEF WaitOK, Over
<1>5. op \in ChildSaves \cup ({"update"} \X ChildKinds) \cup AccountList
  BY <1>1 DEF Once
<1>6. op \notin ChildSaves
  <2>1. req[c].op \notin {"create", "seed"}
    BY DEF ParallelStart
  <2> QED  BY <1>1, <2>1 DEF Justified, ChildSaves, AccountSave, ParentLinks, AccountRead, AccountFind,
           Populates, AccountList, Deletes
<1>7. stage[c] \in {"setting", "listing"}
  BY <1>1, <1>3, <1>4, <1>5, <1>6 DEF StageOps, AccountFind, Populates, AccountList
<1>8. CASE stage[c] = "listing"
  BY <1>1, <1>4, <1>8 DEF StageOps, AccountList
<1>9. CASE stage[c] = "setting"
  <2>1. pending[c] \subseteq {"update"} \X ChildKinds
    BY <1>1, <1>9 DEF StageOps
  <2>2. op \in {"update"} \X ChildKinds
    BY <1>4, <2>1
  <2>3. req[c].op = "update"
    BY <1>1, <2>2 DEF Justified, ChildSaves, AccountSave, ParentLinks, AccountRead, AccountFind,
       Populates, AccountList, Deletes
  <2>4. ASSUME NEW o \in pending[c] PROVE o = op
    <3>1. PICK j \in ChildKinds, k \in ChildKinds : o = <<"update", j>> /\ op = <<"update", k>>
      BY <2>1, <2>2
    <3>2. j \in Parts(c) /\ k \in Parts(c)
      BY <1>4, <3>1 DEF PartsOnly
    <3>3. j = k
      BY <2>3, <3>2 DEF ParallelStart
    <3> QED  BY <3>1, <3>3
  <2> QED  BY <1>4, <1>9, <2>4
<1> QED  BY <1>7, <1>8, <1>9

\* A call that starts alone ends what it starts: the steps of its handler.
LEMMA StepStarts ==
    ASSUME SessionInv, PartsOnly, NEW c \in Calls, ~ParallelStart(c), EndsWhatItStarts(c),
           Handle(c), UNCHANGED serverVars
    PROVE  EndsWhatItStarts(c)'
<1>1. ASSUME NEW m \in reqs', m.call = c, m.start
      PROVE  stage'[c] \in {"setting", "listing"} /\ pending'[c] = {Op(m)}
  <2>1. m \in reqs' \ reqs
    BY <1>1, StartWaits
  <2>2. /\ Op(m) \in todo[c] /\ tstate[c] = "starting" /\ ~ended[c]
        /\ stage' = stage /\ pending' = pending
    BY <1>1, <2>1, StartsSent
  <2> QED  BY <2>2, StartFirst
<1>2. CASE tstate'[c] = "aborted"
  <2>1. phase[c] # "open"
    <3>1. stage[c] = "new" => phase[c] = "none"
      BY NewGaveNothingUp DEF SessionInv, Disciplined, EndOK, PhaseOK
    <3> QED  BY <1>2, <3>1, EndsByAbort DEF EndsWhatItStarts, SessionInv, Disciplined, PhaseOK
  <2> QED  BY <1>1, <2>1 DEF EndsWhatItStarts, serverVars
<1>3. CASE \E r \in resps' : r.call = c /\ r.verb = "abort"
  <2>1. PICK r \in resps' : r.call = c /\ r.verb = "abort"
    BY <1>3
  <2>2. r \in resps
    <3>1. \A op \in todo[c] : op[1] # "abort"
      BY DEF SessionInv, Disciplined, Once, ChildSaves, AccountList
    <3> QED  BY <2>1, <3>1, HandleReplies
  <2>3. phase[c] # "open"
    BY <2>1, <2>2 DEF EndsWhatItStarts
  <2> QED  BY <1>1, <2>3 DEF EndsWhatItStarts, serverVars
<1> QED  BY <1>1, <1>2, <1>3 DEF EndsWhatItStarts

\* The server opens a transaction for the message that starts it, and an abort that
\* finds it ends it.
LEMMA ServeStarts ==
    ASSUME SessionInv, NEW c \in Calls, late = {}, EndsWhatItStarts(c), Serve(c)
    PROVE  EndsWhatItStarts(c)' /\ late' = {}
<1>1. PICK m \in reqs :
        /\ m.call = c
        /\ \/ ServeWrite(m) \/ ServeRead(m) \/ ServeStranger(m)
           \/ ServeCommit(m) \/ ServeAbort(m) \/ ServePlain(m)
  BY DEF Serve
<1>2. PICK result, docs : Answer(m, result, docs)
  BY <1>1 DEF ServeWrite, ServeRead, ServeStranger, ServeCommit, ServeAbort, ServePlain
<1>3. /\ reqs' = reqs \ {m} /\ resps' \subseteq resps \cup {Reply(m, result, docs)}
      /\ UNCHANGED <<stage, pending, tstate, late>>
  BY <1>2, SettledFacts DEF Answer
<1>4. \A n \in reqs' : n.call = c /\ n.start =>
          stage'[c] \in {"setting", "listing"} /\ pending'[c] = {Op(n)}
  BY <1>3 DEF EndsWhatItStarts
<1>5. phase \in [Calls -> {"none", "open", "committed", "aborted"}]
  BY DEF SessionInv, TypeInv, TypeOK, ServerTypeOK
<1>6. ASSUME tstate'[c] = "aborted" \/ \E r \in resps' : r.call = c /\ r.verb = "abort",
             phase'[c] = "open"
      PROVE  FALSE
  <2>1. ~ServeCommit(m) /\ ~ServeAbort(m)
    BY <1>1, <1>5, <1>6 DEF ServeCommit, ServeAbort, Finish
  <2>2. CASE phase[c] = "open"
    <3>1. m.verb = "abort"
      BY <1>3, <1>6, <2>2 DEF EndsWhatItStarts, Reply
    <3>2. ~m.start
      BY <1>1, <3>1, StartAlone
    <3>3. ServeStranger(m)
      BY <1>1, <2>1, <3>1 DEF ServeWrite, ServeRead, ServePlain, Writes, SessionReads, PlainReads
    <3> QED  BY <1>1, <2>2, <3>2, <3>3 DEF ServeStranger, Live
  <2>3. CASE phase[c] # "open"
    <3>1. ServeWrite(m) \/ ServeRead(m)
      BY <1>1, <1>6, <2>1, <2>3 DEF ServeStranger, ServePlain, txnVars
    <3>2. m.start
      BY <1>1, <2>3, <3>1 DEF ServeWrite, ServeRead, Live
    <3>3. /\ tstate[c] # "aborted" /\ \A r \in resps : r.call # c
          /\ m.verb \in {"update", "list"}
      BY <1>1, <3>2, StartAlone
    <3> QED  BY <1>3, <1>6, <3>3 DEF Reply
  <2> QED  BY <2>2, <2>3
<1> QED  BY <1>3, <1>4, <1>6 DEF EndsWhatItStarts

\* Every step keeps StartInv.
LEMMA StartStays == SessionInv /\ StartInv /\ [Next]_vars => StartInv'
<1> SUFFICES ASSUME SessionInv, StartInv, [Next]_vars PROVE StartInv'
  OBVIOUS
<1>1. PartsOnly /\ PartsOnly'
  BY PartsOnlyStays DEF StartInv
<1>2. ASSUME faults' = 0 PROVE late' = {} /\ \A c \in Calls : ParallelStart(c)' \/ EndsWhatItStarts(c)'
  <2>1. /\ faults = 0 /\ late = {}
        /\ \A c \in Calls : ParallelStart(c) \/ EndsWhatItStarts(c)
    BY <1>2, FaultsStay DEF StartInv
  <2>2. \A c \in Calls : ParallelStart(c)' <=> ParallelStart(c)
    BY OthersSendNothing DEF ParallelStart, Parts
  <2>3. ASSUME NEW c \in Calls, Untouched(c), EndsWhatItStarts(c) PROVE EndsWhatItStarts(c)'
    BY <2>3 DEF Untouched, EndsWhatItStarts
  <2>4. ASSUME NEW d \in Calls, Step(d)
        PROVE  late' = {} /\ \A c \in Calls : ParallelStart(c) \/ EndsWhatItStarts(c)'
    <3>1. Handle(d) /\ UNCHANGED serverVars
      BY <2>4 DEF Step
    <3>2. ASSUME NEW c \in Calls, ~ParallelStart(c) PROVE EndsWhatItStarts(c)'
      <4>1. EndsWhatItStarts(c)
        BY <2>1, <3>2
      <4>2. CASE c = d
        BY <1>1, <3>1, <3>2, <4>1, <4>2, StepStarts
      <4>3. CASE c # d
        BY <2>3, <3>1, <4>1, <4>3, HandleAlone
      <4> QED  BY <4>2, <4>3
    <3> QED  BY <2>1, <3>1, <3>2 DEF serverVars
  <2>5. ASSUME NEW d \in Calls, Serve(d)
        PROVE  late' = {} /\ \A c \in Calls : ParallelStart(c) \/ EndsWhatItStarts(c)'
    <3>1. late' = {}
      <4>1. PICK m, result, docs : Answer(m, result, docs)
        BY <2>5 DEF Serve, ServeWrite, ServeRead, ServeStranger, ServeCommit, ServeAbort, ServePlain
      <4> QED  BY <2>1, <4>1 DEF Answer
    <3>2. ASSUME NEW c \in Calls, ~ParallelStart(c) PROVE EndsWhatItStarts(c)'
      <4>1. EndsWhatItStarts(c)
        BY <2>1, <3>2
      <4>2. CASE c = d
        BY <2>1, <2>5, <4>1, <4>2, ServeStarts
      <4>3. CASE c # d
        BY <2>3, <2>5, <4>1, <4>3, ServeAlone
      <4> QED  BY <4>2, <4>3
    <3> QED  BY <3>1, <3>2
  <2>6. CASE /\ UNCHANGED <<req, stage, todo, pending, tstate, reqs, resps>>
             /\ late' \subseteq late
             /\ \A d \in Calls : phase'[d] \in {phase[d], "aborted"}
    <3>1. ASSUME NEW c \in Calls, EndsWhatItStarts(c) PROVE EndsWhatItStarts(c)'
      BY <2>6, <3>1 DEF EndsWhatItStarts
    <3> QED  BY <2>1, <2>2, <2>6, <3>1
  <2> QED  BY <1>2, <2>2, <2>4, <2>5, <2>6, FaultsStay
<1> QED  BY <1>1, <1>2 DEF StartInv

\* The start of every transaction stays in order, as long as nothing is lost.
THEOREM StartCorrect == Spec => []StartInv
<1>1. Init => StartInv
  <2> SUFFICES ASSUME Init PROVE StartInv
    OBVIOUS
  <2>1. \A c \in Calls : todo[c] = {} /\ pending[c] = {} /\ tstate[c] = "none"
    BY DEF Init, CallsInit
  <2>2. reqs = {} /\ resps = {} /\ late = {} /\ \A c \in Calls : phase[c] = "none"
    BY DEF Init, CallsInit, ServerInit
  <2> QED  BY <2>1, <2>2 DEF StartInv, PartsOnly, Partless, EndsWhatItStarts
<1>2. SessionInv /\ StartInv /\ [Next]_vars => StartInv'
  BY StartStays
<1> QED  BY <1>1, <1>2, SessionCorrect, PTL DEF Spec

\* While nothing is lost, a call that has answered leaves its transaction open only
\* if its first operations were sent in parallel: for any number of calls.
THEOREM OnlyParallelStartsLingerHolds == Spec => []OnlyParallelStartsLinger
<1>1. SessionInv /\ StartInv => OnlyParallelStartsLinger
  <2> SUFFICES ASSUME SessionInv, StartInv, faults = 0, NEW c \in Calls,
                      stage[c] = "answered", phase[c] = "open", ~ParallelStart(c)
               PROVE  FALSE
    BY DEF OnlyParallelStartsLinger
  <2>1. EndOK(c) /\ PhaseOK(c) /\ EndsWhatItStarts(c)
    BY DEF SessionInv, Disciplined, StartInv
  <2>2. tstate[c] \in {"none", "starting", "aborted", "committed"}
    BY <2>1 DEF EndOK
  <2>3. tstate[c] = "committed" => code[c] = "OK"
    BY <2>1 DEF EndOK
  <2> QED  BY <2>1, <2>2, <2>3 DEF PhaseOK, EndsWhatItStarts
<1> QED  BY <1>1, SessionCorrect, StartCorrect, PTL

-----------------------------------------------------------------------------
(* A request that is sent again.                                           *)

\* Setting the same fields to the same values again changes nothing.
LEMMA SetFieldsTwice ==
    ASSUME NEW doc, NEW kind, NEW patch
    PROVE  SetFields(SetFields(doc, kind, patch), kind, patch) = SetFields(doc, kind, patch)
<1> DEFINE once == SetFields(doc, kind, patch)
           twice == SetFields(once, kind, patch)
<1>1. once.parent = doc.parent /\ twice.parent = doc.parent
  BY DEF SetFields
<1>2. \A f \in FieldNames : once.fields[f] =
          IF f \in Accepted(kind, patch) THEN patch[f] ELSE doc.fields[f]
  BY DEF SetFields
<1>3. twice.fields = [f \in FieldNames |->
          IF f \in Accepted(kind, patch) THEN patch[f] ELSE once.fields[f]]
  BY DEF SetFields
<1>4. once.fields = [f \in FieldNames |->
          IF f \in Accepted(kind, patch) THEN patch[f] ELSE doc.fields[f]]
  BY DEF SetFields
<1>5. twice.fields = once.fields
  <2> HIDE DEF once, twice
  <2> QED  BY <1>2, <1>3, <1>4
<1>6. twice = [parent |-> twice.parent, fields |-> twice.fields]
      /\ once = [parent |-> once.parent, fields |-> once.fields]
  BY DEF SetFields
<1> QED
  <2> HIDE DEF once, twice
  <2>1. twice = once
    BY <1>1, <1>5, <1>6
  <2> QED  BY <2>1 DEF once, twice

\* The login of a new account is that of its request.
LEMMA CreatedLogin ==
    ASSUME EffectsInv, NEW c \in Calls, Active(c), CommitSent(c),
           req[c].op \in {"create", "seed"}, NEW i, i = ids[c]["credential"]
    PROVE  /\ i \in Ids /\ CredentialKey(i) \in wrote[c] /\ db[CredentialKey(i)] = NoDoc
           /\ Base(c)[CredentialKey(i)] # NoDoc
           /\ Base(c)[CredentialKey(i)].fields["login"] = NewPatch(c, "credential")["login"]
<1>1. "credential" \in ChildKinds /\ "credential" \in Kinds
  BY DEF ChildKinds, Kinds
<1>2. /\ i \in Ids /\ CredentialKey(i) \in wrote[c] /\ db[CredentialKey(i)] = NoDoc
      /\ Base(c)[CredentialKey(i)] # NoDoc
      /\ Base(c)[CredentialKey(i)] = [parent |-> ids[c]["account"],
             fields |-> NewChild("credential", NewPatch(c, "credential")).fields]
  BY <1>1, CreateCommit DEF CredentialKey
<1>3. Valid("credential", NewPatch(c, "credential"))
  <2>1. Creating(c, "credential", i)
    BY <1>1, <1>2, CreatedThere DEF CredentialKey
  <2> QED  BY <2>1 DEF Creating
<1>4. "login" \in Accepted("credential", NewPatch(c, "credential"))
  BY <1>3 DEF Valid, Required
<1>5. NewChild("credential", NewPatch(c, "credential")).fields["login"] = NewPatch(c, "credential")["login"]
  BY <1>4 DEF NewChild, FieldNames
<1> QED  BY <1>2, <1>5

\* An UpdateOne that is committed has changed every part of its request.
LEMMA UpdateDone ==
    ASSUME EffectsInv, NEW c \in Calls, Active(c), CommitSent(c), req[c].op = "update",
           NEW kind \in Parts(c)
    PROVE  \E i \in Ids :
              LET old == db[<<kind, i>>] IN
              /\ <<kind, i>> \in wrote[c] /\ old # NoDoc /\ old.parent = req[c].id
              /\ Base(c)[<<kind, i>>] = SetFields(old, kind, UpdatePatch(c, kind))
              /\ Base(c)[<<kind, i>>] # old
<1>1. kind \in Kinds /\ kind \in ChildKinds
  BY DEF Parts, ChildKinds
<1>2. <<"update", kind>> \in Plan(c)
  BY <1>1 DEF Plan, PartUpdates
<1>3. HasEffect(c, <<"update", kind>>)
  BY <1>2, PlanDone
<1>4. PICK i \in Ids : <<kind, i>> \in wrote[c]
  BY <1>3 DEF HasEffect
<1>5. Setting(c, kind, i)
  BY <1>1, <1>4 DEF EffectsInv, EffectInv, Effective, Written
<1> QED  BY <1>4, <1>5 DEF Setting

USE DEF WholeInv

\* What a request needs, it has used up once it has taken effect.
LEMMA SpentByCommit ==
    ASSUME WholeInv, RefIntegrity', req' = req, NEW c \in Calls, Merges(c), CommitSent(c)
    PROVE  Spent(c)'
<1>0. req[c].op \in {"create", "update", "delete", "seed"}
  BY RequestFacts DEF EffectsInv, SessionInv
<1>1. /\ Active(c)
      /\ \A k \in Keys : db'[k] = IF k \in wrote[c] THEN Base(c)[k] ELSE db[k]
  BY MergeFacts
<1>2. CASE req[c].op \in {"create", "seed"}
  <2> DEFINE i == ids[c]["credential"]
  <2>1. /\ i \in Ids /\ CredentialKey(i) \in wrote[c]
        /\ Base(c)[CredentialKey(i)] # NoDoc
        /\ Base(c)[CredentialKey(i)].fields["login"] = NewPatch(c, "credential")["login"]
    BY <1>1, <1>2, CreatedLogin
  <2>2. CredentialKey(i) \in Keys
    BY <2>1, IndexKeys
  <2>3. db'[CredentialKey(i)] = Base(c)[CredentialKey(i)]
    BY <1>1, <2>1, <2>2
  <2>4. NewPatch(c, "credential")' = NewPatch(c, "credential")
    BY DEF NewPatch
  <2>5. req'[c].op \in {"create", "seed"}
    BY <1>2
  <2> HIDE DEF i
  <2> QED  BY <2>1, <2>3, <2>4, <2>5 DEF Spent, CredentialKey
<1>3. CASE req[c].op = "update"
  <2>1. ASSUME NEW kind \in Parts(c), NEW i \in Ids, db'[<<kind, i>>] # NoDoc,
               db'[<<kind, i>>].parent = req[c].id
        PROVE  SetFields(db'[<<kind, i>>], kind, UpdatePatch(c, kind)) = db'[<<kind, i>>]
    <3>1. PICK j \in Ids :
              /\ <<kind, j>> \in wrote[c] /\ db[<<kind, j>>] # NoDoc
              /\ db[<<kind, j>>].parent = req[c].id
              /\ Base(c)[<<kind, j>>] = SetFields(db[<<kind, j>>], kind, UpdatePatch(c, kind))
      BY <1>1, <1>3, UpdateDone
    <3>2. kind \in ChildKinds /\ kind \in Kinds
      BY DEF Parts, ChildKinds
    <3>3. db'[<<kind, j>>] = SetFields(db[<<kind, j>>], kind, UpdatePatch(c, kind))
      BY <1>1, <3>1, <3>2, DocumentKeys
    <3>4. db'[<<kind, j>>] # NoDoc /\ db'[<<kind, j>>].parent = req[c].id
      BY <1>1, <1>3, <3>1, <3>2, <3>3, UpdateCommit
    <3>5. i = db'[<<"account", req[c].id>>][kind] /\ j = db'[<<"account", req[c].id>>][kind]
      BY <2>1, <3>2, <3>4 DEF RefIntegrity
    <3> QED  BY <3>3, <3>5, SetFieldsTwice
  <2>2. /\ Parts(c)' = Parts(c) /\ req'[c] = req[c]
        /\ \A kind : UpdatePatch(c, kind)' = UpdatePatch(c, kind)
    BY DEF Parts, UpdatePatch
  <2> QED  BY <1>3, <2>1, <2>2 DEF Spent
<1>4. CASE req[c].op = "delete"
  <2> DEFINE k == <<"account", req[c].id>>
  <2>1. req[c].id \in Ids /\ k \in wrote[c] /\ Base(c)[k] = NoDoc
    BY <1>1, <1>4, DeleteCommit DEF Accounts, Kinds
  <2>2. k \in Keys
    BY <2>1, DocumentKeys DEF Kinds
  <2>3. db'[k] = NoDoc
    BY <1>1, <2>1, <2>2
  <2> QED  BY <1>4, <2>3 DEF Spent, Accounts
<1> QED  BY <1>0, <1>2, <1>3, <1>4

\* Then a second call with the same request does not commit.
LEMMA SpentForbids ==
    ASSUME WholeInv, UniqueLogin', PartsOnly, NEW c \in Calls, Merges(c), CommitSent(c), Spent(c)
    PROVE  FALSE
<1>0. req[c].op \in {"create", "update", "delete", "seed"}
  BY RequestFacts DEF EffectsInv, SessionInv
<1>1. /\ Active(c)
      /\ \A k \in Keys : db'[k] = IF k \in wrote[c] THEN Base(c)[k] ELSE db[k]
  BY MergeFacts
<1>2. CASE req[c].op \in {"create", "seed"}
  <2> DEFINE i == ids[c]["credential"]
  <2>1. /\ i \in Ids /\ CredentialKey(i) \in wrote[c] /\ db[CredentialKey(i)] = NoDoc
        /\ Base(c)[CredentialKey(i)] # NoDoc
        /\ Base(c)[CredentialKey(i)].fields["login"] = NewPatch(c, "credential")["login"]
    BY <1>1, <1>2, CreatedLogin
  <2>2. PICK j \in Ids : /\ db[CredentialKey(j)] # NoDoc
                         /\ db[CredentialKey(j)].fields["login"] = NewPatch(c, "credential")["login"]
    BY <1>2 DEF Spent
  <2>3. i # j
    BY <2>1, <2>2
  <2>4. CredentialKey(i) \in Keys
    BY <2>1, IndexKeys
  <2>5. db'[CredentialKey(i)] = Base(c)[CredentialKey(i)]
    BY <1>1, <2>1, <2>4
  <2>6. db'[CredentialKey(j)] = db[CredentialKey(j)]
    <3>1. "credential" \in Kinds
      BY DEF Kinds
    <3>2. i \in Ids /\ j \in Ids /\ j # ids[c]["credential"]
      BY <2>1, <2>3
    <3> HIDE DEF i
    <3>3. db'[<<"credential", j>>] = db[<<"credential", j>>]
      BY <1>1, <1>2, <3>1, <3>2, CreateLeaves
    <3> QED  BY <3>3 DEF CredentialKey
  <2> HIDE DEF i
  <2> QED  BY <2>1, <2>2, <2>3, <2>5, <2>6 DEF UniqueLogin, CredentialKey
<1>3. CASE req[c].op = "update"
  <2>1. Parts(c) # {}
    <3>1. PICK m \in reqs \cup late : m.call = c /\ m.verb = "commit"
      BY DEF CommitSent
    <3> QED  BY <1>3, <3>1 DEF PartsOnly, Partless, PlainReads
  <2>2. PICK kind \in Parts(c) : TRUE
    BY <2>1
  <2>3. PICK i \in Ids :
              /\ db[<<kind, i>>] # NoDoc /\ db[<<kind, i>>].parent = req[c].id
              /\ Base(c)[<<kind, i>>] = SetFields(db[<<kind, i>>], kind, UpdatePatch(c, kind))
              /\ Base(c)[<<kind, i>>] # db[<<kind, i>>]
    BY <1>1, <1>3, UpdateDone
  <2> QED  BY <1>3, <2>3 DEF Spent
<1>4. CASE req[c].op = "delete"
  BY <1>1, <1>4, DeleteCommit DEF Spent
<1> QED  BY <1>0, <1>2, <1>3, <1>4

\* Spent speaks of a call by its request only.
LEMMA SpentAlike ==
    TypeInv => \A c, d \in Calls : req[c] = req[d] /\ Spent(c) => Spent(d)
<1> SUFFICES ASSUME TypeInv, NEW c \in Calls, NEW d \in Calls, req[c] = req[d], Spent(c)
             PROVE  Spent(d)
  OBVIOUS
<1>1. /\ Parts(c) = Parts(d) /\ \A k : UpdatePatch(c, k) = UpdatePatch(d, k)
      /\ NewPatch(c, "credential") = NewPatch(d, "credential")
  BY DEF Parts, UpdatePatch, NewPatch
<1>2. CASE req[c].op \in {"create", "seed"}
  BY <1>1, <1>2 DEF Spent
<1>3. CASE req[c].op = "update"
  BY <1>1, <1>3 DEF Spent
<1>4. CASE req[c].op = "delete"
  BY <1>4 DEF Spent
<1> QED  BY <1>2, <1>3, <1>4, RequestFacts

\* Every step keeps SpentInv: a commit spends its request, or is of another one.
LEMMA SpentStays == WholeInv /\ WholeInv' /\ SpentInv /\ [Next]_vars => SpentInv'
<1> SUFFICES ASSUME WholeInv, WholeInv', SpentInv, [Next]_vars,
                    NEW c \in Calls, phase'[c] = "committed",
                    \A e \in Calls : phase'[e] = "committed" => req'[e] = req'[c]
             PROVE  Spent(c)'
  BY DEF SpentInv
<1>1. req' = req
  BY OthersSendNothing DEF EffectsInv
<1>2. CASE db' = db /\ phase[c] = "committed"
  <2>1. Spent(c)
    BY <1>1, <1>2, CommittedStays DEF SpentInv
  <2>2. /\ Parts(c)' = Parts(c) /\ \A k : UpdatePatch(c, k)' = UpdatePatch(c, k)
        /\ NewPatch(c, "credential")' = NewPatch(c, "credential")
    BY <1>1 DEF Parts, UpdatePatch, NewPatch
  <2>3. CASE req[c].op \in {"create", "seed"}
    BY <1>1, <1>2, <2>1, <2>2, <2>3 DEF Spent
  <2>4. CASE req[c].op = "update"
    BY <1>1, <1>2, <2>1, <2>2, <2>4 DEF Spent
  <2>5. CASE req[c].op = "delete"
    BY <1>1, <1>2, <2>1, <2>5 DEF Spent, Accounts
  <2> QED  BY <2>3, <2>4, <2>5, RequestFacts DEF EffectsInv, SessionInv
<1>3. ASSUME NEW d \in Calls, Merges(d), CommitSent(d), phase'[d] = "committed" PROVE Spent(c)'
  <2>1. Spent(d)'
    BY <1>1, <1>3, SpentByCommit DEF EffectsInv, EffectInv
  <2>2. req'[c] = req'[d]
    BY <1>3
  <2>3. /\ Parts(c)' = Parts(d)' /\ \A k : UpdatePatch(c, k)' = UpdatePatch(d, k)'
        /\ NewPatch(c, "credential")' = NewPatch(d, "credential")'
    BY <2>2 DEF Parts, UpdatePatch, NewPatch
  <2>4. CASE req'[c].op \in {"create", "seed"}
    BY <2>1, <2>2, <2>3, <2>4 DEF Spent
  <2>5. CASE req'[c].op = "update"
    BY <2>1, <2>2, <2>3, <2>5 DEF Spent
  <2>6. CASE req'[c].op = "delete"
    BY <2>1, <2>2, <2>6 DEF Spent, Accounts
  <2> QED  BY <1>1, <2>4, <2>5, <2>6, RequestFacts DEF EffectsInv, SessionInv
<1> QED  BY <1>2, <1>3, CommittedStays

\* Every step keeps OnceForAll: a second commit meets a spent request.
LEMMA OnceStays ==
    WholeInv /\ WholeInv' /\ PartsOnly /\ SpentInv /\ OnceForAll /\ [Next]_vars => OnceForAll'
<1> SUFFICES ASSUME WholeInv, WholeInv', PartsOnly, SpentInv, OnceForAll, [Next]_vars,
                    NEW c \in Calls, NEW d \in Calls, c # d, req'[c] = req'[d],
                    phase'[c] = "committed", phase'[d] = "committed",
                    \A e \in Calls : phase'[e] = "committed" => req'[e] = req'[c]
             PROVE  FALSE
  BY DEF OnceForAll
<1>1. req' = req
  BY OthersSendNothing DEF EffectsInv
<1>2. \A e \in Calls : phase[e] = "committed" => req[e] = req[c]
  BY <1>1, CommittedStays
<1>3. CASE phase[c] = "committed" /\ phase[d] = "committed"
  BY <1>1, <1>2, <1>3 DEF OnceForAll
<1>4. ASSUME NEW e \in Calls, NEW f \in Calls, Merges(e), CommitSent(e), phase[f] = "committed",
             req[e] = req[f]
      PROVE  FALSE
  <2>1. Spent(f)
    BY <1>1, <1>2, <1>4, CommittedStays DEF SpentInv
  <2>2. Spent(e)
    BY <1>4, <2>1, SpentAlike DEF EffectsInv, SessionInv
  <2>3. UniqueLogin'
    <3>1. IndexOK(db)'
      BY DEF EffectsInv, IsolationInv
    <3> QED  BY <3>1, IndexMakesUnique, PTL
  <2> QED  BY <1>4, <2>2, <2>3, SpentForbids
<1> QED  BY <1>1, <1>3, <1>4, CommittedStays

\* Requests that took effect have used up what they needed.
THEOREM SpentCorrect == Spec => []SpentInv
<1>1. Init => SpentInv
  BY DEF Init, ServerInit, SpentInv
<1>2. WholeInv /\ WholeInv' /\ SpentInv /\ [Next]_vars => SpentInv'
  BY SpentStays
<1> QED  BY <1>1, <1>2, WholeCorrect, PTL DEF Spec

\* A request that is sent again takes effect once, unless another request that took
\* effect has made room for it: for any number of calls and of repetitions.
THEOREM OnceForAllHolds == Spec => []OnceForAll
<1>1. Init => OnceForAll
  BY DEF Init, ServerInit, OnceForAll
<1>2. StartInv => PartsOnly
  BY DEF StartInv
<1>3. WholeInv /\ WholeInv' /\ PartsOnly /\ SpentInv /\ OnceForAll /\ [Next]_vars => OnceForAll'
  BY OnceStays
<1> QED  BY <1>1, <1>2, <1>3, WholeCorrect, StartCorrect, SpentCorrect, PTL DEF Spec

-----------------------------------------------------------------------------
(* The documents an UpdateOne writes.                                      *)

\* No step makes an UpdateOne write a document of another part.
LEMMA PartsWrittenStays ==
    WholeInv /\ PartsOnly /\ PartsWritten /\ [Next]_vars => PartsWritten'
<1> SUFFICES ASSUME WholeInv, PartsOnly, PartsWritten, [Next]_vars,
                    NEW d \in Calls, NEW kind \in Kinds, NEW i \in Ids,
                    req'[d].op = "update", <<kind, i>> \in wrote'[d]
             PROVE  kind \in Parts(d)'
  BY DEF PartsWritten
<1>1. req' = req /\ Parts(d)' = Parts(d)
  BY OthersSendNothing DEF EffectsInv, Parts
<1>2. CASE <<kind, i>> \in wrote[d]
  BY <1>1, <1>2 DEF PartsWritten
<1>3. CASE <<kind, i>> \notin wrote[d]
  <2>1. ASSUME NEW c \in Calls, Opens(c) \/ Aborts(c) \/ Merges(c) PROVE FALSE
    <3>1. wrote \in [Calls -> SUBSET Keys]
      BY DEF EffectsInv, SessionInv, TypeInv, TypeOK, ServerTypeOK
    <3>2. wrote'[d] \in {wrote[d], {}}
      BY <2>1, <3>1 DEF Opens, Aborts, Merges, Finish
    <3> QED  BY <1>3, <3>2
  <2>2. ASSUME NEW m, NEW w, WritesOne(m, w), NEW c, c = m.call PROVE kind \in Parts(d)
    <3>1. c \in Calls /\ m \in reqs \cup late /\ m.verb \in Writes
      BY <2>2, WriteChanges
    <3>2. m.kind \in Kinds /\ w.id \in Ids
      BY <2>2, WriteChanges
    <3>3. \A k \in DocKeys : k \in wrote'[c] => k \in wrote[c] \/ k = <<m.kind, w.id>>
      <4> SUFFICES ASSUME NEW k \in DocKeys, k \in wrote'[c], k # <<m.kind, w.id>>
                   PROVE  k \in wrote[c]
        OBVIOUS
      <4>1. wrote'[c] = wrote[c] \cup Touched(Base(c), m.kind, w.id, w.doc)
        BY <2>2, WriteFacts DEF EffectsInv
      <4>2. k \notin Touched(Base(c), m.kind, w.id, w.doc)
        BY LoginsFacts, KeysApart DEF Touched
      <4> QED  BY <4>1, <4>2
    <3>4. \A e \in Calls \ {c} : wrote'[e] = wrote[e]
      BY <2>2, WriteFacts DEF EffectsInv
    <3>5. d = c
      BY <1>3, <3>4
    <3>6. <<kind, i>> = <<m.kind, w.id>>
      BY <1>3, <3>3, <3>5, DocumentKeys
    <3>7. m.verb = "update"
      <4>1. /\ m.verb \in {"insert", "link"} => req[c].op \in {"create", "seed"}
            /\ m.verb = "delete" => req[c].op = "delete"
        BY <2>2, <3>1, WriteVerbs
      <4>2. req[c].op = "update"
        BY <1>1, <3>5
      <4> QED  BY <3>1, <4>1, <4>2 DEF Writes
    <3> QED  BY <1>1, <2>2, <3>1, <3>5, <3>6, <3>7 DEF PartsOnly
  <2> QED
    <3>1. PICK m \in reqs \cup late : \E w \in Images(m, Base(m.call)) : WritesOne(m, w)
      BY <1>3, <2>1, DataShapes DEF EffectsInv, txnVars
    <3>2. PICK w \in Images(m, Base(m.call)) : WritesOne(m, w)
      BY <3>1
    <3> QED  BY <1>1, <2>2, <3>2
<1> QED  BY <1>2, <1>3

\* An UpdateOne writes the parts of its request only.
LEMMA PartsWrittenHolds == Spec => []PartsWritten
<1>1. Init => PartsWritten
  BY DEF Init, ServerInit, PartsWritten
<1>2. StartInv => PartsOnly
  BY DEF StartInv
<1> QED  BY <1>1, <1>2, PartsWrittenStays, WholeCorrect, StartCorrect, PTL DEF Spec

-----------------------------------------------------------------------------
(* What an UpdateOne leaves.                                               *)

\* The documents an UpdateOne has written are children of its account, one for each
\* part of its request.
LEMMA UpdateWrites ==
    ASSUME WholeInv, PartsOnly, PartsWritten,
           NEW c \in Calls, Merges(c), CommitSent(c), req[c].op = "update"
    PROVE  LET account == db[<<"account", req[c].id>>] IN
           /\ req[c].id \in Accounts(db)
           /\ \A k \in Kinds, n \in Ids :
                 <<k, n>> \in wrote[c] <=> k \in Parts(c) /\ n = account[k]
           /\ \A k \in Parts(c) : LET key == <<k, account[k]>> IN
                 /\ k \in ChildKinds /\ account[k] \in Ids /\ db[key] # NoDoc
                 /\ db'[key] = SetFields(db[key], k, UpdatePatch(c, k))
                 /\ db'[key] # db[key] /\ db'[key] # NoDoc
<1> DEFINE i == req[c].id
           account == db[<<"account", i>>]
<1>1. /\ Active(c)
      /\ \A k \in Keys : db'[k] = IF k \in wrote[c] THEN Base(c)[k] ELSE db[k]
  BY MergeFacts
<1>2. ChildKinds \subseteq Kinds /\ Parts(c) \subseteq ChildKinds
  BY DEF ChildKinds, Parts
<1>3. ASSUME NEW k \in Kinds, NEW n \in Ids, <<k, n>> \in wrote[c]
      PROVE  /\ k \in Parts(c) /\ db[<<k, n>>].parent = i /\ db[<<k, n>>] # NoDoc
             /\ i \in Accounts(db) /\ n = account[k]
  <2>1. Setting(c, k, n)
    BY <1>1, <1>3 DEF EffectsInv, EffectInv, Effective, Written
  <2>2. k \in Parts(c) /\ db[<<k, n>>].parent = i /\ db[<<k, n>>] # NoDoc
    BY <1>3, <2>1 DEF Setting, PartsWritten
  <2> QED  BY <1>2, <2>2, IntegrityFacts
<1>4. ASSUME NEW k \in Parts(c)
      PROVE  \E n \in Ids :
                /\ <<k, n>> \in wrote[c] /\ n = account[k] /\ db[<<k, n>>] # NoDoc
                /\ db'[<<k, n>>] = SetFields(db[<<k, n>>], k, UpdatePatch(c, k))
                /\ db'[<<k, n>>] # db[<<k, n>>] /\ db'[<<k, n>>] # NoDoc
  <2>1. PICK n \in Ids :
           /\ <<k, n>> \in wrote[c] /\ db[<<k, n>>] # NoDoc
           /\ Base(c)[<<k, n>>] = SetFields(db[<<k, n>>], k, UpdatePatch(c, k))
           /\ Base(c)[<<k, n>>] # db[<<k, n>>]
    BY <1>1, UpdateDone
  <2>2. n = account[k]
    BY <1>2, <1>3, <2>1
  <2>3. db'[<<k, n>>] = Base(c)[<<k, n>>]
    BY <1>1, <1>2, <2>1, DocumentKeys
  <2>4. Base(c)[<<k, n>>] # NoDoc
    BY <1>1, <1>2, <2>1, UpdateCommit
  <2> QED  BY <2>1, <2>2, <2>3, <2>4
<1>5. Parts(c) # {}
  <2>1. PICK m \in reqs \cup late : m.call = c /\ m.verb = "commit"
    BY DEF CommitSent
  <2> QED  BY <2>1 DEF PartsOnly, Partless, PlainReads
<1>6. i \in Accounts(db)
  BY <1>2, <1>3, <1>4, <1>5
<1> QED  BY <1>2, <1>3, <1>4, <1>6

\* So the commit of an UpdateOne changes what it was asked to change, and nothing else.
LEMMA UpdateLeaves ==
    ASSUME WholeInv, PartsOnly, PartsWritten,
           NEW c \in Calls, Merges(c), CommitSent(c), req[c].op = "update"
    PROVE  LET account == db[<<"account", req[c].id>>]
               child(k) == <<k, account[k]>>
           IN  /\ account # NoDoc
               /\ {k \in DocKeys : db'[k] # db[k]} = {child(k) : k \in Parts(c)}
               /\ \A k \in Parts(c) : db[child(k)] # NoDoc /\ db'[child(k)] # NoDoc
               /\ \A k \in Parts(c) \ {"place"} : \A f \in Accepted(k, req[c].set[k]) :
                     db'[child(k)].fields[f] = req[c].set[k][f]
<1> DEFINE account == db[<<"account", req[c].id>>]
           child(k) == <<k, account[k]>>
<1>1. account # NoDoc
  BY UpdateWrites DEF Accounts
<1>2. /\ \A k \in Kinds, n \in Ids : <<k, n>> \in wrote[c] <=> k \in Parts(c) /\ n = account[k]
      /\ \A k \in Parts(c) :
            /\ k \in ChildKinds /\ account[k] \in Ids /\ db[child(k)] # NoDoc
            /\ db'[child(k)] = SetFields(db[child(k)], k, UpdatePatch(c, k))
            /\ db'[child(k)] # db[child(k)] /\ db'[child(k)] # NoDoc
  BY UpdateWrites
<1>3. \A k \in Parts(c) : k \in Kinds
  BY <1>2 DEF ChildKinds
<1> HIDE DEF account
<1>4. {k \in DocKeys : db'[k] # db[k]} = {child(k) : k \in Parts(c)}
  <2>1. ASSUME NEW k \in DocKeys, db'[k] # db[k]
        PROVE  \E h \in Parts(c) : k = child(h)
    <3>1. PICK h \in Kinds, n \in Ids : k = <<h, n>>
      BY DocumentKeys
    <3>2. <<h, n>> \in wrote[c]
      BY <2>1, <3>1, MergeFacts, DocumentKeys
    <3> QED  BY <1>2, <3>1, <3>2
  <2>2. ASSUME NEW k \in Parts(c)
        PROVE  child(k) \in DocKeys /\ db'[child(k)] # db[child(k)]
    BY <1>2, <1>3, <2>2, DocumentKeys
  <2> HIDE DEF child
  <2> QED  BY <2>1, <2>2
<1>5. ASSUME NEW k \in Parts(c) \ {"place"}, NEW f \in Accepted(k, req[c].set[k])
      PROVE  db'[child(k)].fields[f] = req[c].set[k][f]
  <2>1. UpdatePatch(c, k) = req[c].set[k]
    BY <1>5 DEF UpdatePatch
  <2>2. f \in FieldNames
    <3>1. k \in {"info", "credential"}
      BY <1>3, <1>2, <1>5 DEF ChildKinds, Kinds
    <3> QED  BY <3>1 DEF Accepted, Schema, FieldNames
  <2>3. db'[child(k)] = SetFields(db[child(k)], k, req[c].set[k])
    BY <1>2, <1>5, <2>1
  <2> HIDE DEF child
  <2> QED  BY <1>5, <2>2, <2>3 DEF SetFields
<1> QED  BY <1>1, <1>2, <1>4, <1>5 DEF account

\* An UpdateOne that takes effect changes, whatever was committed since its parts were
\* set, one child of its account for each part it was sent, to the fields of info and
\* credential that were sent, and nothing else.
THEOREM UpdatedAsAskedHolds == Spec => UpdatedAsAsked
<1>1. WholeInv /\ PartsOnly /\ PartsWritten /\ [Next]_vars =>
        [\A c \in Calls : req[c].op = "update" /\ Commits(c) =>
          LET account == db[<<"account", req[c].id>>]
              child(k) == <<k, account[k]>>
          IN  /\ account # NoDoc
              /\ {k \in DocKeys : db'[k] # db[k]} = {child(k) : k \in Parts(c)}
              /\ \A k \in Parts(c) : db[child(k)] # NoDoc /\ db'[child(k)] # NoDoc
              /\ \A k \in Parts(c) \ {"place"} : \A f \in Accepted(k, req[c].set[k]) :
                    db'[child(k)].fields[f] = req[c].set[k][f]]_vars
  BY CommitsMerge, UpdateLeaves
<1>2. StartInv => PartsOnly
  BY DEF StartInv
<1> QED  BY <1>1, <1>2, WholeCorrect, StartCorrect, PartsWrittenHolds, PTL DEF Spec, UpdatedAsAsked

-----------------------------------------------------------------------------
(* The registry: its data.                                                 *)

\* The registry speaks of documents as the service does.
LEMMA SameStore ==
    /\ Registry!Ids = Ids /\ Registry!NoId = NoId /\ Registry!Kinds = Kinds
    /\ Registry!ChildKinds = ChildKinds /\ Registry!FieldNames = FieldNames
    /\ \A k, p : /\ Registry!Accepted(k, p) = Accepted(k, p)
                 /\ Registry!Valid(k, p) = Valid(k, p)
                 /\ Registry!NewChild(k, p) = NewChild(k, p)
    /\ \A k : Registry!SeedChild(k) = SeedChild(k)
    /\ \A c : Registry!Parts(c) = Parts(c)
    /\ \A c : \A k \in ChildKinds : Registry!Payload(c, k) = NewPatch(c, k)
<1>1. /\ Registry!Ids = Ids /\ Registry!NoId = NoId /\ Registry!Kinds = Kinds
      /\ Registry!FieldNames = FieldNames /\ Registry!Schema = Schema
      /\ Registry!Required = Required
  BY DEF Registry!Ids, Ids, Registry!NoId, NoId, Registry!Kinds, Kinds, Registry!FieldNames,
     FieldNames, Registry!Schema, Schema, Registry!Required, Required
<1>2. Registry!ChildKinds = ChildKinds
  BY <1>1 DEF Registry!ChildKinds, ChildKinds
<1>3. \A k, p : Registry!Accepted(k, p) = Accepted(k, p)
  BY <1>1 DEF Registry!Accepted, Accepted
<1>4. \A k, p : Registry!Valid(k, p) = Valid(k, p)
  BY <1>1, <1>3 DEF Registry!Valid, Valid
<1>5. \A k, p : Registry!NewChild(k, p) = NewChild(k, p)
  BY <1>1, <1>3 DEF Registry!NewChild, NewChild, Registry!Hash, Hash
<1>6. \A k : Registry!SeedPayload(k) = SeedPayload(k)
  BY <1>1 DEF Registry!SeedPayload, SeedPayload
<1>7. \A k : Registry!SeedChild(k) = SeedChild(k)
  BY <1>5, <1>6 DEF Registry!SeedChild, SeedChild
<1>8. \A c : Registry!Parts(c) = Parts(c)
  BY <1>2 DEF Registry!Parts, Parts
<1>9. \A c : \A k \in ChildKinds : Registry!Payload(c, k) = NewPatch(c, k)
  BY <1>1, <1>8 DEF Registry!Payload, NewPatch, Parts
<1> QED  BY <1>1, <1>2, <1>3, <1>4, <1>5, <1>7, <1>8, <1>9

\* The registry shows the accounts of the store, whole.
AccountsShown ==
    /\ \A a \in Ids \ Accounts(db) : Registered[a] = NoAccount
    /\ \A a \in Accounts(db) :
          /\ Registered[a] = [k \in ChildKinds |-> db[<<k, db[<<"account", a>>][k]>>].fields]
          /\ Registered[a] # NoAccount
          /\ \A k \in ChildKinds : Registered[a][k] \in [FieldNames -> FieldValues]

\* No two of them have one login.
LoginsDiffer ==
    \A i, j \in Accounts(db) :
        i # j => Registered[i]["credential"]["login"] # Registered[j]["credential"]["login"]

\* What the registry shows of a store whose accounts are whole.
LEMMA StoreShown == WholeInv => AccountsShown
<1> SUFFICES ASSUME WholeInv PROVE AccountsShown
  OBVIOUS
<1>1. ASSUME NEW a \in Ids \ Accounts(db) PROVE Registered[a] = NoAccount
  <2>1. Assemble(db, a)["account"] = NoDoc
    BY <1>1 DEF Assemble, Accounts, Kinds
  <2> QED  BY <1>1, <2>1 DEF Registered, FieldsOf
<1>2. ASSUME NEW a \in Accounts(db)
      PROVE  /\ Registered[a] = [k \in ChildKinds |-> db[<<k, db[<<"account", a>>][k]>>].fields]
             /\ Registered[a] # NoAccount
             /\ \A k \in ChildKinds : Registered[a][k] \in [FieldNames -> FieldValues]
  <2> DEFINE docs == Assemble(db, a)
             child(k) == db[<<k, db[<<"account", a>>][k]>>]
  <2>1. a \in Ids /\ db[<<"account", a>>] # NoDoc
    BY DEF Accounts
  <2>2. docs["account"] # NoDoc /\ \A k \in ChildKinds : docs[k] = child(k)
    BY <2>1 DEF Assemble, Kinds, ChildKinds
  <2>3. ASSUME NEW k \in ChildKinds
        PROVE  child(k) # NoDoc /\ child(k).fields \in [FieldNames -> FieldValues]
    <3>1. k \in Kinds /\ k # "account" /\ db[<<"account", a>>][k] \in Ids /\ child(k) # NoDoc
      BY IntegrityFacts DEF Linked, ChildKinds
    <3>2. child(k) \in ChildDocs
      BY <3>1 DEF EffectsInv, SessionInv, TypeInv, TypeOK, ServerTypeOK, Stores, DocsOf
    <3> QED  BY <3>1, <3>2 DEF ChildDocs
  <2>4. FieldsOf(docs) = [k \in ChildKinds |-> child(k).fields]
    <3>1. \A k \in ChildKinds : (IF docs[k] = NoDoc THEN NoDoc ELSE docs[k].fields) = child(k).fields
      BY <2>2, <2>3
    <3> HIDE DEF docs, child
    <3> QED  BY <2>2, <3>1 DEF FieldsOf
  <2>5. Registered[a] = [k \in ChildKinds |-> child(k).fields]
    BY <2>1, <2>4 DEF Registered
  <2>6. [k \in ChildKinds |-> child(k).fields] \in [ChildKinds -> [FieldNames -> FieldValues]]
    BY <2>3
  <2> HIDE DEF child
  <2>7. Registered[a] # NoAccount
    BY <2>5, <2>6, AccountAssumption
  <2>8. \A k \in ChildKinds : Registered[a][k] \in [FieldNames -> FieldValues]
    BY <2>5, <2>6
  <2> QED  BY <2>5, <2>7, <2>8 DEF child
<1> QED  BY <1>1, <1>2 DEF AccountsShown

\* No two of them have one login, as no two credentials have.
LEMMA LoginsShown == WholeInv => LoginsDiffer
<1> SUFFICES ASSUME WholeInv PROVE LoginsDiffer
  OBVIOUS
<1>1. ASSUME NEW i \in Accounts(db), NEW j \in Accounts(db), i # j,
             Registered[i]["credential"]["login"] = Registered[j]["credential"]["login"]
      PROVE  FALSE
  <2> DEFINE ci == db[<<"account", i>>]["credential"]
             cj == db[<<"account", j>>]["credential"]
  <2>1. "credential" \in ChildKinds
    BY DEF ChildKinds, Kinds
  <2>2. /\ ci \in Ids /\ db[<<"credential", ci>>] # NoDoc /\ db[<<"credential", ci>>].parent = i
        /\ cj \in Ids /\ db[<<"credential", cj>>] # NoDoc /\ db[<<"credential", cj>>].parent = j
    BY <2>1, IntegrityFacts DEF Linked
  <2>3. /\ Registered[i]["credential"] = db[<<"credential", ci>>].fields
        /\ Registered[j]["credential"] = db[<<"credential", cj>>].fields
    <3>1. /\ Registered[i] = [k \in ChildKinds |-> db[<<k, db[<<"account", i>>][k]>>].fields]
          /\ Registered[j] = [k \in ChildKinds |-> db[<<k, db[<<"account", j>>][k]>>].fields]
      BY StoreShown DEF AccountsShown
    <3> QED  BY <2>1, <3>1
  <2>4. UniqueLogin
    BY IndexMakesUnique DEF EffectsInv, IsolationInv
  <2> HIDE DEF ci, cj
  <2>5. ci = cj
    BY <1>1, <2>2, <2>3, <2>4 DEF UniqueLogin
  <2> QED  BY <1>1, <2>2, <2>5
<1> QED  BY <1>1 DEF LoginsDiffer

\* The documents that a commit leaves alone leave an account as it was.
LEMMA AccountAlike ==
    ASSUME WholeInv, WholeInv', NEW a \in Ids,
           db'[<<"account", a>>] = db[<<"account", a>>],
           a \in Accounts(db) => \A k \in ChildKinds :
              LET i == db[<<"account", a>>][k] IN db'[<<k, i>>] = db[<<k, i>>]
    PROVE  Registered'[a] = Registered[a]
<1>1. AccountsShown /\ AccountsShown'
  BY StoreShown, PTL
<1>2. a \in Accounts(db)' <=> a \in Accounts(db)
  BY DEF Accounts
<1>3. CASE a \notin Accounts(db)
  BY <1>1, <1>2, <1>3 DEF AccountsShown
<1>4. CASE a \in Accounts(db)
  <2>1. /\ Registered[a] = [k \in ChildKinds |-> db[<<k, db[<<"account", a>>][k]>>].fields]
        /\ Registered'[a] = [k \in ChildKinds |-> db'[<<k, db'[<<"account", a>>][k]>>].fields]
    BY <1>1, <1>2, <1>4 DEF AccountsShown
  <2>2. \A k \in ChildKinds : db'[<<k, db'[<<"account", a>>][k]>>].fields
                                 = db[<<k, db[<<"account", a>>][k]>>].fields
    BY <1>4
  <2> QED  BY <2>1, <2>2
<1> QED  BY <1>3, <1>4

\* The accounts of the registry are those of the store.
LEMMA ShownIds == WholeInv => Registry!Existing = Accounts(db)
  BY StoreShown, SameStore DEF AccountsShown, Registry!Existing, Accounts

\* What an answer shows of an account is the account without its password.
LEMMA AnswerShown ==
    ASSUME NEW docs \in Bodies, docs["account"] # NoDoc, \A k \in ChildKinds : docs[k] # NoDoc
    PROVE  FieldsOf(Public(docs)) = Registry!Shown(FieldsOf(docs))
<1>1. "account" \in Kinds /\ ChildKinds \subseteq Kinds /\ \A k \in ChildKinds : k # "account"
  BY DEF Kinds, ChildKinds
<1>2. Public(docs)["account"] # NoDoc
  BY <1>1 DEF Public
<1>3. ASSUME NEW k \in ChildKinds
      PROVE  /\ Public(docs)[k] # NoDoc
             /\ Public(docs)[k].fields = [docs[k].fields EXCEPT !["password"] = Unset]
  <2>1. Public(docs)[k] = [parent |-> NoId, fields |-> [docs[k].fields EXCEPT !["password"] = Unset]]
    BY <1>1 DEF Public
  <2>2. Public(docs)[k] \in ChildDocs
    <3>1. docs[k] \in ChildDocs
      BY <1>1 DEF Bodies, DocsOf
    <3>2. docs[k].fields \in [FieldNames -> FieldValues]
      BY <3>1 DEF ChildDocs
    <3>3. Unset \in FieldValues
      BY DEF FieldValues
    <3>4. [docs[k].fields EXCEPT !["password"] = Unset] \in [FieldNames -> FieldValues]
      BY <3>2, <3>3
    <3> QED  BY <2>1, <3>4 DEF ChildDocs
  <2>3. Public(docs)[k] # NoDoc
    BY <2>2, StoreAssumption DEF Docs
  <2> QED  BY <2>1, <2>3
<1>4. FieldsOf(Public(docs)) = [k \in ChildKinds |-> [docs[k].fields EXCEPT !["password"] = Unset]]
  <2>1. \A k \in ChildKinds : (IF Public(docs)[k] = NoDoc THEN NoDoc ELSE Public(docs)[k].fields)
                                = [docs[k].fields EXCEPT !["password"] = Unset]
    BY <1>3
  <2> QED  BY <1>2, <2>1 DEF FieldsOf
<1>5. FieldsOf(docs) = [k \in ChildKinds |-> docs[k].fields]
  BY DEF FieldsOf
<1>6. Registry!Shown(FieldsOf(docs))
        = [k \in ChildKinds |-> [FieldsOf(docs)[k] EXCEPT !["password"] = Unset]]
  BY SameStore DEF Registry!Shown
<1> QED  BY <1>4, <1>5, <1>6

-----------------------------------------------------------------------------
(* The registry: what the clients are told.                                *)

\* Only handlers answer, and nobody else touches what they answer.
LEMMA OthersTellNothing ==
    ASSUME SessionInv, [Next]_vars, \A c \in Calls : ~Step(c)
    PROVE  body' = body /\ Outcomes' = Outcomes
<1>1. ASSUME NEW m, NEW result, NEW docs, Answer(m, result, docs)
      PROVE  UNCHANGED <<stage, code, body>>
  BY <1>1 DEF Answer
<1>2. ASSUME NEW c \in Calls, Serve(c) PROVE UNCHANGED <<stage, code, body>>
  BY <1>1, <1>2 DEF Serve, ServeWrite, ServeRead, ServeStranger, ServeCommit, ServeAbort, ServePlain
<1>3. CASE UNCHANGED <<stage, code, body>>
  BY <1>3 DEF Outcomes, Told
<1>4. ASSUME NEW c \in Calls, Crash(c) PROVE body' = body /\ Outcomes' = Outcomes
  <2>1. stage \in [Calls -> Stages]
    BY DEF SessionInv, TypeInv, TypeOK, CallsTypeOK
  <2>2. /\ code' = code /\ body' = body /\ stage[c] # "answered"
        /\ stage' = [stage EXCEPT ![c] = "crashed"]
    BY <1>4 DEF Crash
  <2>3. \A d \in Calls : Told(d)' = Told(d)
    BY <2>1, <2>2 DEF Told
  <2> QED  BY <2>2, <2>3 DEF Outcomes
<1>5. CASE GiveUp \/ Vanish \/ LoseReply \/ Tick \/ Quiet \/ UNCHANGED vars \/ \E c \in Calls : Reap(c)
  BY <1>3, <1>5 DEF GiveUp, Vanish, LoseReply, Tick, Quiet, vars, callVars, Reap
<1> QED  BY <1>2, <1>3, <1>4, <1>5 DEF Next, Fault

\* A call that has answered has nothing to commit any more.
LEMMA CommitUntold ==
    ASSUME SessionInv, SessionInv', PartsOnly, NEW c \in Calls, Merges(c), CommitSent(c),
           UNCHANGED <<req, stage, code, tstate>>
    PROVE  Told(c) = "none"
<1> SUFFICES ASSUME stage[c] = "answered" PROVE FALSE
  BY DEF Told
<1>1. Active(c) /\ phase'[c] = "committed"
  BY DEF Merges, Finish, SessionInv, TypeInv, TypeOK, ServerTypeOK
<1>2. CASE code[c] = "OK"
  <2>1. phase[c] = "none" /\ req[c].op = "update" /\ Parts(c) = {}
    BY <1>1, <1>2 DEF SessionInv, Disciplined, PhaseOK, Active
  <2> QED  BY <2>1 DEF PartsOnly, Partless, CommitSent, PlainReads
<1>3. CASE code[c] # "OK"
  <2>1. EndOK(c) /\ PhaseOK(c)'
    BY DEF SessionInv, Disciplined
  <2>2. tstate[c] # "committed"
    BY <1>3, <2>1 DEF EndOK
  <2>3. Decided(c)'
    BY <1>1, <2>1 DEF PhaseOK
  <2> QED  BY <2>2, <2>3 DEF Decided
<1> QED  BY <1>2, <1>3

\* What a commit does to the registry, apart from its accounts.
LEMMA CommitShown ==
    ASSUME WholeInv, SessionInv', PartsOnly, [Next]_vars, NEW c \in Calls, Merges(c), CommitSent(c),
           ~Done(c), \A d \in Calls : phase'[d] = "committed" <=> phase[d] = "committed" \/ d = c
    PROVE  /\ req' = req /\ Outcomes' = Outcomes /\ Told(c) = "none"
           /\ c \notin Concluded /\ Concluded' = Concluded \cup {c}
           /\ HandedOver' = IF req[c].op \in {"create", "delete"}
                            THEN [HandedOver EXCEPT ![c] = FieldsOf(body[c])] ELSE HandedOver
<1>0. SessionInv
  BY DEF EffectsInv
<1>1. \A d \in Calls : ~Step(d)
  BY <1>0 DEF Step, Merges, serverVars, Finish, Active, SessionInv, TypeInv, TypeOK, ServerTypeOK
<1>2. body' = body /\ Outcomes' = Outcomes
  BY <1>0, <1>1, OthersTellNothing
<1>3. req' = req
  BY <1>0, OthersSendNothing
<1>4. Told(c) = "none"
  <2> SUFFICES ASSUME stage[c] = "answered" PROVE FALSE
    BY DEF Told
  <2>1. UNCHANGED <<stage, code, tstate>>
    <3>1. ASSUME NEW m, NEW result, NEW docs, Answer(m, result, docs)
          PROVE  UNCHANGED <<stage, code, tstate>>
      BY <3>1 DEF Answer
    <3>2. ASSUME NEW d \in Calls, Serve(d) PROVE UNCHANGED <<stage, code, tstate>>
      BY <3>1, <3>2 DEF Serve, ServeWrite, ServeRead, ServeStranger, ServeCommit, ServeAbort, ServePlain
    <3>3. db' = db /\ phase' = phase => FALSE
      BY <1>0 DEF Merges, Finish, Active, SessionInv, TypeInv, TypeOK, ServerTypeOK
    <3>4. ~Fault /\ ~Tick /\ ~Quiet /\ ~UNCHANGED vars
      BY <3>3 DEF Fault, GiveUp, Vanish, LoseReply, Crash, Tick, Quiet, vars, serverVars, txnVars
    <3>5. ASSUME NEW d \in Calls, Reap(d) PROVE UNCHANGED <<stage, code, tstate>>
      BY <3>5 DEF Reap, callVars
    <3> QED  BY <1>1, <3>2, <3>4, <3>5 DEF Next
  <2>2. Told(c) = "none"
    BY <1>0, <1>3, <2>1, CommitUntold
  <2> QED  BY <2>2 DEF Told
<1>5. c \notin Concluded /\ Concluded' = Concluded \cup {c}
  BY DEF Concluded, Done
<1> DEFINE given(d) == req[d].op \in {"create", "delete"}
<1>6. \A d \in Calls : Done(d)' <=> Done(d) \/ d = c
  BY DEF Done
<1>7. \A d \in Calls : HandedOver[d] = IF Done(d) /\ given(d) THEN FieldsOf(body[d]) ELSE NoAccount
  BY DEF HandedOver
<1>8. \A d \in Calls : HandedOver'[d] = IF Done(d)' /\ given(d) THEN FieldsOf(body[d]) ELSE NoAccount
  BY <1>2, <1>3 DEF HandedOver, Done
<1>9. HandedOver = [d \in Calls |-> HandedOver[d]] /\ HandedOver' = [d \in Calls |-> HandedOver'[d]]
  BY DEF HandedOver
<1>10. \A d \in Calls : HandedOver'[d] = IF d = c /\ given(c) THEN FieldsOf(body[c]) ELSE HandedOver[d]
  BY <1>6, <1>7, <1>8
<1>11. HandedOver' = IF given(c) THEN [HandedOver EXCEPT ![c] = FieldsOf(body[c])] ELSE HandedOver
  <2> HIDE DEF given
  <2> QED  BY <1>9, <1>10
<1> QED  BY <1>2, <1>3, <1>4, <1>5, <1>11

-----------------------------------------------------------------------------
(* The registry: what a commit does to it.                                 *)

\* A commit that changes one account is an effect of its call; the account it leaves
\* has a login of its own.
LEMMA EffectShown ==
    ASSUME WholeInv, WholeInv', NEW c \in Calls, NEW i \in Ids, NEW account,
           req' = req, Outcomes' = Outcomes, Told(c) = "none",
           c \notin Concluded, Concluded' = Concluded \cup {c},
           Registered'[i] = account, \A j \in Ids \ {i} : Registered'[j] = Registered[j]
    PROVE  /\ Registry!Effect(c, i, account)
           /\ i \in Accounts(db)' => Registry!FreeFor(i, account)
<1>1. Registered' = [Registered EXCEPT ![i] = account]
  BY DEF Registered
<1>2. Registry!Effect(c, i, account)
  BY <1>1 DEF Registry!Effect, Outcomes
<1>3. ASSUME i \in Accounts(db)' PROVE Registry!FreeFor(i, account)
  <2>1. AccountsShown /\ AccountsShown' /\ LoginsDiffer'
    BY StoreShown, LoginsShown, PTL
  <2>2. ASSUME NEW j \in Accounts(db), j # i
        PROVE  Registered[j]["credential"]["login"] # account["credential"]["login"]
    <3>1. j \in Ids /\ Registered'[j] = Registered[j] /\ Registered[j] # NoAccount
      BY <2>1, <2>2 DEF AccountsShown, Accounts
    <3>2. j \in Accounts(db)'
      BY <2>1, <3>1 DEF AccountsShown
    <3> QED  BY <1>3, <2>1, <2>2, <3>1, <3>2 DEF LoginsDiffer
  <2> QED  BY <2>2, ShownIds DEF Registry!FreeFor, Registry!LoginOf
<1> QED  BY <1>2, <1>3

\* The commit of a Create or of a seed adds the account of its request.
LEMMA AddShown ==
    ASSUME WholeInv, WholeInv', NEW c \in Calls, Merges(c), CommitSent(c),
           req[c].op \in {"create", "seed"}, NEW i, i = ids[c]["account"]
    PROVE  /\ i \in Ids /\ i \notin Accounts(db) /\ i \in Accounts(db)'
           /\ Registered'[i] = Registry!Requested(c)
           /\ \A j \in Ids \ {i} : Registered'[j] = Registered[j]
           /\ \A k \in ChildKinds : Valid(k, NewPatch(c, k))
           /\ req[c].op = "seed" <=> i = req[c].id
           /\ req[c].op = "create" => FieldsOf(body[c]) = Registry!Shown(Registry!Requested(c))
<1>0. AccountsShown /\ AccountsShown'
  BY StoreShown, PTL
<1>1. Active(c)
  BY MergeFacts
<1>2. "account" \in Kinds /\ ChildKinds \subseteq Kinds
  BY DEF Kinds, ChildKinds
<1>3. \A k \in Kinds : /\ ids[c][k] \in Ids /\ db[<<k, ids[c][k]>>] = NoDoc
                       /\ <<k, ids[c][k]>> \in wrote[c] /\ Base(c)[<<k, ids[c][k]>>] # NoDoc
                       /\ db'[<<k, ids[c][k]>>] = Base(c)[<<k, ids[c][k]>>]
  BY <1>1, CreateCommit, CreateLeaves
<1>4. i \in Ids /\ i \notin Accounts(db) /\ i \in Accounts(db)'
  BY <1>2, <1>3 DEF Accounts
<1>5. Registered'[i] = Registry!Requested(c)
  <2>1. db'[<<"account", i>>] = [k \in ChildKinds |-> ids[c][k]]
    BY <1>1, <1>2, <1>3, CreateCommit
  <2>2. ASSUME NEW k \in ChildKinds
        PROVE  db'[<<k, ids[c][k]>>].fields = NewChild(k, NewPatch(c, k)).fields
    <3>1. Base(c)[<<k, ids[c][k]>>] =
             [parent |-> ids[c]["account"], fields |-> NewChild(k, NewPatch(c, k)).fields]
      BY <1>1, CreateCommit
    <3> QED  BY <1>2, <1>3, <3>1
  <2>3. Registered'[i] = [k \in ChildKinds |-> db'[<<k, db'[<<"account", i>>][k]>>].fields]
    BY <1>0, <1>4 DEF AccountsShown
  <2>4. Registered'[i] = [k \in ChildKinds |-> NewChild(k, NewPatch(c, k)).fields]
    BY <2>1, <2>2, <2>3
  <2>5. Registry!Requested(c) = [k \in ChildKinds |-> NewChild(k, NewPatch(c, k)).fields]
    <3>1. \A k \in ChildKinds :
              Registry!NewChild(k, Registry!Payload(c, k)) = NewChild(k, NewPatch(c, k))
      BY SameStore
    <3>2. Registry!ChildKinds = ChildKinds
      BY SameStore
    <3> QED  BY <3>1, <3>2 DEF Registry!Requested
  <2> QED  BY <2>4, <2>5
<1>6. ASSUME NEW j \in Ids \ {i} PROVE Registered'[j] = Registered[j]
  <2>1. db'[<<"account", j>>] = db[<<"account", j>>]
    BY <1>2, CreateLeaves
  <2>2. ASSUME j \in Accounts(db), NEW k \in ChildKinds, NEW n, n = db[<<"account", j>>][k]
        PROVE  db'[<<k, n>>] = db[<<k, n>>]
    <3>1. n \in Ids /\ db[<<k, n>>] # NoDoc
      BY <2>2, IntegrityFacts DEF Linked
    <3> QED  BY <1>2, <1>3, <3>1, CreateLeaves
  <2> QED  BY <2>1, <2>2, AccountAlike
<1>7. ASSUME NEW k \in ChildKinds PROVE Valid(k, NewPatch(c, k))
  <2>1. Creating(c, k, ids[c][k])
    BY <1>1, <1>2, <1>3, CreatedThere
  <2> QED  BY <2>1 DEF Creating, ChildKinds
<1>8. req[c].op = "seed" <=> i = req[c].id
  <2>1. CASE req[c].op = "seed"
    <3>1. req[c].id = 0
      <4>1. req[c] = SeedRequest
        BY <2>1, RequestFacts DEF EffectsInv, SessionInv
      <4> QED  BY <4>1 DEF SeedRequest
    <3>2. i \in {NoId, 0}
      BY <1>2, <2>1 DEF EffectsInv, EffectInv, Effective, EffectsOK
    <3> QED  BY <1>4, <2>1, <3>1, <3>2, IdsFacts
  <2>2. CASE req[c].op = "create"
    <3>1. req[c] \in RequestType
      BY CallAssumption DEF EffectsInv, SessionInv, TypeInv, TypeOK, CallsTypeOK
    <3>2. req[c].id = NoId
      BY <2>2, <3>1 DEF RequestType
    <3> QED  BY <1>4, <2>2, <3>2, IdsFacts
  <2> QED  BY <2>1, <2>2
<1>9. ASSUME req[c].op = "create"
      PROVE  FieldsOf(body[c]) = Registry!Shown(Registry!Requested(c))
  <2>1. db' \in Stores
    BY DEF EffectsInv, SessionInv, TypeInv, TypeOK, ServerTypeOK
  <2> DEFINE docs == Assemble(db', i)
  <2>2. docs \in Bodies
    BY <1>4, <2>1, AssembleType
  <2>3. body[c] = Public(docs)
    BY <1>9, CreateAnswers
  <2>4. docs["account"] # NoDoc /\ \A k \in ChildKinds : docs[k] # NoDoc
    <3>1. db'[<<"account", i>>] = [k \in ChildKinds |-> ids[c][k]] /\ db'[<<"account", i>>] # NoDoc
      BY <1>1, <1>2, <1>3, CreateCommit
    <3>2. \A k \in ChildKinds : db'[<<k, db'[<<"account", i>>][k]>>] # NoDoc
      BY <1>2, <1>3, <3>1
    <3> QED  BY <1>2, <3>1, <3>2 DEF Assemble, ChildKinds
  <2>5. FieldsOf(docs) = Registered'[i]
    BY <1>4 DEF Registered
  <2> HIDE DEF docs
  <2>6. FieldsOf(Public(docs)) = Registry!Shown(FieldsOf(docs))
    BY <2>2, <2>4, AnswerShown
  <2> QED  BY <1>5, <2>3, <2>5, <2>6
<1> QED  BY <1>4, <1>5, <1>6, <1>7, <1>8, <1>9

\* The commit of a DeleteOne removes the account of its request.
LEMMA RemoveShown ==
    ASSUME WholeInv, WholeInv', NEW c \in Calls, Merges(c), CommitSent(c),
           req[c].op = "delete", NEW i, i = req[c].id
    PROVE  /\ i \in Ids /\ i \in Accounts(db)
           /\ Registered'[i] = NoAccount
           /\ \A j \in Ids \ {i} : Registered'[j] = Registered[j]
           /\ FieldsOf(body[c]) = Registry!Shown(Registered[i])
<1>0. AccountsShown /\ AccountsShown'
  BY StoreShown, PTL
<1> DEFINE gone == {k \in DocKeys : db[k] # NoDoc /\ db'[k] = NoDoc}
<1>1. /\ db[<<"account", i>>] # NoDoc
      /\ body[c] = Public(Assemble(db, i))
      /\ gone = {<<"account", i>>} \cup {<<k, db[<<"account", i>>][k]>> : k \in ChildKinds}
      /\ \A k \in DocKeys \ gone : db'[k] = db[k]
  BY DeleteAnswers
<1>2. i \in Ids /\ i \in Accounts(db)
  BY MergeFacts, DeleteCommit DEF Accounts
<1>3. Registered'[i] = NoAccount
  <2>1. db'[<<"account", i>>] = NoDoc
    BY <1>1
  <2> QED  BY <1>0, <1>2, <2>1 DEF AccountsShown, Accounts
<1>4. ASSUME NEW j \in Ids \ {i} PROVE Registered'[j] = Registered[j]
  <2>1. <<"account", j>> \in DocKeys \ gone
    <3>1. \A k \in ChildKinds : k # "account"
      BY DEF ChildKinds
    <3>2. <<"account", j>> \in DocKeys
      BY DocumentKeys DEF Kinds
    <3> HIDE DEF gone
    <3> QED  BY <1>1, <3>1, <3>2
  <2>2. ASSUME j \in Accounts(db), NEW k \in ChildKinds, NEW n, n = db[<<"account", j>>][k]
        PROVE  db'[<<k, n>>] = db[<<k, n>>]
    <3>1. n \in Ids /\ db[<<k, n>>].parent = j /\ k # "account" /\ k \in Kinds
      BY <2>2, IntegrityFacts DEF Linked
    <3>2. \A h \in ChildKinds : db[<<h, db[<<"account", i>>][h]>>].parent = i
      BY <1>2, IntegrityFacts DEF Linked
    <3>3. <<k, n>> \in DocKeys
      BY <3>1, DocumentKeys
    <3> HIDE DEF gone
    <3> QED  BY <1>1, <3>1, <3>2, <3>3
  <2> HIDE DEF gone
  <2> QED  BY <1>1, <2>1, <2>2, AccountAlike
<1>5. FieldsOf(body[c]) = Registry!Shown(Registered[i])
  <2> DEFINE docs == Assemble(db, i)
  <2>1. docs \in Bodies
    BY <1>2, AssembleType DEF EffectsInv, SessionInv, TypeInv, TypeOK, ServerTypeOK
  <2>2. docs["account"] # NoDoc /\ \A k \in ChildKinds : docs[k] # NoDoc
    <3>1. \A k \in ChildKinds : db[<<k, db[<<"account", i>>][k]>>] # NoDoc
      BY <1>2, IntegrityFacts DEF Linked
    <3> QED  BY <1>1, <3>1 DEF Assemble, Kinds, ChildKinds
  <2>3. FieldsOf(docs) = Registered[i]
    BY <1>2 DEF Registered
  <2> HIDE DEF docs
  <2>4. FieldsOf(Public(docs)) = Registry!Shown(FieldsOf(docs))
    BY <2>1, <2>2, AnswerShown
  <2> QED  BY <1>1, <2>3, <2>4 DEF docs
<1> QED  BY <1>2, <1>3, <1>4, <1>5

\* The commit of an UpdateOne sets the fields of all its parts.
LEMMA ChangeShown ==
    ASSUME WholeInv, WholeInv', PartsOnly, PartsWritten,
           NEW c \in Calls, Merges(c), CommitSent(c),
           req[c].op = "update", NEW i, i = req[c].id
    PROVE  /\ i \in Ids /\ i \in Accounts(db) /\ i \in Accounts(db)'
           /\ Registered'[i] = Registry!Changed(c, i)
           /\ \A j \in Ids \ {i} : Registered'[j] = Registered[j]
           /\ \A k \in Parts(c) : Registry!Changed(c, i)[k] # Registered[i][k]
<1>0. AccountsShown /\ AccountsShown'
  BY StoreShown, PTL
<1>1. /\ Active(c)
      /\ \A k \in Keys : db'[k] = IF k \in wrote[c] THEN Base(c)[k] ELSE db[k]
  BY MergeFacts
<1>2. ChildKinds \subseteq Kinds /\ "account" \in Kinds /\ "account" \notin ChildKinds
      /\ Parts(c) \subseteq ChildKinds
  BY DEF Kinds, ChildKinds, Parts
<1>3. \A k \in Kinds, n \in Ids : <<k, n>> \in wrote[c] =>
         k \in Parts(c) /\ db[<<k, n>>].parent = i
  <2> SUFFICES ASSUME NEW k \in Kinds, NEW n \in Ids, <<k, n>> \in wrote[c]
               PROVE  k \in Parts(c) /\ db[<<k, n>>].parent = i
    OBVIOUS
  <2>1. Setting(c, k, n)
    BY <1>1 DEF EffectsInv, EffectInv, Effective, Written
  <2> QED  BY <2>1 DEF Setting, PartsWritten
<1>4. \A j \in Ids : db'[<<"account", j>>] = db[<<"account", j>>]
  BY <1>1, <1>2, <1>3, DocumentKeys
<1>5. i \in Ids /\ i \in Accounts(db) /\ i \in Accounts(db)'
  <2>1. i \in Accounts(db)
    BY UpdateWrites
  <2> QED  BY <1>4, <2>1 DEF Accounts
<1>6. ASSUME NEW j \in Ids \ {i} PROVE Registered'[j] = Registered[j]
  <2>1. ASSUME j \in Accounts(db), NEW k \in ChildKinds, NEW n, n = db[<<"account", j>>][k]
        PROVE  db'[<<k, n>>] = db[<<k, n>>]
    <3>1. n \in Ids /\ db[<<k, n>>].parent = j
      BY <2>1, IntegrityFacts DEF Linked
    <3> QED  BY <1>1, <1>2, <1>3, <3>1, DocumentKeys
  <2> QED  BY <1>4, <2>1, AccountAlike
<1> DEFINE child(k) == db[<<"account", i>>][k]
           old(k) == db[<<k, child(k)>>]
           patch(k) == NewPatch(c, IF k = "place" THEN "info" ELSE k)
           changed(k) == [f \in FieldNames |-> IF k \in Parts(c) /\ f \in Accepted(k, patch(k))
                                               THEN patch(k)[f] ELSE Registered[i][k][f]]
<1>7. ASSUME NEW k \in ChildKinds
      PROVE  /\ k \in Kinds /\ child(k) \in Ids /\ old(k) # NoDoc
             /\ Registered[i][k] = old(k).fields
             /\ old(k) = [parent |-> old(k).parent, fields |-> old(k).fields]
             /\ Registered[i][k] \in [FieldNames -> FieldValues]
  <2>1. k \in Kinds /\ child(k) \in Ids /\ old(k) # NoDoc /\ k # "account"
    BY <1>2, <1>5, IntegrityFacts DEF Linked
  <2>2. Registered[i] = [h \in ChildKinds |-> db[<<h, db[<<"account", i>>][h]>>].fields]
        /\ Registered[i][k] \in [FieldNames -> FieldValues]
    BY <1>0, <1>5 DEF AccountsShown
  <2>3. old(k) \in ChildDocs
    BY <2>1 DEF EffectsInv, SessionInv, TypeInv, TypeOK, ServerTypeOK, Stores, DocsOf
  <2> QED  BY <2>1, <2>2, <2>3 DEF ChildDocs
<1>8. ASSUME NEW k \in ChildKinds
      PROVE  /\ db'[<<k, child(k)>>].fields = changed(k)
             /\ k \in Parts(c) => changed(k) # Registered[i][k]
  <2>1. CASE k \in Parts(c)
    <3>1. PICK n \in Ids :
             /\ <<k, n>> \in wrote[c] /\ db[<<k, n>>] # NoDoc /\ db[<<k, n>>].parent = i
             /\ Base(c)[<<k, n>>] = SetFields(db[<<k, n>>], k, UpdatePatch(c, k))
             /\ Base(c)[<<k, n>>] # db[<<k, n>>]
      BY <1>1, <2>1, UpdateDone
    <3>2. n = child(k)
      BY <3>1, IntegrityFacts
    <3>3. patch(k) = UpdatePatch(c, k)
      <4>1. Setting(c, k, n)
        BY <1>1, <1>7, <3>1 DEF EffectsInv, EffectInv, Effective, Written
      <4>2. UpdatePatch(c, k) # NoPatch
        BY <4>1 DEF Setting
      <4> QED  BY <4>2 DEF UpdatePatch, NewPatch
    <3> HIDE DEF child, patch
    <3>4. SetFields(old(k), k, patch(k)) = [parent |-> old(k).parent, fields |-> changed(k)]
      <4>1. SetFields(old(k), k, patch(k)) = [parent |-> old(k).parent, fields |->
               [f \in FieldNames |-> IF f \in Accepted(k, patch(k)) THEN patch(k)[f]
                                     ELSE old(k).fields[f]]]
        BY DEF SetFields
      <4>2. changed(k) = [f \in FieldNames |-> IF f \in Accepted(k, patch(k)) THEN patch(k)[f]
                                               ELSE old(k).fields[f]]
        BY <1>7, <2>1
      <4> QED  BY <4>1, <4>2
    <3> HIDE DEF old, changed
    <3>5. db'[<<k, child(k)>>] = SetFields(old(k), k, patch(k))
      BY <1>1, <1>7, <3>1, <3>2, <3>3, DocumentKeys DEF old
    <3>6. SetFields(old(k), k, patch(k)) # old(k)
      BY <3>1, <3>2, <3>3 DEF old
    <3> QED  BY <1>7, <3>4, <3>5, <3>6
  <2>2. CASE k \notin Parts(c)
    <3>1. db'[<<k, child(k)>>] = old(k)
      BY <1>1, <1>3, <1>7, <2>2, DocumentKeys
    <3>2. changed(k) = Registered[i][k]
      <4>1. changed(k) = [f \in FieldNames |-> Registered[i][k][f]]
        BY <2>2
      <4> QED  BY <1>7, <4>1
    <3> QED  BY <1>7, <2>2, <3>1, <3>2
  <2> QED  BY <2>1, <2>2
<1>9. Registry!Changed(c, i) = [k \in ChildKinds |-> changed(k)]
  <2>1. ASSUME NEW k \in ChildKinds, NEW p, p = Registry!Payload(c, IF k = "place" THEN "info" ELSE k)
        PROVE  [f \in FieldNames |-> IF k \in Parts(c) /\ f \in Registry!Accepted(k, p)
                                     THEN p[f] ELSE Registered[i][k][f]] = changed(k)
    <3>1. (IF k = "place" THEN "info" ELSE k) \in ChildKinds
      BY DEF ChildKinds, Kinds
    <3>2. p = patch(k)
      BY <2>1, <3>1, SameStore
    <3>3. Registry!Accepted(k, p) = Accepted(k, patch(k))
      BY <3>2, SameStore
    <3> HIDE DEF patch
    <3> QED  BY <3>2, <3>3
  <2>2. Registry!ChildKinds = ChildKinds /\ Registry!FieldNames = FieldNames
        /\ Registry!Parts(c) = Parts(c)
    BY SameStore
  <2> HIDE DEF changed
  <2> QED  BY <2>1, <2>2 DEF Registry!Changed
<1>10. Registered'[i] = Registry!Changed(c, i)
  <2>1. Registered'[i] = [k \in ChildKinds |-> db'[<<k, db'[<<"account", i>>][k]>>].fields]
    BY <1>0, <1>5 DEF AccountsShown
  <2>2. \A k \in ChildKinds : db'[<<k, db'[<<"account", i>>][k]>>].fields = changed(k)
    BY <1>4, <1>5, <1>8
  <2> HIDE DEF changed
  <2> QED  BY <1>9, <2>1, <2>2
<1>11. \A k \in Parts(c) : Registry!Changed(c, i)[k] # Registered[i][k]
  <2> HIDE DEF changed
  <2> QED  BY <1>2, <1>8, <1>9
<1> QED  BY <1>5, <1>6, <1>10, <1>11

-----------------------------------------------------------------------------
(* The registry: every step of the service is one of its steps, or none.   *)

\* A commit is the effect of its call.
LEMMA CommitRefines ==
    ASSUME WholeInv, WholeInv', PartsOnly, PartsWritten, [Next]_vars,
           NEW c \in Calls, Merges(c), CommitSent(c), ~Done(c),
           \A d \in Calls : phase'[d] = "committed" <=> phase[d] = "committed" \/ d = c
    PROVE  Registry!RegistryNext
<1>1. /\ req' = req /\ Outcomes' = Outcomes /\ Told(c) = "none"
      /\ c \notin Concluded /\ Concluded' = Concluded \cup {c}
      /\ HandedOver' = IF req[c].op \in {"create", "delete"}
                       THEN [HandedOver EXCEPT ![c] = FieldsOf(body[c])] ELSE HandedOver
  BY CommitShown DEF EffectsInv
<1>2. CASE req[c].op \in {"create", "seed"}
  <2> DEFINE i == ids[c]["account"]
  <2>1. /\ i \in Ids /\ i \notin Accounts(db) /\ i \in Accounts(db)'
        /\ Registered'[i] = Registry!Requested(c)
        /\ \A j \in Ids \ {i} : Registered'[j] = Registered[j]
        /\ \A k \in ChildKinds : Valid(k, NewPatch(c, k))
        /\ req[c].op = "seed" <=> i = req[c].id
        /\ req[c].op = "create" => FieldsOf(body[c]) = Registry!Shown(Registry!Requested(c))
    BY <1>2, AddShown
  <2> HIDE DEF i
  <2>2. Registry!Effect(c, i, Registry!Requested(c)) /\ Registry!FreeFor(i, Registry!Requested(c))
    BY <1>1, <2>1, EffectShown
  <2>3. Registry!FreeFor(Registry!NoId, Registry!Requested(c))
    <3>1. i \notin Registry!Existing
      BY <2>1, ShownIds
    <3> QED  BY <2>2, <3>1 DEF Registry!FreeFor
  <2>4. \A k \in Registry!ChildKinds : Registry!Valid(k, Registry!Payload(c, k))
    BY <2>1, SameStore
  <2>5. i \in Registry!Ids \ Registry!Existing
    BY <2>1, ShownIds, SameStore
  <2>6. HandedOver' = IF req[c].op = "seed" THEN HandedOver
                      ELSE [HandedOver EXCEPT ![c] = Registry!Shown(Registry!Requested(c))]
    BY <1>1, <1>2, <2>1
  <2>7. Registry!Add(c)
    BY <1>2, <2>1, <2>2, <2>3, <2>4, <2>5, <2>6 DEF Registry!Add
  <2> QED  BY <2>7 DEF Registry!RegistryNext
<1>3. CASE req[c].op = "update"
  <2> DEFINE i == req[c].id
  <2>1. /\ i \in Ids /\ i \in Accounts(db) /\ i \in Accounts(db)'
        /\ Registered'[i] = Registry!Changed(c, i)
        /\ \A j \in Ids \ {i} : Registered'[j] = Registered[j]
        /\ \A k \in Parts(c) : Registry!Changed(c, i)[k] # Registered[i][k]
    BY <1>3, ChangeShown
  <2>2. Registry!Effect(c, i, Registry!Changed(c, i)) /\ Registry!FreeFor(i, Registry!Changed(c, i))
    <3> HIDE DEF i
    <3> QED  BY <1>1, <2>1, EffectShown
  <2>3. i \in Registry!Existing /\ Registry!Parts(c) = Parts(c)
    BY <2>1, ShownIds, SameStore
  <2>4. HandedOver' = HandedOver
    BY <1>1, <1>3
  <2>5. Registry!Change(c)
    BY <1>3, <2>1, <2>2, <2>3, <2>4 DEF Registry!Change
  <2> QED  BY <2>5 DEF Registry!RegistryNext
<1>4. CASE req[c].op = "delete"
  <2> DEFINE i == req[c].id
  <2>1. /\ i \in Ids /\ i \in Accounts(db)
        /\ Registered'[i] = NoAccount
        /\ \A j \in Ids \ {i} : Registered'[j] = Registered[j]
        /\ FieldsOf(body[c]) = Registry!Shown(Registered[i])
    BY <1>4, RemoveShown
  <2>2. Registry!Effect(c, i, NoAccount)
    <3> HIDE DEF i
    <3> QED  BY <1>1, <2>1, EffectShown
  <2>3. i \in Registry!Existing
    BY <2>1, ShownIds
  <2>4. HandedOver' = [HandedOver EXCEPT ![c] = Registry!Shown(Registered[i])]
    BY <1>1, <1>4, <2>1
  <2>5. Registry!Remove(c)
    BY <1>4, <2>2, <2>3, <2>4 DEF Registry!Remove
  <2> QED  BY <2>5 DEF Registry!RegistryNext
<1> QED  BY <1>2, <1>3, <1>4, RequestFacts DEF EffectsInv, SessionInv

\* What a handler is about to answer does not change once its transaction is committed.
LEMMA AnswerKept ==
    ASSUME SessionInv, NEW c \in Calls, Handle(c), Done(c)
    PROVE  body'[c] = body[c]
<1>1. stage[c] \notin Waiting
  <2>1. Decided(c) /\ WaitOK(c)
    BY DEF SessionInv, Disciplined, PhaseOK, Done
  <2> QED  BY <2>1 DEF Waiting, Stages, Over, Decided, WaitOK
<1>2. \A st, r : Awaited(c, st, r) => st \notin Waiting
  BY <1>1 DEF Awaited
<1>3. {"saving", "account", "linking", "aggregating", "setting", "finding", "populating",
       "listing", "deleting"} \subseteq Waiting
  BY DEF Waiting, Stages, Over
<1>4. ~Aggregated(c) /\ ~Found(c) /\ ~Populated(c) /\ ~Listed(c)
  BY <1>2, <1>3 DEF Aggregated, Found, Populated, Listed
<1>5. CASE Create(c) \/ SeedAccount(c)
  BY <1>4, <1>5 DEF Create, SeedAccount, CreateBegin, ChildSaved, ChildDuplicate, ChildAbortDone,
     ChildRejected, AccountSaved, ParentLinked, StepRejected, SeedBegin, SeedSaved, SeedLinked,
     SeedRejected
<1>6. CASE UpdateOne(c) \/ DeleteOne(c)
  BY <1>4, <1>6, OmittedFacts
  DEF UpdateOne, DeleteOne, UpdateBegin, PartSet, PartRejected, NotFound,
     DeleteInvalid, DeleteBegin, ListRejected, Deleted, DeleteRejected, Refuse
<1>7. CASE NotConnected(c) \/ Dispatch(c) \/ AbortDone(c) \/ Committed(c) \/ CommitFailed(c)
  BY <1>7 DEF NotConnected, Refuse, Dispatch, AbortDone, Committed, CommitFailed
<1> QED  BY <1>5, <1>6, <1>7 DEF Handle

\* A step of a handler tells the client something, or nothing; it has no effect.
LEMMA StepRefines ==
    ASSUME WholeInv, SessionInv', NEW c \in Calls, Step(c), req' = req
    PROVE  Registry!RegistryNext \/ UNCHANGED Registry!registryVars
<1>0. SessionInv /\ Handle(c) /\ UNCHANGED serverVars /\ db' = db /\ phase' = phase
  BY DEF EffectsInv, Step, serverVars
<1>1. \A d \in Calls \ {c} : stage'[d] = stage[d] /\ code'[d] = code[d] /\ body'[d] = body[d]
  BY <1>0, HandleAlone, HandleOwn DEF Untouched
<1>2. Registered' = Registered
  BY <1>0 DEF Registered
<1>3. Concluded' = Concluded
  BY <1>0 DEF Concluded, Done
<1>4. HandedOver' = HandedOver
  <2>1. \A d \in Calls : Done(d) => body'[d] = body[d]
    BY <1>0, <1>1, AnswerKept
  <2>2. \A d \in Calls : Done(d)' <=> Done(d)
    BY <1>0 DEF Done
  <2>3. \A d \in Calls : HandedOver'[d] = HandedOver[d]
    BY <2>1, <2>2 DEF HandedOver
  <2>4. HandedOver = [d \in Calls |-> HandedOver[d]] /\ HandedOver' = [d \in Calls |-> HandedOver'[d]]
    BY DEF HandedOver
  <2> QED  BY <2>3, <2>4
<1>5. \A d \in Calls \ {c} : Outcomes'[d] = Outcomes[d]
  BY <1>1 DEF Outcomes, Told
<1>6. Outcomes \in [Calls -> {"none", "OK", "refused"}] /\ Outcomes' \in [Calls -> {"none", "OK", "refused"}]
  BY DEF Outcomes, Told
<1>7. CASE Outcomes'[c] = Outcomes[c]
  <2>1. Outcomes' = Outcomes
    BY <1>5, <1>6, <1>7
  <2> QED  BY <1>2, <1>3, <1>4, <2>1 DEF Registry!registryVars
<1>8. CASE Outcomes'[c] # Outcomes[c]
  <2>1. stage[c] # "answered" /\ Outcomes[c] = "none"
    BY <1>0, <1>8, AnsweredOnce DEF Outcomes, Told
  <2>2. stage'[c] = "answered" /\ Outcomes'[c] = IF code'[c] = "OK" THEN "OK" ELSE "refused"
    BY <1>8, <2>1 DEF Outcomes, Told
  <2>3. Outcomes' = [Outcomes EXCEPT ![c] = Outcomes'[c]]
    BY <1>5, <1>6
  <2>4. Registry!Tell(c, Outcomes'[c])
    BY <1>2, <1>3, <1>4, <2>1, <2>3 DEF Registry!Tell
  <2>5. EndOK(c)' /\ PhaseOK(c)'
    BY DEF SessionInv, Disciplined
  <2>6. CASE code'[c] = "OK"
    <3>1. phase'[c] = "committed" \/ (req[c].op = "update" /\ Parts(c)' = {})
      BY <2>2, <2>5, <2>6 DEF PhaseOK
    <3>2. c \in Concluded \/ (req[c].op = "update" /\ Registry!Parts(c) = {})
      <4>1. Parts(c)' = Parts(c)
        BY DEF Parts
      <4> QED  BY <1>0, <3>1, <4>1, SameStore DEF Concluded, Done
    <3>3. Registry!Confirm(c)
      BY <2>2, <2>4, <2>6, <3>2 DEF Registry!Confirm
    <3> QED  BY <3>3 DEF Registry!RegistryNext
  <2>7. CASE code'[c] # "OK"
    <3>1. tstate'[c] # "committed"
      BY <2>2, <2>5, <2>7 DEF EndOK
    <3>2. phase'[c] # "committed"
      BY <2>2, <2>5, <3>1 DEF PhaseOK, Decided
    <3>3. c \notin Concluded
      BY <1>0, <3>2 DEF Concluded, Done
    <3>4. Registry!Decline(c)
      BY <2>2, <2>4, <2>7, <3>3 DEF Registry!Decline
    <3> QED  BY <3>4 DEF Registry!RegistryNext
  <2> QED  BY <2>6, <2>7
<1> QED  BY <1>7, <1>8

\* Every step of the service is a step of the registry or leaves it unchanged.
LEMMA NextRefines ==
    WholeInv /\ WholeInv' /\ PartsOnly /\ PartsWritten /\ [Next]_vars
        => [Registry!RegistryNext]_Registry!registryVars
<1> SUFFICES ASSUME WholeInv, WholeInv', PartsOnly, PartsWritten, [Next]_vars
             PROVE  Registry!RegistryNext \/ UNCHANGED Registry!registryVars
  OBVIOUS
<1>1. req' = req /\ SessionInv /\ SessionInv'
  BY OthersSendNothing DEF EffectsInv
<1>2. CASE \E c \in Calls : Step(c)
  BY <1>1, <1>2, StepRefines
<1>3. ASSUME NEW c \in Calls, Merges(c), CommitSent(c), phase[c] # "committed",
             \A d \in Calls : phase'[d] = "committed" <=> phase[d] = "committed" \/ d = c
      PROVE  Registry!RegistryNext
  BY <1>3, CommitRefines DEF Done
<1>4. ASSUME \A c \in Calls : ~Step(c), db' = db,
             \A c \in Calls : phase'[c] = "committed" <=> phase[c] = "committed"
      PROVE  UNCHANGED Registry!registryVars
  <2>1. body' = body /\ Outcomes' = Outcomes
    BY <1>1, <1>4, OthersTellNothing
  <2>2. Registered' = Registered
    BY <1>4 DEF Registered
  <2>3. \A d \in Calls : Done(d)' <=> Done(d)
    BY <1>4 DEF Done
  <2>4. Concluded' = Concluded
    BY <2>3 DEF Concluded
  <2>5. \A d \in Calls : HandedOver'[d] = HandedOver[d]
    BY <1>1, <2>1, <2>3 DEF HandedOver
  <2>6. HandedOver = [d \in Calls |-> HandedOver[d]] /\ HandedOver' = [d \in Calls |-> HandedOver'[d]]
    BY DEF HandedOver
  <2>7. HandedOver' = HandedOver
    BY <2>5, <2>6
  <2> QED  BY <1>1, <2>1, <2>2, <2>4, <2>7 DEF Registry!registryVars
<1> QED  BY <1>2, <1>3, <1>4, CommittedStays

\* The service starts as a registry without accounts, or with that of the seeder.
LEMMA InitRefines == Init /\ WholeInv => Registry!RegistryInit
<1> SUFFICES ASSUME Init, WholeInv PROVE Registry!RegistryInit
  OBVIOUS
<1>1. /\ req \in Workloads /\ db \in {EmptyStore, SeededStore}
      /\ \A c \in Calls : stage[c] = "new" /\ phase[c] = "none"
  BY ServerAssumption DEF Init, CallsInit, ServerInit
<1>2. Concluded = {} /\ HandedOver = [c \in Calls |-> NoAccount] /\ Outcomes = [c \in Calls |-> "none"]
  <2>1. \A c \in Calls : ~Done(c) /\ Told(c) = "none"
    BY <1>1 DEF Done, Told
  <2> QED  BY <2>1 DEF Concluded, HandedOver, Outcomes
<1>3. CASE db = EmptyStore
  <2>1. \A i \in Ids : db[<<"account", i>>] = NoDoc
    BY <1>3, DocumentKeys DEF EmptyStore, Kinds
  <2>2. \A i \in Ids : Registered[i] = NoAccount
    BY <2>1, StoreShown DEF AccountsShown, Accounts
  <2>3. Registered \in [Ids -> {NoAccount}]
    BY <2>2 DEF Registered
  <2> QED  BY <1>1, <1>2, <2>3, SameStore DEF Registry!RegistryInit
<1>4. CASE db = SeededStore
  <2> DEFINE account == [k \in ChildKinds |-> SeedChild(k).fields]
  <2>1. /\ "account" \in Kinds /\ ChildKinds \subseteq Kinds /\ "account" \notin ChildKinds
        /\ 0 \in Ids
    BY StoreAssumption DEF Kinds, ChildKinds, Ids
  <2>2. /\ db[<<"account", 0>>] = [child \in ChildKinds |-> 0]
        /\ \A k \in ChildKinds : db[<<k, 0>>] = SeedChild(k)
        /\ \A i \in Ids \ {0} : db[<<"account", i>>] = NoDoc
    BY <1>4, <2>1, SeededDocs
  <2>3. \A i \in Ids \ {0} : Registered[i] = NoAccount
    BY <2>2, StoreShown DEF AccountsShown, Accounts
  <2>4. Registered[0] = account
    <3>1. 0 \in Accounts(db)
      BY <1>4, <2>1, SeededThere DEF Accounts
    <3>2. Registered[0] = [k \in ChildKinds |-> db[<<k, db[<<"account", 0>>][k]>>].fields]
      BY <3>1, StoreShown DEF AccountsShown
    <3>3. \A k \in ChildKinds : db[<<k, db[<<"account", 0>>][k]>>].fields = SeedChild(k).fields
      BY <2>2
    <3> QED  BY <3>2, <3>3
  <2>5. account = [k \in Registry!ChildKinds |-> Registry!SeedChild(k).fields]
    <3>1. Registry!ChildKinds = ChildKinds /\ \A k : Registry!SeedChild(k) = SeedChild(k)
      BY SameStore
    <3> QED  BY <3>1
  <2> HIDE DEF account
  <2>6. Registered = [i \in Ids |-> IF i = 0 THEN account ELSE NoAccount]
    <3>1. Registered = [i \in Ids |-> Registered[i]]
      BY DEF Registered
    <3> QED  BY <2>3, <2>4, <3>1
  <2>7. Registry!Ids = Ids
    BY SameStore
  <2> QED  BY <1>1, <1>2, <2>5, <2>6, <2>7 DEF Registry!RegistryInit
<1> QED  BY <1>1, <1>3, <1>4

\* Whatever is lost, overtaken, given up or crashes, the service is the registry of
\* whole accounts that its interface promises: every call takes effect at once, or not
\* at all, and the answer says which.
THEOREM ImplementsRegistryHolds == Spec => ImplementsRegistry
<1>1. Init /\ WholeInv => Registry!RegistryInit
  BY InitRefines
<1>2. WholeInv /\ WholeInv' /\ PartsOnly /\ PartsWritten /\ [Next]_vars
        => [Registry!RegistryNext]_Registry!registryVars
  BY NextRefines
<1>3. StartInv => PartsOnly
  BY DEF StartInv
<1> QED  BY <1>1, <1>2, <1>3, WholeCorrect, StartCorrect, PartsWrittenHolds, PTL
            DEF Spec, ImplementsRegistry, Registry!Spec
=============================================================================
