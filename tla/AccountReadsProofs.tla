------------------------- MODULE AccountReadsProofs -------------------------
(***************************************************************************)
(* What the answers of the reads show, for any number of readers and of    *)
(* writers, any requests and any bounds.                                   *)
(***************************************************************************)
EXTENDS AccountReads, AccountIntegrityProofs, FiniteSetTheorems

\* What every step of a reader or a writer keeps.
ReadersInv == WholeInv /\ ReadsTypeOK /\ ReadInv

\* What reader r knows at any time.
ReaderOK(r) == InOrder(r) /\ Owned(r) /\ \A i \in Ids : Tracked(r, i) /\ RowOK(r, i)

-----------------------------------------------------------------------------
(* The accounts, as the calls add and remove them.                         *)

\* Nobody changes a request.
LEMMA RequestsStay ==
    ASSUME [Next]_vars
    PROVE  req' = req
<1>1. ASSUME NEW c \in Calls, Handle(c) PROVE req' = req
  <2>1. CASE Create(c) \/ SeedAccount(c)
    BY <2>1 DEF Create, SeedAccount, CreateBegin, ChildSaved, ChildDuplicate, ChildAbortDone,
       ChildRejected, AccountSaved, ParentLinked, Aggregated, StepRejected, SeedBegin,
       SeedSaved, SeedLinked, SeedRejected
  <2>2. CASE UpdateOne(c) \/ DeleteOne(c)
    BY <2>2, OmittedFacts
    DEF UpdateOne, DeleteOne, UpdateBegin, PartSet, PartRejected, Found, NotFound, Populated,
       DeleteInvalid, DeleteBegin, Listed, ListRejected, Deleted, DeleteRejected,
       Refuse
  <2>3. CASE NotConnected(c) \/ Dispatch(c) \/ AbortDone(c) \/ Committed(c) \/ CommitFailed(c)
    BY <2>3 DEF NotConnected, Dispatch, AbortDone, Committed, CommitFailed, Refuse
  <2> QED  BY <1>1, <2>1, <2>2, <2>3 DEF Handle
<1>2. ASSUME NEW c \in Calls, Serve(c) PROVE req' = req
  <2>1. \A m, result, docs : Answer(m, result, docs) => req' = req
    BY DEF Answer
  <2> QED  BY <1>2, <2>1 DEF Serve, ServeWrite, ServeRead, ServeStranger, ServeCommit, ServeAbort,
           ServePlain
<1>3. CASE Fault \/ Tick \/ Quiet \/ UNCHANGED vars \/ \E c \in Calls : Reap(c)
  BY <1>3 DEF Fault, GiveUp, Vanish, LoseReply, Crash, Tick, Quiet, Reap, vars, callVars
<1> QED  BY <1>1, <1>2, <1>3 DEF Next, Step

\* A call that is committed does not change its ids any more.
LEMMA IdsStay ==
    ASSUME EffectsInv, [Next]_vars, NEW c \in Calls, phase'[c] = "committed"
    PROVE  ids'[c] = ids[c]
<1> USE DEF EffectsInv, SessionInv
<1>1. ASSUME NEW d \in Calls, Step(d) PROVE ids'[c] = ids[c]
  <2>1. CASE d # c
    BY <1>1, <2>1, HandleAlone, HandleOwn DEF Step
  <2>2. CASE d = c
    <3>1. phase[c] = "committed" /\ Handle(c)
      BY <1>1, <2>2 DEF Step, serverVars
    <3>2. stage[c] \in Over /\ stage[c] # "saving"
      BY <3>1 DEF Disciplined, PhaseOK, Decided, EndOK, Over
    <3> QED  BY <3>1, <3>2, OverActs DEF ChildDuplicate, ChildAbortDone, Dispatch, AbortDone,
             Committed, CommitFailed
  <2> QED  BY <2>1, <2>2
<1>2. ASSUME NEW d \in Calls, Serve(d) PROVE ids' = ids
  <2>1. \A m, result, docs : Answer(m, result, docs) => ids' = ids
    BY DEF Answer
  <2> QED  BY <1>2, <2>1 DEF Serve, ServeWrite, ServeRead, ServeStranger, ServeCommit, ServeAbort,
           ServePlain
<1>3. CASE Fault \/ Tick \/ Quiet \/ UNCHANGED vars \/ \E d \in Calls : Reap(d)
  BY <1>3 DEF Fault, GiveUp, Vanish, LoseReply, Crash, Tick, Quiet, Reap, vars, callVars
<1> QED  BY <1>1, <1>2, <1>3 DEF Next

\* This step commits a DeleteOne of account i.
Removal(i) ==
    \E c \in Calls : /\ phase[c] # "committed" /\ phase'[c] = "committed"
                     /\ req[c].op = "delete" /\ req[c].id = i

\* This step commits a Create, or a seed, of account i.
Addition(i) == \E c \in Calls : phase[c] # "committed" /\ Adds(c, i)'

\* What the calls have done to an account is remembered.
LEMMA CommitsStay ==
    ASSUME EffectsInv, [Next]_vars, NEW i \in Ids
    PROVE  /\ \A c \in Calls : Adds(c, i) => Adds(c, i)'
           /\ Added(i) => Added(i)'
           /\ Removed(i) => Removed(i)'
           /\ Remade(i) => Remade(i)'
<1>1. \A c \in Calls : Adds(c, i) => Adds(c, i)'
  BY RequestsStay, CommittedStays, IdsStay DEF Adds
<1>2. Removed(i) => Removed(i)'
  BY RequestsStay, CommittedStays DEF Removed
<1> QED  BY <1>1, <1>2 DEF Added, Remade

\* An account is added by a Create or a seed and removed by a DeleteOne, each when
\* the other has left it so.
LEMMA AccountsChange ==
    ASSUME WholeInv, [Next]_vars, NEW i \in Ids
    PROVE  \/ /\ db'[<<"account", i>>] = db[<<"account", i>>]
              /\ (Added(i)' <=> Added(i)) /\ (Removed(i)' <=> Removed(i))
           \/ /\ db[<<"account", i>>] = NoDoc /\ db'[<<"account", i>>] # NoDoc
              /\ Addition(i) /\ (Removed(i)' <=> Removed(i))
           \/ /\ db[<<"account", i>>] # NoDoc /\ db'[<<"account", i>>] = NoDoc
              /\ Removal(i) /\ Removed(i)' /\ (Added(i)' <=> Added(i))
<1> DEFINE k == <<"account", i>>
<1>1. EffectsInv /\ req' = req /\ "account" \in Kinds /\ k \in Keys
  BY RequestsStay, DocumentKeys DEF WholeInv, Kinds
<1>2. \A c \in Calls : phase'[c] = "committed" => ids'[c] = ids[c]
  BY <1>1, IdsStay
<1>3. (Added(i) => Added(i)') /\ (Removed(i) => Removed(i)')
  BY <1>1, CommitsStay
<1>4. CASE db' = db /\ \A c \in Calls : phase'[c] = "committed" => phase[c] = "committed"
  <2>1. (Added(i)' => Added(i)) /\ (Removed(i)' => Removed(i))
    BY <1>1, <1>2, <1>4 DEF Adds, Added, Removed
  <2> QED  BY <1>3, <1>4, <2>1
<1>5. ASSUME NEW c \in Calls, Merges(c), CommitSent(c), phase[c] # "committed",
             \A d \in Calls : phase'[d] = "committed" <=> phase[d] = "committed" \/ d = c
      PROVE  \/ /\ db'[k] = db[k]
                /\ (Added(i)' <=> Added(i)) /\ (Removed(i)' <=> Removed(i))
             \/ /\ db[k] = NoDoc /\ db'[k] # NoDoc
                /\ Addition(i) /\ (Removed(i)' <=> Removed(i))
             \/ /\ db[k] # NoDoc /\ db'[k] = NoDoc
                /\ Removal(i) /\ Removed(i)' /\ (Added(i)' <=> Added(i))
  <2>1. /\ Active(c) /\ phase'[c] = "committed" /\ ids'[c] = ids[c]
        /\ db'[k] = IF k \in wrote[c] THEN Base(c)[k] ELSE db[k]
    BY <1>1, <1>2, <1>5, MergeFacts
  <2>2. /\ Added(i)' => Added(i) \/ (req[c].op \in {"create", "seed"} /\ ids[c]["account"] = i)
        /\ Removed(i)' => Removed(i) \/ (req[c].op = "delete" /\ req[c].id = i)
    BY <1>1, <1>2, <1>5 DEF Adds, Added, Removed
  <2>3. CASE req[c].op \in {"create", "seed"}
    <3>1. IF i = ids[c]["account"] THEN db[k] = NoDoc /\ db'[k] # NoDoc
          ELSE db'[k] = db[k]
      <4>1. IF i = ids[c]["account"] THEN db[k] = NoDoc /\ db'[k] = Base(c)[k]
            ELSE db'[k] = db[k]
        BY <1>1, <1>5, <2>3, CreateLeaves
      <4>2. Base(c)[<<"account", ids[c]["account"]>>] # NoDoc
        BY <1>1, <1>5, <2>1, <2>3, CreateCommit
      <4> QED  BY <4>1, <4>2
    <3>2. i = ids[c]["account"] => Addition(i)
      BY <1>1, <1>5, <2>1, <2>3 DEF Adds, Addition
    <3> QED  BY <1>3, <2>2, <2>3, <3>1, <3>2
  <2>4. CASE req[c].op = "update"
    <3>1. k \notin wrote[c]
      <4>1. "account" \notin ChildKinds
        BY DEF ChildKinds
      <4> QED  BY <1>1, <1>5, <2>1, <2>4, <4>1, UpdateCommit
    <3> QED  BY <1>3, <2>1, <2>2, <2>4, <3>1
  <2>5. CASE req[c].op = "delete"
    <3>1. /\ k \in wrote[c] <=> i = req[c].id
          /\ k \in wrote[c] => db[k] # NoDoc /\ Base(c)[k] = NoDoc
      BY <1>1, <1>5, <2>1, <2>5, DeleteCommit DEF Accounts
    <3>2. i = req[c].id => Removed(i)' /\ Removal(i)
      BY <1>1, <1>5, <2>1, <2>5 DEF Removed, Removal
    <3> QED  BY <1>3, <2>1, <2>2, <2>5, <3>1, <3>2
  <2> QED  BY <1>1, <2>3, <2>4, <2>5, RequestFacts DEF EffectsInv, SessionInv
<1> QED  BY <1>1, <1>4, <1>5, CommittedStays

\* What a call did to an account lasts until another call undoes it.
LEMMA LastingStays ==
    ASSUME WholeInv, Lasting, [Next]_vars
    PROVE  Lasting'
<1> SUFFICES ASSUME NEW i \in Ids
             PROVE  /\ Added(i)' => db'[<<"account", i>>] # NoDoc \/ Removed(i)'
                    /\ Removed(i)' => db'[<<"account", i>>] = NoDoc \/ Remade(i)'
                    /\ Removed(i)' \/ db'[<<"account", i>>] # NoDoc => i = 0 \/ Added(i)'
  BY DEF Lasting, Accounts
<1>1. /\ Added(i) => db[<<"account", i>>] # NoDoc \/ Removed(i)
      /\ Removed(i) => db[<<"account", i>>] = NoDoc \/ Remade(i)
      /\ Removed(i) \/ db[<<"account", i>>] # NoDoc => i = 0 \/ Added(i)
  BY DEF Lasting, Accounts
<1>2. /\ \A c \in Calls : Adds(c, i) => Adds(c, i)'
      /\ Remade(i) => Remade(i)'
  BY CommitsStay DEF WholeInv
<1>3. ASSUME Addition(i)
      PROVE  Added(i)' /\ (Removed(i) => Remade(i)')
  <2>1. PICK c \in Calls : phase[c] # "committed" /\ Adds(c, i)'
    BY <1>3 DEF Addition
  <2>2. Added(i)'
    BY <2>1 DEF Added
  <2>3. ASSUME Removed(i) PROVE Remade(i)'
    <3>1. CASE i = 0
      BY <2>1, <3>1 DEF Remade
    <3>2. CASE i # 0
      <4>1. PICK d \in Calls : Adds(d, i)
        BY <1>1, <2>3, <3>2 DEF Added
      <4>2. d # c /\ Adds(d, i)'
        BY <1>2, <2>1, <4>1 DEF Adds
      <4> QED  BY <2>1, <4>2 DEF Remade
    <3> QED  BY <3>1, <3>2
  <2> QED  BY <2>2, <2>3
<1> QED  BY <1>1, <1>2, <1>3, AccountsChange

-----------------------------------------------------------------------------
(* The step of a writer.                                                   *)

\* A call that commits has not been answered when any read began.
LEMMA SinceStays ==
    ASSUME ReadersInv, [Next]_vars, UNCHANGED readVars, NEW r \in Readers, NEW i \in Ids
    PROVE  /\ RemovedSince(r, i) => RemovedSince(r, i)'
           /\ AddedSince(r, i) => AddedSince(r, i)'
           /\ \/ db'[<<"account", i>>] = db[<<"account", i>>]
              \/ db[<<"account", i>>] = NoDoc /\ AddedSince(r, i)'
              \/ db'[<<"account", i>>] = NoDoc /\ RemovedSince(r, i)'
<1>1. before' = before /\ req' = req /\ EffectsInv
  BY RequestsStay DEF readVars, history, ReadersInv, WholeInv
<1>2. \A c \in Calls : phase[c] = "committed" => phase'[c] = "committed"
  BY <1>1, CommittedStays
<1>3. \A c \in before[r] : phase[c] = "committed" \/ req[c].op = "update"
  BY DEF ReadersInv, ReadInv, InOrder
<1>4. Removal(i) => RemovedSince(r, i)'
  BY <1>1, <1>3 DEF Removal, RemovedSince
<1>5. RemovedSince(r, i) => RemovedSince(r, i)'
  BY <1>1, <1>2 DEF RemovedSince
<1>6. Addition(i) => AddedSince(r, i)'
  BY <1>1, <1>3 DEF Addition, Adds, AddedSince
<1>7. AddedSince(r, i) => AddedSince(r, i)'
  BY <1>1, CommitsStay DEF AddedSince
<1> QED  BY <1>4, <1>5, <1>6, <1>7, AccountsChange DEF ReadersInv

\* Whatever a writer does, what the readers know stays true of the store, or the
\* account they know it of is removed, or added.
LEMMA WriterKeeps ==
    ASSUME ReadersInv, [Next]_vars, UNCHANGED readVars
    PROVE  ReadInv'
<1> USE DEF ReadersInv
<1>1. /\ query' = query /\ rstage' = rstage /\ rcode' = rcode /\ found' = found /\ rows' = rows
      /\ ahead' = ahead /\ before' = before /\ there' = there /\ EffectsInv /\ req' = req
  BY RequestsStay DEF readVars, history, WholeInv
<1>2. before \in [Readers -> SUBSET Calls]
  BY DEF ReadsTypeOK
<1>3. \A c \in Calls : phase[c] = "committed" => phase'[c] = "committed" /\ ids'[c] = ids[c]
  BY <1>1, CommittedStays, IdsStay
<1>4. Lasting'
  BY LastingStays DEF ReadInv
<1>5. ASSUME NEW r \in Readers PROVE InOrder(r)'
  <2>1. InOrder(r)
    BY DEF ReadInv
  <2>2. Pipeline(r)' = Pipeline(r) /\ Matched(r)' = Matched(r)
    BY <1>1 DEF Pipeline, Matched
  <2>3. (\A i \in Ids : Complete(r, i)' <=> Complete(r, i)) /\ Result(r)' = Result(r)
    BY <1>1, <2>2 DEF Complete, Result
  <2>4. Ran(r) => Ran(r)'
    BY <1>1, <2>2, <2>3 DEF Ran, Full, Complete
  <2> QED  BY <1>1, <1>2, <1>3, <2>1, <2>4 DEF InOrder
<1>6. ASSUME NEW r \in Readers PROVE Owned(r)'
  <2> SUFFICES ASSUME found[r] # NoDoc PROVE Owned(r)'
    BY <1>1 DEF Owned
  <2>0. PICK i \in Ids : i = found[r].doc.parent
    BY DEF ReadInv, Owned
  <2>1. /\ query[r].op = "auth"
        /\ \/ RemovedSince(r, i)
           \/ db[<<"account", i>>] # NoDoc /\ db[<<"account", i>>]["credential"] = found[r].credential
    BY <2>0 DEF ReadInv, Owned, Accounts
  <2>2. \/ RemovedSince(r, i)'
        \/ db'[<<"account", i>>] # NoDoc /\ db'[<<"account", i>>]["credential"] = found[r].credential
    <3>1. CASE RemovedSince(r, i)'
      BY <3>1
    <3>2. CASE db'[<<"account", i>>] = db[<<"account", i>>] /\ ~RemovedSince(r, i)
      BY <2>1, <3>2
    <3> QED  BY <2>1, <3>1, <3>2, SinceStays
  <2> QED  BY <1>1, <2>0, <2>1, <2>2 DEF Owned, Accounts
<1>7. ASSUME NEW r \in Readers, NEW i \in Ids PROVE Tracked(r, i)'
  <2>1. rstage[r] # "new" =>
           /\ i \in there[r] => db[<<"account", i>>] # NoDoc \/ RemovedSince(r, i)
           /\ db[<<"account", i>>] # NoDoc => i \in there[r] \/ AddedSince(r, i)
    BY DEF ReadInv, Tracked, Accounts
  <2>2. rstage[r] # "new" =>
           /\ i \in there[r] => db'[<<"account", i>>] # NoDoc \/ RemovedSince(r, i)'
           /\ db'[<<"account", i>>] # NoDoc => i \in there[r] \/ AddedSince(r, i)'
    BY <2>1, SinceStays
  <2> QED  BY <1>1, <2>2 DEF Tracked, Accounts
<1>8. ASSUME NEW r \in Readers, NEW i \in Ids PROVE RowOK(r, i)'
  <2>1. RowOK(r, i)
    BY DEF ReadInv
  <2>2. Pipeline(r)' = Pipeline(r)
    BY <1>1 DEF Pipeline
  <2>3. Expected(r, i)' => Expected(r, i)
    <3>1. \A c \in before[r] : req[c].op = "create" => phase[c] = "committed"
      BY DEF ReadInv, InOrder
    <3> QED  BY <1>1, <1>2, <1>3, <3>1 DEF Expected
  <2>4. Unexpected(r, i)' => Unexpected(r, i)
    BY <1>1 DEF Unexpected
  <2>5. (Remade(i) => Remade(i)') /\ (Removed(i) => Removed(i)')
    BY <1>1, CommitsStay
  <2>6. /\ \/ db'[<<"account", i>>] = db[<<"account", i>>]
           \/ db[<<"account", i>>] = NoDoc
           \/ RemovedSince(r, i)'
        /\ RemovedSince(r, i) => RemovedSince(r, i)'
        /\ AddedSince(r, i) => AddedSince(r, i)'
    BY SinceStays
  <2>7. Sought(r, i)' => Sought(r, i)
    BY <1>1 DEF Sought
  <2> QED  BY <1>1, <2>1, <2>2, <2>3, <2>4, <2>5, <2>6, <2>7 DEF RowOK
<1> QED  BY <1>4, <1>5, <1>6, <1>7, <1>8 DEF ReadInv

-----------------------------------------------------------------------------
(* The steps of a reader.                                                  *)

\* The collections a read goes through.
LEMMA PipelineFacts ==
    ASSUME NEW r \in Readers
    PROVE  /\ query[r].op = "infoAll" => Len(Pipeline(r)) = 1 /\ Pipeline(r)[1] = "info"
           /\ query[r].op # "infoAll" =>
                 /\ Len(Pipeline(r)) = 4 /\ Pipeline(r)[1] = "account" /\ Pipeline(r)[2] = "info"
                 /\ Pipeline(r)[3] = "place" /\ Pipeline(r)[4] = "credential"
  BY DEF Pipeline

\* What is hidden of an answer is no document of it.
LEMMA PublicKeeps ==
    ASSUME NEW b \in Bodies
    PROVE  /\ Public(b) \in Bodies /\ Public(b)["account"] = b["account"]
           /\ \A k \in Kinds : Public(b)[k] = NoDoc <=> b[k] = NoDoc
<1>1. "account" \in Kinds
  BY DEF Kinds
<1>2. ASSUME NEW k \in Kinds PROVE Public(b)[k] = NoDoc <=> b[k] = NoDoc
  <2>1. CASE k = "account" \/ b[k] = NoDoc
    BY <2>1 DEF Public
  <2>2. CASE k # "account" /\ b[k] # NoDoc
    <3>1. b[k] \in ChildDocs
      BY <2>2 DEF Bodies, DocsOf
    <3>2. [parent |-> NoId, fields |-> [b[k].fields EXCEPT !["password"] = Unset]] \in ChildDocs
      BY <3>1 DEF ChildDocs, FieldValues
    <3>3. Public(b)[k] \in ChildDocs
      BY <2>2, <3>2 DEF Public
    <3> QED  BY <2>2, <3>3, StoreAssumption DEF Docs
  <2> QED  BY <2>1, <2>2
<1> QED  BY <1>1, <1>2, PublicType DEF Public

\* An answer does not change what the aggregate has read.
LEMMA RanStays ==
    ASSUME UNCHANGED query, NEW r \in Readers,
           found'[r] = found[r], rows'[r] = rows[r], ahead'[r] = ahead[r]
    PROVE  Ran(r) => Ran(r)'
<1>1. Pipeline(r)' = Pipeline(r) /\ Matched(r)' = Matched(r)
  BY DEF Pipeline, Matched
<1>2. Result(r)' = Result(r)
  BY <1>1 DEF Complete, Result
<1> QED  BY <1>1, <1>2 DEF Ran, Full, Complete

\* A row that is not read stays right, whatever the reader learns before the row
\* is begun.
LEMMA RowStays ==
    ASSUME UNCHANGED <<vars, query>>, NEW r \in Readers, NEW i \in Ids, RowOK(r, i),
           rows'[r][i] = rows[r][i], ahead'[r][i] = ahead[r][i],
           \/ ahead[r][i] = 0
           \/ found'[r] = found[r] /\ before'[r] = before[r] /\ there'[r] = there[r]
    PROVE  RowOK(r, i)'
<1>1. db' = db /\ phase' = phase /\ req' = req /\ ids' = ids
  BY DEF vars, callVars, serverVars
<1>2. Pipeline(r)' = Pipeline(r)
  BY DEF Pipeline
<1>3. (Removed(i) <=> Removed(i)') /\ (Remade(i) <=> Remade(i)')
  BY <1>1 DEF Removed, Remade, Adds
<1>4. CASE ahead[r][i] = 0
  BY <1>1, <1>2, <1>3, <1>4 DEF RowOK
<1>5. CASE found'[r] = found[r] /\ before'[r] = before[r] /\ there'[r] = there[r]
  <2>1. /\ RemovedSince(r, i)' <=> RemovedSince(r, i)
        /\ AddedSince(r, i)' <=> AddedSince(r, i)
        /\ (Sought(r, i)' <=> Sought(r, i)) /\ (Expected(r, i)' <=> Expected(r, i))
        /\ Unexpected(r, i)' <=> Unexpected(r, i)
    BY <1>1, <1>5 DEF RemovedSince, AddedSince, Adds, Sought, Expected, Unexpected
  <2> QED  BY <1>1, <1>2, <1>3, <1>5, <2>1 DEF RowOK
<1> QED  BY <1>4, <1>5

\* An account is tracked from the step on with which the reader begins.
LEMMA TrackedStays ==
    ASSUME UNCHANGED vars, NEW r \in Readers, NEW i \in Ids, Tracked(r, i),
           rstage'[r] = "new" \/ rstage[r] # "new",
           before'[r] = before[r], there'[r] = there[r]
    PROVE  Tracked(r, i)'
<1>1. db' = db /\ phase' = phase /\ req' = req /\ ids' = ids
  BY DEF vars, callVars, serverVars
<1>2. (RemovedSince(r, i)' <=> RemovedSince(r, i)) /\ (AddedSince(r, i)' <=> AddedSince(r, i))
  BY <1>1 DEF RemovedSince, AddedSince, Adds
<1>3. Accounts(db)' = Accounts(db)
  BY <1>1 DEF Accounts
<1> QED  BY <1>2, <1>3 DEF Tracked

\* A reader that takes no step keeps what it knows.
LEMMA ReaderAlone ==
    ASSUME ReadInv, UNCHANGED <<vars, query>>, NEW r \in Readers,
           rstage'[r] = rstage[r], rcode'[r] = rcode[r], found'[r] = found[r],
           rows'[r] = rows[r], ahead'[r] = ahead[r], before'[r] = before[r], there'[r] = there[r]
    PROVE  ReaderOK(r)'
<1>1. db' = db /\ phase' = phase /\ req' = req /\ ids' = ids
  BY DEF vars, callVars, serverVars
<1>2. InOrder(r)'
  BY <1>1, RanStays DEF ReadInv, InOrder
<1>3. \A i : RemovedSince(r, i) <=> RemovedSince(r, i)'
  BY <1>1 DEF RemovedSince
<1>4. Owned(r)'
  BY <1>1, <1>3 DEF ReadInv, Owned, Accounts
<1>5. ASSUME NEW i \in Ids PROVE Tracked(r, i)'
  BY TrackedStays DEF ReadInv
<1>6. ASSUME NEW i \in Ids PROVE RowOK(r, i)'
  BY RowStays DEF ReadInv
<1> QED  BY <1>2, <1>4, <1>5, <1>6 DEF ReaderOK

\* What a query may be.
LEMMA QueryFacts ==
    ASSUME ReadsTypeOK, NEW r \in Readers
    PROVE  /\ query[r].op \in {"readAll", "readByID", "auth", "infoAll"}
           /\ query[r].id \in Ids \cup {NoId}
           /\ query[r].limit \in (0 .. MaxMs + 1) \cup {Unset}
  BY ReadAssumption DEF ReadsTypeOK, QueryType

\* A reader answers, and what it had read stays.
LEMMA RespondKeeps ==
    ASSUME ReadersInv, NEW r \in Readers, NEW status \in Codes \cup {"UNAUTHENTICATED"},
           rstage[r] # "new", Respond(r, status), UNCHANGED history,
           \/ status \notin {"OK", "NOT_FOUND"}
           \/ Ran(r)
           \/ status = "NOT_FOUND" /\ query[r].op = "auth" /\ found[r] = NoDoc
    PROVE  ReadsTypeOK' /\ ReaderOK(r)'
<1>1. /\ db' = db /\ phase' = phase /\ req' = req /\ ids' = ids /\ UNCHANGED <<vars, query>>
      /\ found' = found /\ rows' = rows /\ ahead' = ahead /\ before' = before /\ there' = there
      /\ rstage' = [rstage EXCEPT ![r] = "answered"] /\ rcode' = [rcode EXCEPT ![r] = status]
  BY DEF Respond, history, vars, callVars, serverVars
<1>2. ReadsTypeOK /\ ReadInv
  BY DEF ReadersInv
<1>3. rstage'[r] = "answered" /\ rcode'[r] = status
  BY <1>1, <1>2 DEF ReadsTypeOK
<1>4. ReadsTypeOK'
  BY <1>1, <1>2 DEF ReadsTypeOK
<1>5. InOrder(r)'
  <2>1. Ran(r) => Ran(r)'
    BY <1>1, RanStays
  <2> QED  BY <1>1, <1>2, <1>3, <2>1 DEF ReadInv, InOrder
<1>6. \A i : RemovedSince(r, i) <=> RemovedSince(r, i)'
  BY <1>1 DEF RemovedSince
<1>7. Owned(r)'
  BY <1>1, <1>2, <1>6 DEF ReadInv, Owned, Accounts
<1>8. ASSUME NEW i \in Ids PROVE Tracked(r, i)'
  BY <1>1, <1>2, TrackedStays DEF ReadInv
<1>9. ASSUME NEW i \in Ids PROVE RowOK(r, i)'
  BY <1>1, <1>2, RowStays DEF ReadInv
<1> QED  BY <1>4, <1>5, <1>7, <1>8, <1>9 DEF ReaderOK

\* A reader begins: those that had answered OK have committed, and it tracks the
\* accounts from here on.
LEMMA ReadBegins ==
    ASSUME ReadersInv, NEW r \in Readers, Begin(r)
    PROVE  ReadsTypeOK' /\ ReaderOK(r)'
<1> DEFINE answered == {c \in Calls : stage[c] = "answered" /\ code[c] = "OK"}
<1>1. /\ UNCHANGED <<vars, query>>
      /\ found' = found /\ rows' = rows /\ ahead' = ahead
      /\ before' = [before EXCEPT ![r] = answered] /\ rstage[r] = "new"
      /\ there' = [there EXCEPT ![r] = Accounts(db)]
  BY DEF Begin, Respond
<1>2. ReadsTypeOK /\ ReadInv
  BY DEF ReadersInv
<1>3. \/ /\ rstage' = [rstage EXCEPT ![r] = "answered"]
         /\ \E status \in {"INVALID_ARGUMENT", "UNAVAILABLE", "UNKNOWN"} :
               rcode' = [rcode EXCEPT ![r] = status]
      \/ /\ rstage' = [rstage EXCEPT ![r] = "seeking"] /\ query[r].op = "auth" /\ rcode' = rcode
      \/ rstage' = [rstage EXCEPT ![r] = "scanning"] /\ rcode' = rcode
  BY DEF Begin, Respond
<1>4. /\ db' = db /\ phase' = phase /\ req' = req /\ ids' = ids /\ query' = query
  BY <1>1 DEF vars, callVars, serverVars
<1>5. \A c \in answered : phase[c] = "committed" \/ req[c].op = "update"
  BY DEF ReadersInv, WholeInv, EffectsInv, SessionInv, Disciplined, PhaseOK
<1>6. before'[r] = answered /\ answered \in SUBSET Calls
  BY <1>1, <1>2 DEF ReadsTypeOK
<1>7. \/ rstage'[r] = "answered" /\ rcode'[r] \notin {"OK", "NOT_FOUND"}
      \/ rstage'[r] = "seeking" /\ query[r].op = "auth"
      \/ rstage'[r] = "scanning"
  BY <1>2, <1>3 DEF ReadsTypeOK
<1>8. found[r] = NoDoc /\ \A i \in Ids : ahead[r][i] = 0
  BY <1>1, <1>2 DEF ReadInv, InOrder
<1>9. ReadsTypeOK'
  <2>1. /\ rstage' \in [Readers -> {"new", "seeking", "verifying", "scanning", "answered"}]
        /\ rcode' \in [Readers -> Codes \cup {"UNAUTHENTICATED"}]
        /\ \A s \in Readers : rstage'[s] = "verifying" => rstage[s] = "verifying"
    BY <1>2, <1>3 DEF ReadsTypeOK, Codes
  <2>2. before' \in [Readers -> SUBSET Calls] /\ there' \in [Readers -> SUBSET Ids]
    BY <1>1, <1>2, <1>6 DEF ReadsTypeOK, Accounts
  <2> QED  BY <1>1, <1>2, <1>4, <2>1, <2>2 DEF ReadsTypeOK
<1> HIDE DEF answered
<1>10. InOrder(r)'
  BY <1>1, <1>4, <1>5, <1>6, <1>7, <1>8 DEF InOrder
<1>11. Owned(r)'
  BY <1>1, <1>8 DEF Owned
<1>12. ASSUME NEW i \in Ids PROVE Tracked(r, i)'
  <2>1. there'[r] = Accounts(db) /\ Accounts(db)' = Accounts(db)
    BY <1>1, <1>2, <1>4 DEF ReadsTypeOK, Accounts
  <2> QED  BY <2>1 DEF Tracked
<1>13. ASSUME NEW i \in Ids PROVE RowOK(r, i)'
  BY <1>1, <1>2, <1>8, RowStays DEF ReadInv
<1> QED  BY <1>9, <1>10, <1>11, <1>12, <1>13 DEF ReaderOK

\* AuthCredential looks for a credential: it has an owner, for the store holds
\* whole accounts only.
LEMMA ReadSeeks ==
    ASSUME ReadersInv, NEW r \in Readers, Seek(r)
    PROVE  ReadsTypeOK' /\ ReaderOK(r)'
<1>1. ReadsTypeOK /\ ReadInv /\ RefIntegrity /\ db \in Stores
  BY DEF ReadersInv, WholeInv, EffectsInv, SessionInv, TypeInv, TypeOK, ServerTypeOK
<1>2. /\ UNCHANGED <<vars, query, rows, ahead, history>> /\ rstage[r] = "seeking"
      /\ query[r].op = "auth" /\ found[r] = NoDoc /\ \A i \in Ids : ahead[r][i] = 0
  BY <1>1 DEF Seek, Respond, ReadInv, InOrder
<1>3. CASE Respond(r, "NOT_FOUND") /\ UNCHANGED history
  BY <1>2, <1>3, RespondKeeps DEF Codes
<1>4. CASE Respond(r, "INTERNAL") /\ UNCHANGED history
  BY <1>2, <1>4, RespondKeeps DEF Codes
<1>5. ASSUME NEW i \in Ids, db[<<"credential", i>>] # NoDoc,
             found' = [found EXCEPT ![r] = [credential |-> i, doc |-> db[<<"credential", i>>]]],
             rstage' = [rstage EXCEPT ![r] = "verifying"], rcode' = rcode
      PROVE  ReadsTypeOK' /\ ReaderOK(r)'
  <2>1. "credential" \in ChildKinds /\ "credential" \in Kinds /\ "credential" # "account"
    BY DEF Kinds, ChildKinds
  <2> DEFINE doc == db[<<"credential", i>>]
  <2>2. doc \in ChildDocs /\ doc # NoDoc
    BY <1>1, <1>5, <2>1 DEF Stores, DocsOf
  <2>3. doc.parent \in Ids /\ doc.parent \in Accounts(db)
        /\ db[<<"account", doc.parent>>]["credential"] = i
    BY <1>1, <1>5, <2>1 DEF RefIntegrity, Accounts
  <2>4. found'[r] = [credential |-> i, doc |-> doc] /\ rstage'[r] = "verifying"
    BY <1>1, <1>5 DEF ReadsTypeOK
  <2> HIDE DEF doc
  <2>5. found'[r] \in Entries /\ found'[r] # NoDoc
    BY <2>2, <2>4, ReadAssumption DEF Entries
  <2>6. found'[r].doc.parent = doc.parent /\ found'[r].credential = i
    BY <2>4
  <2>7. /\ db' = db /\ phase' = phase /\ req' = req /\ query' = query /\ ahead' = ahead
        /\ before' = before /\ there' = there /\ rows' = rows
    BY <1>2 DEF history, vars, callVars, serverVars
  <2>8. ReadsTypeOK'
    <3>1. /\ found' \in [Readers -> Entries \cup {NoDoc}]
          /\ rstage' \in [Readers -> {"new", "seeking", "verifying", "scanning", "answered"}]
      BY <1>1, <1>5, <2>4, <2>5 DEF ReadsTypeOK
    <3>2. \A s \in Readers : rstage'[s] = "verifying" => found'[s] # NoDoc
      BY <1>1, <1>5, <2>5 DEF ReadsTypeOK
    <3> QED  BY <1>1, <1>5, <2>7, <3>1, <3>2 DEF ReadsTypeOK
  <2>9. InOrder(r)'
    BY <1>1, <1>2, <2>4, <2>7 DEF InOrder, ReadInv
  <2>10. Owned(r)'
    BY <1>2, <2>3, <2>6, <2>7 DEF Owned, Accounts
  <2>11. ASSUME NEW j \in Ids PROVE Tracked(r, j)'
    BY <1>1, <1>2, <2>7, TrackedStays DEF ReadInv
  <2>12. ASSUME NEW j \in Ids PROVE RowOK(r, j)'
    BY <1>1, <1>2, <2>7, RowStays DEF ReadInv
  <2> QED  BY <2>8, <2>9, <2>10, <2>11, <2>12 DEF ReaderOK
<1> QED  BY <1>2, <1>3, <1>4, <1>5 DEF Seek

\* AuthCredential compares the password.
LEMMA ReadVerifies ==
    ASSUME ReadersInv, NEW r \in Readers, Verify(r)
    PROVE  ReadsTypeOK' /\ ReaderOK(r)'
<1>1. ReadsTypeOK /\ ReadInv
  BY DEF ReadersInv
<1>2. CASE Respond(r, "UNAUTHENTICATED") /\ UNCHANGED history /\ rstage[r] = "verifying"
  BY <1>2, RespondKeeps
<1>3. CASE rstage[r] = "verifying" /\ rstage' = [rstage EXCEPT ![r] = "scanning"]
           /\ UNCHANGED <<vars, query, rcode, found, rows, ahead, history>>
  <2>1. /\ db' = db /\ phase' = phase /\ req' = req /\ query' = query
        /\ rcode' = rcode /\ found' = found /\ rows' = rows /\ ahead' = ahead
        /\ before' = before /\ there' = there
        /\ rstage'[r] = "scanning" /\ UNCHANGED <<vars, query>>
    BY <1>1, <1>3 DEF history, vars, callVars, serverVars, ReadsTypeOK
  <2>2. ReadsTypeOK'
    BY <1>1, <1>3, <2>1 DEF ReadsTypeOK
  <2>3. InOrder(r)'
    BY <1>1, <2>1 DEF InOrder, ReadInv
  <2>4. \A i : RemovedSince(r, i) <=> RemovedSince(r, i)'
    BY <2>1 DEF RemovedSince
  <2>5. Owned(r)'
    BY <1>1, <2>1, <2>4 DEF ReadInv, Owned, Accounts
  <2>6. ASSUME NEW i \in Ids PROVE Tracked(r, i)'
    BY <1>1, <1>3, <2>1, TrackedStays DEF ReadInv
  <2>7. ASSUME NEW i \in Ids PROVE RowOK(r, i)'
    BY <1>1, <2>1, RowStays DEF ReadInv
  <2> QED  BY <2>2, <2>3, <2>5, <2>6, <2>7 DEF ReaderOK
<1> QED  BY <1>2, <1>3 DEF Verify

\* The aggregate settles.
LEMMA ReadSettles ==
    ASSUME ReadersInv, NEW r \in Readers, Scanned(r) \/ ScanFailed(r)
    PROVE  ReadsTypeOK' /\ ReaderOK(r)'
<1>1. CASE ScanFailed(r)
  BY <1>1, RespondKeeps DEF ScanFailed, Codes
<1>2. CASE Scanned(r)
  <2>1. Ran(r)
    BY <1>2 DEF Scanned, Ran
  <2>2. PICK status \in {"NOT_FOUND", "OK"} : Respond(r, status) /\ UNCHANGED history
    BY <1>2 DEF Scanned
  <2>3. rstage[r] # "new"
    BY <1>2 DEF Scanned
  <2> QED  BY <2>1, <2>2, <2>3, RespondKeeps DEF Codes
<1> QED  BY <1>1, <1>2

\* What a lookup reads: the account itself, or the child that the account of the
\* row refers to.
LEMMA LookupFacts ==
    ASSUME ReadersInv, NEW r \in Readers, NEW i \in Ids, ~Complete(r, i)
    PROVE  LET row == rows[r][i]
               n == ahead[r][i]
               kind == Pipeline(r)[n + 1]
               id == IF n = 0 THEN i ELSE row["account"][kind]
           IN  /\ row \in Bodies /\ n \in 0 .. 3
               /\ n + 1 <= Len(Pipeline(r)) /\ (query[r].op # "infoAll" => Len(Pipeline(r)) = 4)
               /\ kind \in Kinds /\ (query[r].op # "infoAll" => (n = 0 <=> kind = "account"))
               /\ id \in Ids /\ db[<<kind, id>>] \in DocsOf(kind) \cup {NoDoc}
               /\ n > 0 => row["account"] # NoDoc
<1> DEFINE row == rows[r][i]
           n == ahead[r][i]
           kind == Pipeline(r)[n + 1]
           id == IF n = 0 THEN i ELSE row["account"][kind]
<1>1. ReadsTypeOK /\ RowOK(r, i) /\ db \in Stores
  BY DEF ReadersInv, ReadInv, WholeInv, EffectsInv, SessionInv, TypeInv, TypeOK, ServerTypeOK
<1>2. row \in Bodies /\ n \in 0 .. 4
  BY <1>1 DEF ReadsTypeOK
<1>3. n <= Len(Pipeline(r)) /\ (0 < n /\ n < Len(Pipeline(r)) => row["account"] # NoDoc)
  BY <1>1 DEF RowOK
<1>4. n # Len(Pipeline(r))
  BY DEF Complete
<1> HIDE DEF n, row
<1>5. CASE query[r].op = "infoAll"
  <2>1. Len(Pipeline(r)) = 1 /\ Pipeline(r)[1] = "info"
    BY <1>5, PipelineFacts
  <2>2. n = 0
    BY <1>2, <1>3, <1>4, <2>1
  <2>3. kind = "info" /\ id = i /\ "info" \in Kinds
    BY <2>1, <2>2 DEF Kinds
  <2>4. db[<<"info", i>>] \in DocsOf("info") \cup {NoDoc}
    BY <1>1, <2>3 DEF Stores
  <2> QED  BY <1>2, <1>5, <2>1, <2>2, <2>3, <2>4 DEF n, row
<1>6. CASE query[r].op # "infoAll"
  <2>1. Len(Pipeline(r)) = 4 /\ n \in 0 .. 3
    BY <1>2, <1>3, <1>4, <1>6, PipelineFacts
  <2>2. /\ n = 0 => kind = "account" /\ kind \in Kinds
        /\ n > 0 => kind \in ChildKinds /\ kind \in Kinds /\ kind # "account"
    <3>1. /\ Pipeline(r)[1] = "account" /\ Pipeline(r)[2] = "info"
          /\ Pipeline(r)[3] = "place" /\ Pipeline(r)[4] = "credential"
      BY <1>6, PipelineFacts
    <3>2. n = 0 \/ n = 1 \/ n = 2 \/ n = 3
      BY <2>1
    <3>3. kind = Pipeline(r)[IF n = 0 THEN 1 ELSE IF n = 1 THEN 2 ELSE IF n = 2 THEN 3 ELSE 4]
      BY <3>2
    <3> HIDE DEF kind
    <3> QED  BY <3>1, <3>2, <3>3 DEF Kinds, ChildKinds
  <2> HIDE DEF kind
  <2>3. id \in Ids /\ (n > 0 => row["account"] # NoDoc)
    <3>1. CASE n = 0
      BY <3>1
    <3>2. CASE n > 0
      <4>1. row["account"] # NoDoc
        BY <1>3, <2>1, <3>2
      <4>2. "account" \in Kinds
        BY DEF Kinds
      <4>3. row["account"] \in AccountDocs
        BY <1>2, <4>1, <4>2 DEF Bodies, DocsOf
      <4>4. row["account"][kind] \in Ids
        BY <2>2, <3>2, <4>3 DEF AccountDocs
      <4> QED  BY <2>1, <3>2, <4>1, <4>4
    <3> QED  BY <2>1, <3>1, <3>2
  <2> HIDE DEF id
  <2>4. kind \in Kinds
    BY <2>1, <2>2
  <2>5. db[<<kind, id>>] \in DocsOf(kind) \cup {NoDoc}
    BY <1>1, <2>3, <2>4 DEF Stores
  <2>6. n = 0 <=> kind = "account"
    BY <2>1, <2>2
  <2> QED  BY <1>2, <1>6, <2>1, <2>3, <2>4, <2>5, <2>6 DEF n, row, kind, id
<1> QED  BY <1>5, <1>6

\* What a read has been told at its start holds of the store it looks into.
LEMMA FirstLook ==
    ASSUME ReadsTypeOK, ReadInv, NEW r \in Readers, NEW i \in Ids, rstage[r] # "new"
    PROVE  /\ Sought(r, i) => db[<<"account", i>>] # NoDoc \/ RemovedSince(r, i)
           /\ Expected(r, i) => db[<<"account", i>>] # NoDoc \/ Removed(i)
           /\ i \in there[r] => db[<<"account", i>>] # NoDoc \/ RemovedSince(r, i)
           /\ db[<<"account", i>>] # NoDoc => i \in there[r] \/ AddedSince(r, i)
           /\ Unexpected(r, i) => db[<<"account", i>>] = NoDoc \/ Remade(i)
<1>1. /\ Added(i) => db[<<"account", i>>] # NoDoc \/ Removed(i)
      /\ Removed(i) => db[<<"account", i>>] = NoDoc \/ Remade(i)
  BY DEF ReadInv, Lasting, Accounts
<1>2. \A c \in before[r] : phase[c] = "committed" \/ req[c].op = "update"
  BY DEF ReadInv, InOrder
<1>3. Sought(r, i) => RemovedSince(r, i) \/ db[<<"account", i>>] # NoDoc
  BY DEF ReadInv, Owned, Accounts, Sought
<1>4. before[r] \subseteq Calls
  BY DEF ReadsTypeOK
<1>5. /\ i \in there[r] => db[<<"account", i>>] # NoDoc \/ RemovedSince(r, i)
      /\ db[<<"account", i>>] # NoDoc => i \in there[r] \/ AddedSince(r, i)
  BY DEF ReadInv, Tracked, Accounts
<1>6. Expected(r, i) => Added(i)
  BY <1>2, <1>4 DEF Expected, Added, Adds
<1>7. Unexpected(r, i) => Removed(i)
  BY <1>2, <1>4 DEF Unexpected, Removed
<1> QED  BY <1>1, <1>3, <1>5, <1>6, <1>7

\* One more document in the documents of an account.
LEMMA BodyExcept ==
    ASSUME NEW b \in Bodies, NEW kind \in Kinds, NEW doc \in DocsOf(kind) \cup {NoDoc}
    PROVE  /\ [b EXCEPT ![kind] = doc] \in Bodies /\ [b EXCEPT ![kind] = doc][kind] = doc
           /\ \A k \in Kinds \ {kind} : [b EXCEPT ![kind] = doc][k] = b[k]
<1>1. doc \in Docs \cup {NoDoc}
  BY DEF DocsOf, Docs
<1>2. b \in [Kinds -> Docs \cup {NoDoc}] /\ \A k \in Kinds : b[k] \in DocsOf(k) \cup {NoDoc}
  BY DEF Bodies
<1>3. /\ [b EXCEPT ![kind] = doc] \in [Kinds -> Docs \cup {NoDoc}]
      /\ [b EXCEPT ![kind] = doc][kind] = doc
      /\ \A k \in Kinds \ {kind} : [b EXCEPT ![kind] = doc][k] = b[k]
  BY <1>1, <1>2
<1> QED  BY <1>2, <1>3 DEF Bodies

\* Reader r reads doc of collection kind for row i, which makes next of it.
LooksUp(r, i, kind, doc, next) ==
    /\ ~Complete(r, i)
    /\ kind = Pipeline(r)[ahead[r][i] + 1]
    /\ doc = db[<<kind, IF ahead[r][i] = 0 THEN i ELSE rows[r][i]["account"][kind]>>]
    /\ next[kind] = doc /\ \A k \in Kinds \ {kind} : next[k] = rows[r][i][k]
    /\ rows'[r][i] = Projected(r, next)
    /\ ahead'[r][i] = IF ahead[r][i] = 0 /\ doc = NoDoc THEN Len(Pipeline(r)) ELSE ahead[r][i] + 1

\* The row that is looked up stays right.
LEMMA RowLookedUp ==
    ASSUME ReadersInv, NEW r \in Readers, NEW i \in Ids, NEW kind, NEW doc,
           NEW next \in Bodies, LooksUp(r, i, kind, doc, next),
           rstage[r] # "new", UNCHANGED <<vars, query, found, history>>
    PROVE  RowOK(r, i)'
<1> DEFINE row == rows[r][i]
           n == ahead[r][i]
           m == ahead'[r][i]
<1>1. /\ row \in Bodies /\ n \in 0 .. 3 /\ n + 1 <= Len(Pipeline(r))
      /\ query[r].op # "infoAll" => Len(Pipeline(r)) = 4 /\ (n = 0 <=> kind = "account")
      /\ kind \in Kinds /\ doc \in DocsOf(kind) \cup {NoDoc}
      /\ n > 0 => row["account"] # NoDoc
  BY LookupFacts DEF LooksUp
<1>2. /\ db' = db /\ query' = query /\ req' = req /\ phase' = phase /\ ids' = ids
      /\ found' = found /\ before' = before /\ there' = there
  BY DEF history, vars, callVars, serverVars
<1>3. Pipeline(r)' = Pipeline(r) /\ (Expected(r, i)' <=> Expected(r, i))
      /\ (Unexpected(r, i)' <=> Unexpected(r, i))
  BY <1>2 DEF Pipeline, Expected, Unexpected
<1>4. /\ Removed(i)' <=> Removed(i)
      /\ Remade(i)' <=> Remade(i)
      /\ RemovedSince(r, i)' <=> RemovedSince(r, i)
      /\ AddedSince(r, i)' <=> AddedSince(r, i)
      /\ Sought(r, i)' <=> Sought(r, i)
      /\ i \in there'[r] <=> i \in there[r]
  BY <1>2 DEF Removed, Remade, Adds, RemovedSince, AddedSince, Sought
<1>5. RowOK(r, i) /\ ReadsTypeOK /\ ReadInv /\ RefIntegrity
  BY DEF ReadersInv, ReadInv, WholeInv
<1>6. m = IF n = 0 /\ doc = NoDoc THEN Len(Pipeline(r)) ELSE n + 1
  BY DEF LooksUp
<1>7. next[kind] = doc /\ \A k \in Kinds \ {kind} : next[k] = row[k]
  BY DEF LooksUp
<1>8. kind # "account" /\ n > 0 => doc = db[<<kind, row["account"][kind]>>]
  BY DEF LooksUp
<1>9. kind = "account" /\ n = 0 => doc = db[<<"account", i>>]
  BY DEF LooksUp
<1>10. Len(Pipeline(r)') = Len(Pipeline(r)) /\ query'[r] = query[r]
  BY <1>2, <1>3
<1> HIDE DEF row, n, m
<1>11. CASE query[r].op = "infoAll"
  <2>1. Len(Pipeline(r)) = 1
    BY <1>11, PipelineFacts
  <2>2. n = 0
    BY <1>1, <2>1
  <2>3. m = 1
    BY <1>6, <2>1, <2>2
  <2>4. m <= Len(Pipeline(r)') /\ ~(m < Len(Pipeline(r)')) /\ query'[r].op = "infoAll"
    BY <1>10, <1>11, <2>1, <2>3
  <2> QED  BY <2>4, Zenon DEF RowOK, m
<1>12. CASE query[r].op # "infoAll"
  <2>1. rows'[r][i] = Public(next)
    BY <1>12 DEF Projected, LooksUp
  <2>2. /\ rows'[r][i]["account"] = next["account"]
        /\ \A k \in Kinds : rows'[r][i][k] = NoDoc <=> next[k] = NoDoc
    BY <2>1, PublicKeeps
  <2>3. Len(Pipeline(r)) = 4 /\ Len(Pipeline(r)') = 4
    BY <1>1, <1>10, <1>12
  <2>4. CASE n = 0
    <3>1. kind = "account" /\ doc = db[<<"account", i>>]
      BY <1>1, <1>9, <1>12, <2>4
    <3>2. rows'[r][i]["account"] = doc
      BY <1>7, <2>2, <3>1
    <3>3. m = IF doc = NoDoc THEN 4 ELSE 1
      BY <1>6, <2>3, <2>4
    <3>4. /\ m <= Len(Pipeline(r)') /\ m > 0
          /\ doc # NoDoc => m = 1
          /\ doc = NoDoc => ~(m < Len(Pipeline(r)'))
      <4>1. CASE doc = NoDoc
        BY <2>3, <3>3, <4>1
      <4>2. CASE doc # NoDoc
        BY <2>3, <3>3, <4>2
      <4> QED  BY <4>1, <4>2
    <3>5. doc # NoDoc => \A j \in 2 .. m : rows'[r][i][Pipeline(r)'[j]] # NoDoc
      BY <3>4
    <3>6. /\ Sought(r, i)' => doc # NoDoc \/ RemovedSince(r, i)'
          /\ Expected(r, i)' => doc # NoDoc \/ Removed(i)'
          /\ i \in there'[r] => doc # NoDoc \/ RemovedSince(r, i)'
          /\ doc # NoDoc => i \in there'[r] \/ AddedSince(r, i)'
          /\ Unexpected(r, i)' => doc = NoDoc \/ Remade(i)'
      BY <1>3, <1>4, <1>5, <3>1, FirstLook
    <3>7. db'[<<"account", i>>] = doc
      BY <1>2, <3>1
    <3> QED  BY <3>2, <3>4, <3>5, <3>6, <3>7, Zenon DEF RowOK, m
  <2>5. CASE n > 0
    <3>1. kind # "account" /\ row["account"] # NoDoc
      BY <1>1, <1>12, <2>5
    <3>2. doc = db[<<kind, row["account"][kind]>>]
      BY <1>8, <2>5, <3>1
    <3>3. "account" \in Kinds \ {kind} /\ kind \in ChildKinds
      BY <1>1, <3>1 DEF Kinds, ChildKinds
    <3>4. rows'[r][i]["account"] = row["account"]
      BY <1>7, <2>2, <3>3
    <3>5. m = n + 1
      BY <1>6, <2>5
    <3>6. \/ RemovedSince(r, i)
          \/ /\ db[<<"account", i>>] = row["account"]
             /\ \A j \in 2 .. n : row[Pipeline(r)[j]] # NoDoc
      BY <1>5, <1>12, <3>1 DEF RowOK, row, n
    <3>7. /\ Unexpected(r, i) => row["account"] = NoDoc \/ Remade(i)
          /\ i \in there[r] \/ AddedSince(r, i)
      BY <1>5, <1>12, <2>5, <3>1 DEF RowOK, row, n
    <3>8. ASSUME ~RemovedSince(r, i), NEW j \in 2 .. m PROVE rows'[r][i][Pipeline(r)[j]] # NoDoc
      <4>1. i \in Accounts(db)
        BY <3>1, <3>6, <3>8 DEF Accounts
      <4>2. db[<<kind, db[<<"account", i>>][kind]>>] # NoDoc
        BY <1>5, <3>3, <4>1 DEF RefIntegrity, Linked
      <4>3. doc # NoDoc
        BY <3>2, <3>6, <3>8, <4>2
      <4>4. Pipeline(r)[j] \in Kinds
        <5>1. j = 2 \/ j = 3 \/ j = 4
          BY <1>1, <3>5, <3>8
        <5> QED  BY <1>12, <5>1, PipelineFacts DEF Kinds
      <4>5. next[Pipeline(r)[j]] # NoDoc
        <5>1. CASE Pipeline(r)[j] = kind
          BY <1>7, <4>3, <5>1
        <5>2. CASE Pipeline(r)[j] # kind
          <6>1. j # n + 1
            BY <5>2 DEF n, LooksUp
          <6>2. j \in 2 .. n
            BY <1>1, <3>5, <3>8, <6>1
          <6>3. row[Pipeline(r)[j]] # NoDoc
            BY <3>6, <3>8, <6>2
          <6> QED  BY <1>7, <4>4, <5>2, <6>3
        <5> QED  BY <5>1, <5>2
      <4> QED  BY <2>2, <4>4, <4>5
    <3>9. m > 0 /\ m <= 4
      BY <1>1, <3>5
    <3>10. \/ RemovedSince(r, i)'
           \/ /\ db'[<<"account", i>>] = row["account"]
              /\ \A j \in 2 .. m : rows'[r][i][Pipeline(r)'[j]] # NoDoc
      BY <1>2, <1>3, <1>4, <3>6, <3>8
    <3>11. /\ Unexpected(r, i)' => rows'[r][i]["account"] = NoDoc \/ Remade(i)'
           /\ i \in there'[r] \/ AddedSince(r, i)'
      BY <1>3, <1>4, <3>4, <3>7
    <3>12. m <= Len(Pipeline(r)')
      BY <2>3, <3>9
    <3> QED  BY <3>1, <3>4, <3>9, <3>10, <3>11, <3>12, Zenon DEF RowOK, m
  <2> QED  BY <1>1, <2>4, <2>5
<1> QED  BY <1>11, <1>12

\* The next collection of a row is read.
LEMMA ReadLooksUp ==
    ASSUME ReadersInv, NEW r \in Readers, Lookup(r)
    PROVE  ReadsTypeOK' /\ ReaderOK(r)'
<1>1. ReadsTypeOK /\ ReadInv
  BY DEF ReadersInv
<1>2. Matched(r) \subseteq Ids
  BY <1>1, QueryFacts DEF Matched
<1>3. PICK i \in Ids :
        LET row == rows[r][i]
            kind == Pipeline(r)[ahead[r][i] + 1]
            doc == db[<<kind, IF ahead[r][i] = 0 THEN i ELSE row["account"][kind]>>]
        IN  /\ ~Complete(r, i)
            /\ rows' = [rows EXCEPT ![r][i] = Projected(r, [row EXCEPT ![kind] = doc])]
            /\ ahead' = [ahead EXCEPT ![r][i] =
                            IF ahead[r][i] = 0 /\ doc = NoDoc THEN Len(Pipeline(r))
                            ELSE ahead[r][i] + 1]
  BY <1>1, <1>2 DEF Lookup, ReadsTypeOK
<1> DEFINE kind == Pipeline(r)[ahead[r][i] + 1]
           doc == db[<<kind, IF ahead[r][i] = 0 THEN i ELSE rows[r][i]["account"][kind]>>]
           next == [rows[r][i] EXCEPT ![kind] = doc]
           n == IF ahead[r][i] = 0 /\ doc = NoDoc THEN Len(Pipeline(r)) ELSE ahead[r][i] + 1
<1>4. /\ UNCHANGED <<vars, query, found, history>> /\ rstage' = rstage /\ rcode' = rcode
      /\ db' = db /\ phase' = phase /\ req' = req /\ query' = query /\ ids' = ids
      /\ rstage[r] = "scanning" /\ found' = found /\ before' = before /\ there' = there
  BY DEF Lookup, history, vars, callVars, serverVars
<1>5. /\ ~Complete(r, i)
      /\ rows' = [rows EXCEPT ![r][i] = Projected(r, next)]
      /\ ahead' = [ahead EXCEPT ![r][i] = n]
  BY <1>3
<1>6. /\ rows[r][i] \in Bodies /\ kind \in Kinds /\ doc \in DocsOf(kind) \cup {NoDoc}
      /\ ahead[r][i] \in 0 .. 3
      /\ Len(Pipeline(r)) \in 1 .. 4
  <2>1. Len(Pipeline(r)) \in 1 .. 4
    BY PipelineFacts
  <2> QED  BY <1>5, <2>1, LookupFacts
<1> HIDE DEF kind, doc
<1>7. next \in Bodies /\ next[kind] = doc /\ \A k \in Kinds \ {kind} : next[k] = rows[r][i][k]
  BY <1>6, BodyExcept
<1> HIDE DEF next
<1>8. Projected(r, next) \in Bodies
  BY <1>7, PublicType DEF Projected
<1>9. n \in 0 .. 4
  BY <1>6
<1> HIDE DEF n
<1>10. rows' \in [Readers -> [Ids -> Bodies]] /\ ahead' \in [Readers -> [Ids -> 0 .. 4]]
  BY <1>1, <1>5, <1>8, <1>9 DEF ReadsTypeOK
<1>11. ReadsTypeOK'
  BY <1>1, <1>4, <1>10 DEF ReadsTypeOK
<1>12. /\ rows'[r][i] = Projected(r, next) /\ ahead'[r][i] = n
       /\ \A j \in Ids \ {i} : rows'[r][j] = rows[r][j] /\ ahead'[r][j] = ahead[r][j]
  BY <1>1, <1>5 DEF ReadsTypeOK
<1>13. InOrder(r)'
  BY <1>1, <1>4 DEF InOrder, ReadInv
<1>14. Owned(r)'
  <2>1. \A j : RemovedSince(r, j) <=> RemovedSince(r, j)'
    BY <1>4 DEF RemovedSince
  <2> QED  BY <1>1, <1>4, <2>1 DEF ReadInv, Owned, Accounts
<1>15. ASSUME NEW j \in Ids PROVE Tracked(r, j)'
  BY <1>1, <1>4, TrackedStays DEF ReadInv
<1>16. ASSUME NEW j \in Ids PROVE RowOK(r, j)'
  <2>1. CASE j = i
    <3>1. LooksUp(r, i, kind, doc, next)
      BY <1>5, <1>7, <1>12 DEF LooksUp, kind, doc, n
    <3>2. RowOK(r, i)'
      BY <1>4, <1>7, <3>1, RowLookedUp
    <3> QED  BY <2>1, <3>2
  <2>2. CASE j # i
    BY <1>1, <1>4, <1>12, <2>2, RowStays DEF ReadInv
  <2> QED  BY <2>1, <2>2
<1> QED  BY <1>11, <1>13, <1>14, <1>15, <1>16 DEF ReaderOK

-----------------------------------------------------------------------------
(* The readers and the writers together.                                   *)

\* A reader changes nothing of the service it reads.
LEMMA ReadLeaves ==
    ASSUME NEW r \in Readers, Read(r)
    PROVE  UNCHANGED <<vars, query>>
<1>1. CASE Begin(r) \/ Verify(r) \/ Scanned(r) \/ ScanFailed(r)
  BY <1>1 DEF Begin, Verify, Scanned, ScanFailed, Respond
<1>2. CASE Seek(r) \/ Lookup(r)
  BY <1>2 DEF Seek, Respond, Lookup
<1> QED  BY <1>1, <1>2 DEF Read

\* Nor anything of another reader.
LEMMA ReadersApart ==
    ASSUME ReadsTypeOK, NEW r \in Readers, Read(r), NEW s \in Readers, s # r
    PROVE  /\ rstage'[s] = rstage[s] /\ rcode'[s] = rcode[s] /\ found'[s] = found[s]
           /\ rows'[s] = rows[s] /\ ahead'[s] = ahead[s]
           /\ before'[s] = before[s] /\ there'[s] = there[s]
<1> USE DEF ReadsTypeOK
<1>1. ASSUME NEW status, Respond(r, status)
      PROVE  /\ rstage'[s] = rstage[s] /\ rcode'[s] = rcode[s] /\ found'[s] = found[s]
             /\ rows'[s] = rows[s] /\ ahead'[s] = ahead[s]
  BY <1>1 DEF Respond
<1>2. CASE Begin(r)
  <2>1. before'[s] = before[s] /\ there'[s] = there[s]
    BY <1>2 DEF Begin
  <2>2. \/ \E status : Respond(r, status)
        \/ /\ rcode' = rcode /\ found' = found /\ rows' = rows /\ ahead' = ahead
           /\ rstage'[s] = rstage[s]
    BY <1>2 DEF Begin
  <2> QED  BY <1>1, <2>1, <2>2
<1>3. CASE Verify(r) \/ Scanned(r) \/ ScanFailed(r)
  <2>1. before' = before /\ there' = there
    BY <1>3 DEF Verify, Scanned, ScanFailed, history
  <2>2. \/ \E status : Respond(r, status)
        \/ /\ rcode' = rcode /\ found' = found /\ rows' = rows /\ ahead' = ahead
           /\ rstage'[s] = rstage[s]
    BY <1>3 DEF Verify, Scanned, ScanFailed
  <2> QED  BY <1>1, <2>1, <2>2
<1>4. CASE Seek(r)
  <2>1. before' = before /\ there' = there
    BY <1>4 DEF Seek, history
  <2>2. \/ \E status : Respond(r, status)
        \/ /\ rcode' = rcode /\ rows' = rows /\ ahead' = ahead
           /\ rstage'[s] = rstage[s] /\ found'[s] = found[s]
    BY <1>4 DEF Seek
  <2> QED  BY <1>1, <2>1, <2>2
<1>5. CASE Lookup(r)
  BY <1>5 DEF Lookup, history
<1> QED  BY <1>2, <1>3, <1>4, <1>5 DEF Read

\* What holds of the readers at the start.
LEMMA ReadersStart == ReadsInit => ReadersInv
<1> SUFFICES ASSUME ReadsInit PROVE ReadersInv
  OBVIOUS
<1>1. WholeInv
  BY SessionInit, IsolationInit, EffectInit DEF ReadsInit, WholeInv, EffectsInv
<1>2. ReadsTypeOK
  <2>1. NoDocs \in Bodies
    BY DEF NoDocs, Bodies
  <2>2. "" \in Codes
    BY DEF Codes
  <2>3. /\ query \in Queries /\ before \in [Readers -> SUBSET Calls]
        /\ there \in [Readers -> SUBSET Ids]
        /\ found \in [Readers -> Entries \cup {NoDoc}]
    BY DEF ReadsInit
  <2>4. rows \in [Readers -> [Ids -> Bodies]] /\ ahead \in [Readers -> [Ids -> 0 .. 4]]
    <3>1. [i \in Ids |-> NoDocs] \in [Ids -> Bodies]
      BY <2>1
    <3>2. [i \in Ids |-> 0] \in [Ids -> 0 .. 4]
      OBVIOUS
    <3> QED  BY <3>1, <3>2, Zenon DEF ReadsInit
  <2>5. /\ rstage \in [Readers -> {"new", "seeking", "verifying", "scanning", "answered"}]
        /\ rcode \in [Readers -> Codes \cup {"UNAUTHENTICATED"}]
        /\ \A r \in Readers : rstage[r] # "verifying"
    BY <2>2 DEF ReadsInit
  <2> QED  BY <2>3, <2>4, <2>5 DEF ReadsTypeOK
<1>3. \A c \in Calls : phase[c] # "committed"
  BY DEF ReadsInit, Init, ServerInit
<1>4. Lasting
  <2>1. \A i \in Accounts(db) : i = 0
    <3>1. db \in {EmptyStore, SeededStore}
      BY ServerAssumption DEF ReadsInit, Init, ServerInit
    <3>2. ASSUME NEW i \in Ids PROVE EmptyStore[<<"account", i>>] = NoDoc
      BY DocumentKeys DEF EmptyStore, Kinds
    <3>3. ASSUME NEW i \in Ids, SeededStore[<<"account", i>>] # NoDoc PROVE i = 0
      BY <3>3, SeededDocs DEF Kinds
    <3> QED  BY <3>1, <3>2, <3>3 DEF Accounts
  <2> QED  BY <1>3, <2>1 DEF Lasting, Added, Adds, Removed
<1>5. ASSUME NEW r \in Readers PROVE InOrder(r) /\ Owned(r)
  BY <1>5 DEF ReadsInit, InOrder, Owned
<1>6. ASSUME NEW r \in Readers, NEW i \in Ids PROVE RowOK(r, i)
  <2>1. ahead[r][i] = 0 /\ rows[r][i]["account"] = NoDoc
    BY DEF ReadsInit, NoDocs, Kinds
  <2>2. Len(Pipeline(r)) > 0
    BY PipelineFacts
  <2> QED  BY <2>1, <2>2 DEF RowOK
<1>7. ASSUME NEW r \in Readers, NEW i \in Ids PROVE Tracked(r, i)
  BY DEF ReadsInit, Tracked
<1> QED  BY <1>1, <1>2, <1>4, <1>5, <1>6, <1>7 DEF ReadersInv, ReadInv

\* Every step keeps it, as long as the store holds whole accounts.
LEMMA ReadersNext == ReadersInv /\ WholeInv' /\ [ReadsNext]_readsVars => ReadersInv'
<1> SUFFICES ASSUME ReadersInv, WholeInv', [ReadsNext]_readsVars PROVE ReadersInv'
  OBVIOUS
<1>1. CASE [Next]_vars /\ UNCHANGED readVars
  <2>1. ReadsTypeOK'
    BY <1>1 DEF ReadersInv, ReadsTypeOK, readVars, history
  <2> QED  BY <1>1, <2>1, WriterKeeps DEF ReadersInv
<1>2. ASSUME NEW r \in Readers, Read(r) PROVE ReadersInv'
  <2>1. ReadsTypeOK' /\ ReaderOK(r)'
    BY <1>2, ReadBegins, ReadSeeks, ReadVerifies, ReadLooksUp, ReadSettles DEF Read
  <2>2. ASSUME NEW s \in Readers, s # r PROVE ReaderOK(s)'
    BY <1>2, <2>2, ReadLeaves, ReadersApart, ReaderAlone DEF ReadersInv
  <2>3. Lasting'
    <3>1. db' = db /\ phase' = phase /\ req' = req /\ ids' = ids
      BY <1>2, ReadLeaves DEF vars, callVars, serverVars
    <3>2. \A i : /\ (Added(i)' <=> Added(i)) /\ (Removed(i)' <=> Removed(i))
                 /\ Remade(i)' <=> Remade(i)
      BY <3>1 DEF Adds, Added, Removed, Remade
    <3>3. Accounts(db)' = Accounts(db)
      BY <3>1 DEF Accounts
    <3> QED  BY <3>2, <3>3 DEF ReadersInv, ReadInv, Lasting
  <2> QED  BY <2>1, <2>2, <2>3 DEF ReadersInv, ReadInv, ReaderOK
<1> QED  BY <1>1, <1>2 DEF ReadsNext, readsVars

\* The readers are no part of the service: without them it is the one of Spec.
LEMMA ReadsImplementSpec == ReadsSpec => Spec
<1>1. ReadsInit => Init
  BY DEF ReadsInit
<1>2. [ReadsNext]_readsVars => [Next]_vars
  BY ReadLeaves DEF ReadsNext, readsVars
<1> QED  BY <1>1, <1>2, PTL DEF ReadsSpec, Spec

\* What the theorems below are drawn from.
LEMMA ReadersCorrect == ReadsSpec => []ReadersInv
  BY ReadersStart, ReadersNext, ReadsImplementSpec, WholeCorrect, PTL DEF ReadsSpec

\* Every variable of the readers keeps its type, and a password is only compared
\* with that of a credential that was found: Verify follows Seek's null check
\* (account.service.ts AuthCredential).
THEOREM ReadsTypeOKHolds == ReadsSpec => []ReadsTypeOK
<1>1. ReadersInv => ReadsTypeOK
  BY DEF ReadersInv
<1> QED  BY <1>1, ReadersCorrect, PTL

\* A row shows the account of the store with every child read so far, or the
\* account was deleted meanwhile; what was there when the read began, or added by a
\* Create acknowledged before, is shown, and what a DeleteOne had removed is not.
THEOREM ReadInvHolds == ReadsSpec => []ReadInv
<1>1. ReadersInv => ReadInv
  BY DEF ReadersInv
<1> QED  BY <1>1, ReadersCorrect, PTL

\* The aggregates of ReadAll, ReadByID and AuthCredential join four collections at
\* four moments: an answer that lacks a child of an account tells of a DeleteOne
\* that had not answered when the read began, and has committed; never of a Create
\* that is half done.
THEOREM WholeUnlessRemovedHolds == ReadsSpec => []WholeUnlessRemoved
<1>1. ReadersInv => WholeUnlessRemoved
  <2> SUFFICES ASSUME ReadersInv, NEW r \in Readers, query[r].op # "infoAll",
                      NEW i \in Result(r), ~RemovedSince(r, i), NEW k \in ChildKinds
               PROVE  rows[r][i][k] # NoDoc
    BY DEF WholeUnlessRemoved
  <2>1. ReadsTypeOK /\ ReadInv
    BY DEF ReadersInv
  <2>2. i \in Ids
    BY <2>1, QueryFacts DEF Result, Matched
  <2>3. /\ Len(Pipeline(r)) = 4 /\ Pipeline(r)[1] = "account" /\ Pipeline(r)[2] = "info"
        /\ Pipeline(r)[3] = "place" /\ Pipeline(r)[4] = "credential"
    BY PipelineFacts
  <2>4. ahead[r][i] = 4 /\ rows[r][i]["account"] # NoDoc
    BY <2>3 DEF Result, Complete
  <2>5. \A j \in 2 .. 4 : rows[r][i][Pipeline(r)[j]] # NoDoc
    BY <2>1, <2>2, <2>4 DEF ReadInv, RowOK
  <2> QED  BY <2>3, <2>5 DEF ChildKinds, Kinds
<1> QED  BY <1>1, ReadersCorrect, PTL

\* A row that went through all its lookups, of an account that is expected, is in
\* the answer, or the account was deleted.
LEMMA ExpectedIsShown ==
    ASSUME ReadersInv, NEW r \in Readers, NEW i \in Ids, query[r].op # "infoAll",
           i \in Matched(r), Complete(r, i),
           \/ Expected(r, i) /\ ~Removed(i)
           \/ (Sought(r, i) \/ i \in there[r]) /\ ~RemovedSince(r, i)
    PROVE  i \in Result(r)
<1>1. Len(Pipeline(r)) = 4 /\ Pipeline(r)[1] = "account"
  BY PipelineFacts
<1>2. ahead[r][i] = 4
  BY <1>1 DEF Complete
<1>3. rows[r][i]["account"] # NoDoc
  <2>1. RowOK(r, i)
    BY DEF ReadersInv, ReadInv
  <2>2. ahead[r][i] > 0
    BY <1>2
  <2> QED  BY <2>1, <2>2, Zenon DEF RowOK
<1> QED  BY <1>1, <1>3 DEF Result

\* AuthCredential compares the password of one document and reads the account of
\* its parent afterwards: the account it answers with refers to the credential
\* that was verified, or was deleted by a call that had not answered at the start.
THEOREM VerifiedFindsOwnerHolds == ReadsSpec => []VerifiedFindsOwner
<1>1. ReadersInv => VerifiedFindsOwner
  <2> SUFFICES ASSUME ReadersInv, NEW r \in Readers, rstage[r] = "answered", found[r] # NoDoc,
                      rcode[r] \in {"OK", "NOT_FOUND"}, ~RemovedSince(r, found[r].doc.parent)
               PROVE  \E i \in Result(r) : rows[r][i]["account"]["credential"] = found[r].credential
    BY DEF VerifiedFindsOwner
  <2>1. ReadsTypeOK /\ ReadInv
    BY DEF ReadersInv
  <2>2. PICK i \in Ids : i = found[r].doc.parent
    BY <2>1 DEF ReadInv, Owned
  <2>3. query[r].op = "auth" /\ db[<<"account", i>>]["credential"] = found[r].credential
       /\ ~RemovedSince(r, i)
    BY <2>1, <2>2 DEF ReadInv, Owned
  <2>4. Matched(r) = {i}
    BY <2>2, <2>3 DEF Matched
  <2>5. Ran(r)
    BY <2>1 DEF ReadInv, InOrder
  <2>6. i \in Result(r)
    <3>1. CASE Full(r)
      <4>1. query[r].limit \in 1 .. MaxMs + 1
        <5>1. query[r].limit \in 0 .. MaxMs + 1 /\ query[r].limit # 0
          BY <2>1, <2>5, <3>1, QueryFacts DEF Full, Ran
        <5> QED  BY <5>1, StoreAssumption
      <4>2. Cardinality(Result(r)) >= query[r].limit
        BY <3>1 DEF Full
      <4>3. Cardinality({}) = 0
        BY FS_EmptySet
      <4>4. Result(r) # {}
        <5> SUFFICES ASSUME Result(r) = {} PROVE FALSE
          OBVIOUS
        <5>1. 0 >= query[r].limit
          BY <4>2, <4>3
        <5> QED  BY <4>1, <5>1
      <4> QED  BY <2>4, <4>4 DEF Result
    <3>2. CASE Complete(r, i)
      <4>1. Sought(r, i)
        BY <2>2 DEF Sought
      <4> QED  BY <2>3, <2>4, <3>2, <4>1, ExpectedIsShown
    <3> QED  BY <2>4, <2>5, <3>1, <3>2 DEF Ran
  <2>7. rows[r][i]["account"] # NoDoc
    BY <2>3, <2>6, PipelineFacts DEF Result
  <2>8. rows[r][i]["account"] = db[<<"account", i>>]
    BY <2>1, <2>3, <2>7 DEF ReadInv, RowOK
  <2> QED  BY <2>3, <2>6, <2>8
<1> QED  BY <1>1, ReadersCorrect, PTL

\* A read that begins after a Create or a DeleteOne has answered OK sees what it
\* did: the account is there, or is gone, unless it is deleted, or added a second
\* time.
THEOREM AcknowledgedIsSeenHolds == ReadsSpec => []AcknowledgedIsSeen
<1>1. ReadersInv => AcknowledgedIsSeen
  <2> SUFFICES ASSUME ReadersInv, NEW r \in Readers, NEW c \in before[r],
                      rstage[r] = "answered", query[r].op \in {"readAll", "readByID"}
               PROVE  /\ req[c].op = "create" /\ ids[c]["account"] \in Matched(r)
                            /\ query[r].limit = Unset /\ rcode[r] \in {"OK", "NOT_FOUND"}
                            /\ ~Removed(ids[c]["account"])
                         => ids[c]["account"] \in Result(r)
                      /\ req[c].op = "delete" /\ rcode[r] = "OK" /\ req[c].id \in Result(r)
                         => Remade(req[c].id)
    BY DEF AcknowledgedIsSeen
  <2>1. ReadsTypeOK /\ ReadInv
    BY DEF ReadersInv
  <2>2. Matched(r) \subseteq Ids
    BY <2>1, QueryFacts DEF Matched
  <2>3. ASSUME req[c].op = "create", ids[c]["account"] \in Matched(r), query[r].limit = Unset,
               rcode[r] \in {"OK", "NOT_FOUND"}, ~Removed(ids[c]["account"])
        PROVE  ids[c]["account"] \in Result(r)
    <3>1. Ran(r)
      BY <2>1, <2>3 DEF ReadInv, InOrder
    <3>2. Complete(r, ids[c]["account"])
      BY <2>3, <3>1 DEF Ran, Full
    <3>3. Expected(r, ids[c]["account"])
      BY <2>3 DEF Expected
    <3> QED  BY <2>2, <2>3, <3>2, <3>3, ExpectedIsShown
  <2>4. ASSUME req[c].op = "delete", req[c].id \in Result(r)
        PROVE  Remade(req[c].id)
    <3>1. PICK i \in Ids : i = req[c].id /\ i \in Result(r)
      BY <2>2, <2>4 DEF Result
    <3>2. Len(Pipeline(r)) = 4 /\ Pipeline(r)[1] = "account"
      BY PipelineFacts
    <3>3. ahead[r][i] = 4 /\ rows[r][i]["account"] # NoDoc
      BY <3>1, <3>2 DEF Result, Complete
    <3>4. Unexpected(r, i)
      BY <2>4, <3>1 DEF Unexpected
    <3> QED  BY <2>1, <3>1, <3>3, <3>4 DEF ReadInv, RowOK
  <2> QED  BY <2>3, <2>4
<1> QED  BY <1>1, ReadersCorrect, PTL

\* A read without a limit shows every account that was there when the read began and
\* was not deleted meanwhile, and no read shows one that was not there then and was
\* not added meanwhile: the $match and $limit stages and the lookups of ReadAll,
\* ReadByID and AuthCredential lose and invent none.
THEOREM SeesItsStartHolds == ReadsSpec => []SeesItsStart
<1>1. ReadersInv => SeesItsStart
  <2> SUFFICES ASSUME ReadersInv, NEW r \in Readers, rstage[r] = "answered",
                      query[r].op # "infoAll", rcode[r] \in {"OK", "NOT_FOUND"}
               PROVE  /\ \A i \in there[r] \cap Matched(r) :
                            query[r].limit = Unset => i \in Result(r) \/ RemovedSince(r, i)
                      /\ \A i \in Result(r) : i \in there[r] \/ AddedSince(r, i)
    BY DEF SeesItsStart
  <2>1. ReadsTypeOK /\ ReadInv
    BY DEF ReadersInv
  <2>2. Matched(r) \subseteq Ids
    BY <2>1, QueryFacts DEF Matched
  <2>3. ASSUME NEW i \in there[r] \cap Matched(r), query[r].limit = Unset, ~RemovedSince(r, i)
        PROVE  i \in Result(r)
    <3>1. Ran(r)
      <4>1. Ran(r) \/ (query[r].op = "auth" /\ found[r] = NoDoc)
        BY <2>1 DEF ReadInv, InOrder
      <4>2. ~(query[r].op = "auth" /\ found[r] = NoDoc)
        BY <2>3 DEF Matched
      <4> QED  BY <4>1, <4>2
    <3>2. Complete(r, i)
      BY <2>3, <3>1 DEF Ran, Full
    <3> QED  BY <2>2, <2>3, <3>2, ExpectedIsShown
  <2>4. ASSUME NEW i \in Result(r) PROVE i \in there[r] \/ AddedSince(r, i)
    <3>1. i \in Ids /\ rows[r][i]["account"] # NoDoc
      BY <2>2, <2>4, PipelineFacts DEF Result
    <3> QED  BY <2>1, <3>1 DEF ReadInv, RowOK
  <2> QED  BY <2>3, <2>4
<1> QED  BY <1>1, ReadersCorrect, PTL
=============================================================================
