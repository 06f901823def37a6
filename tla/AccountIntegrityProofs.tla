----------------------- MODULE AccountIntegrityProofs -----------------------
(***************************************************************************)
(* What the server does with the operations of a call, and what a commit   *)
(* makes durable: whole accounts, and what the call answers.  For any      *)
(* number of calls, any requests, any bound on the clock and the faults.   *)
(***************************************************************************)
EXTENDS AccountEffectProofs

-----------------------------------------------------------------------------
(* The cases in which the server leaves the data of a transaction alone.   *)

\* A transaction that can no longer be committed owes nothing.
LEMMA InactiveKeeps ==
    ASSUME EffectsInv, NEW c \in Calls, ~Active(c)',
           req' = req, ids'[c] = ids[c], stage'[c] = stage[c],
           \A m \in reqs' \cup late' : m.call = c => m \in reqs \cup late
    PROVE  Effective(c)'
<1>1. EffectsOK(c)
  BY DEF EffectsInv, EffectInv, Effective
<1>2. CommitSent(c)' => CommitSent(c)
  BY DEF CommitSent
<1>3. EffectsOK(c)'
  BY <1>1, <1>2 DEF EffectsOK
<1> QED  BY <1>3 DEF Effective, Written, ReadsOK

\* A call hears a result: one that says an operation succeeded must be right, and
\* so must what it says of the data.
LEMMA AnswerKeeps ==
    ASSUME EffectsInv, NEW c \in Calls, NEW m \in reqs \cup late, m.call = c,
           NEW result, NEW docs, Answer(m, result, docs), Frozen(c),
           Success(Reply(m, result, docs)) /\ Active(c)' => HasEffect(c, Op(m))',
           result = "ok" /\ Active(c)' => Truthful(c, Reply(m, result, docs))'
    PROVE  Effective(c)'
<1> DEFINE r == Reply(m, result, docs)
<1>1. /\ UNCHANGED <<req, ids, stage, pending, missed, body>>
      /\ reqs' \subseteq reqs /\ late' \subseteq late /\ resps' \subseteq resps \cup {r}
  BY SettledFacts DEF Answer
<1>2. r.call = c /\ r.result = result /\ Op(r) = Op(m)
  BY DEF Reply, Op
<1>3. CommitSent(c)' => CommitSent(c)
  BY <1>1 DEF CommitSent
<1>4. Plan(c)' = Plan(c) /\ Passed(c)' = Passed(c)
  BY <1>1 DEF Plan, Passed, PartUpdates, Parts
<1>5. ASSUME NEW op \in Acknowledged(c)', op \notin Acknowledged(c), Active(c)'
      PROVE  HasEffect(c, op)'
  <2>1. op \in {Op(q) : q \in {n \in resps' : n.call = c /\ Success(n)}}
               \cup Passed(c)' \cup IF CommitSent(c)' THEN Plan(c)' ELSE {}
    BY <1>5 DEF Acknowledged
  <2>2. op \in {Op(q) : q \in {n \in resps' : n.call = c /\ Success(n)}}
               \cup Passed(c) \cup IF CommitSent(c) THEN Plan(c) ELSE {}
    BY <2>1, <1>3, <1>4
  <2>3. PICK q \in resps' : q.call = c /\ Success(q) /\ op = Op(q)
    BY <2>2, <1>5 DEF Acknowledged
  <2>4. q \notin resps
    BY <2>3, <1>5 DEF Acknowledged
  <2>5. q = r
    BY <2>3, <2>4, <1>1
  <2> QED  BY <2>3, <2>5, <1>2, <1>5
<1> HIDE DEF r
<1>6. Knows(c)
  BY <1>1, <1>5 DEF Knows
<1>7. Hears(c)
  BY <1>1, <1>2, <1>3 DEF Hears, r
<1> QED  BY <1>1, <1>6, <1>7, WrittenStays, EffectsStay, ReadsStay DEF Effective

\* A transaction that starts, or goes on without writing, keeps its data.
LEMMA OpensFrozen ==
    ASSUME EffectsInv, NEW c \in Calls, Opens(c)
    PROVE  /\ Frozen(c) /\ Base(c)' = Base(c) /\ Origin(c)' = Origin(c)
           /\ wrote'[c] = wrote[c] /\ phase'[c] = "open"
<1>1. /\ phase \in [Calls -> {"none", "open", "committed", "aborted"}]
      /\ view \in [Calls -> Stores]
  BY DEF EffectsInv, SessionInv, TypeInv, TypeOK, ServerTypeOK
<1>2. /\ Active(c) /\ db' = db /\ wrote' = wrote
      /\ phase'[c] = "open" /\ view'[c] = Base(c)
  BY <1>1 DEF Opens
<1>3. Base(c)' = Base(c)
  BY <1>2 DEF Base
<1>4. Frozen(c)
  BY <1>2 DEF Frozen, Base
<1> QED  BY <1>2, <1>3, <1>4 DEF Origin

\* What the server does with a message of call c, and what it answers.
LEMMA ServeCases ==
    ASSUME EffectsInv, NEW c \in Calls, Serve(c)
    PROVE  \E m \in reqs \cup late :
        /\ m.call = c
        /\ \/ \E docs : /\ UNCHANGED <<db, txnVars>>
                        /\ \/ Answer(m, "notxn", docs)
                           \/ m.verb \in PlainReads /\ Answer(m, "ok", docs)
           \/ /\ m.verb \in Writes /\ Opens(c) /\ Answer(m, "miss", NoDocs)
              /\ Images(m, Base(c)) = {} \/ \E w \in Images(m, Base(c)) : Idle(m, w, Base(c))
           \/ /\ m.verb \in SessionReads /\ Opens(c)
              /\ Answer(m, "ok", Public(Assemble(Base(c),
                    IF m.verb = "aggregate" THEN ids[c]["account"] ELSE req[c].id)))
           \/ Aborts(c) /\ \E result : Answer(m, result, NoDocs)
           \/ /\ \E w \in Images(m, Base(c)) : WritesOne(m, w)
              /\ Answer(m, "ok", NoDocs)
           \/ m.verb = "commit" /\ Merges(c) /\ Answer(m, "ok", NoDocs)
<1>1. PICK m \in reqs \cup late :
        /\ m.call = c
        /\ \/ ServeWrite(m) \/ ServeRead(m) \/ ServeStranger(m)
           \/ ServeCommit(m) \/ ServeAbort(m) \/ ServePlain(m)
  BY DEF Serve
<1>2. wrote \in [Calls -> SUBSET Keys]
  BY DEF EffectsInv, SessionInv, TypeInv, TypeOK, ServerTypeOK
<1>3. Live(m) => Active(c) /\ Snapshot(m) = Base(c) /\ Stale(m) = stale[c]
  BY <1>1, LiveFacts DEF EffectsInv
<1>4. ASSUME Live(m), Continue(m, Snapshot(m), {}) PROVE Opens(c)
  BY <1>1, <1>2, <1>3, <1>4 DEF Continue, Opens
<1>5. CASE ServeWrite(m)
  <2> DEFINE s == Snapshot(m)
             There == Opens(c) /\ Answer(m, "miss", NoDocs)
             Done(w) == WritesOne(m, w) /\ Answer(m, "ok", NoDocs)
             Failed == Aborts(c) /\ \E result : Answer(m, result, NoDocs)
  <2>1. Live(m) /\ m.verb \in Writes /\ s = Base(c)
    BY <1>3, <1>5 DEF ServeWrite
  <2>2. CASE Images(m, s) = {} /\ Answer(m, "miss", NoDocs) /\ Continue(m, s, {})
    BY <1>1, <1>4, <2>1, <2>2
  <2>3. ASSUME NEW w \in Images(m, s)
        PROVE  /\ Idle(m, w, s) /\ Answer(m, "miss", NoDocs) /\ Continue(m, s, {}) => There
               /\ /\ ~Idle(m, w, s) /\ ~Conflicts(m, w, s) /\ ~Collides(m, w, s)
                  /\ Answer(m, "ok", NoDocs)
                  /\ Continue(m, Put(s, m.kind, w.id, w.doc), Touched(s, m.kind, w.id, w.doc))
                  => Done(w)
    BY <1>1, <1>3, <1>4, <2>1, <2>3 DEF WritesOne, Continue, Conflicts
  <2>4. Finish(m.call, "aborted") /\ UNCHANGED <<db, stale, faults>> => Aborts(c)
    BY <1>1, <1>3, <2>1 DEF Aborts
  <2>5. \/ Images(m, s) = {} /\ Answer(m, "miss", NoDocs) /\ Continue(m, s, {})
        \/ \E w \in Images(m, s) :
             \/ Idle(m, w, s) /\ Answer(m, "miss", NoDocs) /\ Continue(m, s, {})
             \/ /\ ~Idle(m, w, s) /\ ~Conflicts(m, w, s) /\ ~Collides(m, w, s)
                /\ Answer(m, "ok", NoDocs)
                /\ Continue(m, Put(s, m.kind, w.id, w.doc), Touched(s, m.kind, w.id, w.doc))
             \/ /\ Finish(m.call, "aborted") /\ UNCHANGED <<db, stale, faults>>
                /\ \E result : Answer(m, result, NoDocs)
    BY <1>5 DEF ServeWrite
  <2> HIDE DEF s
  <2>6. \/ There /\ Images(m, Base(c)) = {}
        \/ \E w \in Images(m, Base(c)) : (There /\ Idle(m, w, Base(c))) \/ Done(w) \/ Failed
    BY <1>4, <2>1, <2>3, <2>4, <2>5 DEF s
  <2> QED  BY <1>1, <2>1, <2>6
<1>6. CASE ServeRead(m)
  <2>1. /\ m.verb \in SessionReads /\ Live(m) /\ Continue(m, Snapshot(m), {})
        /\ Answer(m, "ok", Public(Assemble(Snapshot(m),
                 IF m.verb = "aggregate" THEN ids[c]["account"] ELSE req[c].id)))
    BY <1>1, <1>6 DEF ServeRead
  <2> QED  BY <1>1, <1>3, <1>4, <2>1
<1>7. CASE ServeStranger(m)
  BY <1>1, <1>7 DEF ServeStranger
<1>8. CASE ServePlain(m)
  <2>1. m.verb \in PlainReads /\ UNCHANGED <<db, txnVars>> /\ \E docs : Answer(m, "ok", docs)
    BY <1>8 DEF ServePlain
  <2> QED  BY <1>1, <2>1
<1>9. CASE ServeCommit(m)
  BY <1>1, <1>3, <1>9 DEF ServeCommit, Merges, Merge
<1>10. CASE ServeAbort(m)
  BY <1>1, <1>3, <1>10 DEF ServeAbort, Aborts
<1> QED  BY <1>1, <1>5, <1>6, <1>7, <1>8, <1>9, <1>10

-----------------------------------------------------------------------------
(* The case in which a transaction writes a document.                      *)

\* The requests that writes are sent for.
LEMMA WriteVerbs ==
    ASSUME EffectsInv, NEW m \in reqs \cup late, m.verb \in Writes, NEW c, c = m.call
    PROVE  /\ c \in Calls /\ Op(m)[1] = m.verb /\ Op(m)[2] = m.kind
           /\ m.verb = "insert" =>
                /\ req[c].op \in {"create", "seed"}
                /\ m.kind \in ChildKinds \/ \A k \in ChildKinds : ids[c][k] \in Ids
           /\ m.verb = "link" => req[c].op \in {"create", "seed"} /\ m.kind \in ChildKinds
           /\ m.verb = "update" =>
                /\ req[c].op = "update" /\ m.kind \in ChildKinds
                /\ UpdatePatch(c, m.kind) # NoPatch
           /\ m.verb = "delete" => req[c].op = "delete" /\ m.kind \in Kinds
<1> USE DEF EffectsInv, SessionInv, TypeInv, OperationsOK
<1>1. c \in Calls
  BY DEF TypeOK, CallsTypeOK, ServerTypeOK, Messages
<1>2. Justified(c, Op(m)) /\ Op(m) = <<m.verb, m.kind>>
  BY DEF Op
<1>3. m.verb = "update" => UpdatePatch(c, m.kind) # NoPatch
  OBVIOUS
<1>4. \/ Op(m) \in ChildSaves /\ req[c].op \in {"create", "seed"}
      \/ /\ Op(m) \in AccountSave \cup ParentLinks \cup AccountRead
         /\ req[c].op \in {"create", "seed"} /\ \A k \in Kinds : ids[c][k] \in Ids
      \/ /\ Op(m) \in ({"update"} \X ChildKinds) \cup AccountFind
         /\ req[c].op = "update"
      \/ Op(m) \in Populates
      \/ /\ Op(m) \in AccountList \cup Deletes
         /\ req[c].op = "delete"
      \/ Op(m) \in {<<"commit", "outer">>, <<"abort", "outer">>} \cup ({"abort"} \X ChildKinds)
  BY <1>2 DEF Justified
<1>5. /\ Op(m) \in ChildSaves => m.verb = "insert" /\ m.kind \in ChildKinds
      /\ Op(m) \in AccountSave => m.verb = "insert"
      /\ Op(m) \in ParentLinks => m.verb = "link" /\ m.kind \in ChildKinds
      /\ Op(m) \in {"update"} \X ChildKinds => m.verb = "update" /\ m.kind \in ChildKinds
      /\ Op(m) \in Deletes => m.verb = "delete" /\ m.kind \in Kinds
  BY <1>2 DEF ChildSaves, AccountSave, ParentLinks, Deletes
<1>6. Op(m) \notin AccountRead \cup AccountFind \cup Populates \cup AccountList
                  \cup {<<"commit", "outer">>, <<"abort", "outer">>} \cup ({"abort"} \X ChildKinds)
  BY <1>2 DEF AccountRead, AccountFind, Populates, AccountList, Writes
<1>7. ChildKinds \subseteq Kinds
  BY DEF ChildKinds
<1>8. Op(m)[1] = m.verb /\ Op(m)[2] = m.kind
  BY <1>2
<1>9. \/ Op(m) \in ChildSaves /\ req[c].op \in {"create", "seed"}
      \/ /\ Op(m) \in AccountSave \cup ParentLinks
         /\ req[c].op \in {"create", "seed"} /\ \A k \in ChildKinds : ids[c][k] \in Ids
      \/ Op(m) \in {"update"} \X ChildKinds /\ req[c].op = "update"
      \/ Op(m) \in Deletes /\ req[c].op = "delete"
  BY <1>4, <1>6, <1>7
<1> HIDE DEF EffectsInv
<1> QED  BY <1>1, <1>3, <1>5, <1>8, <1>9

\* A document that a Create or a seed has written is there.
LEMMA CreatedThere ==
    ASSUME EffectsInv, NEW c \in Calls, Active(c), req[c].op \in {"create", "seed"},
           NEW kind \in Kinds, NEW i \in Ids, <<kind, i>> \in wrote[c]
    PROVE  Creating(c, kind, i) /\ Base(c)[<<kind, i>>] # NoDoc
<1>1. Creating(c, kind, i)
  BY DEF EffectsInv, EffectInv, Effective, Written
<1> QED  BY <1>1 DEF Creating

\* What a transaction writes, it writes to its base, which is the store where it
\* has not written.
LEMMA WriteChanges ==
    ASSUME EffectsInv, NEW m, NEW w, WritesOne(m, w), NEW c, c = m.call
    PROVE  /\ c \in Calls /\ Active(c) /\ m \in reqs \cup late /\ m.verb \in Writes
           /\ m.kind \in Kinds /\ w.id \in Ids /\ w \in Images(m, Base(c))
           /\ ~Idle(m, w, Base(c)) /\ ~Collides(m, w, Base(c))
           /\ db' = db /\ phase'[c] = "open" /\ wrote[c] \subseteq wrote'[c]
           /\ Origin(c)' = Origin(c)
           /\ \A k \in DocKeys : k \in wrote'[c] <=> k \in wrote[c] \/ k = <<m.kind, w.id>>
           /\ \A k \in DocKeys : Base(c)'[k] = IF k = <<m.kind, w.id>> THEN w.doc ELSE Base(c)[k]
           /\ <<m.kind, w.id>> \notin wrote[c] => Base(c)[<<m.kind, w.id>>] = db[<<m.kind, w.id>>]
<1> DEFINE s == Base(c)
           T == Touched(s, m.kind, w.id, w.doc)
           key == <<m.kind, w.id>>
<1>1. /\ c \in Calls /\ Active(c) /\ T \in SUBSET Keys
      /\ m.kind \in Kinds /\ w.id \in Ids
      /\ db' = db /\ phase'[c] = "open" /\ wrote'[c] = wrote[c] \cup T
      /\ view'[c] = Put(s, m.kind, w.id, w.doc)
      /\ \A k \in Keys \ T : view'[c][k] = s[k]
      /\ \A k \in T \ wrote[c] : s[k] = db[k]
  BY WriteFacts DEF EffectsInv
<1>2. /\ m \in reqs \cup late /\ m.verb \in Writes /\ w \in Images(m, s)
      /\ ~Idle(m, w, s) /\ ~Collides(m, w, s)
  BY DEF WritesOne
<1>3. Base(c)' = view'[c]
  BY <1>1 DEF Base
<1>4. key \in T /\ \A k \in DocKeys : k \in T => k = key
  <2>1. LoginsOf(m.kind, s[key]) \subseteq LoginKeys /\ LoginsOf(m.kind, w.doc) \subseteq LoginKeys
    BY LoginsFacts
  <2> QED  BY <2>1, KeysApart DEF Touched
<1>5. \A k \in DocKeys : view'[c][k] = IF k = key THEN w.doc ELSE s[k]
  <2> HIDE DEF s
  <2>1. \A k \in DocKeys :
            Put(s, m.kind, w.id, w.doc)[k] = IF k = <<m.kind, w.id>> THEN w.doc ELSE s[k]
    BY <1>1, PutDocs
  <2> QED  BY <1>1, <2>1
<1>6. Origin(c)' = Origin(c)
  <2>1. \A k \in Keys : IF k \in wrote'[c] THEN db'[k] = Origin(c)[k]
                        ELSE view'[c][k] = Origin(c)[k]
    BY <1>1 DEF Origin
  <2> QED  BY <2>1, <1>3 DEF Origin
<1> QED  BY <1>1, <1>2, <1>3, <1>4, <1>5, <1>6

\* What a save and a back reference make of their document.
LEMMA WriteMakes ==
    ASSUME EffectsInv, NEW m, NEW w, WritesOne(m, w), NEW c, c = m.call
    PROVE  /\ m.verb = "insert" =>
                /\ w.id = ids[c][m.kind] /\ w.doc = SavedDoc(c, m.kind) /\ w.doc # NoDoc
                /\ <<m.kind, w.id>> \notin wrote[c] /\ db[<<m.kind, w.id>>] = NoDoc
           /\ m.verb = "link" =>
                /\ w.id = ids[c][m.kind] /\ <<m.kind, w.id>> \in wrote[c]
                /\ w.doc = [parent |-> ids[c]["account"],
                            fields |-> Base(c)[<<m.kind, w.id>>].fields]
<1> DEFINE key == <<m.kind, w.id>>
<1>1. /\ c \in Calls /\ Active(c) /\ m \in reqs \cup late /\ m.verb \in Writes
      /\ m.kind \in Kinds /\ w.id \in Ids /\ w \in Images(m, Base(c))
      /\ ~Collides(m, w, Base(c))
      /\ key \notin wrote[c] => Base(c)[key] = db[key]
  BY WriteChanges
<1>2. w.id \in Targets(m, Base(c)) /\ w.doc = Image(m, Base(c), w.id)
  BY <1>1 DEF Images
<1>3. CASE m.verb = "insert"
  <2>1. w.id = ids[c][m.kind] /\ w.doc = SavedDoc(c, m.kind) /\ Base(c)[key] = NoDoc
    BY <1>1, <1>2, <1>3 DEF Targets, Image, Collides
  <2>2. key \notin wrote[c]
    BY <1>1, <1>3, <2>1, WriteVerbs, CreatedThere
  <2>3. w.doc # NoDoc
    <3>1. CASE m.kind = "account"
      <4>1. \A k \in ChildKinds : ids[c][k] \in Ids
        BY <1>1, <1>3, <3>1, WriteVerbs DEF ChildKinds
      <4>2. SavedDoc(c, "account") \in AccountDocs
        BY <4>1 DEF SavedDoc, AccountDocs
      <4> QED  BY <2>1, <3>1, <4>2, StoreAssumption DEF Docs
    <3>2. CASE m.kind # "account"
      <4>1. m.kind \in ChildKinds
        BY <1>1, <3>2 DEF ChildKinds
      <4>2. NewPatch(c, m.kind) \in Patches
        BY <1>1, <4>1, RequestFacts DEF NewPatch, Patches, Payloads, EffectsInv, SessionInv
      <4>3. SavedDoc(c, m.kind) \in ChildDocs
        BY <3>2, <4>1, <4>2, NewChildType DEF SavedDoc
      <4> QED  BY <2>1, <4>3, StoreAssumption DEF Docs
    <3> QED  BY <3>1, <3>2
  <2> QED  BY <1>1, <1>3, <2>1, <2>2, <2>3
<1>4. CASE m.verb = "link"
  <2>1. w.id = ids[c][m.kind]
        /\ w.doc = [parent |-> ids[c]["account"], fields |-> Base(c)[key].fields]
    BY <1>1, <1>2, <1>4 DEF Targets, Image
  <2>2. Saved(c, m.kind)
    BY <1>1, <1>4 DEF EffectsInv, EffectInv, Effective, EffectsOK
  <2> QED  BY <1>4, <2>1, <2>2 DEF Saved
<1> QED  BY <1>3, <1>4

\* Every document a call has written is still one that its request asks for.
LEMMA WriteWritten ==
    ASSUME EffectsInv, NEW m, NEW w, WritesOne(m, w), NEW c, c = m.call,
           req' = req, ids' = ids
    PROVE  Written(c)'
<1> DEFINE key == <<m.kind, w.id>>
<1>1. /\ c \in Calls /\ Active(c) /\ m \in reqs \cup late /\ m.verb \in Writes
      /\ m.kind \in Kinds /\ w.id \in Ids /\ ~Idle(m, w, Base(c))
      /\ db' = db
      /\ \A k \in DocKeys : k \in wrote'[c] <=> k \in wrote[c] \/ k = key
      /\ \A k \in DocKeys : Base(c)'[k] = IF k = key THEN w.doc ELSE Base(c)[k]
      /\ key \notin wrote[c] => Base(c)[key] = db[key]
  BY WriteChanges
<1>2. Written(c)
  BY <1>1 DEF EffectsInv, EffectInv, Effective
<1>11. w.id \in Targets(m, Base(c)) /\ w.doc = Image(m, Base(c), w.id)
  <2>1. w \in Images(m, Base(c))
    BY WriteChanges
  <2> QED  BY <2>1 DEF Images
<1>3. /\ \A k : NewPatch(c, k)' = NewPatch(c, k) /\ SavedDoc(c, k)' = SavedDoc(c, k)
      /\ \A k : UpdatePatch(c, k)' = UpdatePatch(c, k)
  BY DEF NewPatch, SavedDoc, UpdatePatch
<1>4. ASSUME NEW kind \in Kinds, NEW i \in Ids, <<kind, i>> \in wrote[c], <<kind, i>> # key
      PROVE  /\ Creating(c, kind, i) => Creating(c, kind, i)'
             /\ Setting(c, kind, i) => Setting(c, kind, i)'
             /\ Removing(c, kind, i) => Removing(c, kind, i)'
  <2>1. Base(c)'[<<kind, i>>] = Base(c)[<<kind, i>>] /\ db'[<<kind, i>>] = db[<<kind, i>>]
    BY <1>1, <1>4, DocumentKeys
  <2> QED  BY <2>1, <1>3 DEF Creating, Setting, Removing
<1> DEFINE Rest(kind, i) == <<kind, i>> \in wrote[c] /\ <<kind, i>> # key
<1>10. \A kind \in Kinds, i \in Ids : <<kind, i>> \in wrote'[c] =>
          Rest(kind, i) \/ (kind = m.kind /\ i = w.id)
  BY <1>1, DocumentKeys
<1>5. Base(c)'[key] = w.doc /\ key \in DocKeys /\ db'[key] = db[key]
  BY <1>1, DocumentKeys
<1>6. CASE m.verb = "insert"
  <2>1. req[c].op \in {"create", "seed"}
    BY <1>1, <1>6, WriteVerbs
  <2>2. /\ w.id = ids[c][m.kind] /\ w.doc = SavedDoc(c, m.kind) /\ w.doc # NoDoc
        /\ db[key] = NoDoc
    BY <1>6, WriteMakes
  <2>3. Creating(c, m.kind, w.id)'
    <3>1. CASE m.kind = "account"
      BY <1>3, <1>5, <2>2, <3>1 DEF Creating
    <3>2. CASE m.kind # "account"
      <4>1. Valid(m.kind, NewPatch(c, m.kind))
        BY <1>1, <1>6, <3>2 DEF EffectsInv, IsolationInv, InsertsValid, ChildKinds
      <4>2. w.doc = [NewChild(m.kind, NewPatch(c, m.kind)) EXCEPT !.parent = NoId]
        BY <2>2, <3>2 DEF SavedDoc, NewChild
      <4> QED  BY <1>3, <1>5, <2>2, <3>2, <4>1, <4>2 DEF Creating
    <3> QED  BY <3>1, <3>2
  <2>8. ASSUME NEW kind \in Kinds, NEW i \in Ids, <<kind, i>> \in wrote'[c]
        PROVE  Creating(c, kind, i)'
    <3>1. CASE Rest(kind, i)
      <4>1. Creating(c, kind, i)
        BY <1>1, <1>2, <2>1, <3>1 DEF Written
      <4> QED  BY <1>4, <3>1, <4>1
    <3> QED  BY <1>10, <2>8, <2>3, <3>1
  <2> QED  BY <2>1, <2>8 DEF Written
<1>7. CASE m.verb = "link"
  <2>1. req[c].op \in {"create", "seed"} /\ m.kind # "account"
    BY <1>1, <1>7, WriteVerbs DEF ChildKinds
  <2>2. /\ w.id = ids[c][m.kind] /\ key \in wrote[c]
        /\ w.doc = [parent |-> ids[c]["account"], fields |-> Base(c)[key].fields]
    BY <1>7, WriteMakes
  <2>3. Creating(c, m.kind, w.id)
    BY <1>1, <2>1, <2>2, CreatedThere
  <2>4. /\ Valid(m.kind, NewPatch(c, m.kind)) /\ db[key] = NoDoc
        /\ Base(c)[key].fields = NewChild(m.kind, NewPatch(c, m.kind)).fields
    BY <2>1, <2>3 DEF Creating, NewChild
  <2>5. w.doc = [NewChild(m.kind, NewPatch(c, m.kind)) EXCEPT !.parent = ids[c]["account"]]
    <3> DEFINE new == NewChild(m.kind, NewPatch(c, m.kind))
    <3>1. new = [parent |-> NoId, fields |-> new.fields]
      BY DEF NewChild
    <3> HIDE DEF new
    <3>2. [new EXCEPT !.parent = ids[c]["account"]] =
              [parent |-> ids[c]["account"], fields |-> new.fields]
      BY <3>1
    <3> QED  BY <2>2, <2>4, <3>2 DEF new
  <2>6. w.doc # NoDoc
    <3>1. w.doc \in ChildDocs
      <4>1. NewPatch(c, m.kind) \in Patches /\ m.kind \in ChildKinds
        BY <1>1, <2>1, RequestFacts
        DEF NewPatch, Patches, Payloads, ChildKinds, EffectsInv, SessionInv
      <4>2. NewChild(m.kind, NewPatch(c, m.kind)) \in ChildDocs
        BY <4>1, NewChildType
      <4>3. ids[c]["account"] \in Ids \cup {NoId}
        BY <1>1 DEF EffectsInv, SessionInv, TypeInv, TypeOK, CallsTypeOK, Kinds
      <4> QED  BY <2>5, <4>2, <4>3 DEF ChildDocs
    <3> QED  BY <3>1, StoreAssumption DEF Docs
  <2>7. Creating(c, m.kind, w.id)'
    BY <1>3, <1>5, <2>1, <2>2, <2>4, <2>5, <2>6 DEF Creating
  <2>8. ASSUME NEW kind \in Kinds, NEW i \in Ids, <<kind, i>> \in wrote'[c]
        PROVE  Creating(c, kind, i)'
    <3>1. CASE Rest(kind, i)
      <4>1. Creating(c, kind, i)
        BY <1>1, <1>2, <2>1, <3>1 DEF Written
      <4> QED  BY <1>4, <3>1, <4>1
    <3> QED  BY <1>10, <2>8, <2>7, <3>1
  <2> QED  BY <2>1, <2>8 DEF Written
<1>8. CASE m.verb = "update"
  <2>1. req[c].op = "update" /\ m.kind # "account" /\ UpdatePatch(c, m.kind) # NoPatch
    BY <1>1, <1>8, WriteVerbs DEF ChildKinds
  <2>2. /\ Base(c)[key] # NoDoc /\ Base(c)[key].parent = req[c].id
        /\ w.doc = SetFields(Base(c)[key], m.kind, UpdatePatch(c, m.kind))
    BY <1>8, <1>11 DEF Targets, Image, ChildrenOf
  <2>3. w.doc # Base(c)[key]
    BY <1>1, <1>8 DEF Idle
  <2>4. key \notin wrote[c]
    <3>1. SUFFICES ASSUME key \in wrote[c] PROVE FALSE
      OBVIOUS
    <3>2. Setting(c, m.kind, w.id)
      BY <1>1, <1>2, <2>1, <3>1 DEF Written
    <3>3. Base(c)[key] = SetFields(db[key], m.kind, UpdatePatch(c, m.kind))
      BY <3>2 DEF Setting
    <3>4. SetFields(Base(c)[key], m.kind, UpdatePatch(c, m.kind)) = Base(c)[key]
      BY <3>3 DEF SetFields
    <3> QED  BY <2>2, <2>3, <3>4
  <2>5. Setting(c, m.kind, w.id)'
    BY <1>1, <1>3, <1>5, <2>1, <2>2, <2>3, <2>4 DEF Setting
  <2>8. ASSUME NEW kind \in Kinds, NEW i \in Ids, <<kind, i>> \in wrote'[c]
        PROVE  Setting(c, kind, i)'
    <3>1. CASE Rest(kind, i)
      <4>1. Setting(c, kind, i)
        BY <1>1, <1>2, <2>1, <3>1 DEF Written
      <4> QED  BY <1>4, <3>1, <4>1
    <3> QED  BY <1>10, <2>8, <2>5, <3>1
  <2> QED  BY <2>1, <2>8 DEF Written
<1>9. CASE m.verb = "delete"
  <2>1. req[c].op = "delete"
    BY <1>1, <1>9, WriteVerbs
  <2>2. /\ Base(c)[key] # NoDoc /\ w.doc = NoDoc
        /\ IF m.kind = "account" THEN w.id = req[c].id ELSE Base(c)[key].parent = req[c].id
    BY <1>9, <1>11 DEF Targets, Image, ChildrenOf
  <2>3. key \notin wrote[c]
    <3>1. key \in wrote[c] => Removing(c, m.kind, w.id)
      BY <1>1, <1>2, <2>1 DEF Written
    <3> QED  BY <2>2, <3>1 DEF Removing
  <2>4. Removing(c, m.kind, w.id)'
    BY <1>1, <1>5, <2>2, <2>3 DEF Removing
  <2>8. ASSUME NEW kind \in Kinds, NEW i \in Ids, <<kind, i>> \in wrote'[c]
        PROVE  Removing(c, kind, i)'
    <3>1. CASE Rest(kind, i)
      <4>1. Removing(c, kind, i)
        BY <1>1, <1>2, <2>1, <3>1 DEF Written
      <4> QED  BY <1>4, <3>1, <4>1
    <3> QED  BY <1>10, <2>8, <2>4, <3>1
  <2> QED  BY <2>1, <2>8 DEF Written
<1> QED  BY <1>1, <1>6, <1>7, <1>8, <1>9 DEF Writes

\* A write leaves its mark and takes none away.
LEMMA WriteMarks ==
    ASSUME EffectsInv, NEW m, NEW w, WritesOne(m, w), NEW c, c = m.call,
           req' = req, ids' = ids
    PROVE  /\ \A kind : Saved(c, kind) => Saved(c, kind)'
           /\ \A op : op[2] \in Scopes /\ HasEffect(c, op) => HasEffect(c, op)'
           /\ HasEffect(c, Op(m))'
<1> DEFINE key == <<m.kind, w.id>>
<1>1. /\ c \in Calls /\ Active(c) /\ m \in reqs \cup late /\ m.verb \in Writes
      /\ m.kind \in Kinds /\ w.id \in Ids /\ ~Idle(m, w, Base(c))
      /\ db' = db
      /\ \A k \in DocKeys : k \in wrote'[c] <=> k \in wrote[c] \/ k = key
      /\ \A k \in DocKeys : Base(c)'[k] = IF k = key THEN w.doc ELSE Base(c)[k]
      /\ key \notin wrote[c] => Base(c)[key] = db[key]
  BY WriteChanges
<1>13. phase'[c] = "open"
  BY WriteChanges
<1>10. wrote[c] \subseteq wrote'[c]
  BY WriteChanges
<1>11. m.verb = "link" =>
          /\ w.id = ids[c][m.kind]
          /\ w.doc = [parent |-> ids[c]["account"],
                      fields |-> Base(c)[<<m.kind, w.id>>].fields]
  BY WriteMakes
<1>12. m.verb = "link" => w.doc.parent = ids[c]["account"]
  BY <1>11
<1>2. Op(m)[1] = m.verb /\ Op(m)[2] = m.kind
  BY DEF Op
<1>3. key \in DocKeys
  BY <1>1, DocumentKeys
<1>4. \A kind : Saved(c, kind) => Saved(c, kind)'
  BY <1>10 DEF Saved
<1>5. ASSUME NEW kind \in Scopes, Saved(c, kind),
             Base(c)[<<kind, ids[c][kind]>>].parent = ids[c]["account"]
      PROVE  Base(c)'[<<kind, ids[c][kind]>>].parent = ids[c]["account"]
  <2> DEFINE k == <<kind, ids[c][kind]>>
  <2>1. k \in DocKeys
    <3>1. k \in Keys /\ kind # "login"
      BY <1>1, <1>5
      DEF Saved, EffectsInv, SessionInv, TypeInv, TypeOK, ServerTypeOK, Kinds, Scopes
    <3> QED  BY <3>1 DEF Keys, LoginKeys
  <2>2. CASE k # key
    BY <1>1, <1>13, <1>5, <2>1, <2>2
  <2>3. CASE k = key
    <3>1. Base(c)'[k] = w.doc /\ key \in wrote[c]
      BY <1>1, <1>13, <1>5, <2>1, <2>3 DEF Saved
    <3>2. m.verb # "insert"
      BY <3>1, WriteMakes
    <3>3. CASE m.verb = "link"
      BY <3>1, <3>3, <1>12
    <3>4. w.id \in Targets(m, Base(c)) /\ w.doc = Image(m, Base(c), w.id)
      <4>1. w \in Images(m, Base(c))
        BY WriteChanges
      <4> QED  BY <4>1 DEF Images
    <3>5. CASE m.verb = "update"
      <4>1. w.doc = SetFields(Base(c)[key], m.kind, UpdatePatch(c, m.kind))
        BY <3>4, <3>5 DEF Image
      <4>2. w.doc.parent = Base(c)[key].parent
        BY <4>1 DEF SetFields
      <4> QED  BY <1>5, <2>3, <3>1, <4>2
    <3>6. CASE m.verb = "delete"
      <4>1. req[c].op = "delete"
        BY <1>1, <3>6, WriteVerbs
      <4>2. Removing(c, m.kind, w.id)
        BY <1>1, <3>1, <4>1 DEF EffectsInv, EffectInv, Effective, Written
      <4>3. Base(c)[key] = NoDoc
        BY <4>2 DEF Removing
      <4>4. Base(c)[key] # NoDoc
        BY <3>4, <3>6 DEF Targets, ChildrenOf
      <4> QED  BY <4>3, <4>4
    <3> QED  BY <1>1, <3>2, <3>3, <3>5, <3>6 DEF Writes
  <2> QED  BY <2>2, <2>3
<1>6. ASSUME NEW op, op[2] \in Scopes, HasEffect(c, op) PROVE HasEffect(c, op)'
  BY <1>4, <1>5, <1>6, <1>10, <1>13 DEF HasEffect
<1>7. CASE m.verb = "insert"
  <2>1. w.id = ids[c][m.kind]
    BY <1>7, WriteMakes
  <2>2. Saved(c, m.kind)'
    BY <1>1, <1>13, <1>3, <2>1 DEF Saved
  <2> QED  BY <1>2, <1>4, <1>6, <1>7, <2>2 DEF HasEffect
<1>8. CASE m.verb = "link"
  <2>1. w.id = ids[c][m.kind] /\ w.doc.parent = ids[c]["account"]
    BY <1>8, <1>11, <1>12
  <2>2. Saved(c, m.kind)' /\ Base(c)'[<<m.kind, ids[c][m.kind]>>].parent = ids[c]["account"]
    BY <1>1, <1>13, <1>3, <2>1 DEF Saved
  <2> QED  BY <1>2, <1>4, <1>6, <1>8, <2>2 DEF HasEffect
<1>9. CASE m.verb \in {"update", "delete"}
  <2>1. <<m.kind, w.id>> \in wrote'[c]
    BY <1>1, <1>13, <1>3
  <2> QED  BY <1>1, <1>2, <1>4, <1>6, <1>9, <2>1 DEF HasEffect
<1> QED  BY <1>1, <1>4, <1>6, <1>7, <1>8, <1>9 DEF Writes

\* What is acknowledged is an operation on a collection, or on the session.
LEMMA AcknowledgedScopes ==
    ASSUME EffectsInv, NEW c \in Calls, NEW op \in Acknowledged(c)
    PROVE  op[2] \in Scopes
<1>1. \A r \in resps : Op(r)[2] \in Scopes
  BY DEF Op, EffectsInv, SessionInv, TypeInv, TypeOK, CallsTypeOK, Replies
<1>2. Passed(c) \cup Plan(c) \subseteq
        ChildSaves \cup AccountSave \cup ParentLinks \cup PartUpdates(c) \cup AccountList \cup Deletes
  BY RequestFacts DEF Passed, Plan, EffectsInv, SessionInv
<1>3. \A o \in ChildSaves \cup AccountSave \cup ParentLinks \cup PartUpdates(c) \cup AccountList
               \cup Deletes : o[2] \in Scopes
  BY DEF ChildSaves, AccountSave, ParentLinks, PartUpdates, Parts, AccountList, Deletes, Scopes,
     ChildKinds, Kinds
<1> QED  BY <1>1, <1>2, <1>3 DEF Acknowledged

\* A write is on its way only before the account is read back, and before the commit.
LEMMA WriteTime ==
    ASSUME EffectsInv, NEW m \in reqs \cup late, m.verb \in Writes, NEW c \in Calls, c = m.call
    PROVE  stage[c] # "aggregating" /\ ~CommitSent(c)
<1>1. ~CommitSent(c)
  BY CommitSentFacts DEF Writes
<1>2. ASSUME stage[c] = "aggregating" PROVE FALSE
  <2>1. WaitOK(c) /\ LateOK(c) /\ pending[c] \subseteq AccountRead
    BY <1>2 DEF EffectsInv, SessionInv, Disciplined, TypeInv, OperationsOK, StageOps
  <2>2. Stands(m) = Op(m) /\ m.verb # "aggregate"
    BY DEF Stands, Writes
  <2>3. Stands(m) \notin pending[c]
    BY <2>1, <2>2 DEF AccountRead, Op
  <2>4. m \notin reqs
    BY <1>2, <2>1, <2>3 DEF WaitOK, Over
  <2>5. PICK r \in resps : r.call = c /\ Stands(r) = Stands(m)
    BY <1>2, <2>1, <2>4 DEF LateOK, Rejection
  <2> QED  BY <1>2, <2>1, <2>3, <2>5 DEF WaitOK, Over
<1> QED  BY <1>1, <1>2

\* A transaction that writes a document does what was asked, and says so.
LEMMA WriteKeeps ==
    ASSUME EffectsInv, NEW c \in Calls, NEW m \in reqs \cup late, m.call = c,
           NEW w, WritesOne(m, w), Answer(m, "ok", NoDocs)
    PROVE  Effective(c)'
<1> DEFINE r == Reply(m, "ok", NoDocs)
<1>1. /\ UNCHANGED <<req, ids, stage, pending, missed, body>>
      /\ reqs' \subseteq reqs /\ late' \subseteq late /\ resps' \subseteq resps \cup {r}
  BY SettledFacts DEF Answer
<1>2. r.call = c /\ Op(r) = Op(m) /\ r.verb = m.verb /\ m.verb \in Writes
  BY DEF Reply, Op, WritesOne
<1>3. stage[c] # "aggregating" /\ ~CommitSent(c)
  BY <1>2, WriteTime
<1>4. ~CommitSent(c)'
  BY <1>1, <1>3 DEF CommitSent
<1>5. Active(c) /\ EffectsOK(c) /\ ReadsOK(c)
  BY WriteChanges DEF EffectsInv, EffectInv, Effective
<1>6. Origin(c)' = Origin(c)
  BY WriteChanges
<1>7. /\ \A kind : Saved(c, kind) => Saved(c, kind)'
      /\ \A op : op[2] \in Scopes /\ HasEffect(c, op) => HasEffect(c, op)'
      /\ HasEffect(c, Op(m))'
  BY <1>1, WriteMarks
<1>8. Passed(c)' = Passed(c)
  BY <1>1 DEF Passed, PartUpdates, Parts
<1>9. Written(c)'
  BY <1>1, WriteWritten
<1>10. ASSUME NEW op \in Acknowledged(c)' PROVE HasEffect(c, op)'
  <2>1. op \in {Op(q) : q \in {n \in resps' : n.call = c /\ Success(n)}}
               \cup Passed(c)' \cup IF CommitSent(c)' THEN Plan(c)' ELSE {}
    BY <1>10 DEF Acknowledged
  <2>2. op \in {Op(q) : q \in {n \in resps' : n.call = c /\ Success(n)}} \cup Passed(c)
    BY <2>1, <1>4, <1>8
  <2>3. op \in Acknowledged(c) \/ op = Op(m)
    BY <2>2, <1>1, <1>2 DEF Acknowledged
  <2> QED  BY <2>3, <1>5, <1>7, AcknowledgedScopes DEF EffectsOK
<1> HIDE DEF r
<1>11. EffectsOK(c)'
  BY <1>1, <1>4, <1>5, <1>7, <1>10 DEF EffectsOK
<1>12. ReadsOK(c)'
  <2>1. ASSUME NEW q \in resps', q.call = c, q.result = "ok" PROVE Truthful(c, q)'
    <3>1. CASE q = r
      BY <1>1, <1>2, <1>3, <3>1 DEF Truthful, Writes
    <3>2. CASE q # r
      <4>1. Truthful(c, q)
        BY <1>1, <1>5, <2>1, <3>2 DEF ReadsOK
      <4> QED  BY <1>1, <1>3, <1>6, <4>1 DEF Truthful
    <3> QED  BY <3>1, <3>2
  <2> QED  BY <1>1, <1>3, <1>4, <1>5, <1>6, <2>1 DEF ReadsOK
<1> QED  BY <1>9, <1>11, <1>12 DEF Effective

\* The documents a call has saved have ids.
LEMMA SavedThere ==
    ASSUME EffectsInv, NEW c \in Calls, Active(c), req[c].op \in {"create", "seed"},
           NEW kind \in Kinds, Saved(c, kind)
    PROVE  /\ ids[c][kind] \in Ids
           /\ Creating(c, kind, ids[c][kind]) /\ Base(c)[<<kind, ids[c][kind]>>] # NoDoc
<1>1. <<kind, ids[c][kind]>> \in Keys
  BY DEF Saved, EffectsInv, SessionInv, TypeInv, TypeOK, ServerTypeOK
<1>2. kind # "login"
  BY DEF Kinds
<1>3. ids[c][kind] \in Ids
  BY <1>1, <1>2 DEF Keys, DocKeys, LoginKeys
<1> QED  BY <1>3, CreatedThere DEF Saved

\* An operation that changes nothing is no success but for a back reference, which is
\* then there already.
LEMMA MissKeeps ==
    ASSUME EffectsInv, NEW c \in Calls, NEW m \in reqs \cup late, m.call = c, m.verb \in Writes,
           Opens(c), Answer(m, "miss", NoDocs),
           Images(m, Base(c)) = {} \/ \E w \in Images(m, Base(c)) : Idle(m, w, Base(c))
    PROVE  Effective(c)'
<1> DEFINE key == <<m.kind, ids[c][m.kind]>>
<1>1. /\ Frozen(c) /\ Base(c)' = Base(c) /\ wrote'[c] = wrote[c] /\ Active(c)
      /\ ids' = ids
  BY OpensFrozen DEF Opens, Answer
<1>2. ASSUME m.verb = "link" PROVE HasEffect(c, Op(m))'
  <2>1. req[c].op \in {"create", "seed"} /\ m.kind \in Kinds
    BY <1>2, WriteVerbs DEF ChildKinds
  <2>2. Saved(c, m.kind)
    BY <1>1, <1>2, <2>1 DEF EffectsInv, EffectInv, Effective, EffectsOK
  <2>3. Base(c)[key] # NoDoc
    BY <1>1, <2>1, <2>2, SavedThere
  <2>4. Targets(m, Base(c)) = {ids[c][m.kind]}
    BY <1>2, <2>3 DEF Targets
  <2>5. Images(m, Base(c)) = {[id |-> ids[c][m.kind],
                               doc |-> Image(m, Base(c), ids[c][m.kind])]}
    BY <2>4 DEF Images
  <2>6. Image(m, Base(c), ids[c][m.kind]) = Base(c)[key]
    <3> DEFINE w == [id |-> ids[c][m.kind], doc |-> Image(m, Base(c), ids[c][m.kind])]
    <3>1. w.id = ids[c][m.kind] /\ w.doc = Image(m, Base(c), ids[c][m.kind])
      OBVIOUS
    <3>2. Images(m, Base(c)) = {w}
      BY <2>5
    <3> HIDE DEF w
    <3>3. Idle(m, w, Base(c))
      BY <3>2
    <3> QED  BY <3>1, <3>3 DEF Idle
  <2>7. Base(c)[key].parent = ids[c]["account"]
    BY <1>2, <2>6 DEF Image
  <2>8. Op(m)[1] = "link" /\ Op(m)[2] = m.kind
    BY <1>2 DEF Op
  <2>9. Saved(c, m.kind)' /\ Base(c)'[<<m.kind, ids'[c][m.kind]>>].parent = ids'[c]["account"]
    BY <1>1, <2>2, <2>7 DEF Saved
  <2> QED  BY <2>8, <2>9 DEF HasEffect
<1>3. Success(Reply(m, "miss", NoDocs)) => m.verb = "link"
  BY DEF Success, Reply
<1> QED  BY <1>1, <1>2, <1>3, AnswerKeeps

\* A read in a transaction finds its base; a list finds its snapshot, for nothing is
\* written yet.
LEMMA ReadKeeps ==
    ASSUME EffectsInv, NEW c \in Calls, NEW m \in reqs \cup late, m.call = c,
           m.verb \in SessionReads, Opens(c),
           Answer(m, "ok", Public(Assemble(Base(c),
                      IF m.verb = "aggregate" THEN ids[c]["account"] ELSE req[c].id)))
    PROVE  Effective(c)'
<1> DEFINE docs == Public(Assemble(Base(c),
                      IF m.verb = "aggregate" THEN ids[c]["account"] ELSE req[c].id))
           r == Reply(m, "ok", docs)
<1>1. /\ Frozen(c) /\ Base(c)' = Base(c) /\ Origin(c)' = Origin(c) /\ Active(c)
      /\ phase'[c] = "open" /\ ids' = ids /\ req' = req
  BY OpensFrozen DEF Opens, Answer
<1>2. HasEffect(c, Op(m))'
  BY <1>1 DEF HasEffect, Op, SessionReads
<1>3. r.verb = m.verb /\ r.docs = docs
  BY DEF Reply
<1>4. m.verb = "list" => Origin(c) = Base(c)
  <2> SUFFICES ASSUME m.verb = "list" PROVE Origin(c) = Base(c)
    OBVIOUS
  <2>1. wrote[c] = {}
    BY DEF EffectsInv, EffectInv, ListFirst
  <2>2. Base(c) \in Stores
    BY <1>1, BaseFacts DEF EffectsInv
  <2> QED  BY <2>1, <2>2 DEF Origin, Stores
<1>5. Truthful(c, r)'
  BY <1>1, <1>3, <1>4 DEF Truthful, SessionReads
<1> HIDE DEF docs
<1> QED  BY <1>1, <1>2, <1>5, AnswerKeeps DEF docs

\* Whatever the server does with a message of a call, it keeps its word.
LEMMA ServeOwn ==
    ASSUME EffectsInv, NEW c \in Calls, Serve(c)
    PROVE  Effective(c)'
<1>1. PICK m \in reqs \cup late :
        /\ m.call = c
        /\ \/ \E docs : /\ UNCHANGED <<db, txnVars>>
                        /\ \/ Answer(m, "notxn", docs)
                           \/ m.verb \in PlainReads /\ Answer(m, "ok", docs)
           \/ /\ m.verb \in Writes /\ Opens(c) /\ Answer(m, "miss", NoDocs)
              /\ Images(m, Base(c)) = {} \/ \E w \in Images(m, Base(c)) : Idle(m, w, Base(c))
           \/ /\ m.verb \in SessionReads /\ Opens(c)
              /\ Answer(m, "ok", Public(Assemble(Base(c),
                    IF m.verb = "aggregate" THEN ids[c]["account"] ELSE req[c].id)))
           \/ Aborts(c) /\ \E result : Answer(m, result, NoDocs)
           \/ /\ \E w \in Images(m, Base(c)) : WritesOne(m, w)
              /\ Answer(m, "ok", NoDocs)
           \/ m.verb = "commit" /\ Merges(c) /\ Answer(m, "ok", NoDocs)
  BY ServeCases
<1>2. ASSUME NEW docs, UNCHANGED <<db, txnVars>>,
             Answer(m, "notxn", docs) \/ (m.verb \in PlainReads /\ Answer(m, "ok", docs))
      PROVE  Effective(c)'
  <2>1. Frozen(c)
    BY <1>2 DEF txnVars, Frozen, Active
  <2>2. CASE Answer(m, "notxn", docs)
    <3>1. ~Success(Reply(m, "notxn", docs))
      BY DEF Success, Reply, Fulfilled
    <3> QED  BY <1>1, <2>1, <2>2, <3>1, AnswerKeeps
  <2>3. CASE m.verb \in PlainReads /\ Answer(m, "ok", docs)
    <3> DEFINE r == Reply(m, "ok", docs)
    <3>1. r.verb \in PlainReads
      BY <2>3 DEF Reply
    <3>2. ~Success(r) /\ Truthful(c, r)'
      BY <3>1 DEF Success, Truthful, PlainReads, SessionReads
    <3> HIDE DEF r
    <3> QED  BY <1>1, <2>1, <2>3, <3>2, AnswerKeeps DEF r
  <2> QED  BY <1>2, <2>2, <2>3
<1>3. ASSUME NEW result, NEW docs, Answer(m, result, docs), ~Active(c)'
      PROVE  Effective(c)'
  <2>1. /\ req' = req /\ ids' = ids /\ stage' = stage
        /\ reqs' \subseteq reqs /\ late' \subseteq late
    BY <1>3 DEF Answer
  <2> QED  BY <1>3, <2>1, InactiveKeeps
<1>4. phase \in [Calls -> {"none", "open", "committed", "aborted"}]
  BY DEF EffectsInv, SessionInv, TypeInv, TypeOK, ServerTypeOK
<1>5. Aborts(c) \/ Merges(c) => ~Active(c)'
  BY <1>4 DEF Aborts, Merges, Finish, Active
<1> QED  BY <1>1, <1>2, <1>3, <1>5, MissKeeps, ReadKeeps, WriteKeeps

-----------------------------------------------------------------------------
(* The data and the knowledge of the other calls, and the faults.          *)

\* No transaction touches what another has written.
LEMMA OthersFrozen ==
    ASSUME EffectsInv, NEW c \in Calls, NEW d \in Calls \ {c},
           \/ UNCHANGED <<db, txnVars>>
           \/ Opens(c) \/ Aborts(c) \/ Merges(c)
           \/ \E m \in reqs \cup late : m.call = c /\ \E w : WritesOne(m, w)
    PROVE  Frozen(d)
<1>1. /\ phase \in [Calls -> {"none", "open", "committed", "aborted"}]
      /\ view \in [Calls -> Stores] /\ wrote \in [Calls -> SUBSET Keys]
  BY DEF EffectsInv, SessionInv, TypeInv, TypeOK, ServerTypeOK
<1>2. CASE UNCHANGED <<db, txnVars>>
  BY <1>2 DEF txnVars, Frozen, Active
<1>3. CASE Opens(c) \/ Aborts(c)
  BY <1>1, <1>3 DEF Opens, Aborts, Finish, Frozen, Active
<1>4. CASE \E m \in reqs \cup late : m.call = c /\ \E w : WritesOne(m, w)
  <2>1. /\ phase'[d] = phase[d] /\ view'[d] = view[d] /\ wrote'[d] = wrote[d] /\ db' = db
    BY <1>4, WriteFacts DEF EffectsInv
  <2> QED  BY <2>1 DEF Frozen, Active
<1>5. CASE Merges(c)
  <2>1. /\ phase'[d] = phase[d] /\ view'[d] = view[d] /\ wrote'[d] = wrote[d]
        /\ db' = Merge(db, view[c], wrote[c])
    BY <1>1, <1>5 DEF Merges, Finish
  <2>2. wrote[c] \cap wrote[d] = {}
    BY DEF EffectsInv, IsolationInv, Isolated
  <2>3. \A k \in wrote[d] : db'[k] = db[k]
    BY <1>1, <2>1, <2>2 DEF Merge
  <2> QED  BY <2>1, <2>3 DEF Frozen, Active
<1> QED  BY <1>2, <1>3, <1>4, <1>5

\* A call whose transaction is left alone and that learns of no success keeps its word,
\* also when its handler stops.
LEMMA LossKeeps ==
    ASSUME EffectsInv, NEW d \in Calls, Frozen(d), UNCHANGED <<req, pending, missed, body, ids>>,
           stage'[d] = stage[d] \/ stage'[d] = "crashed",
           \A r \in resps' : r \in resps \/ (~Success(r) /\ r.result # "ok"),
           reqs' \cup late' \subseteq reqs \cup late
    PROVE  Effective(d)'
<1>1. CommitSent(d)' => CommitSent(d)
  BY DEF CommitSent
<1>2. Plan(d)' = Plan(d) /\ (Passed(d)' = Passed(d) \/ Passed(d)' = {})
  BY DEF Plan, Passed, PartUpdates, Parts
<1>3. Acknowledged(d)' \subseteq Acknowledged(d)
  <2>1. Acknowledged(d)' \subseteq
            {Op(q) : q \in {n \in resps' : n.call = d /\ Success(n)}}
            \cup Passed(d) \cup IF CommitSent(d) THEN Plan(d) ELSE {}
    BY <1>1, <1>2 DEF Acknowledged
  <2>2. {n \in resps' : n.call = d /\ Success(n)} \subseteq
            {n \in resps : n.call = d /\ Success(n)}
    OBVIOUS
  <2>3. {Op(q) : q \in {n \in resps' : n.call = d /\ Success(n)}} \subseteq
            {Op(q) : q \in {n \in resps : n.call = d /\ Success(n)}}
    BY <2>2
  <2> QED  BY <2>1, <2>3 DEF Acknowledged
<1>4. Knows(d)
  BY <1>3 DEF Knows
<1>5. Hears(d)
  BY <1>1 DEF Hears
<1> QED  BY <1>4, <1>5, WrittenStays, EffectsStay, ReadsStay DEF Effective

\* A message served for one call changes nothing for another.
LEMMA ServeOthers ==
    ASSUME EffectsInv, NEW c \in Calls, Serve(c), NEW d \in Calls \ {c}
    PROVE  Effective(d)'
<1>1. Untouched(d)
  BY ServeAlone DEF EffectsInv
<1>2. Frozen(d)
  BY ServeShapes, OthersFrozen DEF EffectsInv
<1>3. UNCHANGED <<missed, ids, body>>
  BY ServeCases DEF Answer
<1> QED  BY <1>1, <1>2, <1>3, UntouchedKeeps

\* A reply that says an operation is lost says of no success.
LEMMA LostIsNoSuccess ==
    ASSUME NEW r
    PROVE  ~Success(Reply(r, "lost", NoDocs)) /\ Reply(r, "lost", NoDocs).result # "ok"
  BY DEF Success, Reply, Fulfilled

\* Faults, the clock and a system at rest keep what every call has done and knows.
LEMMA FaultKeeps ==
    ASSUME EffectsInv, Fault \/ Tick \/ Quiet \/ UNCHANGED vars, NEW d \in Calls
    PROVE  Effective(d)'
<1>1. UNCHANGED <<db, txnVars>>
  BY DEF Fault, GiveUp, Vanish, LoseReply, Crash, Tick, Quiet, vars, serverVars, txnVars
<1>2. Frozen(d)
  BY <1>1 DEF txnVars, Frozen, Active
<1>3. CASE GiveUp
  <2>1. PICK m \in reqs : resps' = resps \cup Settled(Reply(m, "lost", NoDocs))
    BY <1>3 DEF GiveUp
  <2>2. \A r \in resps' : r \in resps \/ (~Success(r) /\ r.result # "ok")
    BY <2>1, SettledFacts, LostIsNoSuccess
  <2>3. UNCHANGED <<req, stage, pending, missed, body, ids>>
        /\ reqs' \cup late' \subseteq reqs \cup late
    BY <1>3 DEF GiveUp
  <2> QED  BY <1>2, <2>2, <2>3, LossKeeps
<1>4. CASE LoseReply
  <2>1. PICK q \in resps : resps' = (resps \ {q}) \cup Settled(Reply(q, "lost", NoDocs))
    BY <1>4 DEF LoseReply
  <2>2. \A r \in resps' : r \in resps \/ (~Success(r) /\ r.result # "ok")
    BY <2>1, SettledFacts, LostIsNoSuccess
  <2>3. UNCHANGED <<req, stage, pending, missed, body, ids, reqs, late>>
    BY <1>4 DEF LoseReply
  <2> QED  BY <1>2, <2>2, <2>3, LossKeeps
<1>5. CASE \E c \in Calls : Crash(c)
  <2>1. /\ UNCHANGED <<req, pending, missed, body, ids>>
        /\ resps' \subseteq resps /\ reqs' \cup late' \subseteq reqs \cup late
    BY <1>5 DEF Crash
  <2>2. stage'[d] = stage[d] \/ stage'[d] = "crashed"
    BY <1>5 DEF Crash, EffectsInv, SessionInv, TypeInv, TypeOK, CallsTypeOK
  <2> QED  BY <1>2, <2>1, <2>2, LossKeeps
<1>6. CASE Vanish \/ Tick \/ Quiet \/ UNCHANGED vars
  <2>1. /\ UNCHANGED <<req, stage, pending, missed, body, ids, resps>>
        /\ reqs' \cup late' \subseteq reqs \cup late
    BY <1>6 DEF Vanish, Tick, Quiet, vars, callVars, serverVars
  <2> QED  BY <1>2, <2>1, LossKeeps
<1> QED  BY <1>3, <1>4, <1>5, <1>6 DEF Fault

\* A reaped transaction owes nothing.
LEMMA ReapKeeps ==
    ASSUME EffectsInv, NEW c \in Calls, Reap(c), NEW d \in Calls
    PROVE  Effective(d)'
<1>1. UNCHANGED callVars /\ late' = late /\ Aborts(c)
  BY DEF Reap, Aborts, Active
<1>2. UNCHANGED <<req, stage, pending, missed, body, ids, reqs, resps>>
  BY <1>1 DEF callVars
<1>3. CASE d = c
  <2>1. ~Active(c)'
    BY <1>1 DEF Aborts, Finish, Active, EffectsInv, SessionInv, TypeInv, TypeOK, ServerTypeOK
  <2> QED  BY <1>1, <1>2, <1>3, <2>1, InactiveKeeps
<1>4. CASE d # c
  BY <1>1, <1>2, <1>4, OthersFrozen, LossKeeps
<1> QED  BY <1>3, <1>4

\* Every call keeps its word.
LEMMA EffectiveStays == EffectsInv /\ [Next]_vars => \A d \in Calls : Effective(d)'
<1> SUFFICES ASSUME EffectsInv, [Next]_vars, NEW d \in Calls PROVE Effective(d)'
  OBVIOUS
<1>1. ASSUME NEW c \in Calls, Serve(c) PROVE Effective(d)'
  BY <1>1, ServeOwn, ServeOthers
<1> QED  BY <1>1, StepKeeps, ReapKeeps, FaultKeeps DEF Next

-----------------------------------------------------------------------------
(* A DeleteOne lists before it deletes.                                    *)

\* Operations are created when a call begins.
LEMMA TodoShrinks ==
    ASSUME SessionInv, NEW c \in Calls, Handle(c)
    PROVE  stage[c] = "new" \/ todo'[c] \subseteq todo[c]
<1> USE DEF SessionInv, TypeInv, TypeOK, CallsTypeOK
<1>1. CASE Create(c) \/ SeedAccount(c)
  BY <1>1 DEF Create, SeedAccount, CreateBegin, ChildSaved, ChildDuplicate, ChildAbortDone,
     ChildRejected, AccountSaved, ParentLinked, Aggregated, StepRejected, SeedBegin,
     SeedSaved, SeedLinked, SeedRejected
<1>2. CASE UpdateOne(c) \/ DeleteOne(c)
  BY <1>2, OmittedFacts
  DEF UpdateOne, DeleteOne, UpdateBegin, PartSet, PartRejected, Found, NotFound, Populated,
     DeleteInvalid, DeleteBegin, Listed, ListRejected, Deleted, DeleteRejected,
     Refuse
<1>3. CASE NotConnected(c) \/ Dispatch(c) \/ AbortDone(c) \/ Committed(c) \/ CommitFailed(c)
  BY <1>3 DEF NotConnected, Dispatch, AbortDone, Committed, CommitFailed, Refuse
<1> QED  BY <1>1, <1>2, <1>3 DEF Handle

\* Deletes are sent when the list has been read.
LEMMA DeletesSent ==
    ASSUME SessionInv, NEW c \in Calls, Handle(c), NEW m \in reqs' \ reqs, m.verb = "delete"
    PROVE  Listed(c)
<1>1. ASSUME NEW ops \in {AccountSave, ParentLinks, AccountRead, AccountFind, Populates,
                         {<<"commit", "outer">>}, {<<"abort", "outer">>}},
             reqs' = reqs \cup Sent(c, ops)
      PROVE  FALSE
  <2>1. \A op \in ops : op[1] # "delete"
    BY <1>1 DEF AccountSave, ParentLinks, AccountRead, AccountFind, Populates
  <2>2. \A n \in Sent(c, ops) : \E op \in ops : n.verb = op[1]
    BY DEF Sent, Message
  <2> QED  BY <1>1, <2>1, <2>2
<1>2. ASSUME NEW status, Abandon(c, status) PROVE FALSE
  <2>1. reqs' = reqs \cup Sent(c, {<<"abort", "outer">>})
    BY <1>2 DEF Abandon
  <2> QED  BY <1>1, <2>1
<1>3. CASE Commit(c)
  <2>1. reqs' = reqs \cup Sent(c, {<<"commit", "outer">>})
    BY <1>3 DEF Commit
  <2> QED  BY <1>1, <2>1
<1>4. ASSUME NEW next, NEW ops \in {AccountSave, ParentLinks, AccountRead, AccountFind, Populates},
             Proceed(c, next, ops)
      PROVE  FALSE
  BY <1>1, <1>4 DEF Proceed
<1>5. CASE Dispatch(c)
  <2>1. PICK op \in todo[c] : reqs' \subseteq reqs \cup {Message(c, op, tstate[c] = "starting")}
    BY <1>5 DEF Dispatch
  <2>2. m.verb = op[1]
    BY <2>1 DEF Message
  <2>3. op \in ChildSaves \cup ({"update"} \X ChildKinds) \cup AccountList
    BY DEF SessionInv, Disciplined, Once
  <2> QED  BY <2>2, <2>3 DEF ChildSaves, AccountList
<1>6. CASE ChildDuplicate(c)
  <2>1. PICK r \in resps : reqs' \subseteq reqs \cup Sent(c, {<<"abort", r.kind>>})
    BY <1>6 DEF ChildDuplicate
  <2>2. m.verb = "abort"
    BY <2>1 DEF Sent, Message
  <2> QED  BY <2>2
<1>7. CASE CreateBegin(c) \/ ChildAbortDone(c) \/ SeedBegin(c) \/ DeleteInvalid(c)
           \/ DeleteBegin(c) \/ NotConnected(c) \/ AbortDone(c) \/ Committed(c)
           \/ CommitFailed(c)
  BY <1>7 DEF CreateBegin, ChildAbortDone, SeedBegin, DeleteInvalid, DeleteBegin,
     NotConnected, AbortDone, Committed, CommitFailed, Refuse
<1>8. CASE ChildSaved(c) \/ AccountSaved(c) \/ SeedSaved(c) \/ ParentLinked(c) \/ Found(c)
  BY <1>4, <1>8 DEF ChildSaved, AccountSaved, SeedSaved, ParentLinked, Found
<1>9. CASE ChildRejected(c) \/ StepRejected(c) \/ SeedRejected(c) \/ PartRejected(c)
           \/ NotFound(c) \/ ListRejected(c) \/ DeleteRejected(c)
  BY <1>2, <1>9 DEF ChildRejected, StepRejected, SeedRejected, PartRejected,
     NotFound, ListRejected, DeleteRejected
<1>10. CASE Aggregated(c) \/ SeedLinked(c) \/ Populated(c) \/ Deleted(c)
  BY <1>2, <1>3, <1>10 DEF Aggregated, SeedLinked, Populated, Deleted
<1>11. CASE UpdateBegin(c) \/ PartSet(c)
  BY <1>2, <1>4, <1>11 DEF UpdateBegin, PartSet
<1>12. ~UpdateThrows(c) /\ ~UpdateUnasked(c) /\ ~DeleteThrows(c)
  BY OmittedFacts
<1> QED  BY <1>5, <1>6, <1>7, <1>8, <1>9, <1>10, <1>11, <1>12
            DEF Handle, Create, SeedAccount, UpdateOne, DeleteOne

\* The list of call c is still to be read.
ToList(c) ==
    <<"list", "account">> \in todo[c] \/ \E m \in reqs \cup late : m.call = c /\ m.verb = "list"

\* A handler that has begun creates no list, and sends one only if it had created it.
LEMMA ListsSent ==
    ASSUME EffectsInv, NEW c \in Calls, Step(c), ToList(c)'
    PROVE  stage[c] = "new" \/ ToList(c)
<1>1. late' = late
  BY DEF Step, serverVars
<1>2. CASE <<"list", "account">> \in todo'[c]
  BY <1>2, TodoShrinks DEF Step, EffectsInv, ToList
<1>3. CASE \E m \in reqs' \cup late' : m.call = c /\ m.verb = "list"
  <2>1. PICK m \in reqs' \cup late' : m.call = c /\ m.verb = "list"
    BY <1>3
  <2>2. CASE m \in reqs \cup late
    BY <2>1, <2>2 DEF ToList
  <2>3. CASE m \notin reqs \cup late
    <3>1. Op(m)[1] = "list"
      BY <2>1 DEF Op
    <3>2. \/ Op(m) \in todo[c]
          \/ Op(m) \in AccountSave \cup ParentLinks \cup AccountRead \cup AccountFind
                       \cup Populates \cup Deletes
                       \cup {<<"commit", "outer">>, <<"abort", "outer">>}
                       \cup ({"abort"} \X ChildKinds)
      BY <1>1, <2>3, HandleSends DEF Step, EffectsInv
    <3>3. Op(m) \in todo[c]
      BY <3>1, <3>2
      DEF AccountSave, ParentLinks, AccountRead, AccountFind, Populates, Deletes
    <3>4. Op(m) \in ChildSaves \cup ({"update"} \X ChildKinds) \cup AccountList
      BY <3>3 DEF EffectsInv, SessionInv, Disciplined, Once
    <3>5. Op(m) = <<"list", "account">>
      BY <3>1, <3>4 DEF ChildSaves, AccountList
    <3> QED  BY <3>3, <3>5 DEF ToList
  <2> QED  BY <2>2, <2>3
<1> QED  BY <1>2, <1>3 DEF ToList

\* The call whose list is still to be read is a DeleteOne.
LEMMA ListIsDelete ==
    ASSUME EffectsInv, NEW c \in Calls, ToList(c)
    PROVE  req[c].op = "delete"
<1> USE DEF EffectsInv, SessionInv, TypeInv, OperationsOK
<1>1. PICK op : op[1] = "list" /\ Justified(c, op)
  <2>1. CASE <<"list", "account">> \in todo[c]
    BY <2>1
  <2>2. CASE \E m \in reqs \cup late : m.call = c /\ m.verb = "list"
    BY <2>2 DEF Op
  <2> QED  BY <2>1, <2>2 DEF ToList
<1> QED  BY <1>1 DEF Justified, ChildSaves, AccountSave, ParentLinks, AccountRead, AccountFind,
         Populates

\* No step sends a delete, or writes, before the list of a DeleteOne is read.
LEMMA ListFirstStays == EffectsInv /\ [Next]_vars => \A d \in Calls : ListFirst(d)'
<1> SUFFICES ASSUME EffectsInv, [Next]_vars, NEW d \in Calls, ToList(d)'
             PROVE  /\ wrote'[d] = {}
                    /\ \A m \in reqs' \cup late' : m.call = d => m.verb # "delete"
  BY DEF ListFirst, ToList
<1>1. ListFirst(d)
  BY DEF EffectsInv, EffectInv
<1>2. CASE \E c \in Calls : Step(c)
  <2>1. PICK c \in Calls : Step(c)
    BY <1>2
  <2>2. wrote' = wrote /\ late' = late /\ Handle(c)
    BY <2>1 DEF Step, serverVars
  <2>3. CASE d # c
    <3>1. Untouched(d)
      BY <2>1, <2>3, HandleAlone DEF Step, EffectsInv
    <3>2. /\ ToList(d)
          /\ \A m \in reqs' \cup late' : m.call = d => m \in reqs \cup late
      BY <3>1 DEF Untouched, ToList
    <3> QED  BY <1>1, <2>2, <3>2 DEF ListFirst, ToList
  <2>4. CASE d = c
    <3>1. CASE stage[c] = "new"
      <4>1. Silent(c) /\ phase[c] = "none" /\ \A m \in late : m.call # c
        BY <3>1, NewGaveNothingUp DEF EffectsInv, SessionInv, Disciplined, EndOK, PhaseOK
      <4>2. wrote[c] = {}
        BY <4>1, Unstarted
      <4>3. ASSUME NEW m \in reqs', m.call = c, m.verb = "delete" PROVE FALSE
        <5>1. m \in reqs' \ reqs
          BY <4>1, <4>3 DEF Silent
        <5>2. Listed(c)
          BY <2>2, <4>3, <5>1, DeletesSent DEF EffectsInv
        <5> QED  BY <3>1, <5>2 DEF Listed, Awaited
      <4> QED  BY <2>2, <2>4, <4>1, <4>2, <4>3
    <3>2. CASE ToList(c)
      <4>1. ASSUME NEW m \in reqs' \cup late', m.call = c, m.verb = "delete" PROVE FALSE
        <5>1. m \in reqs' \ reqs
          BY <1>1, <2>2, <2>4, <3>2, <4>1 DEF ListFirst, ToList
        <5>2. Listed(c)
          BY <2>2, <4>1, <5>1, DeletesSent DEF EffectsInv
        <5>3. PICK r \in resps : Awaited(c, "listing", r) /\ r.result = "ok"
          BY <5>2 DEF Listed
        <5>4. pending[c] = {Op(r)}
          BY <5>3, OnlyOneAwaited DEF EffectsInv
        <5>5. "listing" \in Waiting
          BY DEF Waiting, Stages, Over
        <5>6. todo[c] = {} /\ \A n \in reqs \cup late : n.call # c
          BY <5>3, <5>4, <5>5, LastSilent DEF EffectsInv
        <5> QED  BY <3>2, <5>6 DEF ToList
      <4> QED  BY <1>1, <2>2, <2>4, <3>2, <4>1 DEF ListFirst, ToList
    <3> QED  BY <2>1, <2>4, <3>1, <3>2, ListsSent
  <2> QED  BY <2>3, <2>4
<1>3. CASE ~\E c \in Calls : Step(c)
  <2>1. reqs' \cup late' \subseteq reqs \cup late
    BY <1>3, OthersSendNothing DEF EffectsInv
  <2>2. todo'[d] \subseteq todo[d]
    <3>1. ASSUME NEW c \in Calls, Serve(c) PROVE todo' = todo
      BY <3>1, ServeCases DEF Answer
    <3>2. ASSUME NEW c \in Calls, Reap(c) PROVE todo' = todo
      BY <3>2 DEF Reap, callVars
    <3>3. CASE Fault
      BY <3>3 DEF Fault, GiveUp, Vanish, LoseReply, Crash, callVars,
         EffectsInv, SessionInv, TypeInv, TypeOK, CallsTypeOK
    <3>4. CASE Tick \/ Quiet \/ UNCHANGED vars
      BY <3>4 DEF Tick, Quiet, vars, callVars
    <3> QED  BY <1>3, <3>1, <3>2, <3>3, <3>4 DEF Next
  <2>3. ToList(d)
    BY <2>1, <2>2 DEF ToList
  <2>4. wrote[d] = {} /\ \A m \in reqs \cup late : m.call = d => m.verb # "delete"
    BY <1>1, <2>3 DEF ListFirst, ToList
  <2>5. wrote'[d] = {}
    <3>1. wrote \in [Calls -> SUBSET Keys]
      BY DEF EffectsInv, SessionInv, TypeInv, TypeOK, ServerTypeOK
    <3>2. CASE UNCHANGED <<db, txnVars>>
      BY <2>4, <3>2 DEF txnVars
    <3>3. CASE \E c \in Calls : Opens(c) \/ Aborts(c) \/ Merges(c)
      BY <2>4, <3>1, <3>3 DEF Opens, Aborts, Merges, Finish
    <3>4. CASE \E m \in reqs \cup late : \E w \in Images(m, Base(m.call)) : WritesOne(m, w)
      <4>1. PICK m \in reqs \cup late : \E w : WritesOne(m, w)
        BY <3>4
      <4> PICK w : WritesOne(m, w)
        BY <4>1
      <4>2. m.call = d => m.verb = "delete"
        BY <2>3, <4>1, ListIsDelete, WriteVerbs, WriteChanges DEF Writes
      <4>3. m.call \in Calls /\ \A e \in Calls \ {m.call} : wrote'[e] = wrote[e]
        BY <4>1, WriteFacts DEF EffectsInv
      <4> QED  BY <2>4, <4>2, <4>3
    <3> QED  BY <3>2, <3>3, <3>4, DataShapes DEF EffectsInv
  <2> QED  BY <2>1, <2>4, <2>5
<1> QED  BY <1>2, <1>3

-----------------------------------------------------------------------------
(* What a commit finds, by the operation of its call.                      *)

\* A commit takes over what the transaction wrote, and nothing else.
LEMMA MergeFacts ==
    ASSUME EffectsInv, NEW c \in Calls, Merges(c)
    PROVE  /\ Active(c) /\ Base(c) \in Stores
           /\ \A k \in Keys : db'[k] = IF k \in wrote[c] THEN Base(c)[k] ELSE db[k]
<1>1. Active(c) /\ db' = Merge(db, view[c], wrote[c])
  BY DEF Merges
<1>2. Base(c) \in Stores
  BY <1>1, BaseFacts DEF EffectsInv
<1>3. wrote[c] # {} => Base(c) = view[c]
  BY Unstarted DEF Base
<1> QED  BY <1>1, <1>2, <1>3 DEF Merge

\* When its commit is sent a call has done all it had planned.
LEMMA PlanDone ==
    ASSUME EffectsInv, NEW c \in Calls, Active(c), CommitSent(c)
    PROVE  /\ \A op \in Plan(c) : HasEffect(c, op)
           /\ req[c].op = "delete" => body[c] = Public(Assemble(Origin(c), req[c].id))
           /\ req[c].op = "create" => body[c] = Public(Assemble(Base(c), ids[c]["account"]))
  BY DEF EffectsInv, EffectInv, Effective, EffectsOK, ReadsOK, Acknowledged

\* A Create and a seed have written one new document of each collection: the account
\* and its three children, which point back at it.
LEMMA CreateCommit ==
    ASSUME EffectsInv, NEW c \in Calls, Active(c), CommitSent(c),
           req[c].op \in {"create", "seed"}
    PROVE  /\ \A kind \in Kinds :
                /\ ids[c][kind] \in Ids /\ db[<<kind, ids[c][kind]>>] = NoDoc
                /\ Base(c)[<<kind, ids[c][kind]>>] # NoDoc
                /\ \A i \in Ids : <<kind, i>> \in wrote[c] <=> i = ids[c][kind]
           /\ Base(c)[<<"account", ids[c]["account"]>>] = [k \in ChildKinds |-> ids[c][k]]
           /\ \A kind \in ChildKinds :
                Base(c)[<<kind, ids[c][kind]>>] =
                   [parent |-> ids[c]["account"], fields |-> NewChild(kind, NewPatch(c, kind)).fields]
<1>1. \A op \in ChildSaves \cup AccountSave \cup ParentLinks : HasEffect(c, op)
  BY PlanDone DEF Plan
<1>2. \A kind \in Kinds : Saved(c, kind)
  <2> SUFFICES ASSUME NEW kind \in Kinds PROVE Saved(c, kind)
    OBVIOUS
  <2>1. <<"insert", kind>> \in ChildSaves \cup AccountSave
    BY DEF ChildSaves, AccountSave, ChildKinds
  <2>2. HasEffect(c, <<"insert", kind>>)
    BY <1>1, <2>1
  <2> QED  BY <2>2 DEF HasEffect
<1>3. \A kind \in Kinds :
         /\ ids[c][kind] \in Ids /\ Creating(c, kind, ids[c][kind])
         /\ Base(c)[<<kind, ids[c][kind]>>] # NoDoc
  BY <1>2, SavedThere
<1>4. \A kind \in Kinds, i \in Ids : <<kind, i>> \in wrote[c] => Creating(c, kind, i)
  BY CreatedThere
<1>5. \A kind \in Kinds :
         /\ ids[c][kind] \in Ids /\ db[<<kind, ids[c][kind]>>] = NoDoc
         /\ Base(c)[<<kind, ids[c][kind]>>] # NoDoc
         /\ \A i \in Ids : <<kind, i>> \in wrote[c] <=> i = ids[c][kind]
  BY <1>2, <1>3, <1>4 DEF Creating, Saved
<1>6. Base(c)[<<"account", ids[c]["account"]>>] = [k \in ChildKinds |-> ids[c][k]]
  <2>1. "account" \in Kinds
    BY DEF Kinds
  <2>2. Creating(c, "account", ids[c]["account"])
    BY <1>3, <2>1
  <2> QED  BY <2>2 DEF Creating, SavedDoc
<1>7. ASSUME NEW kind \in ChildKinds
      PROVE  Base(c)[<<kind, ids[c][kind]>>] =
                [parent |-> ids[c]["account"], fields |-> NewChild(kind, NewPatch(c, kind)).fields]
  <2> DEFINE new == NewChild(kind, NewPatch(c, kind))
             doc == Base(c)[<<kind, ids[c][kind]>>]
  <2>1. kind \in Kinds /\ kind # "account"
    BY <1>7 DEF ChildKinds
  <2>2. doc \in {[new EXCEPT !.parent = p] : p \in {NoId, ids[c]["account"]}}
    BY <1>3, <2>1 DEF Creating
  <2>3. HasEffect(c, <<"link", kind>>)
    BY <1>1, <1>7 DEF ParentLinks
  <2>4. doc.parent = ids[c]["account"]
    BY <2>3 DEF HasEffect
  <2>5. new = [parent |-> NoId, fields |-> new.fields]
    BY DEF NewChild
  <2> HIDE DEF new, doc
  <2>6. \A p : [new EXCEPT !.parent = p] = [parent |-> p, fields |-> new.fields]
    BY <2>5
  <2>7. doc = [parent |-> doc.parent, fields |-> new.fields]
    BY <2>2, <2>6
  <2> QED  BY <2>4, <2>7 DEF new, doc
<1> QED  BY <1>5, <1>6, <1>7

\* An UpdateOne has set fields of children, whose parents stay.
LEMMA UpdateCommit ==
    ASSUME EffectsInv, NEW c \in Calls, Active(c), req[c].op = "update",
           NEW kind \in Kinds, NEW i \in Ids, <<kind, i>> \in wrote[c]
    PROVE  /\ kind \in ChildKinds /\ db[<<kind, i>>] # NoDoc
           /\ Base(c)[<<kind, i>>] = SetFields(db[<<kind, i>>], kind, UpdatePatch(c, kind))
           /\ Base(c)[<<kind, i>>] # NoDoc /\ Base(c)[<<kind, i>>].parent = db[<<kind, i>>].parent
<1>1. Setting(c, kind, i)
  BY DEF EffectsInv, EffectInv, Effective, Written
<1>2. /\ kind \in ChildKinds /\ db[<<kind, i>>] # NoDoc /\ UpdatePatch(c, kind) # NoPatch
      /\ Base(c)[<<kind, i>>] = SetFields(db[<<kind, i>>], kind, UpdatePatch(c, kind))
  BY <1>1 DEF Setting, ChildKinds
<1>3. db[<<kind, i>>] \in ChildDocs
  BY <1>2 DEF EffectsInv, SessionInv, TypeInv, TypeOK, ServerTypeOK, Stores, DocsOf, ChildKinds
<1>4. UpdatePatch(c, kind) \in Patches
  <2>1. "info" \in ChildKinds /\ kind \in ChildKinds
    BY <1>2 DEF ChildKinds, Kinds
  <2> QED  BY <1>2, <2>1, RequestFacts DEF UpdatePatch, Payloads, EffectsInv, SessionInv
<1>5. Base(c)[<<kind, i>>] \in ChildDocs
  BY <1>2, <1>3, <1>4, SetFieldsType
<1> QED  BY <1>2, <1>5, StoreAssumption DEF SetFields, Docs

-----------------------------------------------------------------------------
(* Whole accounts stay whole.                                              *)

\* What every step of the service keeps: the store holds whole accounts.
WholeInv == EffectsInv /\ RefIntegrity

\* A DeleteOne has removed its account and the children of that account.
LEMMA DeleteCommit ==
    ASSUME WholeInv, NEW c \in Calls, Active(c), CommitSent(c), req[c].op = "delete"
    PROVE  /\ req[c].id \in Accounts(db)
           /\ \A k \in ChildKinds : db[<<"account", req[c].id>>][k] \in Ids
           /\ \A i \in Ids : <<"account", i>> \in wrote[c] <=> i = req[c].id
           /\ \A kind \in ChildKinds, i \in Ids :
                 <<kind, i>> \in wrote[c] <=> i = db[<<"account", req[c].id>>][kind]
           /\ \A kind \in Kinds, i \in Ids : <<kind, i>> \in wrote[c] =>
                 Base(c)[<<kind, i>>] = NoDoc /\ db[<<kind, i>>] # NoDoc
<1> USE DEF WholeInv
<1> DEFINE a == req[c].id
<1>1. ASSUME NEW kind \in Kinds
      PROVE  /\ \E i \in Ids : <<kind, i>> \in wrote[c]
             /\ \A i \in Ids : <<kind, i>> \in wrote[c] => Removing(c, kind, i)
  <2>1. <<"delete", kind>> \in Plan(c)
    BY <1>1 DEF Plan, Deletes
  <2>2. HasEffect(c, <<"delete", kind>>)
    BY <2>1, PlanDone
  <2>3. Written(c)
    BY DEF EffectsInv, EffectInv, Effective
  <2> QED  BY <2>2, <2>3 DEF HasEffect, Written
<1>2. "account" \in Kinds /\ ChildKinds \subseteq Kinds /\ "account" \notin ChildKinds
  BY DEF Kinds, ChildKinds
<1>3. /\ \A i \in Ids : <<"account", i>> \in wrote[c] <=> i = a
      /\ a \in Accounts(db)
  BY <1>1, <1>2 DEF Removing, Accounts
<1>4. db[<<"account", a>>] \in AccountDocs
  BY <1>2, <1>3 DEF Accounts, EffectsInv, SessionInv, TypeInv, TypeOK, ServerTypeOK, Stores, DocsOf
<1>5. \A k \in ChildKinds : db[<<"account", a>>][k] \in Ids
  BY <1>4 DEF AccountDocs
<1>6. ASSUME NEW kind \in ChildKinds, NEW i \in Ids, <<kind, i>> \in wrote[c]
      PROVE  i = db[<<"account", a>>][kind]
  <2>1. db[<<kind, i>>] # NoDoc /\ db[<<kind, i>>].parent = a
    BY <1>1, <1>2, <1>6 DEF Removing
  <2> QED  BY <2>1 DEF RefIntegrity
<1>7. \A kind \in ChildKinds, i \in Ids : <<kind, i>> \in wrote[c] <=> i = db[<<"account", a>>][kind]
  BY <1>1, <1>2, <1>6
<1> QED  BY <1>1, <1>3, <1>5, <1>7 DEF Removing

\* The accounts of the store have children with ids, and the children's parents have too.
LEMMA IntegrityFacts ==
    ASSUME WholeInv
    PROVE  /\ \A a \in Accounts(db), kind \in ChildKinds :
                 db[<<"account", a>>][kind] \in Ids /\ Linked(db, a, kind)
           /\ \A kind \in ChildKinds, i \in Ids : db[<<kind, i>>] # NoDoc =>
                 /\ db[<<kind, i>>].parent \in Accounts(db)
                 /\ db[<<"account", db[<<kind, i>>].parent>>][kind] = i
           /\ Accounts(db) \subseteq Ids
           /\ ChildKinds \subseteq Kinds /\ "account" \in Kinds /\ "account" \notin ChildKinds
<1> USE DEF WholeInv
<1>1. "account" \in Kinds /\ ChildKinds \subseteq Kinds /\ "account" \notin ChildKinds
  BY DEF Kinds, ChildKinds
<1>2. \A a \in Accounts(db) : a \in Ids /\ db[<<"account", a>>] \in AccountDocs
  BY <1>1 DEF Accounts, EffectsInv, SessionInv, TypeInv, TypeOK, ServerTypeOK, Stores, DocsOf
<1>3. \A a \in Accounts(db), kind \in ChildKinds : db[<<"account", a>>][kind] \in Ids
  BY <1>2 DEF AccountDocs
<1> QED  BY <1>1, <1>2, <1>3 DEF RefIntegrity

\* The commit of a Create or of a seed leaves whole accounts.
LEMMA CreateWhole ==
    ASSUME WholeInv, NEW c \in Calls, Merges(c), CommitSent(c), req[c].op \in {"create", "seed"}
    PROVE  RefIntegrity'
<1> USE DEF WholeInv
<1> DEFINE a == ids[c]["account"]
<1>1. /\ Active(c)
      /\ \A kind \in Kinds, i \in Ids :
            db'[<<kind, i>>] = IF <<kind, i>> \in wrote[c] THEN Base(c)[<<kind, i>>]
                               ELSE db[<<kind, i>>]
  BY MergeFacts, DocumentKeys
<1>2. /\ \A kind \in Kinds :
            /\ ids[c][kind] \in Ids /\ db[<<kind, ids[c][kind]>>] = NoDoc
            /\ Base(c)[<<kind, ids[c][kind]>>] # NoDoc
            /\ \A i \in Ids : <<kind, i>> \in wrote[c] <=> i = ids[c][kind]
      /\ Base(c)[<<"account", a>>] = [k \in ChildKinds |-> ids[c][k]]
      /\ \A kind \in ChildKinds : Base(c)[<<kind, ids[c][kind]>>].parent = a
  <2>1. ASSUME NEW kind \in ChildKinds PROVE Base(c)[<<kind, ids[c][kind]>>].parent = a
    <3>1. Base(c)[<<kind, ids[c][kind]>>] =
             [parent |-> a, fields |-> NewChild(kind, NewPatch(c, kind)).fields]
      BY <1>1, CreateCommit
    <3> QED  BY <3>1
  <2> HIDE DEF a
  <2>2. a = ids[c]["account"]
    BY DEF a
  <2> QED  BY <1>1, <2>1, <2>2, CreateCommit
<1>3. /\ \A x \in Accounts(db), kind \in ChildKinds :
             db[<<"account", x>>][kind] \in Ids /\ Linked(db, x, kind)
      /\ \A kind \in ChildKinds, i \in Ids : db[<<kind, i>>] # NoDoc =>
             /\ db[<<kind, i>>].parent \in Accounts(db)
             /\ db[<<"account", db[<<kind, i>>].parent>>][kind] = i
      /\ ChildKinds \subseteq Kinds /\ "account" \in Kinds /\ Accounts(db) \subseteq Ids
  BY IntegrityFacts
<1>4. \A kind \in Kinds, i \in Ids :
          /\ i # ids[c][kind] => db'[<<kind, i>>] = db[<<kind, i>>]
          /\ i = ids[c][kind] => db'[<<kind, i>>] = Base(c)[<<kind, i>>]
  BY <1>1, <1>2
<1>5. /\ a \in Ids /\ a \notin Accounts(db) /\ Accounts(db)' = Accounts(db) \cup {a}
      /\ db'[<<"account", a>>] = [k \in ChildKinds |-> ids[c][k]]
      /\ \A x \in Accounts(db) : db'[<<"account", x>>] = db[<<"account", x>>]
  BY <1>2, <1>3, <1>4 DEF Accounts
<1>6. ASSUME NEW x \in Accounts(db)', NEW kind \in ChildKinds PROVE Linked(db, x, kind)'
  <2>1. CASE x = a
    <3>1. db'[<<"account", a>>][kind] = ids[c][kind]
      BY <1>5
    <3>2. db'[<<kind, ids[c][kind]>>] = Base(c)[<<kind, ids[c][kind]>>]
      BY <1>2, <1>3, <1>4
    <3> QED  BY <1>2, <1>3, <2>1, <3>1, <3>2 DEF Linked
  <2>2. CASE x # a
    <3> DEFINE j == db[<<"account", x>>][kind]
    <3>1. x \in Accounts(db) /\ j \in Ids /\ db[<<kind, j>>] # NoDoc /\ db[<<kind, j>>].parent = x
      BY <1>3, <1>5, <2>2 DEF Linked
    <3>2. db'[<<kind, j>>] = db[<<kind, j>>] /\ db'[<<"account", x>>][kind] = j
      BY <1>2, <1>3, <1>4, <1>5, <3>1
    <3> QED  BY <3>1, <3>2 DEF Linked
  <2> QED  BY <2>1, <2>2
<1>7. ASSUME NEW kind \in ChildKinds, NEW i \in Ids, db'[<<kind, i>>] # NoDoc
      PROVE  /\ db'[<<kind, i>>].parent \in Accounts(db)'
             /\ db'[<<"account", db'[<<kind, i>>].parent>>][kind] = i
  <2>1. CASE i = ids[c][kind]
    <3>1. db'[<<kind, i>>].parent = a
      BY <1>2, <1>3, <1>4, <2>1
    <3>2. db'[<<"account", a>>][kind] = i
      BY <1>5, <2>1
    <3> QED  BY <1>5, <3>1, <3>2
  <2>2. CASE i # ids[c][kind]
    <3>1. db'[<<kind, i>>] = db[<<kind, i>>]
      BY <1>3, <1>4, <2>2
    <3>2. db[<<kind, i>>].parent \in Accounts(db)
          /\ db[<<"account", db[<<kind, i>>].parent>>][kind] = i
      BY <1>3, <1>7, <3>1
    <3> QED  BY <1>5, <3>1, <3>2
  <2> QED  BY <2>1, <2>2
<1> QED  BY <1>6, <1>7 DEF RefIntegrity

\* The commit of an UpdateOne leaves every reference as it was.
LEMMA UpdateWhole ==
    ASSUME WholeInv, NEW c \in Calls, Merges(c), req[c].op = "update"
    PROVE  RefIntegrity'
<1> USE DEF WholeInv
<1>1. /\ Active(c)
      /\ \A kind \in Kinds, i \in Ids :
            db'[<<kind, i>>] = IF <<kind, i>> \in wrote[c] THEN Base(c)[<<kind, i>>]
                               ELSE db[<<kind, i>>]
  BY MergeFacts, DocumentKeys
<1>2. \A kind \in Kinds, i \in Ids : <<kind, i>> \in wrote[c] =>
          /\ kind # "account" /\ db[<<kind, i>>] # NoDoc
          /\ Base(c)[<<kind, i>>] # NoDoc /\ Base(c)[<<kind, i>>].parent = db[<<kind, i>>].parent
  BY <1>1, UpdateCommit DEF ChildKinds
<1>3. /\ \A x \in Accounts(db), kind \in ChildKinds :
             db[<<"account", x>>][kind] \in Ids /\ Linked(db, x, kind)
      /\ \A kind \in ChildKinds, i \in Ids : db[<<kind, i>>] # NoDoc =>
             /\ db[<<kind, i>>].parent \in Accounts(db)
             /\ db[<<"account", db[<<kind, i>>].parent>>][kind] = i
      /\ ChildKinds \subseteq Kinds /\ "account" \in Kinds /\ Accounts(db) \subseteq Ids
  BY IntegrityFacts
<1>4. /\ \A x \in Ids : db'[<<"account", x>>] = db[<<"account", x>>]
      /\ \A kind \in ChildKinds, i \in Ids :
            /\ db'[<<kind, i>>] = NoDoc <=> db[<<kind, i>>] = NoDoc
            /\ db[<<kind, i>>] # NoDoc => db'[<<kind, i>>].parent = db[<<kind, i>>].parent
  BY <1>1, <1>2, <1>3
<1>5. Accounts(db)' = Accounts(db)
  BY <1>4 DEF Accounts
<1> QED  BY <1>3, <1>4, <1>5 DEF RefIntegrity, Linked

\* The commit of a DeleteOne takes an account with all its children.
LEMMA DeleteWhole ==
    ASSUME WholeInv, NEW c \in Calls, Merges(c), CommitSent(c), req[c].op = "delete"
    PROVE  RefIntegrity'
<1> USE DEF WholeInv
<1> DEFINE a == req[c].id
<1>1. /\ Active(c)
      /\ \A kind \in Kinds, i \in Ids :
            db'[<<kind, i>>] = IF <<kind, i>> \in wrote[c] THEN Base(c)[<<kind, i>>]
                               ELSE db[<<kind, i>>]
  BY MergeFacts, DocumentKeys
<1>2. /\ a \in Accounts(db)
      /\ \A i \in Ids : <<"account", i>> \in wrote[c] <=> i = a
      /\ \A kind \in ChildKinds, i \in Ids :
            <<kind, i>> \in wrote[c] <=> i = db[<<"account", a>>][kind]
      /\ \A kind \in Kinds, i \in Ids : <<kind, i>> \in wrote[c] => Base(c)[<<kind, i>>] = NoDoc
  BY <1>1, DeleteCommit
<1>3. /\ \A x \in Accounts(db), kind \in ChildKinds :
             db[<<"account", x>>][kind] \in Ids /\ Linked(db, x, kind)
      /\ \A kind \in ChildKinds, i \in Ids : db[<<kind, i>>] # NoDoc =>
             /\ db[<<kind, i>>].parent \in Accounts(db)
             /\ db[<<"account", db[<<kind, i>>].parent>>][kind] = i
      /\ ChildKinds \subseteq Kinds /\ "account" \in Kinds /\ Accounts(db) \subseteq Ids
  BY IntegrityFacts
<1>4. /\ Accounts(db)' = Accounts(db) \ {a}
      /\ \A x \in Accounts(db) \ {a} : db'[<<"account", x>>] = db[<<"account", x>>]
  BY <1>1, <1>2, <1>3 DEF Accounts
<1>5. \A kind \in ChildKinds, i \in Ids :
         db'[<<kind, i>>] = IF i = db[<<"account", a>>][kind] THEN NoDoc ELSE db[<<kind, i>>]
  <2> TAKE kind \in ChildKinds, i \in Ids
  <2>1. kind \in Kinds
    BY <1>3
  <2>2. db'[<<kind, i>>] = IF <<kind, i>> \in wrote[c] THEN Base(c)[<<kind, i>>]
                           ELSE db[<<kind, i>>]
    BY <1>1, <2>1
  <2>3. <<kind, i>> \in wrote[c] => Base(c)[<<kind, i>>] = NoDoc
    BY <1>2, <2>1
  <2>4. <<kind, i>> \in wrote[c] <=> i = db[<<"account", a>>][kind]
    BY <1>2
  <2> QED  BY <2>2, <2>3, <2>4
<1>6. ASSUME NEW x \in Accounts(db)', NEW kind \in ChildKinds PROVE Linked(db, x, kind)'
  <2> DEFINE j == db[<<"account", x>>][kind]
  <2>1. /\ x \in Accounts(db) /\ x # a /\ j \in Ids
        /\ db[<<kind, j>>] # NoDoc /\ db[<<kind, j>>].parent = x
    BY <1>3, <1>4 DEF Linked
  <2>2. j # db[<<"account", a>>][kind]
    BY <1>2, <1>3, <2>1 DEF Linked
  <2>3. db'[<<kind, j>>] = db[<<kind, j>>] /\ db'[<<"account", x>>][kind] = j
    BY <1>4, <1>5, <2>1, <2>2
  <2> QED  BY <2>1, <2>3 DEF Linked
<1>7. ASSUME NEW kind \in ChildKinds, NEW i \in Ids, db'[<<kind, i>>] # NoDoc
      PROVE  /\ db'[<<kind, i>>].parent \in Accounts(db)'
             /\ db'[<<"account", db'[<<kind, i>>].parent>>][kind] = i
  <2>1. db'[<<kind, i>>] = db[<<kind, i>>] /\ i # db[<<"account", a>>][kind]
    BY <1>5, <1>7
  <2>2. db[<<kind, i>>].parent \in Accounts(db) /\ db[<<"account", db[<<kind, i>>].parent>>][kind] = i
    BY <1>3, <1>7, <2>1
  <2>3. db[<<kind, i>>].parent # a
    BY <2>1, <2>2
  <2> QED  BY <1>4, <2>1, <2>2, <2>3
<1> QED  BY <1>6, <1>7 DEF RefIntegrity

\* A call whose commit the server accepts has sent it, and that commit is the only
\* step that changes the store.
LEMMA StoreChanges ==
    ASSUME EffectsInv, [Next]_vars
    PROVE  \/ db' = db /\ \A c \in Calls : ~Commits(c)
           \/ \E c \in Calls : /\ Merges(c) /\ CommitSent(c)
                               /\ \A d \in Calls \ {c} : ~Commits(d)
<1>1. phase \in [Calls -> {"none", "open", "committed", "aborted"}]
  BY DEF EffectsInv, SessionInv, TypeInv, TypeOK, ServerTypeOK
<1>2. CASE UNCHANGED <<db, txnVars>>
  BY <1>2 DEF txnVars, Commits
<1>3. CASE \E c \in Calls : Opens(c) \/ Aborts(c)
  BY <1>1, <1>3 DEF Opens, Aborts, Finish, Commits
<1>4. CASE \E m \in reqs \cup late : \E w \in Images(m, Base(m.call)) : WritesOne(m, w)
  BY <1>1, <1>4 DEF WritesOne, Commits
<1>5. CASE \E c \in Calls, m \in reqs \cup late : m.call = c /\ m.verb = "commit" /\ Merges(c)
  <2>1. PICK c \in Calls : Merges(c) /\ CommitSent(c)
    BY <1>5 DEF CommitSent
  <2>2. \A d \in Calls \ {c} : phase'[d] = phase[d]
    BY <1>1, <2>1 DEF Merges, Finish
  <2> QED  BY <2>1, <2>2 DEF Commits
<1> QED  BY <1>2, <1>3, <1>4, <1>5, DataShapes DEF EffectsInv

\* A transaction that has been committed stays so, and a new one merges its writes.
LEMMA CommittedStays ==
    ASSUME EffectsInv, [Next]_vars
    PROVE  /\ \A c \in Calls : phase[c] = "committed" => phase'[c] = "committed"
           /\ \/ db' = db /\ \A c \in Calls : phase'[c] = "committed" => phase[c] = "committed"
              \/ \E c \in Calls :
                    /\ Merges(c) /\ CommitSent(c) /\ phase[c] # "committed"
                    /\ \A d \in Calls : phase'[d] = "committed" <=> phase[d] = "committed" \/ d = c
<1>1. phase \in [Calls -> {"none", "open", "committed", "aborted"}]
  BY DEF EffectsInv, SessionInv, TypeInv, TypeOK, ServerTypeOK
<1>2. CASE UNCHANGED <<db, txnVars>>
  BY <1>2 DEF txnVars
<1>3. ASSUME NEW c \in Calls, Opens(c) \/ Aborts(c)
      PROVE  db' = db /\ \A d \in Calls : phase'[d] = "committed" <=> phase[d] = "committed"
  <2>1. db' = db /\ Active(c) /\ \E s \in {"open", "aborted"} : phase' = [phase EXCEPT ![c] = s]
    BY <1>3 DEF Opens, Aborts, Finish
  <2> QED  BY <1>1, <2>1 DEF Active
<1>4. ASSUME NEW m \in reqs \cup late, NEW w \in Images(m, Base(m.call)), WritesOne(m, w)
      PROVE  db' = db /\ \A d \in Calls : phase'[d] = "committed" <=> phase[d] = "committed"
  <2> DEFINE c == m.call
  <2>1. c \in Calls /\ Active(c) /\ db' = db /\ phase'[c] = "open"
        /\ \A d \in Calls \ {c} : phase'[d] = phase[d]
    BY <1>4, WriteFacts DEF EffectsInv
  <2> HIDE DEF c
  <2> QED  BY <2>1 DEF Active
<1>5. ASSUME NEW c \in Calls, Merges(c), CommitSent(c)
      PROVE  /\ phase[c] # "committed"
             /\ \A d \in Calls : phase'[d] = "committed" <=> phase[d] = "committed" \/ d = c
  <2>1. Active(c) /\ phase' = [phase EXCEPT ![c] = "committed"]
    BY <1>5 DEF Merges, Finish
  <2> QED  BY <1>1, <2>1 DEF Active
<1>6. \A c \in Calls, m \in reqs \cup late : m.call = c /\ m.verb = "commit" => CommitSent(c)
  BY DEF CommitSent
<1> QED  BY <1>2, <1>3, <1>4, <1>5, <1>6, DataShapes DEF EffectsInv

\* Only a commit changes the store, and each kind of commit leaves whole accounts.
LEMMA RefIntegrityStays == WholeInv /\ [Next]_vars => RefIntegrity'
<1> SUFFICES ASSUME WholeInv, [Next]_vars PROVE RefIntegrity'
  OBVIOUS
<1> USE DEF WholeInv
<1>1. CASE db' = db
  BY <1>1 DEF RefIntegrity, Accounts, Linked
<1>2. ASSUME NEW c \in Calls, Merges(c), CommitSent(c) PROVE RefIntegrity'
  BY <1>2, CreateWhole, UpdateWhole, DeleteWhole, RequestFacts DEF EffectsInv, SessionInv
<1> QED  BY <1>1, <1>2, StoreChanges

\* The documents of the store that the seeder leaves.
LEMMA SeededDocs ==
    \A kind \in Kinds, i \in Ids :
        SeededStore[<<kind, i>>] = IF i # 0 THEN NoDoc
                                   ELSE IF kind = "account" THEN [child \in ChildKinds |-> 0]
                                   ELSE SeedChild(kind)
<1> SUFFICES ASSUME NEW kind \in Kinds, NEW i \in Ids
             PROVE  SeededStore[<<kind, i>>] =
                       IF i # 0 THEN NoDoc
                       ELSE IF kind = "account" THEN [child \in ChildKinds |-> 0]
                       ELSE SeedChild(kind)
  OBVIOUS
<1>1. <<kind, i>> \in Keys /\ <<kind, i>> \in DocKeys
  BY DocumentKeys
<1>2. <<kind, i>> \notin LoginKeys
  BY <1>1, KeysApart
<1>3. <<kind, i>> # <<"login", Seed>>
  BY <1>2, StoreAssumption DEF LoginKeys
<1> QED  BY <1>1, <1>2, <1>3 DEF SeededStore

\* None of the four documents of the seeded account is missing.
LEMMA SeededThere == \A kind \in Kinds : SeededStore[<<kind, 0>>] # NoDoc
<1> SUFFICES ASSUME NEW kind \in Kinds PROVE SeededStore[<<kind, 0>>] # NoDoc
  OBVIOUS
<1>1. 0 \in Ids /\ Seed \in Values
  BY StoreAssumption DEF Ids
<1>2. CASE kind = "account"
  <2>1. [child \in ChildKinds |-> 0] \in AccountDocs
    BY <1>1 DEF AccountDocs
  <2> QED  BY <1>1, <1>2, <2>1, SeededDocs, StoreAssumption DEF Docs
<1>3. CASE kind # "account"
  <2>1. SeedPayload(kind) \in Patches /\ kind \in ChildKinds
    BY <1>1, <1>3 DEF SeedPayload, Patches, ChildKinds
  <2>2. NewChild(kind, SeedPayload(kind)) \in ChildDocs
    BY <2>1, NewChildType
  <2>3. SeedChild(kind) \in ChildDocs
    BY <2>2, <1>1 DEF SeedChild, ChildDocs
  <2> QED  BY <1>1, <1>3, <2>3, SeededDocs, StoreAssumption DEF Docs
<1> QED  BY <1>2, <1>3

-----------------------------------------------------------------------------
(* The theorems.                                                           *)

\* The empty store, and the one the seeder leaves, hold whole accounts.
LEMMA DeployedWhole ==
    ASSUME db \in {EmptyStore, SeededStore}
    PROVE  RefIntegrity
<1>1. CASE db = EmptyStore
  <2>1. \A kind \in Kinds, i \in Ids : db[<<kind, i>>] = NoDoc
    BY <1>1, DocumentKeys DEF EmptyStore
  <2> QED  BY <2>1 DEF RefIntegrity, Accounts, ChildKinds, Kinds
<1>2. CASE db = SeededStore
  <2>1. \A kind \in Kinds, i \in Ids :
           db[<<kind, i>>] = IF i # 0 THEN NoDoc
                             ELSE IF kind = "account" THEN [child \in ChildKinds |-> 0]
                             ELSE SeedChild(kind)
    BY <1>2, SeededDocs
  <2>2. "account" \in Kinds /\ ChildKinds \subseteq Kinds /\ "account" \notin ChildKinds /\ 0 \in Ids
    BY StoreAssumption DEF Kinds, ChildKinds, Ids
  <2>3. ASSUME NEW kind \in ChildKinds PROVE db[<<kind, 0>>].parent = 0
    <3>1. kind \in Kinds /\ kind # "account"
      BY <2>2
    <3>2. db[<<kind, 0>>] = SeedChild(kind)
      BY <2>1, <2>2, <3>1
    <3> QED  BY <3>2 DEF SeedChild
  <2>4. \A kind \in Kinds : db[<<kind, 0>>] # NoDoc
    BY <1>2, <2>2, SeededThere
  <2>5. Accounts(db) = {0}
    BY <2>1, <2>2, <2>4 DEF Accounts
  <2>6. \A kind \in ChildKinds : db[<<"account", 0>>][kind] = 0
    BY <2>1, <2>2
  <2> QED  BY <2>1, <2>2, <2>3, <2>4, <2>5, <2>6 DEF RefIntegrity, Linked
<1> QED  BY <1>1, <1>2

\* At the start nothing is done and nothing is owed.
LEMMA EffectInit == Init => EffectInv /\ RefIntegrity
<1> SUFFICES ASSUME Init PROVE EffectInv /\ RefIntegrity
  OBVIOUS
<1>1. /\ db \in {EmptyStore, SeededStore} /\ reqs = {} /\ late = {} /\ resps = {}
      /\ \A c \in Calls : /\ stage[c] = "new" /\ todo[c] = {} /\ wrote[c] = {}
                          /\ phase[c] = "none" /\ \A k \in Kinds : ids[c][k] = NoId
  BY ServerAssumption DEF Init, CallsInit, ServerInit
<1>2. RefIntegrity
  BY <1>1, DeployedWhole
<1>3. ASSUME NEW c \in Calls PROVE Effective(c) /\ ListFirst(c)
  <2>1. ~CommitSent(c) /\ Passed(c) = {}
    BY <1>1 DEF CommitSent, Passed
  <2>2. Acknowledged(c) = {}
    BY <1>1, <2>1 DEF Acknowledged
  <2>3. Written(c)
    BY <1>1 DEF Written
  <2>4. EffectsOK(c) /\ ReadsOK(c)
    BY <1>1, <2>1, <2>2 DEF EffectsOK, ReadsOK
  <2>5. ListFirst(c)
    BY <1>1 DEF ListFirst
  <2> QED  BY <2>3, <2>4, <2>5 DEF Effective
<1> QED  BY <1>2, <1>3 DEF EffectInv

\* Whatever the calls, the requests, the losses and the bounds: what a handler was
\* told is done is done in its transaction, and what it answers with is what it read.
THEOREM EffectsCorrect == Spec => [](SessionInv /\ IsolationInv /\ EffectInv /\ RefIntegrity)
<1>1. Init => WholeInv
  BY SessionInit, IsolationInit, EffectInit DEF WholeInv, EffectsInv
<1>2. WholeInv /\ [Next]_vars => WholeInv'
  <2> SUFFICES ASSUME WholeInv, [Next]_vars PROVE WholeInv'
    OBVIOUS
  <2>1. (SessionInv /\ IsolationInv)'
    BY SessionNext, IsolationNext DEF WholeInv, EffectsInv
  <2>2. EffectInv' /\ RefIntegrity'
    BY RefIntegrityStays, EffectiveStays, ListFirstStays DEF WholeInv, EffectInv
  <2> QED  BY <2>1, <2>2 DEF WholeInv, EffectsInv
<1> QED  BY <1>1, <1>2, PTL DEF Spec, WholeInv, EffectsInv

\* The same, by the names of this module.
LEMMA WholeCorrect == Spec => []WholeInv
<1>1. SessionInv /\ IsolationInv /\ EffectInv /\ RefIntegrity => WholeInv
  BY DEF WholeInv, EffectsInv
<1> QED  BY <1>1, EffectsCorrect, PTL

\* The committed store holds whole accounts only: every account has its three
\* children, each pointing back at it, and no child is without its account.
THEOREM RefIntegrityHolds == Spec => []RefIntegrity
  BY EffectsCorrect, PTL

-----------------------------------------------------------------------------
(* What a commit makes durable is what its call answers.                   *)

\* Two stores with the same account and the same children of it assemble alike.
LEMMA AssembleSame ==
    ASSUME NEW s, NEW t, NEW a,
           s[<<"account", a>>] = t[<<"account", a>>],
           \A k \in ChildKinds : s[<<k, s[<<"account", a>>][k]>>] = t[<<k, s[<<"account", a>>][k]>>]
    PROVE  Assemble(s, a) = Assemble(t, a)
<1>1. \A k \in Kinds : k = "account" \/ k \in ChildKinds
  BY DEF ChildKinds
<1> QED  BY <1>1 DEF Assemble

\* The call that commits is the one whose commit is served.
LEMMA CommitsMerge ==
    ASSUME EffectsInv, [Next]_vars, NEW c \in Calls, Commits(c)
    PROVE  Merges(c) /\ CommitSent(c)
  BY StoreChanges

\* What a committed Create or seed leaves at every key of a document.
LEMMA CreateLeaves ==
    ASSUME EffectsInv, NEW c \in Calls, Merges(c), CommitSent(c), req[c].op \in {"create", "seed"},
           NEW kind \in Kinds, NEW i \in Ids
    PROVE  IF i = ids[c][kind] THEN db[<<kind, i>>] = NoDoc /\ db'[<<kind, i>>] = Base(c)[<<kind, i>>]
           ELSE db'[<<kind, i>>] = db[<<kind, i>>]
<1>1. /\ Active(c)
      /\ db'[<<kind, i>>] = IF <<kind, i>> \in wrote[c] THEN Base(c)[<<kind, i>>] ELSE db[<<kind, i>>]
  BY MergeFacts, DocumentKeys
<1>2. /\ db[<<kind, ids[c][kind]>>] = NoDoc
      /\ <<kind, i>> \in wrote[c] <=> i = ids[c][kind]
  BY <1>1, CreateCommit
<1> QED  BY <1>1, <1>2

\* The children of a seed are made of the payload of the seeder.
LEMMA SeedPatch ==
    ASSUME NEW c \in Calls, req[c] = SeedRequest, NEW kind \in ChildKinds
    PROVE  NewPatch(c, kind) = SeedPayload(kind)
<1>1. SeedPayload(kind) \in Patches
  BY StoreAssumption DEF SeedPayload, Patches
<1>2. req[c].set[kind] = SeedPayload(kind)
  BY DEF SeedRequest
<1> QED  BY <1>1, <1>2, StoreAssumption DEF NewPatch

\* What a Create that commits has read back is the account it leaves.
LEMMA CreateAnswers ==
    ASSUME EffectsInv, NEW c \in Calls, Merges(c), CommitSent(c), req[c].op = "create"
    PROVE  body[c] = Public(Assemble(db', ids[c]["account"]))
<1> DEFINE a == ids[c]["account"]
<1>1. Active(c)
  BY MergeFacts
<1>2. body[c] = Public(Assemble(Base(c), a))
  BY <1>1, PlanDone
<1>3. /\ \A kind \in Kinds : ids[c][kind] \in Ids
      /\ Base(c)[<<"account", a>>] = [k \in ChildKinds |-> ids[c][k]]
  BY <1>1, CreateCommit
<1>4. \A kind \in Kinds : db'[<<kind, ids[c][kind]>>] = Base(c)[<<kind, ids[c][kind]>>]
  BY <1>1, <1>3, CreateLeaves
<1>5. "account" \in Kinds /\ ChildKinds \subseteq Kinds
  BY DEF Kinds, ChildKinds
<1>6. Base(c)[<<"account", a>>] = db'[<<"account", a>>]
  BY <1>4, <1>5
<1>7. \A k \in ChildKinds : Base(c)[<<"account", a>>][k] = ids[c][k]
  BY <1>3
<1>8. \A k \in ChildKinds : Base(c)[<<k, Base(c)[<<"account", a>>][k]>>]
                            = db'[<<k, Base(c)[<<"account", a>>][k]>>]
  BY <1>4, <1>5, <1>7
<1> HIDE DEF a
<1>9. Assemble(Base(c), a) = Assemble(db', a)
  BY <1>6, <1>8, AssembleSame
<1> QED  BY <1>2, <1>9 DEF a

\* The account that a Create answers with, children included, is the one its commit
\* adds to the store.
THEOREM CreatedAsAnsweredHolds == Spec => CreatedAsAnswered
<1>1. ASSUME EffectsInv, [Next]_vars, NEW c \in Calls, req[c].op = "create", Commits(c)
      PROVE  body[c] = Public(Assemble(db', ids[c]["account"]))
  BY <1>1, CommitsMerge, CreateAnswers
<1>2. EffectsInv /\ [Next]_vars =>
        [\A c \in Calls : req[c].op = "create" /\ Commits(c) =>
            body[c] = Public(Assemble(db', ids[c]["account"]))]_vars
  BY <1>1
<1> QED  BY <1>2, WholeCorrect, PTL DEF Spec, WholeInv, CreatedAsAnswered

\* What the commit of a seed leaves at every key of a document.
LEMMA SeedLeaves ==
    ASSUME EffectsInv, [Next]_vars, NEW c \in Calls, req[c].op = "seed", Commits(c),
           NEW kind \in Kinds, NEW i \in Ids
    PROVE  IF i = 0 THEN db[<<kind, i>>] = NoDoc /\ db'[<<kind, i>>] = SeededStore[<<kind, i>>]
           ELSE db'[<<kind, i>>] = db[<<kind, i>>]
<1>1. Merges(c) /\ CommitSent(c) /\ Active(c)
  BY CommitsMerge, MergeFacts
<1>2. /\ \A k \in Kinds : ids[c][k] \in Ids
      /\ Base(c)[<<"account", ids[c]["account"]>>] = [k \in ChildKinds |-> ids[c][k]]
      /\ \A k \in ChildKinds :
            Base(c)[<<k, ids[c][k]>>] =
               [parent |-> ids[c]["account"], fields |-> NewChild(k, NewPatch(c, k)).fields]
  BY <1>1, CreateCommit
<1>3. \A k \in Kinds : ids[c][k] = 0
  <2>1. \A k \in Kinds : ids[c][k] \in {NoId, 0}
    BY DEF EffectsInv, EffectInv, Effective, EffectsOK
  <2> QED  BY <1>2, <2>1, IdsFacts
<1>4. "account" \in Kinds /\ ChildKinds \subseteq Kinds
  BY DEF Kinds, ChildKinds
<1>5. i = 0 => Base(c)[<<kind, i>>] = SeededStore[<<kind, i>>]
  <2> SUFFICES ASSUME i = 0 PROVE Base(c)[<<kind, 0>>] = SeededStore[<<kind, 0>>]
    OBVIOUS
  <2>1. CASE kind = "account"
    <3>1. [k \in ChildKinds |-> ids[c][k]] = [k \in ChildKinds |-> 0]
      BY <1>3, <1>4
    <3> QED  BY <1>2, <1>3, <1>4, <2>1, <3>1, SeededDocs
  <2>2. CASE kind # "account"
    <3>1. kind \in ChildKinds
      BY <2>2 DEF ChildKinds
    <3>2. NewPatch(c, kind) = SeedPayload(kind)
      BY <3>1, RequestFacts, SeedPatch DEF EffectsInv, SessionInv
    <3>3. Base(c)[<<kind, 0>>] = SeedChild(kind)
      BY <1>2, <1>3, <1>4, <3>1, <3>2 DEF SeedChild
    <3> QED  BY <2>2, <3>3, SeededDocs
  <2> QED  BY <2>1, <2>2
<1> QED  BY <1>1, <1>3, <1>5, CreateLeaves

\* A seed adds its account, whole, to a store without it, and changes nothing else.
THEOREM SeededOnceHolds == Spec => SeededOnce
<1>1. EffectsInv /\ [Next]_vars =>
        [\A c \in Calls : req[c].op = "seed" /\ Commits(c) =>
          \A k \in DocKeys :
             IF k[2] = 0 THEN db[k] = NoDoc /\ db'[k] = SeededStore[k]
             ELSE db'[k] = db[k]]_vars
  <2> SUFFICES ASSUME EffectsInv, [Next]_vars, NEW c \in Calls, req[c].op = "seed", Commits(c),
                      NEW k \in DocKeys
               PROVE  IF k[2] = 0 THEN db[k] = NoDoc /\ db'[k] = SeededStore[k]
                      ELSE db'[k] = db[k]
    OBVIOUS
  <2>1. PICK kind \in Kinds, i \in Ids : k = <<kind, i>>
    BY DocumentKeys
  <2> QED  BY <2>1, SeedLeaves
<1> QED  BY <1>1, WholeCorrect, PTL DEF Spec, WholeInv, SeededOnce

\* What a DeleteOne that commits has listed is the account it removes.
LEMMA DeleteAnswers ==
    ASSUME WholeInv, NEW c \in Calls, Merges(c), CommitSent(c), req[c].op = "delete"
    PROVE  LET id == req[c].id
               gone == {k \in DocKeys : db[k] # NoDoc /\ db'[k] = NoDoc}
           IN  /\ db[<<"account", id>>] # NoDoc
               /\ body[c] = Public(Assemble(db, id))
               /\ gone = {<<"account", id>>} \cup
                         {<<k, db[<<"account", id>>][k]>> : k \in ChildKinds}
               /\ \A k \in DocKeys \ gone : db'[k] = db[k]
<1> USE DEF WholeInv
<1> DEFINE Gone == {k \in DocKeys : db[k] # NoDoc /\ db'[k] = NoDoc}
           Whole(i) == {<<"account", i>>} \cup {<<k, db[<<"account", i>>][k]>> : k \in ChildKinds}
<1> DEFINE a == req[c].id
<1>1. Active(c)
  BY MergeFacts
<1>2. /\ a \in Accounts(db)
      /\ \A k \in ChildKinds : db[<<"account", a>>][k] \in Ids
      /\ \A i \in Ids : <<"account", i>> \in wrote[c] <=> i = a
      /\ \A kind \in ChildKinds, i \in Ids :
            <<kind, i>> \in wrote[c] <=> i = db[<<"account", a>>][kind]
      /\ \A kind \in Kinds, i \in Ids : <<kind, i>> \in wrote[c] =>
            Base(c)[<<kind, i>>] = NoDoc /\ db[<<kind, i>>] # NoDoc
  BY <1>1, DeleteCommit
<1>3. "account" \in Kinds /\ ChildKinds \subseteq Kinds /\ a \in Ids /\ db[<<"account", a>>] # NoDoc
  BY <1>2 DEF Kinds, ChildKinds, Accounts
<1>4. \A k \in DocKeys : k \in wrote[c] <=> k \in Whole(a)
  <2> SUFFICES ASSUME NEW kind \in Kinds, NEW i \in Ids
               PROVE  <<kind, i>> \in wrote[c] <=> <<kind, i>> \in Whole(a)
    BY DocumentKeys
  <2>1. CASE kind = "account"
    <3>1. <<kind, i>> \in Whole(a) <=> i = a
      BY <2>1 DEF ChildKinds
    <3> QED  BY <1>2, <2>1, <3>1
  <2>2. CASE kind # "account"
    <3>1. kind \in ChildKinds
      BY <2>2 DEF ChildKinds
    <3>2. <<kind, i>> \in Whole(a) <=> i = db[<<"account", a>>][kind]
      BY <2>2, <3>1
    <3> QED  BY <1>2, <3>1, <3>2
  <2> QED  BY <2>1, <2>2
<1>5. \A k \in DocKeys :
         IF k \in wrote[c] THEN db[k] # NoDoc /\ db'[k] = NoDoc ELSE db'[k] = db[k]
  <2> SUFFICES ASSUME NEW kind \in Kinds, NEW i \in Ids
               PROVE  IF <<kind, i>> \in wrote[c]
                      THEN db[<<kind, i>>] # NoDoc /\ db'[<<kind, i>>] = NoDoc
                      ELSE db'[<<kind, i>>] = db[<<kind, i>>]
    BY DocumentKeys
  <2>1. db'[<<kind, i>>] = IF <<kind, i>> \in wrote[c] THEN Base(c)[<<kind, i>>]
                           ELSE db[<<kind, i>>]
    BY <1>1, MergeFacts, DocumentKeys
  <2> QED  BY <1>2, <2>1
<1>6. Whole(a) \subseteq DocKeys
  BY <1>2, <1>3, DocumentKeys
<1>7. Gone = Whole(a) /\ \A k \in DocKeys \ Gone : db'[k] = db[k]
  BY <1>4, <1>5, <1>6
<1>8. body[c] = Public(Assemble(db, a))
  <2>1. body[c] = Public(Assemble(Origin(c), a))
    BY <1>1, PlanDone
  <2>2. \A k \in DocKeys : k \in wrote[c] => Origin(c)[k] = db[k]
    BY DEF Origin, Keys
  <2>3. Origin(c)[<<"account", a>>] = db[<<"account", a>>]
    BY <1>2, <1>3, <2>2, DocumentKeys
  <2>4. \A k \in ChildKinds : Origin(c)[<<k, db[<<"account", a>>][k]>>]
                              = db[<<k, db[<<"account", a>>][k]>>]
    BY <1>2, <1>3, <2>2, DocumentKeys
  <2> HIDE DEF a
  <2>5. Assemble(Origin(c), a) = Assemble(db, a)
    BY <2>3, <2>4, AssembleSame
  <2> QED  BY <2>1, <2>5
<1> QED  BY <1>3, <1>7, <1>8

\* The account that DeleteOne answers with is the one its commit removes, as it stood
\* at that moment; the account and its children are gone, and nothing else is.
THEOREM DeletedAsAnsweredHolds == Spec => DeletedAsAnswered
<1>1. WholeInv /\ [Next]_vars =>
        [\A c \in Calls : req[c].op = "delete" /\ Commits(c) =>
          LET id == req[c].id
              gone == {k \in DocKeys : db[k] # NoDoc /\ db'[k] = NoDoc}
          IN  /\ db[<<"account", id>>] # NoDoc
              /\ body[c] = Public(Assemble(db, id))
              /\ gone = {<<"account", id>>} \cup
                        {<<k, db[<<"account", id>>][k]>> : k \in ChildKinds}
              /\ \A k \in DocKeys \ gone : db'[k] = db[k]]_vars
  BY CommitsMerge, DeleteAnswers DEF WholeInv
<1> QED  BY <1>1, WholeCorrect, PTL DEF Spec, DeletedAsAnswered
=============================================================================
