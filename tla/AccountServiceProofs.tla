------------------------ MODULE AccountServiceProofs ------------------------
(***************************************************************************)
(* Theorems about AccountService, for any number of calls, any requests,   *)
(* any bound on the clock and on the faults: every variable keeps its      *)
(* type, and the safety of one session, that what a call answers is what   *)
(* the server has made of its transaction.                                 *)
(***************************************************************************)
EXTENDS AccountInvariants, TLAPS

-----------------------------------------------------------------------------
(* What the operators of AccountStore return: stores, documents and keys.  *)

\* Document keys and index keys are different keys.
LEMMA KeysApart == DocKeys \cap LoginKeys = {}
  BY DEF DocKeys, LoginKeys, Kinds

\* The empty store and the empty answer are of their types.
LEMMA EmptyTypes == EmptyStore \in Stores /\ NoDocs \in Bodies
  BY DEF EmptyStore, NoDocs, Stores, Bodies, Keys, DocKeys, LoginKeys

\* A saved child is a document: strict mode and the password hook give every
\* field a value of a field.
LEMMA NewChildType ==
    ASSUME NEW kind \in ChildKinds, NEW patch \in Patches
    PROVE  NewChild(kind, patch) \in ChildDocs
<1>1. ASSUME NEW f \in FieldNames
      PROVE  (IF f \notin Accepted(kind, patch) THEN Unset
              ELSE IF f = "password" THEN Hash(patch[f]) ELSE patch[f]) \in FieldValues
  <2>1. CASE f \notin Accepted(kind, patch)
    BY <2>1 DEF FieldValues
  <2>2. CASE f \in Accepted(kind, patch)
    <3>1. patch[f] \in Values \cup {Unset} /\ patch[f] # Unset
      BY <2>2 DEF Patches, Accepted
    <3> QED  BY <2>2, <3>1 DEF FieldValues
  <2> QED  BY <2>1, <2>2
<1> QED  BY <1>1 DEF NewChild, ChildDocs

\* An update leaves a child document a child document.
LEMMA SetFieldsType ==
    ASSUME NEW kind \in ChildKinds, NEW patch \in Patches, NEW doc \in ChildDocs
    PROVE  SetFields(doc, kind, patch) \in ChildDocs
<1>1. ASSUME NEW f \in FieldNames
      PROVE  (IF f \in Accepted(kind, patch) THEN patch[f] ELSE doc.fields[f])
                \in FieldValues
  BY DEF ChildDocs, Patches, FieldValues
<1> QED  BY <1>1 DEF SetFields, ChildDocs

\* Put writes documents and index entries only.
LEMMA PutType ==
    ASSUME NEW s \in Stores, NEW kind \in Kinds, NEW id \in Ids,
           NEW doc \in DocsOf(kind) \cup {NoDoc}
    PROVE  Put(s, kind, id, doc) \in Stores
<1> DEFINE p == Put(s, kind, id, doc)
<1>1. LoginsOf(kind, doc) \subseteq LoginKeys
      /\ LoginsOf(kind, s[<<kind, id>>]) \subseteq LoginKeys
  BY DEF LoginsOf
<1>2. doc \in Docs \cup {NoDoc}
  BY DEF DocsOf, Docs
<1>3. [credential |-> id] \in LoginEntries /\ LoginEntries \subseteq Docs
  BY DEF LoginEntries, Docs
<1>4. s \in [Keys -> Docs \cup {NoDoc}]
  BY DEF Stores
<1>5. p \in [Keys -> Docs \cup {NoDoc}]
  BY <1>1, <1>2, <1>3, <1>4 DEF Put
<1>6. ASSUME NEW k \in Kinds, NEW i \in Ids
      PROVE  p[<<k, i>>] \in DocsOf(k) \cup {NoDoc}
  <2>1. <<k, i>> \in Keys /\ <<k, i>> \notin LoginKeys
    BY DEF Keys, DocKeys, LoginKeys, Kinds
  <2>2. p[<<k, i>>] = IF <<k, i>> = <<kind, id>> THEN doc ELSE s[<<k, i>>]
    BY <2>1, <1>1 DEF Put
  <2>3. s[<<k, i>>] \in DocsOf(k) \cup {NoDoc}
    BY DEF Stores
  <2> QED  BY <2>2, <2>3
<1>7. ASSUME NEW k \in LoginKeys
      PROVE  p[k] \in LoginEntries \cup {NoDoc}
  <2>1. k \in Keys /\ k # <<kind, id>>
    BY DEF Keys, LoginKeys, Kinds
  <2>2. s[k] \in LoginEntries \cup {NoDoc}
    BY DEF Stores
  <2> QED  BY <2>1, <2>2, <1>3 DEF Put
<1> QED  BY <1>5, <1>6, <1>7 DEF Stores

\* A write touches keys of the store.
LEMMA TouchedType ==
    ASSUME NEW s, NEW kind \in Kinds, NEW id \in Ids, NEW doc
    PROVE  Touched(s, kind, id, doc) \subseteq Keys
  BY DEF Touched, LoginsOf, Keys, DocKeys

\* What a read assembles is an answer, and so is its public part.
LEMMA AssembleType ==
    ASSUME NEW s \in Stores, NEW id \in Ids
    PROVE  Assemble(s, id) \in Bodies
<1> DEFINE account == s[<<"account", id>>]
<1>1. account \in AccountDocs \cup {NoDoc}
  BY DEF Stores, DocsOf, Kinds
<1>2. ASSUME NEW k \in Kinds
      PROVE  Assemble(s, id)[k] \in DocsOf(k) \cup {NoDoc}
  <2>1. CASE account = NoDoc
    BY <2>1 DEF Assemble
  <2>2. CASE account # NoDoc /\ k = "account"
    BY <2>2, <1>1 DEF Assemble, DocsOf
  <2>3. CASE account # NoDoc /\ k # "account"
    <3>1. k \in ChildKinds /\ account[k] \in Ids
      BY <2>3, <1>1 DEF ChildKinds, AccountDocs
    <3>2. s[<<k, account[k]>>] \in DocsOf(k) \cup {NoDoc}
      BY <3>1 DEF Stores
    <3> QED  BY <2>3, <3>2 DEF Assemble
  <2> QED  BY <2>1, <2>2, <2>3
<1>3. \A k \in Kinds : DocsOf(k) \subseteq Docs
  BY DEF DocsOf, Docs
<1>4. Assemble(s, id) = [k \in Kinds |-> Assemble(s, id)[k]]
  BY DEF Assemble
<1> QED  BY <1>2, <1>3, <1>4 DEF Bodies

LEMMA PublicType ==
    ASSUME NEW b \in Bodies
    PROVE  Public(b) \in Bodies
<1>1. ASSUME NEW k \in Kinds
      PROVE  Public(b)[k] \in DocsOf(k) \cup {NoDoc}
  <2>1. CASE k = "account" \/ b[k] = NoDoc
    BY <2>1 DEF Public, Bodies
  <2>2. CASE k # "account" /\ b[k] # NoDoc
    <3>1. b[k] \in ChildDocs
      BY <2>2 DEF Bodies, DocsOf
    <3>2. [parent |-> NoId, fields |-> [b[k].fields EXCEPT !["password"] = Unset]] \in ChildDocs
      BY <3>1 DEF ChildDocs, FieldValues
    <3> QED  BY <2>2, <3>2 DEF Public, DocsOf
  <2> QED  BY <2>1, <2>2
<1>2. \A k \in Kinds : DocsOf(k) \subseteq Docs
  BY DEF DocsOf, Docs
<1>3. Public(b) = [k \in Kinds |-> Public(b)[k]]
  BY DEF Public
<1> QED  BY <1>1, <1>2, <1>3 DEF Bodies

\* The seeder leaves a store.
LEMMA SeededType == SeededStore \in Stores
<1>1. \A kind \in ChildKinds : SeedPayload(kind) \in Patches
  BY StoreAssumption DEF SeedPayload, Patches
<1>2. ASSUME NEW kind \in ChildKinds
      PROVE  SeedChild(kind) \in ChildDocs
  <2>1. NewChild(kind, SeedPayload(kind)) \in ChildDocs
    BY <1>1, NewChildType
  <2>2. 0 \in Ids
    BY StoreAssumption DEF Ids
  <2> QED  BY <2>1, <2>2 DEF SeedChild, ChildDocs
<1>3. 0 \in Ids
  BY StoreAssumption DEF Ids
<1>4. [child \in ChildKinds |-> 0] \in AccountDocs
  BY <1>3 DEF AccountDocs
<1>5. [credential |-> 0] \in LoginEntries
  BY <1>3 DEF LoginEntries
<1>6. ASSUME NEW kind \in Kinds, NEW i \in Ids
      PROVE  SeededStore[<<kind, i>>] \in DocsOf(kind) \cup {NoDoc}
  <2>1. <<kind, i>> \in Keys /\ <<kind, i>> \notin LoginKeys /\ kind # "login"
    BY DEF Keys, DocKeys, LoginKeys, Kinds
  <2>2. SeededStore[<<kind, i>>] =
            IF i # 0 THEN NoDoc
            ELSE IF kind = "account" THEN [child \in ChildKinds |-> 0]
            ELSE SeedChild(kind)
    BY <2>1 DEF SeededStore
  <2> QED  BY <2>2, <1>2, <1>4 DEF DocsOf, ChildKinds
<1>7. ASSUME NEW k \in LoginKeys
      PROVE  SeededStore[k] \in LoginEntries \cup {NoDoc}
  <2>1. k \in Keys
    BY DEF Keys
  <2> QED  BY <2>1, <1>5 DEF SeededStore
<1>8. ASSUME NEW k \in Keys
      PROVE  SeededStore[k] \in Docs \cup {NoDoc}
  <2>1. CASE k \in LoginKeys
    BY <2>1, <1>7 DEF Docs
  <2>2. CASE k \in DocKeys
    <3>1. PICK kind \in Kinds, i \in Ids : k = <<kind, i>>
      BY <2>2 DEF DocKeys
    <3> QED  BY <3>1, <1>6 DEF DocsOf, Docs
  <2> QED  BY <2>1, <2>2 DEF Keys
<1>9. SeededStore = [k \in Keys |-> SeededStore[k]]
  BY DEF SeededStore
<1> QED  BY <1>6, <1>7, <1>8, <1>9 DEF Stores

-----------------------------------------------------------------------------
(* Constants, messages and operations.                                     *)

\* An id is not the absent id, and the clock is an id.
LEMMA IdsFacts == NoId \notin Ids /\ 1 .. MaxMs \subseteq Ids /\ MaxMs \in Ids
  BY StoreAssumption DEF NoId, Ids

\* A message of an operation is a message, and carries that operation.
LEMMA MessageFacts ==
    ASSUME NEW c \in Calls, NEW op \in Operations, NEW start \in BOOLEAN
    PROVE  /\ Message(c, op, start) \in Messages
           /\ Op(Message(c, op, start)) = op
           /\ Message(c, op, start).call = c
           /\ Message(c, op, start).verb = op[1]
           /\ Message(c, op, start).kind = op[2]
  BY DEF Message, Messages, Operations, Op

LEMMA SentFacts ==
    ASSUME NEW c \in Calls, NEW ops \in SUBSET Operations
    PROVE  /\ Sent(c, ops) \subseteq Messages
           /\ \A m \in Sent(c, ops) :
                m.call = c /\ Op(m) \in ops /\ m.verb = Op(m)[1] /\ m.kind = Op(m)[2]
<1>1. ASSUME NEW m \in Sent(c, ops)
      PROVE  /\ m \in Messages /\ m.call = c /\ Op(m) \in ops
             /\ m.verb = Op(m)[1] /\ m.kind = Op(m)[2]
  <2>1. PICK op \in ops : m = Message(c, op, FALSE)
    BY DEF Sent
  <2> QED  BY <2>1 DEF Message, Messages, Operations, Op
<1> QED  BY <1>1

LEMMA ReplyFacts ==
    ASSUME NEW m \in Messages, NEW result \in Fulfilled \cup Rejected, NEW docs \in Bodies
    PROVE  /\ Reply(m, result, docs) \in Replies
           /\ Op(Reply(m, result, docs)) = Op(m)
  BY DEF Reply, Messages, Replies, Op

LEMMA SettledFacts ==
    ASSUME NEW r
    PROVE  Settled(r) \subseteq {r}
  BY DEF Settled

\* A change that lacks a sub-message is over at once: it throws, or is answered.
LEMMA OmittedFacts ==
    ASSUME NEW c \in Calls, UpdateThrows(c) \/ UpdateUnasked(c) \/ DeleteThrows(c)
    PROVE  /\ stage[c] = "new" /\ req[c].op \in {"update", "delete"}
           /\ UNCHANGED <<clock, req, todo, pending, missed, body, ids, reqs, resps>>
           /\ \/ /\ stage' = [stage EXCEPT ![c] = "stuck"]
                 /\ tstate' \in {tstate, [tstate EXCEPT ![c] = "starting"]}
                 /\ UNCHANGED <<code, ended>>
                 /\ \/ "set" \in req[c].omits
                    \/ "query" \in req[c].omits /\ (req[c].op = "delete" \/ Parts(c) # {})
              \/ /\ stage' = [stage EXCEPT ![c] = "answered"]
                 /\ code' = [code EXCEPT ![c] = "INTERNAL"]
                 /\ tstate' = [tstate EXCEPT ![c] = "aborted"]
                 /\ ended' = [ended EXCEPT ![c] = TRUE]
<1>1. CASE UpdateThrows(c) \/ DeleteThrows(c)
  BY <1>1 DEF UpdateThrows, DeleteThrows, Throw
<1>2. CASE UpdateUnasked(c)
  BY <1>2 DEF UpdateUnasked
<1> QED  BY <1>1, <1>2

\* The sets of operations that handlers create are operations.
LEMMA OperationSets ==
    /\ ChildSaves \subseteq Operations /\ ParentLinks \subseteq Operations
    /\ AccountSave \subseteq Operations /\ AccountRead \subseteq Operations
    /\ AccountFind \subseteq Operations /\ Populates \subseteq Operations
    /\ AccountList \subseteq Operations /\ Deletes \subseteq Operations
    /\ {<<"abort", "outer">>} \subseteq Operations
    /\ {<<"commit", "outer">>} \subseteq Operations
    /\ \A k \in ChildKinds : {<<"abort", k>>} \subseteq Operations
    /\ \A c : PartUpdates(c) \subseteq {"update"} \X ChildKinds
    /\ {"update"} \X ChildKinds \subseteq Operations
  BY DEF ChildSaves, ParentLinks, AccountSave, AccountRead, AccountFind, Populates,
         AccountList, Deletes, PartUpdates, Parts, Operations, Verbs, Writes,
         SessionReads, PlainReads, Scopes, ChildKinds, Kinds

-----------------------------------------------------------------------------
(* The type invariant.                                                     *)

LEMMA TypeInit == Init => TypeInv
<1> SUFFICES ASSUME Init PROVE TypeInv
  OBVIOUS
<1> USE DEF Init, CallsInit, ServerInit
<1>1. CallsTypeOK
  <2>1. [c \in Calls |-> NoDocs] \in [Calls -> Bodies]
    BY EmptyTypes
  <2>2. clock \in Ids
    BY IdsFacts
  <2> QED  BY <2>1, <2>2 DEF CallsTypeOK, Stages, Codes, TStates
<1>2. ServerTypeOK
  <2>1. db \in Stores
    BY EmptyTypes, SeededType, ServerAssumption
  <2>2. [c \in Calls |-> EmptyStore] \in [Calls -> Stores]
    BY EmptyTypes
  <2>3. 0 \in 0 .. MaxFaults
    BY ONLY ServerAssumption
  <2>4. [c \in Calls |-> "none"] \in [Calls -> {"none", "open", "committed", "aborted"}]
        /\ [c \in Calls |-> {}] \in [Calls -> SUBSET Keys]
    OBVIOUS
  <2> QED  BY ONLY <2>1, <2>2, <2>3, <2>4, Init DEF Init, ServerInit, ServerTypeOK
<1>3. OperationsOK
  BY DEF OperationsOK, StageOps, Kinds
<1> QED  BY <1>1, <1>2, <1>3 DEF TypeInv, TypeOK

\* Leaving the store and the transactions alone keeps the server's part of the
\* invariant.
LEMMA ServerTypeStays ==
    ASSUME ServerTypeOK, UNCHANGED <<db, txnVars, faults>>, late' \subseteq Messages
    PROVE  ServerTypeOK'
  BY DEF ServerTypeOK, txnVars

\* What was justified stays so while ids and the account of an UpdateOne's answer
\* are only filled in.
LEMMA JustifiedStays ==
    ASSUME NEW d \in Calls, NEW op, Justified(d, op), req' = req,
           \A k \in Kinds : ids[d][k] \in Ids => ids'[d][k] \in Ids,
           req[d].op = "update" /\ body[d]["account"] # NoDoc
                => body'[d]["account"] # NoDoc
    PROVE  Justified(d, op)'
  BY DEF Justified, ChildKinds, Kinds

\* A step keeps OperationsOK if the operations it adds are justified.
LEMMA OperationsStay ==
    ASSUME TypeOK, OperationsOK, req' = req, late' \subseteq late \cup reqs,
           \A d \in Calls, k \in Kinds : ids[d][k] \in Ids => ids'[d][k] \in Ids,
           \A d \in Calls : req[d].op = "update" /\ body[d]["account"] # NoDoc
                                => body'[d]["account"] # NoDoc,
           \A d \in Calls : \A op \in todo'[d] \cup pending'[d] :
                op \in todo[d] \cup pending[d] \/ Justified(d, op)',
           \A m \in reqs' : \/ m \in reqs
                            \/ Justified(m.call, Op(m))' /\ m.verb # "update",
           \A d \in Calls : stage'[d] = "new" => ids'[d]["account"] = NoId,
           \A d \in Calls : StageOps(d)'
    PROVE  OperationsOK'
<1>1. \A d \in Calls : \A op : Justified(d, op) => Justified(d, op)'
  BY JustifiedStays
<1>2. \A d \in Calls : \A op \in todo'[d] \cup pending'[d] : Justified(d, op)'
  BY <1>1 DEF OperationsOK
<1>3. ASSUME NEW m \in reqs' \cup late'
      PROVE  /\ Justified(m.call, Op(m))'
             /\ m.verb = "update" => UpdatePatch(m.call, m.kind)' # NoPatch
  <2>1. CASE m \in reqs \cup late
    <3>1. m.call \in Calls
      BY <2>1 DEF TypeOK, CallsTypeOK, ServerTypeOK, Messages
    <3>2. UpdatePatch(m.call, m.kind)' = UpdatePatch(m.call, m.kind)
      BY DEF UpdatePatch
    <3> QED  BY <2>1, <3>1, <3>2, <1>1 DEF OperationsOK
  <2>2. CASE m \notin reqs \cup late
    BY <2>2
  <2> QED  BY <2>1, <2>2
<1> QED  BY <1>2, <1>3 DEF OperationsOK, Op

\* Abandoning a transaction: a local abort, or an abort message.
LEMMA AbandonTyped ==
    ASSUME TypeInv, NEW c \in Calls, NEW status \in Codes, UNCHANGED late, Abandon(c, status),
           UNCHANGED <<clock, req, todo, body, ids>>,
           missed' \in [Calls -> BOOLEAN], pending' \in [Calls -> SUBSET Operations],
           \A d \in Calls : pending'[d] \subseteq pending[d],
           stage[c] # "new", resps' \subseteq Replies
    PROVE  CallsTypeOK' /\ OperationsOK'
<1> USE DEF TypeInv, TypeOK, Abandon
<1> DEFINE sent == Sent(c, {<<"abort", "outer">>})
<1>1. /\ sent \subseteq Messages
      /\ \A m \in sent : m.call = c /\ Op(m) = <<"abort", "outer">> /\ m.verb = "abort"
  BY SentFacts, OperationSets
<1>2. reqs' \subseteq reqs \cup sent
  OBVIOUS
<1>3. CallsTypeOK'
  BY <1>1 DEF CallsTypeOK, Stages, TStates
<1>4. \A m \in reqs' : m \in reqs \/ (Justified(m.call, Op(m))' /\ m.verb # "update")
  BY <1>1, <1>2 DEF Justified
<1>5. \A d \in Calls : stage'[d] = "new" => ids'[d]["account"] = NoId
  BY DEF OperationsOK, CallsTypeOK
<1>6. \A d \in Calls : StageOps(d)'
  <2>1. \A d \in Calls : stage'[d] \in {stage[d], "answered", "aborting"}
    BY DEF CallsTypeOK
  <2> QED  BY <2>1 DEF OperationsOK, StageOps
<1>7. OperationsOK'
  BY <1>4, <1>5, <1>6, OperationsStay DEF CallsTypeOK
<1> QED  BY <1>3, <1>7

\* The continuation that follows, with the operations it sends.
LEMMA ProceedTyped ==
    ASSUME TypeInv, NEW c \in Calls, NEW next \in Stages \ {"new"}, UNCHANGED late,
           NEW ops \in SUBSET Operations, Proceed(c, next, ops),
           \A op \in ops : Justified(c, op)' /\ op[1] # "update", StageOps(c)',
           req' = req, clock' = clock, todo' \in [Calls -> SUBSET Operations],
           \A d \in Calls : todo'[d] \subseteq todo[d],
           missed' \in [Calls -> BOOLEAN], code' = code, body' \in [Calls -> Bodies],
           ids' \in [Calls -> [Kinds -> Ids \cup {NoId}]],
           tstate' \in [Calls -> TStates], ended' = ended, resps' \subseteq Replies,
           \A d \in Calls, k \in Kinds : ids[d][k] \in Ids => ids'[d][k] \in Ids,
           \A d \in Calls \ {c} : ids'[d] = ids[d],
           \A d \in Calls : req[d].op = "update" /\ body[d]["account"] # NoDoc
                                => body'[d]["account"] # NoDoc
    PROVE  CallsTypeOK' /\ OperationsOK'
<1> USE DEF TypeInv, TypeOK, Proceed
<1>1. /\ Sent(c, ops) \subseteq Messages
      /\ \A m \in Sent(c, ops) : m.call = c /\ Op(m) \in ops /\ m.verb = Op(m)[1]
  BY SentFacts
<1>2. CallsTypeOK'
  BY <1>1 DEF CallsTypeOK
<1>3. \A m \in reqs' : m \in reqs \/ (Justified(m.call, Op(m))' /\ m.verb # "update")
  BY <1>1
<1>4. \A d \in Calls : stage'[d] = "new" => ids'[d]["account"] = NoId
  BY DEF OperationsOK, CallsTypeOK
<1>5. \A d \in Calls : \A op \in todo'[d] \cup pending'[d] :
        op \in todo[d] \cup pending[d] \/ Justified(d, op)'
  BY DEF CallsTypeOK
<1>6. \A d \in Calls : StageOps(d)'
  BY DEF OperationsOK, CallsTypeOK, StageOps
<1>7. OperationsOK'
  BY <1>3, <1>4, <1>5, <1>6, OperationsStay DEF CallsTypeOK
<1> QED  BY <1>2, <1>7

\* The commit: local for a transaction without operations, a message otherwise.
LEMMA CommitTyped ==
    ASSUME TypeInv, NEW c \in Calls, UNCHANGED late, Commit(c),
           UNCHANGED <<clock, req, todo, ids>>, stage[c] # "new",
           missed' \in [Calls -> BOOLEAN], body' \in [Calls -> Bodies],
           pending' \in [Calls -> SUBSET Operations],
           \A d \in Calls : pending'[d] \subseteq pending[d],
           \A d \in Calls : req[d].op = "update" /\ body[d]["account"] # NoDoc
                                => body'[d]["account"] # NoDoc,
           resps' \subseteq Replies
    PROVE  CallsTypeOK' /\ OperationsOK'
<1> USE DEF TypeInv, TypeOK, Commit
<1> DEFINE sent == Sent(c, {<<"commit", "outer">>})
<1>1. /\ sent \subseteq Messages
      /\ \A m \in sent : m.call = c /\ Op(m) = <<"commit", "outer">> /\ m.verb = "commit"
  BY SentFacts, OperationSets
<1>2. reqs' \subseteq reqs \cup sent
  OBVIOUS
<1>3. CallsTypeOK'
  BY <1>1 DEF CallsTypeOK, Stages, TStates, Codes
<1>4. \A m \in reqs' : m \in reqs \/ (Justified(m.call, Op(m))' /\ m.verb # "update")
  BY <1>1, <1>2 DEF Justified
<1>5. \A d \in Calls : stage'[d] = "new" => ids'[d]["account"] = NoId
  BY DEF OperationsOK, CallsTypeOK
<1>6. \A d \in Calls : StageOps(d)'
  <2>1. \A d \in Calls : stage'[d] \in {stage[d], "answered", "committing"}
    BY DEF CallsTypeOK
  <2> QED  BY <2>1 DEF OperationsOK, StageOps
<1>7. OperationsOK'
  BY <1>4, <1>5, <1>6, OperationsStay DEF CallsTypeOK
<1> QED  BY <1>3, <1>7

\* A step that adds no operation and no id.
LEMMA QuietStepTyped ==
    ASSUME TypeInv, CallsTypeOK', req' = req, ids' = ids, body' = body,
           reqs' \subseteq reqs, late' \subseteq late \cup reqs,
           \A d \in Calls : todo'[d] \subseteq todo[d] /\ pending'[d] \subseteq pending[d],
           \A d \in Calls : stage'[d] \in {stage[d], "answered", "stuck", "aborting", "crashed"}
    PROVE  OperationsOK'
<1>1. \A d \in Calls : stage'[d] = "new" => ids'[d]["account"] = NoId
  BY DEF TypeInv, OperationsOK
<1>2. \A d \in Calls : \A op \in todo'[d] \cup pending'[d] :
        op \in todo[d] \cup pending[d] \/ Justified(d, op)'
  OBVIOUS
<1>3. \A d \in Calls : StageOps(d)'
  BY DEF TypeInv, OperationsOK, StageOps
<1> QED  BY <1>1, <1>2, <1>3, OperationsStay DEF TypeInv, TypeOK, CallsTypeOK, ServerTypeOK

-----------------------------------------------------------------------------
(* Create.                                                                 *)

LEMMA CreateBeginTyped ==
    ASSUME TypeInv, NEW c \in Calls, UNCHANGED late, req[c].op = "create", CreateBegin(c)
    PROVE  CallsTypeOK' /\ OperationsOK'
<1> USE DEF TypeInv, TypeOK
<1>9. PICK ms \in [ChildKinds -> Ids] :
        /\ ids' = [ids EXCEPT ![c] = [k \in Kinds |-> IF k \in ChildKinds THEN ms[k] ELSE NoId]]
        /\ clock' \in Ids
  <2>1. clock .. MaxMs \subseteq Ids
    BY StoreAssumption DEF CallsTypeOK, Ids
  <2>2. PICK ms \in [ChildKinds -> clock .. MaxMs] :
          /\ ids' = [ids EXCEPT ![c] = [k \in Kinds |->
                                           IF k \in ChildKinds THEN ms[k] ELSE NoId]]
          /\ clock' = ms["place"]
    BY DEF CreateBegin
  <2>3. ms \in [ChildKinds -> Ids] /\ ms["place"] \in Ids
    BY <2>1, <2>2 DEF ChildKinds, Kinds
  <2> QED  BY <2>2, <2>3
<1>10. /\ stage[c] = "new" /\ stage' = [stage EXCEPT ![c] = "saving"]
       /\ tstate' = [tstate EXCEPT ![c] = "starting"]
       /\ todo' = [todo EXCEPT ![c] = ChildSaves]
       /\ pending' = [pending EXCEPT ![c] = ChildSaves]
       /\ UNCHANGED <<req, missed, code, body, ended, reqs, resps>>
  BY DEF CreateBegin
<1>1. CallsTypeOK'
  <2>3. [k \in Kinds |-> IF k \in ChildKinds THEN ms[k] ELSE NoId] \in [Kinds -> Ids \cup {NoId}]
    BY <1>9
  <2>2. ids' \in [Calls -> [Kinds -> Ids \cup {NoId}]]
    BY <1>9, <2>3 DEF CallsTypeOK
  <2> QED  BY <1>9, <1>10, <2>2, OperationSets DEF CallsTypeOK, Stages, TStates
<1>2. ids[c]["account"] \notin Ids
  BY <1>10, IdsFacts DEF OperationsOK
<1>3. \A d \in Calls, k \in Kinds : ids[d][k] \in Ids => ids'[d][k] \in Ids
  <2>1. Kinds = ChildKinds \cup {"account"}
    BY DEF Kinds, ChildKinds
  <2> QED  BY <1>2, <1>9, <2>1 DEF CallsTypeOK
<1>4. \A op \in ChildSaves : Justified(c, op)'
  <2>1. \A k \in ChildKinds : ids'[c][k] \in Ids
    BY <1>9 DEF CallsTypeOK, ChildKinds, Kinds
  <2> QED  BY <1>10, <2>1 DEF Justified
<1>5. \A d \in Calls : \A op \in todo'[d] \cup pending'[d] :
        op \in todo[d] \cup pending[d] \/ Justified(d, op)'
  BY <1>4, <1>10 DEF CallsTypeOK
<1>6. \A d \in Calls : stage'[d] = "new" => ids'[d]["account"] = NoId
  BY <1>9, <1>10 DEF OperationsOK, CallsTypeOK
<1>7. \A d \in Calls : StageOps(d)'
  BY <1>10 DEF OperationsOK, CallsTypeOK, StageOps
<1>8. OperationsOK'
  BY <1>3, <1>5, <1>6, <1>7, <1>10, OperationsStay DEF CallsTypeOK
<1> QED  BY <1>1, <1>8

LEMMA ChildSavedTyped ==
    ASSUME TypeInv, NEW c \in Calls, UNCHANGED late, ChildSaved(c)
    PROVE  CallsTypeOK' /\ OperationsOK'
<1> USE DEF TypeInv, TypeOK
<1>1. PICK r \in resps :
        /\ Awaited(c, "saving", r) /\ r.result = "ok"
        /\ resps' = resps \ {r}
        /\ IF pending[c] = {Op(r)}
           THEN /\ ids' = [ids EXCEPT ![c]["account"] = clock]
                /\ Proceed(c, "account", AccountSave)
           ELSE /\ pending' = [pending EXCEPT ![c] = @ \ {Op(r)}]
                /\ UNCHANGED <<stage, ids, reqs>>
  BY DEF ChildSaved
<1>2. UNCHANGED <<clock, req, todo, missed, code, body, tstate, ended>>
  BY DEF ChildSaved
<1>3. CASE pending[c] = {Op(r)}
  <2>1. /\ ids' = [ids EXCEPT ![c]["account"] = clock]
        /\ Proceed(c, "account", AccountSave)
    BY <1>1, <1>3
  <2>2. ids' \in [Calls -> [Kinds -> Ids \cup {NoId}]]
    BY <2>1 DEF CallsTypeOK
  <2>3. \A d \in Calls, k \in Kinds : ids[d][k] \in Ids => ids'[d][k] \in Ids
    BY <2>1 DEF CallsTypeOK
  <2>4. \A op \in AccountSave : Justified(c, op)' /\ op[1] # "update"
    <3>1. req[c].op \in {"create", "seed"} /\ \A k \in ChildKinds : ids[c][k] \in Ids
      <4>1. Justified(c, Op(r)) /\ Op(r) \in ChildSaves
        BY <1>1 DEF OperationsOK, Awaited, StageOps
      <4> QED  BY <4>1 DEF Justified, ChildSaves, AccountSave, ParentLinks,
                  AccountRead, AccountFind, Populates, AccountList, Deletes, ChildKinds
    <3>2. \A k \in Kinds : ids'[c][k] \in Ids
      BY <3>1, <2>1 DEF CallsTypeOK, Kinds, ChildKinds
    <3> QED  BY <3>1, <3>2, <1>2 DEF Justified, AccountSave
  <2>5. \A d \in Calls \ {c} : ids'[d] = ids[d]
    BY <2>1 DEF CallsTypeOK
  <2>6. resps' \subseteq Replies
    BY <1>1 DEF CallsTypeOK
  <2>7. StageOps(c)'
    BY <2>1 DEF StageOps, Proceed, CallsTypeOK
  <2>8. todo' \in [Calls -> SUBSET Operations] /\ missed' \in [Calls -> BOOLEAN]
        /\ body' \in [Calls -> Bodies] /\ tstate' \in [Calls -> TStates]
    BY <1>2 DEF CallsTypeOK
  <2>9. AccountSave \in SUBSET Operations /\ "account" \in Stages \ {"new"}
    BY OperationSets DEF Stages
  <2> QED  BY <1>2, <2>1, <2>2, <2>3, <2>4, <2>5, <2>6, <2>7, <2>8, <2>9, ProceedTyped
<1>4. CASE pending[c] # {Op(r)}
  <2>1. CallsTypeOK'
    BY <1>1, <1>2, <1>4 DEF CallsTypeOK
  <2>2. /\ \A d \in Calls : pending'[d] \subseteq pending[d]
        /\ UNCHANGED <<stage, ids, reqs>>
    BY <1>1, <1>4 DEF CallsTypeOK
  <2>3. OperationsOK'
    BY <2>1, <2>2, <1>2, QuietStepTyped
  <2> QED  BY <2>1, <2>3
<1> QED  BY <1>3, <1>4

LEMMA ChildDuplicateTyped ==
    ASSUME TypeInv, NEW c \in Calls, UNCHANGED late, ChildDuplicate(c)
    PROVE  CallsTypeOK' /\ OperationsOK'
<1> USE DEF TypeInv, TypeOK
<1>1. PICK r \in resps :
        /\ r.call = c /\ Op(r) \in ChildSaves /\ r.result = "duplicate"
        /\ resps' = resps \ {r}
        /\ reqs' = reqs \cup IF tstate[c] = "inProgress"
                            THEN Sent(c, {<<"abort", r.kind>>}) ELSE {}
  BY DEF ChildDuplicate
<1>2. UNCHANGED <<clock, req, stage, todo, pending, missed, code, body, ids,
                  tstate, ended>>
  BY DEF ChildDuplicate
<1> DEFINE sent == Sent(c, {<<"abort", r.kind>>})
<1>3. r.kind \in ChildKinds
  BY <1>1 DEF ChildSaves, Op
<1>4. /\ sent \subseteq Messages
      /\ \A m \in sent : m.call = c /\ Op(m) = <<"abort", r.kind>> /\ m.verb = "abort"
  BY <1>3, SentFacts, OperationSets
<1>5. CallsTypeOK'
  BY <1>1, <1>2, <1>4 DEF CallsTypeOK
<1>6. \A m \in reqs' : m \in reqs \/ (Justified(m.call, Op(m))' /\ m.verb # "update")
  <2>1. <<"abort", r.kind>> \in {"abort"} \X ChildKinds
    BY <1>3
  <2>2. Justified(c, <<"abort", r.kind>>)'
    BY <2>1 DEF Justified
  <2> QED  BY <1>1, <1>4, <2>2
<1>7. \A d \in Calls : StageOps(d)'
  BY <1>2 DEF OperationsOK, StageOps
<1>8. \A d \in Calls : stage'[d] = "new" => ids'[d]["account"] = NoId
  BY <1>2 DEF OperationsOK
<1>9. OperationsOK'
  BY <1>2, <1>6, <1>7, <1>8, OperationsStay DEF CallsTypeOK
<1> QED  BY <1>5, <1>9

LEMMA ChildAbortDoneTyped ==
    ASSUME TypeInv, NEW c \in Calls, UNCHANGED late, ChildAbortDone(c)
    PROVE  CallsTypeOK' /\ OperationsOK'
<1> USE DEF TypeInv, TypeOK, ChildAbortDone
<1>1. CallsTypeOK'
  BY DEF CallsTypeOK, Stages, TStates, Codes
<1>2. \A d \in Calls : stage'[d] \in {stage[d], "answered"}
  BY DEF CallsTypeOK
<1>3. OperationsOK'
  BY <1>1, <1>2, QuietStepTyped
<1> QED  BY <1>1, <1>3

LEMMA ChildRejectedTyped ==
    ASSUME TypeInv, NEW c \in Calls, UNCHANGED late, ChildRejected(c)
    PROVE  CallsTypeOK' /\ OperationsOK'
<1>1. stage[c] # "new" /\ resps' \subseteq Replies /\ "FAILED_PRECONDITION" \in Codes
  BY DEF ChildRejected, Awaited, TypeInv, TypeOK, CallsTypeOK, Codes
<1> QED  BY <1>1, AbandonTyped DEF ChildRejected, TypeInv, TypeOK, CallsTypeOK

LEMMA StepRejectedTyped ==
    ASSUME TypeInv, NEW c \in Calls, UNCHANGED late, StepRejected(c)
    PROVE  CallsTypeOK' /\ OperationsOK'
<1>1. stage[c] # "new" /\ resps' \subseteq Replies /\ "ABORTED" \in Codes
  BY DEF StepRejected, Awaited, TypeInv, TypeOK, CallsTypeOK, Codes
<1> QED  BY <1>1, AbandonTyped DEF StepRejected, TypeInv, TypeOK, CallsTypeOK

\* Once the account is being saved, a Create has all its ids.
LEMMA CreateIds ==
    ASSUME TypeInv, NEW c \in Calls, NEW op \in pending[c],
           stage[c] \in {"account", "linking", "aggregating"}
    PROVE  req[c].op \in {"create", "seed"} /\ \A k \in Kinds : ids[c][k] \in Ids
<1>1. Justified(c, op) /\ op \in AccountSave \cup ParentLinks \cup AccountRead
  BY DEF TypeInv, OperationsOK, StageOps
<1> QED  BY <1>1 DEF Justified, ChildSaves, AccountSave, ParentLinks, AccountRead,
            AccountFind, Populates, AccountList, Deletes, ChildKinds, Kinds

LEMMA SeedIds ==
    ASSUME TypeInv, NEW c \in Calls, req[c].op = "seed",
           NEW op \in pending[c], stage[c] = "saving"
    PROVE  \A k \in Kinds : ids[c][k] \in Ids
<1>1. Justified(c, op) /\ op \in ChildSaves
  BY DEF TypeInv, OperationsOK, StageOps
<1> QED  BY <1>1 DEF Justified, ChildSaves, AccountSave, ParentLinks, AccountRead,
            AccountFind, Populates, AccountList, Deletes, ChildKinds, Kinds

LEMMA AccountSavedTyped ==
    ASSUME TypeInv, NEW c \in Calls, UNCHANGED late, AccountSaved(c)
    PROVE  CallsTypeOK' /\ OperationsOK'
<1> USE DEF TypeInv, TypeOK, AccountSaved
<1>1. /\ req[c].op \in {"create", "seed"} /\ \A k \in Kinds : ids[c][k] \in Ids
      /\ stage[c] # "new" /\ resps' \subseteq Replies
  BY CreateIds DEF Awaited, CallsTypeOK
<1>2. \A op \in ParentLinks : Justified(c, op)' /\ op[1] # "update"
  BY <1>1 DEF Justified, ParentLinks
<1>3. StageOps(c)'
  BY DEF StageOps, Proceed, CallsTypeOK
<1>4. ParentLinks \in SUBSET Operations /\ "linking" \in Stages \ {"new"}
  BY OperationSets DEF Stages
<1> QED  BY <1>1, <1>2, <1>3, <1>4, ProceedTyped DEF CallsTypeOK

LEMMA ParentLinkedTyped ==
    ASSUME TypeInv, NEW c \in Calls, UNCHANGED late, ParentLinked(c)
    PROVE  CallsTypeOK' /\ OperationsOK'
<1> USE DEF TypeInv, TypeOK
<1>1. PICK r \in resps :
        /\ Awaited(c, "linking", r) /\ r.result \in Fulfilled
        /\ resps' = resps \ {r}
        /\ IF pending[c] = {Op(r)}
           THEN Proceed(c, "aggregating", AccountRead)
           ELSE /\ pending' = [pending EXCEPT ![c] = @ \ {Op(r)}]
                /\ UNCHANGED <<stage, reqs>>
  BY DEF ParentLinked
<1>2. UNCHANGED <<clock, req, todo, missed, code, body, ids, tstate, ended>>
  BY DEF ParentLinked
<1>3. CASE pending[c] = {Op(r)}
  <2>1. /\ req[c].op \in {"create", "seed"} /\ \A k \in Kinds : ids[c][k] \in Ids
        /\ resps' \subseteq Replies
    BY <1>1, CreateIds DEF Awaited, CallsTypeOK
  <2>2. \A op \in AccountRead : Justified(c, op)' /\ op[1] # "update"
    BY <2>1, <1>2 DEF Justified, AccountRead
  <2>3. StageOps(c)'
    BY <1>1, <1>3 DEF StageOps, Proceed, CallsTypeOK
  <2>4. AccountRead \in SUBSET Operations /\ "aggregating" \in Stages \ {"new"}
    BY OperationSets DEF Stages
  <2> QED  BY <1>1, <1>2, <1>3, <2>1, <2>2, <2>3, <2>4, ProceedTyped DEF CallsTypeOK
<1>4. CASE pending[c] # {Op(r)}
  <2>1. CallsTypeOK'
    BY <1>1, <1>2, <1>4 DEF CallsTypeOK
  <2>2. /\ \A d \in Calls : pending'[d] \subseteq pending[d]
        /\ UNCHANGED <<stage, reqs>>
    BY <1>1, <1>4 DEF CallsTypeOK
  <2>3. OperationsOK'
    BY <2>1, <2>2, <1>2, QuietStepTyped
  <2> QED  BY <2>1, <2>3
<1> QED  BY <1>3, <1>4

LEMMA AggregatedTyped ==
    ASSUME TypeInv, NEW c \in Calls, UNCHANGED late, Aggregated(c)
    PROVE  CallsTypeOK' /\ OperationsOK'
<1> USE DEF TypeInv, TypeOK
<1>1. PICK r \in resps :
        /\ Awaited(c, "aggregating", r) /\ r.result = "ok"
        /\ resps' = resps \ {r}
        /\ IF r.docs["account"] = NoDoc
           THEN Abandon(c, "NOT_FOUND") /\ UNCHANGED body
           ELSE /\ body' = [body EXCEPT ![c] = r.docs]
                /\ Commit(c)
  BY DEF Aggregated
<1>2. UNCHANGED <<clock, req, todo, pending, missed, ids>>
  BY DEF Aggregated
<1>3. stage[c] # "new" /\ resps' \subseteq Replies /\ r.docs \in Bodies
  BY <1>1 DEF Awaited, CallsTypeOK, Replies
<1>4. CASE r.docs["account"] = NoDoc
  BY <1>1, <1>2, <1>3, <1>4, AbandonTyped DEF Codes, CallsTypeOK
<1>5. CASE r.docs["account"] # NoDoc
  <2>1. body' \in [Calls -> Bodies] /\ body'[c]["account"] # NoDoc
        /\ \A d \in Calls \ {c} : body'[d] = body[d]
    BY <1>1, <1>3, <1>5 DEF CallsTypeOK
  <2> QED  BY <1>1, <1>2, <1>3, <1>5, <2>1, CommitTyped DEF CallsTypeOK
<1> QED  BY <1>4, <1>5

LEMMA CreateTyped ==
    ASSUME TypeInv, NEW c \in Calls, UNCHANGED late, Create(c)
    PROVE  CallsTypeOK' /\ OperationsOK'
  BY CreateBeginTyped, ChildSavedTyped, ChildDuplicateTyped, ChildAbortDoneTyped,
     ChildRejectedTyped, AccountSavedTyped, ParentLinkedTyped, AggregatedTyped,
     StepRejectedTyped DEF Create

-----------------------------------------------------------------------------
(* The seeder.                                                             *)

LEMMA SeedBeginTyped ==
    ASSUME TypeInv, NEW c \in Calls, UNCHANGED late, req[c].op = "seed", SeedBegin(c)
    PROVE  CallsTypeOK' /\ OperationsOK'
<1> USE DEF TypeInv, TypeOK, SeedBegin
<1>1. req[c].id \in Ids
  <2>1. req[c] \in RequestType
    BY CallAssumption DEF CallsTypeOK
  <2>2. req[c].id = 0
    BY <2>1 DEF RequestType, SeedRequest
  <2> QED  BY <2>2, StoreAssumption DEF Ids
<1>2. CallsTypeOK'
  BY <1>1, OperationSets DEF CallsTypeOK, Stages, TStates
<1>3. \A d \in Calls, k \in Kinds : ids[d][k] \in Ids => ids'[d][k] \in Ids
  BY <1>1 DEF CallsTypeOK
<1>4. \A op \in ChildSaves : Justified(c, op)'
  <2>1. \A k \in Kinds : ids'[c][k] \in Ids
    BY <1>1 DEF CallsTypeOK
  <2> QED  BY <2>1 DEF Justified, ChildKinds, Kinds
<1>5. \A d \in Calls : \A op \in todo'[d] \cup pending'[d] :
        op \in todo[d] \cup pending[d] \/ Justified(d, op)'
  BY <1>4 DEF CallsTypeOK
<1>6. \A d \in Calls : stage'[d] = "new" => ids'[d]["account"] = NoId
  BY DEF OperationsOK, CallsTypeOK
<1>7. \A d \in Calls : StageOps(d)'
  BY DEF OperationsOK, CallsTypeOK, StageOps
<1>8. OperationsOK'
  BY <1>3, <1>5, <1>6, <1>7, OperationsStay DEF CallsTypeOK
<1> QED  BY <1>2, <1>8

LEMMA SeedSavedTyped ==
    ASSUME TypeInv, NEW c \in Calls, UNCHANGED late, req[c].op = "seed", SeedSaved(c)
    PROVE  CallsTypeOK' /\ OperationsOK'
<1> USE DEF TypeInv, TypeOK
<1>1. PICK r \in resps :
        /\ Awaited(c, "saving", r) /\ r.result = "ok"
        /\ resps' = resps \ {r}
        /\ IF pending[c] = {Op(r)}
           THEN Proceed(c, "account", AccountSave)
           ELSE /\ pending' = [pending EXCEPT ![c] = @ \ {Op(r)}]
                /\ UNCHANGED <<stage, reqs>>
  BY DEF SeedSaved
<1>2. UNCHANGED <<clock, req, todo, missed, code, body, ids, tstate, ended>>
  BY DEF SeedSaved
<1>3. CASE pending[c] = {Op(r)}
  <2>1. \A k \in Kinds : ids[c][k] \in Ids
    BY <1>1, SeedIds DEF Awaited
  <2>2. \A op \in AccountSave : Justified(c, op)' /\ op[1] # "update"
    BY <2>1, <1>2 DEF Justified, AccountSave
  <2>3. StageOps(c)'
    BY <1>1, <1>3 DEF StageOps, Proceed, CallsTypeOK
  <2>4. AccountSave \in SUBSET Operations /\ "account" \in Stages \ {"new"}
    BY OperationSets DEF Stages
  <2>5. resps' \subseteq Replies
    BY <1>1 DEF CallsTypeOK
  <2> QED  BY <1>1, <1>2, <1>3, <2>2, <2>3, <2>4, <2>5, ProceedTyped DEF CallsTypeOK
<1>4. CASE pending[c] # {Op(r)}
  <2>1. CallsTypeOK'
    BY <1>1, <1>2, <1>4 DEF CallsTypeOK
  <2>2. /\ \A d \in Calls : pending'[d] \subseteq pending[d]
        /\ UNCHANGED <<stage, reqs>>
    BY <1>1, <1>4 DEF CallsTypeOK
  <2>3. OperationsOK'
    BY <2>1, <2>2, <1>2, QuietStepTyped
  <2> QED  BY <2>1, <2>3
<1> QED  BY <1>3, <1>4

LEMMA SeedLinkedTyped ==
    ASSUME TypeInv, NEW c \in Calls, UNCHANGED late, SeedLinked(c)
    PROVE  CallsTypeOK' /\ OperationsOK'
<1> USE DEF TypeInv, TypeOK
<1>1. PICK r \in resps :
        /\ Awaited(c, "linking", r)
        /\ resps' = resps \ {r}
        /\ pending' = [pending EXCEPT ![c] = @ \ {Op(r)}]
        /\ IF pending[c] = {Op(r)} THEN Commit(c)
           ELSE UNCHANGED <<stage, code, tstate, ended, reqs>>
  BY DEF SeedLinked
<1>2. UNCHANGED <<clock, req, todo, missed, body, ids>>
  BY DEF SeedLinked
<1>3. /\ stage[c] # "new" /\ resps' \subseteq Replies
      /\ pending' \in [Calls -> SUBSET Operations]
      /\ \A d \in Calls : pending'[d] \subseteq pending[d]
  BY <1>1 DEF Awaited, CallsTypeOK
<1>4. CASE pending[c] = {Op(r)}
  BY <1>1, <1>2, <1>3, <1>4, CommitTyped DEF CallsTypeOK
<1>5. CASE pending[c] # {Op(r)}
  <2>1. CallsTypeOK'
    BY <1>1, <1>2, <1>3, <1>5 DEF CallsTypeOK
  <2>2. OperationsOK'
    BY <2>1, <1>1, <1>2, <1>3, <1>5, QuietStepTyped
  <2> QED  BY <2>1, <2>2
<1> QED  BY <1>4, <1>5

LEMMA SeedRejectedTyped ==
    ASSUME TypeInv, NEW c \in Calls, UNCHANGED late, SeedRejected(c)
    PROVE  CallsTypeOK' /\ OperationsOK'
<1>1. stage[c] # "new" /\ resps' \subseteq Replies /\ "LOGGED" \in Codes
  BY DEF SeedRejected, Awaited, TypeInv, TypeOK, CallsTypeOK, Codes
<1> QED  BY <1>1, AbandonTyped DEF SeedRejected, TypeInv, TypeOK, CallsTypeOK

LEMMA SeedTyped ==
    ASSUME TypeInv, NEW c \in Calls, UNCHANGED late, SeedAccount(c)
    PROVE  CallsTypeOK' /\ OperationsOK'
  BY SeedBeginTyped, SeedSavedTyped, AccountSavedTyped, SeedLinkedTyped,
     SeedRejectedTyped DEF SeedAccount

-----------------------------------------------------------------------------
(* UpdateOne.                                                              *)

LEMMA UpdateBeginTyped ==
    ASSUME TypeInv, NEW c \in Calls, UNCHANGED late, UpdateBegin(c)
    PROVE  CallsTypeOK' /\ OperationsOK'
<1> USE DEF TypeInv, TypeOK
<1>1. /\ stage[c] = "new" /\ req[c].op = "update"
      /\ tstate' = [tstate EXCEPT ![c] = "starting"]
      /\ UNCHANGED <<clock, req, missed, body, ids, ended, resps>>
  BY DEF UpdateBegin
<1>2. tstate' \in [Calls -> TStates] /\ resps' \subseteq Replies
  BY <1>1 DEF CallsTypeOK, TStates
<1>3. CASE /\ stage' = [stage EXCEPT ![c] = "answered"]
           /\ code' = [code EXCEPT ![c] = "INVALID_ARGUMENT"]
           /\ UNCHANGED <<todo, pending, reqs>>
  <2>1. CallsTypeOK'
    BY <1>1, <1>2, <1>3 DEF CallsTypeOK, Stages, Codes
  <2>2. \A d \in Calls : stage'[d] \in {stage[d], "answered"}
    BY <1>3 DEF CallsTypeOK
  <2>3. OperationsOK'
    BY <1>1, <1>3, <2>1, <2>2, QuietStepTyped
  <2> QED  BY <2>1, <2>3
<1>4. CASE /\ stage' = [stage EXCEPT ![c] = "setting"]
           /\ todo' = [todo EXCEPT ![c] = PartUpdates(c)]
           /\ pending' = [pending EXCEPT ![c] = PartUpdates(c)]
           /\ UNCHANGED <<code, reqs>>
  <2>1. PartUpdates(c) \subseteq {"update"} \X ChildKinds /\ PartUpdates(c) \subseteq Operations
    BY OperationSets
  <2>2. CallsTypeOK'
    BY <1>1, <1>2, <1>4, <2>1 DEF CallsTypeOK, Stages
  <2>3. \A op \in {"update"} \X ChildKinds : Justified(c, op)'
    BY <1>1 DEF Justified
  <2>4. \A d \in Calls : \A op \in todo'[d] \cup pending'[d] :
          op \in todo[d] \cup pending[d] \/ Justified(d, op)'
    BY <1>4, <2>1, <2>3 DEF CallsTypeOK
  <2>5. \A d \in Calls : StageOps(d)'
    BY <1>4, <2>1 DEF OperationsOK, StageOps, CallsTypeOK
  <2>6. \A d \in Calls : stage'[d] = "new" => ids'[d]["account"] = NoId
    BY <1>1, <1>4 DEF OperationsOK, CallsTypeOK
  <2>7. OperationsOK'
    BY <1>1, <1>4, <2>4, <2>5, <2>6, OperationsStay DEF CallsTypeOK
  <2> QED  BY <2>2, <2>7
<1>5. CASE Proceed(c, "finding", AccountFind) /\ UNCHANGED <<todo, code>>
  <2>1. \A op \in AccountFind : Justified(c, op)' /\ op[1] # "update"
    BY <1>1 DEF Justified, AccountFind
  <2>2. StageOps(c)'
    BY <1>5 DEF StageOps, Proceed, CallsTypeOK
  <2>3. AccountFind \in SUBSET Operations /\ "finding" \in Stages \ {"new"}
    BY OperationSets DEF Stages
  <2> QED  BY <1>1, <1>2, <1>5, <2>1, <2>2, <2>3, ProceedTyped DEF CallsTypeOK
<1> QED  BY <1>3, <1>4, <1>5 DEF UpdateBegin

LEMMA PartSetTyped ==
    ASSUME TypeInv, NEW c \in Calls, UNCHANGED late, PartSet(c)
    PROVE  CallsTypeOK' /\ OperationsOK'
<1> USE DEF TypeInv, TypeOK
<1>1. PICK r \in resps :
        /\ Awaited(c, "setting", r) /\ r.result \in Fulfilled
        /\ resps' = resps \ {r}
        /\ missed' = [missed EXCEPT ![c] = @ \/ r.result # "ok"]
        /\ IF pending[c] # {Op(r)}
           THEN /\ pending' = [pending EXCEPT ![c] = @ \ {Op(r)}]
                /\ UNCHANGED <<stage, code, tstate, ended, reqs>>
           ELSE IF missed'[c]
           THEN Abandon(c, "RESOURCE_EXHAUSTED") /\ UNCHANGED pending
           ELSE /\ Proceed(c, "finding", AccountFind)
                /\ UNCHANGED <<code, tstate, ended>>
  BY DEF PartSet
<1>2. UNCHANGED <<clock, req, todo, body, ids>>
  BY DEF PartSet
<1>3. /\ stage[c] # "new" /\ resps' \subseteq Replies
      /\ missed' \in [Calls -> BOOLEAN] /\ req[c].op = "update"
  <2>1. missed' \in [Calls -> BOOLEAN]
    BY <1>1 DEF CallsTypeOK
  <2>2. Op(r) \in {"update"} \X ChildKinds /\ Justified(c, Op(r))
    BY <1>1 DEF Awaited, OperationsOK, StageOps
  <2>3. req[c].op = "update"
    BY <2>2 DEF Justified, ChildSaves, AccountSave, ParentLinks,
                AccountRead, AccountFind, Populates, AccountList, Deletes
  <2> QED  BY <1>1, <2>1, <2>3 DEF Awaited, CallsTypeOK
<1>4. CASE pending[c] # {Op(r)}
  <2>1. CallsTypeOK'
    BY <1>1, <1>2, <1>3, <1>4 DEF CallsTypeOK
  <2>2. /\ \A d \in Calls : pending'[d] \subseteq pending[d]
        /\ UNCHANGED <<stage, reqs>>
    BY <1>1, <1>4 DEF CallsTypeOK
  <2>3. OperationsOK'
    BY <2>1, <2>2, <1>2, QuietStepTyped
  <2> QED  BY <2>1, <2>3
<1>5. CASE pending[c] = {Op(r)} /\ missed'[c]
  BY <1>1, <1>2, <1>3, <1>5, AbandonTyped DEF Codes, CallsTypeOK
<1>6. CASE pending[c] = {Op(r)} /\ ~missed'[c]
  <2>1. \A op \in AccountFind : Justified(c, op)' /\ op[1] # "update"
    BY <1>2, <1>3 DEF Justified, AccountFind
  <2>2. StageOps(c)'
    BY <1>1, <1>6 DEF StageOps, Proceed, CallsTypeOK
  <2>3. AccountFind \in SUBSET Operations /\ "finding" \in Stages \ {"new"}
    BY OperationSets DEF Stages
  <2> QED  BY <1>1, <1>2, <1>3, <1>6, <2>1, <2>2, <2>3, ProceedTyped DEF CallsTypeOK
<1> QED  BY <1>4, <1>5, <1>6

LEMMA PartRejectedTyped ==
    ASSUME TypeInv, NEW c \in Calls, UNCHANGED late, PartRejected(c)
    PROVE  CallsTypeOK' /\ OperationsOK'
<1>1. stage[c] # "new" /\ resps' \subseteq Replies /\ "INTERNAL" \in Codes
  BY DEF PartRejected, Awaited, TypeInv, TypeOK, CallsTypeOK, Codes
<1> QED  BY <1>1, AbandonTyped DEF PartRejected, TypeInv, TypeOK, CallsTypeOK

LEMMA FoundTyped ==
    ASSUME TypeInv, NEW c \in Calls, UNCHANGED late, Found(c)
    PROVE  CallsTypeOK' /\ OperationsOK'
<1> USE DEF TypeInv, TypeOK
<1>1. PICK r \in resps :
        /\ Awaited(c, "finding", r) /\ r.docs["account"] # NoDoc
        /\ resps' = resps \ {r}
        /\ body' = [body EXCEPT ![c] = r.docs]
  BY DEF Found
<1>2. /\ Proceed(c, "populating", Populates)
      /\ UNCHANGED <<clock, req, todo, missed, code, ids, tstate, ended>>
  BY DEF Found
<1>3. r.docs \in Bodies /\ resps' \subseteq Replies
  BY <1>1 DEF CallsTypeOK, Replies
<1>4. body' \in [Calls -> Bodies] /\ body'[c]["account"] # NoDoc
      /\ \A d \in Calls \ {c} : body'[d] = body[d]
  BY <1>1, <1>3 DEF CallsTypeOK
<1>5. req[c].op = "update"
  <2>1. Op(r) \in AccountFind /\ Justified(c, Op(r))
    BY <1>1 DEF Awaited, OperationsOK, StageOps
  <2> QED  BY <2>1 DEF Justified, ChildSaves, AccountSave, ParentLinks,
                AccountRead, AccountFind, Populates, AccountList, Deletes
<1>6. \A op \in Populates : Justified(c, op)' /\ op[1] # "update"
  BY <1>2, <1>4, <1>5 DEF Justified, Populates
<1>7. StageOps(c)'
  BY <1>2 DEF StageOps, Proceed, CallsTypeOK
<1>8. Populates \in SUBSET Operations /\ "populating" \in Stages \ {"new"}
  BY OperationSets DEF Stages
<1> QED  BY <1>2, <1>3, <1>4, <1>6, <1>7, <1>8, ProceedTyped DEF CallsTypeOK

LEMMA NotFoundTyped ==
    ASSUME TypeInv, NEW c \in Calls, UNCHANGED late, NotFound(c)
    PROVE  CallsTypeOK' /\ OperationsOK'
<1>1. stage[c] # "new" /\ resps' \subseteq Replies /\ "FAILED_PRECONDITION" \in Codes
  BY DEF NotFound, Awaited, TypeInv, TypeOK, CallsTypeOK, Codes
<1> QED  BY <1>1, AbandonTyped DEF NotFound, TypeInv, TypeOK, CallsTypeOK

LEMMA PopulatedTyped ==
    ASSUME TypeInv, NEW c \in Calls, UNCHANGED late, Populated(c)
    PROVE  CallsTypeOK' /\ OperationsOK'
<1> USE DEF TypeInv, TypeOK
<1>1. PICK r \in resps :
        /\ Awaited(c, "populating", r) /\ r.result = "ok"
        /\ resps' = resps \ {r}
        /\ body' = [body EXCEPT ![c][r.kind] = r.docs[r.kind]]
        /\ pending' = [pending EXCEPT ![c] = @ \ {Op(r)}]
        /\ IF pending[c] = {Op(r)} THEN Commit(c)
           ELSE UNCHANGED <<stage, code, tstate, ended, reqs>>
  BY DEF Populated
<1>2. UNCHANGED <<clock, req, todo, missed, ids>>
  BY DEF Populated
<1>3. r.kind \in ChildKinds
  BY <1>1 DEF Awaited, OperationsOK, StageOps, Populates, Op
<1>4. body' \in [Calls -> Bodies]
  <2>1. /\ r.docs \in Bodies /\ body[c] \in Bodies /\ r.kind \in Kinds
    BY <1>1, <1>3 DEF CallsTypeOK, Replies, ChildKinds
  <2>2. [body[c] EXCEPT ![r.kind] = r.docs[r.kind]] \in Bodies
    BY <2>1 DEF Bodies
  <2> QED  BY <1>1, <2>2 DEF CallsTypeOK
<1>5. \A d \in Calls : body'[d]["account"] = body[d]["account"]
  <2>1. "account" \in Kinds /\ r.kind # "account"
    BY <1>3 DEF ChildKinds, Kinds
  <2>2. \A d \in Calls : body[d] \in [Kinds -> Docs \cup {NoDoc}]
    BY DEF CallsTypeOK, Bodies
  <2>3. body \in [Calls -> Bodies]
    BY DEF CallsTypeOK
  <2> QED  BY <1>1, <2>1, <2>2, <2>3
<1>6. /\ stage[c] # "new" /\ resps' \subseteq Replies
      /\ pending' \in [Calls -> SUBSET Operations]
      /\ \A d \in Calls : pending'[d] \subseteq pending[d]
  BY <1>1 DEF Awaited, CallsTypeOK
<1>7. CASE pending[c] = {Op(r)}
  BY <1>1, <1>2, <1>4, <1>5, <1>6, <1>7, CommitTyped DEF CallsTypeOK
<1>8. CASE pending[c] # {Op(r)}
  <2>1. UNCHANGED <<stage, code, tstate, ended, reqs>>
    BY <1>1, <1>8
  <2>2. CallsTypeOK'
    BY <2>1, <1>2, <1>4, <1>6 DEF CallsTypeOK
  <2>3. \A d \in Calls : StageOps(d)'
    BY <2>1, <1>6 DEF OperationsOK, StageOps
  <2>4. \A d \in Calls : stage'[d] = "new" => ids'[d]["account"] = NoId
    BY <2>1, <1>2 DEF OperationsOK
  <2>5. OperationsOK'
    BY <2>1, <2>3, <2>4, <1>2, <1>5, <1>6, OperationsStay DEF CallsTypeOK
  <2> QED  BY <2>2, <2>5
<1> QED  BY <1>7, <1>8

LEMMA OmittedTyped ==
    ASSUME TypeInv, NEW c \in Calls, UNCHANGED late,
           UpdateThrows(c) \/ UpdateUnasked(c) \/ DeleteThrows(c)
    PROVE  CallsTypeOK' /\ OperationsOK'
<1>1. CallsTypeOK'
  BY OmittedFacts DEF TypeInv, TypeOK, CallsTypeOK, Stages, Codes, TStates
<1>2. \A d \in Calls : stage'[d] \in {stage[d], "answered", "stuck"}
  BY OmittedFacts DEF TypeInv, TypeOK, CallsTypeOK
<1>3. OperationsOK'
  BY <1>1, <1>2, OmittedFacts, QuietStepTyped
<1> QED  BY <1>1, <1>3

LEMMA UpdateTyped ==
    ASSUME TypeInv, NEW c \in Calls, UNCHANGED late, UpdateOne(c)
    PROVE  CallsTypeOK' /\ OperationsOK'
  BY OmittedTyped, UpdateBeginTyped, PartSetTyped, PartRejectedTyped, FoundTyped, NotFoundTyped,
     PopulatedTyped DEF UpdateOne

-----------------------------------------------------------------------------
(* DeleteOne.                                                              *)

LEMMA DeleteBeginTyped ==
    ASSUME TypeInv, NEW c \in Calls, UNCHANGED late, DeleteBegin(c)
    PROVE  CallsTypeOK' /\ OperationsOK'
<1> USE DEF TypeInv, TypeOK, DeleteBegin
<1>1. CallsTypeOK'
  BY OperationSets DEF CallsTypeOK, Stages, TStates
<1>2. \A op \in AccountList : Justified(c, op)'
  BY DEF Justified
<1>3. \A d \in Calls : \A op \in todo'[d] \cup pending'[d] :
        op \in todo[d] \cup pending[d] \/ Justified(d, op)'
  BY <1>2 DEF CallsTypeOK
<1>4. \A d \in Calls : StageOps(d)'
  BY DEF OperationsOK, StageOps, CallsTypeOK
<1>5. \A d \in Calls : stage'[d] = "new" => ids'[d]["account"] = NoId
  BY DEF OperationsOK, CallsTypeOK
<1>6. OperationsOK'
  BY <1>3, <1>4, <1>5, OperationsStay DEF CallsTypeOK
<1> QED  BY <1>1, <1>6

LEMMA RefuseTyped ==
    ASSUME TypeInv, NEW c \in Calls, NEW status \in Codes, UNCHANGED late, Refuse(c, status)
    PROVE  CallsTypeOK' /\ OperationsOK'
<1>1. CallsTypeOK'
  BY DEF TypeInv, TypeOK, CallsTypeOK, Refuse, Stages
<1>2. \A d \in Calls : stage'[d] \in {stage[d], "answered"}
  BY DEF TypeInv, TypeOK, CallsTypeOK, Refuse
<1>3. OperationsOK'
  BY <1>1, <1>2, QuietStepTyped DEF Refuse
<1> QED  BY <1>1, <1>3

LEMMA DeleteInvalidTyped ==
    ASSUME TypeInv, NEW c \in Calls, UNCHANGED late, DeleteInvalid(c)
    PROVE  CallsTypeOK' /\ OperationsOK'
  BY RefuseTyped DEF DeleteInvalid, Codes

LEMMA ListedTyped ==
    ASSUME TypeInv, NEW c \in Calls, UNCHANGED late, Listed(c)
    PROVE  CallsTypeOK' /\ OperationsOK'
<1> USE DEF TypeInv, TypeOK
<1>1. PICK r \in resps :
        /\ Awaited(c, "listing", r) /\ r.result = "ok"
        /\ resps' = resps \ {r}
        /\ body' = [body EXCEPT ![c] = r.docs]
  BY DEF Listed
<1>2. /\ Proceed(c, "deleting", Deletes)
      /\ UNCHANGED <<clock, req, todo, missed, code, ids, tstate, ended>>
  BY DEF Listed
<1>3. r.docs \in Bodies /\ resps' \subseteq Replies
  BY <1>1 DEF CallsTypeOK, Replies
<1>4. body' \in [Calls -> Bodies] /\ \A d \in Calls \ {c} : body'[d] = body[d]
  BY <1>1, <1>3 DEF CallsTypeOK
<1>5. req[c].op = "delete" /\ req[c].id # NoId
  <2>1. Op(r) \in AccountList /\ Justified(c, Op(r))
    BY <1>1 DEF Awaited, OperationsOK, StageOps
  <2> QED  BY <2>1 DEF Justified, ChildSaves, AccountSave, ParentLinks,
                AccountRead, AccountFind, Populates, AccountList, Deletes
<1>6. \A op \in Deletes : Justified(c, op)' /\ op[1] # "update"
  BY <1>2, <1>5 DEF Justified, Deletes
<1>7. StageOps(c)'
  BY <1>2 DEF StageOps, Proceed, CallsTypeOK
<1>8. Deletes \in SUBSET Operations /\ "deleting" \in Stages \ {"new"}
  BY OperationSets DEF Stages
<1> QED  BY <1>2, <1>3, <1>4, <1>5, <1>6, <1>7, <1>8, ProceedTyped DEF CallsTypeOK

LEMMA ListRejectedTyped ==
    ASSUME TypeInv, NEW c \in Calls, UNCHANGED late, ListRejected(c)
    PROVE  CallsTypeOK' /\ OperationsOK'
<1>1. stage[c] # "new" /\ resps' \subseteq Replies /\ "UNAVAILABLE" \in Codes
  BY DEF ListRejected, Awaited, TypeInv, TypeOK, CallsTypeOK, Codes
<1> QED  BY <1>1, AbandonTyped DEF ListRejected, TypeInv, TypeOK, CallsTypeOK

LEMMA DeletedTyped ==
    ASSUME TypeInv, NEW c \in Calls, UNCHANGED late, Deleted(c)
    PROVE  CallsTypeOK' /\ OperationsOK'
<1> USE DEF TypeInv, TypeOK
<1>1. PICK r \in resps :
        /\ Awaited(c, "deleting", r)
        /\ resps' = resps \ {r}
        /\ missed' = [missed EXCEPT ![c] = @ \/ r.result # "ok"]
        /\ pending' = [pending EXCEPT ![c] = @ \ {Op(r)}]
        /\ IF pending[c] # {Op(r)}
           THEN UNCHANGED <<stage, code, tstate, ended, reqs>>
           ELSE IF missed'[c] THEN Abandon(c, "RESOURCE_EXHAUSTED")
           ELSE Commit(c)
  BY DEF Deleted
<1>2. UNCHANGED <<clock, req, todo, body, ids>>
  BY DEF Deleted
<1>3. /\ stage[c] # "new" /\ resps' \subseteq Replies
      /\ missed' \in [Calls -> BOOLEAN]
      /\ pending' \in [Calls -> SUBSET Operations]
      /\ \A d \in Calls : pending'[d] \subseteq pending[d]
  BY <1>1 DEF Awaited, CallsTypeOK
<1>4. CASE pending[c] # {Op(r)}
  <2>1. CallsTypeOK'
    BY <1>1, <1>2, <1>3, <1>4 DEF CallsTypeOK
  <2>2. OperationsOK'
    BY <2>1, <1>1, <1>2, <1>3, <1>4, QuietStepTyped
  <2> QED  BY <2>1, <2>2
<1>5. CASE pending[c] = {Op(r)} /\ missed'[c]
  BY <1>1, <1>2, <1>3, <1>5, AbandonTyped DEF Codes, CallsTypeOK
<1>6. CASE pending[c] = {Op(r)} /\ ~missed'[c]
  BY <1>1, <1>2, <1>3, <1>6, CommitTyped DEF CallsTypeOK
<1> QED  BY <1>4, <1>5, <1>6

LEMMA DeleteRejectedTyped ==
    ASSUME TypeInv, NEW c \in Calls, UNCHANGED late, DeleteRejected(c)
    PROVE  CallsTypeOK' /\ OperationsOK'
<1>1. stage[c] # "new" /\ resps' \subseteq Replies /\ "INTERNAL" \in Codes
  BY DEF DeleteRejected, Awaited, TypeInv, TypeOK, CallsTypeOK, Codes
<1> QED  BY <1>1, AbandonTyped DEF DeleteRejected, TypeInv, TypeOK, CallsTypeOK

LEMMA DeleteTyped ==
    ASSUME TypeInv, NEW c \in Calls, UNCHANGED late, DeleteOne(c)
    PROVE  CallsTypeOK' /\ OperationsOK'
  BY OmittedTyped, DeleteInvalidTyped, DeleteBeginTyped, ListedTyped, ListRejectedTyped,
     DeletedTyped, DeleteRejectedTyped DEF DeleteOne

-----------------------------------------------------------------------------
(* The session.                                                            *)

LEMMA DispatchTyped ==
    ASSUME TypeInv, NEW c \in Calls, UNCHANGED late, Dispatch(c)
    PROVE  CallsTypeOK' /\ OperationsOK'
<1> USE DEF TypeInv, TypeOK
<1>1. PICK op \in todo[c] :
        /\ todo' = [todo EXCEPT ![c] = @ \ {op}]
        /\ IF Settles(c, op) # ""
           THEN /\ resps' = resps \cup
                       Settled(Reply(Message(c, op, FALSE), Settles(c, op), NoDocs))
                /\ UNCHANGED <<reqs, tstate>>
           ELSE /\ reqs' = reqs \cup {Message(c, op, tstate[c] = "starting")}
                /\ tstate' = [tstate EXCEPT ![c] = "inProgress"]
                /\ UNCHANGED resps
  BY DEF Dispatch
<1>2. UNCHANGED <<clock, req, stage, pending, missed, code, body, ids, ended>>
  BY DEF Dispatch
<1>3. op \in Operations /\ Justified(c, op)
  BY DEF CallsTypeOK, OperationsOK
<1>4. todo' \in [Calls -> SUBSET Operations] /\ \A d \in Calls : todo'[d] \subseteq todo[d]
  BY <1>1 DEF CallsTypeOK
<1>5. CASE Settles(c, op) # ""
  <2>1. Settles(c, op) \in Fulfilled \cup Rejected
    BY <1>5 DEF Settles, Fulfilled, Rejected
  <2>2. Message(c, op, FALSE) \in Messages
    BY <1>3 DEF Message, Messages, Operations
  <2>3. Reply(Message(c, op, FALSE), Settles(c, op), NoDocs) \in Replies
    BY <2>1, <2>2, ReplyFacts, EmptyTypes
  <2> DEFINE r == Reply(Message(c, op, FALSE), Settles(c, op), NoDocs)
  <2>7. resps' = resps \cup Settled(r) /\ UNCHANGED <<reqs, tstate>>
    BY <1>1, <1>5
  <2> HIDE DEF r
  <2>8. Settled(r) \subseteq {r}
    BY SettledFacts
  <2>6. resps' \subseteq Replies /\ UNCHANGED <<reqs, tstate>>
    BY <2>3, <2>7, <2>8 DEF CallsTypeOK, r
  <2>4. CallsTypeOK'
    BY <1>2, <1>4, <2>6 DEF CallsTypeOK
  <2>5. OperationsOK'
    BY <2>4, <1>1, <1>2, <1>4, <1>5, QuietStepTyped
  <2> QED  BY <2>4, <2>5
<1>6. CASE Settles(c, op) = ""
  <2> DEFINE m == Message(c, op, tstate[c] = "starting")
  <2>1. m \in Messages /\ m.call = c /\ Op(m) = op /\ m.verb = op[1] /\ m.kind = op[2]
    BY <1>3 DEF Message, Messages, Operations, Op
  <2>7. /\ reqs' = reqs \cup {m}
        /\ tstate' = [tstate EXCEPT ![c] = "inProgress"]
        /\ UNCHANGED resps
    BY <1>1, <1>6
  <2> HIDE DEF m
  <2>8. reqs' \subseteq Messages /\ tstate' \in [Calls -> TStates]
    BY <2>1, <2>7 DEF CallsTypeOK, TStates
  <2>2. CallsTypeOK'
    BY <1>2, <1>4, <2>7, <2>8 DEF CallsTypeOK
  <2>3. \A d \in Calls : StageOps(d)'
    BY <1>2 DEF OperationsOK, StageOps
  <2>4. \A d \in Calls : \A o \in todo'[d] \cup pending'[d] : Justified(d, o)'
    BY <1>2, <1>4 DEF OperationsOK, Justified
  <2>5. ASSUME NEW n \in reqs' \cup late'
        PROVE  /\ Justified(n.call, Op(n))'
               /\ n.verb = "update" => UpdatePatch(n.call, n.kind)' # NoPatch
    <3>1. CASE n \in reqs \cup late
      BY <1>2, <3>1 DEF OperationsOK, Justified, UpdatePatch
    <3>2. CASE n = m
      <4>1. op[1] = "update" => UpdatePatch(c, op[2]) # NoPatch
        BY <1>6 DEF Settles
      <4>2. Justified(c, op)'
        BY <1>2, <1>3 DEF Justified
      <4> QED  BY <1>2, <2>1, <3>2, <4>1, <4>2 DEF UpdatePatch
    <3> QED  BY <2>7, <3>1, <3>2
  <2>6. OperationsOK'
    BY <1>2, <2>3, <2>4, <2>5 DEF OperationsOK, Op
  <2> QED  BY <2>2, <2>6
<1> QED  BY <1>5, <1>6

LEMMA SessionTyped ==
    ASSUME TypeInv, NEW c \in Calls, UNCHANGED late,
           AbortDone(c) \/ Committed(c) \/ CommitFailed(c)
    PROVE  CallsTypeOK' /\ OperationsOK'
<1> USE DEF TypeInv, TypeOK
<1>1. CASE AbortDone(c)
  <2>1. CallsTypeOK'
    <3>1. resps' \subseteq resps
      BY <1>1 DEF AbortDone
    <3> QED  BY <3>1, <1>1 DEF CallsTypeOK, AbortDone, Stages, TStates
  <2>2. \A d \in Calls : stage'[d] \in {stage[d], "answered", "stuck"}
    BY <1>1 DEF CallsTypeOK, AbortDone
  <2> QED  BY <2>1, <2>2, <1>1, QuietStepTyped DEF AbortDone
<1>2. CASE Committed(c)
  <2>1. CallsTypeOK'
    BY <1>2 DEF CallsTypeOK, Committed, Stages, TStates, Codes
  <2>2. \A d \in Calls : stage'[d] \in {stage[d], "answered"}
    BY <1>2 DEF CallsTypeOK, Committed
  <2> QED  BY <2>1, <2>2, <1>2, QuietStepTyped DEF Committed
<1>3. CASE CommitFailed(c)
  <2>1. CallsTypeOK'
    BY <1>3 DEF CallsTypeOK, CommitFailed, Stages, TStates
  <2>2. \A d \in Calls : stage'[d] \in {stage[d], "stuck"}
    BY <1>3 DEF CallsTypeOK, CommitFailed
  <2> QED  BY <2>1, <2>2, <1>3, QuietStepTyped DEF CommitFailed
<1> QED  BY <1>1, <1>2, <1>3

LEMMA HandleTyped ==
    ASSUME TypeInv, NEW c \in Calls, UNCHANGED late, Handle(c)
    PROVE  CallsTypeOK' /\ OperationsOK'
<1>1. CASE NotConnected(c)
  BY <1>1, RefuseTyped DEF NotConnected, Codes
<1> QED  BY <1>1, CreateTyped, UpdateTyped, DeleteTyped, SeedTyped, DispatchTyped, SessionTyped
         DEF Handle

-----------------------------------------------------------------------------
(* The server.                                                             *)

\* The writes of a justified message are documents of its collection.
LEMMA ImagesTyped ==
    ASSUME TypeInv, NEW m \in reqs \cup late, m.verb \in Writes, NEW s \in Stores,
           NEW w \in Images(m, s)
    PROVE  m.kind \in Kinds /\ w.id \in Ids /\ w.doc \in DocsOf(m.kind) \cup {NoDoc}
<1> USE DEF TypeInv, TypeOK
<1>1. /\ m.call \in Calls /\ Justified(m.call, Op(m)) /\ Op(m) = <<m.verb, m.kind>>
      /\ req \in [Calls -> RequestType]
      /\ ids[m.call] \in [Kinds -> Ids \cup {NoId}]
  BY CallAssumption DEF CallsTypeOK, ServerTypeOK, OperationsOK, Messages, Op
<1>2. /\ req[m.call].id \in Ids \cup {NoId}
      /\ \A k \in ChildKinds : req[m.call].set[k] \in Patches \cup {NoPatch}
  BY <1>1 DEF RequestType
<1> PICK i \in Targets(m, s) : w = [id |-> i, doc |-> Image(m, s, i)]
  BY DEF Images
<1>3. CASE m.verb = "insert"
  <2>1. w = [id |-> ids[m.call][m.kind], doc |-> SavedDoc(m.call, m.kind)]
    BY <1>3 DEF Targets, Image
  <2>2. CASE m.kind = "account"
    <3>1. \A k \in Kinds : ids[m.call][k] \in Ids
      BY <1>1, <1>3, <2>2 DEF Justified, ChildSaves, AccountSave, ParentLinks,
         AccountRead, AccountFind, Populates, AccountList, Deletes, ChildKinds
    <3>2. SavedDoc(m.call, "account") \in AccountDocs
      BY <3>1 DEF SavedDoc, AccountDocs, ChildKinds
    <3> QED  BY <2>1, <2>2, <3>1, <3>2 DEF DocsOf, Kinds
  <2>3. CASE m.kind # "account"
    <3>1. m.kind \in ChildKinds /\ \A k \in ChildKinds : ids[m.call][k] \in Ids
      BY <1>1, <1>3, <2>3 DEF Justified, ChildSaves, AccountSave, ParentLinks,
         AccountRead, AccountFind, Populates, AccountList, Deletes
    <3>2. NewPatch(m.call, m.kind) \in Patches
      BY <3>1, <1>2 DEF NewPatch, Patches
    <3>3. SavedDoc(m.call, m.kind) \in ChildDocs
      BY <2>3, <3>1, <3>2, NewChildType DEF SavedDoc
    <3> QED  BY <2>1, <2>3, <3>1, <3>3 DEF DocsOf, ChildKinds
  <2> QED  BY <2>2, <2>3
<1>4. CASE m.verb = "link"
  <2>1. m.kind \in ChildKinds /\ \A k \in Kinds : ids[m.call][k] \in Ids
    BY <1>1, <1>4 DEF Justified, ChildSaves, AccountSave, ParentLinks,
         AccountRead, AccountFind, Populates, AccountList, Deletes
  <2>2. /\ w.id \in Ids /\ s[<<m.kind, w.id>>] # NoDoc
        /\ w.doc = [parent |-> ids[m.call]["account"],
                    fields |-> s[<<m.kind, w.id>>].fields]
    BY <1>4, <2>1 DEF Targets, Image, ChildKinds
  <2>3. s[<<m.kind, w.id>>] \in ChildDocs
    BY <2>1, <2>2 DEF Stores, DocsOf, ChildKinds
  <2>4. w.doc \in ChildDocs
    BY <2>1, <2>2, <2>3 DEF ChildDocs, Kinds
  <2> QED  BY <2>1, <2>2, <2>4 DEF DocsOf, ChildKinds
<1>5. CASE m.verb = "update"
  <2>1. m.kind \in ChildKinds /\ UpdatePatch(m.call, m.kind) # NoPatch
    BY <1>1, <1>5 DEF OperationsOK, Justified, ChildSaves, AccountSave, ParentLinks,
         AccountRead, AccountFind, Populates, AccountList, Deletes
  <2>2. UpdatePatch(m.call, m.kind) \in Patches
    BY <2>1, <1>2 DEF UpdatePatch, ChildKinds, Kinds
  <2>3. /\ w.id \in ChildrenOf(s, m.kind, req[m.call].id)
        /\ w.doc = SetFields(s[<<m.kind, w.id>>], m.kind, UpdatePatch(m.call, m.kind))
    BY <1>5, <2>1 DEF Targets, Image
  <2>4. w.id \in Ids /\ s[<<m.kind, w.id>>] \in ChildDocs
    BY <2>1, <2>3 DEF ChildrenOf, Stores, DocsOf, ChildKinds
  <2>5. w.doc \in ChildDocs
    BY <2>1, <2>2, <2>3, <2>4, SetFieldsType
  <2> QED  BY <2>1, <2>4, <2>5 DEF DocsOf, ChildKinds
<1>6. CASE m.verb = "delete"
  <2>1. m.kind \in Kinds /\ req[m.call].id \in Ids
    BY <1>1, <1>2, <1>6 DEF Justified, ChildSaves, AccountSave, ParentLinks,
         AccountRead, AccountFind, Populates, AccountList, Deletes
  <2>2. w.id \in Ids /\ w.doc = NoDoc
    BY <1>6, <2>1 DEF Targets, Image, ChildrenOf
  <2> QED  BY <2>1, <2>2
<1> QED  BY <1>3, <1>4, <1>5, <1>6 DEF Writes

\* An answer of the server is a reply, and takes its request off the wire.
LEMMA AnswerTyped ==
    ASSUME TypeInv, NEW m \in reqs \cup late, NEW result \in Fulfilled \cup Rejected,
           NEW docs \in Bodies, Answer(m, result, docs)
    PROVE  CallsTypeOK' /\ OperationsOK' /\ late' \subseteq Messages
<1> USE DEF TypeInv, TypeOK
<1>1. Reply(m, result, docs) \in Replies
  BY ReplyFacts DEF CallsTypeOK, ServerTypeOK
<1>2. resps' \subseteq Replies /\ reqs' \subseteq reqs /\ late' \subseteq late
  BY <1>1, SettledFacts DEF CallsTypeOK, Answer
<1>3. UNCHANGED <<clock, req, stage, todo, pending, missed, code, body, ids,
                  tstate, ended>>
  BY DEF Answer
<1>4. CallsTypeOK'
  BY <1>2, <1>3 DEF CallsTypeOK
<1>5. OperationsOK'
  BY <1>2, <1>3, <1>4, QuietStepTyped
<1> QED  BY <1>2, <1>4, <1>5 DEF ServerTypeOK

LEMMA ContinueTyped ==
    ASSUME TypeInv, NEW m \in reqs \cup late, NEW s \in Stores, NEW keys \in SUBSET Keys,
           Continue(m, s, keys), late' \subseteq Messages
    PROVE  ServerTypeOK'
  BY DEF TypeInv, TypeOK, ServerTypeOK, CallsTypeOK, Messages, Continue

LEMMA FinishTyped ==
    ASSUME TypeInv, NEW c \in Calls, NEW state \in {"committed", "aborted"},
           Finish(c, state), db' \in Stores, faults' \in 0 .. MaxFaults,
           stale' \in [Calls -> SUBSET Keys], late' \subseteq Messages
    PROVE  ServerTypeOK'
<1>1. EmptyStore \in Stores
  BY EmptyTypes
<1> QED  BY <1>1 DEF TypeInv, TypeOK, ServerTypeOK, Finish

LEMMA SnapshotTyped ==
    ASSUME TypeInv, NEW m \in reqs \cup late
    PROVE  m.call \in Calls /\ Snapshot(m) \in Stores
  BY DEF TypeInv, TypeOK, CallsTypeOK, ServerTypeOK, Messages, Snapshot

LEMMA ServeWriteTyped ==
    ASSUME TypeInv, NEW m \in reqs \cup late, ServeWrite(m)
    PROVE  TypeInv'
<1> DEFINE s == Snapshot(m)
<1>1. s \in Stores /\ m.call \in Calls /\ m.verb \in Writes
  BY SnapshotTyped DEF ServeWrite
<1>2. {"ok", "miss", "conflict", "duplicate"} \subseteq Fulfilled \cup Rejected
      /\ NoDocs \in Bodies
  BY EmptyTypes DEF Fulfilled, Rejected
<1>3. CASE Answer(m, "miss", NoDocs) /\ Continue(m, s, {})
  <2>1. CallsTypeOK' /\ OperationsOK' /\ late' \subseteq Messages
    BY <1>2, <1>3, AnswerTyped
  <2>2. ServerTypeOK'
    BY <1>1, <1>3, <2>1, ContinueTyped
  <2> QED  BY <2>1, <2>2 DEF TypeInv, TypeOK
<1>4. ASSUME NEW w \in Images(m, s), Answer(m, "ok", NoDocs),
             Continue(m, Put(s, m.kind, w.id, w.doc), Touched(s, m.kind, w.id, w.doc))
      PROVE  TypeInv'
  <2>1. CallsTypeOK' /\ OperationsOK' /\ late' \subseteq Messages
    BY <1>2, <1>4, AnswerTyped
  <2>2. m.kind \in Kinds /\ w.id \in Ids /\ w.doc \in DocsOf(m.kind) \cup {NoDoc}
    BY <1>1, ImagesTyped
  <2>3. Put(s, m.kind, w.id, w.doc) \in Stores /\ Touched(s, m.kind, w.id, w.doc) \in SUBSET Keys
    BY <1>1, <2>2, PutType, TouchedType
  <2>4. ServerTypeOK'
    BY <1>4, <2>1, <2>3, ContinueTyped
  <2> QED  BY <2>1, <2>4 DEF TypeInv, TypeOK
<1>5. ASSUME NEW result \in {"conflict", "duplicate"}, Answer(m, result, NoDocs),
             Finish(m.call, "aborted"), UNCHANGED <<db, stale, faults>>
      PROVE  TypeInv'
  <2>1. CallsTypeOK' /\ OperationsOK' /\ late' \subseteq Messages
    BY <1>2, <1>5, AnswerTyped
  <2>2. ServerTypeOK'
    BY <1>1, <1>5, <2>1, FinishTyped DEF TypeInv, TypeOK, ServerTypeOK
  <2> QED  BY <2>1, <2>2 DEF TypeInv, TypeOK
<1> QED  BY <1>3, <1>4, <1>5 DEF ServeWrite

LEMMA ServeReadTyped ==
    ASSUME TypeInv, NEW m \in reqs \cup late, ServeRead(m)
    PROVE  TypeInv'
<1> USE DEF TypeInv, TypeOK
<1> DEFINE c == m.call
           id == IF m.verb = "aggregate" THEN ids[c]["account"] ELSE req[c].id
<1>1. /\ m.verb \in SessionReads
      /\ Answer(m, "ok", Public(Assemble(Snapshot(m), id)))
      /\ Continue(m, Snapshot(m), {})
  BY DEF ServeRead
<1>2. Snapshot(m) \in Stores /\ c \in Calls
  BY SnapshotTyped
<1>3. id \in Ids
  <2>1. Justified(c, Op(m)) /\ Op(m) = <<m.verb, m.kind>> /\ req \in [Calls -> RequestType]
    BY CallAssumption DEF OperationsOK, Op, CallsTypeOK
  <2>2. CASE m.verb = "aggregate"
    BY <2>1, <2>2 DEF Justified, ChildSaves, AccountSave, ParentLinks, Kinds,
       AccountRead, AccountFind, Populates, AccountList, Deletes
  <2>3. CASE m.verb = "list"
    <3>1. req[c].id # NoId
      BY <2>1, <2>3 DEF Justified, ChildSaves, AccountSave, ParentLinks,
         AccountRead, AccountFind, Populates, AccountList, Deletes
    <3> QED  BY <2>1, <2>3, <3>1, <1>2 DEF RequestType
  <2> QED  BY <1>1, <2>2, <2>3 DEF SessionReads
<1>4. Public(Assemble(Snapshot(m), id)) \in Bodies
  BY <1>2, <1>3, AssembleType, PublicType
<1>5. CallsTypeOK' /\ OperationsOK' /\ late' \subseteq Messages
  BY <1>1, <1>4, AnswerTyped DEF Fulfilled
<1>6. ServerTypeOK'
  BY <1>1, <1>2, <1>5, ContinueTyped
<1> QED  BY <1>5, <1>6

LEMMA ServePlainTyped ==
    ASSUME TypeInv, NEW m \in reqs \cup late, ServePlain(m)
    PROVE  TypeInv'
<1> USE DEF TypeInv, TypeOK
<1> DEFINE c == m.call
           id == IF m.verb = "find" THEN req[c].id ELSE body[c]["account"][m.kind]
           kind == IF m.verb = "find" THEN "account" ELSE m.kind
           docs == [NoDocs EXCEPT ![kind] = IF id = NoId THEN NoDoc ELSE db[<<kind, id>>]]
<1>1. m.verb \in PlainReads /\ Answer(m, "ok", docs) /\ UNCHANGED <<db, txnVars, faults>>
  BY DEF ServePlain
<1>2. c \in Calls /\ Justified(c, Op(m)) /\ Op(m) = <<m.verb, m.kind>>
      /\ req \in [Calls -> RequestType]
  BY CallAssumption DEF OperationsOK, Op, CallsTypeOK, ServerTypeOK, Messages
<1>3. kind \in Kinds /\ id \in Ids \cup {NoId}
  <2>1. CASE m.verb = "find"
    BY <2>1, <1>2 DEF Kinds, RequestType
  <2>2. CASE m.verb = "populate"
    <3>1. m.kind \in ChildKinds /\ body[c]["account"] # NoDoc
      BY <2>2, <1>2 DEF Justified, ChildSaves, AccountSave, ParentLinks,
         AccountRead, AccountFind, Populates, AccountList, Deletes
    <3>2. body[c]["account"] \in AccountDocs
      BY <3>1, <1>2 DEF CallsTypeOK, Bodies, DocsOf, Kinds
    <3> QED  BY <2>2, <3>1, <3>2 DEF AccountDocs, ChildKinds
  <2> QED  BY <1>1, <2>1, <2>2 DEF PlainReads
<1>4. docs \in Bodies
  <2>1. id # NoId => db[<<kind, id>>] \in DocsOf(kind) \cup {NoDoc}
    BY <1>3 DEF ServerTypeOK, Stores
  <2>2. DocsOf(kind) \subseteq Docs
    BY DEF DocsOf, Docs
  <2> DEFINE doc == IF id = NoId THEN NoDoc ELSE db[<<kind, id>>]
  <2>3. doc \in DocsOf(kind) \cup {NoDoc} /\ doc \in Docs \cup {NoDoc}
    BY <2>1, <2>2
  <2> DEFINE b == [NoDocs EXCEPT ![kind] = doc]
  <2>4. docs = b
    OBVIOUS
  <2> HIDE DEF doc, id, kind, docs
  <2>5. b \in [Kinds -> Docs \cup {NoDoc}] /\ b[kind] = doc
    BY <1>3, <2>3 DEF NoDocs
  <2>6. ASSUME NEW k \in Kinds
        PROVE  b[k] \in DocsOf(k) \cup {NoDoc}
    BY <1>3, <2>3, <2>5 DEF NoDocs
  <2>7. b \in Bodies
    BY <2>5, <2>6 DEF Bodies
  <2> QED  BY <2>4, <2>7
<1>5. CallsTypeOK' /\ OperationsOK' /\ late' \subseteq Messages
  BY <1>1, <1>4, AnswerTyped DEF Fulfilled
<1> QED  BY <1>1, <1>5, ServerTypeStays

LEMMA ServeEndTyped ==
    ASSUME TypeInv, NEW m \in reqs \cup late, ServeStranger(m) \/ ServeCommit(m) \/ ServeAbort(m)
    PROVE  TypeInv'
<1> USE DEF TypeInv, TypeOK
<1>1. CallsTypeOK' /\ OperationsOK' /\ late' \subseteq Messages
  BY AnswerTyped, EmptyTypes
     DEF ServeStranger, ServeCommit, ServeAbort, Fulfilled, Rejected
<1>2. m.call \in Calls
  BY SnapshotTyped
<1>3. CASE ServeStranger(m)
  BY <1>1, <1>3, ServerTypeStays DEF ServeStranger
<1>4. CASE ServeCommit(m)
  <2> DEFINE c == m.call
  <2>1. view[c] \in Stores /\ db \in Stores
    BY <1>2 DEF ServerTypeOK
  <2>2. db' = [k \in Keys |-> IF k \in wrote[c] THEN view[c][k] ELSE db[k]]
    BY <1>4 DEF ServeCommit
  <2>3. db' \in Stores
    <3>1. \A k \in Keys : db'[k] \in {view[c][k], db[k]}
      BY <2>2
    <3>2. \A kind \in Kinds, i \in Ids : <<kind, i>> \in Keys
      BY DEF Keys, DocKeys
    <3>3. db' \in [Keys -> Docs \cup {NoDoc}]
      BY <2>1, <2>2 DEF Stores
    <3>4. \A kind \in Kinds, i \in Ids : db'[<<kind, i>>] \in DocsOf(kind) \cup {NoDoc}
      BY <2>1, <3>1, <3>2 DEF Stores
    <3>5. \A k \in LoginKeys : db'[k] \in LoginEntries \cup {NoDoc}
      BY <2>1, <3>1 DEF Stores, Keys
    <3> QED  BY <3>3, <3>4, <3>5 DEF Stores
  <2>4. stale' \in [Calls -> SUBSET Keys]
    BY <1>2, <1>4 DEF ServeCommit, ServerTypeOK
  <2>5. ServerTypeOK'
    BY <1>1, <1>2, <1>4, <2>3, <2>4, FinishTyped DEF ServeCommit, ServerTypeOK
  <2> QED  BY <1>1, <2>5
<1>5. CASE ServeAbort(m)
  <2>1. ServerTypeOK'
    BY <1>1, <1>2, <1>5, FinishTyped DEF ServeAbort, ServerTypeOK
  <2> QED  BY <1>1, <2>1
<1> QED  BY <1>3, <1>4, <1>5

LEMMA ServeTyped ==
    ASSUME TypeInv, NEW c \in Calls, Serve(c)
    PROVE  TypeInv'
  BY ServeWriteTyped, ServeReadTyped, ServePlainTyped, ServeEndTyped DEF Serve

\* Steps that leave the calls as they are keep their part of the invariant.
LEMMA CallsStay ==
    ASSUME TypeInv, UNCHANGED callVars, late' \subseteq late
    PROVE  CallsTypeOK' /\ OperationsOK'
<1>1. CallsTypeOK'
  BY DEF TypeInv, TypeOK, CallsTypeOK, callVars
<1>2. OperationsOK'
  BY <1>1, QuietStepTyped DEF callVars
<1> QED  BY <1>1, <1>2

LEMMA FaultTyped ==
    ASSUME TypeInv, Fault
    PROVE  TypeInv'
<1> USE DEF TypeInv, TypeOK
<1>1. faults' \in 0 .. MaxFaults /\ UNCHANGED <<db, txnVars>>
  BY ServerAssumption DEF Fault, GiveUp, Vanish, LoseReply, Crash, ServerTypeOK, txnVars
<1>2. ServerTypeOK' <=> late' \subseteq Messages
  BY <1>1 DEF ServerTypeOK, txnVars
<1>3. CASE GiveUp
  <2>1. PICK m \in reqs :
          /\ reqs' = reqs \ {m}
          /\ late' = late \cup {m}
          /\ resps' = resps \cup Settled(Reply(m, "lost", NoDocs))
    BY <1>3 DEF GiveUp
  <2>2. UNCHANGED <<clock, req, stage, todo, pending, missed, code, body, ids,
                    tstate, ended>>
    BY <1>3 DEF GiveUp
  <2>3. Reply(m, "lost", NoDocs) \in Replies /\ m \in Messages
    BY ReplyFacts, EmptyTypes DEF CallsTypeOK, Rejected
  <2>4. resps' \subseteq Replies
    BY <2>1, <2>3, SettledFacts DEF CallsTypeOK
  <2>5. CallsTypeOK'
    BY <2>1, <2>2, <2>4 DEF CallsTypeOK
  <2>6. OperationsOK'
    BY <2>1, <2>2, <2>5, QuietStepTyped
  <2> QED  BY <1>2, <2>1, <2>3, <2>5, <2>6 DEF ServerTypeOK
<1>4. CASE Vanish
  <2>1. UNCHANGED callVars /\ late' \subseteq late
    BY <1>4 DEF Vanish
  <2> QED  BY <1>2, <2>1, CallsStay DEF ServerTypeOK
<1>5. CASE LoseReply
  <2>1. PICK r \in resps : resps' = (resps \ {r}) \cup Settled(Reply(r, "lost", NoDocs))
    BY <1>5 DEF LoseReply
  <2>2. Reply(r, "lost", NoDocs) \in Replies
    BY EmptyTypes DEF CallsTypeOK, Replies, Reply, Rejected
  <2>3. UNCHANGED <<clock, req, stage, todo, pending, missed, code, body, ids,
                    tstate, ended, reqs, late>>
    BY <1>5 DEF LoseReply
  <2>4. resps' \subseteq Replies
    BY <2>1, <2>2, SettledFacts DEF CallsTypeOK
  <2>5. CallsTypeOK'
    BY <2>3, <2>4 DEF CallsTypeOK
  <2>6. OperationsOK'
    BY <2>3, <2>5, QuietStepTyped
  <2> QED  BY <1>2, <2>3, <2>5, <2>6 DEF ServerTypeOK
<1>6. ASSUME NEW c \in Calls, Crash(c)
      PROVE  TypeInv'
  <2>1. /\ stage' = [stage EXCEPT ![c] = "crashed"]
        /\ todo' = [todo EXCEPT ![c] = {}]
        /\ UNCHANGED <<clock, req, pending, missed, code, body, ids, tstate, ended>>
    BY <1>6 DEF Crash
  <2>2. reqs' \subseteq reqs /\ late' \subseteq late \cup reqs /\ resps' \subseteq resps
    BY <1>6 DEF Crash
  <2>3. CallsTypeOK'
    BY <2>1, <2>2 DEF CallsTypeOK, Stages
  <2>4. /\ \A d \in Calls : todo'[d] \subseteq todo[d]
        /\ \A d \in Calls : stage'[d] \in {stage[d], "crashed"}
    BY <2>1 DEF CallsTypeOK
  <2>5. OperationsOK'
    BY <2>1, <2>2, <2>3, <2>4, QuietStepTyped
  <2> QED  BY <1>2, <2>2, <2>3, <2>5 DEF CallsTypeOK, ServerTypeOK
<1> QED  BY <1>3, <1>4, <1>5, <1>6 DEF Fault

LEMMA ReapTyped ==
    ASSUME TypeInv, NEW c \in Calls, Reap(c)
    PROVE  TypeInv'
<1>1. faults' \in 0 .. MaxFaults
  BY ServerAssumption DEF TypeInv, TypeOK, ServerTypeOK, Reap
<1>2. ServerTypeOK'
  BY <1>1, FinishTyped DEF TypeInv, TypeOK, ServerTypeOK, Reap
<1> QED  BY <1>2, CallsStay DEF Reap, TypeInv, TypeOK

LEMMA TickTyped ==
    ASSUME TypeInv, Tick
    PROVE  TypeInv'
<1>1. clock' \in Ids
  BY StoreAssumption DEF TypeInv, TypeOK, CallsTypeOK, Tick, Ids
<1>2. CallsTypeOK'
  BY <1>1 DEF TypeInv, TypeOK, CallsTypeOK, Tick
<1>3. OperationsOK'
  BY <1>2, QuietStepTyped DEF Tick, serverVars
<1>4. ServerTypeOK'
  BY ServerTypeStays DEF TypeInv, TypeOK, Tick, serverVars, ServerTypeOK
<1> QED  BY <1>2, <1>3, <1>4 DEF TypeInv, TypeOK

LEMMA TypeNext == TypeInv /\ [Next]_vars => TypeInv'
<1> SUFFICES ASSUME TypeInv, [Next]_vars PROVE TypeInv'
  OBVIOUS
<1>1. ASSUME NEW c \in Calls, Step(c) PROVE TypeInv'
  BY <1>1, HandleTyped, ServerTypeStays DEF Step, TypeInv, TypeOK, serverVars, ServerTypeOK
<1>2. CASE UNCHANGED vars
  BY <1>2, CallsStay, ServerTypeStays DEF vars, TypeInv, TypeOK, serverVars, ServerTypeOK
<1>3. CASE Next
  BY <1>1, <1>2, <1>3, ServeTyped, ReapTyped, TickTyped, FaultTyped DEF Next, Quiet
<1> QED  BY <1>2, <1>3

\* Every variable of the service and of the server keeps to its type, and every
\* operation on the wire is one its handler could create, for every deployment,
\* every number of calls and every fault bound.
THEOREM TypeCorrect == Spec => []TypeInv
  BY TypeInit, TypeNext, PTL DEF Spec

\* The type invariant of the composed service, from the inductive TypeInv: whatever the
\* calls do, every variable stays in its type.
THEOREM TypeOKHolds == Spec => []TypeOK
<1>1. TypeInv => TypeOK
  BY DEF TypeInv
<1> QED  BY <1>1, TypeCorrect, PTL

-----------------------------------------------------------------------------
(* One call at a time.                                                     *)

\* A step leaves call d alone, or takes messages of it off the wire.
Untouched(d) ==
    /\ req' = req
    /\ todo'[d] = todo[d] /\ pending'[d] = pending[d] /\ stage'[d] = stage[d]
    /\ code'[d] = code[d] /\ tstate'[d] = tstate[d] /\ ended'[d] = ended[d]
    /\ phase'[d] = phase[d]
    /\ \A m \in reqs' : m.call = d => m \in reqs
    /\ \A m \in late' : m.call = d => m \in late
    /\ \A r : r.call = d => (r \in resps' <=> r \in resps)

LEMMA UntouchedStays ==
    ASSUME NEW d \in Calls, Disciplined(d), Untouched(d)
    PROVE  Disciplined(d)'
<1> USE DEF Disciplined, Untouched
<1>1. Once(d)'
  BY DEF Once
<1>2. WaitOK(d)'
  BY DEF WaitOK
<1>3. CommitOK(d)'
  BY DEF CommitOK
<1>4. LateOK(d)'
  BY DEF LateOK, Rejection, Decided
<1>5. EndOK(d)'
  BY DEF EndOK, Silent, Unanswerable, Parts
<1>6. PhaseOK(d)'
  BY DEF PhaseOK, Decided, Parts
<1> QED  BY <1>1, <1>2, <1>3, <1>4, <1>5, <1>6

\* A call that has not begun has given up nothing.
LEMMA NewGaveNothingUp ==
    ASSUME SessionInv, NEW c \in Calls, stage[c] = "new"
    PROVE  \A m \in late : m.call # c
  BY DEF SessionInv, Disciplined, EndOK, Silent, LateOK, Rejection

-----------------------------------------------------------------------------
(* Waiting for a Promise.all.                                              *)

Waiting == Stages \ (Over \cup {"new"})

\* What a Promise.all waits for is never the end of the transaction, and every
\* such operation stands for itself.
LEMMA PendingFacts ==
    ASSUME SessionInv, NEW c \in Calls, stage[c] \in Waiting,
           NEW r, Op(r) \in pending[c]
    PROVE  /\ r.verb \notin {"commit", "abort"}
           /\ Stands(r) = Op(r)
           /\ Op(r) \in ChildSaves <=> stage[c] = "saving"
<1>1. StageOps(c)
  BY DEF SessionInv, TypeInv, OperationsOK
<1>2. stage[c] \in {"saving", "account", "linking", "aggregating", "setting",
                    "finding", "populating", "listing", "deleting"}
  BY DEF Waiting, Stages, Over
<1>3. r.verb \notin {"commit", "abort"} /\ (Op(r) \in ChildSaves <=> stage[c] = "saving")
  BY <1>1, <1>2 DEF StageOps, ChildSaves, AccountSave, ParentLinks, AccountRead,
     AccountFind, Populates, AccountList, Deletes, Op, ChildKinds, Kinds
<1> QED  BY <1>3 DEF Stands

\* When the last result arrives nothing else of the call is left.
LEMMA LastSilent ==
    ASSUME SessionInv, NEW c \in Calls, NEW st \in Waiting, NEW r, Awaited(c, st, r),
           pending[c] = {Op(r)}
    PROVE  /\ todo[c] = {}
           /\ \A m \in reqs : m.call # c
           /\ \A q \in resps : q.call = c => q = r
           /\ r.result # "lost" => \A m \in late : m.call # c
<1>1. /\ stage[c] \in Waiting /\ r \in resps /\ r.call = c /\ Op(r) \in pending[c]
      /\ Once(c) /\ WaitOK(c) /\ LateOK(c)
  BY DEF Awaited, SessionInv, Disciplined
<1>2. Stands(r) = Op(r)
  BY <1>1, PendingFacts
<1>3. stage[c] \notin Over \cup {"new"}
  BY <1>1 DEF Waiting
<1>4. /\ todo[c] \subseteq {Stands(r)}
      /\ \A m \in reqs : m.call = c => Stands(m) = Stands(r)
      /\ \A q \in resps : q.call = c => Stands(q) = Stands(r)
  BY <1>1, <1>2, <1>3 DEF WaitOK
<1>5. \A q \in resps : q.call = c => q = r
  BY <1>1, <1>4 DEF Once
<1>6. r.result # "lost" => \A m \in late : m.call # c
  BY <1>1, <1>3, <1>5 DEF LateOK, Rejection, Over
<1> QED  BY <1>1, <1>4, <1>5, <1>6 DEF Once

\* Every result but the last one: the rest is still waited for.
LEMMA ConsumeDisciplined ==
    ASSUME SessionInv, NEW c \in Calls, NEW st \in Waiting, NEW r, Awaited(c, st, r),
           r.result # "lost",
           pending' = [pending EXCEPT ![c] = @ \ {Op(r)}], resps' = resps \ {r},
           UNCHANGED <<req, stage, todo, code, tstate, ended, reqs, phase, late>>
    PROVE  Disciplined(c)'
<1>1. /\ stage[c] \in Waiting /\ r \in resps /\ r.call = c /\ Op(r) \in pending[c]
      /\ Disciplined(c)
  BY DEF Awaited, SessionInv
<1>2. Stands(r) = Op(r)
  BY <1>1, PendingFacts
<1>3. pending'[c] = pending[c] \ {Op(r)}
  BY DEF SessionInv, TypeInv, TypeOK, CallsTypeOK
<1> USE <1>1 DEF Disciplined
<1>4. Once(c)'
  BY DEF Once
<1>5. WaitOK(c)'
  BY <1>2, <1>3 DEF WaitOK, Once
<1>6. CommitOK(c)'
  BY DEF CommitOK
<1>7. LateOK(c)'
  BY DEF LateOK, Rejection, Decided
<1>8. EndOK(c)'
  BY DEF EndOK, Silent, Unanswerable, Parts
<1>9. PhaseOK(c)'
  BY DEF PhaseOK, Decided, Parts
<1> QED  BY <1>4, <1>5, <1>6, <1>7, <1>8, <1>9

\* The last result: the operations of the next step are sent.
LEMMA ProceedDisciplined ==
    ASSUME SessionInv, NEW c \in Calls, NEW st \in Waiting, NEW r, Awaited(c, st, r),
           pending[c] = {Op(r)}, r.result # "lost", resps' = resps \ {r},
           NEW next \in Waiting, NEW ops \in SUBSET Operations, Proceed(c, next, ops),
           \A op \in ops : op[1] \notin {"commit", "abort"},
           \/ tstate[c] = "inProgress"
           \/ {st, next} \subseteq {"finding", "populating"} /\ \A op \in ops : op[1] \in PlainReads,
           UNCHANGED <<req, todo, code, tstate, ended, phase, late>>
    PROVE  Disciplined(c)'
<1> USE DEF Disciplined
<1>1. /\ stage[c] = st /\ r \in resps /\ r.call = c /\ Disciplined(c)
      /\ stage[c] \notin Over \cup {"new"} /\ next \notin Over \cup {"new"}
      /\ stage'[c] = next /\ pending'[c] = ops /\ reqs' = reqs \cup Sent(c, ops)
  BY DEF Awaited, SessionInv, Waiting, Proceed, TypeInv, TypeOK, CallsTypeOK
<1>2. /\ todo'[c] = {}
      /\ \A q \in resps' : q.call # c
      /\ \A m \in late' : m.call # c
  BY LastSilent
<1>3. \A m \in reqs' : m.call = c => m \in Sent(c, ops)
  BY <1>1, LastSilent
<1>4. \A m \in Sent(c, ops) :
        /\ m \in Messages /\ m.call = c /\ Op(m) \in ops
        /\ m.verb = Op(m)[1] /\ m.verb \notin {"commit", "abort"}
        /\ Stands(m) = Op(m)
  BY SentFacts DEF Stands
<1>5. \A m, n \in Sent(c, ops) : Op(m) = Op(n) => m = n
  <2>1. ASSUME NEW m \in Sent(c, ops)
        PROVE  m = [call |-> c, verb |-> Op(m)[1], kind |-> Op(m)[2], start |-> FALSE]
    BY DEF Sent, Message, Op
  <2> QED  BY <2>1
<1>6. Once(c)'
  BY <1>2, <1>3, <1>4, <1>5 DEF Once
<1>7. WaitOK(c)'
  BY <1>1, <1>2, <1>3, <1>4 DEF WaitOK
<1>8. CommitOK(c)'
  BY <1>1, <1>2, <1>3, <1>4 DEF CommitOK, Over
<1>9. EndOK(c)'
  BY <1>1, <1>2 DEF EndOK, Over, WaitOK
<1>10. PhaseOK(c)'
  BY <1>1, <1>2, <1>3, <1>4 DEF PhaseOK, Decided, Over, WaitOK, Parts
<1>11. LateOK(c)'
  BY <1>2 DEF LateOK
<1> QED  BY <1>6, <1>7, <1>8, <1>9, <1>10, <1>11

\* A rejection: from then on the session is aborted, or about to be.
LEMMA AbandonDisciplined ==
    ASSUME SessionInv, NEW c \in Calls, stage[c] \in Waiting,
           NEW status, status # "OK", Abandon(c, status), resps' \subseteq resps,
           UNCHANGED <<req, todo, phase, late>>
    PROVE  Disciplined(c)'
<1> USE DEF Disciplined
<1>1. Disciplined(c) /\ stage[c] \in Stages \ (Over \cup {"new"})
  BY DEF SessionInv, Waiting
<1>2. code'[c] = status
  BY DEF Abandon, SessionInv, TypeInv, TypeOK, CallsTypeOK
<1>3. phase[c] # "committed" /\ \A m \in late : m.call = c => m.verb # "commit"
  BY <1>1 DEF PhaseOK, WaitOK, LateOK, Decided, Over
<1>4. CASE tstate[c] = "starting"
  <2>1. /\ stage'[c] = "answered" /\ tstate'[c] = "aborted" /\ ended'[c] = TRUE
        /\ reqs' = reqs
    BY <1>4 DEF Abandon, SessionInv, TypeInv, TypeOK, CallsTypeOK
  <2>2. Once(c)' /\ WaitOK(c)'
    BY <1>1, <2>1 DEF Once, WaitOK, Over
  <2>3. CommitOK(c)'
    BY <1>1, <2>1 DEF CommitOK, Over
  <2>4. EndOK(c)' /\ PhaseOK(c)'
    BY <1>1, <1>2, <1>3, <2>1 DEF EndOK, PhaseOK, CommitOK, Over
  <2>5. LateOK(c)'
    BY <1>1, <1>2, <1>3, <2>1 DEF LateOK, Rejection
  <2> QED  BY <2>2, <2>3, <2>4, <2>5
<1>5. CASE tstate[c] = "inProgress"
  <2> DEFINE m == Message(c, <<"abort", "outer">>, FALSE)
  <2>1. /\ stage'[c] = "aborting" /\ tstate'[c] = "inProgress" /\ ended'[c] = ended[c]
        /\ reqs' = reqs \cup {m}
    BY <1>5 DEF Abandon, SessionInv, TypeInv, TypeOK, CallsTypeOK, Sent
  <2>2. m.call = c /\ m.verb = "abort" /\ Stands(m) = <<"abort", "outer">>
    BY DEF Message, Stands, Op, ChildKinds, Kinds
  <2>3. <<"abort", "outer">> \notin pending[c]
    <3>1. <<"abort", "outer">> = Op(m)
      BY DEF Message, Op
    <3> QED  BY <1>1, <2>2, <3>1, PendingFacts DEF Waiting
  <2>4. Once(c)'
    <3>1. /\ \A n \in reqs : n.call = c => Stands(n) # Stands(m)
          /\ \A r \in resps : r.call = c => Stands(r) # Stands(m)
          /\ Stands(m) \notin todo[c]
      BY <1>1, <2>2, <2>3 DEF WaitOK
    <3> QED  BY <1>1, <2>1, <3>1 DEF Once
  <2>5. WaitOK(c)' /\ CommitOK(c)'
    BY <1>1, <2>1, <2>2 DEF WaitOK, CommitOK, Over
  <2>6. EndOK(c)' /\ PhaseOK(c)'
    BY <1>1, <1>2, <1>3, <2>1 DEF EndOK, PhaseOK, CommitOK, Over
  <2>7. LateOK(c)'
    BY <1>1, <1>3, <2>1 DEF LateOK, Rejection
  <2> QED  BY <2>4, <2>5, <2>6, <2>7
<1> QED  BY <1>4, <1>5 DEF Abandon

\* The commit: nothing else of the call is left.
LEMMA CommitDisciplined ==
    ASSUME SessionInv, NEW c \in Calls,
           NEW st \in {"aggregating", "populating", "deleting", "linking"},
           NEW r, Awaited(c, st, r), pending[c] = {Op(r)}, resps' = resps \ {r},
           r.result # "lost", Commit(c), UNCHANGED <<req, todo, phase, late>>
    PROVE  Disciplined(c)'
<1> USE DEF Disciplined
<1>0. st \in Waiting
  BY DEF Waiting, Stages, Over
<1>1. /\ stage[c] = st /\ r \in resps /\ r.call = c /\ Disciplined(c)
      /\ stage[c] \notin Over \cup {"new"}
  BY <1>0 DEF Awaited, SessionInv, Waiting
<1>2. /\ todo'[c] = {} /\ \A q \in resps' : q.call # c
      /\ \A m \in reqs : m.call # c
      /\ \A m \in late' : m.call # c
  BY <1>0, LastSilent
<1>5. LateOK(c)'
  BY <1>2 DEF LateOK
<1>3. CASE tstate[c] = "starting"
  <2>1. /\ stage'[c] = "answered" /\ tstate'[c] = "committed" /\ ended'[c] = TRUE
        /\ code'[c] = "OK" /\ reqs' = reqs
    BY <1>3 DEF Commit, SessionInv, TypeInv, TypeOK, CallsTypeOK
  <2>2. Once(c)' /\ WaitOK(c)' /\ CommitOK(c)'
    BY <1>2, <2>1 DEF Once, WaitOK, CommitOK, Over
  <2>3. EndOK(c)'
    BY <1>2, <2>1 DEF EndOK, Silent
  <2>4. PhaseOK(c)'
    BY <1>1, <1>2, <1>3, <2>1 DEF PhaseOK, Decided, Parts
  <2> QED  BY <1>5, <2>2, <2>3, <2>4
<1>4. CASE tstate[c] # "starting"
  <2> DEFINE m == Message(c, <<"commit", "outer">>, FALSE)
  <2>1. /\ stage'[c] = "committing" /\ tstate'[c] = tstate[c] /\ ended'[c] = ended[c]
        /\ code'[c] = code[c] /\ reqs' = reqs \cup {m}
    BY <1>4 DEF Commit, SessionInv, TypeInv, TypeOK, CallsTypeOK, Sent
  <2>2. m.call = c /\ Op(m) = <<"commit", "outer">>
    BY DEF Message, Op
  <2>3. tstate[c] = "inProgress"
    BY <1>1, <1>4 DEF WaitOK
  <2>4. Once(c)'
    BY <1>2, <2>1 DEF Once
  <2>5. WaitOK(c)' /\ CommitOK(c)'
    BY <1>2, <2>1, <2>2, <2>3 DEF WaitOK, CommitOK, Over
  <2>6. EndOK(c)' /\ PhaseOK(c)'
    BY <1>1, <1>2, <2>1, <2>3 DEF EndOK, PhaseOK, Decided
  <2> QED  BY <1>5, <2>4, <2>5, <2>6
<1> QED  BY <1>3, <1>4

\* A write or a read that the server has executed started the transaction.
LEMMA AwaitedStarted ==
    ASSUME SessionInv, NEW c \in Calls, NEW st, NEW r, Awaited(c, st, r),
           \/ st \in {"account", "linking", "aggregating", "deleting"}
           \/ st \in {"saving", "setting", "listing"} /\ r.result = "ok"
    PROVE  tstate[c] = "inProgress"
<1>1. /\ stage[c] = st /\ r \in resps /\ r.call = c /\ Op(r) \in pending[c]
      /\ WaitOK(c) /\ PhaseOK(c) /\ StageOps(c)
  BY DEF Awaited, SessionInv, Disciplined, TypeInv, OperationsOK
<1>2. tstate[c] \in {"starting", "inProgress"}
  BY <1>1 DEF WaitOK, Over
<1>3. st \in {"saving", "setting", "listing"} => r.verb \notin PlainReads
  BY <1>1 DEF StageOps, ChildSaves, AccountList, PlainReads, Op
<1> QED  BY <1>1, <1>2, <1>3 DEF PhaseOK

-----------------------------------------------------------------------------
(* Create.                                                                 *)

LEMMA CreateBeginDisciplined ==
    ASSUME SessionInv, NEW c \in Calls, CreateBegin(c) \/ SeedBegin(c), UNCHANGED serverVars
    PROVE  Disciplined(c)'
<1> USE DEF Disciplined
<1>1. /\ stage'[c] = "saving" /\ tstate'[c] = "starting"
      /\ todo'[c] = ChildSaves /\ pending'[c] = ChildSaves
      /\ UNCHANGED <<req, code, ended, reqs, resps, phase, late>>
  BY DEF CreateBegin, SeedBegin, SessionInv, TypeInv, TypeOK, CallsTypeOK, serverVars
<1>2. Disciplined(c) /\ Silent(c) /\ tstate[c] = "none" /\ \A m \in late : m.call # c
  BY NewGaveNothingUp DEF SessionInv, EndOK, CreateBegin, SeedBegin
<1>3. Once(c)' /\ WaitOK(c)' /\ CommitOK(c)' /\ LateOK(c)'
  BY <1>1, <1>2 DEF Once, WaitOK, CommitOK, LateOK, Silent
<1>4. EndOK(c)' /\ PhaseOK(c)'
  BY <1>1, <1>2 DEF EndOK, PhaseOK, Decided, Silent
<1> QED  BY <1>3, <1>4

LEMMA ChildSavedDisciplined ==
    ASSUME SessionInv, NEW c \in Calls, ChildSaved(c) \/ SeedSaved(c), UNCHANGED serverVars
    PROVE  Disciplined(c)'
<1>1. PICK r \in resps :
        /\ Awaited(c, "saving", r) /\ r.result = "ok"
        /\ resps' = resps \ {r}
        /\ IF pending[c] = {Op(r)}
           THEN Proceed(c, "account", AccountSave)
           ELSE /\ pending' = [pending EXCEPT ![c] = @ \ {Op(r)}]
                /\ UNCHANGED <<stage, reqs>>
  BY DEF ChildSaved, SeedSaved
<1>2. UNCHANGED <<req, todo, code, tstate, ended, phase, late>>
  BY DEF ChildSaved, SeedSaved, serverVars
<1>3. {"saving", "account"} \subseteq Waiting
  BY DEF Waiting, Stages, Over
<1>4. CASE pending[c] = {Op(r)}
  <2>1. tstate[c] = "inProgress"
    BY <1>1, AwaitedStarted
  <2>2. \A op \in AccountSave : op[1] \notin {"commit", "abort"}
    BY DEF AccountSave
  <2> QED  BY <1>1, <1>2, <1>3, <1>4, <2>1, <2>2, OperationSets, ProceedDisciplined
<1>5. CASE pending[c] # {Op(r)}
  BY <1>1, <1>2, <1>3, <1>5, ConsumeDisciplined
<1> QED  BY <1>4, <1>5

LEMMA ChildDuplicateDisciplined ==
    ASSUME SessionInv, NEW c \in Calls, ChildDuplicate(c), UNCHANGED serverVars
    PROVE  Disciplined(c)'
<1> USE DEF Disciplined
<1>1. PICK r \in resps :
        /\ r.call = c /\ Op(r) \in ChildSaves /\ r.result # "lost"
        /\ resps' = resps \ {r}
        /\ reqs' = reqs \cup IF tstate[c] = "inProgress"
                            THEN Sent(c, {<<"abort", r.kind>>}) ELSE {}
  BY DEF ChildDuplicate
<1>2. /\ UNCHANGED <<req, stage, todo, pending, code, tstate, ended, phase, late>>
      /\ Disciplined(c)
  BY DEF ChildDuplicate, serverVars, SessionInv
<1> DEFINE m == Message(c, <<"abort", r.kind>>, FALSE)
<1>3. r.verb = "insert" /\ r.kind \in ChildKinds /\ Op(r) = <<"insert", r.kind>>
      /\ Stands(r) = Op(r)
  BY <1>1 DEF ChildSaves, Op, Stands
<1>4. m.call = c /\ m.verb = "abort" /\ Stands(m) = Stands(r)
  BY <1>3 DEF Message, Stands
<1>5. reqs' = reqs \/ (tstate[c] = "inProgress" /\ reqs' = reqs \cup {m})
  BY <1>1 DEF Sent
<1>6. stage[c] # "committing" /\ stage[c] # "new" /\ tstate[c] # "committed"
  BY <1>1, <1>2, <1>3 DEF CommitOK, EndOK, Silent
<1>7. /\ \A n \in reqs : n.call = c => Stands(n) # Stands(r)
      /\ \A q \in resps' : q.call = c => Stands(q) # Stands(r)
      /\ Stands(r) \notin todo[c]
  BY <1>1, <1>2 DEF Once
<1> HIDE DEF m
<1>8. Once(c)'
  <2>1. /\ todo' = todo /\ resps' \subseteq resps
        /\ \A n \in reqs' : n.call = c => n \in reqs \/ (n = m /\ Stands(n) = Stands(r))
    BY <1>1, <1>2, <1>4, <1>5
  <2>2. Once(c)
    BY <1>2
  <2>3. \A n \in reqs' : n.call = c => Stands(n) \notin todo'[c]
    BY <1>7, <2>1, <2>2 DEF Once
  <2>4. \A n, q \in reqs' : n.call = c /\ q.call = c /\ Stands(n) = Stands(q) => n = q
    BY <1>7, <2>1, <2>2 DEF Once
  <2>5. \A n \in reqs', q \in resps' : n.call = c /\ q.call = c => Stands(n) # Stands(q)
    BY <1>7, <2>1, <2>2 DEF Once
  <2> QED  BY <2>1, <2>2, <2>3, <2>4, <2>5 DEF Once
<1>9. WaitOK(c)'
  BY <1>1, <1>2, <1>4, <1>5 DEF WaitOK
<1>10. CommitOK(c)'
  BY <1>1, <1>2, <1>4, <1>5, <1>6 DEF CommitOK
<1>11. EndOK(c)'
  BY <1>1, <1>2, <1>6 DEF EndOK, Silent, Unanswerable, Parts
<1>12. PhaseOK(c)'
  BY <1>1, <1>2, <1>5 DEF PhaseOK, Decided, Parts
<1>13. LateOK(c)'
  BY <1>1, <1>2 DEF LateOK, Rejection, Decided
<1> QED  BY <1>8, <1>9, <1>10, <1>11, <1>12, <1>13

LEMMA ChildAbortDoneDisciplined ==
    ASSUME SessionInv, NEW c \in Calls, req[c].op = "create", ChildAbortDone(c),
           UNCHANGED serverVars
    PROVE  Disciplined(c)'
<1> USE DEF Disciplined
<1>1. PICK r \in resps :
        /\ r.call = c /\ r.verb = "abort" /\ r.kind \in ChildKinds
        /\ resps' = resps \ Dropped(c, r)
  BY DEF ChildAbortDone
<1>2. /\ UNCHANGED <<req, todo, pending, reqs, phase, late>> /\ Disciplined(c)
      /\ tstate'[c] = "aborted" /\ ended'[c] = TRUE /\ resps' \subseteq resps
      /\ IF stage[c] = "saving"
         THEN stage'[c] = "answered" /\ code'[c] = "ALREADY_EXISTS"
         ELSE stage'[c] = stage[c] /\ code'[c] = code[c]
  BY <1>1 DEF ChildAbortDone, serverVars, SessionInv, TypeInv, TypeOK, CallsTypeOK
<1>3. stage[c] \notin {"committing", "new", "crashed"} /\ tstate[c] # "committed"
  BY <1>1, <1>2 DEF CommitOK, EndOK, Silent, Op
<1>4. stage[c] \in Over \cup {"saving"}
  <2>1. SUFFICES ASSUME stage[c] \notin Over \cup {"new"} PROVE stage[c] = "saving"
    BY <1>3
  <2>2. Stands(r) = <<"insert", r.kind>> /\ Stands(r) \in pending[c]
    BY <1>1, <1>2, <2>1 DEF WaitOK, Stands
  <2>3. StageOps(c) /\ stage[c] \in Stages
    BY DEF SessionInv, TypeInv, TypeOK, CallsTypeOK, OperationsOK
  <2> QED  BY <1>1, <2>1, <2>2, <2>3 DEF StageOps, Stages, Over, AccountSave,
              ParentLinks, AccountRead, AccountFind, Populates, AccountList,
              Deletes, ChildKinds
<1>5. Once(c)'
  BY <1>2 DEF Once
<1>6. WaitOK(c)'
  BY <1>2, <1>4 DEF WaitOK, Over
<1>7. CommitOK(c)'
  BY <1>2, <1>3 DEF CommitOK
<1>8. EndOK(c)'
  BY <1>2, <1>3, <1>4 DEF EndOK, Over, Unanswerable, Silent
<1>9. PhaseOK(c)'
  BY <1>2, <1>3 DEF PhaseOK, Decided, EndOK, CommitOK
<1>10. LateOK(c)'
  <2>1. ~Decided(c)
    BY <1>3 DEF Decided
  <2>2. stage'[c] \in {"aborting", "stuck"} \/ (stage'[c] = "answered" /\ code'[c] # "OK")
    BY <1>2, <1>3, <1>4 DEF EndOK, Over
  <2> QED  BY <1>2, <2>1, <2>2 DEF LateOK, Rejection
<1> QED  BY <1>5, <1>6, <1>7, <1>8, <1>9, <1>10

\* The catches that abandon the transaction.
LEMMA RejectedDisciplined ==
    ASSUME SessionInv, NEW c \in Calls, UNCHANGED serverVars,
           \/ ChildRejected(c) \/ StepRejected(c) \/ PartRejected(c) \/ NotFound(c)
           \/ ListRejected(c) \/ DeleteRejected(c) \/ SeedRejected(c)
    PROVE  Disciplined(c)'
<1>1. resps' \subseteq resps /\ UNCHANGED <<req, todo, phase, late>>
  BY DEF ChildRejected, StepRejected, PartRejected, NotFound, ListRejected,
         DeleteRejected, SeedRejected, serverVars
<1>2. \E status \in {"FAILED_PRECONDITION", "ABORTED", "INTERNAL", "UNAVAILABLE", "LOGGED"} :
        Abandon(c, status)
  BY DEF ChildRejected, StepRejected, PartRejected, NotFound, ListRejected, DeleteRejected,
         SeedRejected
<1>3. stage[c] \in Waiting
  BY DEF ChildRejected, StepRejected, PartRejected, NotFound, ListRejected,
         DeleteRejected, SeedRejected, Awaited, Waiting, Stages, Over
<1> QED  BY <1>1, <1>2, <1>3, AbandonDisciplined

\* A step that awaits one operation only: its result is the last one.
LEMMA OnlyOneAwaited ==
    ASSUME SessionInv, NEW c \in Calls, NEW r,
           NEW st \in {"account", "aggregating", "listing", "finding"}, Awaited(c, st, r)
    PROVE  pending[c] = {Op(r)}
<1>1. StageOps(c) /\ stage[c] = st /\ Op(r) \in pending[c]
  BY DEF SessionInv, TypeInv, OperationsOK, Awaited
<1> QED  BY <1>1 DEF StageOps, AccountSave, AccountRead, AccountList, AccountFind

LEMMA AccountSavedDisciplined ==
    ASSUME SessionInv, NEW c \in Calls, AccountSaved(c), UNCHANGED serverVars
    PROVE  Disciplined(c)'
<1>1. PICK r \in resps :
        Awaited(c, "account", r) /\ r.result = "ok" /\ resps' = resps \ {r}
  BY DEF AccountSaved
<1>2. /\ Proceed(c, "linking", ParentLinks)
      /\ UNCHANGED <<req, todo, code, tstate, ended, phase, late>>
  BY DEF AccountSaved, serverVars
<1>3. {"account", "linking"} \subseteq Waiting
  BY DEF Waiting, Stages, Over
<1>4. pending[c] = {Op(r)} /\ tstate[c] = "inProgress"
  BY <1>1, OnlyOneAwaited, AwaitedStarted
<1>5. \A op \in ParentLinks : op[1] \notin {"commit", "abort"}
  BY DEF ParentLinks
<1> QED  BY <1>1, <1>2, <1>3, <1>4, <1>5, OperationSets, ProceedDisciplined

LEMMA ParentLinkedDisciplined ==
    ASSUME SessionInv, NEW c \in Calls, ParentLinked(c), UNCHANGED serverVars
    PROVE  Disciplined(c)'
<1>1. PICK r \in resps :
        /\ Awaited(c, "linking", r) /\ r.result # "lost"
        /\ resps' = resps \ {r}
        /\ IF pending[c] = {Op(r)}
           THEN Proceed(c, "aggregating", AccountRead)
           ELSE /\ pending' = [pending EXCEPT ![c] = @ \ {Op(r)}]
                /\ UNCHANGED <<stage, reqs>>
  BY DEF ParentLinked, Fulfilled
<1>2. UNCHANGED <<req, todo, code, tstate, ended, phase, late>>
  BY DEF ParentLinked, serverVars
<1>3. {"linking", "aggregating"} \subseteq Waiting
  BY DEF Waiting, Stages, Over
<1>4. CASE pending[c] = {Op(r)}
  <2>1. tstate[c] = "inProgress"
    BY <1>1, AwaitedStarted
  <2>2. \A op \in AccountRead : op[1] \notin {"commit", "abort"}
    BY DEF AccountRead
  <2> QED  BY <1>1, <1>2, <1>3, <1>4, <2>1, <2>2, OperationSets, ProceedDisciplined
<1>5. CASE pending[c] # {Op(r)}
  BY <1>1, <1>2, <1>3, <1>5, ConsumeDisciplined
<1> QED  BY <1>4, <1>5

LEMMA AggregatedDisciplined ==
    ASSUME SessionInv, NEW c \in Calls, Aggregated(c), UNCHANGED serverVars
    PROVE  Disciplined(c)'
<1>1. PICK r \in resps :
        /\ Awaited(c, "aggregating", r) /\ r.result = "ok" /\ resps' = resps \ {r}
        /\ Abandon(c, "NOT_FOUND") \/ Commit(c)
  BY DEF Aggregated
<1>2. UNCHANGED <<req, todo, phase, late>>
  BY DEF Aggregated, serverVars
<1>3. stage[c] \in Waiting /\ resps' \subseteq resps
  BY <1>1 DEF Awaited, Waiting, Stages, Over
<1>4. pending[c] = {Op(r)}
  BY <1>1, OnlyOneAwaited
<1> QED  BY <1>1, <1>2, <1>3, <1>4, AbandonDisciplined, CommitDisciplined

LEMMA SeedLinkedDisciplined ==
    ASSUME SessionInv, NEW c \in Calls, SeedLinked(c), UNCHANGED serverVars
    PROVE  Disciplined(c)'
<1>1. PICK r \in resps :
         /\ Awaited(c, "linking", r) /\ r.result # "lost"
         /\ resps' = resps \ {r}
         /\ pending' = [pending EXCEPT ![c] = @ \ {Op(r)}]
         /\ IF pending[c] = {Op(r)} THEN Commit(c)
            ELSE UNCHANGED <<stage, code, tstate, ended, reqs>>
  BY DEF SeedLinked, Fulfilled
<1>2. UNCHANGED <<req, todo, phase, late>>
  BY DEF SeedLinked, serverVars
<1>3. "linking" \in Waiting
  BY DEF Waiting, Stages, Over
<1>4. CASE pending[c] = {Op(r)}
  BY <1>1, <1>2, <1>4, CommitDisciplined
<1>5. CASE pending[c] # {Op(r)}
  BY <1>1, <1>2, <1>3, <1>5, ConsumeDisciplined
<1> QED  BY <1>4, <1>5

-----------------------------------------------------------------------------
(* UpdateOne.                                                              *)

LEMMA UpdateBeginDisciplined ==
    ASSUME SessionInv, NEW c \in Calls, UpdateBegin(c), UNCHANGED serverVars
    PROVE  Disciplined(c)'
<1> USE DEF Disciplined
<1>1. /\ tstate'[c] = "starting"
      /\ UNCHANGED <<req, ended, resps, phase, late>>
  BY DEF UpdateBegin, SessionInv, TypeInv, TypeOK, CallsTypeOK, serverVars
<1>2. Disciplined(c) /\ Silent(c) /\ tstate[c] = "none" /\ phase[c] = "none"
  BY DEF SessionInv, EndOK, PhaseOK, UpdateBegin
<1>6. LateOK(c)'
  BY <1>1, NewGaveNothingUp DEF UpdateBegin, LateOK
<1>3. CASE /\ stage' = [stage EXCEPT ![c] = "answered"]
           /\ code' = [code EXCEPT ![c] = "INVALID_ARGUMENT"]
           /\ UNCHANGED <<todo, pending, reqs>>
  <2>1. stage'[c] = "answered" /\ code'[c] = "INVALID_ARGUMENT"
    BY <1>3 DEF SessionInv, TypeInv, TypeOK, CallsTypeOK
  <2>2. Once(c)' /\ WaitOK(c)' /\ CommitOK(c)'
    BY <1>1, <1>2, <1>3, <2>1 DEF Once, WaitOK, CommitOK, Silent, Over
  <2>3. EndOK(c)' /\ PhaseOK(c)'
    BY <1>1, <1>2, <1>3, <2>1 DEF EndOK, PhaseOK, Decided, Silent
  <2> QED  BY <1>6, <2>2, <2>3
<1>4. CASE /\ stage' = [stage EXCEPT ![c] = "setting"]
           /\ todo' = [todo EXCEPT ![c] = PartUpdates(c)]
           /\ pending' = [pending EXCEPT ![c] = PartUpdates(c)]
           /\ UNCHANGED <<code, reqs>>
  <2>1. /\ stage'[c] = "setting" /\ todo'[c] = PartUpdates(c)
        /\ pending'[c] = PartUpdates(c)
    BY <1>4 DEF SessionInv, TypeInv, TypeOK, CallsTypeOK
  <2>2. Once(c)' /\ WaitOK(c)' /\ CommitOK(c)'
    BY <1>1, <1>2, <1>4, <2>1, OperationSets DEF Once, WaitOK, CommitOK, Silent
  <2>3. EndOK(c)' /\ PhaseOK(c)'
    BY <1>1, <1>2, <1>4, <2>1 DEF EndOK, PhaseOK, Decided, Silent
  <2> QED  BY <1>6, <2>2, <2>3
<1>5. CASE /\ Parts(c) = {} /\ Proceed(c, "finding", AccountFind)
           /\ UNCHANGED <<todo, code>>
  <2> DEFINE m == Message(c, <<"find", "account">>, FALSE)
  <2>1. /\ stage'[c] = "finding" /\ pending'[c] = AccountFind /\ todo'[c] = {}
        /\ reqs' = reqs \cup {m}
    BY <1>2, <1>5 DEF Proceed, Sent, AccountFind, Silent, SessionInv, TypeInv, TypeOK,
                      CallsTypeOK
  <2>2. m.call = c /\ m.verb = "find" /\ Stands(m) = <<"find", "account">>
    BY DEF Message, Stands, Op
  <2>3. Once(c)' /\ WaitOK(c)' /\ CommitOK(c)'
    BY <1>1, <1>2, <2>1, <2>2 DEF Once, WaitOK, CommitOK, Silent, AccountFind
  <2>4. EndOK(c)' /\ PhaseOK(c)'
    BY <1>1, <1>2, <1>5, <2>1, <2>2
       DEF EndOK, PhaseOK, Decided, Silent, Parts, PlainReads, UpdateBegin
  <2> QED  BY <1>6, <2>3, <2>4
<1> QED  BY <1>3, <1>4, <1>5 DEF UpdateBegin

LEMMA PartSetDisciplined ==
    ASSUME SessionInv, NEW c \in Calls, PartSet(c), UNCHANGED serverVars
    PROVE  Disciplined(c)'
<1>1. PICK r \in resps :
         /\ Awaited(c, "setting", r) /\ r.result \in Fulfilled
         /\ resps' = resps \ {r}
         /\ missed' = [missed EXCEPT ![c] = @ \/ r.result # "ok"]
         /\ IF pending[c] # {Op(r)}
            THEN /\ pending' = [pending EXCEPT ![c] = @ \ {Op(r)}]
                 /\ UNCHANGED <<stage, code, tstate, ended, reqs>>
            ELSE IF missed'[c]
            THEN Abandon(c, "RESOURCE_EXHAUSTED") /\ UNCHANGED pending
            ELSE /\ Proceed(c, "finding", AccountFind)
                 /\ UNCHANGED <<code, tstate, ended>>
  BY DEF PartSet
<1>2. UNCHANGED <<req, todo, phase, late>>
  BY DEF PartSet, serverVars
<1>3. /\ {"setting", "finding"} \subseteq Waiting /\ stage[c] \in Waiting
      /\ r.result # "lost"
  BY <1>1 DEF Awaited, Waiting, Stages, Over, Fulfilled
<1>4. CASE pending[c] # {Op(r)}
  BY <1>1, <1>2, <1>3, <1>4, ConsumeDisciplined
<1>5. CASE pending[c] = {Op(r)} /\ missed'[c]
  BY <1>1, <1>2, <1>3, <1>5, AbandonDisciplined
<1>6. CASE pending[c] = {Op(r)} /\ ~missed'[c]
  <2>1. r.result = "ok"
    BY <1>1, <1>6 DEF SessionInv, TypeInv, TypeOK, CallsTypeOK
  <2>2. tstate[c] = "inProgress"
    BY <1>1, <2>1, AwaitedStarted
  <2>3. \A op \in AccountFind : op[1] \notin {"commit", "abort"}
    BY DEF AccountFind
  <2> QED  BY <1>1, <1>2, <1>3, <1>6, <2>2, <2>3, OperationSets, ProceedDisciplined
<1> QED  BY <1>4, <1>5, <1>6

LEMMA FoundDisciplined ==
    ASSUME SessionInv, NEW c \in Calls, Found(c), UNCHANGED serverVars
    PROVE  Disciplined(c)'
<1>1. PICK r \in resps :
        Awaited(c, "finding", r) /\ r.result = "ok" /\ resps' = resps \ {r}
  BY DEF Found
<1>2. /\ Proceed(c, "populating", Populates)
      /\ UNCHANGED <<req, todo, code, tstate, ended, phase, late>>
  BY DEF Found, serverVars
<1>3. {"finding", "populating"} \subseteq Waiting
  BY DEF Waiting, Stages, Over
<1>4. pending[c] = {Op(r)}
  BY <1>1, OnlyOneAwaited
<1>5. \A op \in Populates : op[1] \notin {"commit", "abort"} /\ op[1] \in PlainReads
  BY DEF Populates, PlainReads
<1> QED  BY <1>1, <1>2, <1>3, <1>4, <1>5, OperationSets, ProceedDisciplined

LEMMA PopulatedDisciplined ==
    ASSUME SessionInv, NEW c \in Calls, Populated(c), UNCHANGED serverVars
    PROVE  Disciplined(c)'
<1>1. PICK r \in resps :
         /\ Awaited(c, "populating", r) /\ r.result = "ok"
         /\ resps' = resps \ {r}
         /\ pending' = [pending EXCEPT ![c] = @ \ {Op(r)}]
         /\ IF pending[c] = {Op(r)} THEN Commit(c)
            ELSE UNCHANGED <<stage, code, tstate, ended, reqs>>
  BY DEF Populated
<1>2. UNCHANGED <<req, todo, phase, late>>
  BY DEF Populated, serverVars
<1>3. "populating" \in Waiting
  BY DEF Waiting, Stages, Over
<1>4. CASE pending[c] = {Op(r)}
  BY <1>1, <1>2, <1>4, CommitDisciplined
<1>5. CASE pending[c] # {Op(r)}
  BY <1>1, <1>2, <1>3, <1>5, ConsumeDisciplined
<1> QED  BY <1>4, <1>5

-----------------------------------------------------------------------------
(* DeleteOne, and what is refused before a session is opened.              *)

LEMMA DeleteBeginDisciplined ==
    ASSUME SessionInv, NEW c \in Calls, DeleteBegin(c), UNCHANGED serverVars
    PROVE  Disciplined(c)'
<1> USE DEF Disciplined
<1>1. /\ stage'[c] = "listing" /\ tstate'[c] = "starting"
      /\ todo'[c] = AccountList /\ pending'[c] = AccountList
      /\ UNCHANGED <<req, code, ended, reqs, resps, phase, late>>
  BY DEF DeleteBegin, SessionInv, TypeInv, TypeOK, CallsTypeOK, serverVars
<1>2. Disciplined(c) /\ Silent(c) /\ tstate[c] = "none" /\ \A m \in late : m.call # c
  BY NewGaveNothingUp DEF SessionInv, EndOK, DeleteBegin
<1>3. Once(c)' /\ WaitOK(c)' /\ CommitOK(c)' /\ LateOK(c)'
  BY <1>1, <1>2 DEF Once, WaitOK, CommitOK, LateOK, Silent
<1>4. EndOK(c)' /\ PhaseOK(c)'
  BY <1>1, <1>2 DEF EndOK, PhaseOK, Decided, Silent
<1> QED  BY <1>3, <1>4

LEMMA ListedDisciplined ==
    ASSUME SessionInv, NEW c \in Calls, Listed(c), UNCHANGED serverVars
    PROVE  Disciplined(c)'
<1>1. PICK r \in resps :
        Awaited(c, "listing", r) /\ r.result = "ok" /\ resps' = resps \ {r}
  BY DEF Listed
<1>2. /\ Proceed(c, "deleting", Deletes)
      /\ UNCHANGED <<req, todo, code, tstate, ended, phase, late>>
  BY DEF Listed, serverVars
<1>3. {"listing", "deleting"} \subseteq Waiting
  BY DEF Waiting, Stages, Over
<1>4. pending[c] = {Op(r)} /\ tstate[c] = "inProgress"
  BY <1>1, OnlyOneAwaited, AwaitedStarted
<1>5. \A op \in Deletes : op[1] \notin {"commit", "abort"}
  BY DEF Deletes
<1> QED  BY <1>1, <1>2, <1>3, <1>4, <1>5, OperationSets, ProceedDisciplined

LEMMA DeletedDisciplined ==
    ASSUME SessionInv, NEW c \in Calls, Deleted(c), UNCHANGED serverVars
    PROVE  Disciplined(c)'
<1>1. PICK r \in resps :
         /\ Awaited(c, "deleting", r) /\ r.result # "lost"
         /\ resps' = resps \ {r}
         /\ pending' = [pending EXCEPT ![c] = @ \ {Op(r)}]
         /\ IF pending[c] # {Op(r)}
            THEN UNCHANGED <<stage, code, tstate, ended, reqs>>
            ELSE Abandon(c, "RESOURCE_EXHAUSTED") \/ Commit(c)
  BY DEF Deleted, Fulfilled
<1>2. UNCHANGED <<req, todo, phase, late>>
  BY DEF Deleted, serverVars
<1>3. "deleting" \in Waiting /\ stage[c] \in Waiting /\ resps' \subseteq resps
  BY <1>1 DEF Awaited, Waiting, Stages, Over
<1>4. CASE pending[c] = {Op(r)}
  BY <1>1, <1>2, <1>3, <1>4, AbandonDisciplined, CommitDisciplined
<1>5. CASE pending[c] # {Op(r)}
  BY <1>1, <1>2, <1>3, <1>5, ConsumeDisciplined
<1> QED  BY <1>4, <1>5

LEMMA RefusedDisciplined ==
    ASSUME SessionInv, NEW c \in Calls, NotConnected(c) \/ DeleteInvalid(c),
           UNCHANGED serverVars
    PROVE  Disciplined(c)'
<1> USE DEF Disciplined
<1>1. PICK status \in {"UNAVAILABLE", "UNKNOWN", "INVALID_ARGUMENT"} :
        stage[c] = "new" /\ Refuse(c, status)
  BY DEF NotConnected, DeleteInvalid
<1>2. /\ stage'[c] = "answered" /\ code'[c] # "OK"
      /\ UNCHANGED <<req, todo, pending, tstate, ended, reqs, resps, phase, late>>
  BY <1>1 DEF Refuse, SessionInv, TypeInv, TypeOK, CallsTypeOK, serverVars
<1>3. Disciplined(c) /\ Silent(c) /\ tstate[c] = "none" /\ \A m \in late : m.call # c
  BY <1>1, NewGaveNothingUp DEF SessionInv, EndOK
<1>4. Once(c)' /\ WaitOK(c)' /\ CommitOK(c)' /\ LateOK(c)'
  BY <1>2, <1>3 DEF Once, WaitOK, CommitOK, LateOK, Silent, Over
<1>5. EndOK(c)' /\ PhaseOK(c)'
  BY <1>2, <1>3 DEF EndOK, PhaseOK, Decided, Silent
<1> QED  BY <1>4, <1>5

LEMMA OmittedDisciplined ==
    ASSUME SessionInv, NEW c \in Calls, UNCHANGED serverVars,
           UpdateThrows(c) \/ UpdateUnasked(c) \/ DeleteThrows(c)
    PROVE  Disciplined(c)'
<1> USE DEF Disciplined
<1>1. /\ UNCHANGED <<req, todo, pending, reqs, resps, phase, late>>
      /\ stage[c] = "new"
      /\ \/ /\ stage'[c] = "stuck" /\ tstate'[c] \in {tstate[c], "starting"}
            /\ UNCHANGED <<code, ended>> /\ Unanswerable(c)'
         \/ /\ stage'[c] = "answered" /\ code'[c] = "INTERNAL"
            /\ tstate'[c] = "aborted" /\ ended'[c] = TRUE
  BY OmittedFacts DEF SessionInv, TypeInv, TypeOK, CallsTypeOK, serverVars, Unanswerable, Parts
<1>2. /\ Disciplined(c) /\ Silent(c) /\ tstate[c] = "none" /\ phase[c] = "none"
      /\ \A m \in late : m.call # c
  BY <1>1, NewGaveNothingUp DEF SessionInv, EndOK, PhaseOK
<1>3. Once(c)' /\ WaitOK(c)' /\ CommitOK(c)' /\ LateOK(c)'
  BY <1>1, <1>2 DEF Once, WaitOK, CommitOK, LateOK, Silent, Over
<1>4. EndOK(c)'
  BY <1>1, <1>2 DEF EndOK, Silent
<1>5. PhaseOK(c)'
  BY <1>1, <1>2 DEF PhaseOK, Decided, Silent
<1> QED  BY <1>3, <1>4, <1>5

-----------------------------------------------------------------------------
(* The session.                                                            *)

LEMMA AbortDoneDisciplined ==
    ASSUME SessionInv, NEW c \in Calls, AbortDone(c), UNCHANGED serverVars
    PROVE  Disciplined(c)'
<1> USE DEF Disciplined
<1>1. /\ stage[c] = "aborting" /\ stage'[c] \in {"stuck", "answered"}
      /\ stage'[c] = "stuck" => tstate[c] = "aborted"
      /\ tstate'[c] = "aborted" /\ ended'[c] = TRUE /\ resps' \subseteq resps
      /\ UNCHANGED <<req, todo, pending, code, reqs, phase, late>>
  BY DEF AbortDone, SessionInv, TypeInv, TypeOK, CallsTypeOK, serverVars
<1>2. Disciplined(c)
  BY DEF SessionInv
<1>3. Once(c)' /\ WaitOK(c)' /\ CommitOK(c)'
  BY <1>1, <1>2 DEF Once, WaitOK, CommitOK, Over
<1>4. EndOK(c)' /\ PhaseOK(c)'
  BY <1>1, <1>2 DEF EndOK, PhaseOK, Decided, Unanswerable
<1>5. LateOK(c)'
  BY <1>1, <1>2 DEF LateOK, Rejection, Decided, EndOK
<1> QED  BY <1>3, <1>4, <1>5

\* The result of a commit is all that is left of a call.
LEMMA CommitSeen ==
    ASSUME SessionInv, NEW c \in Calls, stage[c] = "committing",
           NEW r \in resps, r.call = c, resps' = resps \ {r}, UNCHANGED <<todo, reqs>>
    PROVE  Silent(c)' /\ (r.result # "lost" => \A m \in late : m.call # c)
<1>1. Once(c) /\ CommitOK(c) /\ LateOK(c)
  BY DEF SessionInv, Disciplined
<1>2. \A m : Op(m) = <<"commit", "outer">> => Stands(m) = <<"commit", "outer">>
  BY DEF Stands, Op
<1>3. /\ \A m \in reqs : m.call # c
      /\ \A q \in resps : q.call = c => q = r
  BY <1>1, <1>2 DEF Once, CommitOK
<1>4. r.result # "lost" => \A m \in late : m.call # c
  BY <1>1, <1>3 DEF LateOK, Rejection
<1> QED  BY <1>1, <1>3, <1>4 DEF Silent, CommitOK

LEMMA CommittedDisciplined ==
    ASSUME SessionInv, NEW c \in Calls, Committed(c) \/ CommitFailed(c),
           UNCHANGED serverVars
    PROVE  Disciplined(c)'
<1> USE DEF Disciplined
<1>1. PICK r \in resps :
        /\ r.call = c /\ r.verb = "commit" /\ resps' = resps \ {r}
        /\ Committed(c) => r.result = "ok"
        /\ Committed(c) \/ CommitFailed(c)
  BY DEF Committed, CommitFailed, Rejected
<1>2. /\ stage[c] = "committing" /\ tstate'[c] = "committed"
      /\ UNCHANGED <<req, todo, pending, reqs, phase, late>>
      /\ \/ stage'[c] = "stuck" /\ code'[c] = code[c]
         \/ stage'[c] = "answered" /\ code'[c] = "OK" /\ ended'[c] = TRUE
            /\ r.result = "ok"
  BY <1>1 DEF Committed, CommitFailed, SessionInv, TypeInv, TypeOK, CallsTypeOK, serverVars
<1>3. Disciplined(c) /\ Silent(c)' /\ (r.result # "lost" => \A m \in late : m.call # c)
  BY <1>1, <1>2, CommitSeen DEF SessionInv
<1>4. Once(c)' /\ WaitOK(c)' /\ CommitOK(c)'
  BY <1>2, <1>3 DEF Once, WaitOK, CommitOK, Silent, Over
<1>5. EndOK(c)' /\ PhaseOK(c)'
  BY <1>1, <1>2, <1>3 DEF EndOK, PhaseOK, Decided, Silent, Unanswerable
<1>6. LateOK(c)'
  BY <1>1, <1>2, <1>3 DEF LateOK, Rejection, Decided
<1> QED  BY <1>4, <1>5, <1>6

LEMMA DispatchDisciplined ==
    ASSUME SessionInv, NEW c \in Calls, Dispatch(c), UNCHANGED serverVars
    PROVE  Disciplined(c)'
<1> USE DEF Disciplined
<1>1. PICK op \in todo[c] :
         /\ todo' = [todo EXCEPT ![c] = @ \ {op}]
         /\ IF Settles(c, op) # ""
            THEN /\ resps' = resps \cup
                        Settled(Reply(Message(c, op, FALSE), Settles(c, op), NoDocs))
                 /\ UNCHANGED <<reqs, tstate>>
            ELSE /\ reqs' = reqs \cup {Message(c, op, tstate[c] = "starting")}
                 /\ tstate' = [tstate EXCEPT ![c] = "inProgress"]
                 /\ UNCHANGED resps
  BY DEF Dispatch
<1>2. /\ UNCHANGED <<req, stage, pending, code, ended, phase, late>> /\ Disciplined(c)
      /\ todo'[c] = todo[c] \ {op}
  BY <1>1 DEF Dispatch, serverVars, SessionInv, TypeInv, TypeOK, CallsTypeOK
<1>3. /\ op \in ChildSaves \cup ({"update"} \X ChildKinds) \cup AccountList
      /\ op[1] \notin {"commit", "abort"} \cup PlainReads /\ op = <<op[1], op[2]>>
  <2>1. op \in ChildSaves \cup ({"update"} \X ChildKinds) \cup AccountList
    BY <1>2 DEF Once
  <2> QED  BY <2>1 DEF ChildSaves, AccountList, PlainReads
<1>4. /\ \A n \in reqs : n.call = c => Stands(n) # op
      /\ \A q \in resps : q.call = c => Stands(q) # op
      /\ todo[c] # {} /\ op \notin todo'[c]
  BY <1>2 DEF Once
<1>5. /\ stage[c] \notin {"committing", "new", "crashed"} /\ tstate[c] # "committed"
      /\ stage[c] \notin Over => op \in pending[c]
      /\ phase[c] # "committed"
      /\ \A q \in resps : q.call = c => q.verb # "commit"
  BY <1>2, <1>4 DEF CommitOK, EndOK, Silent, WaitOK, PhaseOK, Decided
<1>8. /\ \A m \in late : m.call = c => Rejection(m) /\ m.verb # "commit"
      /\ \A m \in late : m.call = c /\ tstate[c] \in {"none", "starting"} => m.verb \in PlainReads
  BY <1>2, <1>5 DEF LateOK, Decided
<1>6. CASE Settles(c, op) # ""
  <2> DEFINE r == Reply(Message(c, op, FALSE), Settles(c, op), NoDocs)
  <2>1. /\ resps' \subseteq resps \cup {r} /\ UNCHANGED <<reqs, tstate>>
    BY <1>1, <1>6, SettledFacts
  <2>2. r.call = c /\ r.verb = op[1] /\ r.result # "ok" /\ Stands(r) = op
    BY <1>3 DEF Reply, Message, Stands, Op, Settles
  <2> HIDE DEF r
  <2>3. Once(c)'
    BY <1>2, <1>4, <2>1, <2>2 DEF Once
  <2>4. WaitOK(c)'
    BY <1>2, <1>5, <2>1, <2>2 DEF WaitOK
  <2>5. CommitOK(c)'
    BY <1>2, <1>3, <1>5, <2>1, <2>2 DEF CommitOK
  <2>6. EndOK(c)'
    BY <1>2, <1>5, <2>1 DEF EndOK, Silent, Unanswerable, Parts
  <2>7. PhaseOK(c)'
    BY <1>2, <1>3, <1>5, <2>1, <2>2 DEF PhaseOK, Parts
  <2>8. LateOK(c)'
    <3>1. resps \subseteq resps'
      BY <1>1, <1>6
    <3> QED  BY <1>2, <1>8, <2>1, <3>1 DEF LateOK, Rejection
  <2> QED  BY <2>3, <2>4, <2>5, <2>6, <2>7, <2>8
<1>7. CASE Settles(c, op) = ""
  <2> DEFINE m == Message(c, op, tstate[c] = "starting")
  <2>1. /\ reqs' = reqs \cup {m} /\ tstate'[c] = "inProgress" /\ UNCHANGED resps
    BY <1>1, <1>7 DEF SessionInv, TypeInv, TypeOK, CallsTypeOK
  <2>2. m.call = c /\ m.verb = op[1] /\ Stands(m) = op
    BY <1>3 DEF Message, Stands, Op
  <2> HIDE DEF m
  <2>3. ~ended[c]
    BY <1>7 DEF Settles
  <2>4. stage[c] \notin {"answered", "stuck"} /\ tstate[c] # "aborted"
    <3>1. tstate[c] \in TStates /\ todo[c] # {}
      BY <1>1 DEF SessionInv, TypeInv, TypeOK, CallsTypeOK
    <3> QED  BY <1>2, <1>4, <1>5, <2>3, <3>1 DEF EndOK, Silent, TStates
  <2>5. Once(c)'
    BY <1>2, <1>4, <2>1, <2>2 DEF Once
  <2>6. WaitOK(c)'
    BY <1>2, <1>5, <2>1, <2>2 DEF WaitOK
  <2>7. CommitOK(c)'
    BY <1>2, <1>3, <1>5, <2>1, <2>2 DEF CommitOK
  <2>8. EndOK(c)'
    BY <1>2, <1>5, <2>1, <2>4 DEF EndOK
  <2>9. PhaseOK(c)'
    BY <1>2, <1>5, <2>1, <2>2, <2>4 DEF PhaseOK
  <2>10. LateOK(c)'
    BY <1>2, <1>8, <2>1 DEF LateOK, Rejection
  <2> QED  BY <2>5, <2>6, <2>7, <2>8, <2>9, <2>10
<1> QED  BY <1>6, <1>7

\* Every step of a handler, for its own call.
LEMMA HandleDisciplined ==
    ASSUME SessionInv, NEW c \in Calls, Handle(c), UNCHANGED serverVars
    PROVE  Disciplined(c)'
<1>1. CASE Create(c)
  BY <1>1, CreateBeginDisciplined, ChildSavedDisciplined, ChildDuplicateDisciplined,
     ChildAbortDoneDisciplined, RejectedDisciplined, AccountSavedDisciplined,
     ParentLinkedDisciplined, AggregatedDisciplined DEF Create
<1>2. CASE UpdateOne(c)
  BY <1>2, OmittedDisciplined, UpdateBeginDisciplined, PartSetDisciplined, RejectedDisciplined,
     FoundDisciplined, PopulatedDisciplined DEF UpdateOne
<1>3. CASE DeleteOne(c)
  BY <1>3, OmittedDisciplined, RefusedDisciplined, DeleteBeginDisciplined, ListedDisciplined,
     RejectedDisciplined, DeletedDisciplined DEF DeleteOne
<1>4. CASE SeedAccount(c)
  BY <1>4, CreateBeginDisciplined, ChildSavedDisciplined, AccountSavedDisciplined,
     SeedLinkedDisciplined, RejectedDisciplined DEF SeedAccount
<1> QED  BY <1>1, <1>2, <1>3, <1>4, RefusedDisciplined, DispatchDisciplined,
            AbortDoneDisciplined, CommittedDisciplined DEF Handle

\* No step of a handler touches another call.
LEMMA HandleAlone ==
    ASSUME SessionInv, NEW c \in Calls, NEW d \in Calls \ {c}, Handle(c),
           UNCHANGED serverVars
    PROVE  Untouched(d)
<1> USE DEF Untouched, SessionInv, TypeInv, TypeOK, CallsTypeOK, serverVars
<1>1. \A op, start : Message(c, op, start).call = c
  BY DEF Message
<1>2. ASSUME NEW ops, NEW m \in Sent(c, ops)
      PROVE  m.call = c
  <2>1. PICK op \in ops : m = Message(c, op, FALSE)
    BY DEF Sent
  <2> QED  BY <1>1, <2>1
<1>3. ASSUME NEW status, Abandon(c, status)
      PROVE  /\ stage'[d] = stage[d] /\ code'[d] = code[d]
             /\ tstate'[d] = tstate[d] /\ ended'[d] = ended[d]
             /\ \A m \in reqs' : m.call = d => m \in reqs
  BY <1>2, <1>3 DEF Abandon
<1>4. ASSUME Commit(c)
      PROVE  /\ stage'[d] = stage[d] /\ code'[d] = code[d]
             /\ tstate'[d] = tstate[d] /\ ended'[d] = ended[d]
             /\ \A m \in reqs' : m.call = d => m \in reqs
  BY <1>2, <1>4 DEF Commit
<1>5. ASSUME NEW next, NEW ops, Proceed(c, next, ops)
      PROVE  /\ stage'[d] = stage[d] /\ pending'[d] = pending[d]
             /\ \A m \in reqs' : m.call = d => m \in reqs
  BY <1>2, <1>5 DEF Proceed
<1>15. ASSUME NEW r, r.call = c, resps' \in {resps \ {r}, resps \ Dropped(c, r)}
       PROVE  \A q : q.call = d => (q \in resps' <=> q \in resps)
  BY <1>15 DEF Dropped
<1>6. CASE CreateBegin(c) \/ SeedBegin(c) \/ UpdateBegin(c) \/ DeleteBegin(c)
  BY <1>5, <1>6 DEF CreateBegin, SeedBegin, UpdateBegin, DeleteBegin
<1>7. CASE \/ ChildSaved(c) \/ SeedSaved(c) \/ AccountSaved(c) \/ ParentLinked(c)
           \/ Found(c) \/ Listed(c)
  BY <1>5, <1>7 DEF ChildSaved, SeedSaved, AccountSaved, ParentLinked, Found, Listed, Awaited
<1>8. CASE ChildDuplicate(c) \/ ChildAbortDone(c)
  <2>1. CASE ChildDuplicate(c)
    <3>1. UNCHANGED <<req, stage, todo, pending, code, tstate, ended>>
      BY <2>1 DEF ChildDuplicate
    <3>2. \A q : q.call = d => (q \in resps' <=> q \in resps)
      BY <2>1 DEF ChildDuplicate
    <3>3. \A m \in reqs' : m.call = d => m \in reqs
      BY <1>2, <2>1 DEF ChildDuplicate
    <3> QED  BY <3>1, <3>2, <3>3
  <2>2. CASE ChildAbortDone(c)
    <3>1. UNCHANGED <<req, todo, pending, reqs>>
      BY <2>2 DEF ChildAbortDone
    <3>2. \A q : q.call = d => (q \in resps' <=> q \in resps)
      BY <1>15, <2>2 DEF ChildAbortDone
    <3>3. /\ stage'[d] = stage[d] /\ code'[d] = code[d]
          /\ tstate'[d] = tstate[d] /\ ended'[d] = ended[d]
      BY <2>2 DEF ChildAbortDone
    <3> QED  BY <3>1, <3>2, <3>3
  <2> QED  BY <1>8, <2>1, <2>2
<1>9. CASE \/ ChildRejected(c) \/ StepRejected(c) \/ PartRejected(c) \/ NotFound(c)
           \/ ListRejected(c) \/ DeleteRejected(c) \/ SeedRejected(c)
  <2>1. \E status : Abandon(c, status)
    BY <1>9 DEF ChildRejected, StepRejected, PartRejected, NotFound, ListRejected,
                DeleteRejected, SeedRejected
  <2>2. \E r : r.call = c /\ resps' \in {resps \ {r}, resps \ Dropped(c, r)}
    BY <1>9 DEF ChildRejected, StepRejected, PartRejected, NotFound, ListRejected,
                DeleteRejected, SeedRejected, Awaited
  <2>3. UNCHANGED <<req, todo, pending>>
    BY <1>9 DEF ChildRejected, StepRejected, PartRejected, NotFound, ListRejected,
                DeleteRejected, SeedRejected
  <2> QED  BY <1>3, <1>15, <2>1, <2>2, <2>3
<1>10. CASE Aggregated(c) \/ Populated(c) \/ Deleted(c) \/ SeedLinked(c)
  <2>1. \/ \E status : Abandon(c, status)
        \/ Commit(c)
        \/ UNCHANGED <<stage, code, tstate, ended, reqs>>
    BY <1>10 DEF Aggregated, Populated, Deleted, SeedLinked
  <2>2. \E r : r.call = c /\ resps' \in {resps \ {r}, resps \ Dropped(c, r)}
    BY <1>10 DEF Aggregated, Populated, Deleted, SeedLinked, Awaited
  <2>3. UNCHANGED <<req, todo>> /\ pending'[d] = pending[d]
    BY <1>10 DEF Aggregated, Populated, Deleted, SeedLinked
  <2> QED  BY <1>3, <1>4, <1>15, <2>1, <2>2, <2>3
<1>11. CASE PartSet(c)
  BY <1>3, <1>5, <1>11 DEF PartSet, Awaited
<1>12. CASE NotConnected(c) \/ DeleteInvalid(c)
  BY <1>12 DEF NotConnected, DeleteInvalid, Refuse
<1>16. CASE UpdateThrows(c) \/ UpdateUnasked(c) \/ DeleteThrows(c)
  BY <1>16, OmittedFacts
<1>13. CASE Dispatch(c)
  <2>1. PICK op \in todo[c] :
          /\ todo' = [todo EXCEPT ![c] = @ \ {op}]
          /\ \/ /\ resps' = resps \cup
                      Settled(Reply(Message(c, op, FALSE), Settles(c, op), NoDocs))
                /\ UNCHANGED <<reqs, tstate>>
             \/ /\ reqs' = reqs \cup {Message(c, op, tstate[c] = "starting")}
                /\ tstate' = [tstate EXCEPT ![c] = "inProgress"]
                /\ UNCHANGED resps
    BY <1>13 DEF Dispatch
  <2>2. UNCHANGED <<req, stage, pending, code, ended>>
    BY <1>13 DEF Dispatch
  <2> DEFINE r == Reply(Message(c, op, FALSE), Settles(c, op), NoDocs)
             m == Message(c, op, tstate[c] = "starting")
  <2>3. r.call = c /\ m.call = c
    BY DEF Reply, Message
  <2> HIDE DEF r, m
  <2>4. resps \subseteq resps' /\ resps' \subseteq resps \cup {r}
    <3>1. resps' = resps \cup Settled(r) \/ resps' = resps
      BY <2>1 DEF r
    <3> QED  BY <3>1, SettledFacts
  <2>5. reqs' \subseteq reqs \cup {m}
    BY <2>1 DEF m
  <2>6. todo'[d] = todo[d] /\ tstate'[d] = tstate[d]
    BY <2>1
  <2> QED  BY <2>2, <2>3, <2>4, <2>5, <2>6
<1>14. CASE AbortDone(c) \/ Committed(c) \/ CommitFailed(c)
  BY <1>14 DEF AbortDone, Committed, CommitFailed
<1> QED  BY <1>6, <1>7, <1>8, <1>9, <1>10, <1>11, <1>12, <1>13, <1>14, <1>16
            DEF Handle, Create, SeedAccount, UpdateOne, DeleteOne

-----------------------------------------------------------------------------
(* The server and the faults.                                              *)

\* What settles m takes its place among the results, but for what the call has
\* given up.
LEMMA SettleDisciplined ==
    ASSUME SessionInv, NEW m \in reqs, NEW result, NEW docs,
           reqs' = reqs \ {m}, resps' = resps \cup Settled(Reply(m, result, docs)),
           UNCHANGED <<req, stage, todo, pending, code, tstate, ended>>,
           \/ phase'[m.call] = phase[m.call] /\ result # "ok"
           \/ phase'[m.call] = phase[m.call] /\ m.verb \in PlainReads
           \/ /\ phase'[m.call] \in {"open", "aborted"}
              /\ phase[m.call] # "committed" /\ m.verb \notin PlainReads \cup {"commit"}
           \/ phase'[m.call] = "committed" /\ m.verb = "commit"
    PROVE  LateOK(m.call)' => Disciplined(m.call)'
<1> USE DEF Disciplined
<1> DEFINE c == m.call
           r == Reply(m, result, docs)
<1>1. c \in Calls /\ Disciplined(c)
  BY DEF SessionInv, TypeInv, TypeOK, CallsTypeOK, Messages
<1>2. resps' \subseteq resps \cup {r}
  BY SettledFacts
<1>3. r.call = c /\ r.verb = m.verb /\ Op(r) = Op(m) /\ Stands(r) = Stands(m)
      /\ r.result = result
  BY DEF Reply, Op, Stands
<1> HIDE DEF r
<1>4. /\ \A n \in reqs' : n.call = c => Stands(n) # Stands(r)
      /\ \A q \in resps : q.call = c => Stands(q) # Stands(r)
      /\ Stands(r) \notin todo[c]
  BY <1>1, <1>2, <1>3 DEF Once
<1>5. stage[c] \notin {"new", "crashed"} /\ tstate[c] # "committed"
  BY <1>1 DEF EndOK, Silent
<1>6. Once(c)'
  BY <1>1, <1>2, <1>4 DEF Once
<1>7. WaitOK(c)'
  BY <1>1, <1>2, <1>3 DEF WaitOK
<1>8. CommitOK(c)'
  BY <1>1, <1>2, <1>3 DEF CommitOK
<1>9. EndOK(c)'
  BY <1>1, <1>2, <1>5 DEF EndOK, Silent, Unanswerable, Parts
<1>10. ~(stage[c] = "answered" /\ code[c] = "OK")
  BY <1>1, <1>5 DEF EndOK
<1>11. m.verb = "commit" => stage[c] = "committing" /\ tstate[c] = "inProgress"
  BY <1>1 DEF CommitOK
<1>12. tstate[c] \in {"none", "starting"} => m.verb \in PlainReads
  BY <1>1 DEF PhaseOK
<1>13. "commit" \notin PlainReads
  BY DEF PlainReads
<1>14. PhaseOK(c)'
  BY <1>1, <1>2, <1>3, <1>5, <1>10, <1>11, <1>12, <1>13 DEF PhaseOK, Decided, Parts
<1> QED  BY <1>6, <1>7, <1>8, <1>9, <1>14

\* A message that was given up is executed: only the server notices.
LEMMA LateDisciplined ==
    ASSUME SessionInv, NEW m \in late, late' = late \ {m},
           UNCHANGED <<req, stage, todo, pending, code, tstate, ended, reqs, resps>>,
           \/ phase'[m.call] = phase[m.call]
           \/ /\ phase'[m.call] \in {"open", "aborted"}
              /\ phase[m.call] # "committed" /\ m.verb \notin PlainReads \cup {"commit"}
           \/ phase'[m.call] = "committed" /\ m.verb = "commit"
    PROVE  Disciplined(m.call)'
<1> USE DEF Disciplined
<1> DEFINE c == m.call
<1>1. c \in Calls /\ Disciplined(c)
  BY DEF SessionInv, TypeInv, TypeOK, ServerTypeOK, Messages
<1>2. Once(c)' /\ WaitOK(c)' /\ CommitOK(c)' /\ EndOK(c)'
  BY <1>1 DEF Once, WaitOK, CommitOK, EndOK, Silent, Unanswerable, Parts
<1>3. LateOK(c)'
  BY <1>1 DEF LateOK, Rejection, Decided
<1>4. /\ Rejection(m)
      /\ m.verb = "commit" => Decided(c)
      /\ tstate[c] \in {"none", "starting"} => m.verb \in PlainReads
  BY <1>1 DEF LateOK
<1>5. ~(stage[c] = "answered" /\ code[c] = "OK")
  BY <1>1, <1>4 DEF Rejection, EndOK, Silent
<1>6. "commit" \notin PlainReads
  BY DEF PlainReads
<1>7. PhaseOK(c)'
  BY <1>1, <1>4, <1>5, <1>6 DEF PhaseOK, Decided, Parts
<1> QED  BY <1>2, <1>3, <1>7

\* An answer settles what is awaited, and is lost on what was given up.
LEMMA AnswerDisciplined ==
    ASSUME SessionInv, NEW m \in reqs \cup late, NEW result, NEW docs,
           Answer(m, result, docs),
           \/ phase'[m.call] = phase[m.call] /\ result # "ok"
           \/ phase'[m.call] = phase[m.call] /\ m.verb \in PlainReads
           \/ /\ phase'[m.call] \in {"open", "aborted"}
              /\ phase[m.call] # "committed" /\ m.verb \notin PlainReads \cup {"commit"}
           \/ phase'[m.call] = "committed" /\ m.verb = "commit"
    PROVE  Disciplined(m.call)'
<1>1. UNCHANGED <<req, stage, todo, pending, code, tstate, ended>>
  BY DEF Answer
<1>2. CASE m \in reqs
  <2>1. /\ reqs' = reqs \ {m} /\ late' = late
        /\ resps' = resps \cup Settled(Reply(m, result, docs))
    BY <1>2 DEF Answer
  <2>2. LateOK(m.call)
    BY <1>2 DEF SessionInv, Disciplined, TypeInv, TypeOK, CallsTypeOK, Messages
  <2>3. LateOK(m.call)'
    BY <1>1, <2>1, <2>2 DEF LateOK, Rejection, Decided
  <2> QED  BY <1>1, <1>2, <2>1, <2>3, SettleDisciplined
<1>3. CASE m \notin reqs
  <2>1. late' = late \ {m} /\ UNCHANGED <<reqs, resps>> /\ m \in late
    BY <1>3 DEF Answer
  <2> QED  BY <1>1, <2>1, LateDisciplined
<1> QED  BY <1>2, <1>3

\* An operation of the transaction finds it open, or starts it, and leaves it open
\* or aborted; only a commit commits.
LEMMA ServeDisciplined ==
    ASSUME SessionInv, NEW c \in Calls, Serve(c)
    PROVE  Disciplined(c)'
<1>1. PICK m \in reqs \cup late :
        /\ m.call = c
        /\ \/ ServeWrite(m) \/ ServeRead(m) \/ ServeStranger(m)
           \/ ServeCommit(m) \/ ServeAbort(m) \/ ServePlain(m)
  BY DEF Serve
<1>2. phase \in [Calls -> {"none", "open", "committed", "aborted"}]
  BY DEF SessionInv, TypeInv, TypeOK, ServerTypeOK
<1>3. \A s, keys : Continue(m, s, keys) => phase'[c] = "open"
  BY <1>1, <1>2 DEF Continue
<1>4. \A state : Finish(c, state) => phase'[c] = state
  BY <1>2 DEF Finish
<1>5. Live(m) => phase[c] # "committed"
  BY <1>1 DEF Live
<1>6. CASE ServeWrite(m)
  <2>1. /\ \E result : Answer(m, result, NoDocs)
        /\ phase'[c] \in {"open", "aborted"} /\ phase[c] # "committed"
        /\ m.verb \notin PlainReads \cup {"commit"}
    BY <1>1, <1>3, <1>4, <1>5, <1>6 DEF ServeWrite, Writes, PlainReads
  <2> QED  BY <1>1, <2>1, AnswerDisciplined
<1>7. CASE ServeRead(m)
  <2>1. /\ \E docs : Answer(m, "ok", docs)
        /\ phase'[c] \in {"open", "aborted"} /\ phase[c] # "committed"
        /\ m.verb \notin PlainReads \cup {"commit"}
    BY <1>1, <1>3, <1>5, <1>7 DEF ServeRead, SessionReads, PlainReads
  <2> QED  BY <1>1, <2>1, AnswerDisciplined
<1>8. CASE ServeStranger(m)
  <2>1. Answer(m, "notxn", NoDocs) /\ phase' = phase
    BY <1>8 DEF ServeStranger, txnVars
  <2> QED  BY <1>1, <2>1, AnswerDisciplined
<1>9. CASE ServeCommit(m)
  <2>1. Answer(m, "ok", NoDocs) /\ phase'[c] = "committed" /\ m.verb = "commit"
    BY <1>1, <1>4, <1>9 DEF ServeCommit
  <2> QED  BY <1>1, <2>1, AnswerDisciplined
<1>10. CASE ServeAbort(m)
  <2>1. /\ Answer(m, "ok", NoDocs) /\ phase'[c] = "aborted" /\ phase[c] # "committed"
        /\ m.verb \notin PlainReads \cup {"commit"}
    BY <1>1, <1>4, <1>5, <1>10 DEF ServeAbort, PlainReads
  <2> QED  BY <1>1, <2>1, AnswerDisciplined
<1>11. CASE ServePlain(m)
  <2>1. (\E docs : Answer(m, "ok", docs)) /\ phase' = phase /\ m.verb \in PlainReads
    BY <1>11 DEF ServePlain, txnVars
  <2> QED  BY <1>1, <2>1, AnswerDisciplined
<1> QED  BY <1>1, <1>6, <1>7, <1>8, <1>9, <1>10, <1>11

\* An answer leaves the other calls alone.
LEMMA AnswerAlone ==
    ASSUME SessionInv, NEW m \in reqs \cup late, NEW result, NEW docs,
           Answer(m, result, docs),
           NEW d \in Calls \ {m.call}, phase'[d] = phase[d]
    PROVE  Untouched(d)
<1> DEFINE r == Reply(m, result, docs)
<1>1. /\ reqs' \subseteq reqs /\ late' \subseteq late
      /\ resps \subseteq resps' /\ resps' \subseteq resps \cup {r}
      /\ UNCHANGED <<req, stage, todo, pending, code, tstate, ended>>
  BY SettledFacts DEF Answer
<1>2. r.call # d
  BY DEF Reply
<1> HIDE DEF r
<1> QED  BY <1>1, <1>2 DEF Untouched

LEMMA ServeAlone ==
    ASSUME SessionInv, NEW c \in Calls, NEW d \in Calls \ {c}, Serve(c)
    PROVE  Untouched(d)
<1>1. PICK m \in reqs \cup late :
        /\ m.call = c
        /\ \/ ServeWrite(m) \/ ServeRead(m) \/ ServeStranger(m)
           \/ ServeCommit(m) \/ ServeAbort(m) \/ ServePlain(m)
  BY DEF Serve
<1>2. phase'[d] = phase[d]
  BY <1>1 DEF ServeWrite, ServeRead, ServeStranger, ServeCommit, ServeAbort,
     ServePlain, Continue, Finish, txnVars, SessionInv, TypeInv, TypeOK, ServerTypeOK
<1>3. \E result, docs : Answer(m, result, docs)
  BY <1>1 DEF ServeWrite, ServeRead, ServeStranger, ServeCommit, ServeAbort, ServePlain
<1> QED  BY <1>1, <1>2, <1>3, AnswerAlone

\* A message given up settles as an error the handler sees, if it still looks.
LEMMA GiveUpDisciplined ==
    ASSUME SessionInv, NEW d \in Calls, GiveUp
    PROVE  Disciplined(d)'
<1>1. PICK m \in reqs :
        /\ reqs' = reqs \ {m} /\ late' = late \cup {m}
        /\ resps' = resps \cup Settled(Reply(m, "lost", NoDocs))
  BY DEF GiveUp
<1>2. UNCHANGED <<req, stage, todo, pending, code, tstate, ended, phase>>
  BY DEF GiveUp, txnVars
<1> DEFINE r == Reply(m, "lost", NoDocs)
<1>3. r.call = m.call /\ r.verb = m.verb /\ Stands(r) = Stands(m) /\ r.result = "lost"
  BY DEF Reply, Op, Stands
<1>4. r \in Settled(r) \/ (stage[m.call] \in Over /\ m.verb \notin {"commit", "abort"})
  BY <1>3 DEF Settled, OwnCatch
<1>5. resps \subseteq resps' /\ resps' \subseteq resps \cup {r}
      /\ (r \in Settled(r) => r \in resps')
  BY <1>1, SettledFacts
<1> HIDE DEF r
<1>6. CASE m.call = d
  <2>1. Disciplined(d)
    BY DEF SessionInv
  <2>2. /\ m.verb = "commit" => Decided(d)
        /\ tstate[d] \in {"none", "starting"} => m.verb \in PlainReads
        /\ stage[d] = "committing" => m.verb = "commit"
        /\ ~(stage[d] = "answered" /\ code[d] = "OK")
    BY <1>6, <2>1 DEF Disciplined, CommitOK, Decided, PhaseOK, EndOK, Silent, Op
  <2>3. Rejection(m)'
    BY <1>2, <1>3, <1>4, <1>5, <1>6, <2>2 DEF Rejection, Over
  <2>4. ASSUME NEW n \in late, n.call = d PROVE Rejection(n)'
    BY <1>2, <1>5, <2>1, <2>4 DEF Disciplined, LateOK, Rejection
  <2>5. LateOK(d)'
    BY <1>1, <1>2, <1>6, <2>1, <2>2, <2>3, <2>4 DEF Disciplined, LateOK, Decided
  <2> QED  BY <1>1, <1>2, <1>6, <2>5, SettleDisciplined
<1>7. CASE m.call # d
  <2>1. Untouched(d)
    BY <1>1, <1>2, <1>3, <1>5, <1>7 DEF Untouched
  <2> QED  BY <2>1, UntouchedStays DEF SessionInv
<1> QED  BY <1>6, <1>7

\* What was given up never happens.
LEMMA VanishDisciplined ==
    ASSUME SessionInv, NEW d \in Calls, Vanish
    PROVE  Disciplined(d)'
<1>1. Untouched(d)
  BY DEF Untouched, Vanish, callVars, txnVars
<1> QED  BY <1>1, UntouchedStays DEF SessionInv

\* A crash silences a call: all it has sent is given up.
LEMMA CrashDisciplined ==
    ASSUME SessionInv, NEW c \in Calls, NEW d \in Calls, Crash(c)
    PROVE  Disciplined(d)'
<1> USE DEF Disciplined
<1>1. /\ stage[c] \notin {"new", "answered", "stuck", "crashed"}
      /\ stage'[c] = "crashed" /\ todo'[c] = {}
      /\ reqs' = {m \in reqs : m.call # c}
      /\ late' = late \cup {m \in reqs : m.call = c}
      /\ resps' = {r \in resps : r.call # c}
      /\ \A e \in Calls \ {c} : stage'[e] = stage[e] /\ todo'[e] = todo[e]
      /\ UNCHANGED <<req, pending, code, tstate, ended, phase>>
  BY DEF Crash, txnVars, SessionInv, TypeInv, TypeOK, CallsTypeOK
<1>2. Disciplined(d)
  BY DEF SessionInv
<1>3. CASE d = c
  <2>1. Silent(c)' /\ tstate[c] # "committed"
    BY <1>1, <1>2, <1>3 DEF Silent, EndOK
  <2>2. Once(c)' /\ WaitOK(c)' /\ CommitOK(c)'
    BY <1>1, <2>1 DEF Once, WaitOK, CommitOK, Silent, Over
  <2>3. \A m \in late' : m.call = c =>
          /\ m.verb = "commit" => stage[c] = "committing" /\ tstate[c] = "inProgress"
          /\ tstate[c] \in {"none", "starting"} => m.verb \in PlainReads
    BY <1>1, <1>2, <1>3, <2>1 DEF LateOK, Decided, CommitOK, PhaseOK
  <2>4. LateOK(c)'
    BY <1>1, <2>3 DEF LateOK, Rejection, Decided
  <2>5. EndOK(c)'
    BY <1>1, <1>2, <1>3, <2>1 DEF EndOK
  <2>6. PhaseOK(c)'
    BY <1>1, <1>2, <1>3, <2>1 DEF PhaseOK, Decided, Silent
  <2> QED  BY <1>3, <2>2, <2>4, <2>5, <2>6
<1>4. CASE d # c
  BY <1>1, <1>2, <1>4, UntouchedStays DEF Untouched
<1> QED  BY <1>3, <1>4

\* A lost reply is the error in its place.
LEMMA LoseReplyDisciplined ==
    ASSUME SessionInv, NEW d \in Calls, LoseReply
    PROVE  Disciplined(d)'
<1> USE DEF Disciplined
<1>1. PICK r \in resps :
        /\ resps' = (resps \ {r}) \cup Settled(Reply(r, "lost", NoDocs))
        /\ r.result # "lost"
  BY DEF LoseReply
<1> DEFINE q == Reply(r, "lost", NoDocs)
<1>2. UNCHANGED <<req, stage, todo, pending, code, tstate, ended, reqs, phase, late>>
  BY DEF LoseReply, txnVars
<1>3. q.call = r.call /\ q.verb = r.verb /\ Op(q) = Op(r) /\ Stands(q) = Stands(r)
      /\ q.result # "ok"
  BY DEF Reply, Op, Stands
<1>4. resps' \subseteq (resps \ {r}) \cup {q} /\ resps \ {r} \subseteq resps'
  BY <1>1, SettledFacts
<1> HIDE DEF q
<1>5. Disciplined(d)
  BY DEF SessionInv
<1>6. Once(d)'
  BY <1>2, <1>3, <1>4, <1>5 DEF Once
<1>7. WaitOK(d)'
  BY <1>2, <1>3, <1>4, <1>5 DEF WaitOK
<1>8. CommitOK(d)'
  BY <1>2, <1>3, <1>4, <1>5 DEF CommitOK
<1>9. EndOK(d)'
  BY <1>2, <1>3, <1>4, <1>5 DEF EndOK, Silent, Unanswerable, Parts
<1>10. PhaseOK(d)'
  BY <1>2, <1>3, <1>4, <1>5 DEF PhaseOK, Decided, Parts
<1>11. LateOK(d)'
  BY <1>1, <1>2, <1>4, <1>5 DEF LateOK, Rejection, Decided
<1> QED  BY <1>6, <1>7, <1>8, <1>9, <1>10, <1>11

\* The server reaps an open transaction: never one that is committed, nor one that
\* was not started.
LEMMA ReapDisciplined ==
    ASSUME SessionInv, NEW c \in Calls, NEW d \in Calls, Reap(c)
    PROVE  Disciplined(d)'
<1> USE DEF Disciplined
<1>1. /\ phase[c] = "open" /\ phase' = [phase EXCEPT ![c] = "aborted"]
      /\ UNCHANGED <<req, stage, todo, pending, code, tstate, ended, reqs, resps, late>>
      /\ phase \in [Calls -> {"none", "open", "committed", "aborted"}]
  BY DEF Reap, Finish, callVars, SessionInv, TypeInv, TypeOK, ServerTypeOK
<1>2. Disciplined(d)
  BY DEF SessionInv
<1>3. CASE d = c
  <2>1. Once(d)' /\ WaitOK(d)' /\ CommitOK(d)' /\ LateOK(d)' /\ EndOK(d)'
    BY <1>1, <1>2 DEF Once, WaitOK, CommitOK, LateOK, Rejection, Decided, EndOK, Silent,
                             Unanswerable, Parts
  <2>2. PhaseOK(d)'
    BY <1>1, <1>2, <1>3 DEF PhaseOK, Decided, Parts
  <2> QED  BY <2>1, <2>2
<1>4. CASE d # c
  BY <1>1, <1>2, <1>4, UntouchedStays DEF Untouched
<1> QED  BY <1>3, <1>4

-----------------------------------------------------------------------------
(* The theorems.                                                           *)

LEMMA SessionInit == Init => SessionInv
<1> SUFFICES ASSUME Init PROVE SessionInv
  OBVIOUS
<1>1. ASSUME NEW c \in Calls PROVE Disciplined(c)
  <2>1. /\ stage[c] = "new" /\ todo[c] = {} /\ pending[c] = {} /\ code[c] = ""
        /\ tstate[c] = "none" /\ phase[c] = "none" /\ reqs = {} /\ resps = {}
        /\ late = {}
    BY DEF Init, CallsInit, ServerInit
  <2> QED  BY <2>1 DEF Disciplined, Once, WaitOK, CommitOK, LateOK, EndOK, PhaseOK, Silent
<1> QED  BY <1>1, TypeInit DEF SessionInv

LEMMA SessionNext == SessionInv /\ [Next]_vars => SessionInv'
<1> SUFFICES ASSUME SessionInv, [Next]_vars PROVE SessionInv'
  OBVIOUS
<1>1. TypeInv'
  BY TypeNext DEF SessionInv
<1>2. ASSUME NEW d \in Calls PROVE Disciplined(d)'
  <2>1. Untouched(d) => Disciplined(d)'
    BY UntouchedStays DEF SessionInv
  <2>2. ASSUME NEW c \in Calls, Step(c) PROVE Disciplined(d)'
    BY <2>1, <2>2, HandleDisciplined, HandleAlone DEF Step
  <2>3. ASSUME NEW c \in Calls, Serve(c) PROVE Disciplined(d)'
    BY <2>1, <2>3, ServeDisciplined, ServeAlone
  <2>4. ASSUME NEW c \in Calls, Reap(c) PROVE Disciplined(d)'
    BY <2>4, ReapDisciplined
  <2>5. CASE Fault
    BY <2>5, GiveUpDisciplined, VanishDisciplined, LoseReplyDisciplined,
       CrashDisciplined DEF Fault
  <2>6. CASE Tick \/ UNCHANGED vars
    <3>1. Untouched(d)
      BY <2>6 DEF Tick, vars, callVars, serverVars, Untouched
    <3> QED  BY <2>1, <3>1
  <2> QED  BY <2>2, <2>3, <2>4, <2>5, <2>6 DEF Next, Quiet
<1> QED  BY <1>1, <1>2 DEF SessionInv

\* Every session keeps its discipline, whatever the calls, the requests, the
\* losses and the bounds.
THEOREM SessionCorrect == Spec => []SessionInv
  BY SessionInit, SessionNext, PTL DEF Spec

\* A refused call, or one whose transaction the handler has given up, never has a
\* committed transaction: no late operation and no second abort changes that.
THEOREM RefusedLeavesNothingHolds == Spec => []RefusedLeavesNothing
<1>1. SessionInv => RefusedLeavesNothing
  BY DEF SessionInv, Disciplined, EndOK, PhaseOK, Decided, RefusedLeavesNothing
<1> QED  BY <1>1, SessionCorrect, PTL

\* An OK answer is backed by a committed transaction, or belongs to an UpdateOne
\* without any part, which started none.
THEOREM OkMeansCommittedHolds == Spec => []OkMeansCommitted
<1>1. SessionInv => OkMeansCommitted
  BY DEF SessionInv, Disciplined, PhaseOK, OkMeansCommitted
<1> QED  BY <1>1, SessionCorrect, PTL

\* When a call answers OK, its session has ended and nothing of it is created, on
\* the wire, unanswered or given up.
THEOREM OkIsQuiescentHolds == Spec => []OkIsQuiescent
<1>1. SessionInv => OkIsQuiescent
  BY DEF SessionInv, Disciplined, EndOK, LateOK, Rejection, Silent, OkIsQuiescent
<1> QED  BY <1>1, SessionCorrect, PTL

\* Whatever fails, is lost or overtakes what, a call is left without an answer only
\* if its commit failed, if it is a Create that aborted its session twice, or if it
\* lacks a sub-message that its handler takes for granted.
THEOREM OnlyTheseHangHolds == Spec => []OnlyTheseHang
<1>1. SessionInv => OnlyTheseHang
  BY DEF SessionInv, Disciplined, EndOK, OnlyTheseHang
<1> QED  BY <1>1, SessionCorrect, PTL

\* What the handler of a call that is over, or about to be, can still do.
LEMMA OverActs ==
    ASSUME NEW c \in Calls, Handle(c), stage[c] \in Over
    PROVE  \/ ChildDuplicate(c) \/ ChildAbortDone(c) \/ Dispatch(c)
           \/ AbortDone(c) \/ Committed(c) \/ CommitFailed(c)
<1>1. \A st, r : Awaited(c, st, r) => st \in Over
  BY DEF Awaited
<1>2. ~ParentLinked(c) /\ ~AccountSaved(c) /\ ~ChildSaved(c) /\ ~ChildRejected(c) /\ ~StepRejected(c)
      /\ ~Aggregated(c) /\ ~CreateBegin(c)
  BY <1>1 DEF ParentLinked, AccountSaved, ChildSaved, ChildRejected, StepRejected, Aggregated,
     CreateBegin, Over
<1>3. ~SeedBegin(c) /\ ~SeedSaved(c) /\ ~SeedLinked(c) /\ ~SeedRejected(c)
  BY <1>1 DEF SeedBegin, SeedSaved, SeedLinked, SeedRejected, Over
<1>7. ~UpdateThrows(c) /\ ~UpdateUnasked(c) /\ ~DeleteThrows(c)
  BY OmittedFacts DEF Over
<1>4. ~UpdateBegin(c) /\ ~PartSet(c) /\ ~PartRejected(c) /\ ~Found(c) /\ ~NotFound(c) /\ ~Populated(c)
  BY <1>1 DEF UpdateBegin, PartSet, PartRejected, Found, NotFound, Populated, Over
<1>5. ~DeleteInvalid(c) /\ ~DeleteBegin(c) /\ ~Listed(c) /\ ~ListRejected(c) /\ ~Deleted(c)
      /\ ~DeleteRejected(c)
  BY <1>1 DEF DeleteInvalid, DeleteBegin, Listed, ListRejected, Deleted, DeleteRejected, Over
<1>6. ~NotConnected(c)
  BY DEF NotConnected, Over
<1> QED  BY <1>2, <1>3, <1>4, <1>5, <1>6, <1>7
            DEF Handle, Create, SeedAccount, UpdateOne, DeleteOne

\* A call that is over stays as it is.
LEMMA OverStays ==
    ASSUME SessionInv, NEW c \in Calls, Handle(c), Orphan(c)
    PROVE  stage'[c] = stage[c] /\ code'[c] = code[c]
<1>1. stage[c] \in Over /\ stage[c] \notin {"aborting", "committing", "saving"}
  BY DEF Orphan, Over
<1>2. ChildDuplicate(c) \/ ChildAbortDone(c) \/ Dispatch(c)
  BY <1>1, OverActs DEF AbortDone, Committed, CommitFailed
<1> QED  BY <1>1, <1>2 DEF ChildDuplicate, ChildAbortDone, Dispatch

\* A handler that has answered does not answer again.
LEMMA AnsweredOnce ==
    ASSUME SessionInv, NEW c \in Calls, Handle(c), stage[c] = "answered"
    PROVE  stage'[c] = "answered" /\ code'[c] = code[c]
  BY OverStays DEF Orphan
=============================================================================
