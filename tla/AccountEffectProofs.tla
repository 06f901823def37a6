------------------------ MODULE AccountEffectProofs ------------------------
(***************************************************************************)
(* The data of the transactions, for any number of calls, any requests,    *)
(* any bound on the clock and on the faults: they are isolated, the login  *)
(* is unique, and no step of a handler makes it know what is not so.       *)
(***************************************************************************)
EXTENDS AccountEffects, AccountServiceProofs

-----------------------------------------------------------------------------
(* The index of one store.                                                 *)

\* The credential of a store, and the index entry of a login, by their keys.
LEMMA IndexKeys ==
    /\ \A i \in Ids : CredentialKey(i) \in DocKeys /\ CredentialKey(i) \notin LoginKeys
    /\ \A v \in Values : LoginKey(v) \in LoginKeys
    /\ \A L \in LoginKeys : \E v \in Values : L = LoginKey(v)
    /\ \A v, w \in Values : LoginKey(v) = LoginKey(w) => v = w
    /\ \A i, j : CredentialKey(i) = CredentialKey(j) => i = j
    /\ DocKeys \subseteq Keys /\ LoginKeys \subseteq Keys
  BY DEF CredentialKey, LoginKey, DocKeys, LoginKeys, Keys, Kinds

\* An index entry names a credential that may exist.
LEMMA EntryType ==
    ASSUME NEW s \in Stores, NEW L \in LoginKeys, s[L] # NoDoc
    PROVE  s[L].credential \in Ids /\ s[L] = [credential |-> s[L].credential]
<1>1. s[L] \in LoginEntries
  BY DEF Stores
<1> QED  BY <1>1 DEF LoginEntries

\* A credential owns the entry of its login, other documents own none.
LEMMA LoginsFacts ==
    ASSUME NEW kind, NEW doc
    PROVE  /\ LoginsOf(kind, doc) \subseteq LoginKeys
           /\ kind # "credential" \/ doc = NoDoc => LoginsOf(kind, doc) = {}
           /\ \A v \in Values : LoginKey(v) \in LoginsOf(kind, doc) <=>
                 kind = "credential" /\ doc # NoDoc /\ doc.fields["login"] = v
  BY DEF LoginsOf, LoginKeys, LoginKey

\* The entries that the document at <<kind, id>> owns point to it.
LEMMA OwnedEntries ==
    ASSUME NEW s, IndexOK(s), NEW kind, NEW id \in Ids,
           NEW L \in LoginsOf(kind, s[<<kind, id>>])
    PROVE  kind = "credential" /\ s[L] = [credential |-> id]
<1>1. L \in LoginKeys /\ kind = "credential" /\ s[CredentialKey(id)] # NoDoc
  BY DEF LoginsOf, CredentialKey
<1>2. PICK v \in Values : L = LoginKey(v)
  BY <1>1, IndexKeys
<1>3. s[CredentialKey(id)].fields["login"] = v
  BY <1>1, <1>2, LoginsFacts DEF CredentialKey
<1> QED  BY <1>1, <1>2, <1>3 DEF IndexOK

\* Put changes the keys it touches and no others.
LEMMA PutElsewhere ==
    ASSUME NEW s, IndexOK(s), NEW kind \in Kinds, NEW id \in Ids, NEW doc,
           NEW k \in Keys \ Touched(s, kind, id, doc)
    PROVE  Put(s, kind, id, doc)[k] = s[k]
<1>1. k # <<kind, id>>
  BY DEF Touched
<1>2. CASE k \in LoginsOf(kind, doc)
  <2>1. k \in LoginsOf(kind, s[<<kind, id>>])
    BY <1>2 DEF Touched
  <2>2. s[k] = [credential |-> id]
    BY <2>1, OwnedEntries
  <2> QED  BY <1>1, <1>2, <2>2 DEF Put
<1>3. CASE k \notin LoginsOf(kind, doc)
  <2>1. k \notin LoginsOf(kind, s[<<kind, id>>])
    BY <1>3 DEF Touched
  <2> QED  BY <1>1, <1>3, <2>1 DEF Put
<1> QED  BY <1>2, <1>3

\* Put writes the document, and entries that point to it or to nothing.
LEMMA PutThere ==
    ASSUME NEW s, IndexOK(s), NEW kind \in Kinds, NEW id \in Ids, NEW doc
    PROVE  /\ Put(s, kind, id, doc)[<<kind, id>>] = doc
           /\ \A L \in Touched(s, kind, id, doc) \cap LoginKeys :
                /\ kind = "credential"
                /\ Put(s, kind, id, doc)[L] \in {NoDoc, [credential |-> id]}
                /\ ~Duplicate(s, kind, id, doc) => s[L] \in {NoDoc, [credential |-> id]}
<1>1. <<kind, id>> \in Keys /\ <<kind, id>> \notin LoginKeys
  BY KeysApart DEF Keys, DocKeys
<1>2. Put(s, kind, id, doc)[<<kind, id>>] = doc
  BY <1>1 DEF Put
<1>3. ASSUME NEW L \in Touched(s, kind, id, doc) \cap LoginKeys
      PROVE  /\ kind = "credential"
             /\ Put(s, kind, id, doc)[L] \in {NoDoc, [credential |-> id]}
             /\ ~Duplicate(s, kind, id, doc) => s[L] \in {NoDoc, [credential |-> id]}
  <2>1. L # <<kind, id>> /\ L \in Keys
    BY <1>1 DEF Keys
  <2>2. L \in LoginsOf(kind, doc) \cup LoginsOf(kind, s[<<kind, id>>])
    BY <2>1 DEF Touched
  <2>3. kind = "credential"
    BY <2>2, LoginsFacts
  <2>4. Put(s, kind, id, doc)[L] \in {NoDoc, [credential |-> id]}
    BY <2>1, <2>2 DEF Put
  <2>5. L \in LoginsOf(kind, s[<<kind, id>>]) => s[L] = [credential |-> id]
    BY OwnedEntries
  <2>6. ~Duplicate(s, kind, id, doc) => s[L] \in {NoDoc, [credential |-> id]}
    BY <2>2, <2>5 DEF Duplicate
  <2> QED  BY <2>3, <2>4, <2>6
<1> QED  BY <1>2, <1>3

\* A document key but the written one keeps its content.
LEMMA PutDocs ==
    ASSUME NEW s, NEW kind \in Kinds, NEW id \in Ids, NEW doc, NEW k \in DocKeys
    PROVE  Put(s, kind, id, doc)[k] = IF k = <<kind, id>> THEN doc ELSE s[k]
<1>1. k \in Keys /\ k \notin LoginKeys
  BY KeysApart DEF Keys
<1> QED  BY <1>1, LoginsFacts DEF Put

\* A write that is no duplicate and gives a credential a login keeps the index.
LEMMA PutIndex ==
    ASSUME NEW s \in Stores, IndexOK(s), NEW kind \in Kinds, NEW id \in Ids, NEW doc,
           ~Duplicate(s, kind, id, doc),
           kind = "credential" /\ doc # NoDoc => doc.fields["login"] \in Values
    PROVE  IndexOK(Put(s, kind, id, doc))
<1> DEFINE p == Put(s, kind, id, doc)
           T == Touched(s, kind, id, doc)
<1>1. \A k \in Keys \ T : p[k] = s[k]
  BY PutElsewhere
<1>2. /\ p[<<kind, id>>] = doc
      /\ \A L \in T \cap LoginKeys :
            /\ kind = "credential"
            /\ p[L] \in {NoDoc, [credential |-> id]}
            /\ s[L] \in {NoDoc, [credential |-> id]}
  BY PutThere
<1>3. \A i \in Ids : p[CredentialKey(i)] =
          IF kind = "credential" /\ i = id THEN doc ELSE s[CredentialKey(i)]
  <2> SUFFICES ASSUME NEW i \in Ids
               PROVE  p[CredentialKey(i)] =
                        IF kind = "credential" /\ i = id THEN doc ELSE s[CredentialKey(i)]
    OBVIOUS
  <2>1. CredentialKey(i) \in DocKeys
    BY IndexKeys
  <2>2. CredentialKey(i) = <<kind, id>> <=> kind = "credential" /\ i = id
    BY DEF CredentialKey
  <2>3. p[CredentialKey(i)] =
            IF CredentialKey(i) = <<kind, id>> THEN doc ELSE s[CredentialKey(i)]
    BY <2>1, PutDocs
  <2> QED  BY <2>2, <2>3
<1>4. ASSUME NEW L \in LoginsOf(kind, doc)
      PROVE  p[L] = [credential |-> id]
  <2>1. L \in LoginKeys /\ L \in Keys /\ L # <<kind, id>>
    BY LoginsFacts, KeysApart DEF Keys, DocKeys
  <2> QED  BY <2>1 DEF Put
<1>5. ASSUME NEW L \in LoginsOf(kind, s[<<kind, id>>]), L \notin LoginsOf(kind, doc)
      PROVE  p[L] = NoDoc
  <2>1. L \in LoginKeys /\ L \in Keys /\ L # <<kind, id>>
    BY LoginsFacts, KeysApart DEF Keys, DocKeys
  <2> QED  BY <2>1, <1>5 DEF Put
<1> HIDE DEF p, T
<1>6. ASSUME NEW i \in Ids, p[CredentialKey(i)] # NoDoc
      PROVE  /\ p[CredentialKey(i)].fields["login"] \in Values
             /\ p[LoginKey(p[CredentialKey(i)].fields["login"])] = [credential |-> i]
  <2> DEFINE login == p[CredentialKey(i)].fields["login"]
  <2>1. CASE kind = "credential" /\ i = id
    <3>1. p[CredentialKey(i)] = doc /\ login \in Values
      BY <1>3, <1>6, <2>1
    <3>2. LoginKey(login) \in LoginsOf(kind, doc)
      BY <3>1, <1>6, <2>1, LoginsFacts
    <3> QED  BY <3>1, <3>2, <1>4, <2>1
  <2>2. CASE ~(kind = "credential" /\ i = id)
    <3>1. p[CredentialKey(i)] = s[CredentialKey(i)]
      BY <1>3, <2>2
    <3>2. login \in Values /\ s[LoginKey(login)] = [credential |-> i]
      BY <3>1, <1>6 DEF IndexOK
    <3>3. LoginKey(login) \in LoginKeys /\ LoginKey(login) \in Keys
      BY <3>2, IndexKeys
    <3>4. s[LoginKey(login)] \in LoginEntries \cup {NoDoc} /\ s[LoginKey(login)] \in LoginEntries
      BY <3>2 DEF LoginEntries
    <3>5. NoDoc \notin LoginEntries
      BY StoreAssumption DEF Docs
    <3>6. LoginKey(login) \notin T
      BY <3>2, <3>3, <3>4, <3>5, <1>2, <2>2
    <3> QED  BY <3>1, <3>2, <3>3, <3>6, <1>1
  <2> QED  BY <2>1, <2>2
<1>7. ASSUME NEW v \in Values, p[LoginKey(v)] # NoDoc
      PROVE  /\ p[CredentialKey(p[LoginKey(v)].credential)] # NoDoc
             /\ p[CredentialKey(p[LoginKey(v)].credential)].fields["login"] = v
  <2> DEFINE L == LoginKey(v)
  <2>1. L \in LoginKeys /\ L \in Keys
    BY IndexKeys
  <2>2. CASE L \in LoginsOf(kind, doc)
    <3>1. kind = "credential" /\ doc # NoDoc /\ doc.fields["login"] = v
      BY <2>2, LoginsFacts
    <3>2. p[L].credential = id
      BY <2>2, <1>4
    <3> QED  BY <3>1, <3>2, <1>3
  <2>3. CASE L \notin LoginsOf(kind, doc)
    <3>1. L \notin LoginsOf(kind, s[<<kind, id>>])
      BY <2>3, <1>5, <1>7
    <3>2. L \notin T
      BY <2>1, <2>3, <3>1, KeysApart DEF T, Touched, Keys, DocKeys
    <3>3. p[L] = s[L] /\ s[L] # NoDoc
      BY <3>2, <2>1, <1>1, <1>7
    <3>4. /\ s[L].credential \in Ids
          /\ s[CredentialKey(s[L].credential)] # NoDoc
          /\ s[CredentialKey(s[L].credential)].fields["login"] = v
      BY <3>3, <2>1, EntryType DEF IndexOK
    <3>5. ~(kind = "credential" /\ s[L].credential = id)
      BY <3>1, <3>4, LoginsFacts DEF CredentialKey
    <3> QED  BY <3>3, <3>4, <3>5, <1>3
  <2> QED  BY <2>2, <2>3
<1> QED  BY <1>6, <1>7 DEF IndexOK, p

\* A store into which the keys W of the store v are merged.
Merge(s, v, W) == [k \in Keys |-> IF k \in W THEN v[k] ELSE s[k]]

\* A commit merges what the transaction wrote into a store that has changed
\* elsewhere since: the index of the result is that of its credentials.
LEMMA MergeIndex ==
    ASSUME NEW s \in Stores, NEW v \in Stores, NEW W \in SUBSET Keys, NEW S \in SUBSET Keys,
           IndexOK(s), IndexOK(v), W \cap S = {},
           \A k \in Keys \ (W \cup S) : v[k] = s[k],
           Closed(W, s), Closed(W, v), Closed(S, s), Closed(S, v)
    PROVE  IndexOK(Merge(s, v, W))
<1> DEFINE t == Merge(s, v, W)
<1>1. \A k \in Keys : t[k] = IF k \in W THEN v[k] ELSE s[k]
  BY DEF Merge
<1>2. \A i \in Ids : CredentialKey(i) \in Keys
  BY IndexKeys
<1>3. \A w \in Values : LoginKey(w) \in Keys /\ LoginKey(w) \in LoginKeys
  BY IndexKeys
<1>4. \A i \in Ids : [credential |-> i] # NoDoc
  BY StoreAssumption DEF Docs, LoginEntries
<1> HIDE DEF t
<1>5. ASSUME NEW i \in Ids, t[CredentialKey(i)] # NoDoc
      PROVE  /\ t[CredentialKey(i)].fields["login"] \in Values
             /\ t[LoginKey(t[CredentialKey(i)].fields["login"])] = [credential |-> i]
  <2> DEFINE L == LoginKey(t[CredentialKey(i)].fields["login"])
  <2>1. CASE CredentialKey(i) \in W
    <3>1. /\ t[CredentialKey(i)].fields["login"] \in Values
          /\ v[L] = [credential |-> i]
      BY <1>1, <1>2, <1>5, <2>1 DEF IndexOK
    <3>2. L \in S => CredentialKey(i) \in S
      BY <3>1, <1>3, <1>4 DEF Closed
    <3> QED  BY <3>1, <3>2, <1>1, <1>3, <2>1
  <2>2. CASE CredentialKey(i) \notin W
    <3>1. /\ t[CredentialKey(i)].fields["login"] \in Values
          /\ s[L] = [credential |-> i]
      BY <1>1, <1>2, <1>5, <2>2 DEF IndexOK
    <3>2. L \notin W
      BY <3>1, <1>3, <1>4, <2>2 DEF Closed
    <3> QED  BY <3>1, <3>2, <1>1, <1>3
  <2> QED  BY <2>1, <2>2
<1>6. ASSUME NEW w \in Values, t[LoginKey(w)] # NoDoc
      PROVE  /\ t[CredentialKey(t[LoginKey(w)].credential)] # NoDoc
             /\ t[CredentialKey(t[LoginKey(w)].credential)].fields["login"] = w
  <2> DEFINE L == LoginKey(w)
             K == CredentialKey(t[L].credential)
  <2>1. L \in Keys /\ L \in LoginKeys
    BY <1>3
  <2>2. CASE L \in W
    <3>1. t[L] = v[L] /\ v[L] # NoDoc /\ t[L].credential \in Ids
      BY <1>1, <1>6, <2>1, <2>2, EntryType
    <3>2. v[K] # NoDoc /\ v[K].fields["login"] = w
      BY <3>1 DEF IndexOK
    <3>3. K \in W
      BY <3>1, <2>1, <2>2 DEF Closed
    <3> QED  BY <3>1, <3>2, <3>3, <1>1, <1>2
  <2>3. CASE L \notin W
    <3>1. t[L] = s[L] /\ s[L] # NoDoc /\ t[L].credential \in Ids
      BY <1>1, <1>6, <2>1, <2>3, EntryType
    <3>2. s[K] # NoDoc /\ s[K].fields["login"] = w
      BY <3>1 DEF IndexOK
    <3>3. CASE K \in W
      <4>1. L \notin S
        BY <3>1, <3>3, <2>1 DEF Closed
      <4>2. v[L] = s[L]
        BY <4>1, <2>1, <2>3
      <4>3. v[K] # NoDoc /\ v[K].fields["login"] = w
        BY <4>2, <3>1 DEF IndexOK
      <4> QED  BY <4>3, <3>1, <3>3, <1>1, <1>2
    <3>4. CASE K \notin W
      BY <3>1, <3>2, <3>4, <1>1, <1>2
    <3> QED  BY <3>3, <3>4
  <2> QED  BY <2>2, <2>3
<1> QED  BY <1>5, <1>6 DEF IndexOK, t

-----------------------------------------------------------------------------
(* What a step of the server can do to the data.                           *)

\* The transaction of call c starts, or goes on without writing.
Opens(c) ==
    /\ Active(c) /\ UNCHANGED <<db, stale>>
    /\ phase' = [phase EXCEPT ![c] = "open"]
    /\ view' = [view EXCEPT ![c] = Base(c)]
    /\ wrote' = wrote

\* It writes one document.
WritesOne(m, w) ==
    LET c == m.call
        s == Base(c)
    IN  /\ m \in reqs \cup late /\ m.verb \in Writes /\ Active(c)
        /\ w \in Images(m, s) /\ ~Idle(m, w, s) /\ ~Collides(m, w, s)
        /\ Touched(s, m.kind, w.id, w.doc) \cap (Busy(c) \cup stale[c]) = {}
        /\ UNCHANGED <<db, stale>>
        /\ phase' = [phase EXCEPT ![c] = "open"]
        /\ view' = [view EXCEPT ![c] = Put(s, m.kind, w.id, w.doc)]
        /\ wrote' = [wrote EXCEPT ![c] = @ \cup Touched(s, m.kind, w.id, w.doc)]

Aborts(c) == Active(c) /\ UNCHANGED <<db, stale>> /\ Finish(c, "aborted")

Merges(c) ==
    /\ Active(c) /\ Finish(c, "committed")
    /\ db' = Merge(db, view[c], wrote[c])
    /\ stale' = [d \in Calls |-> IF d # c /\ phase[d] = "open"
                                 THEN stale[d] \cup wrote[c] ELSE stale[d]]

\* A message that finds its transaction finds the base of its call.
LEMMA LiveFacts ==
    ASSUME SessionInv, IsolationInv, NEW m \in reqs \cup late, Live(m)
    PROVE  /\ m.call \in Calls /\ Active(m.call)
           /\ Snapshot(m) = Base(m.call) /\ Stale(m) = stale[m.call]
<1>1. m.call \in Calls
  BY DEF SessionInv, TypeInv, TypeOK, CallsTypeOK, ServerTypeOK, Messages
<1>2. Isolated(m.call)
  BY <1>1 DEF IsolationInv
<1> QED  BY <1>1, <1>2 DEF Live, Active, Base, Snapshot, Stale, Isolated

\* Message m does nothing to the data, or one of four things.
LEMMA ServeShapes ==
    ASSUME SessionInv, IsolationInv, NEW c \in Calls, Serve(c)
    PROVE  \/ UNCHANGED <<db, txnVars>>
           \/ Opens(c) \/ Aborts(c)
           \/ \E m \in reqs \cup late : m.call = c /\ \E w \in Images(m, Base(c)) : WritesOne(m, w)
           \/ \E m \in reqs \cup late : m.call = c /\ m.verb = "commit" /\ Merges(c)
<1>1. PICK m \in reqs \cup late :
        /\ m.call = c
        /\ \/ ServeWrite(m) \/ ServeRead(m) \/ ServeStranger(m)
           \/ ServeCommit(m) \/ ServeAbort(m) \/ ServePlain(m)
  BY DEF Serve
<1>2. wrote \in [Calls -> SUBSET Keys]
  BY DEF SessionInv, TypeInv, TypeOK, ServerTypeOK
<1>3. Live(m) => Active(c) /\ Snapshot(m) = Base(c) /\ Stale(m) = stale[c]
  BY <1>1, LiveFacts
<1>4. ASSUME Live(m), Continue(m, Snapshot(m), {}) PROVE Opens(c)
  BY <1>1, <1>2, <1>3, <1>4 DEF Continue, Opens
<1>5. CASE ServeWrite(m)
  <2>1. Live(m) /\ m.verb \in Writes
    BY <1>5 DEF ServeWrite
  <2>2. CASE Continue(m, Snapshot(m), {})
    BY <1>4, <2>1, <2>2
  <2>3. ASSUME NEW w \in Images(m, Snapshot(m)),
               ~Idle(m, w, Snapshot(m)), ~Conflicts(m, w, Snapshot(m)),
               ~Collides(m, w, Snapshot(m)),
               Continue(m, Put(Snapshot(m), m.kind, w.id, w.doc),
                        Touched(Snapshot(m), m.kind, w.id, w.doc))
        PROVE  WritesOne(m, w)
    BY <1>1, <1>3, <2>1, <2>3 DEF WritesOne, Continue, Conflicts
  <2>4. CASE Finish(c, "aborted") /\ UNCHANGED <<db, stale, faults>>
    BY <1>3, <2>1, <2>4 DEF Aborts
  <2> QED  BY <1>1, <1>3, <1>5, <2>1, <2>2, <2>3, <2>4 DEF ServeWrite
<1>6. CASE ServeRead(m)
  BY <1>4, <1>6 DEF ServeRead
<1>7. CASE ServeStranger(m) \/ ServePlain(m)
  BY <1>7 DEF ServeStranger, ServePlain
<1>8. CASE ServeCommit(m)
  BY <1>1, <1>3, <1>8 DEF ServeCommit, Merges, Merge
<1>9. CASE ServeAbort(m)
  BY <1>1, <1>3, <1>9 DEF ServeAbort, Aborts
<1> QED  BY <1>1, <1>5, <1>6, <1>7, <1>8, <1>9

-----------------------------------------------------------------------------
(* Each of them keeps the transactions isolated and their indexes in order.*)

\* A transaction that takes its snapshot sees the committed store.
LEMMA OpensIsolated ==
    ASSUME SessionInv, IsolationInv, NEW c \in Calls, NEW d \in Calls, Opens(c)
    PROVE  Isolated(d)' /\ Indexed(d)'
<1>1. /\ phase \in [Calls -> {"none", "open", "committed", "aborted"}]
      /\ view \in [Calls -> Stores]
  BY DEF SessionInv, TypeInv, TypeOK, ServerTypeOK
<1>2. Isolated(d) /\ Indexed(d) /\ Isolated(c) /\ Indexed(c) /\ IndexOK(db)
  BY DEF IsolationInv
<1>3. CASE d = c
  <2>1. phase'[d] = "open" /\ view'[d] = Base(c) /\ db' = db /\ stale' = stale
        /\ wrote' = wrote
    BY <1>1, <1>3 DEF Opens
  <2>2. CASE phase[c] = "open"
    BY <1>2, <1>3, <2>1, <2>2 DEF Isolated, Indexed, Base
  <2>3. CASE phase[c] = "none"
    <3>1. Base(c) = db /\ wrote[d] = {} /\ stale[d] = {}
      BY <1>2, <1>3, <2>3 DEF Base, Isolated
    <3> QED  BY <1>2, <2>1, <3>1 DEF Isolated, Indexed, Closed
  <2> QED  BY <2>2, <2>3 DEF Opens, Active
<1>4. CASE d # c
  <2>1. phase'[d] = phase[d] /\ view'[d] = view[d] /\ db' = db /\ stale' = stale
        /\ wrote' = wrote
    BY <1>1, <1>4 DEF Opens
  <2> QED  BY <1>2, <2>1 DEF Isolated, Indexed
<1> QED  BY <1>3, <1>4

\* A transaction that is aborted, by whomever, leaves nothing.
LEMMA AbortsIsolated ==
    ASSUME SessionInv, IsolationInv, NEW c \in Calls, NEW d \in Calls, Aborts(c)
    PROVE  Isolated(d)' /\ Indexed(d)'
<1>1. /\ phase \in [Calls -> {"none", "open", "committed", "aborted"}]
      /\ view \in [Calls -> Stores] /\ wrote \in [Calls -> SUBSET Keys]
  BY DEF SessionInv, TypeInv, TypeOK, ServerTypeOK
<1>2. Isolated(d) /\ Indexed(d)
  BY DEF IsolationInv
<1>3. /\ phase'[c] = "aborted" /\ wrote'[c] = {}
      /\ \A e \in Calls \ {c} : wrote'[e] = wrote[e] /\ phase'[e] = phase[e]
                                /\ view'[e] = view[e]
      /\ db' = db /\ stale' = stale
  BY <1>1 DEF Aborts, Finish
<1>4. CASE d = c
  BY <1>3, <1>4 DEF Isolated, Indexed
<1>5. CASE d # c
  BY <1>2, <1>3, <1>5 DEF Isolated, Indexed
<1> QED  BY <1>4, <1>5

\* The base of a call is a store with an index of its credentials.
LEMMA BaseFacts ==
    ASSUME SessionInv, IsolationInv, NEW c \in Calls, Active(c)
    PROVE  /\ Base(c) \in Stores /\ IndexOK(Base(c))
           /\ \A k \in Keys \ (wrote[c] \cup stale[c]) : Base(c)[k] = db[k]
           /\ Closed(wrote[c], db) /\ Closed(wrote[c], Base(c))
           /\ Closed(stale[c], db) /\ Closed(stale[c], Base(c))
           /\ wrote[c] \cap stale[c] = {}
           /\ wrote[c] \in SUBSET Keys /\ stale[c] \in SUBSET Keys
<1>1. /\ db \in Stores /\ view[c] \in Stores
      /\ wrote[c] \in SUBSET Keys /\ stale[c] \in SUBSET Keys
  BY DEF SessionInv, TypeInv, TypeOK, ServerTypeOK
<1>2. Isolated(c) /\ Indexed(c) /\ IndexOK(db)
  BY DEF IsolationInv
<1>3. CASE phase[c] = "open"
  BY <1>1, <1>2, <1>3 DEF Isolated, Indexed, Base
<1>4. CASE phase[c] = "none"
  <2>1. Base(c) = db /\ wrote[c] = {} /\ stale[c] = {}
    BY <1>2, <1>4 DEF Base, Isolated
  <2> QED  BY <1>1, <1>2, <2>1 DEF Closed
<1> QED  BY <1>3, <1>4 DEF Active

\* What a write puts into the store is a document of its collection, and a
\* credential is always left with a login: a save is validated, an update drops no
\* field.
LEMMA ImageFacts ==
    ASSUME SessionInv, IsolationInv, NEW m \in reqs \cup late, m.verb \in Writes,
           Active(m.call), NEW w \in Images(m, Base(m.call))
    PROVE  /\ m.call \in Calls /\ m.kind \in Kinds /\ w.id \in Ids
           /\ w.doc \in DocsOf(m.kind) \cup {NoDoc}
           /\ m.kind = "credential" /\ w.doc # NoDoc => w.doc.fields["login"] \in Values
<1> DEFINE c == m.call
           s == Base(c)
<1>1. c \in Calls
  BY DEF SessionInv, TypeInv, TypeOK, CallsTypeOK, ServerTypeOK, Messages
<1>2. s \in Stores /\ IndexOK(s)
  BY <1>1, BaseFacts
<1>3. m.kind \in Kinds /\ w.id \in Ids /\ w.doc \in DocsOf(m.kind) \cup {NoDoc}
  BY <1>2, ImagesTyped DEF SessionInv
<1>4. ASSUME m.kind = "credential", w.doc # NoDoc PROVE w.doc.fields["login"] \in Values
  <2>1. "credential" \in ChildKinds /\ "login" \in FieldNames
    BY DEF ChildKinds, Kinds, FieldNames
  <2>2. req[c].set \in [ChildKinds -> Patches \cup {NoPatch}] /\ Unset \notin Values
    BY <1>1, CallAssumption, StoreAssumption
    DEF SessionInv, TypeInv, TypeOK, CallsTypeOK, RequestType
  <2>3. w.id \in Targets(m, s) /\ w.doc = Image(m, s, w.id)
    BY DEF Images
  <2>4. CASE m.verb = "insert"
    <3>1. Valid("credential", NewPatch(c, "credential"))
      BY <1>4, <2>1, <2>4 DEF IsolationInv, InsertsValid
    <3>2. NewPatch(c, "credential") \in Patches
      BY <2>1, <2>2 DEF NewPatch, Patches
    <3>3. "login" \in Accepted("credential", NewPatch(c, "credential"))
      BY <3>1 DEF Valid, Required
    <3>4. NewPatch(c, "credential")["login"] \in Values
      BY <2>1, <3>2, <3>3 DEF Accepted, Patches
    <3>5. w.doc = NewChild("credential", NewPatch(c, "credential"))
      BY <1>4, <2>3, <2>4 DEF Image, SavedDoc
    <3> QED  BY <2>1, <3>3, <3>4, <3>5 DEF NewChild
  <2>5. CASE m.verb = "link"
    <3>1. s[CredentialKey(w.id)] # NoDoc /\ w.doc.fields = s[CredentialKey(w.id)].fields
      BY <1>4, <2>3, <2>5 DEF Targets, Image, CredentialKey
    <3> QED  BY <3>1, <1>2, <1>3 DEF IndexOK
  <2>6. CASE m.verb = "update"
    <3>1. s[CredentialKey(w.id)] # NoDoc
      BY <1>4, <2>3, <2>6 DEF Targets, ChildrenOf, CredentialKey
    <3>2. s[CredentialKey(w.id)].fields["login"] \in Values
      BY <3>1, <1>2, <1>3 DEF IndexOK
    <3>3. UpdatePatch(c, "credential") # NoPatch
      BY <1>4, <2>6 DEF SessionInv, TypeInv, OperationsOK
    <3>4. UpdatePatch(c, "credential") \in Patches
      BY <2>1, <2>2, <3>3 DEF UpdatePatch
    <3>5. w.doc = SetFields(s[CredentialKey(w.id)], "credential", UpdatePatch(c, "credential"))
      BY <1>4, <2>3, <2>6 DEF Image, CredentialKey
    <3> QED  BY <2>1, <3>2, <3>4, <3>5 DEF SetFields, Accepted, Patches
  <2>7. CASE m.verb = "delete"
    BY <1>4, <2>3, <2>7 DEF Image
  <2> QED  BY <2>4, <2>5, <2>6, <2>7 DEF Writes
<1> QED  BY <1>1, <1>3, <1>4

\* The keys that a write adds to those of its transaction.
LEMMA WriteFacts ==
    ASSUME SessionInv, IsolationInv, NEW m, NEW w, WritesOne(m, w),
           NEW c, c = m.call, NEW s, s = Base(c), NEW T, T = Touched(s, m.kind, w.id, w.doc)
    PROVE  /\ c \in Calls /\ Active(c) /\ T \in SUBSET Keys
           /\ m.kind \in Kinds /\ w.id \in Ids /\ w.doc \in DocsOf(m.kind) \cup {NoDoc}
           /\ T \cap stale[c] = {} /\ \A d \in Calls \ {c} : T \cap wrote[d] = {}
           /\ db' = db /\ stale' = stale /\ phase'[c] = "open" /\ wrote'[c] = wrote[c] \cup T
           /\ view'[c] = Put(s, m.kind, w.id, w.doc)
           /\ \A d \in Calls \ {c} : /\ phase'[d] = phase[d] /\ view'[d] = view[d]
                                     /\ wrote'[d] = wrote[d]
           /\ view'[c] \in Stores /\ IndexOK(view'[c])
           /\ \A k \in Keys \ T : view'[c][k] = s[k]
           /\ \A k \in T \ wrote[c] : s[k] = db[k]
<1>1. m \in reqs \cup late /\ m.verb \in Writes /\ Active(c) /\ w \in Images(m, s)
      /\ ~Collides(m, w, s) /\ T \cap (Busy(c) \cup stale[c]) = {}
  BY DEF WritesOne
<1>2. /\ c \in Calls /\ m.kind \in Kinds /\ w.id \in Ids
      /\ w.doc \in DocsOf(m.kind) \cup {NoDoc}
      /\ m.kind = "credential" /\ w.doc # NoDoc => w.doc.fields["login"] \in Values
  BY <1>1, ImageFacts
<1>3. s \in Stores /\ IndexOK(s)
      /\ \A k \in Keys \ (wrote[c] \cup stale[c]) : s[k] = db[k]
  BY <1>1, <1>2, BaseFacts
<1>4. T \in SUBSET Keys
  BY <1>2, TouchedType
<1>5. /\ phase \in [Calls -> {"none", "open", "committed", "aborted"}]
      /\ view \in [Calls -> Stores] /\ wrote \in [Calls -> SUBSET Keys]
  BY DEF SessionInv, TypeInv, TypeOK, ServerTypeOK
<1>6. /\ db' = db /\ stale' = stale /\ phase'[c] = "open" /\ wrote'[c] = wrote[c] \cup T
      /\ view'[c] = Put(s, m.kind, w.id, w.doc)
      /\ \A d \in Calls \ {c} : /\ phase'[d] = phase[d] /\ view'[d] = view[d]
                                /\ wrote'[d] = wrote[d]
  BY <1>2, <1>5 DEF WritesOne
<1>7. T \cap stale[c] = {} /\ \A d \in Calls \ {c} : T \cap wrote[d] = {}
  BY <1>1 DEF Busy
<1>8. Put(s, m.kind, w.id, w.doc) \in Stores
  BY <1>2, <1>3, PutType
<1>9. IndexOK(Put(s, m.kind, w.id, w.doc))
  BY <1>1, <1>2, <1>3, PutIndex DEF Collides
<1>10. \A k \in Keys \ T : Put(s, m.kind, w.id, w.doc)[k] = s[k]
  BY <1>2, <1>3, PutElsewhere
<1>11. \A k \in T \ wrote[c] : s[k] = db[k]
  BY <1>3, <1>4, <1>7
<1> QED  BY <1>1, <1>2, <1>4, <1>6, <1>7, <1>8, <1>9, <1>10, <1>11

\* A write goes to keys that nobody else holds and that are not stale.
LEMMA WritesIsolated ==
    ASSUME SessionInv, IsolationInv, NEW m, NEW w, WritesOne(m, w), NEW d \in Calls
    PROVE  Isolated(d)' /\ Indexed(d)'
<1> DEFINE c == m.call
           s == Base(c)
           T == Touched(s, m.kind, w.id, w.doc)
           p == view'[c]
<1>1. /\ c \in Calls /\ Active(c) /\ T \in SUBSET Keys
      /\ m.kind \in Kinds /\ w.id \in Ids
      /\ T \cap stale[c] = {} /\ \A e \in Calls \ {c} : T \cap wrote[e] = {}
      /\ db' = db /\ stale' = stale /\ phase'[c] = "open" /\ wrote'[c] = wrote[c] \cup T
      /\ p = Put(s, m.kind, w.id, w.doc)
      /\ \A e \in Calls \ {c} : /\ phase'[e] = phase[e] /\ view'[e] = view[e]
                                /\ wrote'[e] = wrote[e]
      /\ p \in Stores /\ IndexOK(p)
      /\ \A k \in Keys \ T : p[k] = s[k]
      /\ \A k \in T \ wrote[c] : s[k] = db[k]
  BY WriteFacts
<1>2. Isolated(d) /\ Indexed(d) /\ Isolated(c)
  BY <1>1 DEF IsolationInv
<1>3. /\ s \in Stores /\ IndexOK(s)
      /\ \A k \in Keys \ (wrote[c] \cup stale[c]) : s[k] = db[k]
      /\ Closed(wrote[c], db) /\ Closed(wrote[c], s)
      /\ Closed(stale[c], db) /\ Closed(stale[c], s)
      /\ wrote[c] \cap stale[c] = {}
      /\ wrote[c] \in SUBSET Keys /\ stale[c] \in SUBSET Keys
  BY <1>1, BaseFacts
<1>4. ~Duplicate(s, m.kind, w.id, w.doc)
  BY DEF WritesOne, Collides
<1>5. \A L \in T \cap LoginKeys :
          /\ m.kind = "credential"
          /\ p[L] \in {NoDoc, [credential |-> w.id]}
          /\ s[L] \in {NoDoc, [credential |-> w.id]}
  <2> DEFINE q == Put(s, m.kind, w.id, w.doc)
  <2>1. \A L \in T \cap LoginKeys :
            /\ m.kind = "credential"
            /\ q[L] \in {NoDoc, [credential |-> w.id]}
            /\ s[L] \in {NoDoc, [credential |-> w.id]}
    <3> HIDE DEF s
    <3>1. /\ q[<<m.kind, w.id>>] = w.doc
          /\ \A L \in T \cap LoginKeys :
                /\ m.kind = "credential"
                /\ q[L] \in {NoDoc, [credential |-> w.id]}
                /\ ~Duplicate(s, m.kind, w.id, w.doc) => s[L] \in {NoDoc, [credential |-> w.id]}
      BY <1>1, <1>3, PutThere
    <3> QED  BY <3>1, <1>4
  <2> QED  BY <1>1, <2>1
<1>6. m.kind = "credential" => CredentialKey(w.id) \in T
  BY DEF Touched, CredentialKey
<1> HIDE DEF T, p, s
<1>7. CASE d = c
  <2>1. Isolated(d)'
    <3>1. wrote'[d] \cap stale'[d] = {}
      BY <1>1, <1>3, <1>7
    <3>2. \A e \in Calls \ {d} : wrote'[d] \cap wrote'[e] = {}
      BY <1>1, <1>2, <1>7 DEF Isolated
    <3>3. \A k \in Keys \ (wrote'[d] \cup stale'[d]) : view'[d][k] = db'[k]
      BY <1>1, <1>3, <1>7 DEF p
    <3> QED  BY <1>1, <1>7, <3>1, <3>2, <3>3 DEF Isolated
  <2>2. Closed(wrote[c] \cup T, db)
    <3> SUFFICES ASSUME NEW L \in (wrote[c] \cup T) \cap LoginKeys, db[L] # NoDoc
                 PROVE  CredentialKey(db[L].credential) \in wrote[c] \cup T
      BY DEF Closed
    <3>1. CASE L \in wrote[c]
      BY <3>1, <1>3 DEF Closed
    <3>2. CASE L \in T \ wrote[c]
      BY <3>2, <1>1, <1>5, <1>6
    <3> QED  BY <3>1, <3>2
  <2>3. Closed(wrote[c] \cup T, p)
    <3> SUFFICES ASSUME NEW L \in (wrote[c] \cup T) \cap LoginKeys, p[L] # NoDoc
                 PROVE  CredentialKey(p[L].credential) \in wrote[c] \cup T
      BY DEF Closed
    <3>1. CASE L \in T
      BY <3>1, <1>5, <1>6
    <3>2. CASE L \notin T
      BY <3>2, <1>1, <1>3 DEF Closed
    <3> QED  BY <3>1, <3>2
  <2>4. Closed(stale[c], p)
    BY <1>1, <1>3 DEF Closed
  <2>5. Indexed(d)'
    BY <1>1, <1>3, <1>7, <2>2, <2>3, <2>4 DEF Indexed, p
  <2> QED  BY <2>1, <2>5
<1>8. CASE d # c
  <2>1. \A e \in Calls \ {d} : wrote'[d] \cap wrote'[e] = {}
    BY <1>1, <1>2, <1>8 DEF Isolated
  <2> QED  BY <1>1, <1>2, <1>8, <2>1 DEF Isolated, Indexed
<1> QED  BY <1>7, <1>8

\* A commit makes its keys stale for every other open transaction.
LEMMA MergesIsolated ==
    ASSUME SessionInv, IsolationInv, NEW c \in Calls, Merges(c)
    PROVE  IndexOK(db') /\ \A d \in Calls : Isolated(d)' /\ Indexed(d)'
<1> DEFINE W == wrote[c]
           s == Base(c)
<1>1. /\ phase \in [Calls -> {"none", "open", "committed", "aborted"}]
      /\ view \in [Calls -> Stores] /\ wrote \in [Calls -> SUBSET Keys]
      /\ stale \in [Calls -> SUBSET Keys] /\ db \in Stores
  BY DEF SessionInv, TypeInv, TypeOK, ServerTypeOK
<1>2. /\ Active(c) /\ db' = Merge(db, view[c], W)
      /\ phase'[c] = "committed" /\ wrote'[c] = {}
      /\ \A d \in Calls \ {c} : /\ phase'[d] = phase[d] /\ view'[d] = view[d]
                                /\ wrote'[d] = wrote[d]
      /\ \A d \in Calls : stale'[d] = IF d # c /\ phase[d] = "open"
                                      THEN stale[d] \cup W ELSE stale[d]
  BY <1>1 DEF Merges, Finish
<1>3. Isolated(c)
  BY DEF IsolationInv
<1>4. db' = Merge(db, s, W)
  <2>1. phase[c] # "open" => W = {}
    BY <1>3 DEF Isolated
  <2> QED  BY <1>2, <2>1 DEF Base, Merge
<1>5. /\ s \in Stores /\ IndexOK(s) /\ IndexOK(db)
      /\ \A k \in Keys \ (W \cup stale[c]) : s[k] = db[k]
      /\ Closed(W, db) /\ Closed(W, s)
      /\ Closed(stale[c], db) /\ Closed(stale[c], s)
      /\ W \cap stale[c] = {} /\ W \in SUBSET Keys /\ stale[c] \in SUBSET Keys
  BY <1>2, BaseFacts DEF IsolationInv
<1>6. IndexOK(db')
  <2> HIDE DEF W, s
  <2> QED  BY <1>1, <1>4, <1>5, MergeIndex
<1>7. \A k \in Keys : db'[k] = IF k \in W THEN s[k] ELSE db[k]
  BY <1>4 DEF Merge
<1>8. LoginKeys \subseteq Keys
  BY DEF Keys
<1> HIDE DEF W, s
<1>9. ASSUME NEW d \in Calls \ {c} PROVE Isolated(d)' /\ Indexed(d)'
  <2>1. Isolated(d) /\ Indexed(d) /\ wrote[d] \cap W = {}
    BY <1>3 DEF IsolationInv, Isolated, W
  <2>2. \A e \in Calls \ {d} : wrote'[d] \cap wrote'[e] = {}
    BY <1>2, <1>9, <2>1 DEF Isolated
  <2>3. CASE phase[d] = "open"
    <3> DEFINE S == stale[d]
               v == view[d]
    <3>1. /\ wrote'[d] = wrote[d] /\ view'[d] = v /\ phase'[d] = "open"
          /\ stale'[d] = S \cup W
      BY <1>2, <1>9, <2>3
    <3>2. /\ IndexOK(v) /\ Closed(wrote[d], db) /\ Closed(wrote[d], v)
          /\ Closed(S, db) /\ Closed(S, v)
          /\ \A k \in Keys \ (wrote[d] \cup S) : v[k] = db[k]
          /\ wrote[d] \cap S = {}
      BY <2>1, <2>3 DEF Isolated, Indexed
    <3> HIDE DEF S, v
    <3>3. wrote[d] \cap (S \cup W) = {}
      BY <3>2, <2>1
    <3>4. \A k \in Keys \ (wrote[d] \cup S \cup W) : v[k] = db'[k]
      BY <3>2, <1>7
    <3>5. Closed(wrote[d], db')
      <4>1. \A L \in wrote[d] \cap LoginKeys : db'[L] = db[L]
        BY <2>1, <1>7, <1>8
      <4> QED  BY <4>1, <3>2 DEF Closed
    <3>6. Closed(S \cup W, db')
      <4> SUFFICES ASSUME NEW L \in (S \cup W) \cap LoginKeys, db'[L] # NoDoc
                   PROVE  CredentialKey(db'[L].credential) \in S \cup W
        BY DEF Closed
      <4>1. CASE L \in W
        BY <4>1, <1>5, <1>7, <1>8 DEF Closed
      <4>2. CASE L \notin W
        BY <4>2, <3>2, <1>7, <1>8 DEF Closed
      <4> QED  BY <4>1, <4>2
    <3>7. Closed(S \cup W, v)
      <4> SUFFICES ASSUME NEW L \in (S \cup W) \cap LoginKeys, v[L] # NoDoc
                   PROVE  CredentialKey(v[L].credential) \in S \cup W
        BY DEF Closed
      <4>1. CASE L \in S
        BY <4>1, <3>2 DEF Closed
      <4>2. CASE L \notin S
        <5>1. L \in W /\ L \notin wrote[d] /\ L \in Keys
          BY <4>2, <2>1, <1>8
        <5>2. v[L] = db[L]
          BY <5>1, <4>2, <3>2
        <5> QED  BY <5>1, <5>2, <1>5 DEF Closed
      <4> QED  BY <4>1, <4>2
    <3>8. Isolated(d)'
      BY <3>1, <3>3, <3>4, <2>2 DEF Isolated
    <3>9. Indexed(d)'
      BY <3>1, <3>2, <3>5, <3>6, <3>7 DEF Indexed
    <3> QED  BY <3>8, <3>9
  <2>4. CASE phase[d] # "open"
    BY <1>2, <1>9, <2>1, <2>2, <2>4 DEF Isolated, Indexed
  <2> QED  BY <2>3, <2>4
<1>10. Isolated(c)' /\ Indexed(c)'
  BY <1>2, <1>3 DEF Isolated, Indexed
<1> QED  BY <1>6, <1>9, <1>10

-----------------------------------------------------------------------------
(* What a handler sends.                                                   *)

\* A handler puts an operation it had created on the wire, if it does not settle
\* at once, or sends what follows in its session.
LEMMA HandleSends ==
    ASSUME SessionInv, NEW c \in Calls, Handle(c), NEW m \in reqs' \ reqs
    PROVE  /\ m.call = c
           /\ \/ \E op \in todo[c] : Op(m) = op /\ Settles(c, op) = ""
              \/ Op(m) \in AccountSave \cup ParentLinks \cup AccountRead \cup AccountFind
                           \cup Populates \cup Deletes
                           \cup {<<"commit", "outer">>, <<"abort", "outer">>}
                           \cup ({"abort"} \X ChildKinds)
<1> DEFINE Later == AccountSave \cup ParentLinks \cup AccountRead \cup AccountFind
                    \cup Populates \cup Deletes
                    \cup {<<"commit", "outer">>, <<"abort", "outer">>}
                    \cup ({"abort"} \X ChildKinds)
           Sends == m.call = c /\ Op(m) \in Later
<1>1. /\ \A ops \in {AccountSave, ParentLinks, AccountRead, AccountFind, Populates, Deletes,
                    {<<"commit", "outer">>}, {<<"abort", "outer">>}} :
            ops \subseteq Later /\ ops \in SUBSET Operations
      /\ \A k \in ChildKinds : {<<"abort", k>>} \subseteq Later
                              /\ {<<"abort", k>>} \in SUBSET Operations
  BY OperationSets
<1> HIDE DEF Later
<1>2. ASSUME NEW ops \in SUBSET Operations, ops \subseteq Later, reqs' = reqs \cup Sent(c, ops)
      PROVE  Sends
  <2>1. m \in Sent(c, ops)
    BY <1>2
  <2>2. m.call = c /\ Op(m) \in ops
    BY <2>1, SentFacts
  <2> QED  BY <1>2, <2>2
<1>3. ASSUME NEW status, Abandon(c, status) PROVE Sends
  <2>1. reqs' = reqs \cup Sent(c, {<<"abort", "outer">>})
    BY <1>3 DEF Abandon
  <2> QED  BY <1>1, <1>2, <2>1
<1>4. CASE Commit(c)
  <2>1. reqs' = reqs \cup Sent(c, {<<"commit", "outer">>})
    BY <1>4 DEF Commit
  <2> QED  BY <1>1, <1>2, <2>1 DEF Later
<1>5. ASSUME NEW next, NEW ops \in {AccountSave, ParentLinks, AccountRead, AccountFind,
                                   Populates, Deletes},
             Proceed(c, next, ops)
      PROVE  Sends
  BY <1>1, <1>2, <1>5 DEF Proceed
<1>6. CASE Dispatch(c)
  <2>1. PICK op \in todo[c] : /\ Settles(c, op) = ""
                              /\ reqs' = reqs \cup {Message(c, op, tstate[c] = "starting")}
    BY <1>6 DEF Dispatch
  <2>2. op \in Operations
    BY DEF SessionInv, TypeInv, TypeOK, CallsTypeOK
  <2>3. m = Message(c, op, tstate[c] = "starting")
    BY <2>1
  <2>4. m.call = c /\ Op(m) = op
    BY <2>2, <2>3, MessageFacts
  <2> QED  BY <2>1, <2>4
<1>7. CASE ChildDuplicate(c)
  <2>1. PICK r \in resps : /\ Op(r) \in ChildSaves
                           /\ reqs' = reqs \cup Sent(c, {<<"abort", r.kind>>})
    BY <1>7 DEF ChildDuplicate
  <2>2. r.kind \in ChildKinds
    BY <2>1 DEF ChildSaves, Op
  <2> QED  BY <1>1, <1>2, <2>1, <2>2 DEF Later
<1>8. CASE CreateBegin(c) \/ ChildAbortDone(c) \/ SeedBegin(c) \/ DeleteInvalid(c)
           \/ DeleteBegin(c) \/ NotConnected(c) \/ AbortDone(c) \/ Committed(c)
           \/ CommitFailed(c)
  BY <1>8 DEF CreateBegin, ChildAbortDone, SeedBegin, DeleteInvalid, DeleteBegin,
     NotConnected, AbortDone, Committed, CommitFailed, Refuse
<1>9. CASE ChildSaved(c) \/ AccountSaved(c) \/ SeedSaved(c) \/ ParentLinked(c)
           \/ Found(c) \/ Listed(c)
  BY <1>5, <1>9 DEF ChildSaved, AccountSaved, SeedSaved, ParentLinked, Found, Listed, Later
<1>10. CASE ChildRejected(c) \/ StepRejected(c) \/ SeedRejected(c) \/ PartRejected(c)
           \/ NotFound(c) \/ ListRejected(c) \/ DeleteRejected(c)
  BY <1>3, <1>10 DEF ChildRejected, StepRejected, SeedRejected, PartRejected, NotFound,
     ListRejected, DeleteRejected, Later
<1>11. CASE Aggregated(c) \/ SeedLinked(c) \/ Populated(c) \/ Deleted(c)
  BY <1>3, <1>4, <1>11 DEF Aggregated, SeedLinked, Populated, Deleted, Later
<1>12. CASE UpdateBegin(c) \/ PartSet(c)
  BY <1>3, <1>5, <1>12 DEF UpdateBegin, PartSet, Later
<1>13. CASE UpdateThrows(c) \/ UpdateUnasked(c) \/ DeleteThrows(c)
  BY <1>13, OmittedFacts
<1> QED  BY <1>6, <1>7, <1>8, <1>9, <1>10, <1>11, <1>12, <1>13
            DEF Handle, Create, SeedAccount, UpdateOne, DeleteOne

\* Nothing else sends anything.
LEMMA OthersSendNothing ==
    ASSUME SessionInv, [Next]_vars
    PROVE  /\ req' = req
           /\ \/ \E c \in Calls : Step(c)
              \/ reqs' \cup late' \subseteq reqs \cup late
<1>1. ASSUME NEW c \in Calls, Step(c) PROVE req' = req
  BY <1>1, OmittedFacts
  DEF Step, Handle, Create, SeedAccount, UpdateOne, DeleteOne, Dispatch,
     CreateBegin, ChildAbortDone, SeedBegin, DeleteInvalid, DeleteBegin, NotConnected,
     AbortDone, Committed, CommitFailed, Refuse, ChildSaved, AccountSaved, SeedSaved,
     ParentLinked, Found, Listed, ChildRejected, StepRejected, SeedRejected, PartRejected,
     NotFound, ListRejected, DeleteRejected, Aggregated, SeedLinked, Populated, Deleted,
     UpdateBegin, PartSet, ChildDuplicate
<1>2. ASSUME NEW c \in Calls, Serve(c)
      PROVE  req' = req /\ reqs' \cup late' \subseteq reqs \cup late
  <2>1. ASSUME NEW m, NEW result, NEW docs, Answer(m, result, docs)
        PROVE  req' = req /\ reqs' \cup late' \subseteq reqs \cup late
    BY <2>1 DEF Answer
  <2> QED  BY <1>2, <2>1 DEF Serve, ServeWrite, ServeRead, ServeStranger, ServeCommit,
             ServeAbort, ServePlain
<1>3. ASSUME NEW c \in Calls, Reap(c)
      PROVE  req' = req /\ reqs' \cup late' \subseteq reqs \cup late
  BY <1>3 DEF Reap, callVars
<1>4. CASE Fault
  BY <1>4 DEF Fault, GiveUp, Vanish, LoseReply, Crash, callVars
<1>5. CASE Tick \/ Quiet \/ UNCHANGED vars
  BY <1>5 DEF Tick, Quiet, vars, callVars, serverVars
<1> QED  BY <1>1, <1>2, <1>3, <1>4, <1>5 DEF Next

\* A save that is sent has been validated.
LEMMA InsertsStayValid == SessionInv /\ InsertsValid /\ [Next]_vars => InsertsValid'
<1> SUFFICES ASSUME SessionInv, InsertsValid, [Next]_vars,
                    NEW m \in reqs' \cup late', m.verb = "insert", m.kind \in ChildKinds
             PROVE  Valid(m.kind, NewPatch(m.call, m.kind)')
  BY DEF InsertsValid
<1>1. req' = req
  BY OthersSendNothing
<1>2. NewPatch(m.call, m.kind)' = NewPatch(m.call, m.kind)
  BY <1>1 DEF NewPatch
<1>3. CASE m \in reqs \cup late
  BY <1>2, <1>3 DEF InsertsValid
<1>4. CASE m \notin reqs \cup late
  <2>1. PICK c \in Calls : Step(c)
    BY <1>4, OthersSendNothing
  <2>2. m \in reqs' \ reqs /\ Handle(c)
    BY <1>4, <2>1 DEF Step, serverVars
  <2>3. Op(m) = <<"insert", m.kind>> /\ m.kind # "account"
    BY DEF Op, ChildKinds
  <2>4. Op(m) \notin AccountSave \cup ParentLinks \cup AccountRead \cup AccountFind
                       \cup Populates \cup Deletes
                       \cup {<<"commit", "outer">>, <<"abort", "outer">>}
                       \cup ({"abort"} \X ChildKinds)
    BY <2>3 DEF AccountSave, ParentLinks, AccountRead, AccountFind, Populates, Deletes
  <2>5. m.call = c /\ Settles(c, Op(m)) = ""
    BY <2>2, <2>4, HandleSends
  <2>6. Valid(m.kind, NewPatch(c, m.kind))
    BY <2>3, <2>5 DEF Settles
  <2> QED  BY <1>2, <2>5, <2>6
<1> QED  BY <1>3, <1>4

-----------------------------------------------------------------------------
(* The theorems.                                                           *)

\* Everything a step can do to the data: the server serves or reaps.
LEMMA DataShapes ==
    ASSUME SessionInv, IsolationInv, [Next]_vars
    PROVE  \/ UNCHANGED <<db, txnVars>>
           \/ \E c \in Calls : Opens(c) \/ Aborts(c)
           \/ \E m \in reqs \cup late : \E w \in Images(m, Base(m.call)) : WritesOne(m, w)
           \/ \E c \in Calls, m \in reqs \cup late :
                 m.call = c /\ m.verb = "commit" /\ Merges(c)
<1>1. ASSUME NEW c \in Calls, Step(c) PROVE UNCHANGED <<db, txnVars>>
  BY <1>1 DEF Step, serverVars, txnVars
<1>2. ASSUME NEW c \in Calls, Reap(c) PROVE Aborts(c)
  BY <1>2 DEF Reap, Aborts, Active
<1>3. CASE Fault
  BY <1>3 DEF Fault, GiveUp, Vanish, LoseReply, Crash
<1>4. CASE Tick \/ Quiet \/ UNCHANGED vars
  BY <1>4 DEF Tick, Quiet, vars, serverVars, txnVars
<1>5. ASSUME NEW c \in Calls, Serve(c)
      PROVE  \/ UNCHANGED <<db, txnVars>>
             \/ Opens(c) \/ Aborts(c)
             \/ \E m \in reqs \cup late : m.call = c /\ \E w \in Images(m, Base(c)) : WritesOne(m, w)
             \/ \E m \in reqs \cup late : m.call = c /\ m.verb = "commit" /\ Merges(c)
  BY <1>5, ServeShapes
<1> QED  BY <1>1, <1>2, <1>3, <1>4, <1>5 DEF Next

\* The stores the service may be deployed on have an index of their credentials.
LEMMA DeployedIndex == IndexOK(EmptyStore) /\ IndexOK(SeededStore)
<1>1. IndexOK(EmptyStore)
  BY IndexKeys DEF IndexOK, EmptyStore
<1>2. \A i \in Ids : SeededStore[CredentialKey(i)] =
                        IF i = 0 THEN SeedChild("credential") ELSE NoDoc
  BY IndexKeys DEF SeededStore, CredentialKey
<1>3. \A v \in Values : SeededStore[LoginKey(v)] =
                        IF v = Seed THEN [credential |-> 0] ELSE NoDoc
  <2> SUFFICES ASSUME NEW v \in Values
               PROVE  SeededStore[LoginKey(v)] = IF v = Seed THEN [credential |-> 0] ELSE NoDoc
    OBVIOUS
  <2>1. LoginKey(v) \in LoginKeys /\ LoginKey(v) \in Keys
    BY IndexKeys
  <2>2. LoginKey(v) = <<"login", Seed>> <=> v = Seed
    BY DEF LoginKey
  <2> QED  BY <2>1, <2>2 DEF SeededStore
<1>4. SeedChild("credential").fields["login"] = Seed
  <2>1. SeedPayload("credential")["login"] = Seed
    BY DEF SeedPayload, Schema, FieldNames
  <2>2. "login" \in Accepted("credential", SeedPayload("credential"))
    BY <2>1, StoreAssumption DEF Accepted, Schema
  <2> QED  BY <2>1, <2>2 DEF SeedChild, NewChild, FieldNames
<1>5. 0 \in Ids /\ Seed \in Values
  BY StoreAssumption DEF Ids
<1>6. SeedChild("credential") # NoDoc
  <2>1. SeedPayload("credential") \in Patches /\ "credential" \in ChildKinds
    BY <1>5 DEF SeedPayload, Patches, ChildKinds, Kinds
  <2>2. NewChild("credential", SeedPayload("credential")) \in ChildDocs
    BY <2>1, NewChildType
  <2>3. SeedChild("credential") \in ChildDocs
    BY <2>2, <1>5 DEF SeedChild, ChildDocs
  <2> QED  BY <2>3, StoreAssumption DEF Docs
<1>7. IndexOK(SeededStore)
  BY <1>2, <1>3, <1>4, <1>5, <1>6 DEF IndexOK
<1> QED  BY <1>1, <1>7

\* The service starts on a store whose index is right, without transactions.
LEMMA IsolationInit == Init => IsolationInv
<1> SUFFICES ASSUME Init PROVE IsolationInv
  OBVIOUS
<1>1. /\ \A c \in Calls : phase[c] = "none" /\ wrote[c] = {} /\ stale[c] = {}
      /\ reqs = {} /\ late = {} /\ db \in {EmptyStore, SeededStore}
  BY ServerAssumption DEF Init, CallsInit, ServerInit
<1>2. IndexOK(db)
  BY <1>1, DeployedIndex
<1> QED  BY <1>1, <1>2 DEF IsolationInv, InsertsValid, Isolated, Indexed

\* Every step keeps the transactions isolated and the index right.
LEMMA IsolationNext == SessionInv /\ IsolationInv /\ [Next]_vars => IsolationInv'
<1> SUFFICES ASSUME SessionInv, IsolationInv, [Next]_vars PROVE IsolationInv'
  OBVIOUS
<1>1. InsertsValid'
  BY InsertsStayValid DEF IsolationInv
<1>2. IndexOK(db') /\ \A d \in Calls : Isolated(d)' /\ Indexed(d)'
  <2>1. CASE UNCHANGED <<db, txnVars>>
    <3>1. /\ \A d \in Calls : Isolated(d)' <=> Isolated(d)
          /\ \A d \in Calls : Indexed(d)' <=> Indexed(d)
      BY <2>1 DEF txnVars, Isolated, Indexed
    <3> QED  BY <2>1, <3>1 DEF IsolationInv
  <2>2. ASSUME NEW c \in Calls, Opens(c) \/ Aborts(c)
        PROVE  IndexOK(db') /\ \A d \in Calls : Isolated(d)' /\ Indexed(d)'
    <3>1. db' = db
      BY <2>2 DEF Opens, Aborts
    <3> QED  BY <2>2, <3>1, OpensIsolated, AbortsIsolated DEF IsolationInv
  <2>3. ASSUME NEW m, NEW w, WritesOne(m, w)
        PROVE  IndexOK(db') /\ \A d \in Calls : Isolated(d)' /\ Indexed(d)'
    <3>1. db' = db
      BY <2>3 DEF WritesOne
    <3> QED  BY <2>3, <3>1, WritesIsolated DEF IsolationInv
  <2>4. ASSUME NEW c \in Calls, Merges(c)
        PROVE  IndexOK(db') /\ \A d \in Calls : Isolated(d)' /\ Indexed(d)'
    BY <2>4, MergesIsolated
  <2> QED  BY <2>1, <2>2, <2>3, <2>4, DataShapes
<1> QED  BY <1>1, <1>2 DEF IsolationInv

\* Whatever the calls, the requests, the losses and the bounds: a transaction sees
\* the store as it was when it began but for its own writes, no two write one key,
\* and the unique index is that of the credentials, in the store and in every view
\* of it.
THEOREM IsolationCorrect == Spec => [](SessionInv /\ IsolationInv)
<1>1. Init => SessionInv /\ IsolationInv
  BY SessionInit, IsolationInit
<1>2. SessionInv /\ IsolationInv /\ [Next]_vars => (SessionInv /\ IsolationInv)'
  BY SessionNext, IsolationNext
<1> QED  BY <1>1, <1>2, PTL DEF Spec

\* An index of the credentials has one owner for every login.
LEMMA IndexMakesUnique ==
    ASSUME IndexOK(db)
    PROVE  UniqueLogin
<1> SUFFICES ASSUME NEW i \in Ids, NEW j \in Ids,
                    db[CredentialKey(i)] # NoDoc, db[CredentialKey(j)] # NoDoc,
                    db[CredentialKey(i)].fields["login"] = db[CredentialKey(j)].fields["login"]
             PROVE  i = j
  BY DEF UniqueLogin, CredentialKey
<1>1. [credential |-> i] = [credential |-> j]
  BY DEF IndexOK
<1> QED  BY <1>1

\* Two accounts never share a login: not when two Creates of it race, nor when an
\* UpdateOne takes it over while its owner is changed or deleted.
THEOREM UniqueLoginHolds == Spec => []UniqueLogin
<1>1. IsolationInv => UniqueLogin
  BY IndexMakesUnique DEF IsolationInv
<1> QED  BY <1>1, IsolationCorrect, PTL

-----------------------------------------------------------------------------
(* What the handlers know.                                                 *)

EffectsInv == SessionInv /\ IsolationInv /\ EffectInv

-----------------------------------------------------------------------------
(* The data of one transaction.                                            *)

\* A step leaves what call d has read and written alone.
Frozen(d) ==
    Active(d)' =>
        /\ Active(d) /\ wrote'[d] = wrote[d]
        /\ phase[d] = "open" =>
              /\ phase'[d] = "open" /\ view'[d] = view[d]
              /\ \A k \in wrote[d] : db'[k] = db[k]

\* The keys of documents.
LEMMA DocumentKeys ==
    /\ \A kind \in Kinds, i \in Ids : <<kind, i>> \in Keys /\ <<kind, i>> \in DocKeys
    /\ \A k \in DocKeys : \E kind \in Kinds, i \in Ids : k = <<kind, i>>
    /\ \A a, b, i, j : <<a, i>> = <<b, j>> <=> a = b /\ i = j
  BY DEF Keys, DocKeys

\* A transaction that has not started has written nothing, and what it would find
\* is the store.
LEMMA Unstarted ==
    ASSUME EffectsInv, NEW c \in Calls, phase[c] # "open"
    PROVE  /\ wrote[c] = {}
           /\ \A op : op[1] \in {"insert", "link", "update", "delete"} \cup SessionReads
                        => ~HasEffect(c, op)
<1>1. wrote[c] = {}
  BY DEF EffectsInv, IsolationInv, Isolated
<1> QED  BY <1>1 DEF HasEffect, Saved, SessionReads

\* What a request may be.
LEMMA RequestFacts ==
    ASSUME TypeInv, NEW c \in Calls
    PROVE  /\ req[c].op \in {"create", "update", "delete", "seed"}
           /\ req[c].id \in Ids \cup {NoId}
           /\ \A k \in ChildKinds : req[c].set[k] \in Payloads(k) \cup {NoPatch}
           /\ req[c].op = "seed" => req[c] = SeedRequest
  BY CallAssumption DEF TypeInv, TypeOK, CallsTypeOK, RequestType

\* All that is ever acknowledged has a mark to leave.
LEMMA AcknowledgedVerbs ==
    ASSUME TypeInv, NEW c \in Calls, NEW op \in Acknowledged(c)
    PROVE  op[1] \in {"insert", "link", "update", "delete"} \cup SessionReads
<1>1. \A r : Success(r) => Op(r)[1] \in {"insert", "link", "update", "delete"} \cup SessionReads
  BY DEF Success, Op
<1>2. Passed(c) \cup Plan(c) \subseteq
        ChildSaves \cup AccountSave \cup ParentLinks \cup PartUpdates(c) \cup AccountList \cup Deletes
  BY RequestFacts DEF Passed, Plan
<1>3. \A o \in ChildSaves \cup AccountSave \cup ParentLinks \cup PartUpdates(c) \cup AccountList
               \cup Deletes :
         o[1] \in {"insert", "link", "update", "delete"} \cup SessionReads
  BY DEF ChildSaves, AccountSave, ParentLinks, PartUpdates, AccountList, Deletes, SessionReads
<1> QED  BY <1>1, <1>2, <1>3 DEF Acknowledged

\* A call whose transaction has not started has had no operation acknowledged.
LEMMA NothingYet ==
    ASSUME EffectsInv, NEW c \in Calls, phase[c] = "none"
    PROVE  Acknowledged(c) = {}
  BY Unstarted, AcknowledgedVerbs
  DEF EffectsInv, EffectInv, Effective, EffectsOK, Active, SessionInv

\* A frozen transaction keeps its base, its snapshot and the marks it has left.
LEMMA FrozenFacts ==
    ASSUME EffectsInv, NEW d \in Calls, Frozen(d), Active(d)', phase[d] = "open"
    PROVE  /\ Base(d)' = Base(d) /\ Origin(d)' = Origin(d)
           /\ wrote'[d] = wrote[d] /\ phase'[d] = "open"
           /\ \A k \in wrote[d] : db'[k] = db[k]
<1>1. /\ wrote'[d] = wrote[d] /\ phase'[d] = "open" /\ view'[d] = view[d]
      /\ \A k \in wrote[d] : db'[k] = db[k]
  BY DEF Frozen
<1>2. Base(d)' = Base(d)
  BY <1>1 DEF Base
<1> QED  BY <1>1, <1>2 DEF Origin

\* What it has written stays what it was.
LEMMA WrittenStays ==
    ASSUME EffectsInv, NEW d \in Calls, Frozen(d), req' = req, ids'[d] = ids[d]
    PROVE  Written(d)'
<1> SUFFICES ASSUME Active(d)', NEW kind \in Kinds, NEW i \in Ids, <<kind, i>> \in wrote'[d]
             PROVE  (CASE req[d].op \in {"create", "seed"} -> Creating(d, kind, i)'
                       [] req[d].op = "update" -> Setting(d, kind, i)'
                       [] req[d].op = "delete" -> Removing(d, kind, i)')
  BY DEF Written
<1>1. phase[d] = "open"
  BY Unstarted DEF Frozen
<1>2. /\ Base(d)' = Base(d) /\ wrote'[d] = wrote[d] /\ db'[<<kind, i>>] = db[<<kind, i>>]
  BY <1>1, FrozenFacts
<1>3. Written(d) /\ Active(d)
  BY <1>1 DEF EffectsInv, EffectInv, Effective, Active
<1>4. Creating(d, kind, i) => Creating(d, kind, i)'
  BY <1>2 DEF Creating, SavedDoc, NewPatch
<1>5. Setting(d, kind, i) => Setting(d, kind, i)'
  BY <1>2 DEF Setting, UpdatePatch
<1>6. Removing(d, kind, i) => Removing(d, kind, i)'
  BY <1>2 DEF Removing
<1> QED  BY <1>2, <1>3, <1>4, <1>5, <1>6, RequestFacts DEF Written, EffectsInv, SessionInv

\* What a step may do to the messages of call d and to what its handler knows.
Knows(d) ==
    /\ \A op \in Acknowledged(d)' :
          op \in Acknowledged(d) \/ (Active(d)' => HasEffect(d, op)')
    /\ \A m \in reqs' \cup late' : m.call = d /\ m \notin reqs \cup late =>
          /\ ~CommitSent(d)
          /\ m.verb = "link" => \A kind \in Kinds : <<"insert", kind>> \in Acknowledged(d)
          /\ m.verb = "commit" =>
                \A n \in reqs' \cup late' : n.call = d => n.verb = "commit"
    /\ req[d].op = "create" /\ stage'[d] = "saving" => stage[d] = "saving"

\* A handler that learns nothing of a frozen transaction but what is so knows what
\* is so.
LEMMA EffectsStay ==
    ASSUME EffectsInv, NEW d \in Calls, Frozen(d), Knows(d), req' = req, ids'[d] = ids[d]
    PROVE  EffectsOK(d)'
<1> USE DEF EffectsInv, EffectInv, Effective
<1>1. ASSUME Active(d)', NEW op \in Acknowledged(d)' PROVE HasEffect(d, op)'
  <2> SUFFICES ASSUME op \in Acknowledged(d) PROVE HasEffect(d, op)'
    BY <1>1 DEF Knows
  <2>1. Active(d)
    BY <1>1 DEF Frozen
  <2>2. HasEffect(d, op)
    BY <2>1 DEF EffectsOK
  <2>3. phase[d] = "open"
    BY <2>1, NothingYet DEF Active
  <2>4. Base(d)' = Base(d) /\ wrote'[d] = wrote[d] /\ phase'[d] = "open"
    BY <1>1, <2>3, FrozenFacts
  <2> QED  BY <2>2, <2>3, <2>4 DEF HasEffect, Saved
<1>2. ASSUME Active(d)', NEW m \in reqs' \cup late', m.call = d, m.verb = "link",
             NEW kind \in Kinds
      PROVE  Saved(d, kind)'
  <2>1. Active(d)
    BY <1>2 DEF Frozen
  <2>2. Saved(d, kind)
    <3>1. CASE m \in reqs \cup late
      BY <3>1, <1>2, <2>1 DEF EffectsOK
    <3>2. CASE m \notin reqs \cup late
      <4>1. <<"insert", kind>> \in Acknowledged(d)
        BY <1>2, <3>2 DEF Knows
      <4>2. HasEffect(d, <<"insert", kind>>)
        BY <2>1, <4>1 DEF EffectsOK
      <4> QED  BY <4>2 DEF HasEffect
    <3> QED  BY <3>1, <3>2
  <2> QED  BY <1>2, <2>2 DEF Saved, Frozen
<1>3. ASSUME CommitSent(d)', NEW n \in reqs' \cup late', n.call = d PROVE n.verb = "commit"
  <2>1. PICK m \in reqs' \cup late' : m.call = d /\ m.verb = "commit"
    BY <1>3 DEF CommitSent
  <2>2. CASE m \notin reqs \cup late
    BY <1>3, <2>1, <2>2 DEF Knows
  <2>3. CASE m \in reqs \cup late
    <3>1. CommitSent(d)
      BY <2>1, <2>3 DEF CommitSent
    <3>2. n \in reqs \cup late
      BY <1>3, <3>1 DEF Knows
    <3> QED  BY <1>3, <3>1, <3>2 DEF EffectsOK
  <2> QED  BY <2>2, <2>3
<1>4. /\ req'[d].op = "create" /\ stage'[d] = "saving" => ids'[d]["account"] = NoId
      /\ req'[d].op = "seed" => \A kind \in Kinds : ids'[d][kind] \in {NoId, 0}
  BY DEF Knows, EffectsOK
<1> QED  BY <1>1, <1>2, <1>3, <1>4 DEF EffectsOK

\* What a step may do to what the handler of call d was told.
Hears(d) ==
    /\ \A r \in resps' : r.call = d /\ r.result = "ok" =>
          r \in resps \/ (Active(d)' => Truthful(d, r)')
    /\ stage'[d] = "aggregating" => stage[d] = "aggregating" \/ \A r \in resps' : r.call # d
    /\ \/ req[d].op = "delete" /\ (stage'[d] = "deleting" \/ CommitSent(d)')
       \/ req[d].op = "create" /\ CommitSent(d)'
       => /\ body'[d] = body[d]
          /\ stage'[d] = "deleting" \/ CommitSent(d)' => stage[d] = "deleting" \/ CommitSent(d)
          /\ req[d].op = "create" => CommitSent(d)

\* The list and the account a handler was told of stay those of its transaction.
LEMMA ReadsStay ==
    ASSUME EffectsInv, NEW d \in Calls, Frozen(d), Hears(d), req' = req, ids'[d] = ids[d]
    PROVE  ReadsOK(d)'
<1> USE DEF EffectsInv, EffectInv, Effective
<1> SUFFICES ASSUME Active(d)' PROVE ReadsOK(d)'
  BY DEF ReadsOK
<1>1. Active(d) /\ ReadsOK(d)
  BY DEF Frozen
<1>2. ASSUME NEW r \in resps', r.call = d, r.result = "ok" PROVE Truthful(d, r)'
  <2> SUFFICES ASSUME r \in resps PROVE Truthful(d, r)'
    BY <1>2 DEF Hears
  <2>1. Truthful(d, r)
    BY <1>1, <1>2 DEF ReadsOK
  <2>2. ASSUME r.verb \in SessionReads PROVE Base(d)' = Base(d) /\ Origin(d)' = Origin(d)
    <3>1. Op(r) \in Acknowledged(d)
      BY <1>2, <2>2 DEF Acknowledged, Success
    <3>2. phase[d] = "open"
      BY <1>1, <3>1, NothingYet DEF Active
    <3> QED  BY <3>2, FrozenFacts
  <2>3. stage'[d] = "aggregating" => stage[d] = "aggregating"
    BY <1>2 DEF Hears
  <2> QED  BY <2>1, <2>2, <2>3 DEF Truthful, SessionReads
<1>3. ASSUME req[d].op = "delete", stage'[d] = "deleting" \/ CommitSent(d)'
      PROVE  body'[d] = Public(Assemble(Origin(d)', req[d].id))
  <2>1. body'[d] = body[d] /\ (stage[d] = "deleting" \/ CommitSent(d))
    BY <1>3 DEF Hears
  <2>2. <<"list", "account">> \in Acknowledged(d)
    BY <1>3, <2>1 DEF Acknowledged, Passed, Plan, AccountList
  <2>3. phase[d] = "open"
    BY <1>1, <2>2, NothingYet DEF Active
  <2> QED  BY <1>1, <1>3, <2>1, <2>3, FrozenFacts DEF ReadsOK
<1>4. ASSUME req[d].op = "create", CommitSent(d)'
      PROVE  body'[d] = Public(Assemble(Base(d)', ids[d]["account"]))
  <2>1. body'[d] = body[d] /\ CommitSent(d)
    BY <1>4 DEF Hears
  <2>2. <<"insert", "account">> \in Acknowledged(d)
    BY <1>4, <2>1 DEF Acknowledged, Plan, AccountSave
  <2>3. phase[d] = "open"
    BY <1>1, <2>2, NothingYet DEF Active
  <2> QED  BY <1>1, <1>4, <2>1, <2>3, FrozenFacts DEF ReadsOK
<1> QED  BY <1>2, <1>3, <1>4 DEF ReadsOK

-----------------------------------------------------------------------------
(* The steps of a handler.                                                 *)

\* Once the commit is sent nothing else of the call is created, on the wire or
\* waiting to be seen, and the handler waits no more.
LEMMA CommitSentFacts ==
    ASSUME EffectsInv, NEW c \in Calls, CommitSent(c)
    PROVE  /\ todo[c] = {} /\ stage[c] \notin Waiting \cup {"new", "aborting"}
           /\ \A m \in reqs \cup late : m.call = c => m.verb = "commit"
           /\ \A r \in resps : r.call = c => Op(r) = <<"commit", "outer">>
<1>1. /\ CommitOK(c) /\ LateOK(c) /\ EndOK(c) /\ EffectsOK(c)
  BY DEF EffectsInv, EffectInv, Effective, SessionInv, Disciplined
<1>2. Decided(c)
  BY <1>1 DEF CommitSent, CommitOK, LateOK, Decided, Over
<1>3. CASE tstate[c] = "committed"
  BY <1>1, <1>3 DEF EndOK, Silent, Waiting, Over, EffectsOK
<1>4. CASE stage[c] = "committing"
  BY <1>1, <1>4 DEF CommitOK, Waiting, Over, EffectsOK
<1>5. CASE stage[c] = "crashed"
  BY <1>1, <1>5 DEF EndOK, Silent, Waiting, Over, EffectsOK
<1> QED  BY <1>2, <1>3, <1>4, <1>5 DEF Decided

\* The continuation of a stage awaits operations of the requests it is for.
LEMMA AwaitedRequest ==
    ASSUME TypeInv, NEW c \in Calls, NEW st, NEW r, Awaited(c, st, r)
    PROVE  /\ st \in {"saving", "account", "linking", "aggregating"}
                => req[c].op \in {"create", "seed"}
           /\ st \in {"setting", "finding", "populating"} => req[c].op = "update"
           /\ st \in {"listing", "deleting"} => req[c].op = "delete" /\ req[c].id \in Ids
           /\ st = "saving" => Op(r) \in ChildSaves
           /\ st = "account" => Op(r) \in AccountSave
           /\ st = "linking" => Op(r) \in ParentLinks
           /\ st = "aggregating" => Op(r) \in AccountRead
           /\ st = "setting" => Op(r) \in {"update"} \X ChildKinds
           /\ st = "listing" => Op(r) \in AccountList
           /\ st = "deleting" => Op(r) \in Deletes
<1>1. stage[c] = st /\ Op(r) \in pending[c] /\ Justified(c, Op(r)) /\ StageOps(c)
  BY DEF Awaited, TypeInv, OperationsOK
<1>2. st \in {"saving", "account", "linking", "aggregating"} => req[c].op \in {"create", "seed"}
  BY <1>1 DEF StageOps, Justified, ChildSaves, AccountSave, ParentLinks, AccountRead,
     AccountFind, Populates, AccountList, Deletes, ChildKinds, Kinds
<1>3. st \in {"setting", "finding", "populating"} => req[c].op = "update"
  BY <1>1 DEF StageOps, Justified, ChildSaves, AccountSave, ParentLinks, AccountRead,
     AccountFind, Populates, AccountList, Deletes, ChildKinds, Kinds
<1>4. st \in {"listing", "deleting"} => req[c].op = "delete" /\ req[c].id # NoId
  BY <1>1 DEF StageOps, Justified, ChildSaves, AccountSave, ParentLinks, AccountRead,
     AccountFind, Populates, AccountList, Deletes, ChildKinds, Kinds
<1>5. req[c].id \in Ids \cup {NoId}
  BY RequestFacts
<1> QED  BY <1>1, <1>2, <1>3, <1>4, <1>5 DEF StageOps

\* A step that leaves the server alone keeps the data of every call.
LEMMA HandlerFrozen ==
    ASSUME UNCHANGED serverVars, NEW d \in Calls
    PROVE  Frozen(d) /\ Base(d)' = Base(d) /\ Origin(d)' = Origin(d)
<1>1. UNCHANGED <<db, phase, view, wrote>>
  BY DEF serverVars
<1> QED  BY <1>1 DEF Frozen, Base, Origin, Active

\* A step of a handler that is told nothing more than what its messages said, and
\* sends no commit.
LEMMA HandlerKeeps ==
    ASSUME EffectsInv, NEW c \in Calls, UNCHANGED serverVars, req' = req, ids'[c] = ids[c],
           \A r \in resps' : r.call = c /\ r \notin resps => ~Success(r) /\ r.result # "ok",
           Passed(c)' \subseteq Acknowledged(c),
           \A m \in reqs' : m.call = c /\ m \notin reqs =>
              /\ ~CommitSent(c) /\ m.verb # "commit"
              /\ m.verb = "link" => \A kind \in Kinds : <<"insert", kind>> \in Acknowledged(c),
           stage'[c] = "saving" => stage[c] = "saving"
    PROVE  /\ Written(c)' /\ EffectsOK(c)'
           /\ CommitSent(c)' => CommitSent(c)
           /\ /\ stage'[c] = "aggregating" => stage[c] = "aggregating" \/ \A r \in resps' : r.call # c
              /\ stage'[c] = "deleting" => stage[c] = "deleting"
              /\ stage'[c] = "deleting" \/ CommitSent(c) => body'[c] = body[c]
              => ReadsOK(c)'
<1>1. Frozen(c)
  BY HandlerFrozen
<1>2. late' = late
  BY DEF serverVars
<1>3. CommitSent(c)' => CommitSent(c)
  BY <1>2 DEF CommitSent
<1>4. Plan(c)' = Plan(c)
  BY DEF Plan, PartUpdates, Parts
<1>5. Acknowledged(c)' \subseteq Acknowledged(c)
  <2> SUFFICES ASSUME NEW op \in Acknowledged(c)' PROVE op \in Acknowledged(c)
    OBVIOUS
  <2>1. \/ \E r \in resps' : r.call = c /\ Success(r) /\ op = Op(r)
        \/ op \in Passed(c)'
        \/ CommitSent(c)' /\ op \in Plan(c)
    <3>1. op \in {Op(r) : r \in {q \in resps' : q.call = c /\ Success(q)}}
                  \cup Passed(c)' \cup IF CommitSent(c)' THEN Plan(c)' ELSE {}
      BY DEF Acknowledged
    <3> QED  BY <3>1, <1>4
  <2>2. ASSUME NEW r \in resps', r.call = c, Success(r) PROVE Op(r) \in Acknowledged(c)
    BY <2>2 DEF Acknowledged
  <2>3. Plan(c) \subseteq Acknowledged(c) \/ ~CommitSent(c)
    BY DEF Acknowledged
  <2> QED  BY <2>1, <2>2, <2>3, <1>3
<1>6. Knows(c)
  BY <1>2, <1>5 DEF Knows
<1>7. Hears(c) => ReadsOK(c)'
  BY <1>1, ReadsStay
<1> QED  BY <1>1, <1>3, <1>6, <1>7, WrittenStays, EffectsStay DEF Hears

\* The handler waits for the rest of its Promise.all.
LEMMA ConsumeKeeps ==
    ASSUME EffectsInv, NEW c \in Calls, UNCHANGED serverVars,
           UNCHANGED <<req, ids, stage, body, reqs>>,
           resps' \subseteq resps, Passed(c)' \subseteq Acknowledged(c)
    PROVE  Effective(c)'
  BY HandlerKeeps DEF Effective

\* The handler abandons its transaction.
LEMMA AbandonKeeps ==
    ASSUME EffectsInv, NEW c \in Calls, UNCHANGED serverVars, stage[c] \in Waiting,
           NEW status, Abandon(c, status), resps' \subseteq resps, UNCHANGED <<req, ids, body>>
    PROVE  Effective(c)'
<1>1. ~CommitSent(c)
  BY CommitSentFacts
<1>2. stage'[c] \in {"answered", "aborting"}
  BY DEF Abandon, EffectsInv, SessionInv, TypeInv, TypeOK, CallsTypeOK
<1>3. Passed(c)' = {}
  BY <1>2 DEF Passed
<1>4. \A m \in reqs' : m \notin reqs => m.verb = "abort"
  BY DEF Abandon, Sent, Message
<1> QED  BY <1>1, <1>2, <1>3, <1>4, HandlerKeeps DEF Effective

\* The handler commits: all it has planned has been acknowledged, and the answer is
\* what it was told.
LEMMA CommitKeeps ==
    ASSUME EffectsInv, NEW c \in Calls, UNCHANGED serverVars,
           NEW st \in {"linking", "aggregating", "populating", "deleting"}, NEW r,
           Awaited(c, st, r), pending[c] = {Op(r)}, r.result # "lost",
           resps' = resps \ {r}, Commit(c), UNCHANGED <<req, ids>>,
           Plan(c) \subseteq Acknowledged(c),
           req[c].op = "create" => st = "aggregating" /\ r.result = "ok" /\ body'[c] = r.docs,
           req[c].op = "delete" => st = "deleting" /\ body'[c] = body[c]
    PROVE  Effective(c)'
<1>1. st \in Waiting /\ stage[c] = st /\ r \in resps /\ r.call = c
  BY DEF Waiting, Stages, Over, Awaited
<1>2. ~CommitSent(c)
  BY <1>1, CommitSentFacts
<1>3. /\ \A m \in reqs \cup late : m.call # c
      /\ \A q \in resps' : q.call # c
  BY <1>1, LastSilent DEF EffectsInv
<1>4. CASE tstate[c] = "starting"
  <2>1. stage'[c] = "answered" /\ reqs' = reqs
    BY <1>4 DEF Commit, EffectsInv, SessionInv, TypeInv, TypeOK, CallsTypeOK
  <2>2. Passed(c)' = {}
    BY <2>1 DEF Passed
  <2> QED  BY <1>2, <1>3, <2>1, <2>2, HandlerKeeps DEF Effective
<1>5. CASE tstate[c] # "starting"
  <2> DEFINE m == Message(c, <<"commit", "outer">>, FALSE)
  <2>1. stage'[c] = "committing" /\ reqs' = reqs \cup {m} /\ late' = late
    BY <1>5 DEF Commit, Sent, serverVars, EffectsInv, SessionInv, TypeInv, TypeOK, CallsTypeOK
  <2>2. m.call = c /\ m.verb = "commit"
    BY DEF Message
  <2>3. \A n \in reqs' \cup late' : n.call = c => n.verb = "commit"
    BY <1>3, <2>1, <2>2
  <2>4. Acknowledged(c)' \subseteq Acknowledged(c)
    <3>1. Passed(c)' = {} /\ Plan(c)' = Plan(c)
      BY <2>1 DEF Passed, Plan, PartUpdates, Parts
    <3>2. Acknowledged(c)' \subseteq
              {Op(q) : q \in {n \in resps' : n.call = c /\ Success(n)}}
              \cup Passed(c)' \cup Plan(c)'
      BY DEF Acknowledged
    <3> QED  BY <1>3, <3>1, <3>2
  <2>5. Knows(c)
    BY <1>2, <2>1, <2>3, <2>4 DEF Knows
  <2>6. Frozen(c) /\ Base(c)' = Base(c) /\ Origin(c)' = Origin(c)
    BY HandlerFrozen
  <2>7. ReadsOK(c)'
    <3>1. ASSUME Active(c) PROVE ReadsOK(c)'
      <4>1. ReadsOK(c)
        BY DEF EffectsInv, EffectInv, Effective
      <4>2. req[c].op = "create" => body'[c] = Public(Assemble(Base(c), ids[c]["account"]))
        <5>1. st = "aggregating" => r.verb = "aggregate"
          BY AwaitedRequest DEF AccountRead, Op, EffectsInv, SessionInv
        <5> QED  BY <1>1, <3>1, <4>1, <5>1 DEF ReadsOK, Truthful
      <4>3. req[c].op = "delete" => body'[c] = Public(Assemble(Origin(c), req[c].id))
        BY <1>1, <3>1, <4>1 DEF ReadsOK
      <4> QED  BY <1>3, <2>6, <4>2, <4>3 DEF ReadsOK
    <3>2. Active(c)' => Active(c)
      BY <2>6 DEF Frozen, Active
    <3> QED  BY <3>1, <3>2 DEF ReadsOK
  <2> QED  BY <2>5, <2>6, <2>7, WrittenStays, EffectsStay DEF Effective
<1> QED  BY <1>4, <1>5

\* A step that is none of call d's takes at most messages of it off the wire.
LEMMA UntouchedKeeps ==
    ASSUME EffectsInv, NEW d \in Calls, Frozen(d), Untouched(d),
           missed'[d] = missed[d], ids'[d] = ids[d], body'[d] = body[d]
    PROVE  Effective(d)'
<1> USE DEF Untouched
<1>1. CommitSent(d)' => CommitSent(d)
  BY DEF CommitSent
<1>2. Plan(d)' = Plan(d) /\ Passed(d)' = Passed(d)
  BY DEF Plan, Passed, PartUpdates, Parts
<1>3. Acknowledged(d)' \subseteq Acknowledged(d)
  <2>1. Acknowledged(d)' \subseteq
            {Op(q) : q \in {n \in resps : n.call = d /\ Success(n)}}
            \cup Passed(d) \cup IF CommitSent(d) THEN Plan(d) ELSE {}
    BY <1>1, <1>2 DEF Acknowledged
  <2> QED  BY <2>1 DEF Acknowledged
<1>4. Knows(d) /\ Hears(d)
  BY <1>1, <1>3 DEF Knows, Hears
<1> QED  BY <1>4, WrittenStays, EffectsStay, ReadsStay DEF Effective

\* What a handler has just been told, and what it passed before, it knows.
LEMMA Heard ==
    ASSUME NEW c, NEW r \in resps, r.call = c, Success(r)
    PROVE  Op(r) \in Acknowledged(c) /\ Passed(c) \subseteq Acknowledged(c)
  BY DEF Acknowledged

\* A Create and a seed begin with nothing done.
LEMMA BeginKeeps ==
    ASSUME EffectsInv, NEW c \in Calls, UNCHANGED serverVars,
           (CreateBegin(c) /\ req[c].op = "create") \/ (SeedBegin(c) /\ req[c].op = "seed")
    PROVE  Effective(c)'
<1>1. /\ stage'[c] = "saving" /\ pending'[c] = ChildSaves
      /\ req[c].op = "create" => ids'[c]["account"] = NoId
      /\ req[c].op = "seed" => \A kind \in Kinds : ids'[c][kind] = req[c].id
      /\ UNCHANGED <<req, reqs, resps, late, phase, wrote>>
  BY DEF CreateBegin, SeedBegin, EffectsInv, SessionInv, TypeInv, TypeOK, CallsTypeOK,
     serverVars, Kinds, ChildKinds
<1>2. /\ Silent(c) /\ phase[c] = "none" /\ \A m \in late : m.call # c
  BY NewGaveNothingUp
  DEF EffectsInv, SessionInv, Disciplined, EndOK, PhaseOK, CreateBegin, SeedBegin
<1>3. wrote[c] = {}
  BY <1>2, Unstarted
<1>4. Written(c)'
  BY <1>1, <1>3 DEF Written
<1>5. ~CommitSent(c)'
  BY <1>1, <1>2 DEF CommitSent, Silent
<1>6. Acknowledged(c)' = {}
  <2>1. Passed(c)' = {}
    BY <1>1 DEF Passed
  <2>2. Acknowledged(c)' = {Op(q) : q \in {n \in resps' : n.call = c /\ Success(n)}}
                           \cup Passed(c)' \cup IF CommitSent(c)' THEN Plan(c)' ELSE {}
    BY DEF Acknowledged
  <2> QED  BY <1>1, <1>2, <1>5, <2>1, <2>2 DEF Silent
<1>7. EffectsOK(c)'
  <2>1. SeedRequest.id = 0
    BY DEF SeedRequest
  <2>2. req[c].op = "seed" => req[c].id = 0
    <3>1. req[c].op = "seed" => req[c] = SeedRequest
      BY RequestFacts DEF EffectsInv, SessionInv
    <3> QED  BY <2>1, <3>1
  <2> QED  BY <1>1, <1>2, <1>5, <1>6, <2>2 DEF EffectsOK, Silent
<1>8. ReadsOK(c)'
  BY <1>1, <1>2, <1>5 DEF ReadsOK, Silent
<1> QED  BY <1>4, <1>7, <1>8 DEF Effective

\* One child is saved; the account, not written yet, gets its id after the last one.
LEMMA ChildSavedKeeps ==
    ASSUME EffectsInv, NEW c \in Calls, UNCHANGED serverVars,
           (ChildSaved(c) /\ req[c].op = "create") \/ SeedSaved(c)
    PROVE  Effective(c)'
<1>1. PICK r \in resps :
        /\ Awaited(c, "saving", r) /\ r.result = "ok" /\ resps' = resps \ {r}
        /\ IF pending[c] = {Op(r)}
           THEN Proceed(c, "account", AccountSave)
           ELSE /\ pending' = [pending EXCEPT ![c] = @ \ {Op(r)}]
                /\ UNCHANGED <<stage, ids, reqs>>
        /\ \/ ids' = [ids EXCEPT ![c]["account"] = clock] /\ req[c].op = "create"
           \/ ids' = ids
  BY DEF ChildSaved, SeedSaved
<1>2. UNCHANGED <<req, body, missed, late>>
  BY DEF ChildSaved, SeedSaved, serverVars
<1>3. /\ stage[c] = "saving" /\ r.call = c /\ "saving" \in Waiting /\ Success(r)
      /\ Op(r) \in ChildSaves
  <2>1. stage[c] = "saving" /\ r.call = c /\ "saving" \in Waiting
    BY <1>1 DEF Awaited, Waiting, Stages, Over
  <2>2. Op(r) \in ChildSaves
    BY <1>1, AwaitedRequest DEF EffectsInv, SessionInv
  <2> QED  BY <1>1, <2>1, <2>2 DEF Success, ChildSaves, Op
<1>4. Op(r) \in Acknowledged(c) /\ ChildSaves \ pending[c] \subseteq Acknowledged(c)
  BY <1>3, Heard DEF Passed
<1>5. pending \in [Calls -> SUBSET Operations] /\ stage \in [Calls -> Stages]
      /\ ids \in [Calls -> [Kinds -> Ids \cup {NoId}]]
  BY DEF EffectsInv, SessionInv, TypeInv, TypeOK, CallsTypeOK
<1>6. CASE pending[c] # {Op(r)}
  <2>1. Passed(c)' \subseteq Acknowledged(c)
    BY <1>1, <1>3, <1>4, <1>5, <1>6 DEF Passed
  <2> QED  BY <1>1, <1>2, <1>6, <2>1, ConsumeKeeps
<1>7. CASE pending[c] = {Op(r)}
  <2>1. /\ stage'[c] = "account" /\ reqs' = reqs \cup Sent(c, AccountSave)
        /\ Passed(c)' \subseteq Acknowledged(c)
    BY <1>1, <1>4, <1>5, <1>7 DEF Proceed, Passed
  <2>2. \A m \in Sent(c, AccountSave) : m.verb = "insert"
    BY DEF Sent, AccountSave, Message
  <2>3. /\ \A m \in reqs \cup late : m.call # c
        /\ \A q \in resps' : q.call # c
    BY <1>1, <1>3, <1>7, LastSilent DEF EffectsInv
  <2>4. CASE ids'[c] = ids[c]
    <3>1. ~CommitSent(c)
      BY <1>3, CommitSentFacts
    <3> QED  BY <1>1, <1>2, <2>1, <2>2, <2>4, <3>1, HandlerKeeps DEF Effective
  <2>5. CASE ids' = [ids EXCEPT ![c]["account"] = clock] /\ req[c].op = "create"
    <3>1. ids[c]["account"] = NoId /\ \A k \in ChildKinds : ids'[c][k] = ids[c][k]
      BY <1>3, <1>5, <2>5
      DEF EffectsInv, EffectInv, Effective, EffectsOK, ChildKinds, Kinds
    <3>2. Base(c)' = Base(c) /\ UNCHANGED <<db, wrote, phase>>
      BY HandlerFrozen DEF serverVars
    <3>3. Written(c)'
      <4> SUFFICES ASSUME Active(c), NEW kind \in Kinds, NEW i \in Ids, <<kind, i>> \in wrote[c]
                   PROVE  Creating(c, kind, i)'
        BY <1>2, <2>5, <3>2 DEF Written, Active
      <4>1. Creating(c, kind, i)
        BY <2>5 DEF EffectsInv, EffectInv, Effective, Written
      <4>2. kind \in ChildKinds /\ i = ids[c][kind]
        BY <3>1, <4>1, IdsFacts DEF Creating, ChildKinds
      <4>3. kind # "account"
        BY <4>2 DEF ChildKinds
      <4> DEFINE new(p) == [NewChild(kind, NewPatch(c, kind)) EXCEPT !.parent = p]
      <4>4. Base(c)[<<kind, i>>] \in {new(p) : p \in {NoId, ids[c]["account"]}}
        BY <4>1, <4>3 DEF Creating
      <4>5. Base(c)[<<kind, i>>] \in {new(p) : p \in {NoId, ids'[c]["account"]}}
        BY <3>1, <4>4
      <4>6. NewPatch(c, kind)' = NewPatch(c, kind)
        BY <1>2 DEF NewPatch
      <4>7. /\ Valid(kind, NewPatch(c, kind)) /\ db[<<kind, i>>] = NoDoc
            /\ Base(c)[<<kind, i>>] # NoDoc
        BY <4>1, <4>3 DEF Creating
      <4> QED  BY <3>1, <3>2, <4>2, <4>3, <4>5, <4>6, <4>7 DEF Creating
    <3>4. ~CommitSent(c)'
      BY <1>2, <2>1, <2>2, <2>3 DEF CommitSent
    <3>5. Acknowledged(c)' \subseteq ChildSaves
      <4>1. Passed(c)' = ChildSaves
        BY <2>1 DEF Passed
      <4>2. Acknowledged(c)' = {Op(q) : q \in {n \in resps' : n.call = c /\ Success(n)}}
                               \cup Passed(c)' \cup IF CommitSent(c)' THEN Plan(c)' ELSE {}
        BY DEF Acknowledged
      <4> QED  BY <2>3, <3>4, <4>1, <4>2
    <3>6. EffectsOK(c)'
      <4>1. ASSUME Active(c)', NEW op \in Acknowledged(c)' PROVE HasEffect(c, op)'
        <5>1. op \in ChildSaves /\ op \in Acknowledged(c) /\ op[1] = "insert" /\ op[2] \in ChildKinds
          BY <4>1, <3>5, <1>4, <1>7 DEF ChildSaves
        <5>2. HasEffect(c, op)
          BY <4>1, <3>2, <5>1 DEF EffectsInv, EffectInv, Effective, EffectsOK, Active
        <5> QED  BY <3>1, <3>2, <5>1, <5>2 DEF HasEffect, Saved
      <4> QED  BY <1>2, <2>1, <2>2, <2>3, <2>5, <3>4, <4>1 DEF EffectsOK
    <3>7. ReadsOK(c)'
      BY <1>2, <2>1, <2>3, <2>5, <3>4 DEF ReadsOK
    <3> QED  BY <3>3, <3>6, <3>7 DEF Effective
  <2> QED  BY <1>1, <2>4, <2>5
<1> QED  BY <1>6, <1>7

\* A duplicate is no success: the session is aborted.
LEMMA ChildDuplicateKeeps ==
    ASSUME EffectsInv, NEW c \in Calls, UNCHANGED serverVars, ChildDuplicate(c)
    PROVE  Effective(c)'
<1>1. PICK r \in resps :
        /\ r.call = c /\ Op(r) \in ChildSaves /\ resps' = resps \ {r}
        /\ reqs' = reqs \cup IF tstate[c] = "inProgress"
                            THEN Sent(c, {<<"abort", r.kind>>}) ELSE {}
  BY DEF ChildDuplicate
<1>2. UNCHANGED <<req, stage, pending, missed, body, ids>>
  BY DEF ChildDuplicate
<1>3. ~CommitSent(c)
  BY <1>1, CommitSentFacts DEF ChildSaves
<1>4. \A m \in reqs' : m \notin reqs => m.verb = "abort"
  BY <1>1 DEF Sent, Message
<1>5. Passed(c)' \subseteq Acknowledged(c)
  BY <1>2 DEF Passed, Acknowledged, PartUpdates, Parts
<1> QED  BY <1>1, <1>2, <1>3, <1>4, <1>5, HandlerKeeps DEF Effective

\* A handler that is done with its transaction, or refuses to open one, knows
\* nothing of it any more.
LEMMA EndKeeps ==
    ASSUME EffectsInv, NEW c \in Calls, UNCHANGED serverVars, UNCHANGED <<req, body, ids, reqs>>,
           stage'[c] \in Over, resps' \subseteq resps
    PROVE  Effective(c)'
<1>1. Passed(c)' = {}
  BY DEF Passed, Over
<1> QED  BY <1>1, HandlerKeeps DEF Effective, Over

\* The steps that end a call, or hear of its aborts, keep what it did.
LEMMA EndingsKeep ==
    ASSUME EffectsInv, NEW c \in Calls, UNCHANGED serverVars,
           \/ ChildAbortDone(c) \/ AbortDone(c) \/ Committed(c) \/ CommitFailed(c)
           \/ NotConnected(c) \/ DeleteInvalid(c)
           \/ UpdateThrows(c) \/ UpdateUnasked(c) \/ DeleteThrows(c)
    PROVE  Effective(c)'
<1> USE DEF EffectsInv, SessionInv, TypeInv, TypeOK, CallsTypeOK
<1>1. CASE AbortDone(c) \/ Committed(c) \/ CommitFailed(c)
  <2>1. stage'[c] \in Over /\ resps' \subseteq resps /\ UNCHANGED <<req, body, ids, reqs>>
    BY <1>1 DEF AbortDone, Committed, CommitFailed, Over
  <2> QED  BY <2>1, EndKeeps
<1>2. CASE NotConnected(c) \/ DeleteInvalid(c)
  <2>1. stage'[c] \in Over /\ resps' \subseteq resps /\ UNCHANGED <<req, body, ids, reqs>>
    BY <1>2 DEF NotConnected, DeleteInvalid, Refuse, Over
  <2> QED  BY <2>1, EndKeeps
<1>3. CASE ChildAbortDone(c)
  <2>1. /\ resps' \subseteq resps /\ UNCHANGED <<req, pending, missed, body, ids, reqs>>
        /\ stage'[c] = IF stage[c] = "saving" THEN "answered" ELSE stage[c]
    BY <1>3 DEF ChildAbortDone
  <2>2. Passed(c)' \subseteq Acknowledged(c)
    BY <2>1 DEF Passed, Acknowledged, PartUpdates, Parts
  <2> QED  BY <2>1, <2>2, HandlerKeeps DEF Effective
<1>4. CASE UpdateThrows(c) \/ UpdateUnasked(c) \/ DeleteThrows(c)
  <2>1. stage'[c] \in Over /\ resps' \subseteq resps /\ UNCHANGED <<req, body, ids, reqs>>
    BY <1>4, OmittedFacts DEF Over
  <2> QED  BY <2>1, EndKeeps
<1> QED  BY <1>1, <1>2, <1>3, <1>4

\* The catches that abandon the transaction.
LEMMA RejectedKeeps ==
    ASSUME EffectsInv, NEW c \in Calls, UNCHANGED serverVars,
           \/ ChildRejected(c) \/ StepRejected(c) \/ PartRejected(c) \/ NotFound(c)
           \/ ListRejected(c) \/ DeleteRejected(c) \/ SeedRejected(c)
    PROVE  Effective(c)'
<1>1. resps' \subseteq resps /\ UNCHANGED <<req, body, ids>>
  BY DEF ChildRejected, StepRejected, PartRejected, NotFound, ListRejected,
         DeleteRejected, SeedRejected
<1>2. \E status : Abandon(c, status)
  BY DEF ChildRejected, StepRejected, PartRejected, NotFound, ListRejected, DeleteRejected,
         SeedRejected
<1>3. stage[c] \in Waiting
  BY DEF ChildRejected, StepRejected, PartRejected, NotFound, ListRejected,
         DeleteRejected, SeedRejected, Awaited, Waiting, Stages, Over
<1> QED  BY <1>1, <1>2, <1>3, AbandonKeeps

\* The back references are sent when the four documents are saved.
LEMMA AccountSavedKeeps ==
    ASSUME EffectsInv, NEW c \in Calls, UNCHANGED serverVars, AccountSaved(c)
    PROVE  Effective(c)'
<1>1. PICK r \in resps :
        Awaited(c, "account", r) /\ r.result = "ok" /\ resps' = resps \ {r}
  BY DEF AccountSaved
<1>2. /\ Proceed(c, "linking", ParentLinks)
      /\ UNCHANGED <<req, missed, body, ids>>
  BY DEF AccountSaved
<1>3. /\ stage'[c] = "linking" /\ pending'[c] = ParentLinks
      /\ reqs' = reqs \cup Sent(c, ParentLinks)
  BY <1>2 DEF Proceed, EffectsInv, SessionInv, TypeInv, TypeOK, CallsTypeOK
<1>4. stage[c] = "account" /\ r.call = c /\ stage[c] \in Waiting
  BY <1>1 DEF Awaited, Waiting, Stages, Over
<1>5. Op(r) = <<"insert", "account">> /\ Success(r)
  <2>1. Op(r) = <<"insert", "account">>
    BY <1>1, AwaitedRequest DEF AccountSave, EffectsInv, SessionInv
  <2> QED  BY <1>1, <2>1 DEF Success, Op
<1>6. ChildSaves \cup AccountSave \subseteq Acknowledged(c)
  BY <1>4, <1>5, Heard DEF Passed, AccountSave
<1>7. Passed(c)' \subseteq Acknowledged(c)
  BY <1>3, <1>6 DEF Passed
<1>8. \A kind \in Kinds : <<"insert", kind>> \in Acknowledged(c)
  BY <1>6 DEF ChildSaves, AccountSave, Kinds, ChildKinds
<1>9. ~CommitSent(c)
  BY <1>4, CommitSentFacts
<1>10. \A m \in reqs' : m \notin reqs => m.verb = "link"
  BY <1>3 DEF Sent, Message, ParentLinks
<1> QED  BY <1>1, <1>2, <1>3, <1>7, <1>8, <1>9, <1>10, HandlerKeeps DEF Effective

\* One back reference is written; the account is read, or committed, after the last.
LEMMA LinkedKeeps ==
    ASSUME EffectsInv, NEW c \in Calls, UNCHANGED serverVars,
           ParentLinked(c) \/ (SeedLinked(c) /\ req[c].op = "seed")
    PROVE  Effective(c)'
<1>1. PICK r \in resps :
        /\ Awaited(c, "linking", r) /\ r.result \in Fulfilled /\ resps' = resps \ {r}
        /\ IF pending[c] = {Op(r)}
           THEN \/ Proceed(c, "aggregating", AccountRead)
                \/ Commit(c) /\ req[c].op = "seed"
           ELSE /\ pending' = [pending EXCEPT ![c] = @ \ {Op(r)}]
                /\ UNCHANGED <<stage, reqs>>
  BY DEF ParentLinked, SeedLinked
<1>2. UNCHANGED <<req, missed, body, ids>>
  BY DEF ParentLinked, SeedLinked
<1>3. stage[c] = "linking" /\ r.call = c /\ stage[c] \in Waiting
  BY <1>1 DEF Awaited, Waiting, Stages, Over
<1>4. Op(r) \in ParentLinks
  BY <1>1, AwaitedRequest DEF EffectsInv, SessionInv
<1>5. Success(r)
  BY <1>1, <1>4 DEF ParentLinks, Success, Op
<1>6. /\ Op(r) \in Acknowledged(c)
      /\ ChildSaves \cup AccountSave \cup (ParentLinks \ pending[c]) \subseteq Acknowledged(c)
  BY <1>3, <1>5, Heard DEF Passed
<1>7. pending \in [Calls -> SUBSET Operations] /\ stage \in [Calls -> Stages]
  BY DEF EffectsInv, SessionInv, TypeInv, TypeOK, CallsTypeOK
<1>8. CASE pending[c] # {Op(r)}
  <2>1. Passed(c)' \subseteq Acknowledged(c)
    BY <1>1, <1>3, <1>6, <1>7, <1>8 DEF Passed
  <2> QED  BY <1>1, <1>2, <1>8, <2>1, ConsumeKeeps
<1>9. CASE pending[c] = {Op(r)}
  <2>1. ChildSaves \cup AccountSave \cup ParentLinks \subseteq Acknowledged(c)
    BY <1>6, <1>9
  <2>2. CASE Proceed(c, "aggregating", AccountRead)
    <3>1. stage'[c] = "aggregating" /\ reqs' = reqs \cup Sent(c, AccountRead)
      BY <1>7, <2>2 DEF Proceed
    <3>2. Passed(c)' \subseteq Acknowledged(c)
      BY <2>1, <3>1 DEF Passed
    <3>3. ~CommitSent(c)
      BY <1>3, CommitSentFacts
    <3>4. \A m \in reqs' : m \notin reqs => m.verb = "aggregate"
      BY <3>1 DEF Sent, Message, AccountRead
    <3>5. \A q \in resps' : q.call # c
      BY <1>1, <1>3, <1>9, LastSilent DEF EffectsInv
    <3> QED  BY <1>1, <1>2, <3>1, <3>2, <3>3, <3>4, <3>5, HandlerKeeps DEF Effective
  <2>3. CASE Commit(c) /\ req[c].op = "seed"
    <3>1. Plan(c) \subseteq Acknowledged(c)
      BY <2>1, <2>3 DEF Plan
    <3>2. r.result # "lost"
      BY <1>1 DEF Fulfilled
    <3> QED  BY <1>1, <1>2, <1>9, <2>3, <3>1, <3>2, CommitKeeps
  <2> QED  BY <1>1, <1>9, <2>2, <2>3
<1> QED  BY <1>8, <1>9

\* The answer of a Create is what it reads back.
LEMMA AggregatedKeeps ==
    ASSUME EffectsInv, NEW c \in Calls, UNCHANGED serverVars, Aggregated(c), req[c].op = "create"
    PROVE  Effective(c)'
<1>1. PICK r \in resps :
        /\ Awaited(c, "aggregating", r) /\ r.result = "ok" /\ resps' = resps \ {r}
        /\ \/ Abandon(c, "NOT_FOUND") /\ UNCHANGED body
           \/ body' = [body EXCEPT ![c] = r.docs] /\ Commit(c)
  BY DEF Aggregated
<1>2. UNCHANGED <<req, ids>>
  BY DEF Aggregated
<1>3. stage[c] = "aggregating" /\ r.call = c /\ stage[c] \in Waiting /\ pending[c] = {Op(r)}
  BY <1>1, OnlyOneAwaited DEF Awaited, Waiting, Stages, Over, EffectsInv
<1>4. Plan(c) \subseteq Acknowledged(c)
  BY <1>3 DEF Plan, Acknowledged, Passed
<1>5. body' = [body EXCEPT ![c] = r.docs] => body'[c] = r.docs
  BY DEF EffectsInv, SessionInv, TypeInv, TypeOK, CallsTypeOK
<1>6. CASE Abandon(c, "NOT_FOUND") /\ UNCHANGED body
  BY <1>1, <1>2, <1>3, <1>6, AbandonKeeps
<1>7. CASE body' = [body EXCEPT ![c] = r.docs] /\ Commit(c)
  BY <1>1, <1>2, <1>3, <1>4, <1>5, <1>7, CommitKeeps
<1> QED  BY <1>1, <1>6, <1>7

\* An UpdateOne and a DeleteOne begin with nothing done.
LEMMA ChangeBeginKeeps ==
    ASSUME EffectsInv, NEW c \in Calls, UNCHANGED serverVars, UpdateBegin(c) \/ DeleteBegin(c)
    PROVE  Effective(c)'
<1>1. /\ UNCHANGED <<req, missed, body, ids, resps>> /\ stage[c] = "new"
      /\ stage'[c] \in {"answered", "setting", "finding", "listing"}
      /\ stage'[c] = "setting" => pending'[c] = PartUpdates(c)
      /\ stage'[c] = "finding" => Parts(c) = {}
      /\ reqs' = reqs \/ reqs' = reqs \cup Sent(c, AccountFind)
  BY DEF UpdateBegin, DeleteBegin, Proceed, EffectsInv, SessionInv, TypeInv, TypeOK, CallsTypeOK
<1>2. ~CommitSent(c)
  BY <1>1, CommitSentFacts
<1>3. Passed(c)' = {}
  BY <1>1 DEF Passed, PartUpdates, Parts
<1>4. \A m \in reqs' : m \notin reqs => m.verb = "find"
  BY <1>1 DEF Sent, Message, AccountFind
<1> QED  BY <1>1, <1>2, <1>3, <1>4, HandlerKeeps DEF Effective

\* One part is set; the account is looked for when all of them are.
LEMMA PartSetKeeps ==
    ASSUME EffectsInv, NEW c \in Calls, UNCHANGED serverVars, PartSet(c)
    PROVE  Effective(c)'
<1>1. PICK r \in resps :
        /\ Awaited(c, "setting", r) /\ r.result \in Fulfilled /\ resps' = resps \ {r}
        /\ missed' = [missed EXCEPT ![c] = @ \/ r.result # "ok"]
        /\ IF pending[c] # {Op(r)}
           THEN /\ pending' = [pending EXCEPT ![c] = @ \ {Op(r)}]
                /\ UNCHANGED <<stage, reqs>>
           ELSE \/ Abandon(c, "RESOURCE_EXHAUSTED")
                \/ ~missed'[c] /\ Proceed(c, "finding", AccountFind)
  BY DEF PartSet
<1>2. UNCHANGED <<req, body, ids>>
  BY DEF PartSet
<1>3. stage[c] = "setting" /\ r.call = c /\ stage[c] \in Waiting
  BY <1>1 DEF Awaited, Waiting, Stages, Over
<1>4. pending \in [Calls -> SUBSET Operations] /\ stage \in [Calls -> Stages]
      /\ missed \in [Calls -> BOOLEAN]
  BY DEF EffectsInv, SessionInv, TypeInv, TypeOK, CallsTypeOK
<1>5. ~missed'[c] => ~missed[c] /\ r.result = "ok"
  BY <1>1, <1>4
<1>6. r.verb = "update"
  BY <1>1, AwaitedRequest DEF Op, EffectsInv, SessionInv
<1>7. ~missed'[c] => Op(r) \in Acknowledged(c) /\ PartUpdates(c) \ pending[c] \subseteq Acknowledged(c)
  BY <1>3, <1>5, <1>6, Heard DEF Passed, Success
<1>8. PartUpdates(c)' = PartUpdates(c)
  BY <1>2 DEF PartUpdates, Parts
<1>9. CASE pending[c] # {Op(r)}
  <2>1. Passed(c)' \subseteq Acknowledged(c)
    BY <1>1, <1>3, <1>4, <1>7, <1>8, <1>9 DEF Passed
  <2> QED  BY <1>1, <1>2, <1>9, <2>1, ConsumeKeeps
<1>10. CASE Abandon(c, "RESOURCE_EXHAUSTED")
  BY <1>1, <1>2, <1>3, <1>10, AbandonKeeps
<1>11. CASE pending[c] = {Op(r)} /\ ~missed'[c] /\ Proceed(c, "finding", AccountFind)
  <2>1. stage'[c] = "finding" /\ reqs' = reqs \cup Sent(c, AccountFind)
    BY <1>4, <1>11 DEF Proceed
  <2>2. Passed(c)' \subseteq Acknowledged(c)
    BY <1>7, <1>8, <1>11, <2>1 DEF Passed
  <2>3. ~CommitSent(c)
    BY <1>3, CommitSentFacts
  <2>4. \A m \in reqs' : m \notin reqs => m.verb = "find"
    BY <2>1 DEF Sent, Message, AccountFind
  <2> QED  BY <1>1, <1>2, <2>1, <2>2, <2>3, <2>4, HandlerKeeps DEF Effective
<1> QED  BY <1>1, <1>9, <1>10, <1>11

\* The reads of an UpdateOne add nothing to what is done.
LEMMA FoundKeeps ==
    ASSUME EffectsInv, NEW c \in Calls, UNCHANGED serverVars, Found(c)
    PROVE  Effective(c)'
<1>1. PICK r \in resps :
        Awaited(c, "finding", r) /\ r.result = "ok" /\ resps' = resps \ {r}
  BY DEF Found
<1>2. Proceed(c, "populating", Populates) /\ UNCHANGED <<req, missed, ids>>
  BY DEF Found
<1>3. stage'[c] = "populating" /\ reqs' = reqs \cup Sent(c, Populates)
  BY <1>2 DEF Proceed, EffectsInv, SessionInv, TypeInv, TypeOK, CallsTypeOK
<1>4. stage[c] = "finding" /\ stage[c] \in Waiting
  BY <1>1 DEF Awaited, Waiting, Stages, Over
<1>5. Passed(c)' \subseteq Acknowledged(c)
  BY <1>2, <1>3, <1>4 DEF Passed, Acknowledged, PartUpdates, Parts
<1>6. ~CommitSent(c)
  BY <1>4, CommitSentFacts
<1>7. \A m \in reqs' : m \notin reqs => m.verb = "populate"
  BY <1>3 DEF Sent, Message, Populates
<1> QED  BY <1>1, <1>2, <1>3, <1>5, <1>6, <1>7, HandlerKeeps DEF Effective

\* A child that an UpdateOne reads back; with the last one the commit is sent.
LEMMA PopulatedKeeps ==
    ASSUME EffectsInv, NEW c \in Calls, UNCHANGED serverVars, Populated(c)
    PROVE  Effective(c)'
<1>1. PICK r \in resps :
         /\ Awaited(c, "populating", r) /\ r.result = "ok" /\ resps' = resps \ {r}
         /\ pending' = [pending EXCEPT ![c] = @ \ {Op(r)}]
         /\ IF pending[c] = {Op(r)} THEN Commit(c)
            ELSE UNCHANGED <<stage, code, tstate, ended, reqs>>
  BY DEF Populated
<1>2. UNCHANGED <<req, missed, ids>>
  BY DEF Populated
<1>3. stage[c] = "populating" /\ stage[c] \in Waiting /\ req[c].op = "update"
  BY <1>1, AwaitedRequest DEF Awaited, Waiting, Stages, Over, EffectsInv, SessionInv
<1>4. CASE pending[c] = {Op(r)}
  <2>1. Plan(c) \subseteq Acknowledged(c)
    BY <1>3 DEF Plan, Acknowledged, Passed
  <2> QED  BY <1>1, <1>2, <1>3, <1>4, <2>1, CommitKeeps
<1>5. CASE pending[c] # {Op(r)}
  <2>1. Passed(c)' \subseteq Acknowledged(c)
    BY <1>1, <1>2, <1>3, <1>5 DEF Passed, Acknowledged, PartUpdates, Parts
  <2>2. ~CommitSent(c)
    BY <1>3, CommitSentFacts
  <2> QED  BY <1>1, <1>2, <1>3, <1>5, <2>1, <2>2, HandlerKeeps DEF Effective
<1> QED  BY <1>4, <1>5

\* A DeleteOne answers with the account it has listed.
LEMMA ListedKeeps ==
    ASSUME EffectsInv, NEW c \in Calls, UNCHANGED serverVars, Listed(c)
    PROVE  Effective(c)'
<1>1. PICK r \in resps :
        /\ Awaited(c, "listing", r) /\ r.result = "ok" /\ resps' = resps \ {r}
        /\ body' = [body EXCEPT ![c] = r.docs]
  BY DEF Listed
<1>2. Proceed(c, "deleting", Deletes) /\ UNCHANGED <<req, missed, ids>>
  BY DEF Listed
<1>3. /\ stage'[c] = "deleting" /\ pending'[c] = Deletes /\ body'[c] = r.docs
      /\ reqs' = reqs \cup Sent(c, Deletes)
  BY <1>1, <1>2 DEF Proceed, EffectsInv, SessionInv, TypeInv, TypeOK, CallsTypeOK
<1>4. stage[c] = "listing" /\ r.call = c /\ stage[c] \in Waiting /\ req[c].op = "delete"
      /\ Op(r) = <<"list", "account">>
  BY <1>1, AwaitedRequest
  DEF Awaited, Waiting, Stages, Over, AccountList, EffectsInv, SessionInv
<1>5. Success(r) /\ r.verb = "list"
  BY <1>1, <1>4 DEF Success, Op, SessionReads
<1>6. Passed(c)' \subseteq Acknowledged(c)
  BY <1>3, <1>4, <1>5, Heard DEF Passed, AccountList
<1>7. ~CommitSent(c)
  BY <1>4, CommitSentFacts
<1>8. \A m \in reqs' : m \notin reqs => m.verb = "delete"
  BY <1>3 DEF Sent, Message, Deletes
<1>9. Written(c)' /\ EffectsOK(c)' /\ ~CommitSent(c)'
  BY <1>1, <1>2, <1>3, <1>6, <1>7, <1>8, HandlerKeeps
<1>10. ReadsOK(c)'
  <2>1. pending[c] = {Op(r)}
    BY <1>1, OnlyOneAwaited DEF EffectsInv
  <2>2. \A q \in resps' : q.call # c
    BY <1>1, <1>4, <2>1, LastSilent DEF EffectsInv
  <2>3. Active(c) => r.docs = Public(Assemble(Origin(c), req[c].id))
    BY <1>1, <1>4, <1>5 DEF EffectsInv, EffectInv, Effective, ReadsOK, Truthful
  <2>4. Origin(c)' = Origin(c) /\ Active(c)' = Active(c)
    BY HandlerFrozen DEF serverVars, Active
  <2> QED  BY <1>2, <1>3, <1>4, <1>9, <2>2, <2>3, <2>4 DEF ReadsOK
<1> QED  BY <1>9, <1>10 DEF Effective

\* One delete is done; the transaction is committed when all of them are.
LEMMA DeletedKeeps ==
    ASSUME EffectsInv, NEW c \in Calls, UNCHANGED serverVars, Deleted(c)
    PROVE  Effective(c)'
<1>1. PICK r \in resps :
         /\ Awaited(c, "deleting", r) /\ r.result \in Fulfilled /\ resps' = resps \ {r}
         /\ missed' = [missed EXCEPT ![c] = @ \/ r.result # "ok"]
         /\ pending' = [pending EXCEPT ![c] = @ \ {Op(r)}]
         /\ IF pending[c] # {Op(r)}
            THEN UNCHANGED <<stage, reqs>>
            ELSE \/ Abandon(c, "RESOURCE_EXHAUSTED")
                 \/ ~missed'[c] /\ Commit(c)
  BY DEF Deleted
<1>2. UNCHANGED <<req, body, ids>>
  BY DEF Deleted
<1>3. stage[c] = "deleting" /\ r.call = c /\ stage[c] \in Waiting /\ req[c].op = "delete"
      /\ Op(r) \in Deletes
  BY <1>1, AwaitedRequest DEF Awaited, Waiting, Stages, Over, EffectsInv, SessionInv
<1>4. pending \in [Calls -> SUBSET Operations] /\ missed \in [Calls -> BOOLEAN]
  BY DEF EffectsInv, SessionInv, TypeInv, TypeOK, CallsTypeOK
<1>5. ~missed'[c] => ~missed[c] /\ r.result = "ok"
  BY <1>1, <1>4
<1>6. r.verb = "delete"
  BY <1>3 DEF Deletes, Op
<1>7. AccountList \subseteq Acknowledged(c)
  BY <1>3 DEF Acknowledged, Passed
<1>8. ~missed'[c] => Op(r) \in Acknowledged(c) /\ Deletes \ pending[c] \subseteq Acknowledged(c)
  BY <1>3, <1>5, <1>6, Heard DEF Passed, Success
<1>9. CASE pending[c] # {Op(r)}
  <2>1. Passed(c)' \subseteq Acknowledged(c)
    BY <1>1, <1>3, <1>4, <1>7, <1>8, <1>9 DEF Passed
  <2> QED  BY <1>1, <1>2, <1>9, <2>1, ConsumeKeeps
<1>10. CASE Abandon(c, "RESOURCE_EXHAUSTED")
  BY <1>1, <1>2, <1>3, <1>10, AbandonKeeps
<1>11. CASE pending[c] = {Op(r)} /\ ~missed'[c] /\ Commit(c)
  <2>1. Plan(c) \subseteq Acknowledged(c)
    BY <1>3, <1>7, <1>8, <1>11 DEF Plan
  <2>2. r.result # "lost"
    BY <1>1 DEF Fulfilled
  <2> QED  BY <1>1, <1>2, <1>3, <1>11, <2>1, <2>2, CommitKeeps
<1> QED  BY <1>1, <1>9, <1>10, <1>11

\* An operation that settles without being sent is no success; one that is sent is
\* none that ends or links anything.
LEMMA DispatchKeeps ==
    ASSUME EffectsInv, NEW c \in Calls, UNCHANGED serverVars, Dispatch(c)
    PROVE  Effective(c)'
<1>1. PICK op \in todo[c] :
        IF Settles(c, op) # ""
        THEN /\ resps' = resps \cup
                  Settled(Reply(Message(c, op, FALSE), Settles(c, op), NoDocs))
             /\ UNCHANGED reqs
        ELSE /\ reqs' = reqs \cup {Message(c, op, tstate[c] = "starting")}
             /\ UNCHANGED resps
  BY DEF Dispatch
<1>2. UNCHANGED <<req, stage, pending, missed, body, ids>>
  BY DEF Dispatch
<1>3. ~CommitSent(c)
  BY CommitSentFacts
<1>4. op \in ChildSaves \cup ({"update"} \X ChildKinds) \cup AccountList
  BY DEF EffectsInv, SessionInv, Disciplined, Once
<1>5. op[1] \in {"insert", "update", "list"}
  BY <1>4 DEF ChildSaves, AccountList
<1>6. \A m \in reqs' : m \notin reqs => m.verb = op[1]
  <2>1. Message(c, op, tstate[c] = "starting").verb = op[1]
    BY DEF Message
  <2> QED  BY <1>1, <2>1
<1>7. \A r \in resps' : r \notin resps => ~Success(r) /\ r.result # "ok"
  <2> DEFINE q == Reply(Message(c, op, FALSE), Settles(c, op), NoDocs)
  <2>1. q.verb = op[1] /\ q.result = Settles(c, op)
    BY DEF Reply, Message
  <2>2. Settles(c, op) # "ok"
    BY DEF Settles
  <2>3. ~Success(q)
    BY <1>5, <2>1, <2>2 DEF Success
  <2>4. resps' \subseteq resps \cup {q}
    BY <1>1, SettledFacts
  <2> QED  BY <2>1, <2>2, <2>3, <2>4
<1>8. Passed(c)' \subseteq Acknowledged(c)
  BY <1>2 DEF Passed, Acknowledged, PartUpdates, Parts
<1> QED  BY <1>2, <1>3, <1>5, <1>6, <1>7, <1>8, HandlerKeeps DEF Effective

\* Every step of a handler keeps the effects of its call.
LEMMA HandleKeeps ==
    ASSUME EffectsInv, NEW c \in Calls, UNCHANGED serverVars, Handle(c)
    PROVE  Effective(c)'
<1>1. CASE Create(c)
  BY <1>1, BeginKeeps, ChildSavedKeeps, ChildDuplicateKeeps, EndingsKeep, RejectedKeeps,
     AccountSavedKeeps, LinkedKeeps, AggregatedKeeps DEF Create
<1>2. CASE SeedAccount(c)
  BY <1>2, BeginKeeps, ChildSavedKeeps, RejectedKeeps, AccountSavedKeeps, LinkedKeeps
  DEF SeedAccount
<1>3. CASE UpdateOne(c)
  BY <1>3, EndingsKeep, ChangeBeginKeeps, PartSetKeeps, RejectedKeeps, FoundKeeps, PopulatedKeeps
  DEF UpdateOne
<1>4. CASE DeleteOne(c)
  BY <1>4, EndingsKeep, ChangeBeginKeeps, ListedKeeps, RejectedKeeps, DeletedKeeps
  DEF DeleteOne
<1> QED  BY <1>1, <1>2, <1>3, <1>4, DispatchKeeps, EndingsKeep DEF Handle

\* A handler has its own variables only.
LEMMA HandleOwn ==
    ASSUME EffectsInv, NEW c \in Calls, NEW d \in Calls \ {c}, Handle(c)
    PROVE  missed'[d] = missed[d] /\ ids'[d] = ids[d] /\ body'[d] = body[d]
<1> USE DEF EffectsInv, SessionInv, TypeInv, TypeOK, CallsTypeOK
<1>1. CASE Create(c) \/ SeedAccount(c)
  BY <1>1 DEF Create, SeedAccount, CreateBegin, ChildSaved, ChildDuplicate, ChildAbortDone,
     ChildRejected, AccountSaved, ParentLinked, Aggregated, StepRejected, SeedBegin,
     SeedSaved, SeedLinked, SeedRejected
<1>2. CASE UpdateOne(c) \/ DeleteOne(c)
  BY <1>2, OmittedFacts
  DEF UpdateOne, DeleteOne, UpdateBegin, PartSet, PartRejected, Found, NotFound, Populated,
      DeleteInvalid, DeleteBegin, Listed, ListRejected, Deleted, DeleteRejected,
     Refuse
<1>3. CASE NotConnected(c) \/ Dispatch(c) \/ AbortDone(c) \/ Committed(c) \/ CommitFailed(c)
  BY <1>3 DEF NotConnected, Dispatch, AbortDone, Committed, CommitFailed, Refuse
<1> QED  BY <1>1, <1>2, <1>3 DEF Handle

\* A step of a handler keeps what every call has done and knows.
LEMMA StepKeeps ==
    ASSUME EffectsInv, NEW c \in Calls, Step(c), NEW d \in Calls
    PROVE  Effective(d)'
<1>1. CASE d = c
  BY <1>1, HandleKeeps DEF Step
<1>2. CASE d # c
  <2>1. Untouched(d)
    BY <1>2, HandleAlone DEF Step, EffectsInv
  <2>2. Frozen(d)
    BY HandlerFrozen DEF Step
  <2> QED  BY <1>2, <2>1, <2>2, HandleOwn, UntouchedKeeps DEF Step
<1> QED  BY <1>1, <1>2
=============================================================================
