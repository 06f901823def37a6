---------------------------- MODULE AccountStore ----------------------------
(***************************************************************************)
(* The documents of the account service: the four MongoDB collections, the *)
(* mongoose schemas that shape them, and the value of a collection after a *)
(* document is written.  A store maps every document key and every entry   *)
(* of the unique login index to its content.                               *)
(*                                                                         *)
(* The fields `username' and `email' of a credential are both required and *)
(* both unique; one field "login" stands for the pair.                     *)
(***************************************************************************)
EXTENDS Integers

CONSTANTS
    Values,     \* what a payload field can hold
    Seed,       \* the value the seeder writes
    MaxMs,      \* bound on the millisecond clock, hence on generated ids
    Unset,      \* a field that is absent from a document or a payload
    NoDoc,      \* no document
    NoPatch     \* an optional sub-message left out of a request

Kinds == {"account", "info", "place", "credential"}
ChildKinds == Kinds \ {"account"}

\* An _id is v5(<current millisecond> : <collection>): the collection and the
\* millisecond determine it.  0 is the fixed id of the seeded account.
Ids == 0 .. MaxMs
NoId == -1

FieldNames == {"name", "address", "login", "password", "status"}

\* What argon2.hash makes of a password.
Hash(v) == <<"argon2", v>>
FieldValues == Values \cup {Hash(v) : v \in Values} \cup {Unset}

\* The fields that a payload carries.
Patches == [FieldNames -> Values \cup {Unset}]

DocKeys == Kinds \X Ids
LoginKeys == {"login"} \X Values
Keys == DocKeys \cup LoginKeys

AccountDocs == [ChildKinds -> Ids]
ChildDocs == [parent : Ids \cup {NoId}, fields : [FieldNames -> FieldValues]]
LoginEntries == [credential : Ids]
Docs == AccountDocs \cup ChildDocs \cup LoginEntries

DocsOf(kind) == IF kind = "account" THEN AccountDocs ELSE ChildDocs

\* Documents by key, and the documents of one account by kind.
Stores ==
    {s \in [Keys -> Docs \cup {NoDoc}] :
        /\ \A kind \in Kinds, i \in Ids : s[<<kind, i>>] \in DocsOf(kind) \cup {NoDoc}
        /\ \A k \in LoginKeys : s[k] \in LoginEntries \cup {NoDoc}}
Bodies ==
    {b \in [Kinds -> Docs \cup {NoDoc}] :
        \A kind \in Kinds : b[kind] \in DocsOf(kind) \cup {NoDoc}}

EmptyStore == [k \in Keys |-> NoDoc]

ASSUME StoreAssumption ==
    /\ MaxMs \in Nat
    /\ Seed \in Values
    /\ Unset \notin Values \cup {Hash(v) : v \in Values}
    /\ NoDoc \notin Docs
    /\ NoPatch \notin Patches

-----------------------------------------------------------------------------
(* Schemas.                                                                *)

\* The fields each collection's schema declares; `strict: true' drops others.
Schema == [info       |-> {"name", "status"},
           place      |-> {"address", "status"},
           credential |-> {"login", "password", "status"}]

\* What the sub-message of one kind carries: fields of its own collection only.
Payloads(kind) ==
    {p \in Patches : \A f \in FieldNames \ Schema[kind] : p[f] = Unset}

Required == [info |-> {"name"}, place |-> {}, credential |-> {"login", "password"}]

\* The fields of a payload that strict mode lets through.
Accepted(kind, patch) == {f \in Schema[kind] : patch[f] # Unset}

\* Validation before a save.
Valid(kind, patch) == Required[kind] \subseteq Accepted(kind, patch)

\* The document new Model(patch) saves; the pre-save hook hashes the password.
NewChild(kind, patch) ==
    [parent |-> NoId,
     fields |-> [f \in FieldNames |->
                    IF f \notin Accepted(kind, patch) THEN Unset
                    ELSE IF f = "password" THEN Hash(patch[f]) ELSE patch[f]]]

\* A document after updateOne with $set: patch.  No save hook and no validator
\* runs on an update.
SetFields(doc, kind, patch) ==
    [parent |-> doc.parent,
     fields |-> [f \in FieldNames |->
                    IF f \in Accepted(kind, patch) THEN patch[f] ELSE doc.fields[f]]]

-----------------------------------------------------------------------------
(* Reading and writing a store.                                            *)

\* Mutant: the schema loses `unique: true'.
LoginsOfNobody(kind, doc) == {}

\* The entries of the unique index that a document owns.
LoginsOf(kind, doc) ==
    {k \in LoginKeys : /\ kind = "credential" /\ doc # NoDoc
                       /\ k[2] = doc.fields["login"]}

\* Store s with doc (or NoDoc) at <<kind, id>> and the index kept up to date.
Put(s, kind, id, doc) ==
    LET old == LoginsOf(kind, s[<<kind, id>>])
        new == LoginsOf(kind, doc)
    IN  [k \in Keys |-> IF k = <<kind, id>> THEN doc
                        ELSE IF k \in new THEN [credential |-> id]
                        ELSE IF k \in old THEN NoDoc
                        ELSE s[k]]

\* The keys that Put(s, kind, id, doc) writes.
Touched(s, kind, id, doc) ==
    LET old == LoginsOf(kind, s[<<kind, id>>])
        new == LoginsOf(kind, doc)
    IN  {<<kind, id>>} \cup (old \ new) \cup (new \ old)

\* Writing doc would give a unique index entry a second owner.
Duplicate(s, kind, id, doc) ==
    \E k \in LoginsOf(kind, doc) \ LoginsOf(kind, s[<<kind, id>>]) : s[k] # NoDoc

\* The documents of a child collection that the filter {parent: id} selects.
ChildrenOf(s, kind, id) ==
    {i \in Ids : s[<<kind, i>>] # NoDoc /\ s[<<kind, i>>].parent = id}

NoDocs == [k \in Kinds |-> NoDoc]

\* The account with its children looked up by _id; a dangling reference
\* leaves the child out (preserveNullAndEmptyArrays).
Assemble(s, id) ==
    LET account == s[<<"account", id>>]
    IN  [k \in Kinds |-> IF account = NoDoc THEN NoDoc
                         ELSE IF k = "account" THEN account
                         ELSE s[<<k, account[k]>>]]

\* What the $project stages of the aggregations leave of it.
Public(docs) ==
    [k \in Kinds |->
        IF k = "account" \/ docs[k] = NoDoc THEN docs[k]
        ELSE [parent |-> NoId, fields |-> [docs[k].fields EXCEPT !["password"] = Unset]]]

-----------------------------------------------------------------------------
(* The store that the seeder's transaction leaves in an empty database.    *)

SeedPayload(kind) ==
    [f \in FieldNames |-> IF f \in Schema[kind] \ {"status"} THEN Seed ELSE Unset]
SeedChild(kind) == [parent |-> 0, fields |-> NewChild(kind, SeedPayload(kind)).fields]
SeededStore ==
    [k \in Keys |-> IF k = <<"login", Seed>> THEN [credential |-> 0]
                    ELSE IF k \in LoginKeys \/ k[2] # 0 THEN NoDoc
                    ELSE IF k[1] = "account" THEN [child \in ChildKinds |-> 0]
                    ELSE SeedChild(k[1])]
=============================================================================
