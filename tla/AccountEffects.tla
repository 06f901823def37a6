--------------------------- MODULE AccountEffects ---------------------------
(***************************************************************************)
(* What the operations of a call have done to the store, and what its      *)
(* handler knows of it: inductive strengthenings of the properties that    *)
(* say what a commit makes durable.                                        *)
(***************************************************************************)
EXTENDS AccountIsolation

\* The snapshot of call c: what it wrote, no other transaction has committed.
Origin(c) == [k \in Keys |-> IF k \in wrote[c] THEN db[k] ELSE Base(c)[k]]

-----------------------------------------------------------------------------
(* The documents a transaction has written, by the operation of its call.  *)

\* A Create and a seed write new documents under the ids of the call.
Creating(c, kind, i) ==
    LET doc == Base(c)[<<kind, i>>] IN
    /\ i = ids[c][kind] /\ db[<<kind, i>>] = NoDoc /\ doc # NoDoc
    /\ IF kind = "account" THEN doc = SavedDoc(c, "account")
       ELSE /\ Valid(kind, NewPatch(c, kind))
            /\ doc \in {[NewChild(kind, NewPatch(c, kind)) EXCEPT !.parent = p] :
                            p \in {NoId, ids[c]["account"]}}

\* An UpdateOne sets fields of children of its account.
Setting(c, kind, i) ==
    LET old == db[<<kind, i>>] IN
    /\ kind # "account" /\ old # NoDoc /\ old.parent = req[c].id
    /\ UpdatePatch(c, kind) # NoPatch
    /\ Base(c)[<<kind, i>>] = SetFields(old, kind, UpdatePatch(c, kind))
    /\ Base(c)[<<kind, i>>] # old

\* A DeleteOne removes its account and children of it.
Removing(c, kind, i) ==
    LET old == db[<<kind, i>>] IN
    /\ old # NoDoc /\ Base(c)[<<kind, i>>] = NoDoc
    /\ IF kind = "account" THEN i = req[c].id ELSE old.parent = req[c].id

Written(c) ==
    Active(c) => \A kind \in Kinds, i \in Ids : <<kind, i>> \in wrote[c] =>
        CASE req[c].op \in {"create", "seed"} -> Creating(c, kind, i)
          [] req[c].op = "update" -> Setting(c, kind, i)
          [] req[c].op = "delete" -> Removing(c, kind, i)

-----------------------------------------------------------------------------
(* What the handler knows to be done.                                      *)

Saved(c, kind) == <<kind, ids[c][kind]>> \in wrote[c]

\* Operation op has left its mark on the transaction of call c.
HasEffect(c, op) ==
    LET kind == op[2] IN
    CASE op[1] = "insert" -> Saved(c, kind)
      [] op[1] = "link" ->
            Saved(c, kind) /\ Base(c)[<<kind, ids[c][kind]>>].parent = ids[c]["account"]
      [] op[1] \in {"update", "delete"} -> \E i \in Ids : <<kind, i>> \in wrote[c]
      [] OTHER -> phase[c] = "open"

\* Results that only an operation which took effect has.
Success(r) ==
    \/ r.verb \in {"insert", "update", "delete"} \cup SessionReads /\ r.result = "ok"
    \/ r.verb = "link" /\ r.result \in Fulfilled

\* The operations of a call that its handler has seen succeed: those of the
\* stages before, and those the current Promise.all no longer waits for.
Passed(c) ==
    CASE stage[c] = "saving" -> ChildSaves \ pending[c]
      [] stage[c] = "account" -> ChildSaves
      [] stage[c] = "linking" -> ChildSaves \cup AccountSave \cup (ParentLinks \ pending[c])
      [] stage[c] = "aggregating" -> ChildSaves \cup AccountSave \cup ParentLinks
      [] stage[c] = "setting" -> IF missed[c] THEN {} ELSE PartUpdates(c) \ pending[c]
      [] stage[c] \in {"finding", "populating"} -> PartUpdates(c)
      [] stage[c] = "deleting" -> AccountList \cup IF missed[c] THEN {} ELSE Deletes \ pending[c]
      [] OTHER -> {}

\* What a call must have done before it commits.
Plan(c) ==
    CASE req[c].op \in {"create", "seed"} -> ChildSaves \cup AccountSave \cup ParentLinks
      [] req[c].op = "update" -> PartUpdates(c)
      [] req[c].op = "delete" -> AccountList \cup Deletes

CommitSent(c) == \E m \in reqs \cup late : m.call = c /\ m.verb = "commit"

Acknowledged(c) ==
    {Op(r) : r \in {q \in resps : q.call = c /\ Success(q)}}
    \cup Passed(c) \cup IF CommitSent(c) THEN Plan(c) ELSE {}

\* What is acknowledged is done, as long as the transaction can still be committed;
\* back references are sent when the documents are there, and the commit is the last
\* thing a call sends.
EffectsOK(c) ==
    /\ Active(c) => \A op \in Acknowledged(c) : HasEffect(c, op)
    /\ Active(c) => \A m \in reqs \cup late : m.call = c /\ m.verb = "link" =>
          \A kind \in Kinds : Saved(c, kind)
    /\ CommitSent(c) => \A m \in reqs \cup late : m.call = c => m.verb = "commit"
    /\ req[c].op = "create" /\ stage[c] = "saving" => ids[c]["account"] = NoId
    /\ req[c].op = "seed" => \A kind \in Kinds : ids[c][kind] \in {NoId, 0}

-----------------------------------------------------------------------------
(* What the handler was told.                                              *)

\* The account a DeleteOne lists is that of its snapshot; the one a Create reads
\* back is that of its own view, to which nothing is added any more.
Truthful(c, r) ==
    /\ r.verb = "list" => r.docs = Public(Assemble(Origin(c), req[c].id))
    /\ r.verb = "aggregate" /\ stage[c] = "aggregating" =>
          r.docs = Public(Assemble(Base(c), ids[c]["account"]))

ReadsOK(c) ==
    Active(c) =>
        /\ \A r \in resps : r.call = c /\ r.result = "ok" => Truthful(c, r)
        /\ req[c].op = "delete" /\ (stage[c] = "deleting" \/ CommitSent(c)) =>
              body[c] = Public(Assemble(Origin(c), req[c].id))
        /\ req[c].op = "create" /\ CommitSent(c) =>
              body[c] = Public(Assemble(Base(c), ids[c]["account"]))

Effective(c) == Written(c) /\ EffectsOK(c) /\ ReadsOK(c)

\* A DeleteOne sends no delete, and so writes nothing, before its list is read.
ListFirst(c) ==
    <<"list", "account">> \in todo[c] \/ (\E m \in reqs \cup late : m.call = c /\ m.verb = "list")
        => /\ wrote[c] = {}
           /\ \A m \in reqs \cup late : m.call = c => m.verb # "delete"

EffectInv == \A c \in Calls : Effective(c) /\ ListFirst(c)

-----------------------------------------------------------------------------
(* What a call that took effect leaves behind.                             *)

\* The documents that an UpdateOne has written are of the parts of its request.
PartsWritten ==
    \A c \in Calls, kind \in Kinds, i \in Ids :
        req[c].op = "update" /\ <<kind, i>> \in wrote[c] => kind \in Parts(c)

\* What stands in the way of a second call with the request of call c: a credential
\* with its login, the account gone, or nothing left to change.
Spent(c) ==
    CASE req[c].op \in {"create", "seed"} ->
            \E i \in Ids : LET doc == db[CredentialKey(i)] IN
                doc # NoDoc /\ doc.fields["login"] = NewPatch(c, "credential")["login"]
      [] req[c].op = "update" ->
            \A kind \in Parts(c), i \in Ids :
                LET doc == db[<<kind, i>>] IN
                doc # NoDoc /\ doc.parent = req[c].id
                    => SetFields(doc, kind, UpdatePatch(c, kind)) = doc
      [] req[c].op = "delete" -> req[c].id \notin Accounts(db)

\* It stands there as long as no other request has taken effect.
SpentInv ==
    \A c \in Calls :
        /\ phase[c] = "committed"
        /\ \A e \in Calls : phase[e] = "committed" => req[e] = req[c]
        => Spent(c)
=============================================================================
