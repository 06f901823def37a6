-------------------------- MODULE AccountRefinement --------------------------
(***************************************************************************)
(* AccountService implements AccountRegistry: an account is the document   *)
(* and the children it refers to, a call takes effect when its transaction *)
(* commits, and the client is told when the handler resolves or rejects.   *)
(***************************************************************************)
EXTENDS AccountInvariants

CONSTANT NoAccount

ASSUME AccountAssumption == NoAccount \notin [ChildKinds -> [FieldNames -> FieldValues]]

\* The children that an account is made of; a dangling reference is no child.
FieldsOf(docs) ==
    IF docs["account"] = NoDoc THEN NoAccount
    ELSE [k \in ChildKinds |-> IF docs[k] = NoDoc THEN NoDoc ELSE docs[k].fields]

Done(c) == phase[c] = "committed"

Told(c) ==
    IF stage[c] # "answered" THEN "none"
    ELSE IF code[c] = "OK" THEN "OK" ELSE "refused"

Registered == [i \in Ids |-> FieldsOf(Assemble(db, i))]
Concluded == {c \in Calls : Done(c)}
HandedOver == [c \in Calls |-> IF Done(c) /\ req[c].op \in {"create", "delete"}
                               THEN FieldsOf(body[c]) ELSE NoAccount]
Outcomes == [c \in Calls |-> Told(c)]

Registry == INSTANCE AccountRegistry WITH
    accounts <- Registered, done <- Concluded, taken <- HandedOver, outcome <- Outcomes

\* Whatever the messages of the calls do, and whatever is lost, given up or
\* crashes, clients see a registry of whole accounts on which every call acts
\* at once: no half-created account, no login twice, no update of some of its
\* parts, no effect after a refusal, and an answer that tells what was done.
ImplementsRegistry == Registry!Spec
=============================================================================
