---------------------------- MODULE AccountReads ----------------------------
(***************************************************************************)
(* The read side next to the write side: ReadAll, ReadByID and             *)
(* AuthCredential of the account service and ReadAll of the info service.  *)
(* A read has no session.  The lookups of its aggregate read one           *)
(* collection after another, each the committed store of its own moment,   *)
(* so that transactions commit between them.                               *)
(***************************************************************************)
EXTENDS AccountService, Sequences

CONSTANTS
    Readers,    \* concurrent calls of the read methods
    Queries     \* which query each of them may carry

\* id = NoId stands for one that is missing or no UUID; Unset is left out.
QueryType ==
    [op : {"readAll", "readByID", "auth", "infoAll"}, id : Ids \cup {NoId},
     limit : (0 .. MaxMs + 1) \cup {Unset},
     login : Values \cup {Unset}, password : Values \cup {Unset}]

\* A credential that findOne has found: its _id and its document.
Entries == [credential : Ids, doc : ChildDocs]

ASSUME ReadAssumption ==
    /\ Queries \subseteq [Readers -> QueryType]
    /\ NoDoc \notin Entries    \* null is no credential

VARIABLES
    query,      \* the query of each reader
    rstage,     \* the continuation it has reached
    rcode,      \* the status it answers
    found,      \* the credential that AuthCredential has found, or NoDoc
    rows,       \* the documents its aggregate has read, by row
    ahead,      \* how many collections of the pipeline are read, by row
    before,     \* history: the calls that had answered OK when it began
    there       \* history: the accounts there were when it began

history == <<before, there>>
readVars == <<query, rstage, rcode, found, rows, ahead, history>>
readsVars == <<vars, readVars>>

ReadsInit ==
    /\ Init
    /\ query \in Queries
    /\ rstage = [r \in Readers |-> "new"]
    /\ rcode = [r \in Readers |-> ""]
    /\ found = [r \in Readers |-> NoDoc]
    /\ rows = [r \in Readers |-> [i \in Ids |-> NoDocs]]
    /\ ahead = [r \in Readers |-> [i \in Ids |-> 0]]
    /\ before = [r \in Readers |-> {}]
    /\ there = [r \in Readers |-> {}]

\* Every variable keeps its type, and a password is only compared with that of a
\* credential that was found.
ReadsTypeOK ==
    /\ query \in Queries
    /\ rstage \in [Readers -> {"new", "seeking", "verifying", "scanning", "answered"}]
    /\ rcode \in [Readers -> Codes \cup {"UNAUTHENTICATED"}]
    /\ found \in [Readers -> Entries \cup {NoDoc}]
    /\ rows \in [Readers -> [Ids -> Bodies]]
    /\ ahead \in [Readers -> [Ids -> 0 .. 4]]
    /\ before \in [Readers -> SUBSET Calls]
    /\ there \in [Readers -> SUBSET Ids]
    /\ \A r \in Readers : rstage[r] = "verifying" => found[r] # NoDoc

-----------------------------------------------------------------------------
(* The pipelines.                                                          *)

\* The collections a row is made from, in the order of the lookups.
Pipeline(r) ==
    IF query[r].op = "infoAll" THEN <<"info">>
    ELSE <<"account", "info", "place", "credential">>

\* The rows that the $match stage lets through.
Matched(r) ==
    CASE query[r].op = "readByID" -> {query[r].id} \cap Ids
      [] query[r].op = "auth"     -> IF found[r] = NoDoc THEN {}
                                     ELSE {found[r].doc.parent} \cap Ids
      [] OTHER -> Ids

\* The $project stages hide parents and passwords; the info service hides nothing.
Projected(r, docs) == IF query[r].op = "infoAll" THEN docs ELSE Public(docs)

Complete(r, i) == i \in Matched(r) => ahead[r][i] = Len(Pipeline(r))

\* The rows that have reached the end of the pipeline.
Result(r) ==
    {i \in Matched(r) : Complete(r, i) /\ rows[r][i][Pipeline(r)[1]] # NoDoc}

\* Mutant: a limit that is left out is taken for one.
FullDefault(r) ==
    Cardinality(Result(r)) >= IF query[r].limit = Unset THEN 1 ELSE query[r].limit

\* The $limit stage has let its number of rows through.
Full(r) == query[r].limit # Unset /\ Cardinality(Result(r)) >= query[r].limit

\* A row is read from the next collection.  Without a first document there is no
\* row; a child that is not there is left out (preserveNullAndEmptyArrays).
Lookup(r) ==
    /\ rstage[r] = "scanning" /\ ~Full(r)
    /\ \E i \in Matched(r) :
         LET row == rows[r][i]
             kind == Pipeline(r)[ahead[r][i] + 1]
             id == IF ahead[r][i] = 0 THEN i ELSE row["account"][kind]
             doc == db[<<kind, id>>]
         IN  /\ ~Complete(r, i)
             /\ rows' = [rows EXCEPT ![r][i] = Projected(r, [row EXCEPT ![kind] = doc])]
             /\ ahead' = [ahead EXCEPT ![r][i] =
                             IF @ = 0 /\ doc = NoDoc THEN Len(Pipeline(r)) ELSE @ + 1]
    /\ UNCHANGED <<vars, query, rstage, rcode, found, history>>

-----------------------------------------------------------------------------
(* The handlers.                                                           *)

Respond(r, status) ==
    /\ rstage' = [rstage EXCEPT ![r] = "answered"]
    /\ rcode' = [rcode EXCEPT ![r] = status]
    /\ UNCHANGED <<vars, query, found, rows, ahead>>

\* Something the method requires is left out of the request, or is no id.
Incomplete(r) ==
    \/ query[r].op = "readByID" /\ query[r].id = NoId
    \/ query[r].op = "auth" /\ Unset \in {query[r].login, query[r].password}

\* Arguments first, then connection.readyState, then the first command.
Begin(r) ==
    /\ rstage[r] = "new"
    /\ before' = [before EXCEPT ![r] =
                     {c \in Calls : stage[c] = "answered" /\ code[c] = "OK"}]
    /\ there' = [there EXCEPT ![r] = Accounts(db)]
    /\ IF Incomplete(r) THEN Respond(r, "INVALID_ARGUMENT")
       ELSE \/ \E status \in {"UNAVAILABLE", "UNKNOWN"} : Respond(r, status)
            \/ /\ rstage' = [rstage EXCEPT ![r] =
                                IF query[r].op = "auth" THEN "seeking" ELSE "scanning"]
               /\ UNCHANGED <<vars, query, rcode, found, rows, ahead>>

\* Mutant: the result of findOne is not compared with null.
SeekUnchecked(r) ==
    LET owners == {i \in Ids : /\ db[<<"credential", i>>] # NoDoc
                               /\ db[<<"credential", i>>].fields["login"] = query[r].login}
    IN  /\ rstage[r] = "seeking"
        /\ rstage' = [rstage EXCEPT ![r] = "verifying"]
        /\ \/ \E i \in owners :
                found' = [found EXCEPT ![r] =
                             [credential |-> i, doc |-> db[<<"credential", i>>]]]
           \/ owners = {} /\ UNCHANGED found
        /\ UNCHANGED <<vars, query, rcode, rows, ahead, history>>

\* credential.findOne by username or e-mail.
Seek(r) ==
    LET owners == {i \in Ids : /\ db[<<"credential", i>>] # NoDoc
                               /\ db[<<"credential", i>>].fields["login"] = query[r].login}
    IN  /\ rstage[r] = "seeking"
        /\ \/ \E i \in owners :
                /\ found' = [found EXCEPT ![r] =
                                [credential |-> i, doc |-> db[<<"credential", i>>]]]
                /\ rstage' = [rstage EXCEPT ![r] = "verifying"]
                /\ UNCHANGED <<vars, query, rcode, rows, ahead>>
           \/ owners = {} /\ Respond(r, "NOT_FOUND")
           \/ Respond(r, "INTERNAL")
        /\ UNCHANGED history

\* Mutant: a wrong password returns without a rejection.
VerifySilent(r) ==
    /\ rstage[r] = "verifying"
    /\ found[r].doc.fields["password"] = Hash(query[r].password)
    /\ rstage' = [rstage EXCEPT ![r] = "scanning"]
    /\ UNCHANGED <<vars, query, rcode, found, rows, ahead, history>>

\* argon2.verify: it throws on a password that is no hash, and both a mismatch
\* and the throw are UNAUTHENTICATED.
Verify(r) ==
    /\ rstage[r] = "verifying"
    /\ IF found[r].doc.fields["password"] = Hash(query[r].password)
       THEN /\ rstage' = [rstage EXCEPT ![r] = "scanning"]
            /\ UNCHANGED <<vars, query, rcode, found, rows, ahead>>
       ELSE Respond(r, "UNAUTHENTICATED")
    /\ UNCHANGED history

\* Mutant: the first document of the cursor is taken for all of them.
ScannedFirst(r) ==
    /\ rstage[r] = "scanning" /\ query[r].limit # 0
    /\ Result(r) # {} \/ \A i \in Matched(r) : Complete(r, i)
    /\ Respond(r, IF Result(r) = {} THEN "NOT_FOUND" ELSE "OK")
    /\ UNCHANGED history

\* The aggregate has settled; a $limit of 0 is an error.
Scanned(r) ==
    /\ rstage[r] = "scanning" /\ query[r].limit # 0
    /\ Full(r) \/ \A i \in Matched(r) : Complete(r, i)
    /\ Respond(r, IF Result(r) = {} THEN "NOT_FOUND" ELSE "OK")
    /\ UNCHANGED history

ScanFailed(r) ==
    /\ rstage[r] = "scanning"
    /\ Respond(r, "ABORTED")
    /\ UNCHANGED history

Read(r) == Begin(r) \/ Seek(r) \/ Verify(r) \/ Lookup(r) \/ Scanned(r) \/ ScanFailed(r)

ReadsNext == (Next /\ UNCHANGED readVars) \/ \E r \in Readers : Read(r)

ReadsSpec == ReadsInit /\ [][ReadsNext]_readsVars

\* A reader that was called runs its callbacks and is served; writers need not.
ReadFairness == \A r \in Readers : WF_readsVars(rstage[r] # "new" /\ Read(r))

FairReadsSpec == ReadsSpec /\ ReadFairness

-----------------------------------------------------------------------------
(* Properties.                                                             *)

\* Account i was deleted, or added, by a call of this behaviour.
Removed(i) == \E c \in Calls : phase[c] = "committed" /\ req[c].op = "delete" /\ req[c].id = i
Adds(c, i) ==
    phase[c] = "committed" /\ req[c].op \in {"create", "seed"} /\ ids[c]["account"] = i
Added(i) == \E c \in Calls : Adds(c, i)

\* It was added twice, the second time after it had been deleted; the seeded account
\* may have been there from the start.
Remade(i) == \E c, d \in Calls : Adds(c, i) /\ Adds(d, i) /\ (i = 0 \/ c # d)

\* It was deleted, or added, by a call that had not answered when reader r began.
RemovedSince(r, i) ==
    \E c \in Calls \ before[r] :
        phase[c] = "committed" /\ req[c].op = "delete" /\ req[c].id = i

AddedSince(r, i) == \E c \in Calls \ before[r] : Adds(c, i)

\* ReadAll, ReadByID and AuthCredential join four collections at four moments: a
\* row of an OK answer lacks a child only if a DeleteOne of that account, not
\* answered when the read began, has committed; never because a Create is half
\* done, nor because of what was deleted, and made again, before.
WholeUnlessRemoved ==
    \A r \in Readers :
        rstage[r] = "answered" /\ rcode[r] = "OK" /\ query[r].op # "infoAll" =>
            \A i \in Result(r) : (\E k \in ChildKinds : rows[r][i][k] = NoDoc) => RemovedSince(r, i)

\* The account that AuthCredential answers with is the one that refers to the
\* credential whose password was verified, and a verified login is not found
\* any more only if its account was deleted by a DeleteOne that had not answered
\* when AuthCredential was called.
VerifiedFindsOwner ==
    \A r \in Readers :
        rstage[r] = "answered" /\ found[r] # NoDoc /\ rcode[r] \in {"OK", "NOT_FOUND"} =>
            \/ \E i \in Result(r) : rows[r][i]["account"]["credential"] = found[r].credential
            \/ RemovedSince(r, found[r].doc.parent)

\* A read that begins after a Create or a DeleteOne has answered OK sees what it
\* did: the account is there, whole, or is gone (unless it is deleted, or made,
\* again).
AcknowledgedIsSeen ==
    \A r \in Readers : \A c \in before[r] :
        rstage[r] = "answered" /\ query[r].op \in {"readAll", "readByID"} =>
            /\ req[c].op = "create" /\ ids[c]["account"] \in Matched(r) /\ query[r].limit = Unset
                  /\ rcode[r] \in {"OK", "NOT_FOUND"} /\ ~Removed(ids[c]["account"])
               => ids[c]["account"] \in Result(r)
            /\ req[c].op = "delete" /\ rcode[r] = "OK" /\ req[c].id \in Result(r) => Remade(req[c].id)

\* A read is regular: an answer without a limit shows every account that was there
\* when the read began and was not deleted meanwhile, and no answer shows an account
\* that was not there then and was not added meanwhile.
SeesItsStart ==
    \A r \in Readers :
        rstage[r] = "answered" /\ query[r].op # "infoAll" /\ rcode[r] \in {"OK", "NOT_FOUND"} =>
            /\ \A i \in there[r] \cap Matched(r) :
                  query[r].limit = Unset => i \in Result(r) \/ RemovedSince(r, i)
            /\ \A i \in Result(r) : i \in there[r] \/ AddedSince(r, i)

\* Every read that was begun answers.
ReadsEnd == \A r \in Readers : rstage[r] # "new" ~> rstage[r] = "answered"

-----------------------------------------------------------------------------
(* An inductive strengthening of them.                                     *)

\* What a call did to account i lasts until another call undoes it.
Lasting ==
    \A i \in Ids :
        /\ Added(i) => i \in Accounts(db) \/ Removed(i)
        /\ Removed(i) => i \notin Accounts(db) \/ Remade(i)
        /\ Removed(i) \/ i \in Accounts(db) => i = 0 \/ Added(i)

\* The aggregate has run to its end.
Ran(r) == query[r].limit # 0 /\ (Full(r) \/ \A i \in Matched(r) : Complete(r, i))

\* A read goes through its stages, and learns who had been answered at the start.
InOrder(r) ==
    /\ rstage[r] \in {"new", "seeking", "verifying"} => \A i \in Ids : ahead[r][i] = 0
    /\ rstage[r] \in {"new", "seeking"} => found[r] = NoDoc
    /\ rstage[r] = "seeking" => query[r].op = "auth"
    /\ rstage[r] = "answered" /\ rcode[r] \in {"OK", "NOT_FOUND"} =>
          Ran(r) \/ (rcode[r] = "NOT_FOUND" /\ query[r].op = "auth" /\ found[r] = NoDoc)
    /\ \A c \in before[r] : phase[c] = "committed" \/ req[c].op = "update"

\* The credential that was found has an owner, as long as that is not deleted.
Owned(r) ==
    found[r] # NoDoc =>
        LET i == found[r].doc.parent IN
        /\ query[r].op = "auth" /\ i \in Ids
        /\ \/ RemovedSince(r, i)
           \/ i \in Accounts(db) /\ db[<<"account", i>>]["credential"] = found[r].credential

\* An account that appears or disappears after a read began does so by a commit.
Tracked(r, i) ==
    rstage[r] # "new" =>
        /\ i \in there[r] => i \in Accounts(db) \/ RemovedSince(r, i)
        /\ i \in Accounts(db) => i \in there[r] \/ AddedSince(r, i)

\* What a read knows of account i before it looks for it.
Sought(r, i) == found[r] # NoDoc /\ found[r].doc.parent = i
Expected(r, i) == \E c \in before[r] : req[c].op = "create" /\ ids[c]["account"] = i
Unexpected(r, i) == \E c \in before[r] : req[c].op = "delete" /\ req[c].id = i

\* A row shows the account of the store, with every child read so far, unless that
\* account is deleted.
RowOK(r, i) ==
    LET row == rows[r][i]
        n == ahead[r][i]
    IN  /\ n <= Len(Pipeline(r))
        /\ 0 < n /\ n < Len(Pipeline(r)) => row["account"] # NoDoc
        /\ query[r].op # "infoAll" =>
              /\ row["account"] # NoDoc =>
                    /\ n > 0
                    /\ \/ RemovedSince(r, i)
                       \/ /\ db[<<"account", i>>] = row["account"]
                          /\ \A j \in 2 .. n : row[Pipeline(r)[j]] # NoDoc
              /\ n > 0 /\ Sought(r, i) => row["account"] # NoDoc \/ RemovedSince(r, i)
              /\ n > 0 /\ Expected(r, i) => row["account"] # NoDoc \/ Removed(i)
              /\ n > 0 /\ i \in there[r] => row["account"] # NoDoc \/ RemovedSince(r, i)
              /\ row["account"] # NoDoc => i \in there[r] \/ AddedSince(r, i)
              /\ n > 0 /\ Unexpected(r, i) => row["account"] = NoDoc \/ Remade(i)

ReadInv ==
    /\ Lasting
    /\ \A r \in Readers : InOrder(r) /\ Owned(r) /\ \A i \in Ids : Tracked(r, i) /\ RowOK(r, i)
=============================================================================
