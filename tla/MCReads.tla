------------------------------- MODULE MCReads -------------------------------
(***************************************************************************)
(* Small instances of AccountReads: one writer and one reader.             *)
(***************************************************************************)
EXTENDS AccountReads

CONSTANTS c1, r1, v1, v2

MCValues == {v1, v2}
OneCall == {c1}
MCReaders == {r1}

Seeded == {SeededStore}

Empty == [f \in FieldNames |-> Unset]
Only(f, v) == [Empty EXCEPT ![f] = v]
None == [k \in ChildKinds |-> NoPatch]
NewAccount(v) ==
    [op |-> "create", id |-> NoId, omits |-> {},
     set |-> [k \in ChildKinds |->
                 [f \in FieldNames |-> IF f \in Schema[k] THEN v ELSE Unset]]]
Update(id, parts) == [op |-> "update", id |-> id, omits |-> {}, set |-> parts]
Delete(id) == [op |-> "delete", id |-> id, omits |-> {}, set |-> None]
Login == [None EXCEPT !["credential"] = Only("login", v2)]
Password == [None EXCEPT !["credential"] = Only("password", v2)]

Query(op) == [op |-> op, id |-> NoId, limit |-> Unset, login |-> Unset, password |-> Unset]
All(limit) == [Query("readAll") EXCEPT !.limit = limit]
ByID(id) == [Query("readByID") EXCEPT !.id = id]
Auth(login, password) == [Query("auth") EXCEPT !.login = login, !.password = password]

\* One call of every kind next to every kind of read.
AnyCall == [OneCall -> {NewAccount(v2), Update(0, Login), Update(0, Password), Delete(0)}]
AnyQuery ==
    [MCReaders -> {All(limit) : limit \in {Unset, 0, 1}} \cup {ByID(i) : i \in {NoId, 0, 1}}
                  \cup {Auth(v1, v1), Auth(v1, v2), Auth(v2, v2), Auth(Unset, v1)}
                  \cup {Query("infoAll")}]

\* The writer meets its fault only next to a ReadByID or a ReadAll without a limit,
\* whose answers must agree with what its client was told.
LossyNext ==
    /\ ReadsNext
    /\ faults' # 0 => query[r1].op \in {"readAll", "readByID"} /\ query[r1].limit = Unset
LossySpec == ReadsInit /\ [][LossyNext]_readsVars /\ ReadFairness
=============================================================================
