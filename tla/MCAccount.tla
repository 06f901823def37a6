------------------------------ MODULE MCAccount ------------------------------
(***************************************************************************)
(* Small instances of AccountService: two logins, a few requests per run.  *)
(***************************************************************************)
EXTENDS AccountRefinement, AccountEffects, TLC

CONSTANTS c1, c2, v1, v2

MCValues == {v1, v2}
MCCalls == {c1, c2}
OneCall == {c1}
CallSymmetry == Permutations(MCCalls)

\* Before and after the seeder has run.
Fresh == {EmptyStore}
Seeded == {SeededStore}
Either == Fresh \cup Seeded

\* Payloads.
Empty == [f \in FieldNames |-> Unset]
Only(f, v) == [Empty EXCEPT ![f] = v]
None == [k \in ChildKinds |-> NoPatch]

\* A complete Create with login v, and one without the required name.
NewAccount(v) ==
    [op |-> "create", id |-> NoId, omits |-> {},
     set |-> [k \in ChildKinds |->
                 [f \in FieldNames |-> IF f \in Schema[k] THEN v ELSE Unset]]]
Nameless == [NewAccount(v1) EXCEPT !.set["info"] = NoPatch]

\* An UpdateOne of account id with the given parts, and a DeleteOne.
Update(id, parts) == [op |-> "update", id |-> id, omits |-> {}, set |-> parts]
Delete(id) == [op |-> "delete", id |-> id, omits |-> {}, set |-> None]

Rename == [None EXCEPT !["info"] = Only("name", v2)]
Move == [None EXCEPT !["place"] = Only("address", v2)]
Login == [None EXCEPT !["credential"] = Only("login", v2)]
Password == [None EXCEPT !["credential"] = Only("password", v2)]
Activate == [None EXCEPT !["info"] = [Only("name", v2) EXCEPT !["status"] = v1],
                         !["place"] = Only("status", v2)]
Relocate == [Rename EXCEPT !["place"] = Only("address", v2)]

\* Changes whose client left a sub-message out.
Without(omitted, request) == [request EXCEPT !.omits = omitted]
Incomplete ==
    {Without({"query", "set"}, Update(NoId, None)), Without({"set"}, Update(0, None)),
     Without({"query"}, Update(NoId, None)), Without({"query"}, Update(NoId, Activate)),
     Without({"query"}, Delete(NoId))}

\* Both calls carry a request of R; the calls carry a and b, in any order; call c1
\* carries a and c2 carries b.
Both(R) == [MCCalls -> R]
Together(a, b) == {[call \in MCCalls |-> IF call = c THEN a ELSE b] : c \in MCCalls}
Pair(a, b) == [call \in MCCalls |-> IF call = c1 THEN a ELSE b]
Alone(R) == [OneCall -> R]

\* Two Creates with one login.
Twins == Both({NewAccount(v1)})

\* A Create with the login that the other call takes, gives up or deletes.
Mixed ==
    Together(NewAccount(v2), Update(0, Login)) \cup Together(NewAccount(v1), Update(0, Login))
    \cup Together(NewAccount(v1), Delete(0))

\* A seed next to another seed, to a Create with its login, or to changes of the
\* account it would create.
Seedings ==
    UNION {Together(SeedRequest, r) :
              r \in {SeedRequest, NewAccount(v1), Update(0, Login), Delete(0)}}

\* Equal Creates race on a new database while the clock advances, each with one
\* millisecond for its three models; the others race at the last millisecond, on
\* either database.
Races == Twins \cup Mixed \cup Seedings
RaceInit == Init /\ IF req \in Twins THEN db = EmptyStore /\ clock = 1 ELSE clock = MaxMs
RaceNext == Next /\ \A c \in MCCalls : ids'[c]["info"] = ids'[c]["place"]
RaceSpec == RaceInit /\ [][RaceNext]_vars

\* Two changes of the seeded account.
Edits == {Update(0, Login), Update(0, Activate), Update(0, Move),
          Update(0, None), Update(NoId, Rename), Delete(0), Delete(NoId)}
Changes == Both(Edits)

\* A client that sends its request again, a millisecond after the first call is
\* over: it was refused, given up, or lost with its replica.
Again == Both({NewAccount(v2)}) \cup Both({Update(0, Login)}) \cup Both({Delete(0)})
RetryInit == Init /\ clock = 1
RetryNext ==
    /\ Next
    /\ clock' # clock => Orphan(c1)
    /\ stage'[c2] # "new" => clock = MaxMs
    /\ stage[c2] # "new" => faults' = faults
RetrySpec == RetryInit /\ [][RetryNext]_vars

\* One call.
Requests == Edits \cup Incomplete \cup {NewAccount(v1), NewAccount(v2), Nameless, SeedRequest}
Single == Alone(Requests)
Renaming == Alone({Update(0, Rename)})
NewPassword == Alone({Update(0, Password)})
Creation == Alone({NewAccount(v1)})
Moving == Alone({Update(0, Relocate)})

\* Two calls race without faults, or one of any kind meets one; the request of
\* c2 is then a refused one that comes after.
Race == Pair(Update(0, Login), Delete(0))
Ends == {Pair(r, Delete(NoId)) : r \in Requests} \cup {Race}
EndNext ==
    /\ Next
    /\ IF req = Race THEN faults' = 0 ELSE stage'[c2] # "new" => Orphan(c1)
EndSpec == Init /\ [][EndNext]_vars /\ \A c \in MCCalls : WF_vars(Progress(c))
=============================================================================
