--------------------------- MODULE RegistryProofs ---------------------------
(***************************************************************************)
(* What the registry promises holds of it for any number of accounts,      *)
(* calls and values.                                                       *)
(***************************************************************************)
EXTENDS AccountRegistry, TLAPS

\* The two functions that the steps change are functions, whatever they hold.
Functional ==
    /\ accounts = [i \in Ids |-> accounts[i]]
    /\ outcome = [c \in Calls |-> outcome[c]]

RegistryInv == Functional /\ LoginsApart /\ ToldTheTruth

\* An account that has its login to itself can be put at its place.
LEMMA PutKeepsApart ==
    ASSUME Functional, LoginsApart, NEW i \in Ids, NEW account,
           account = NoAccount \/ FreeFor(i, account),
           accounts' = [accounts EXCEPT ![i] = account]
    PROVE  LoginsApart' /\ accounts' = [j \in Ids |-> accounts'[j]]
<1>1. \A j \in Ids : accounts'[j] = IF j = i THEN account ELSE accounts[j]
  BY DEF Functional
<1>2. accounts' = [j \in Ids |-> accounts'[j]]
  BY DEF Functional
<1>3. ASSUME NEW j \in Existing', NEW k \in Existing',
             LoginOf(accounts'[j]) = LoginOf(accounts'[k])
      PROVE  j = k
  <2>1. j \in Ids /\ k \in Ids /\ accounts'[j] # NoAccount /\ accounts'[k] # NoAccount
    BY <1>3 DEF Existing
  <2>2. CASE j = i /\ k # i
    <3>1. k \in Existing \ {i} /\ FreeFor(i, account)
      BY <1>1, <2>1, <2>2 DEF Existing
    <3> QED  BY <1>1, <1>3, <2>1, <2>2, <3>1 DEF FreeFor
  <2>3. CASE k = i /\ j # i
    <3>1. j \in Existing \ {i} /\ FreeFor(i, account)
      BY <1>1, <2>1, <2>3 DEF Existing
    <3> QED  BY <1>1, <1>3, <2>1, <2>3, <3>1 DEF FreeFor
  <2>4. CASE j # i /\ k # i
    <3>1. j \in Existing /\ k \in Existing
      BY <1>1, <2>1, <2>4 DEF Existing
    <3> QED  BY <1>1, <1>3, <2>1, <2>4, <3>1 DEF LoginsApart
  <2> QED  BY <2>2, <2>3, <2>4
<1> QED  BY <1>2, <1>3 DEF LoginsApart

\* A call that takes effect has not been told anything yet.
LEMMA EffectKeepsTruth ==
    ASSUME ToldTheTruth, NEW c \in Calls, NEW i, NEW account, Effect(c, i, account)
    PROVE  ToldTheTruth'
  BY DEF ToldTheTruth, Effect, Parts

\* RegistryInv holds at the start: there is one account at most.
LEMMA RegistryInvInit == RegistryInit => RegistryInv
<1> SUFFICES ASSUME RegistryInit PROVE RegistryInv
  OBVIOUS
<1>1. Functional
  BY DEF RegistryInit, Functional
<1>2. \A i \in Ids : accounts[i] # NoAccount => i = 0
  BY DEF RegistryInit
<1>3. LoginsApart
  BY <1>2 DEF LoginsApart, Existing
<1>4. ToldTheTruth
  BY DEF RegistryInit, ToldTheTruth
<1> QED  BY <1>1, <1>3, <1>4 DEF RegistryInv

\* Every step of the registry preserves RegistryInv.
LEMMA RegistryInvStep == RegistryInv /\ [RegistryNext]_registryVars => RegistryInv'
<1> SUFFICES ASSUME RegistryInv, [RegistryNext]_registryVars PROVE RegistryInv'
  OBVIOUS
<1> USE DEF RegistryInv
<1>1. ASSUME NEW c \in Calls, Add(c) PROVE RegistryInv'
  <2>1. PICK i \in Ids \ Existing : Effect(c, i, Requested(c))
    BY <1>1 DEF Add
  <2>2. FreeFor(i, Requested(c))
    <3>1. NoId \notin Ids
      BY StoreAssumption DEF NoId, Ids
    <3> QED  BY <1>1, <3>1 DEF Add, FreeFor, Existing
  <2>3. LoginsApart' /\ accounts' = [j \in Ids |-> accounts'[j]]
    BY <2>1, <2>2, PutKeepsApart DEF Effect
  <2> QED  BY <2>1, <2>3, EffectKeepsTruth DEF Effect, Functional
<1>2. ASSUME NEW c \in Calls, Change(c) PROVE RegistryInv'
  <2>1. req[c].id \in Ids
    BY <1>2 DEF Change, Existing
  <2>2. LoginsApart' /\ accounts' = [j \in Ids |-> accounts'[j]]
    BY <1>2, <2>1, PutKeepsApart DEF Change, Effect
  <2> QED  BY <1>2, <2>2, EffectKeepsTruth DEF Change, Effect, Functional
<1>3. ASSUME NEW c \in Calls, Remove(c) PROVE RegistryInv'
  <2>1. req[c].id \in Ids
    BY <1>3 DEF Remove, Existing
  <2>2. LoginsApart' /\ accounts' = [j \in Ids |-> accounts'[j]]
    BY <1>3, <2>1, PutKeepsApart DEF Remove, Effect
  <2> QED  BY <1>3, <2>2, EffectKeepsTruth DEF Remove, Effect, Functional
<1>4. ASSUME NEW c \in Calls, Confirm(c) \/ Decline(c) PROVE RegistryInv'
  <2>1. PICK answer \in {"OK", "refused"} :
           /\ outcome' = [outcome EXCEPT ![c] = answer]
           /\ answer = "OK" => c \in done \/ (req[c].op = "update" /\ Parts(c) = {})
           /\ answer = "refused" => c \notin done
           /\ UNCHANGED <<req, accounts, done, taken>>
    BY <1>4 DEF Confirm, Decline, Tell
  <2>2. Functional' /\ LoginsApart'
    BY <2>1 DEF Functional, LoginsApart, Existing
  <2>3. ToldTheTruth'
    BY <2>1 DEF ToldTheTruth, Functional, Parts
  <2> QED  BY <2>2, <2>3
<1>5. CASE UNCHANGED registryVars
  BY <1>5 DEF registryVars, Functional, LoginsApart, Existing, ToldTheTruth, Parts
<1> QED  BY <1>1, <1>2, <1>3, <1>4, <1>5 DEF RegistryNext

\* No two accounts of a registry ever have one login: what the unique indexes are
\* for, whatever calls are made and in whatever order they take effect.
THEOREM LoginsApartHolds == Spec => []LoginsApart
<1>1. RegistryInv => LoginsApart
  BY DEF RegistryInv
<1> QED  BY RegistryInvInit, RegistryInvStep, <1>1, PTL DEF Spec

\* A client that was told OK, or that its call was refused, was told the truth,
\* and it stays the truth.
THEOREM ToldTheTruthHolds == Spec => []ToldTheTruth
<1>1. RegistryInv => ToldTheTruth
  BY DEF RegistryInv
<1> QED  BY RegistryInvInit, RegistryInvStep, <1>1, PTL DEF Spec
=============================================================================
