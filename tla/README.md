# The account service in TLA+

The repository is a NestJS microservice: a gRPC server that keeps accounts in
MongoDB. An account is four documents in four collections, and every change of
it is a MongoDB transaction over all of them. The code is short; what is hard in
it is everything that happens between the `await`s: three or four operations of
one session in flight at once, aborts that cross them, two calls (or two
replicas of the service, `kubernetes-backend.yaml` runs two) that touch one
account, commits whose reply is lost, commands that are executed after their
client has given them up, reads that join collections while transactions commit.
This directory models that.

Paths below are relative to the repository; *service.ts* is
`src/module/grpc/account/account.service.ts`.

## 1. Inventory

| Component | State it keeps | Operations | Interacts by |
|---|---|---|---|
| Documents and schemas (`src/schema/account/**`, `src/config/const/model.config.ts`) | four collections, unique index on `username` and `email` | save (validators, hash hook), `updateOne`, `deleteOne`, lookups | used by everything below |
| `AccountService.Create` (service.ts 53-318) | one session, three child models, promises | parallel saves, save of the account, parallel back references, read, commit, six catches | driver session, collections |
| `AccountService.UpdateOne` (805-949) | one session, a map of promises | parallel updates, read outside the session, commit, two catches | same |
| `AccountService.DeleteOne` (951-1154) | one session, the list read first, a map of promises | list, parallel deletes, commit, two catches | same |
| `ReadAll`, `ReadByID` (320-603) | none | one aggregate over four collections | collections |
| `AuthCredential` (605-803) | none | find credential, verify argon2 hash, aggregate the account | collections |
| `AccountController` | none | hands a request to the service, rethrows a rejection as `RpcException` | calls the service |
| Account info service | none | one aggregate of one collection | collections |
| Seeder (`src/seeder`) | one session per account | `seed()` (a transaction with fixed ids), `drop()` (four independent `deleteMany`) | same collections, another process |
| Bootstrap (`src/main.ts`, modules, `src/intrument.ts`) | two servers | start gRPC and HTTP independently | `Promise.allSettled` |
| MongoDB and its driver (external) | committed store, open transactions, sessions | commands, transactions, index | network |

What makes each correct:

- *Documents*: a login has one owner; a stored password is a hash; the four
  documents of an account refer to each other.
- *Create, UpdateOne, DeleteOne*: all or nothing, against every interleaving; an
  OK is durable, a refusal has no effect, the answer describes what was
  committed, and every call is answered, with its session ended and its
  transaction closed. Not every call is answered: section 3 says which are not.
- *Reads and AuthCredential*: what they return is a whole account, unless it is
  deleted while it is read; they see what was acknowledged before they began;
  a verified credential leads to its own account; they always answer.
- *Seeder*: seeding twice, or next to the service, is harmless; a refresh repairs
  whatever an earlier one left.
- *Bootstrap*: a secure service never listens without its certificate; the
  failure of one server does not stop the other.
- *All writes together*: clients see a registry of whole accounts on which every
  call acts at once or not at all.

Hard behaviours: (1) the operations of one `Promise.all` belong to one session
and travel on different connections, so the first to be sent starts the
transaction, and siblings and even the abort may overtake it; (2) inner and
outer catches abort the same session; (3) a failed commit ends in a catch that
aborts; (4) write conflicts, duplicate keys and snapshots between calls;
(5) operations given up and executed late or never, lost replies, crashes of a
replica, transactions reaped by the server, requests sent again; (6) ids derived
from a millisecond clock; (7) aggregates outside any transaction; (8) a seeder
that runs next to the service, and a drop that fails in part; (9) requests that
lack a sub-message, which some handlers look into outside any catch.

`PROJECT.json` lists these hazards one by one, at their lines, with the
properties that watch them.

## 2. Modules

| Module | Models |
|---|---|
| `AccountStore` | schemas, ids, saves and updates as functions on documents, the store with its unique index, the aggregate pipelines (`Assemble`, `Public`), the seeded store |
| `AccountCalls` | what the handlers share: requests, promises, the driver's session, sending, abort, commit |
| `CreateHandler`, `UpdateHandler`, `DeleteHandler` | the continuations and catches of one handler each, one action per continuation |
| `SeedHandler` | `seed()` of the seeder, which shares its operations with Create |
| `MongoServer` | external: transactions, conflicts, duplicate keys; timeouts with late execution, losses, crashes, reaping |
| `AccountService` | their composition, fairness, the properties |
| `AccountInvariants` | inductive invariants of the sessions: `TypeInv`, `SessionInv`, `StartInv` |
| `AccountIsolation`, `AccountEffects` | inductive invariants of the data: `IsolationInv`, `EffectInv`, `SpentInv` |
| `AccountRegistry` | the abstract specification: accounts as records, one atomic step per call, what a client is told |
| `AccountRefinement` | the refinement mapping, and `ImplementsRegistry` |
| `AccountReads` | `ReadAll`, `ReadByID`, `AuthCredential` and the info list, next to `AccountService` |
| `SeederRefresh` | `drop()` and the two ways to start the seeder, around `SeedHandler` |
| `Bootstrap` | `main.ts` |
| `MCAccount`, `MCReads`, `MCSeeder` | small instances for TLC |
| `AccountServiceProofs` | lemmas about the store; type correctness; the discipline of a session, and what an answer says of its transaction |
| `AccountEffectProofs` | isolation of the transactions, the unique login; what a handler knows of its transaction, step by step of the handlers |
| `AccountIntegrityProofs` | the same for the steps of the server; whole accounts, what a commit makes durable |
| `AccountRefinementProofs` | transactions left open, requests sent again, the refinement of the registry |
| `RegistryProofs` | what the registry promises |
| `AccountReadsProofs` | what the answers of the reads show |
| `SeederRefreshProofs` | what a refresh of the seeder leaves |
| `BootstrapProofs` | no secure service without its certificate |

`AccountEffectProofs` extends `AccountServiceProofs`, `AccountIntegrityProofs`
extends it, and `AccountRefinementProofs`, `AccountReadsProofs` and
`SeederRefreshProofs` extend `AccountIntegrityProofs`, each on its own.

### How the code is represented

A **call** is one gRPC request, on any replica. `stage[c]` is the continuation
the handler has reached. An **operation** is a pair such as
`<<"insert", "info">>`; it is created (`todo`), sent (`reqs`), executed by the
server, settled (`resps`) and consumed by the `Promise.all` that waits for it
(`pending`). `reqs` and `resps` are sets: nothing orders the connections of the
pool.

| Code | Model |
|---|---|
| `startSession`, `startTransaction` | `tstate[c] = "starting"` |
| first command of the session, whichever it is | `Dispatch`: its message has `start = TRUE`, `tstate` becomes `"inProgress"` |
| validation or cast error, update emptied by strict mode, ended session | `Settles`: the operation settles without a message |
| `Promise.all([...]).then` | an action consumes one result and moves on with the last |
| `Promise.all([...])` rejected | an action consumes a rejection; what settles later is heard by nobody (`Settled`, `Dropped`) |
| `abortTransaction().then(endSession).then(reject)` | `Abandon`, `AbortDone`; `endSession` follows the abort in one run of microtasks and sends nothing, so it is part of the same step |
| the catch of one save (11000) | `ChildDuplicate`, `ChildAbortDone` |
| `commitTransaction()` | `Commit`, `Committed`, `CommitFailed` |
| an exception in a catch of a promise executor: unhandled, nothing resolves or rejects | `stage[c] = "stuck"` |
| `payload.data.query` or `.set` of a change is undefined (service.ts 954; 816, 817, 838, 859) | `omits`; the executor throws: `Throw`, in `UpdateThrows` and `DeleteThrows`; behind an empty `Promise.all` the catch answers: `UpdateUnasked` |
| `resolve`, `reject` | `stage[c] = "answered"`, with `code[c]` and `body[c]` |
| `connection.readyState` | `NotConnected`, a choice at the start of a call |
| `moment.now()` in an `_id` default | `clock`; an `_id` is the millisecond; `CreateBegin` looks at the clock once for each of the three models |
| `$set: payload.data.set.info` in the place part | `UpdatePatch` |
| `account.findOne().populate()` of UpdateOne, no session | `ServePlain`: four reads of the committed store, at four moments |
| seeder: fixed `_id`s, three catches that log | `SeedBegin`, `SeedRejected`, status `"LOGGED"` |
| `timeoutMS`, a broken connection | `GiveUp`: the handler sees a rejection, the message moves to `late`, where it is executed at any later time or never (`Vanish`) |
| a replica stops | `Crash`: its call is over, what it sent is late, nobody ends its transaction but the server (`Reap`) |
| `aggregate` outside a session | `Lookup`: each collection of each row is read from the committed store at a moment of its own |
| `result.length < 1`, `result[0]` | `Scanned`, over the rows that reached the end of the pipeline |
| `credential.findOne`, `argon2.verify` | `Seek`, `Verify` (a throw and a mismatch have one answer) |
| `Promise.all` of four `deleteMany`, each with a catch | `Wipe`, `WipeSettled`, `WipeLost` |
| `existsSync`, `readFileSync` | `Check`, `Read`, one step per file, with `FilesChange` in between |
| `Promise.allSettled` | `Settle` |
| `pre('save')` with argon2 | `NewChild`, which hashes; `SetFields`, which does not |

Data that no property tells apart is abstracted: `username` and `email` (both
required and unique) are one field `login`; first and last name are one; the
three parts and their order in a map are a set; `msg` and `details` are left
out. The save of an account includes its validators, which look the children up
in the same session and always find them. The field `reference` and the `time_*`
fields have no behaviour in these handlers.

### Assumptions about the parts outside `src/`

*Driver.* The first operation of a session that reaches a connection carries
`startTransaction`. An abort before any operation is local; a failing abort
command is swallowed; an abort of a transaction that is already aborted, or
whose commit was attempted, throws. A commit without operations is local. A
failing commit leaves the session committed. Operations on an ended session
fail. A timed out operation rejects and may be executed at any time later. A lost
commit or abort is one whose automatic retry was lost as well.

*Server.* Snapshot isolation per transaction; a write conflicts with a key that
another open transaction has written or that was committed since the snapshot,
a written unique entry being a key as well; an error of a write ends its
transaction; a command of a transaction that is not open answers
NoSuchTransaction. An open transaction nobody will end is eventually reaped.

*Protocol.* The `.proto` files are a submodule that is not in the tree. As the
`!== undefined` tests of UpdateOne presume, an omitted sub-message arrives as
`undefined`, and a sub-message carries fields of its own collection only. This goes
for `query` and `set` themselves: a change may lack either. A Create reads its
three sub-messages with `new Model(undefined)`, which makes an empty document.

*Process.* An unhandled rejection is reported (Sentry is initialised in
`src/intrument.ts`) and the process keeps running.

## 3. What the runs check

| Run | Instance | Properties |
|---|---|---|
| `Races` | two Creates of one login over two milliseconds; a Create with an UpdateOne or DeleteOne that takes or gives up its login; a seed with another seed, a Create, an UpdateOne or a DeleteOne | `UniqueLogin`, `RefIntegrity`, `TypeInv`, `CreatedAsAnswered`, `SeededOnce` |
| `Changes` | all pairs of seven UpdateOne and DeleteOne requests | `OnlyParallelStartsLinger`, `StartInv`, `IsolationInv`, `DeletedAsAnswered`, `UpdatedAsAsked`, `ImplementsRegistry` |
| `Faults` | one call out of sixteen requests, up to two faults, empty or seeded database | `SessionInv`, `EffectInv`, `RefIntegrity`, `RefusedLeavesNothing`, `OnlyTheseHang`, `OkMeansCommitted`, `OkIsQuiescent`, `ImplementsRegistry` |
| `Retries` | a request sent again, one fault in the first call | `OnceForAll`, `RefIntegrity`, `SpentInv` |
| `Endings` | one call out of sixteen requests with one fault, or an UpdateOne and a DeleteOne of one account; fair | `CallsEnd`, `TransactionsEnd` |
| `Reads` | four writes next to eleven queries, one fault, fair readers | `ReadsTypeOK`, `WholeUnlessRemoved`, `AcknowledgedIsSeen`, `VerifiedFindsOwner`, `SeesItsStart`, `ReadInv`, `ReadsEnd` |
| `Refreshes` | a run of the seeder with up to two faults, then a refresh without | `RefreshRestores`, `RestoreInv` |
| `Boot` | the start of a process, any set of files | `NeverPlain`, `ServersApart` |

What they show:

- Whatever two calls interleave, the committed store holds whole accounts:
  every account has three children that point back to it and no child is left
  over (`RefIntegrity`), and no two credentials share a login (`UniqueLogin`).
- What Create read back is what its commit adds (`CreatedAsAnswered`); what
  DeleteOne took from its list is what its commit removes, as it stood at that
  moment (`DeletedAsAnswered`): the conflicts of its four deletes protect the
  earlier read.
- A refused call never becomes durable (`RefusedLeavesNothing`) and an OK always
  is (`OkMeansCommitted`), also with losses; after an OK nothing of the call is
  still in flight (`OkIsQuiescent`).
- While nothing is lost, a transaction is left open on the server by an answered
  call only if its first operations were sent in parallel: by a Create, a seed or
  an UpdateOne of several parts (`OnlyParallelStartsLinger`).
- An UpdateOne that takes effect changes one child of its account for each part it
  was sent and nothing else, whatever was committed since its parts were set; the
  parts info and credential then hold what was sent (`UpdatedAsAsked`). Of the part
  place it says only that it changed: what service.ts 852 makes of it is the subject
  of the run `OldData`.
- To its clients the service is a registry of whole accounts: each call takes
  effect in one step, at most once, and is told what happened
  (`ImplementsRegistry`); an UpdateOne sets all its parts or none, and its place
  part takes the values of the info part, which the registry repeats.
- A request sent again takes effect once, although the first call may still be
  executed, unless another request that takes effect in between makes room for it
  (`OnceForAll`); the seeder adds its account or keeps its hands off
  (`SeededOnce`).
- A read outside a transaction may mix the states before and after an UpdateOne;
  it never shows half of a Create, and lacks a child only if the account was
  deleted meanwhile (`WholeUnlessRemoved`). It is regular: it shows the accounts
  there were when it began, up to those deleted or added meanwhile
  (`SeesItsStart`), and what was acknowledged before it began
  (`AcknowledgedIsSeen`). A verified credential leads to the account it belongs to
  (`VerifiedFindsOwner`). "Meanwhile" is by a call that had not answered when the
  read began.
- A refresh in which nothing fails ends with the seeded account, or with an empty
  database: its three saves are sent in parallel before the transaction has
  started, and if one overtakes the start the seed fails, after the drop
  (`RefreshRestores`). A second refresh is the remedy.
- A call is left without an answer for three reasons only: its commit failed, it is
  a Create that aborts its session twice, or it lacks a sub-message that is looked
  into outside any catch (`OnlyTheseHang`). Every other call is answered, unless its
  replica crashes (`CallsEnd`), every read is (`ReadsEnd`), and no transaction
  stays open (`TransactionsEnd`). The three do happen: after a failed commit the
  driver's session counts as committed, so that the `abortTransaction` of every
  enclosing catch throws (910, 1128); the second is the run `Thrown`; an UpdateOne without
  `set`, or a change without the `query` it needs, dereferences `undefined` in the
  executor of the promise (816, 954), also for the `{}` that
  `account.controller.spec.ts` 127 and 137 send to a mocked service.

Four runs are expected to fail; each refutes a sentence of the repository:

- `NewData`: service.ts 895-908 reads the account back outside the session and
  before the commit, so the answer of UpdateOne is the old data; its message
  at 917 calls it "new Data".
- `Hashes`: an UpdateOne with a credential part stores the password as sent; the
  comment at `account.credential.schema.ts` 81 says that the field is a hash.
- `Thrown`: in Create a duplicate key (inner catch) together with another
  failure (outer catch) aborts twice; if the inner abort comes back first the
  outer one throws and the promise is never settled, while
  `account.controller.spec.ts` 84 expects a failing Create to throw.
- `OldData`: the `$set` of the part place is `payload.data.set.info` (service.ts 852), so
  an UpdateOne of a name and an address is refused: strict mode drops the name from the
  update of the place, which then changes nothing. The message at 892 says "may data is
  same old data. or not accepted", although both are new and acceptable.

### Bounds

- *Calls*: two, the smallest number that interleaves; one where faults multiply
  the states. Conflicts, duplicate keys and stale snapshots are pairwise.
- *MaxMs*: the clock starts at any millisecond from 1 to `MaxMs`; id 0 is the
  seeded account. `MaxMs = 2` lets two Creates have the same ids or different
  ones, and a Create straddle a tick.
- *MaxFaults*: two faults suffice for an operation and the abort or commit after
  it. Reaping a transaction that its call has left costs no fault, nor does the
  late execution, or the loss, of an operation that was given up.
- *Readers*: one, next to one writer; readers change nothing, so that two never
  meet. What the commits of two writers together show one reader is not checked,
  but proved. The writer's fault happens next to a ReadByID or a ReadAll without a limit.
- *Endings*: a single call may meet a fault, and a refused call follows it; the
  UpdateOne and the DeleteOne that race meet none.
- *Retries*: the second call starts a millisecond after the first one is over,
  without faults of its own: the client waits for the answer or its timeout.
- *Refreshes*: the second run starts when the first is over and nothing of it is
  left on the server, and nothing fails in it.
- *Values*: two, one used by the seeder and one not.
- *Workloads*: the seed; Create with the taken or the free login or without the required
  name; UpdateOne of the login, of two parts, of the place alone, of nothing, or
  with an invalid id; DeleteOne with a valid or an invalid id; and, for single calls,
  changes without `query`, without `set` or without both.
- Symmetry of the two calls is used in `Races` and `Changes`, where every
  pair of requests comes in both orders; never with a liveness property.
- *Races*: the two Creates start at the first millisecond, on an empty database; the
  others start at the last one, on either database. Each Create reads one millisecond
  for its three child ids; in the other runs, and in the proofs, these may differ.

`Quiet` lets a finished system stutter, so a deadlock is a real one: it is
checked in every run but `Boot`, where a process that is up, or has ended, has
nothing left to do.

### Fairness

`FairSpec` (and `EndSpec`, which confines faults to single calls) asks weak
fairness of `Progress(c)` for each call: once called, a handler's continuations
are run by the Node.js event loop; the server answers what it receives or it is
lost; a transaction left behind is reaped. Neither a
call, nor a tick of the clock, nor a fault is ever forced. A call only ever
waits for a message that is then in `reqs` or `resps`, so weak fairness is
enough.

`ReadFairness` asks weak fairness of the steps of each reader that has begun,
and nothing of the writers. `BootSpec` asks it of the main function and of each
`listen()`, which settle on their own; files need not change.

### The refinement

`AccountRefinement` maps account `i` of the registry to the document and the
children it refers to in the committed store, a call's effect to the commit of
its transaction, and what the client is told to `resolve` or `reject`. A stuck
or crashed call tells nothing. The mapping hides documents, messages, sessions,
locks and faults; a step of the service is a commit (`Add`, `Change` or
`Remove`), an answer (`Confirm` or `Decline`) or a stutter. The registry also
fixes the account a Create or DeleteOne answers with (`taken`). What it does not
promise is that a call is answered, or that it succeeds.

## 4. What is proved

All of it is proved for every set of calls, values, workloads and bounds that
satisfies the named assumptions of the modules: `StoreAssumption`,
`CallAssumption`, `ServerAssumption`, `AccountAssumption`, `ReadAssumption` and
`SeederAssumption` (the sentinels are no documents, payloads, values or accounts;
bounds are natural; workloads and queries are requests, and the one of a Create
carries no id, as the code reads none; the service starts on an empty or a seeded
store; the process of the seeder runs `seed()` and nothing else). The number of calls need not even be
finite.

### Types

- `TypeCorrect`: `Spec => []TypeInv`; `TypeOKHolds`: `Spec => []TypeOK`.

`AccountServiceProofs` begins with lemmas about the store: what `NewChild`,
`SetFields`, `Put`, `Touched`, `Assemble` and `Public` return, and that the
empty and the seeded stores are stores.

`TypeOK` is not inductive. A message of the server's input is turned into a
document through `ids` and `req` of its call; that the document has its type
needs that the ids were generated before the operation was, that no `update`
without a `$set` was sent, that a `populate` follows a successful `find`, and
that each result consumed in a stage belongs to the operations of that stage.
`OperationsOK` says so: every operation a handler holds (`todo`), awaits
(`pending`) or has sent (`reqs`, or `late` once it is given up) is `Justified` by what its handler has done, and
the `Promise.all` of each stage waits for operations of that stage only. The
proof has one lemma per action; `JustifiedStays` (ids and body are only ever
filled in) and `OperationsStay` carry most of them.

### Sessions

- `SessionCorrect`: `Spec => []SessionInv`;
- `RefusedLeavesNothingHolds`, `OkMeansCommittedHolds`, `OkIsQuiescentHolds`:
  the three properties that tie an answer to what the server made of the
  transaction, for every number of calls and of faults: operations given up and
  executed later, lost replies, crashes and reaped transactions;
- `OnlyTheseHangHolds`: no other call is left without an answer.

None of them is inductive: that an OK finds the wire empty depends on
everything sent since the call began. `SessionInv` adds to `TypeInv`, for each
call,

- `Once`: an operation is created, or on the wire, or settled, never two of
  these; the abort sent by the catch of a save stands for that save;
- `WaitOK`: while a call waits for a `Promise.all`, everything of it that is
  under way is in `pending`, so the last result leaves it silent (`LastSilent`);
- `CommitOK`: a commit travels alone, and only while its call awaits it;
- `LateOK`: an operation that was given up has been, or will be, heard of by its
  call as a rejection, so that a call with a late operation cannot answer OK
  (`Rejection`), and a late commit belongs to a call that has decided to commit;
- `EndOK`: nothing is under way for a call that has not begun or whose commit was
  answered, an aborted session has ended, an answered call is OK exactly when
  its session is committed, and a call that hangs does so for a reason
  (`Unanswerable`);
- `PhaseOK`: a session that has sent nothing has no transaction on the server,
  and a transaction is committed only for a call that awaits its commit, has
  seen the end of it, or has crashed in between (`Decided`).

The step proof has two halves. A step for call `c` leaves every other call
`Untouched` (`HandleAlone`, `ServeAlone`), which keeps its discipline
(`UntouchedStays`). For `c` itself there is one lemma per action, most of them
from four shared ones: a result that is not the last (`ConsumeDisciplined`), the
next step (`ProceedDisciplined`), a rejection (`AbandonDisciplined`) and a commit
(`CommitDisciplined`). On the server side `AnswerDisciplined` covers every
command. TLC checks `SessionInv` in `Faults`.

### Isolation and the unique login

- `IsolationCorrect`: `Spec => [](SessionInv /\ IsolationInv)`;
- `UniqueLoginHolds`.

`UniqueLogin` speaks of the committed store, but a commit brings in a view, and a
view is only as good as what other calls committed while it was open.
`IsolationInv` therefore says of each open transaction that its view is the
committed store but for the keys it wrote and the keys that are stale, that
written keys are stale for nobody and written by nobody else (`Isolated`), and that
its view has a correct index (`IndexOK`), with the sets of written and of stale
keys closed under "the credential this entry points to" (`Closed`). Then two
correct indexes merge into one (`MergeIndex`), and `PutIndex` does the same for one
write. On the server four things can happen to the data: a transaction takes
its snapshot, writes, is aborted or merges (`ServeShapes`), with one lemma each.
`InsertsValid`, that no invalid document is sent, is what a credential needs to
have a login at all. TLC checks `IsolationInv` in `Changes`.

### What a commit makes durable

- `EffectsCorrect`: `Spec => [](SessionInv /\ IsolationInv /\ EffectInv /\ RefIntegrity)`,
  the four of which the proofs call `WholeInv`, and the first three `EffectsInv`;
- `RefIntegrityHolds`, and the action properties `CreatedAsAnsweredHolds`,
  `SeededOnceHolds`, `DeletedAsAnsweredHolds` and `UpdatedAsAskedHolds` (the last in
  `AccountRefinementProofs`, as it needs `PartsWritten`).

Whole accounts are the work of several operations, each of which may have been
refused by a conflict, lost, or executed without its handler knowing.
`EffectInv` ties the two sides together. `Written`: every document that a transaction
has written is one its handler's code can write (`Creating`, `Setting`,
`Removing`), compared with the snapshot. `EffectsOK`: each operation of which the
handler knows that it succeeded (`Acknowledged`: a result on its way, the
operations of earlier stages, those the current `Promise.all` no longer waits for,
and all of its `Plan` once it has sent its commit) has left its mark on the
transaction (`HasEffect`), provided that it can still be committed. `ReadsOK`: the
list of a DeleteOne is its snapshot, and what a Create reads back is its own view.
`ListFirst`: a DeleteOne writes nothing before it has read its list.

So a commit finds everything its call planned (`CreateCommit`, `UpdateCommit`,
`DeleteCommit`), and from whole accounts makes whole accounts (`CreateWhole`,
`UpdateWhole`, `DeleteWhole`). The last of these needs the conflicts: that a
DeleteOne removes all children of its account rests on the deletes having been
applied to the snapshot its list was read from, and on nobody having written those
keys since; and for that the accounts must have been whole all along, so that
`RefIntegrity` is part of the invariant. `EffectInv` itself is kept without it. TLC
checks both in `Faults`.

### Transactions left open, requests sent again

- `StartCorrect`: `Spec => []StartInv`; `OnlyParallelStartsLingerHolds`;
- `SpentCorrect`: `Spec => []SpentInv`; `OnceForAllHolds`.

`StartInv` says, while nothing is lost, of a call that does not start in parallel
that the operation that starts its transaction travels alone, and that the
transaction is not open once its abort has come back; and, always, that an UpdateOne
updates the parts of its request only.

`SpentInv` says what a call that took effect leaves behind until another request takes
effect: a credential with its login, or the account gone, or nothing left to
change. A second commit of the same request contradicts it: the unique index
refuses the save, the `deletedCount` is zero, the `modifiedCount` is zero
(`SpentForbids`). Proving `OnceForAll` showed that its first form, for two calls with one
request and nothing said of others, was true of the instance TLC checked and
false in general: a DeleteOne in between makes room for a second Create. It now
says so. TLC checks both invariants, `StartInv` in `Changes` and `SpentInv` in `Retries`.

### The refinement

- `ImplementsRegistryHolds`: `Spec => ImplementsRegistry`.

`InitRefines` maps the initial states. `NextRefines` splits a step: the server's
commit of call `c` is one of `Add` (`AddShown`), `Change` (`ChangeShown`) and
`Remove` (`RemoveShown`), put together in `CommitRefines`; an answer is `Confirm`
or `Decline` (`StepRefines`); all else stutters, because it leaves the documents of the
store (`SameStore`), the commits and the answers alone. `WholeInv` supplies what a
commit has done and that a body shows it (`AnswerShown`), `UpdateWrites` which documents an
UpdateOne wrote, `SessionInv` that an
answer tells the truth, `IsolationInv` that the login was free (`LoginsShown`), and
`PartsWritten` that an UpdateOne changed the parts it was asked for and no others.
An answer is given once and kept (`AnsweredOnce`, `AnswerKept`).

With it, what `RegistryProofs` proves of the registry is true of the service, seen
through the mapping: `LoginsApartHolds` and `ToldTheTruthHolds`, for any number of
accounts, calls and values. `RegistryInv` adds only that
`accounts` and `outcome` are functions; `PutKeepsApart` is the lemma all effects
share.

### The reads

- `ReadInvHolds`: `ReadsSpec => []ReadInv`; `ReadsTypeOKHolds`;
- `WholeUnlessRemovedHolds`, `SeesItsStartHolds`, `AcknowledgedIsSeenHolds`,
  `VerifiedFindsOwnerHolds`: the four properties of the answers, for any number of
  readers and writers.

An answer says nothing of the store at the moment it is given: each of its
documents is of an earlier one. `ReadInv` says what of it lasts. `Lasting`: what a
committed Create or DeleteOne did to an account stays until another call undoes it,
and an account that is there although it was removed was added twice (`Remade`);
this is where a reader's `before`, the calls that had answered when it began, meets
the store. `Tracked`: the accounts of the store differ from those that were there
when the read began (`there`) only by what calls outside `before` have committed
since (`RemovedSince`, `AddedSince`). `InOrder`: a reader that answers OK or NOT_FOUND has run its aggregate
to the end (`Ran`). `Owned`: the account that a verified credential points to still
refers back to it, or was deleted. `RowOK`: a row whose account was found shows that
account as it is in the store, with a document for every child collection read so
far, or the account was deleted since the read began; a row that was to be there
(`Expected`, `Sought`, or a member of `there`) or not (`Unexpected`) is.

A reader changes nothing, so `ReadsSpec` implies `Spec` (`ReadsImplementSpec`), and
the readers rest on `WholeInv`. `AccountsChange` says that one step of the service
leaves an account as it is, adds one that is not there or removes one that is; `WriterKeeps` is the step of a
writer, and `ReadBegins`, `ReadSeeks`, `ReadVerifies`, `ReadLooksUp` and
`ReadSettles` are those of a reader. `RefIntegrity` carries the lookups: the child
that a present account refers to is there (`RowLookedUp`), and the credential that
`findOne` finds has an owner (`ReadSeeks`). That a `$limit` of at least one lets the
one row of AuthCredential through uses that an empty set has no members. TLC checks
`ReadInv` in `Reads`.

### The refresh

- `RestoreInvHolds`: `RefreshSpec => []RestoreInv`; `RefreshRestoresHolds`.

A drop outside any transaction breaks `RefIntegrity` but none of the invariants of
`EffectsInv`, which are about transactions: `SeederInv` is `EffectsInv` and
`RestoreInv`. `RestoreInv` says that there is one run at a time and that the others
are over for good; and of a refresh during which nothing has failed (`Restoring`)
that no command is left over from before, that collections whose `deleteMany` was
executed stay empty until the seed commits, and that a commit that took effect,
which puts the seeded account into the empty store, is reported as one
(`Reported`). TLC checks `RestoreInv` in `Refreshes`.

### Bootstrap

- `NeverPlainHolds`: `BootSpec => []NeverPlain`.

`BootInv` says how far the reads have come (the third of six completes the
credential of gRPC, the last the options of HTTP) and that nothing of a secure
service is set up before the last.

### Only model-checked

Every liveness property (`CallsEnd`, `TransactionsEnd`, `ReadsEnd`, `ServersApart`): liveness under fairness is beyond the prover and stays
with TLC. The theorems above are about `Spec`; the runs whose specification
restricts it (`RaceSpec`, `RetrySpec`, `EndSpec`, and `LossySpec` and `RepairSpec` of the
reads and the refresh) show a part of the same behaviours.

## 5. Mutants

Every property of every passing run has a mutant: a definition changed the way a
bug would change it (an operator named after the definition, just before it, with
a comment that starts with *Mutant*). None of them is used by the specification.
They are listed in `PROJECT.json`.

## 6. Not modelled

- `username` and `email` as two fields: `AuthCredential` looks for either, and an
  e-mail of one account that is the username of another is outside the model.
- A `drop()` next to a running service; two seeders that refresh at once.
- Elections and sharding of MongoDB, and the order in which a scan visits rows:
  `Lookup` allows any.
- Nest's modules and dependency injection, the empty HTTP module, Sentry, server
  options, container and workflow files: configuration and I/O.
- Mongoose documents of the types in `src/model`: declarations only.
- How many accounts `seed()` makes: one, from its one payload, where
  `MD/install/DOCKER-INDEPEDENT.md` 100 says two.

## 7. Plan

1. *(done)* store, handlers, server, composition, type correctness, the discipline
   of a session and the answers, faults, seeder, registry and refinement, reads,
   refresh, bootstrap.
2. *(done)* the data: `UniqueLogin`, `RefIntegrity`, what a commit makes durable,
   `OnceForAll`, `OnlyParallelStartsLinger`; the refinement of the registry;
   `NeverPlain`.
3. *(done)* the reads: `ReadsTypeOK`, `WholeUnlessRemoved`, `SeesItsStart`,
   `AcknowledgedIsSeen` and `VerifiedFindsOwner`, from `ReadInv`.
4. *(done)* the refresh: `RefreshRestores`, from `RestoreInv`.

Every safety property that a run checks is a theorem. What is left is beyond the
prover (liveness) or beyond the models (section 6).
