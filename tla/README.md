# Catalina, specified and verified

Catalina is a key/value store for GLib programs: an asynchronous (and
synchronous) API over tdb, with transactions, a pluggable transform (zlib) and
a pluggable formatter (GValue serialisation).  This directory holds TLA+
models of it, the TLC configurations that check them, and TLAPS proofs.
`PROJECT.json` lists the same things for tools: components, runs, the source
lines each definition stands for, hazards and findings.

## 1. Inventory

| Part | Source | State | Operations |
|---|---|---|---|
| Storage | `catalina/catalina-storage.c`, `-private.h` | `db_ctx`, `txn_seq`, `txn`, `txn_commits`, `txn_state` (id to `TxnState`: deferred messages, error), two ports | open, close, get, set, count_keys, transaction begin / commit / cancel; a handler per message |
| Storage task | same file, 2080-2190 | `mutex`, `cond`, `success`, `error`, `result`, key and data of one request | new, wait, complete (succeed, fail), free; `*_value_async` wrap a second task |
| Zlib transform | `catalina/catalina-zlib-transform.c` | `level`, `watermark` | write (deflate into chunks, frame), read |
| Transform, formatter | `catalina-transform.c`, `catalina-formatter.c` | none | dispatch to an implementation |
| Binary formatter | `catalina/catalina-binary-formatter.c` | none; on the stack of `write_object`, a `total` nobody initialises | serialize, deserialize; write and read of each GValue type, and of objects |
| Iris (external) | | ports, receivers, arbiter | runs exclusive handlers alone, concurrent ones together |
| tdb (external) | | records, nested transactions | open, close, fetch, store, traverse, transaction start / commit / recover |
| Vala bindings, examples, tests, build | | | no logic of the library |

How they interact: a call of the API allocates a `StorageTask` and posts one
message with it, to `ex_port` (open, close, set, begin, commit, cancel) or
`cn_port` (get, count).  The arbiter runs the handlers; a handler works on the
storage and on tdb and *completes* the task, which wakes the waiting caller
(`GCond`) or runs a callback, in the main loop or at once, that calls the
`*_finish` function; this reads the outcome and frees the task.

A `set` with a transaction id is not carried out: its message joins the
transaction's list, and its client waits.  `handle_txn_commit` makes the
transaction current, starts a tdb transaction, reverses the list and runs
`handle_set` for each message, then commits in tdb; or, after the first error,
calls `tdb_transaction_recover`, which leaves the tdb transaction open.  It drops
the transaction, answers the commit, and calls itself for the next commit that
was put off.

What is hard:

* tasks are referred to by messages that live in ports, in transactions and in
  `txn_commits`, and are freed by their clients once answered;
* early returns of `handle_txn_commit` after it has changed `priv->txn`;
* sets answered one by one before the commit is decided, and a tdb transaction
  that stays open, under all that follows, when one of them fails;
* the mutex that a synchronous caller holds from `storage_task_new` on, and who
  frees it; callbacks that free a task inside `storage_task_complete`;
* loops over chunks whose sizes fall on a boundary;
* callbacks that make calls of their own, in the worker or the main loop that
  would have to answer them;
* frames whose length is wrong because `total` was not zero, properties that
  are skipped in the middle of an object, machines that differ;
* failures of tdb, of the transform and of the formatter at every call.

What makes each part correct:

* storage: no dangling or twice-answered task; transactions are all or nothing
  (as far as they are, see `storage_failed_set`) and in order; ended transactions leave nothing behind; every request is
  answered; closing and opening keep the records;
* task: nobody touches a freed task; a call reports what its handler decided;
  every call returns;
* zlib transform: what is read is what was written; no uninitialised memory is
  stored; the loops end;
* binary formatter: what is read is what was written, on any machine, or the
  reader says that it is not; storing it again changes nothing.

## 2. Modules

| Module | What it is |
|---|---|
| `CatalinaStorage` | the storage: clients, ports, handlers, transactions, tdb |
| `MCStorage` | its instances for TLC |
| `TransactionalStore` | what the storage promises, without ports, workers or tdb |
| `StorageRefinement` | `CatalinaStorage` with two history variables, shown to implement `TransactionalStore` |
| `StorageTask` | the hand-over of a task between caller, worker and main loop |
| `ZlibTransform` | one value through write, store and read |
| `BinaryFormatter` | one GValue, with the objects it refers to, through serialize and deserialize, twice |
| `MCFormatter` | its classes and values for TLC |
| `SequenceLemmas` | proved facts about lists of distinct messages |
| `CatalinaStorageProofs` | the inductive invariant of `CatalinaStorage` and its theorems |
| `CarefulClientProofs` | what the storage guarantees clients that end a transaction once |
| `RefinementProofs` | that it implements `TransactionalStore` for them |
| `StorageTaskProofs` | the safety of `StorageTask`, and that it does not deadlock |
| `ZlibTransformProofs` | the loops of `ZlibTransform`, and that values come back |
| `FrameLemmas` | proved facts about the bytes the binary formatter writes and how they are read |
| `BinaryFormatterProofs` | the inductive invariant of `BinaryFormatter`, and that values come back |

Definitions whose comment begins with *Mutant* are altered copies of the one
that follows them.  No specification uses them; each shows that a property
fails when the code is changed in that way.

### CatalinaStorage

Every variable is a field of `CatalinaStoragePrivate` or `StorageTask`, or
stands for tdb (`tdb_data` committed records, `tdb_view` what the connection
sees, `tdb_depth` how many of its transactions are open, `tdb_broken` whether an
operation of theirs has failed).  A `Task` is a slot a client may
use again once it has freed it.  `status` is `pending` from the post until
`storage_task_complete`; `Finish` is the `*_finish` function and the free.

An exclusive handler is one action: the arbiter runs nothing beside it, so
nobody can observe its middle.  `handle_txn_commit` is the exception: it answers
clients while it runs, and it is split where it does: `ReceiveCommit`,
an entry action for each early return, `TxnStateRun` for each turn of the loop,
and `CommitDone` or `CommitAborted` with everything that follows the loop.
`NextCommit` is the call of the handler on the next postponed commit; the
worker then is at the entry again without having gone idle.  Readers are one
action and wait for the worker to be idle.

Every `set` that fails also marks its transaction (`Marked`), as
`storage_task_fail` does, including the sets whose transaction is current.  A
`g_return_if_fail` that returns without an answer is modelled so.  The
transform counts as one of the calls of `handle_set` and `handle_get` that may
fail; those that may are in the constant `Faults`.  A transform that fails
without a `GError` (none in this repository does) is left out.  `OneShot`
says whether clients end a transaction once and use only ids they were
given, or anything the API accepts.  `StrayFlags` are the bits of the
uninitialised `o_flags` that matter.

`handle_open` calls `txn_state_free` on the messages in `txn_commits`, which
is undefined behaviour; the model continues with the list emptied.  With
clients that end transactions once the list is empty then
(`IdleMeansNoTxn`).

Of tdb the model has what these calls of it can tell apart.
`tdb_transaction_recover` replays what a crash left in the file, which is nothing
here, so `TdbRecovers` changes nothing: the code never calls
`tdb_transaction_cancel`, and after a failed set the tdb transaction stays open.
Transactions nest, as tdb lets them unless it is told otherwise: a start within
one counts up, a commit within one counts down, and only the outermost commit
writes (`TdbCommits`).  A store or a fetch that fails inside a transaction may
mark it (`TdbFails`); the commit of a marked transaction fails, which for the
outermost cancels it, and may fail for the outermost anyway (`TdbCommitFails`).
`tdb_close` cancels whatever is open and frees the context, also when it returns
an error.  `handle_close` then keeps `priv->db_ctx`; using it is undefined
behaviour, and the model continues with the records of the file.

### TransactionalStore and StorageRefinement

The abstract store has a content, what is saved of it, the write-set of each live
transaction and the outstanding requests.  A set of a transaction `Join`s the
write-set; it is answered while a commit of its transaction is outstanding;
`DoCommit` applies the whole write-set at once and only when every set of it has
succeeded, `DoCancel` applies nothing, and so does `FailCommit` unless one of the
sets has failed or content is not saved anyway.  Then it may apply any first part
of the write-set, and from there on (`loose`) content is not saved: later sets and commits are answered
as successes and can be read, until a close throws them away.  An open finds what
was saved, or nothing if it may truncate (`MayTruncate`).

Two history variables connect the two: `written` keeps the write-set, oldest
first, while the transaction's list is used up, and `seen` keeps what the connection
saw before the commit under way.  The mapping reads `content` off `seen`, `saved`
off `tdb_data`, `loose` off `LeftOpen` (a tdb transaction is open that no commit is
working in), `joined` off the transaction's list and `doomed` off its error.

### StorageTask

Here a handler only decides success or failure; what matters is the protocol.
`HandleSync`, `Lock`, `Signal`, `Unlock` are the steps of
`storage_task_complete` for a synchronous task; `SyncNew` to `SyncFree` those
of the caller.  A value call has an inner and an outer task.  `use_idle` may
change at any time.  The callback of a completion is assumed to call the
matching `*_finish` first, as the documentation asks, which frees the task
(`Told`); `set_async` copies key and value, so that what the wrappers free
after it is theirs alone.

A call is made by a thread of its own, or by the callback of another call
(`parent`).  `callback` says who is running that callback: the worker, the main
loop, or the caller of a refused `set_value_async`.  Until `CallbackEnds` a
worker that runs one still counts as handling its message (`Handling`), and
the arbiter gives it nothing else: one exclusive message, or messages of `get`
together (`Scheduled`).  The main loop runs one callback at a time.  With
`Reentrant` FALSE a callback makes synchronous calls only in the main loop.  With TRUE it may
make them in the worker too, waits there for a message that only this worker
could take, and `SomebodyReady` and `EveryCallReturns` do not hold: the documentation of use-idle
does not promise that it would, so there is no run for it.

### ZlibTransform

Bytes are kept apart by where they come from: plain, a cell of a given
deflated stream, a byte of the length, or memory never written.  The deflate
loop and the copying loop of `real_write` are actions, one turn each; the read
is the operator `RealRead`, and `Fetch` adds what `handle_get` makes of its
result.  Values of 4 GiB and more, whose length does not fit the frame, are
left out, and so is the level.

### BinaryFormatter

A record is a sequence of bytes, and the operators of the two halves of the
module follow the code byte by byte where the reader could lose its place: type
identifiers, lengths, names, the order of the chunks, the zeroes `g_malloc0`
leaves behind.  The contents are smaller than in the code: a real has three
digits and is printed with two, for `%0.8g` and the like; one more value, `Tiny`,
stands for the reals that are printed and refused when they are read, because
`strtod` sets `errno` for them: the denormals, and `FLT_MIN`, which is printed as a
decimal below itself; the two decimal points stand for
locales.  `Machine` chooses byte order and locale for the writer and for the
reader, and the reader may know any subset of the classes.

Objects live in a heap, as in the processes, and a value refers to one by its
place there: `heap` has those of the process that serialises, `made` those that
`read_object` has made.  Several properties may hold one object; the format
writes it each time, so that it comes back as several copies.  `write_object` and
`read_object` call themselves for a property that is an object, and the calls
under way are variables, `writes` and `reads`, the innermost last.
`WriteProperty` is a turn of the loop of `write_object`, `WriteEnd` what follows
the loop; `ReadProperty` is a turn of the loop of `read_object` for a chunk,
`ReadEnd` its end, which assigns the object in the call around it.  A value that is no object
is written and read in the one step `Serialize` or `Deserialize`.  `Again`
serialises what came back, in a second round.

Reading past the record is an outcome (`overrun`), as are the `g_error` of
`read_object` (`abort`) and a return of FALSE.  `real_serialize` returns TRUE
whatever `write_value` said.  A value of an unsupported type, and an object that
is NULL, is therefore stored as the two bytes `<<1, 0>>`, and reading that passes
the end of the record, where the documentation of `catalina_formatter_serialize`
has "Upon failure, %FALSE is returned and @error is set."  `FailuresExplained`
says that nothing else does, except a frame without its 0.

`Garbage` is what `total` may hold at first, and `MaxLength` the longest frame
whose length fits.  `total` is added to.  At -1 the buffer holds header and
chunks exactly and nothing is written past it; the frame only lacks the 0 at its
end, and the record is stored.  `read_object` then takes what follows for the
length of a name: the next chunk of the object around it, or bytes past the record.  `short`
remembers that such a frame has been written.  `RoundTrip`, `NeverWrong`, `Settled` and `ReadsOn` are stated
where there is none, and would not hold otherwise; `FailuresExplained` holds with
it too.  If `total` is less than -1, or the length overflows, the buffer is too
short, `write_object` writes past it and the model ends (`corrupted`).  Names are those
whose length fits their byte (`IsName`), and strings those whose frame does not
exceed `MaxLength`.

`RoundTrip` and `NeverWrong` say what a value comes back as: there is a function
from the objects made to those that were serialised, such that each is a copy of
the other, class and property by property (`Restores`).

## 3. Runs

| Run | Checks | Result |
|---|---|---|
| `storage_any` | the conjuncts of the inductive invariant, `OnlyKnownLosses` and `LeftOpenByFailedSet`, with clients that do anything, every fault and O_TRUNC in the stray flags or not | holds |
| `storage_careful` | with clients that end a transaction once and a tdb that can start one, every other fault and O_TRUNC or not: the refinement, and `CommitAnswersItsSets`, `IdleMeansNoTxn`, `UnansweredAreHeld`, `FailedCommitRolledBack`, `TransactedWritesOnlyAtCommit`, `AbortHasCause` | holds |
| `storage_answers` | `DirectlyAnswered`, with clients that do anything and every fault: a posted request is answered, unless it is a transaction's set, or a set or a commit asked while a transaction stayed current between messages; with `CommitAnswersItsSets` the sets of a successful commit are answered too | holds |
| `storage_failed_start` | `FailedCommitRolledBack` when tdb cannot start a transaction | violated |
| `storage_reopen` | `DurableAcrossOpen` with O_TRUNC in the stray flags | violated |
| `storage_failed_set` | `FailedCommitLeavesNothing` when storing can fail | violated |
| `task_sound` | two calls of any kind, one of which the other's callback may make; the second may be woken early or refused: `UndisturbedTasksAllocated`, `UnwokenAnswerIsVerdict`, `SuccessIsReal`, `SomebodyReady`, and that calls return | holds |
| `task_woken` | `AnswerIsVerdict` with spurious wakeups | violated |
| `task_refused` | `TasksInUseAllocated` when a value is refused | violated |
| `zlib_round_trip` | values come back, frames are filled, every step of a write brings it nearer its end (`StepsRunOut`), writes end | holds |
| `zlib_empty` | `StoredComesBack` for the empty value | violated |
| `formatter_round_trip` | `TypeOK`, `RoundTrip`, `NeverWrong`, `FailuresExplained`, `Settled`, that reading goes on within the record (`ReadsOn`), and that every trip ends (`TripEnds`) | holds |

What the violations show:

* `storage_failed_start`: `handle_txn_commit` sets `priv->txn` and then may
  return early, at the lookup (1950) or at `tdb_transaction_start` (1959).  The
  commit is answered as failed but nothing is rolled back.  In the first case no
  client can ever reset `priv->txn`: closing is refused for good and all other
  commits are put off.  In the second a later set of that id is stored at once,
  outside any transaction, and a second commit stops after its first set because
  of the old error.  For the same reason a postponed commit that fails early does
  not go on to the one behind it.
* `storage_reopen`: `o_flags` (1599) is assigned only if the file does not exist.
* `storage_failed_set`: two sets of a transaction, of which the second fails.  The
  commit is answered as failed, the first set stays visible, and the tdb transaction is
  left open.  Transactions after it nest in it, so their commits write nothing, and a
  close loses them and every later set, all of which were answered as successes
  (`loose` in `TransactionalStore`).  `LeftOpenByFailedSet` says that nothing
  else leaves a tdb transaction open and nothing but a close ends it.
* `task_woken`: `g_cond_wait` without a loop (2148).
* `task_refused`: `storage_task_fail` followed by `storage_task_free` (1165).
* `zlib_empty`: an output of length 0 means "use the input" to `handle_get`, so
  the empty value comes back as its one-byte frame.

### Bounds

Three tasks are enough for the longest interplay the handlers have: two
transactions' commits and one more request, or two sets of one transaction and
its commit (needed for their order).  Slots are reused, so behaviours are
not limited to three requests.  `MaxTxn = 2` gives a current and a postponed
transaction.  `storage_answers` checks liveness, without symmetry, and has two
tasks: one request, and what can keep it from being answered.  `MaxPort = 2` lets one exclusive request
wait behind another, and is otherwise the only limit on what clients post.
One key suffices for the invariants;
the refinement has one key and two values, so that order and partial commits
show: of two sets of the key, the last, the first or none is what is found.  Tasks, keys and values are interchangeable and symmetric in the
safety runs.  In `ZlibTransform` chunks have two bytes and streams one to five,
so that a stream ends before, at and after a chunk's end.  In `StorageTask`
calls share `use_idle`, the worker and the main loop; two are a call and the
one its callback makes, or two that compete.  Three calls were checked once and
hold as well (736,828 states).  The values of `MCFormatter` are those of every
supported type at zero, in the middle and with the high bits set; strings that are NULL,
empty, and longer; the objects of the tests, one inside another, one held by
two properties, with NULL, read-only and unsupported properties, and a name of
254 characters, the longest whose length fits its byte; `total` is -2 (the buffer
is too short), -1 (the frame lacks its 0), 0, and 3 (the frame is longer than
its contents).

`CHECK_DEADLOCK FALSE`: clients need not ask, and every bounded behaviour may
come to rest (all transaction ids used, all calls returned).

### Fairness

`CatalinaStorage`: weak fairness of the exclusive worker (the arbiter schedules
what is posted, and a handler runs to its end), strong fairness of each reader
(it has to wait for the exclusive handler, again and again, but not for ever;
the arbiter's queue gives it its turn), weak fairness of `Finish` (a client
collects its answers).  Clients have no fairness otherwise.  `StorageTask`:
threads run, the arbiter delivers what is posted, the main loop iterates and
callbacks end; nothing obliges anyone to change `use_idle` or to wake a caller
spuriously.  `ZlibTransform`: a write
that has begun goes on.  `BinaryFormatter`: a process that serialises or
deserialises goes on (`FairSpec`); all of it happens in one thread.

## 4. Proofs

All theorems are for every value of the constants that satisfies the named
assumptions of the module that declares them.

### The storage, whatever its clients do (`CatalinaStorageProofs`)

From finite sets of tasks and keys, no sentinel among them, natural bounds, and
nothing about the faults or the clients:

| Theorem | Statement |
|---|---|
| `Invariance` | `Spec => []IInv` |
| `TypeCorrect` | `Spec => []TypeOK` |
| `NoDanglingTask` | `Spec => []TasksAccounted` |
| `ClosingIsClean` | `Spec => []ClosedIsClean` |
| `TdbTransactionsOwned` | `Spec => []TdbTransactionOwned` |
| `DeferredSetsBelong` | `Spec => []DeferredBelong` |
| `LossesKnown` | `Spec => OnlyKnownLosses` |
| `LeavingOpenHasCause` | `Spec => LeftOpenByFailedSet` |

None of the five invariants after `IInv` is inductive alone.  A task in a port may be answered
once (`TasksAccounted`) only if no list holds it twice and no other list holds
it; the lists a commit uses are those of a registered transaction
(`TdbTransactionOwned`), which needs that a closed storage has none
(`ClosedIsClean`), or `handle_open` could empty them under the worker;
and an ended transaction must leave no messages behind (`DeferredBelong`), or a
later one of the same id would answer them.  `txn_seq <= MaxTxn` needs that begins
still in the port are counted (`BeginsBounded`).  `IInv` is the conjunction; TLC
checks all its parts but `BeginsBounded`, a bound of the model, in `storage_any`.

The argument: `InitIInv`; then for types, for the accounting of tasks and for
transactions a lemma per group of actions, each split by action; `NextIInv`
puts them together, and a temporal step concludes.  `SequenceLemmas` has what is
needed of lists: appending, taking the head, prepending and reversing keep a
list of distinct elements distinct, and say what it contains.

`OnlyKnownLosses` is the converse of `TasksAccounted` for a step: a request that
is in a port, a list or the worker's hands is answered or stays in one of them,
but for three kinds of loss.  Two are inherent in the code, the
`g_return_if_fail` of `handle_set` and the sets that `txn_state_free` drops; the
third, commits that `handle_open` forgets, needs clients that end a transaction
twice or one that does not exist.  The
proof needs `Committing`: the worker and `txn_commits` hold commits only, so that
the sets dropped by an aborted commit are those of a transaction whose commit is
answered as failed in the same step; and, when each transaction is ended
once, commits are put off only while the storage is open.

### The storage, for clients that end a transaction once (`CarefulClientProofs`)

`Careful` is `OneShot` and a tdb that can always start a transaction.

| Theorem | Statement |
|---|---|
| `IdleHasNoTxn` | `Careful => (Spec => []IdleMeansNoTxn)` |
| `CommitsAnswerTheirSets` | `Careful => (Spec => []CommitAnswersItsSets)` |
| `FailedCommitsRolledBack` | `Careful => (Spec => []FailedCommitRolledBack)` |
| `AbortsHaveCause` | `Careful => (Spec => AbortHasCause)` |
| `RequestsAreHeld` | `Careful => (Spec => []UnansweredAreHeld)` |
| `WritesOnlyAtCommit` | `Careful => (Spec => TransactedWritesOnlyAtCommit)` |

The invariant `CInv` follows an id through its life.  `Ledger` is the clients'
side: an id is given out once, kept by one client, and ended by one commit or
cancel, so that the transaction of a commit in the port is still registered.
Then `handle_txn_commit` never takes the early returns that leave `priv->txn`
behind, and no commit is put off (`NoneCurrent`).  `Ordered` says that a set is in
the port before the end of its transaction, and `SetsWaiting` that an unanswered set is in
the port or held back by a registered transaction; so a commit answers all of
them.  The proofs first reduce each action to what it does to requests, lists and
answers (`AllSteps`), so that the invariant is proved over a dozen kinds of step
instead of every action.  `AbortHasCause` rests on a second invariant: a
transaction carries an error only while its commit is being given up
(`ErrorsFresh`), so no commit finds one left by another.  `UnansweredAreHeld`, the
safety half of `DirectlyAnswered`, follows from `SetsWaiting` for the sets of
transactions and for all other requests from `LossesKnown`: `NoneCurrent` and
`EndsOnce` rule out each kind of loss (`ForgottenIsSet`).  That the handler then
does come to it is fairness, and stays with TLC.

### The refinement (`RefinementProofs`)

`StorageImplements`: `Careful => (HSpec => Implements)`; every behaviour of the
storage, with its history variables, is one of `TransactionalStore`, whatever
fails besides the start of a tdb transaction and whatever the stray flags are.

`RInv` relates the history to the lists and to tdb.  `HeldBack`: while a transaction's sets
wait, newest first, its write-set is that list reversed (`Waits`).  `RunBack`:
during a commit, the sets still to run are the end of the write-set (`Ahead`), and
`SeenBack`: what the connection sees is `seen` with the writes before them made
(`Made`), and outside a commit it sees just that.  So a commit that
has run all its sets has made tdb show what `DoCommit` writes, and one given up
after a failed set shows some first part of it, as `FailCommit` allows.
`SetsHaveData` gives each write its key.  What happens to `LeftOpen`
(`LooseKept`) follows from the depth: a commit leaves it as it was unless it is
given up.  From this each action maps to an action of the
abstract store or to a stutter (`StepRefines`, by the lemmas `...Refines`).

### The tasks (`StorageTaskProofs`)

| Theorem | Statement |
|---|---|
| `TypeCorrect` | `Spec => []TypeOK` |
| `UndisturbedAreAllocated` | `Spec => []UndisturbedTasksAllocated` |
| `UnwokenTellTheVerdict` | `Spec => []UnwokenAnswerIsVerdict` |
| `SuccessesAreReal` | `Spec => []SuccessIsReal` |
| `OnlyReentranceStalls` | `Spec => [](SomebodyReady \/ \E c \in Call : Stalled(c))` |
| `SomebodyIsReady` | `~Reentrant => (Spec => []SomebodyReady)` |

For any number of calls, `Reentrant` or not.  The invariant is stated per call:
`Stages` (where the message of each task may be, by where the caller is), `Decisions`
(what has been decided is what is told) and, for calls neither woken nor
refused, `Handover` (the mutex, and who may still touch the task).  A step of another
call leaves the tasks of this one alone (`OthersUntouched`), so only a
call's own steps need be looked at.

Deadlock-freedom has an invariant of its own, `DInv`, of every call, woken and refused
ones included: who holds the mutex has a step to take, and a sleeper's signal is
still to come (`Locking`); a call not answered is posted or in the main loop's queue,
and a callback runs only when it is neither (`Answering`); the callback a call is
made in lasts as long as the call, and calls nest one deep (`Nested`).  From
there the proof follows who waits for whom: a thread or a callback for a message
that is posted (`PostedGoes`), that for the worker (`WorkerGoes`) or for a callback
the worker runs (`CallbackGoes`), and the chain ends at somebody `Ready` or at
a synchronous call in a callback run by the worker (`Stalled`), which is the one
deadlock and needs `Reentrant`.  `Ready` spells out the guards of the actions, since
`ENABLED` cannot be used in a proof.

### The zlib transform (`ZlibTransformProofs`)

| Theorem | Statement |
|---|---|
| `TypeCorrect` | `Spec => []TypeOK` |
| `FramesAreFilled` | `MinLength > 0 => (Spec => []FrameIsFilled)` |
| `StoredValuesComeBack` | `MinLength > 0 => (Spec => []StoredComesBack)` |
| `WritesRunOut` | `Spec => StepsRunOut` |

For every chunk size, stream length and watermark.  The invariant of the deflate
loop (`Deflating`) is that the parts are the stream's chunks in order and only
the last may be short; that of the copying loop (`Copying`), that the
frame is right up to the `offset` reached.  `MinLength > 0` excludes the empty
value, for which `StoredComesBack` is false.  `StepsRunOut` is what `WriteEnds` has
besides fairness: `StepsLeft` counts down with every turn of both loops, also
where a stream fills its last chunk exactly, so that a further, empty one follows.

### The binary formatter (`FrameLemmas`, `BinaryFormatterProofs`)

| Theorem | Statement |
|---|---|
| `Invariance` | `Spec => [](~short => IInv)` |
| `TypeCorrect` | `Spec => [](~short => TypeOK)` |
| `RoundTripCorrect` | `Spec => []RoundTrip` |
| `NeverWrongCorrect` | `Spec => []NeverWrong` |
| `FailuresCorrect` | `Spec => [](~short => FailuresExplained)` |
| `SettledCorrect` | `Spec => []Settled` |
| `ReadsOnCorrect` | `Spec => ReadsOn` |

For all classes whose names and properties' names are distinct and fit their
byte, for any objects, which may refer to each other in any way, a circle
included (writing those never ends, which no safety property minds), for
anything `total` may hold and any length of a frame from 9 bytes up to what a
`guint` can say.  All of it is about records whose frames have their 0 (`~short`,
which `RoundTrip`, `NeverWrong`, `Settled` and `ReadsOn` say themselves); what is read
from the others depends on which bytes happen to follow.

`FrameLemmas` is about the operators: the frame of each type holds what it should
(`ScalarContents`), its length fits (`ScalarFrame`), and where its bytes are found in
memory `ReadValue` returns the value, with a real rounded and a tiny one refused
(`ReadScalarFrame`); the same for the chunk of a property (`ReadChunk`) and the
header of an object (`ReadObjectFrame`), whose zeroes end the loop.

What `write_object` writes for an object depends on the objects it refers to, to
any depth, and a proof by induction over them is not available.  `Chunked`
replaces it: it is the union of all sets of triples (object, number of a property, chunks)
in which each triple is *justified* by others of the same set: its chunks are the frame of
that property, in front of the chunks of an earlier one, with nothing to be stored between.
Such sets may be united, so `Chunked` justifies its own triples
(`ChunkedElim`), and a triple that it justifies belongs to it (`ChunkedIntro`).
No induction is needed for either, and the writer adds a triple with each
property (`WriteNext`, `WriteUp`) as the reader takes one apart with each chunk
(`NextChunk`, `ReadNext`, `ReadUp`).

The invariant has, while writing, the chunks of each call under way and that each is
for the property at which the one around it stands (`WriteInv`); while reading,
a function from the objects made to the parts of the value, with how much of
each is still to come, that the rest, and the 0 behind it, is found at the cursor of its
call and before the end of its frame (`Limit`: where the call around it goes on, or
the end of the record), and that everything else is a copy already (`Reading`); at the end, that all is
copied or why not (`DoneInv`).  `StoredOnce`, of the second round, says that reals have two digits
and that what cannot be stored or set is as in a new object, from which
`Settled` follows.  `ReadsOn` is what reading has of `TripEnds` besides fairness: the
cursor of the innermost call only moves on, also when a call ends and the one
around it goes on behind the frame just read (`Within`), and it stays in the record.  The invariant is over infinite sets and stays out of TLC's
reach; its consequences are what the run checks.

### Only model-checked

Liveness (`DirectlyAnswered`, `EveryCallReturns`, `WriteEnds`, `TripEnds`) is out
of the prover's reach.  `TypeOK` and `FailuresExplained` of the binary formatter are
theorems for records whose frames have their 0, and only model-checked for the others.
`DurableAcrossOpen` is checked in a run that violates it; what does hold, that an
open finds what was saved or, with O_TRUNC, nothing, is `DoOpen` of the abstract store.
Every other property of a passing run is a theorem.

## 5. Not modelled

* the two interfaces, which register a type and call through a table;
* the setters of the storage's formatter and transform, which replace a pointer
  and may be used only before the storage is opened (`catalina-storage.c:53`);
* of the binary formatter: `write_short` and its like, which no GValue reaches;
  a `glong` of four bytes; names of 255 characters and more; what happens after
  `write_object` has written past its buffer; a reader with another decimal point,
  which reads another number without an error (`SamePoint`).  Objects that refer to
  each other in a circle, for which `write_object` does not end, are in the
  theorems but not in the instance, where `TripEnds` would not hold for them;
* `iris_message_ref` / `unref`: the model keeps a message as long as it is
  referred to; the extra reference of a commit is dropped on some returns only;
* callbacks that do not call their `*_finish` function, and so leak the task;
* the width of `txn_seq` (`gulong`, incremented and hashed as 32 bits);
* a crash of the process, and the recovery tdb does then when the file is opened;
* what a freed tdb context does after `tdb_close` has failed;
* a synchronous caller whose set goes with a cancelled transaction: it sleeps for
  ever, since `txn_state_free` (2231) drops the message without completing its task.
  `OnlyKnownLosses` lists it; a test relies on it for the asynchronous form
  (`tests/storage-tests.c:457`);
* properties of a GObject that can be written and not read: `write_object` asks
  every property for its value;
* memory that is leaked, wording of errors, keys and lengths.

## 6. Plan

The order was: the storage with its transactions, the abstract store, the task
protocol, the zlib transform and the binary formatter.  The safety
properties of all of them are proved, and so is the refinement.  What is left:

1. `txn_seq` with its width: reuse of ids and the id 0.
2. `StorageTask` composed with `CatalinaStorage`, so that a callback's calls are
   requests whose handlers are modelled.
3. A measure for the calls of `write_object`, as `StepsLeft` is one for the writes of
   the transform and the cursor one for `read_object`: for `TripEnds`, objects that
   form no circle.
