# IceGuard in TLA+

IceGuard (`src/src/iceguard/`) protects chunked lakehouse writes that run in AWS
Lambda. This directory holds its formal model: TLA+ modules translated from the Python
source, TLC configurations that check them on small instances, and proofs checked by
TLAPS. Paths below are relative to `src/src/iceguard/` unless they start with `docs/`.

## 1. The system

| Part | Source | State it keeps | Operations | Interacts with |
|---|---|---|---|---|
| `SafeWriter` | `safe_writer.py` | `_resume_offset`, `_uncommitted_paths`, rollback event, `offset` of `write()` | `__enter__`, `write`, `_handle_rollback`, `__exit__`, `disarm` | starts the watchdog and shares the rollback event with it; loads, saves and deletes the checkpoint; calls `batch_writer` and `track_paths`; calls the adapter on rollback |
| `WatchdogThread` | `watchdog.py` | `_armed`, `_stop`, `_callback_done` | `start`, `_run`, `disarm` | reads the Lambda clock, calls back into `SafeWriter` |
| `CheckpointStore` | `checkpoint_store.py` | the S3 objects | `save`, `load`, `delete`, `save_document`, `load_document` | used by the writer, the coordinator and the leader lock; swallows its failures |
| `DurableCheckpointBridge` | `durable.py` | the mirror in the durable context | `save`, `load`, `clear_durable_checkpoint` | wraps the store |
| `Coordinator` | `coordinator.py` | cached `_state`, persisted document | `prepare`, `commit`, `abort`, `recover` | calls the participants through an executor, persists through the store |
| `S3LeaderLock` | `coordinator_leader.py` | lease object in S3 | `acquire`, `renew`, `release` | several owners through the store |
| `BackgroundMetricsEmitter` | `metrics.py` | queue, stop event | `emit_*`, `_worker`, `close` | `SafeWriter.__exit__` closes it |
| `OrphanScanner` | `orphan_scanner.py`, `s3_ops.py` | none (two listings and a result) | `scan`, `delete_orphans` | beside concurrent writers; asks an adapter for the committed files |
| Adapters, format metadata | `adapters.py`, `format_metadata.py`, `catalog_integrations.py`, `glue_catalog.py` | seeded committed set | `abort_transaction`, `delete_uncommitted_files`, `list_committed_files` | rollback and orphan scan |
| Path tracking | `s3_track.py` | `known` | the `track_paths` closure | every writer under the same prefix |
| Spark chunks | `spark_write.py` | none | `write_dataframe` | calls `SafeWriter.write` |
| Models, schema, config, enums, exceptions | `models.py`, `schema_evolution.py`, `config.py`, `enums.py`, `exceptions.py` | none | conversions and range checks | everything |
| CLI, `protect()`, OpenTelemetry, dead-letter queue | `cli.py`, `__init__.py`, `otel.py`, `dlq.py` | none | glue and output | |

What is hard here: two threads that share an event; processes that are killed between
any two steps and retried by their caller; every remote save, load and delete that may
fail without anybody being told; a two-phase commit whose coordinator can crash, time
out or be duplicated; listings that are stale when they are used. `PROJECT.json` lists
each hazard at its line with the properties that cover it.

What makes each part correct:

* writer: a retry never resumes past a record that is not in the table; a success is
  complete and stays so; no record is applied twice; a rollback leaves nothing behind and
  takes nothing that was there before; a checkpoint that cannot be read is left alone; a
  job whose disturbances stop completes;
* watchdog: a low clock is noticed whatever the writer does; a callback that comes after
  `disarm` does no harm;
* coordinator: participants agree unless a commit is broken off; a decided document leaves
  nobody to be told and is final; every call returns;
* leader lock: two owners lead at once only after a race of their writes, and nobody takes
  a running lease away;
* metrics: in order, none twice, none lost before `close`, and `close` returns;
* orphan scanner: no live file that the adapter can know is deleted, and orphans go.

## 2. Modules

| Module | What it is |
|---|---|
| `Watchdog` | the watchdog thread, its clock and the rollback event; extended by `SafeWriter` |
| `CheckpointBridge` | the S3 checkpoint, its schema version and key, and its durable mirror; extended by `SafeWriter` |
| `SafeWriter` | the writer's thread over many invocations, composed with the two above |
| `ResumableWrite` | the abstract promise of a checkpointed write; `SafeWriter` implements it |
| `SafeWriterProofs` | the theorems about `SafeWriter` |
| `Coordinator` | the two-phase commit, its participants and its clients |
| `AtomicCommit` | the abstract atomic commitment; `Coordinator` implements it until a commit is broken off |
| `CoordinatorProofs` | the theorems about `Coordinator` |
| `LeaderLock` | the lease object in S3 and the processes that acquire, renew and release it |
| `LeaderLockProofs` | the theorems about `LeaderLock` |
| `LedCoordinator` | the coordinators of one transaction under the leader lock: the two composed |
| `LedCoordinatorProofs` | the theorems about `LedCoordinator` |
| `MetricsQueue` | the queue of the background emitter, its worker and `close()` |
| `MetricsQueueProofs` | the theorems about `MetricsQueue` |
| `OrphanScanner` | the orphan scanner beside the writers of one table and its metadata |
| `OrphanScannerProofs` | the theorems about `OrphanScanner` |
| `MCSafeWriter`, `MCCoordinator`, `MCLedCoordinator`, `MCOrphanScanner` | fault sets and small sets for the TLC runs |

### SafeWriter, Watchdog, CheckpointBridge

`pc` is the place of the writer's thread; each action is the code from one point at which
another thread, a crash or a remote failure can intervene to the next. `Invoke` is a new
`SafeWriter` object. `LoadCheckpoint`, `StartWatchdog` and `EnterDone` are `__enter__`.
`LoadRaises` is a checkpoint that cannot be read. A Lambda context that `_validate_context`
refuses makes `__enter__` raise before anything is read or changed, and is left out.
A rollback that `__enter__` itself runs never passes `__exit__`, so nobody disarms the
watchdog; its thread has ended with the callback.
`BeginWrite`, `LoopTest`, `BatchWriter`, `TrackPaths`, `PersistCheckpoint`,
`MirrorCheckpoint`, `ChunkDone`, `DisarmWatchdog`, `DeleteCheckpoint`,
`ClearDurableCheckpoint` and `Succeed` are `write()` in the order of its lines.
`RollbackSave`, `RollbackMirror`, `RollbackDelete` (one path at a time) and
`RollbackRaise` are `_handle_rollback`. `wpc` is the place of the watchdog thread:
`TestLoop`, `ReadClock` (or `ReadClockFails`) and `InvokeCallbackOnce`.

The data is abstracted to what the properties tell apart. A checkpoint is its offset: of the
fields stored only `record_offset` is acted upon, and the manifest `SafeWriter` writes is
always empty, so a rollback deletes the tracked paths only. `schema` says what the stored
object is to this version of the program: `migrate_checkpoint_dict` upgrades an older one
and refuses a newer one, and a malformed one is refused too. `keyed` says whether there is a
key; without one `_resolve_idempotency_key` invents a new one for every call, so nothing
that is saved is ever found. A file is the invocation that wrote it and its record range.
`known` is what the path tracker of `s3_track.py` has seen: its answer is every file that
was not there before, whoever wrote it; another writer's file has no records of this job and
carries the invocation during which it came. The remaining time is low or not. A store that
was not configured behaves like one whose saves all fail, which the fault `put` includes.
`abort_transaction(None)` changes no state of the model, and the metrics and the dead-letter
message are left out. `batch_writer` appends one file that a reader sees at once; it may
raise before or after. A deleted file is simply gone here; that the table's metadata may
still name it is the subject of `OrphanScanner` and `orphan_dangling`.

`Faults` names what the environment may do, as listed in `FaultKinds`. `ForeignAppend` is
another writer under the same prefix, `ForeignCheckpoint` a checkpoint replaced by another
deployment between two invocations, `UserDisarm` an explicit `disarm()`. The last of the
`MaxInvocations` invocations is undisturbed (neither fault nor low clock), which is what
the liveness property is about; the earlier ones see everything in `Faults`. Another
writer's rollback, which may take files of ours, is not modelled: in the model it is a
second writer only by what it appends.

### Coordinator

One process per element of `Coordinators` holds a `Coordinator` of one transaction.
`CallPrepare`, `CallCommit`, `CallAbort` and `CallRecover` are the client's calls, in any
order (bounded by `MaxCalls`), except that `prepare` is called once unless `Reuse`.
`VoteYes`, `VoteNo`, `VoteRaises` and `VotesIn` are phase 1; `CommitOne`,
`CommitOneFails` and `CommitsIn` phase 2; `BeginAbort`, `NotifyAbort` and `AbortDone`
serve both `_finalize_abort` and `abort`. The document and the cached state are reduced to
the status: votes and phase flags are written and never read. A participant is the state
of its data and is external: it is prepared, committed or aborted by the calls it gets,
and a committed one stays committed; one without a commit method counts as committed when
its turn comes. A prepare call that raises or is late may have done anything; a commit call
may raise before its effect (`commitRaises`) or after it (`commitBreaks`). The executor's
`with` block waits for the worker, so a call that times out has ended by the time the
exception is raised, and one that never ends is `Hang`.

`broken` is a history variable: a commit that had begun was broken off (by a call of it
that failed, a crash, a participant that never answers), or a status it saved was lost.
Nothing in the code resumes such a commit, and `coord_half_commit` shows what becomes of it.
The properties about atomicity say what holds until then.

### LeaderLock and LedCoordinator

The lock is one object with an owner and a lease. Each read, write and deletion of it is a
step: `AcquireRefused`, `AcquireRead`, `Renew`, `Write`, `WriteRaises`, `Verify` and
`VerifyRefused` are `acquire()` (and `renew()`, which calls it), `ReleaseRead` and `Delete`
are `release()`. All of them may come at any time, from anyone, at any speed. Time is
counted down (`left`, `until`): what matters of a lease is when it ends. The processes share
one clock; a reader whose clock is ahead is the fault `lockBlind`. `told` and `until` are
what the caller of `acquire()` may believe: it returned True, and so much of the lease is
left.

The code puts the object without any condition and then reads it back, which excludes
another owner only if nobody is still between its own read and its put. Nobody waits for
that: `lock_race` is two processes that find no lease and become leaders one after the
other. No bound on the delay of a put would help, as the second put may follow the first
owner's reading back at once; a put that is conditional on what was read would. The history
variable `raced` remembers that a process has come to believe in its lease while another
was between reading the object and writing or deleting it, and `OneLeaderUnlessRaced` says
that this is the only way to two leaders. `Sighted` states that the first read does not
fail, because `load_document` answers None to a failure and a running lease then looks
absent; with the fault `lockBlind` TLC takes a lease away from its leader in four steps.

Nothing in the repository composes the lock with the coordinator. `LedCoordinator` models
the use they make possible: a process calls the coordinator only while it leads
(`LedCall`), recovers the document first when it has not led without a break (`fresh`), and
releases the lock only between calls. Time passes at any moment (`LedTick`), so a call may
outlive the lease under which it began: a call of one participant may take 60 s, a lease is
30 s, and the coordinator never looks at it. `strayed` remembers that a process was in a
call while it was no leader any more, or while another one was one too. Neither the lock
nor the coordinator prevents that; the properties of the composition say what holds until
it happens, which is what a caller gets who sees to it that it does not.

### MetricsQueue

`Emit` is every `emit_*`; a publication is the number of its metric. `Close`, `PutPoison`
and `Join` are `close()`; `TestStop`, `Get`, `GetTimesOut`, `Publish`, `PublishRaises` and
`PublishHangs` are `_worker`. `close()` sets `_stop` before it puts the poison, so the
worker publishes at most the one metric it is waiting for or working on and then ends:
what is queued behind it is dropped. `Delivered` therefore says nothing of the time after
`close()`, although the docstring of `metrics.py:215` speaks of draining.

### OrphanScanner

`AppendFile`, `Commit`, `Rollback`, `GrowOld`, `Archive` and `Fold` are the writers of the
table, their engine and the clock; `List` is `list_parquet_candidates`, `Classify` the rest of
`scan()` with the adapter's `list_committed_files`, `DeleteOrphan` and `DeleteFails` are one
file of `delete_orphans`, and `Stop` is a scan that only reports or whose process dies. The
metadata is a sequence of entries; `Live` is what it really says, defined without reference
to what an adapter computes. `format` chooses the adapter: `DeltaListings` replays the log
over the entries that could be read (`Active`); `HudiListings` collects what the timeline
wrote, and looks into the archive only when the timeline names no file (`Timeline`);
`CatalogListings` is the current snapshot; `BareListings` is the Iceberg or Glue adapter
without a catalog, as the command line builds it. Entries never change, so listing their
keys and reading them is one step. `Absolute` are the files that the log names by an absolute
path or one within the bucket. The others it names relative to the table, as Delta's own
writers do; the code resolves such a path against the bucket, and it then names nothing.
Batches and counts are left out: they change neither what is deleted nor in which order. A
file is added by one commit at most (no restore of a removed file).

Delta folds old entries into checkpoints (`Fold`), which are Parquet files under the
table's prefix themselves, and Hudi moves its old entries to an archive (`Archive`).
`delta_committed_paths_s3` reads no checkpoint, and the Hudi archive is not read as long as
the timeline names a file, so live files of such entries are not in the answer; nor are the
checkpoints, which the scanner lists like any other Parquet file and which a tracker claims
like any other new one.

`LiveKept` is therefore about `Kept`: the live files that the adapter can know (by a catalog
or an absolute path) and whose entry is still in its place. For the others, and for the
checkpoints, the scanner gives no protection: `OnlyUncommitted` is what its docstring says of
them, and it fails for files named relative to the table (`orphan_relative`), and as well,
in configurations that differ from that run in one constant, for a checkpoint or a file of a
folded entry (`Absolute = Files`), an archived one (`"hudi"`) and every file of a table whose
adapter has no catalog (`"bare"`, which is what `iceguard orphans` uses for Iceberg,
`cli.py:30`). For a table with a catalog it is a theorem.

## 3. Runs

Deadlock checking is off in all of them: a job that succeeded, or clients that made all
their calls, really stop.

| Run | Checks | Shows |
|---|---|---|
| `writer_crash` | `TypeOK`, `CheckpointBacked`, `SuccessLasts`, `KeepsPromise`, `JobCompletes`, `InterruptedChunkRollsBack`, `LowTimeNoticed` | with every fault but a lost save and other writers, kills, replaced checkpoints, missing keys and redelivery included: no retry can lose a record, a success lasts, the writer implements `ResumableWrite`, an undisturbed invocation completes the job, and the watchdog does not depend on the writer's progress |
| `writer_tidy` | `AppliedOnce`, `RollbackClosure`, `RollbackTakesOnlyNew`, `UnreadableIsKept`, `JobCompletes` | rollbacks alone, even with lost saves and beside another writer, never duplicate, leave nothing, take nothing that was there before, respect an unreadable checkpoint and never block the job |
| `orphan_scan` | `LiveKept`, `OrphansGo` | beside files named relative to the table, checkpoints and archived entries, no interleaving of scan, writers and engine deletes a live file that the adapter knows and whose entry is in its place; every old data file that the table's present state does not name goes |
| `coord_one` | `TypeOK`, `AtomicUnlessBroken`, `PreparedIsUnanimous`, `ImplementsAtomicCommit`, `CommitsOnlyPrepared`, `CallsReturn` | one coordinator with late, raising, refusing and hanging participants, crashes, recoveries, unanswered loads and a second `prepare()`: only a commit broken off splits the participants, none commits unprepared, and every call ends if the participants' calls end |
| `coord_led` | `OneLeaderUnlessRaced`, `LeaderIsStable`, `LedDecisionReachesAll`, `LedAbortedMeansNone`, `LedTerminalIsFinal` | two coordinators of one transaction under the lock: a race is the only way to two leaders, a named and undisturbed leader keeps its lease, and until one strays a decided document is complete, right and final, also with lost documents and garbled votes |
| `metrics_queue` | `TypeOK`, `InOrder`, `Delivered`, `CloseReturns`, `WorkerEnds` | a delegate that raises or hangs neither reorders nor repeats metrics nor keeps the writer |

Runs that end in a counterexample, each a place where code and documentation disagree:

| Run | Violates | Because |
|---|---|---|
| `writer_monotonic` | `MonotonicOffset` | the rollback checkpoint is the offset at entry |
| `writer_lost_save` | `SuccessLasts` | files are deleted although the lowered checkpoint was not saved |
| `orphan_relative` | `OnlyUncommitted` | a path relative to the table is read as relative to the bucket, so a committed file looks like an orphan |
| `orphan_dangling` | `LiveKept` | a rollback deletes files of chunks that are already committed |
| `coord_half_commit` | `Atomic` | the second commit call fails after the first participant has committed, and the second is aborted |
| `lock_race` | `OneLeader` | the put of `acquire()` is not conditional on what was read |

**What the fault sets exclude, and why.** A property that holds under a restricted fault
set says so through its configuration; what lies outside is the code's behaviour too:

* `AppliedOnce` without `kill`, `batch`, `track`, `cleanup` and `again`: the append and the
  checkpoint that counts it are two steps, so an invocation killed or failing between
  them leaves a chunk that its retry writes again; and a job that is delivered again after
  its success, whose checkpoint is deleted, is written again.
* `AppliedOnce` and `RollbackClosure` with `Track`: without a `track_paths` callback a
  rollback moves the checkpoint back and leaves the chunks, which the retry appends again.
* The properties of `writer_crash` without `put` and `mirror`: see `writer_lost_save`.
* `UnreadableIsKept` without `get`: a load that fails looks like no checkpoint, and the job
  starts over and overwrites what it could not read.
* `RollbackTakesOnlyNew` bounds what a rollback takes and no more: a file another writer
  adds during the invocation is taken for the writer's own and deleted with it.
* `LiveKept` for a `Careful` use: the committed files can be listed, a log that is read is
  read whole, a file is committed before the retention has passed, and no committed chunk is
  rolled back. The code checks none of these.
* `CallsReturn` except for a call that is `hung`: the `with` block of the executor waits for
  the thread of a participant that never answers, after the timeout was raised.
* `AtomicUnlessBroken`, `ImplementsAtomicCommit`, `PreparedIsUnanimous` and
  `CommitsOnlyPrepared` without `put` and `garble`: a PREPARED that was not saved lets a later
  object act on an older status, and any reply other than YES or NO counts as YES.
* The same with one coordinator object at a time: `commit()` and `abort()` act on a cached
  status, and two objects of one transaction can commit and abort it. Nothing in
  `coordinator.py` excludes this. Several objects under the lock are the subject of `coord_led`
  and of the theorems of `LedCoordinatorProofs`, until one strays.
* `LedAbortedMeansNone` and `LedTerminalIsFinal` without `get`: a load that fails is no
  document, and `abort()` overwrites COMMITTED. `LedTerminalIsFinal` allows a decided document
  to go to PREPARING, because `prepare()` sets it whatever it loaded.
* `coord_led` without `Reuse`: `prepare()` on a transaction that has committed is not refused,
  and an abort of it then writes ABORTED beside committed participants.
* `coord_led` without `abortRaises`: a participant that did not take the abort is passed over
  and stays prepared; and without `lockBlind` (`Sighted`).
* After an exception of a prepare call other than a timeout (`voteRaises`) the participants
  that voted YES stay prepared until the client calls `abort()`.
* The watchdog thread may call back after `disarm()` has returned (`InvokeCallbackOnce`
  does not test `armed` again); the writer's properties hold all the same.

**Bounds.** `Total = 5` with `Interval = 2` gives three chunks, the last one short: a
first, a middle and a last chunk, which is every position a rollback or a kill can have
relative to another. Three or four invocations give a disturbed one, a retry that is
disturbed while it holds the leavings of the first, and a clean one. Three files and two
entries let one file be live, one removed or replaced and one on its way at once, the first
entry be archived or folded while the second is in its place, and one file be named relative
to the table or be a checkpoint beside the others. Three participants give one
before, one at and one after a failure; six client calls are enough for prepare, commit,
crash, recover, abort and one more. Two processes with leases of two ticks meet in every
pair of steps of the lock, and a lease can run out during `acquire()` or be held over a
call. Four metrics and two calls of `close()` give one taken, one waiting, one emitted
after the stop and a second poison. Symmetry is used in `coord_led` alone, over the two
processes, whose names no definition tells apart; that run checks safety and action
properties only. It stops at states in which a process has strayed (the constraint
`NoneStrayed`): the three properties of the composition end there, and whatever the lock can
do with a process in a call it can do without one, as no step of the lock looks at a call.

**Fairness.** `SafeWriter!FairSpec` assumes that the interpreter runs both threads (weak
fairness of the writer's steps and of the watchdog's steps), that the caller retries a
failed job (weak fairness of `Invoke`; a queue or a step function does this), and that a
clock that is read again and again answers in the end (strong fairness of `ReadClock`). It
assumes nothing of `batch_writer`, the user's code, which may block for ever:
`JobCompletes` says so, and `LowTimeNoticed` is about just that case. The faults are never
fair. `Coordinator!FairSpec` lets a process that is in a call go on, except when a
participant never answers. `MetricsQueue!FairSpec` lets both threads run, and a
publication that does not hang end. `OrphanScanner!FairSpec` assumes that cleanup is
scheduled again and again, that not every scan is stopped before it classifies, and that a
deletion tried again and again succeeds in the end.

Every property of a passing run has a mutant, a definition marked `mutant` next to the one
it changes, under which TLC finds that property violated.

## 4. Proofs

The theorems hold for every value of the constants under their named assumptions
(`WriterAssumption`, `BridgeAssumption`, ...) and the condition in brackets, which is a
restriction of the faults or of the use. Where a condition is needed, a run or section 3
says what happens without it.

`SafeWriterProofs`, for every total, interval, number of invocations, key and schema:

* `TypeCorrect`: the type invariant;
* `CheckpointIsBacked`, `SuccessIsLasting`, and `WriterKeepsPromise`, the refinement of
  `ResumableWrite` [`NoLostSaves`: neither `put` nor `mirror`];
* `RollbackSparesOthers`: `RollbackTakesOnlyNew` [nothing];
* `UnreadableStopsTheJob`: `UnreadableIsKept` [no `get`];
* `RollbackCloses`: `RollbackClosure` [`NothingStays`: tracked paths, no `cleanup`];
* `NoRecordTwice`: `AppliedOnce` [`Orderly`: besides, no `kill`, `batch`, `track`, `again`];
* `PromiseIsSafe`: what `ResumableWrite` promises, whoever implements it: no record below
  the offset of a retry is missing, and none at all after a success [nothing].

`CheckpointBacked` is not inductive: from a state in which the writer is about to delete
files the checkpoint still counts it is lost in one step. `BackedInv` adds what the code
relies on. `Ownership`: the paths a rollback deletes were added during the current
invocation (its tracker knows every older file), and a writer that loads has written
nothing yet. `Progress`: what the writer resumed past is in files of earlier invocations
(`Older`), and at each place of `write()` the records below `offset` are in the table.
`Lowered`: both copies of the checkpoint are at or below the resume offset before the
first deletion. `SuccessIsOlder`: what a success left is older than any later invocation.
There is one lemma per part (`OwnershipStep`, `ProgressStep`, `LoweredStep`, `BackedStep`,
`SuccessStep`), each split by action; `OlderGrows` is the fact that no step takes a file
of an earlier invocation away. The refinement then needs one case per effect: a step that
changes a checkpoint is `Claim`, an append is `Append`, a deletion is `Retract` (or
nothing, after a success), `Succeed` is `Finish`.

`CoordinatorProofs`, for any number of participants and calls, and one coordinator at a
time (`Sole`; `TypeCorrect`, the type invariant, for any number):

* `PreparedMeansAll`: `PreparedIsUnanimous`, `OnlyPreparedCommit`: `CommitsOnlyPrepared`,
  `CommitIsAtomic`: `AtomicUnlessBroken`, and `CoordinatorImplementsAtomicCommit`:
  `ImplementsAtomicCommit`, the refinement of `AtomicCommit` [`Faithful`: saves land and votes
  are answered with YES or NO; a transaction may be prepared again, anything may crash, hang,
  raise or be late];
* `DecisionIsComplete`: `DecisionReachesAll`, COMMITTED is written when all have committed and
  ABORTED when none is left prepared [participants take the abort, and saves land or a
  transaction is prepared once, `BegunOnce`];
* `AbortedIsRight`: `AbortedMeansNone`, ABORTED stands beside a committed participant only if a
  commit was broken off [loads do not fail, and a transaction is prepared once];
* `DecidedIsFinal`: `TerminalIsFinal` [loads do not fail, and `BegunOnce`];
* `AtomicCommitIsAtomic`: the abstract specification itself keeps `AtomicUnlessBroken`
  [nothing].

None of these properties is inductive. `Steady` says for each place of a call what the
document says and what has been done to the participants before and after the one it is at,
as far as the process that acts knows the document (`InMind`). `Told` does the same for the
end of a call, without relying on the document being saved. `Undecided` and `Informed`: a
call under way is about an undecided transaction, and who remembers anything of a decided one
remembers the decision. `Recorded`: a commit that is not broken off is seen in the document
from its first save to its last, and participants are committed only in its course. `Whole` is atomicity in the middle of a commit: none is committed, or all
are, or each is prepared or committed and a commit is going on, or one was broken off. Each is
kept by a step of a process while the others are outside their calls (`Alone`), and the
lemmas (`SteadyStep`, `ToldStep`, `UndecidedStep`, `RecordedStep`, `WholeStep`, `AbstractStep`,
...) are stated that way: with one process this is so at all times, and with several it is
what the lock has to give.

`LeaderLockProofs`, for any number of processes, any lease and any speed [`Sighted`]:

* `LeadershipIsStable`: `LeaderIsStable`;
* `OneLeaderButForRaces`: `OneLeaderUnlessRaced`.

`OneLeaderUnlessRaced` rests on `LockInv`: as long as nobody has raced, a leader is named by
the object for at least as long as it believes (`NamedLongEnough`), and while there is one
nobody is about to write or delete (`LeaderIsSettled`).

`LedCoordinatorProofs`, for any number of processes that take over from each other, at any
speed and with any failure of the lock, `lockBlind` included:

* `LedImplementsLock`: the composition uses the lock as `LeaderLock` allows, so both
  theorems about the lock hold of it;
* `LedDecisionIsComplete`: `LedDecisionReachesAll`, `LedDecidedIsFinal`: `LedTerminalIsFinal`,
  and `LedAbortedIsRight`: `LedAbortedMeansNone` [the conditions of `DecisionIsComplete`,
  `DecidedIsFinal` and `AbortedIsRight`, but `Sole`];
* `LedPreparedMeansAll`, `LedOnlyPreparedCommit`, `LedCommitIsAtomic` and
  `LedImplementsAtomicCommit`: what `Faithful` gives one process, until one strays
  [`Faithful`, and loads do not fail].

What they assume of the lock is in the statements and no more: `~strayed`. While nobody has
strayed whoever acts is alone (`ActsAlone`). `Guarded` adds that who is in a call has
recovered the document, or began the transaction, since it became the leader, and
`KnowledgeStep` is what taking turns is for: what a process knows (`Knows`) stays true, as
nobody else moves the document as long as it leads. With it the step lemmas of
`CoordinatorProofs` apply to whichever process acts. Loads must not fail where `get` is
excluded, because a process that takes over and whose `recover()` finds no document acts upon
what it remembers from an earlier time.

`MetricsQueueProofs` proves `TypeCorrect` and `OrderIsKept` (`InOrder`): what was tried,
what the worker holds and what is queued are together the metrics emitted, in order.

`OrphanScannerProofs`, for every set of files, log, format and interleaving:

* `LiveIsKept`: `LiveKept` [`Careful`, as in section 3]; whatever else is in storage, files
  named relative to the table and checkpoints included, but not about these;
* `CatalogScanIsRight`: `OnlyUncommitted` for a table with a catalog [`Careful`].

`LiveKept` says nothing of what the scanner holds, so it is not inductive; `ScannerInv` adds
that the candidates and orphans are past the retention and that no orphan is kept. Being old
it cannot become live (`CommitAdds` with `Punctual`), and every answer of the adapter contains
the kept files (`ReplayFindsKept`, `ListingsHoldKept`). With a catalog nothing is archived, so
that what is kept is all that is live.

Model-checked only: liveness (`JobCompletes`, `InterruptedChunkRollsBack`,
`LowTimeNoticed`, `CallsReturn`, `OrphansGo`, `Delivered`, `CloseReturns`, `WorkerEnds`),
which is out of the prover's reach as fairness speaks of ENABLED. Every invariant and
action property of a passing run is a theorem. `DecisionReachesAll`, `AbortedMeansNone` and
`TerminalIsFinal` are checked in `coord_led` in the form that allows for several processes;
what taking turns makes of the four properties under `Faithful` is proved, and the runs check
these with one process only.

## 5. Not modelled

* A second `write()` on the same writer: its records belong to another job, while offset,
  paths and watchdog are those of the first.
* A rollback of another writer that deletes our files, and clients of the adapters with a
  `delete_files` or `list_committed_files` of their own.
* A coordinator document that cannot be parsed: `from_json` raises it out of the call, which
  then does nothing.
* Configuration: range checks made once, before anything runs; what they establish are the
  assumptions on the constants.
* The slicing of rows in `spark_write.py`, which is Spark's; `health_check`, which nothing
  calls; the dead-letter message; CloudWatch and OpenTelemetry output; payload and message
  formats; argument parsing; and the internals of Spark, S3 and the table formats, which
  appear only through what the code sees of them.

What is worth doing next: the lock with a put that is conditional on what was read, for
which `OneLeader` should hold without `raced`, and a coordinator that looks at its lease
before every step, for which `strayed` should come down to the delay of one call.
