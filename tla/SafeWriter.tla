----------------------------- MODULE SafeWriter -----------------------------
(***************************************************************************)
(* One chunked write under SafeWriter (src/iceguard/safe_writer.py), over  *)
(* as many invocations as its caller needs: each invocation enters the     *)
(* context manager, resumes from the checkpoint, writes chunk after chunk  *)
(* with a checkpoint after each, and rolls back when the watchdog has set  *)
(* the rollback event.  The thread of the writer and the watchdog thread   *)
(* interleave; an invocation may be killed between any two steps.          *)
(*                                                                         *)
(* The table is the set of data files in storage.  batch_writer appends    *)
(* one file per chunk; a file remembers the invocation that wrote it and   *)
(* the records [from, to) it holds.                                        *)
(***************************************************************************)
EXTENDS Watchdog, CheckpointBridge

CONSTANTS
    Total,           \* total_records of the write
    Interval,        \* checkpoint_interval
    MaxInvocations,  \* bound: invocations; the last one is undisturbed
    Track,           \* write() is given a track_paths callback
    Faults           \* what may go wrong, see FaultKinds

FaultKinds ==
    {"kill",      \* the process dies between two steps
     "put",       \* put_object of a checkpoint fails
     "get",       \* get_object of a checkpoint fails
     "del",       \* delete_object of the checkpoint fails
     "mirror",    \* the checkpoint call of the durable context fails
     "durable",   \* its restore or its clear fails
     "batch",     \* batch_writer raises, before or after its append landed
     "track",     \* track_paths raises
     "cleanup",   \* the deletion of a file fails during rollback
     "clock",     \* the watchdog cannot read the remaining time
     "schema",    \* the checkpoint is replaced between two invocations
     "foreign",   \* another writer appends to the same table
     "disarm",    \* the user's code disarms the watchdog
     "again"}     \* the event is delivered again after a success

ASSUME WriterAssumption ==
    /\ Total \in Nat
    /\ Interval \in Nat \ {0}
    /\ MaxInvocations \in Nat \ {0}
    /\ Track \in BOOLEAN
    /\ Faults \subseteq FaultKinds

VARIABLES
    table,         \* data files in storage
    inv,           \* number of the current or last invocation
    pc,            \* where the writer's thread is
    resumeOffset,  \* _resume_offset
    offset,        \* offset of write()
    known,         \* the files the path tracker has seen
    uncommitted,   \* _uncommitted_paths
    pending,       \* paths the rollback has still to delete
    outcome,       \* how the last invocation ended
    succeeded      \* some invocation has ended with a success

writerVars == <<table, inv, pc, resumeOffset, offset, known, uncommitted,
                pending, outcome, succeeded>>
vars == <<watchdogVars, bridgeVars, writerVars>>

Labels == {"idle", "load", "start", "entered", "body", "loop", "batch",
           "track", "persist", "mirror", "check", "rbSave", "rbMirror",
           "rbDelete", "disarm", "delete", "clear", "success"}

Files == [inv : 1..MaxInvocations, from : 0..Total, to : 0..Total]

TypeOK ==
    /\ WatchdogTypeOK
    /\ store \in 0..Total \cup {NoCheckpoint}
    /\ durable \in 0..Total \cup {NoCheckpoint}
    /\ schema \in Schemas
    /\ keyed \in BOOLEAN
    /\ table \subseteq Files
    /\ inv \in 0..MaxInvocations
    /\ pc # "idle" => inv # 0
    /\ pc \in Labels
    /\ resumeOffset \in 0..Total
    /\ offset \in 0..Total
    /\ known \subseteq Files
    /\ uncommitted \subseteq Files
    /\ pending \subseteq Files
    /\ outcome \in {"none", "running", "success", "rolledBack", "failed",
                    "killed"}
    /\ succeeded \in BOOLEAN

Init ==
    /\ WatchdogInit
    /\ BridgeInit
    /\ table = {}
    /\ inv = 0
    /\ pc = "idle"
    /\ resumeOffset = 0
    /\ offset = 0
    /\ known = {}
    /\ uncommitted = {}
    /\ pending = {}
    /\ outcome = "none"
    /\ succeeded = FALSE

(* Only the first MaxInvocations - 1 invocations are disturbed.            *)
Disturbed == inv < MaxInvocations
May(fault) == fault \in Faults /\ Disturbed
Outcomes(fault) == {TRUE} \cup (IF May(fault) THEN {FALSE} ELSE {})

Goto(label) == pc' = label

-----------------------------------------------------------------------------
(* __enter__                                                               *)

(* The caller (re)invokes the function: a new SafeWriter object, whose     *)
(* __enter__ accepts the Lambda context.  One it refuses, or cannot name   *)
(* the key of, raises before anything is read or changed.                  *)
Invoke ==
    /\ pc = "idle"
    /\ inv < MaxInvocations
    /\ outcome = "success" => "again" \in Faults
    /\ NewWatchdog
    /\ inv' = inv + 1
    /\ Goto("load")
    /\ resumeOffset' = 0
    /\ offset' = 0
    /\ known' = {}
    /\ uncommitted' = {}
    /\ pending' = {}
    /\ outcome' = "running"
    /\ UNCHANGED <<bridgeVars, table, succeeded>>

LoadCheckpoint ==
    /\ pc = "load"
    /\ \E storeOk \in Outcomes("get"), durableOk \in Outcomes("durable") :
         LET loaded == Loaded(storeOk, durableOk)
         IN  /\ ~Refused(storeOk)
             /\ resumeOffset' = IF loaded = NoCheckpoint THEN 0 ELSE loaded
    /\ Goto("start")
    /\ UNCHANGED <<watchdogVars, bridgeVars, table, inv, offset, known,
                   uncommitted, pending, outcome, succeeded>>

(* CheckpointCorruptionError leaves __enter__: the with block is never     *)
(* entered and there is no watchdog yet to disarm.                         *)
LoadRaises ==
    /\ pc = "load"
    /\ Refused(TRUE)
    /\ Goto("idle")
    /\ outcome' = "failed"
    /\ UNCHANGED <<watchdogVars, bridgeVars, table, inv, resumeOffset, offset,
                   known, uncommitted, pending, succeeded>>

StartWatchdog ==
    /\ pc = "start"
    /\ StartThread
    /\ Goto("entered")
    /\ UNCHANGED <<bridgeVars, table, inv, resumeOffset, offset, known,
                   uncommitted, pending, outcome, succeeded>>

(* After its short sleep __enter__ looks at the rollback event once.       *)
EnterDone ==
    /\ pc = "entered"
    /\ Goto(IF rollback THEN "rbSave" ELSE "body")
    /\ UNCHANGED <<watchdogVars, bridgeVars, table, inv, resumeOffset, offset,
                   known, uncommitted, pending, outcome, succeeded>>

-----------------------------------------------------------------------------
(* write()                                                                 *)

(* write_dataframe makes its path tracker, which lists what is there, and  *)
(* calls write().  It returns before that when there are no records at     *)
(* all: Total = 0 stands for a caller of write() itself.                   *)
BeginWrite ==
    /\ pc = "body"
    /\ offset' = resumeOffset
    /\ known' = table
    /\ Goto("loop")
    /\ UNCHANGED <<watchdogVars, bridgeVars, table, inv, resumeOffset,
                   uncommitted, pending, outcome, succeeded>>

(* SafeWriter.disarm(), called from the with block or from batch_writer.   *)
UserDisarm ==
    /\ pc \in {"body", "batch"}
    /\ armed
    /\ May("disarm")
    /\ Disarm
    /\ UNCHANGED <<bridgeVars, writerVars>>

(* The loop condition and the rollback test before a chunk.                *)
LoopTest ==
    /\ pc = "loop"
    /\ Goto(IF offset >= Total THEN "disarm"
            ELSE IF rollback THEN "rbSave" ELSE "batch")
    /\ UNCHANGED <<watchdogVars, bridgeVars, table, inv, resumeOffset, offset,
                   known, uncommitted, pending, outcome, succeeded>>

(* mutant: min() forgotten *)
ChunkEndUnclipped == offset + Interval

(* mutant: the offset is not advanced *)
ChunkEndStuck == offset

ChunkEnd == IF offset + Interval < Total THEN offset + Interval ELSE Total
ChunkFile == [inv |-> inv, from |-> offset, to |-> ChunkEnd]

BatchWriter ==
    /\ pc = "batch"
    /\ table' = table \cup {ChunkFile}
    /\ Goto("track")
    /\ UNCHANGED <<watchdogVars, bridgeVars, inv, resumeOffset, offset, known,
                   uncommitted, pending, outcome, succeeded>>

(* An exception leaves the with block: __exit__ disarms, nothing is rolled *)
(* back and the exception goes to the caller.                              *)
ExitFailed ==
    /\ Disarm
    /\ Goto("idle")
    /\ outcome' = "failed"

BatchWriterRaises ==
    /\ pc = "batch"
    /\ May("batch")
    /\ \E landed \in BOOLEAN :
         table' = IF landed THEN table \cup {ChunkFile} ELSE table
    /\ ExitFailed
    /\ UNCHANGED <<bridgeVars, inv, resumeOffset, offset, known, uncommitted,
                   pending, succeeded>>

(* mutant: the tracker forgets what was there before *)
AnyFiles == table

(* s3_track_paths_factory: what was not there at the last listing, whoever *)
(* put it there.                                                           *)
NewFiles == table \ known

(* mutant: only the paths of the last chunk are kept *)
LastTracked == IF Track THEN NewFiles ELSE {}

(* _uncommitted_paths after a chunk.                                       *)
Tracked == IF Track THEN uncommitted \cup NewFiles ELSE {}

TrackPaths ==
    /\ pc = "track"
    /\ uncommitted' = Tracked
    /\ known' = known \cup table
    /\ offset' = ChunkEnd
    /\ Goto("persist")
    /\ UNCHANGED <<watchdogVars, bridgeVars, table, inv, resumeOffset, pending,
                   outcome, succeeded>>

(* A listing of the tracker fails: the first, or the one after a chunk.    *)
TrackPathsRaises ==
    /\ pc \in {"body", "track"}
    /\ Track
    /\ May("track")
    /\ ExitFailed
    /\ UNCHANGED <<bridgeVars, table, inv, resumeOffset, offset, known,
                   uncommitted, pending, succeeded>>

PersistCheckpoint ==
    /\ pc = "persist"
    /\ \E ok \in Outcomes("put") : SaveStore(offset, ok)
    /\ Goto(IF UseDurable THEN "mirror" ELSE "check")
    /\ UNCHANGED <<watchdogVars, table, inv, resumeOffset, offset, known,
                   uncommitted, pending, outcome, succeeded>>

MirrorCheckpoint ==
    /\ pc = "mirror"
    /\ \E ok \in Outcomes("mirror") : SaveDurable(offset, ok)
    /\ Goto("check")
    /\ UNCHANGED <<watchdogVars, table, inv, resumeOffset, offset, known,
                   uncommitted, pending, outcome, succeeded>>

(* mutant: no rollback test after a chunk *)
ChunkDoneUntested ==
    /\ pc = "check"
    /\ Goto("loop")
    /\ UNCHANGED <<watchdogVars, bridgeVars, table, inv, resumeOffset, offset,
                   known, uncommitted, pending, outcome, succeeded>>

(* The rollback test after a chunk.                                        *)
ChunkDone ==
    /\ pc = "check"
    /\ Goto(IF rollback THEN "rbSave" ELSE "loop")
    /\ UNCHANGED <<watchdogVars, bridgeVars, table, inv, resumeOffset, offset,
                   known, uncommitted, pending, outcome, succeeded>>

DisarmWatchdog ==
    /\ pc = "disarm"
    /\ Disarm
    /\ Goto("delete")
    /\ UNCHANGED <<bridgeVars, table, inv, resumeOffset, offset, known,
                   uncommitted, pending, outcome, succeeded>>

DeleteCheckpoint ==
    /\ pc = "delete"
    /\ \E ok \in Outcomes("del") : DeleteStore(ok)
    /\ Goto(IF UseDurable THEN "clear" ELSE "success")
    /\ UNCHANGED <<watchdogVars, table, inv, resumeOffset, offset, known,
                   uncommitted, pending, outcome, succeeded>>

ClearDurableCheckpoint ==
    /\ pc = "clear"
    /\ \E ok \in Outcomes("durable") : ClearDurable(ok)
    /\ Goto("success")
    /\ UNCHANGED <<watchdogVars, table, inv, resumeOffset, offset, known,
                   uncommitted, pending, outcome, succeeded>>

(* write() and the with block return to a caller that sees the success.    *)
Succeed ==
    /\ pc = "success"
    /\ Disarm
    /\ Goto("idle")
    /\ outcome' = "success"
    /\ succeeded' = TRUE
    /\ UNCHANGED <<bridgeVars, table, inv, resumeOffset, offset, known,
                   uncommitted, pending>>

-----------------------------------------------------------------------------
(* _handle_rollback                                                        *)

(* mutant: the final checkpoint holds the offset reached *)
ReachedOffset == offset

(* The final checkpoint holds the offset this invocation resumed from.     *)
FinalOffset == resumeOffset

(* The paths to delete are those of this invocation: the manifest of the   *)
(* checkpoint, which the code adds to them, is written empty.              *)
RollbackSave ==
    /\ pc = "rbSave"
    /\ \E ok \in Outcomes("put") : SaveStore(FinalOffset, ok)
    /\ pending' = uncommitted
    /\ Goto(IF UseDurable THEN "rbMirror" ELSE "rbDelete")
    /\ UNCHANGED <<watchdogVars, table, inv, resumeOffset, offset, known,
                   uncommitted, outcome, succeeded>>

RollbackMirror ==
    /\ pc = "rbMirror"
    /\ \E ok \in Outcomes("mirror") : SaveDurable(FinalOffset, ok)
    /\ Goto("rbDelete")
    /\ UNCHANGED <<watchdogVars, table, inv, resumeOffset, offset, known,
                   uncommitted, pending, outcome, succeeded>>

(* delete_uncommitted_files, one path; a failure leaves the file.          *)
RollbackDelete ==
    /\ pc = "rbDelete"
    /\ \E f \in pending, ok \in Outcomes("cleanup") :
         /\ table' = IF ok THEN table \ {f} ELSE table
         /\ pending' = pending \ {f}
    /\ UNCHANGED <<watchdogVars, bridgeVars, inv, pc, resumeOffset, offset,
                   known, uncommitted, outcome, succeeded>>

(* IceGuardRollbackError is raised to the caller, through __exit__ unless  *)
(* the rollback was that of __enter__.  There nobody disarms the watchdog, *)
(* whose thread has ended with the callback in any case.                   *)
RollbackRaise ==
    /\ pc = "rbDelete"
    /\ pending = {}
    /\ Disarm
    /\ Goto("idle")
    /\ outcome' = "rolledBack"
    /\ UNCHANGED <<bridgeVars, table, inv, resumeOffset, offset, known,
                   uncommitted, pending, succeeded>>

-----------------------------------------------------------------------------
(* The environment and the watchdog thread                                 *)

(* The process dies (SIGKILL, out of memory, the hard Lambda timeout) and  *)
(* takes the watchdog thread with it.                                      *)
Kill ==
    /\ pc # "idle"
    /\ May("kill")
    /\ wpc' = "exited"
    /\ Goto("idle")
    /\ outcome' = "killed"
    /\ UNCHANGED <<armed, rollback, low, bridgeVars, table, inv, resumeOffset,
                   offset, known, uncommitted, pending, succeeded>>

(* Another writer of the table, whose records are not ours to count.       *)
ForeignAppend ==
    /\ pc # "idle"
    /\ May("foreign")
    /\ table' = table \cup {[inv |-> inv, from |-> 0, to |-> 0]}
    /\ UNCHANGED <<watchdogVars, bridgeVars, inv, pc, resumeOffset, offset,
                   known, uncommitted, pending, outcome, succeeded>>

ForeignCheckpoint ==
    /\ pc = "idle"
    /\ May("schema")
    /\ Replace
    /\ UNCHANGED <<watchdogVars, writerVars>>

Tick ==
    /\ Disturbed
    /\ pc # "idle"
    /\ TimeRunsLow
    /\ UNCHANGED <<bridgeVars, writerVars>>

Watch == WatchdogStep /\ UNCHANGED <<bridgeVars, writerVars>>

WatchBlind ==
    ReadClockFails /\ May("clock") /\ UNCHANGED <<bridgeVars, writerVars>>

WriterStep ==
    \/ LoadCheckpoint \/ LoadRaises \/ StartWatchdog \/ EnterDone
    \/ BeginWrite \/ LoopTest \/ BatchWriter \/ TrackPaths
    \/ PersistCheckpoint \/ MirrorCheckpoint
    \/ ChunkDone \/ DisarmWatchdog \/ DeleteCheckpoint
    \/ ClearDurableCheckpoint \/ Succeed
    \/ RollbackSave \/ RollbackMirror \/ RollbackDelete \/ RollbackRaise

Next ==
    \/ Invoke \/ WriterStep \/ BatchWriterRaises \/ TrackPathsRaises
    \/ UserDisarm \/ ForeignAppend \/ ForeignCheckpoint
    \/ Watch \/ WatchBlind \/ Tick \/ Kill

Spec == Init /\ [][Next]_vars

-----------------------------------------------------------------------------
(* Fairness: the Python interpreter runs both threads, the caller retries  *)
(* until an invocation succeeds, and a clock that is read again and again  *)
(* answers in the end.  batch_writer is the user's code and owes nothing:  *)
(* it may block for ever.                                                  *)
FairSpec ==
    /\ Spec
    /\ WF_vars(pc # "batch" /\ WriterStep)
    /\ WF_vars(Watch)
    /\ SF_vars(ReadClock /\ UNCHANGED <<bridgeVars, writerVars>>)
    /\ WF_vars(Invoke)

-----------------------------------------------------------------------------
(* Properties                                                              *)

Holds(f, r) == f.from <= r /\ r < f.to

(* Every record below o is in some file of S.                              *)
Covers(S, o) == \A r \in 0..Total : r < o => \E f \in S : Holds(f, r)

(* Whatever offset a retry may load, from S3 or from the durable context,  *)
(* every record below it is in the table: the rollback lowers every copy   *)
(* of the checkpoint before it deletes the first file, and a chunk is in   *)
(* the table before the checkpoint that counts it.                         *)
CheckpointBacked == Covers(table, store) /\ Covers(table, durable)

(* Once an invocation has reported success every record stays in the       *)
(* table, also while a redelivered event writes and rolls back again.      *)
SuccessLasts == succeeded => Covers(table, Total)

(* No record is in the table twice: what a rolled-back invocation wrote is *)
(* gone before a retry writes those records again.                         *)
AppliedOnce ==
    \A f, g \in table :
        f # g => \A r \in 0..Total : ~(Holds(f, r) /\ Holds(g, r))

(* An invocation that reported a rollback left none of its files behind,   *)
(* whichever of its chunks the watchdog interrupted.                       *)
RollbackClosure ==
    outcome = "rolledBack" => \A f \in table : f.inv = inv => f.from = f.to

(* A rollback takes no file that was in the table before its invocation,   *)
(* neither one of an earlier chunk nor another writer's, although the      *)
(* tracker knows a file only by not having seen it.                        *)
RollbackTakesOnlyNew == [][\A f \in table \ table' : f.inv = inv]_vars

(* A checkpoint that cannot be read stops the job: until somebody replaces *)
(* it, no retry resumes past it, starts over on top of it or removes it.   *)
UnreadableIsKept ==
    [][~Readable /\ pc # "idle" =>
         UNCHANGED <<bridgeVars, resumeOffset, offset>>]_vars

(* A rollback event set while a chunk is being written, the last chunk     *)
(* included, never ends in a success: the test after the chunk sees it and *)
(* the invocation rolls back, unless it fails or is killed first.          *)
InterruptedChunkRollsBack ==
    (rollback /\ pc = "track") ~> (outcome \in {"rolledBack", "failed", "killed"})

(* Monotonic offset, docs/formal-verification.md: the record_offset in the *)
(* checkpoint never decreases for an idempotency key.                      *)
MonotonicOffset ==
    [][store # NoCheckpoint /\ store' # NoCheckpoint => store' >= store]_vars

(* A job whose disturbances stop is eventually done, unless batch_writer   *)
(* never returns or the checkpoint was replaced by one that stays          *)
(* unreadable: however the earlier invocations ended, the state they left  *)
(* lets a later one finish.                                                *)
JobCompletes ==
    <>(outcome = "success") \/ <>[](pc = "batch") \/ <>[](~Readable)

(* The watchdog notices that the time is low, or was disarmed, even while  *)
(* the writer is stuck in batch_writer and the clock fails now and then.   *)
LowTimeNoticed ==
    (low /\ armed /\ pc = "batch") ~> (rollback \/ ~armed \/ pc = "idle")

(* The checkpointed write implements what it promises its caller: the      *)
(* visible records are those in some file, and the claim is the largest    *)
(* offset a retry may load.                                                *)
Visible == {r \in 0..Total : \E f \in table : Holds(f, r)}
Claimed == IF store > durable THEN store
           ELSE IF durable # NoCheckpoint THEN durable ELSE 0

Promise == INSTANCE ResumableWrite
             WITH visible <- Visible, claim <- Claimed, done <- succeeded

KeepsPromise == Promise!Spec

=============================================================================
