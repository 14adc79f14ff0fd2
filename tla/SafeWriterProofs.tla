-------------------------- MODULE SafeWriterProofs --------------------------
(***************************************************************************)
(* Proofs about SafeWriter, for every total, interval, number of           *)
(* invocations and choice of faults.                                       *)
(***************************************************************************)
EXTENDS SafeWriter, TLAPS

USE DEF NoCheckpoint

(* Every variable keeps its type in every step.                            *)
LEMMA TypeStep == TypeOK /\ [Next]_vars => TypeOK'
<1> SUFFICES ASSUME TypeOK, [Next]_vars PROVE TypeOK'
  OBVIOUS
<1> USE BridgeAssumption, WriterAssumption
<1> USE DEF TypeOK, WatchdogTypeOK, Labels, Goto, Outcomes, Files, Schemas,
            watchdogVars, bridgeVars
<1>1. CASE Invoke
  <2>1. WatchdogTypeOK'
    BY <1>1 DEF Invoke, NewWatchdog
  <2>2. inv' \in 0..MaxInvocations /\ inv' # 0
    BY <1>1 DEF Invoke
  <2> QED
    BY <1>1, <2>1, <2>2 DEF Invoke
<1>2. CASE LoadCheckpoint
  BY <1>2 DEF LoadCheckpoint, Loaded
<1>3. CASE StartWatchdog
  BY <1>3 DEF StartWatchdog, StartThread
<1>4. CASE EnterDone
  BY <1>4 DEF EnterDone
<1>5. CASE BeginWrite
  BY <1>5 DEF BeginWrite
<1>6. CASE LoopTest
  BY <1>6 DEF LoopTest
<1>7. CASE BatchWriter
  BY <1>7 DEF BatchWriter, ChunkFile, ChunkEnd
<1>8. CASE TrackPaths
  BY <1>8 DEF TrackPaths, Tracked, NewFiles, ChunkEnd
<1>9. CASE PersistCheckpoint
  BY <1>9 DEF PersistCheckpoint, SaveStore
<1>10. CASE MirrorCheckpoint
  BY <1>10 DEF MirrorCheckpoint, SaveDurable
<1>11. CASE ChunkDone
  BY <1>11 DEF ChunkDone
<1>12. CASE DisarmWatchdog
  <2>1. WatchdogTypeOK'
    BY <1>12 DEF DisarmWatchdog, Disarm
  <2> QED
    BY <1>12, <2>1 DEF DisarmWatchdog
<1>13. CASE DeleteCheckpoint
  BY <1>13 DEF DeleteCheckpoint, DeleteStore
<1>14. CASE ClearDurableCheckpoint
  BY <1>14 DEF ClearDurableCheckpoint, ClearDurable
<1>15. CASE Succeed
  BY <1>15 DEF Succeed, Disarm
<1>16. CASE RollbackSave
  BY <1>16 DEF RollbackSave, FinalOffset, SaveStore
<1>17. CASE RollbackMirror
  BY <1>17 DEF RollbackMirror, FinalOffset, SaveDurable
<1>18. CASE RollbackDelete
  BY <1>18 DEF RollbackDelete
<1>19. CASE RollbackRaise
  BY <1>19 DEF RollbackRaise, Disarm
<1>20. CASE BatchWriterRaises
  <2>1. ChunkFile \in Files
    BY <1>20 DEF BatchWriterRaises, ChunkFile, ChunkEnd
  <2>2. table' \subseteq Files
    BY <1>20, <2>1 DEF BatchWriterRaises
  <2> QED
    BY <1>20, <2>2 DEF BatchWriterRaises, ExitFailed, Disarm
<1>21. CASE TrackPathsRaises
  BY <1>21 DEF TrackPathsRaises, ExitFailed, Disarm
<1>22. CASE Watch
  <2>1. CASE TestLoop
    BY <1>22, <2>1 DEF Watch, TestLoop, writerVars
  <2>2. CASE ReadClock
    BY <1>22, <2>2 DEF Watch, ReadClock, writerVars
  <2>3. CASE InvokeCallbackOnce
    BY <1>22, <2>3 DEF Watch, InvokeCallbackOnce, writerVars
  <2> QED
    BY <1>22, <2>1, <2>2, <2>3 DEF Watch, WatchdogStep
<1>23. CASE WatchBlind
  BY <1>23 DEF WatchBlind, ReadClockFails, writerVars
<1>24. CASE Tick
  BY <1>24 DEF Tick, TimeRunsLow, writerVars
<1>25. CASE Kill
  BY <1>25 DEF Kill
<1>26. CASE LoadRaises
  BY <1>26 DEF LoadRaises
<1>27. CASE UserDisarm
  <2>1. WatchdogTypeOK'
    BY <1>27 DEF UserDisarm, Disarm
  <2> QED
    BY <1>27, <2>1 DEF UserDisarm, writerVars
<1>28. CASE ForeignAppend
  <2>1. [inv |-> inv, from |-> 0, to |-> 0] \in Files
    BY <1>28 DEF ForeignAppend
  <2>2. table' \subseteq Files
    BY <1>28, <2>1 DEF ForeignAppend
  <2> QED
    BY <1>28, <2>2 DEF ForeignAppend
<1>29. CASE ForeignCheckpoint
  BY <1>29 DEF ForeignCheckpoint, Replace, writerVars
<1>30. CASE UNCHANGED vars
  BY <1>30 DEF vars, writerVars
<1> QED
  BY <1>1, <1>2, <1>3, <1>4, <1>5, <1>6, <1>7, <1>8, <1>9, <1>10, <1>11,
     <1>12, <1>13, <1>14, <1>15, <1>16, <1>17, <1>18, <1>19, <1>20, <1>21,
     <1>22, <1>23, <1>24, <1>25, <1>26, <1>27, <1>28, <1>29, <1>30
     DEF Next, WriterStep

LEMMA TypeInit == Init => TypeOK
<1> SUFFICES ASSUME Init PROVE TypeOK
  OBVIOUS
<1> USE BridgeAssumption, WriterAssumption DEF Init
<1>1. WatchdogTypeOK
  BY DEF WatchdogInit, WatchdogTypeOK
<1>2. /\ store \in 0..Total \cup {NoCheckpoint}
      /\ durable \in 0..Total \cup {NoCheckpoint}
      /\ schema \in Schemas
      /\ keyed \in BOOLEAN
  BY DEF BridgeInit, Schemas
<1>3. /\ table \subseteq Files /\ known \subseteq Files
      /\ uncommitted \subseteq Files /\ pending \subseteq Files
  OBVIOUS
<1>4. inv \in 0..MaxInvocations
  OBVIOUS
<1>5. resumeOffset \in 0..Total /\ offset \in 0..Total
  OBVIOUS
<1>6. pc \in Labels /\ pc = "idle"
  BY DEF Labels
<1>7. succeeded \in BOOLEAN
  OBVIOUS
<1>8. outcome \in {"none", "running", "success", "rolledBack", "failed", "killed"}
  OBVIOUS
<1> QED
  BY <1>1, <1>2, <1>3, <1>4, <1>5, <1>6, <1>7, <1>8 DEF TypeOK

(* Every variable has its type in every reachable state.                   *)
THEOREM TypeCorrect == Spec => []TypeOK
BY TypeInit, TypeStep, PTL DEF Spec

-----------------------------------------------------------------------------
(* The checkpoint is backed by files                                       *)

(* No checkpoint write is lost.                                            *)
NoLostSaves == "put" \notin Faults /\ "mirror" \notin Faults

(* The files of earlier invocations, which no rollback of the current one  *)
(* may touch.                                                              *)
Older == {f \in table : f.inv < inv}

(* Where the path tracker is in use.                                       *)
Writing == {"loop", "batch", "track", "persist", "mirror", "check"}

(* Whose files are whose, and what the path tracker has seen.  A file that *)
(* holds no record of the job (from = to) is another writer's.             *)
Ownership ==
    /\ \A f \in table : f.inv <= inv
    /\ pc = "load" => \A f \in table : f \in Older \/ f.from = f.to
    /\ pc \in Writing => Older \subseteq known
    /\ \A f \in uncommitted \cup pending : f.inv = inv

(* What the writer has behind it, at each place of its program.            *)
Progress ==
    /\ pc \notin {"idle", "load"} => Covers(Older, resumeOffset)
    /\ pc \in {"loop", "batch", "persist", "mirror", "check", "disarm",
               "delete", "clear", "success"} => Covers(table, offset)
    /\ pc = "track" => Covers(table, ChunkEnd)
    /\ pc \in {"disarm", "delete", "clear", "success"} => offset >= Total

(* Every copy of the checkpoint is lowered before the first deletion.      *)
Lowered ==
    /\ pc \in {"rbMirror", "rbDelete"} => store <= resumeOffset
    /\ pc = "rbDelete" => durable <= resumeOffset
    /\ ~keyed => store = NoCheckpoint
    /\ ~UseDurable => durable = NoCheckpoint /\ pc \notin {"mirror", "clear", "rbMirror"}

SuccessIsOlder ==
    succeeded => Covers(IF pc = "idle" THEN table ELSE Older, Total)

BackedInv ==
    /\ TypeOK
    /\ Ownership
    /\ Progress
    /\ Lowered
    /\ CheckpointBacked
    /\ SuccessIsOlder

LEMMA CoversMore ==
  ASSUME NEW S, NEW T, NEW o, S \subseteq T, Covers(S, o)
  PROVE  Covers(T, o)
BY DEF Covers

LEMMA CoversLess ==
  ASSUME NEW S, NEW o \in Int, NEW p \in Int, p <= o, Covers(S, o)
  PROVE  Covers(S, p)
BY WriterAssumption DEF Covers

LEMMA CoversChunk ==
  ASSUME NEW S, NEW f \in Files, Covers(S, f.from)
  PROVE  Covers(S \cup {f}, f.to)
BY WriterAssumption DEF Covers, Holds, Files

LEMMA CoversNothing == \A S : Covers(S, 0) /\ Covers(S, NoCheckpoint)
BY WriterAssumption DEF Covers

(* Files are only taken away by the deletions of a rollback.               *)
LEMMA TableGrows ==
  ASSUME [Next]_vars, pc # "rbDelete"
  PROVE  table \subseteq table'
<1> USE DEF Goto
<1>1. CASE WriterStep
  BY <1>1 DEF WriterStep, LoadCheckpoint, LoadRaises, StartWatchdog,
       EnterDone, BeginWrite, LoopTest, BatchWriter, TrackPaths, PersistCheckpoint,
       MirrorCheckpoint, ChunkDone, DisarmWatchdog, DeleteCheckpoint,
       ClearDurableCheckpoint, Succeed, RollbackSave, RollbackMirror,
       RollbackDelete, RollbackRaise
<1>2. CASE \/ Watch \/ WatchBlind \/ Tick \/ UserDisarm \/ ForeignCheckpoint
           \/ UNCHANGED vars
  BY <1>2 DEF Watch, WatchBlind, Tick, UserDisarm, ForeignCheckpoint, vars,
       writerVars
<1>3. CASE Invoke \/ BatchWriterRaises \/ TrackPathsRaises \/ Kill \/ ForeignAppend
  BY <1>3 DEF Invoke, BatchWriterRaises, TrackPathsRaises, Kill, ForeignAppend
<1> QED
  BY <1>1, <1>2, <1>3 DEF Next

LEMMA OwnershipStep ==
  ASSUME TypeOK, Ownership, [Next]_vars
  PROVE  Ownership'
<1> USE DEF Goto, Ownership, Older, TypeOK, Files, Writing
<1>1. CASE Invoke
  <2>1. /\ inv' = inv + 1 /\ table' = table /\ pc' = "load"
        /\ uncommitted' = {} /\ pending' = {}
    BY <1>1 DEF Invoke
  <2> QED
    BY <2>1, WriterAssumption
<1>2. CASE BatchWriter
  <2>1. /\ table' = table \cup {ChunkFile} /\ ChunkFile.inv = inv
        /\ pc = "batch" /\ pc' = "track"
    BY <1>2 DEF BatchWriter, ChunkFile
  <2>2. /\ inv' = inv /\ known' = known
        /\ uncommitted' = uncommitted /\ pending' = pending
    BY <1>2 DEF BatchWriter
  <2> QED
    BY <2>1, <2>2
<1>3. CASE BatchWriterRaises
  <2>1. table' \subseteq table \cup {ChunkFile} /\ ChunkFile.inv = inv /\ pc' = "idle"
    BY <1>3 DEF BatchWriterRaises, ExitFailed, ChunkFile
  <2>2. inv' = inv /\ uncommitted' = uncommitted /\ pending' = pending
    BY <1>3 DEF BatchWriterRaises
  <2> QED
    BY <2>1, <2>2
<1>4. CASE TrackPaths
  <2>1. Older \subseteq known
    BY <1>4 DEF TrackPaths
  <2>2. \A f \in NewFiles : f.inv = inv
    BY <2>1 DEF NewFiles
  <2>3. \A f \in uncommitted' : f.inv = inv
    BY <1>4, <2>2 DEF TrackPaths, Tracked
  <2> QED
    BY <1>4, <2>1, <2>3 DEF TrackPaths
<1>5. CASE RollbackSave \/ RollbackDelete
  <2>1. pending' \subseteq uncommitted \cup pending /\ table' \subseteq table
    BY <1>5 DEF RollbackSave, RollbackDelete
  <2>2. inv' = inv /\ uncommitted' = uncommitted /\ pc' \notin {"load"} \cup Writing
    BY <1>5 DEF RollbackSave, RollbackDelete
  <2> QED
    BY <2>1, <2>2
<1>6. CASE /\ UNCHANGED <<table, inv, known, uncommitted, pending>>
           /\ pc' = "load" => pc = "load"
           /\ pc' \in Writing => pc \in Writing
  BY <1>6
<1>7. CASE BeginWrite
  BY <1>7 DEF BeginWrite
<1>8. CASE ForeignAppend
  <2> DEFINE other == [inv |-> inv, from |-> 0, to |-> 0]
  <2>1. /\ table' = table \cup {other}
        /\ UNCHANGED <<inv, pc, known, uncommitted, pending>>
    BY <1>8 DEF ForeignAppend
  <2>2. other.inv = inv /\ other.from = other.to
    OBVIOUS
  <2> HIDE DEF other
  <2> QED
    BY <2>1, <2>2
<1>9. CASE \/ LoadCheckpoint \/ LoadRaises \/ StartWatchdog \/ EnterDone
           \/ LoopTest \/ PersistCheckpoint \/ MirrorCheckpoint \/ ChunkDone
           \/ DisarmWatchdog \/ DeleteCheckpoint \/ ClearDurableCheckpoint
           \/ Succeed \/ RollbackMirror \/ RollbackRaise
  BY <1>9, <1>6 DEF LoadCheckpoint, LoadRaises, StartWatchdog, EnterDone,
       LoopTest, PersistCheckpoint, MirrorCheckpoint, ChunkDone,
       DisarmWatchdog, DeleteCheckpoint, ClearDurableCheckpoint, Succeed,
       RollbackMirror, RollbackRaise
<1>10. CASE \/ TrackPathsRaises \/ Watch \/ WatchBlind \/ Tick \/ Kill
            \/ UserDisarm \/ ForeignCheckpoint \/ UNCHANGED vars
  BY <1>10, <1>6 DEF TrackPathsRaises, ExitFailed, Watch, WatchBlind, Tick,
       Kill, UserDisarm, ForeignCheckpoint, vars, writerVars
<1> QED
  BY <1>1, <1>2, <1>3, <1>4, <1>5, <1>7, <1>8, <1>9, <1>10 DEF Next, WriterStep

(* Only files of the current invocation are taken away.                    *)
LEMMA OnlyNewGo ==
  ASSUME TypeOK, Ownership, [Next]_vars
  PROVE  \A f \in table : f \in table' \/ f.inv = inv
<1>1. CASE RollbackDelete
  BY <1>1 DEF RollbackDelete, Ownership
<1>2. CASE pc # "rbDelete"
  BY <1>2, TableGrows
<1>3. CASE pc = "rbDelete" /\ ~RollbackDelete
  <2>1. \/ RollbackRaise \/ Watch \/ WatchBlind \/ Tick \/ Kill
        \/ UserDisarm \/ ForeignAppend \/ ForeignCheckpoint \/ UNCHANGED vars
    BY <1>3 DEF Next, WriterStep, Invoke, LoadCheckpoint, LoadRaises, StartWatchdog,
         EnterDone, BeginWrite, LoopTest, BatchWriter, TrackPaths,
         PersistCheckpoint, MirrorCheckpoint, ChunkDone, DisarmWatchdog,
         DeleteCheckpoint, ClearDurableCheckpoint, Succeed, RollbackSave,
         RollbackMirror, BatchWriterRaises, TrackPathsRaises
  <2> QED
    BY <2>1 DEF RollbackRaise, Watch, WatchBlind, Tick, Kill, UserDisarm,
         ForeignAppend, ForeignCheckpoint, vars, writerVars
<1> QED
  BY <1>1, <1>2, <1>3

(* No step takes a file of an earlier invocation away.                     *)
LEMMA OlderGrows ==
  ASSUME TypeOK, Ownership, [Next]_vars
  PROVE  Older \subseteq Older'
<1>1. inv' = inv \/ inv' = inv + 1
  BY DEF Next, WriterStep, Invoke, LoadCheckpoint, LoadRaises, StartWatchdog,
       EnterDone, BeginWrite, LoopTest, BatchWriter, TrackPaths, PersistCheckpoint,
       MirrorCheckpoint, ChunkDone, DisarmWatchdog, DeleteCheckpoint,
       ClearDurableCheckpoint, Succeed, RollbackSave, RollbackMirror,
       RollbackDelete, RollbackRaise, BatchWriterRaises, TrackPathsRaises,
       Watch, WatchBlind, Tick, Kill, UserDisarm, ForeignAppend,
       ForeignCheckpoint, vars, writerVars
<1>2. \A f \in table : f \in table' \/ f.inv = inv
  BY OnlyNewGo
<1> QED
  BY <1>1, <1>2, WriterAssumption DEF Older, TypeOK, Files

(* A rollback takes only files that came after its invocation had begun,   *)
(* whatever fails and whoever else writes to the table.                    *)
THEOREM RollbackSparesOthers == Spec => RollbackTakesOnlyNew
<1> DEFINE Owned == TypeOK /\ Ownership
<1>1. Init => Owned
  <2>1. Init => TypeOK
    BY TypeInit
  <2>2. Init => Ownership
    BY DEF Init, Ownership, Older, Writing
  <2> QED
    BY <2>1, <2>2
<1>2. Owned /\ [Next]_vars => Owned'
  BY TypeStep, OwnershipStep
<1>3. Owned /\ [Next]_vars => [\A f \in table \ table' : f.inv = inv]_vars
  BY OnlyNewGo
<1> HIDE DEF Owned
<1> QED
  BY <1>1, <1>2, <1>3, PTL DEF Spec, RollbackTakesOnlyNew

(* At each place of its program the writer has the records behind it in    *)
(* the table, those it resumed past in files no rollback may touch.        *)
LEMMA ProgressStep ==
  ASSUME BackedInv, [Next]_vars
  PROVE  Progress'
<1> USE DEF Goto, BackedInv
<1>0. Older \subseteq Older' /\ Older \subseteq table
  BY OlderGrows DEF Older
<1>1. pc' \notin {"idle", "load"} => Covers(Older', resumeOffset')
  <2>1. CASE LoadCheckpoint
    <3>1. resumeOffset' \in {0, store, durable}
      BY <2>1 DEF LoadCheckpoint, Loaded, Outcomes
    <3>2. Covers(table, resumeOffset')
      BY <3>1, CoversNothing DEF CheckpointBacked
    <3>3. \A f \in table : f \in Older \/ f.from = f.to
      BY <2>1 DEF LoadCheckpoint, Ownership
    <3>4. Covers(Older, resumeOffset')
      BY <3>2, <3>3 DEF Covers, Holds, TypeOK, Files
    <3> QED
      BY <3>4, <1>0, CoversMore
  <2>2. CASE ~LoadCheckpoint /\ pc' \notin {"idle", "load"}
    <3>1. pc \notin {"idle", "load"} /\ resumeOffset' = resumeOffset
      BY <2>2 DEF Next, WriterStep, Invoke, LoadRaises, StartWatchdog, EnterDone,
           BeginWrite, LoopTest, BatchWriter, TrackPaths, PersistCheckpoint,
           MirrorCheckpoint, ChunkDone, DisarmWatchdog, DeleteCheckpoint,
           ClearDurableCheckpoint, Succeed, RollbackSave, RollbackMirror,
           RollbackDelete, RollbackRaise, BatchWriterRaises, TrackPathsRaises,
           ExitFailed, Watch, WatchBlind, Tick, Kill, UserDisarm,
           ForeignAppend, ForeignCheckpoint, vars, writerVars
    <3>2. Covers(Older, resumeOffset')
      BY <3>1 DEF Progress
    <3> QED
      BY <3>2, <1>0, CoversMore
  <2> QED
    BY <2>1, <2>2
<1> DEFINE Written == {"loop", "batch", "persist", "mirror", "check", "disarm",
                       "delete", "clear", "success"}
           Ending == {"disarm", "delete", "clear", "success"}
           Rest == /\ pc' \in Written => Covers(table', offset')
                   /\ pc' = "track" => Covers(table', ChunkEnd')
                   /\ pc' \in Ending => offset' >= Total
<1>2. CASE BeginWrite
  <2>1. pc' = "loop" /\ offset' = resumeOffset /\ table' = table
    BY <1>2 DEF BeginWrite
  <2>2. Covers(table, resumeOffset)
    BY <1>0, <1>2, CoversMore DEF Progress, BeginWrite
  <2>3. Rest
    BY <2>1, <2>2
  <2> QED
    BY <1>1, <2>3 DEF Progress
<1>3. CASE BatchWriter
  <2>1. /\ pc = "batch" /\ pc' = "track" /\ offset' = offset
        /\ table' = table \cup {ChunkFile}
    BY <1>3 DEF BatchWriter
  <2>2. ChunkFile \in Files /\ ChunkFile.from = offset /\ ChunkFile.to = ChunkEnd
    BY <2>1, WriterAssumption DEF ChunkFile, ChunkEnd, Files, TypeOK
  <2>3. Covers(table', ChunkEnd)
    <3>1. Covers(table, ChunkFile.from)
      BY <2>1, <2>2 DEF Progress
    <3>2. Covers(table \cup {ChunkFile}, ChunkFile.to)
      BY <3>1, <2>2, CoversChunk
    <3> QED
      BY <3>2, <2>1, <2>2
  <2>4. ChunkEnd' = ChunkEnd
    BY <2>1 DEF ChunkEnd
  <2>5. Rest
    BY <2>1, <2>3, <2>4
  <2> QED
    BY <1>1, <2>5 DEF Progress
<1>4. CASE TrackPaths
  <2>1. pc = "track" /\ pc' = "persist" /\ offset' = ChunkEnd /\ table' = table
    BY <1>4 DEF TrackPaths
  <2>2. Covers(table', offset')
    BY <2>1 DEF Progress
  <2>3. Rest
    BY <2>1, <2>2
  <2> QED
    BY <1>1, <2>3 DEF Progress
<1>5. CASE LoopTest
  <2>1. pc = "loop" /\ offset' = offset /\ table' = table /\ pc' # "track"
    BY <1>5 DEF LoopTest
  <2>2. pc' \in Ending => offset >= Total
    BY <1>5 DEF LoopTest
  <2>3. Covers(table', offset')
    BY <2>1 DEF Progress
  <2>4. Rest
    BY <2>1, <2>2, <2>3
  <2> QED
    BY <1>1, <2>4 DEF Progress
<1>6. ASSUME /\ table \subseteq table'
             /\ offset' = offset
             /\ pc' \in Written => pc \in Written
             /\ pc' = "track" => pc = "track"
             /\ pc' \in Ending => pc \in Ending
      PROVE  Progress'
  <2>1. pc' \in Written => Covers(table', offset')
    BY <1>6, CoversMore DEF Progress
  <2>2. pc' = "track" => Covers(table', ChunkEnd')
    <3>1. ChunkEnd' = ChunkEnd
      BY <1>6 DEF ChunkEnd
    <3> QED
      BY <3>1, <1>6, CoversMore DEF Progress
  <2>3. Rest
    BY <1>6, <2>1, <2>2 DEF Progress
  <2> QED
    BY <1>1, <2>3 DEF Progress
<1>7. CASE pc' \notin Written \cup {"track"}
  BY <1>1, <1>7 DEF Progress
<1>8. CASE \/ PersistCheckpoint \/ MirrorCheckpoint \/ ChunkDone
           \/ DisarmWatchdog \/ DeleteCheckpoint \/ ClearDurableCheckpoint
  BY <1>8, <1>6, <1>7 DEF PersistCheckpoint, MirrorCheckpoint, ChunkDone,
       DisarmWatchdog, DeleteCheckpoint, ClearDurableCheckpoint
<1>9. CASE \/ Watch \/ WatchBlind \/ Tick \/ UserDisarm \/ ForeignAppend
           \/ ForeignCheckpoint \/ UNCHANGED vars
  BY <1>9, <1>6 DEF Watch, WatchBlind, Tick, UserDisarm, ForeignAppend,
       ForeignCheckpoint, vars, writerVars
<1>10. CASE \/ Invoke \/ LoadCheckpoint \/ LoadRaises \/ StartWatchdog
            \/ EnterDone \/ Succeed
            \/ RollbackSave \/ RollbackMirror \/ RollbackDelete \/ RollbackRaise
            \/ BatchWriterRaises \/ TrackPathsRaises \/ Kill
  BY <1>10, <1>7 DEF Invoke, LoadCheckpoint, LoadRaises, StartWatchdog, EnterDone,
       Succeed,
       RollbackSave, RollbackMirror, RollbackDelete, RollbackRaise,
       BatchWriterRaises, TrackPathsRaises, ExitFailed, Kill
<1> QED
  BY <1>2, <1>3, <1>4, <1>5, <1>8, <1>9, <1>10 DEF Next, WriterStep

(* The rollback lowers both copies of the checkpoint before it deletes.    *)
LEMMA LoweredStep ==
  ASSUME BackedInv, [Next]_vars, NoLostSaves
  PROVE  Lowered'
<1> USE BridgeAssumption, WriterAssumption
<1> USE DEF Goto, BackedInv, Lowered, TypeOK
<1>1. CASE RollbackSave
  <2>1. /\ store' = IF keyed THEN resumeOffset ELSE NoCheckpoint
        /\ UNCHANGED <<resumeOffset, durable, keyed>>
    BY <1>1 DEF RollbackSave, FinalOffset, SaveStore, Outcomes, May, NoLostSaves
  <2>2. pc' = IF UseDurable THEN "rbMirror" ELSE "rbDelete"
    BY <1>1 DEF RollbackSave
  <2> QED
    BY <2>1, <2>2
<1>2. CASE RollbackMirror
  <2>1. durable' = resumeOffset /\ UNCHANGED <<resumeOffset, store, keyed>>
    BY <1>2 DEF RollbackMirror, FinalOffset, SaveDurable, Outcomes, May, NoLostSaves
  <2>2. pc = "rbMirror" /\ pc' = "rbDelete"
    BY <1>2 DEF RollbackMirror
  <2> QED
    BY <2>1, <2>2
<1>3. CASE MirrorCheckpoint \/ ClearDurableCheckpoint
  <2>1. /\ pc \in {"mirror", "clear"} /\ pc' \in {"check", "success"}
        /\ UNCHANGED <<store, keyed>>
    BY <1>3 DEF MirrorCheckpoint, ClearDurableCheckpoint, SaveDurable,
         ClearDurable
  <2> QED
    BY <2>1
<1>4. CASE PersistCheckpoint \/ DeleteCheckpoint
  <2>1. UNCHANGED <<durable, keyed>> /\ (~keyed => UNCHANGED store)
    BY <1>4 DEF PersistCheckpoint, DeleteCheckpoint, SaveStore, DeleteStore
  <2>2. pc' \in {"mirror", "check", "clear", "success"}
    BY <1>4 DEF PersistCheckpoint, DeleteCheckpoint
  <2>3. pc' \in {"mirror", "clear"} => UseDurable
    BY <1>4 DEF PersistCheckpoint, DeleteCheckpoint
  <2> QED
    BY <2>1, <2>2, <2>3
<1>5. ASSUME /\ UNCHANGED <<durable, store, keyed>>
             /\ pc' \in {"mirror", "clear", "rbMirror"} => pc' = pc
             /\ pc' \in {"rbMirror", "rbDelete"} =>
                  pc' = pc /\ UNCHANGED resumeOffset
      PROVE  Lowered'
  BY <1>5
<1>6. CASE \/ Invoke \/ LoadCheckpoint \/ LoadRaises \/ StartWatchdog
           \/ EnterDone \/ BeginWrite
           \/ LoopTest \/ BatchWriter \/ TrackPaths \/ ChunkDone
           \/ DisarmWatchdog \/ Succeed \/ RollbackDelete \/ RollbackRaise
           \/ BatchWriterRaises \/ TrackPathsRaises \/ Kill
  BY <1>6, <1>5 DEF Invoke, LoadCheckpoint, LoadRaises, StartWatchdog,
       EnterDone, BeginWrite,
       LoopTest, BatchWriter, TrackPaths, ChunkDone, DisarmWatchdog, Succeed,
       RollbackDelete, RollbackRaise, BatchWriterRaises, TrackPathsRaises,
       ExitFailed, Kill, bridgeVars
<1>7. CASE \/ Watch \/ WatchBlind \/ Tick \/ UserDisarm \/ ForeignAppend
           \/ ForeignCheckpoint \/ UNCHANGED vars
  BY <1>7, <1>5 DEF Watch, WatchBlind, Tick, UserDisarm, ForeignAppend,
       ForeignCheckpoint, Replace, vars, bridgeVars, writerVars
<1> QED
  BY <1>1, <1>2, <1>3, <1>4, <1>6, <1>7 DEF Next, WriterStep

(* A step that saves saves an offset the writer has behind it, and a step  *)
(* that deletes comes after both copies were lowered.                      *)
LEMMA BackedStep ==
  ASSUME BackedInv, [Next]_vars
  PROVE  CheckpointBacked'
<1> USE BridgeAssumption, WriterAssumption, CoversNothing
<1> USE DEF Goto, BackedInv, CheckpointBacked
<1>1. CASE RollbackDelete
  <2>1. Older \subseteq table' /\ UNCHANGED <<store, durable>>
    BY <1>1, OlderGrows DEF Older, RollbackDelete, bridgeVars
  <2>2. Covers(table', resumeOffset)
    BY <1>1, <2>1, CoversMore DEF Progress, RollbackDelete
  <2>3. store <= resumeOffset /\ durable <= resumeOffset
    BY <1>1 DEF RollbackDelete, Lowered
  <2> QED
    BY <2>1, <2>2, <2>3, CoversLess DEF TypeOK
<1>2. ASSUME /\ table \subseteq table'
             /\ store' \in {store, NoCheckpoint} \/ Covers(table, store')
             /\ durable' \in {durable, NoCheckpoint} \/ Covers(table, durable')
      PROVE  CheckpointBacked'
  BY <1>2, CoversMore
<1>3. CASE PersistCheckpoint \/ MirrorCheckpoint
  <2>1. Covers(table, offset)
    BY <1>3 DEF PersistCheckpoint, MirrorCheckpoint, Progress
  <2>2. table' = table /\ store' \in {store, offset} /\ durable' \in {durable, offset}
    BY <1>3 DEF PersistCheckpoint, MirrorCheckpoint, SaveStore, SaveDurable
  <2> QED
    BY <1>2, <2>1, <2>2
<1>4. CASE RollbackSave \/ RollbackMirror
  <2>1. Covers(table, resumeOffset)
    BY <1>4, CoversMore DEF RollbackSave, RollbackMirror, Progress, Older
  <2>2. /\ table' = table
        /\ store' \in {store, resumeOffset}
        /\ durable' \in {durable, resumeOffset}
    BY <1>4 DEF RollbackSave, RollbackMirror, FinalOffset, SaveStore, SaveDurable
  <2> QED
    BY <1>2, <2>1, <2>2
<1>5. CASE DeleteCheckpoint \/ ClearDurableCheckpoint
  BY <1>5, <1>2 DEF DeleteCheckpoint, ClearDurableCheckpoint, DeleteStore,
       ClearDurable
<1>6. CASE \/ Invoke \/ LoadCheckpoint \/ LoadRaises \/ StartWatchdog
           \/ EnterDone \/ BeginWrite
           \/ LoopTest \/ BatchWriter \/ TrackPaths \/ ChunkDone
           \/ DisarmWatchdog \/ Succeed \/ RollbackRaise
           \/ BatchWriterRaises \/ TrackPathsRaises \/ Kill
  BY <1>6, <1>2 DEF Invoke, LoadCheckpoint, LoadRaises, StartWatchdog,
       EnterDone, BeginWrite,
       LoopTest, BatchWriter, TrackPaths, ChunkDone, DisarmWatchdog, Succeed,
       RollbackRaise, BatchWriterRaises, TrackPathsRaises, Kill, bridgeVars
<1>7. CASE \/ Watch \/ WatchBlind \/ Tick \/ UserDisarm \/ ForeignAppend
           \/ ForeignCheckpoint \/ UNCHANGED vars
  BY <1>7, <1>2 DEF Watch, WatchBlind, Tick, UserDisarm, ForeignAppend,
       ForeignCheckpoint, Replace, vars, bridgeVars, writerVars
<1> QED
  BY <1>1, <1>3, <1>4, <1>5, <1>6, <1>7 DEF Next, WriterStep

(* What a success left behind belongs to an earlier invocation as soon as  *)
(* the next one starts.                                                    *)
LEMMA SuccessStep ==
  ASSUME BackedInv, [Next]_vars
  PROVE  SuccessIsOlder'
<1> USE DEF Goto, BackedInv, SuccessIsOlder
<1>1. Older \subseteq Older' /\ Older' \subseteq table'
  BY OlderGrows DEF Older
<1>2. CASE Succeed
  <2>1. Covers(table, offset) /\ offset >= Total
    BY <1>2 DEF Succeed, Progress
  <2>2. Covers(table, Total)
    BY <2>1, CoversLess, WriterAssumption DEF TypeOK
  <2> QED
    BY <1>2, <2>2 DEF Succeed
<1>3. CASE Invoke
  <2>1. table \subseteq Older'
    BY <1>3, WriterAssumption DEF Invoke, Ownership, Older, TypeOK, Files
  <2> QED
    BY <1>3, <2>1, CoversMore DEF Invoke
<1>4. CASE pc # "idle" /\ succeeded' = succeeded
  BY <1>1, <1>4, CoversMore
<1>5. CASE pc = "idle" /\ pc' = "idle" /\ UNCHANGED <<table, succeeded>>
  BY <1>5
<1>6. CASE WriterStep /\ ~Succeed
  BY <1>6, <1>4 DEF WriterStep, LoadCheckpoint, LoadRaises, StartWatchdog,
       EnterDone, BeginWrite, LoopTest, BatchWriter, TrackPaths, PersistCheckpoint,
       MirrorCheckpoint, ChunkDone, DisarmWatchdog, DeleteCheckpoint,
       ClearDurableCheckpoint, RollbackSave, RollbackMirror, RollbackDelete,
       RollbackRaise
<1>7. CASE BatchWriterRaises \/ TrackPathsRaises \/ Kill
  BY <1>7, <1>4 DEF BatchWriterRaises, TrackPathsRaises, Kill
<1>8. CASE \/ Watch \/ WatchBlind \/ Tick \/ UserDisarm \/ ForeignAppend
           \/ ForeignCheckpoint \/ UNCHANGED vars
  BY <1>8, <1>4, <1>5 DEF Watch, WatchBlind, Tick, UserDisarm, ForeignAppend,
       ForeignCheckpoint, vars, writerVars
<1> QED
  BY <1>2, <1>3, <1>6, <1>7, <1>8 DEF Next

LEMMA BackedInvStep ==
  ASSUME NoLostSaves, BackedInv, [Next]_vars
  PROVE  BackedInv'
BY TypeStep, OwnershipStep, ProgressStep, LoweredStep, BackedStep, SuccessStep
   DEF BackedInv

LEMMA BackedInvInit == Init => BackedInv
<1> SUFFICES ASSUME Init PROVE BackedInv
  OBVIOUS
<1>1. TypeOK
  BY TypeInit
<1>2. Ownership /\ Progress /\ Lowered /\ SuccessIsOlder
  BY DEF Init, BridgeInit, Ownership, Progress, Lowered, SuccessIsOlder, Older
<1>3. CheckpointBacked
  BY CoversNothing DEF Init, BridgeInit, CheckpointBacked
<1> QED
  BY <1>1, <1>2, <1>3 DEF BackedInv

(* If no checkpoint write is lost then, whatever else fails and wherever   *)
(* the process dies, every record below an offset a retry may resume from  *)
(* is in the table.                                                        *)
THEOREM CheckpointIsBacked == NoLostSaves => (Spec => []CheckpointBacked)
<1> SUFFICES ASSUME NoLostSaves PROVE Spec => []CheckpointBacked
  OBVIOUS
<1>1. Init => BackedInv
  BY BackedInvInit
<1>2. BackedInv /\ [Next]_vars => BackedInv'
  BY BackedInvStep
<1>3. BackedInv => CheckpointBacked
  BY DEF BackedInv
<1> QED
  BY <1>1, <1>2, <1>3, PTL DEF Spec

(* Under the same condition no record is ever missing again once a success *)
(* was reported.                                                           *)
THEOREM SuccessIsLasting == NoLostSaves => (Spec => []SuccessLasts)
<1> SUFFICES ASSUME NoLostSaves PROVE Spec => []SuccessLasts
  OBVIOUS
<1>1. Init => BackedInv
  BY BackedInvInit
<1>2. BackedInv /\ [Next]_vars => BackedInv'
  BY BackedInvStep
<1>3. BackedInv => SuccessLasts
  <2> SUFFICES ASSUME BackedInv, succeeded PROVE Covers(table, Total)
    BY DEF SuccessLasts
  <2> QED
    BY CoversMore DEF BackedInv, SuccessIsOlder, Older
<1> QED
  BY <1>1, <1>2, <1>3, PTL DEF Spec

-----------------------------------------------------------------------------
(* The promise                                                             *)

LEMMA CoversIsBelow ==
  ASSUME TypeOK, NEW o \in Int, o <= Total
  PROVE  Covers(table, o) <=> Promise!Below(o) \subseteq Visible
BY WriterAssumption DEF Covers, Promise!Below, Visible

LEMMA ClaimedIsBacked ==
  TypeOK /\ CheckpointBacked =>
    Claimed \in 0..Total /\ Promise!Below(Claimed) \subseteq Visible
<1> SUFFICES ASSUME TypeOK, CheckpointBacked
             PROVE  Claimed \in 0..Total /\ Promise!Below(Claimed) \subseteq Visible
  OBVIOUS
<1>1. Claimed \in 0..Total /\ Claimed \in {store, durable, 0}
  BY WriterAssumption DEF Claimed, TypeOK
<1>2. Covers(table, Claimed)
  BY <1>1, CoversNothing DEF CheckpointBacked
<1> QED
  BY <1>1, <1>2, CoversIsBelow, WriterAssumption

LEMMA VisibleIsBelow == TypeOK => Visible \subseteq Promise!Below(Total)
BY WriterAssumption DEF TypeOK, Files, Visible, Holds, Promise!Below

(* Every step of the writer is a step of the promise or changes nothing    *)
(* the promise speaks of.                                                  *)
LEMMA PromiseStep ==
  ASSUME BackedInv, BackedInv', [Next]_vars
  PROVE  [Promise!Next]_(Promise!vars)
<1> USE DEF BackedInv, Promise!vars, Promise!Next, Goto
<1>1. CASE UNCHANGED <<table, succeeded>>
  <2>1. Visible' = Visible
    BY <1>1 DEF Visible
  <2>2. Claimed' \in 0..Total /\ Promise!Below(Claimed') \subseteq Visible
    <3>1. (TypeOK /\ CheckpointBacked)' =>
            (Claimed \in 0..Total /\ Promise!Below(Claimed) \subseteq Visible)'
      BY ClaimedIsBacked, PTL
    <3> QED
      BY <3>1, <2>1 DEF Promise!Below
  <2>3. Promise!Claim
    BY <1>1, <2>1, <2>2 DEF Promise!Claim
  <2> QED
    BY <2>3
<1>2. CASE table \subseteq table' /\ UNCHANGED <<bridgeVars, succeeded>>
  <2>1. Visible \subseteq Visible' /\ Claimed' = Claimed
    BY <1>2 DEF Visible, Claimed, bridgeVars
  <2>2. Visible' \subseteq Promise!Below(Total)
    <3>1. TypeOK' => (Visible \subseteq Promise!Below(Total))'
      BY VisibleIsBelow, PTL
    <3> QED
      BY <3>1 DEF Promise!Below
  <2>3. Promise!Append
    BY <1>2, <2>1, <2>2 DEF Promise!Append
  <2> QED
    BY <2>3
<1>3. CASE RollbackDelete
  <2>1. table' \subseteq table /\ UNCHANGED <<store, durable, succeeded>>
    BY <1>3 DEF RollbackDelete, bridgeVars
  <2>2. Visible' \subseteq Visible /\ Claimed' = Claimed
    BY <2>1 DEF Visible, Claimed
  <2>3. Promise!Below(Claimed) \subseteq Visible'
    <3>1. (TypeOK /\ CheckpointBacked)' =>
            (Claimed \in 0..Total /\ Promise!Below(Claimed) \subseteq Visible)'
      BY ClaimedIsBacked, PTL
    <3> QED
      BY <3>1, <2>2 DEF Promise!Below
  <2>4. CASE ~succeeded
    BY <2>1, <2>2, <2>3, <2>4 DEF Promise!Retract
  <2>5. CASE succeeded
    <3>1. Covers(table', Total)
      BY <2>1, <2>5, CoversMore DEF SuccessIsOlder, Older
    <3>2. Visible \subseteq Visible'
      BY <3>1, VisibleIsBelow DEF Covers, Visible, Promise!Below
    <3> QED
      BY <2>1, <2>2, <3>2
  <2> QED
    BY <2>4, <2>5
<1>4. CASE Succeed
  <2>1. UNCHANGED <<table, store, durable>> /\ succeeded' = TRUE
    BY <1>4 DEF Succeed, bridgeVars
  <2>2. Covers(table, Total)
    BY <1>4, CoversLess, WriterAssumption DEF Succeed, Progress, TypeOK
  <2>3. Visible = Promise!Below(Total)
    <3>1. Promise!Below(Total) \subseteq Visible
      BY <2>2, CoversIsBelow, WriterAssumption
    <3>2. Visible \subseteq Promise!Below(Total)
      BY VisibleIsBelow
    <3> QED
      BY <3>1, <3>2
  <2>4. Visible' = Visible /\ Claimed' = Claimed
    BY <2>1 DEF Visible, Claimed
  <2> QED
    BY <2>1, <2>3, <2>4 DEF Promise!Finish
<1>5. CASE WriterStep /\ ~RollbackDelete /\ ~Succeed
  BY <1>5, <1>1, <1>2 DEF WriterStep, LoadCheckpoint, LoadRaises, StartWatchdog,
       EnterDone, BeginWrite, LoopTest, BatchWriter, TrackPaths, PersistCheckpoint,
       MirrorCheckpoint, ChunkDone, DisarmWatchdog, DeleteCheckpoint,
       ClearDurableCheckpoint, RollbackSave, RollbackMirror, RollbackRaise
<1>6. CASE \/ Invoke \/ BatchWriterRaises \/ TrackPathsRaises \/ Kill
           \/ ForeignAppend
  BY <1>6, <1>1, <1>2 DEF Invoke, BatchWriterRaises, TrackPathsRaises, Kill,
       ForeignAppend
<1>7. CASE \/ Watch \/ WatchBlind \/ Tick \/ UserDisarm \/ ForeignCheckpoint
           \/ UNCHANGED vars
  BY <1>7, <1>1 DEF Watch, WatchBlind, Tick, UserDisarm, ForeignCheckpoint,
       vars, writerVars
<1> QED
  BY <1>3, <1>4, <1>5, <1>6, <1>7 DEF Next

(* If no checkpoint write is lost, the writer with its watchdog, its       *)
(* rollbacks and its crashes implements the promise of a resumable write.  *)
THEOREM WriterKeepsPromise == NoLostSaves => (Spec => KeepsPromise)
<1> SUFFICES ASSUME NoLostSaves PROVE Spec => KeepsPromise
  OBVIOUS
<1>1. Init => BackedInv
  BY BackedInvInit
<1>2. BackedInv /\ [Next]_vars => BackedInv'
  BY BackedInvStep
<1>3. Init => Promise!Init
  BY DEF Init, BridgeInit, Promise!Init, Visible, Claimed
<1>4. BackedInv /\ BackedInv' /\ [Next]_vars => [Promise!Next]_(Promise!vars)
  BY PromiseStep
<1> QED
  BY <1>1, <1>2, <1>3, <1>4, PTL DEF Spec, KeepsPromise, Promise!Spec

-----------------------------------------------------------------------------
(* A checkpoint that cannot be read                                        *)

(* The writer is past the load only with a checkpoint it could read.       *)
Stopped == ~Readable => store # NoCheckpoint /\ pc \in {"idle", "load"}

LEMMA StoppedStep ==
  ASSUME "get" \notin Faults, TypeOK, Stopped, [Next]_vars
  PROVE  /\ Stopped'
         /\ ~Readable /\ pc # "idle" =>
              UNCHANGED <<bridgeVars, resumeOffset, offset>>
<1> USE DEF Stopped, Readable, Schemas, Goto, bridgeVars
<1>1. CASE LoadCheckpoint
  <2>1. ~Refused(TRUE)
    BY <1>1 DEF LoadCheckpoint, Outcomes, May
  <2> QED
    BY <1>1, <2>1 DEF LoadCheckpoint, Refused
<1>2. CASE LoadRaises
  BY <1>2 DEF LoadRaises
<1>3. CASE \/ PersistCheckpoint \/ MirrorCheckpoint \/ DeleteCheckpoint
           \/ ClearDurableCheckpoint \/ RollbackSave \/ RollbackMirror
  BY <1>3 DEF PersistCheckpoint, MirrorCheckpoint, DeleteCheckpoint,
       ClearDurableCheckpoint, RollbackSave, RollbackMirror, SaveStore,
       SaveDurable, DeleteStore, ClearDurable
<1>4. CASE \/ StartWatchdog \/ EnterDone \/ BeginWrite \/ LoopTest
           \/ BatchWriter \/ TrackPaths \/ ChunkDone \/ DisarmWatchdog
           \/ Succeed \/ RollbackDelete \/ RollbackRaise
  BY <1>4 DEF StartWatchdog, EnterDone, BeginWrite, LoopTest, BatchWriter,
       TrackPaths, ChunkDone, DisarmWatchdog, Succeed, RollbackDelete,
       RollbackRaise
<1>5. CASE Invoke \/ BatchWriterRaises \/ TrackPathsRaises \/ Kill
  BY <1>5 DEF Invoke, BatchWriterRaises, TrackPathsRaises, ExitFailed, Kill
<1>6. CASE ForeignCheckpoint
  BY <1>6 DEF ForeignCheckpoint, Replace, writerVars
<1>7. CASE \/ Watch \/ WatchBlind \/ Tick \/ UserDisarm \/ ForeignAppend
           \/ UNCHANGED vars
  BY <1>7 DEF Watch, WatchBlind, Tick, UserDisarm, ForeignAppend, vars,
       writerVars
<1> QED
  BY <1>1, <1>2, <1>3, <1>4, <1>5, <1>6, <1>7 DEF Next, WriterStep

(* If S3 answers every load, a checkpoint that cannot be read stays as it  *)
(* is until somebody replaces it.                                          *)
THEOREM UnreadableStopsTheJob ==
  "get" \notin Faults => (Spec => UnreadableIsKept)
<1> SUFFICES ASSUME "get" \notin Faults PROVE Spec => UnreadableIsKept
  OBVIOUS
<1> DEFINE Inv == TypeOK /\ Stopped
<1>1. Init => Inv
  <2>1. Init => TypeOK
    BY TypeInit
  <2>2. Init => Stopped
    BY DEF Init, BridgeInit, Stopped, Readable
  <2> QED
    BY <2>1, <2>2
<1>2. Inv /\ [Next]_vars => Inv'
  BY TypeStep, StoppedStep
<1>3. Inv /\ [Next]_vars =>
        [~Readable /\ pc # "idle" =>
           UNCHANGED <<bridgeVars, resumeOffset, offset>>]_vars
  BY StoppedStep
<1> HIDE DEF Inv
<1> QED
  BY <1>1, <1>2, <1>3, PTL DEF Spec, UnreadableIsKept

-----------------------------------------------------------------------------
(* A rollback leaves nothing behind                                        *)

(* Every rollback can delete every path it knows.                          *)
NothingStays == Track /\ "cleanup" \notin Faults

(* The files of S that hold records of the current invocation.             *)
Own(S) == {f \in S : f.inv = inv /\ f.from # f.to}

(* What the invocation wrote it knows, from the chunk on to its deletion;  *)
(* and what the tracker will not report again was reported.                *)
Tidied ==
    /\ pc \in {"load", "start", "entered", "body"} => Own(table) = {}
    /\ pc \in Writing => Own(known) \subseteq uncommitted
    /\ pc \in (Writing \ {"track"}) \cup {"rbSave"} => Own(table) \subseteq uncommitted
    /\ pc \in {"rbMirror", "rbDelete"} => Own(table) \subseteq pending
    /\ outcome = "rolledBack" => pc = "idle" /\ Own(table) = {}
    /\ pc # "idle" => outcome = "running"

LEMMA TidiedStep ==
  ASSUME NothingStays, TypeOK, Ownership, Tidied, [Next]_vars
  PROVE  Tidied'
<1> USE DEF Tidied, Own, Goto, Writing
<1>1. CASE Invoke
  <2>1. /\ pc' = "load" /\ inv' = inv + 1 /\ table' = table
        /\ outcome' = "running"
    BY <1>1 DEF Invoke
  <2>2. \A f \in table' : f.inv # inv'
    BY <2>1 DEF Ownership, TypeOK, Files
  <2> QED
    BY <2>1, <2>2
<1>2. CASE BeginWrite
  BY <1>2 DEF BeginWrite
<1>3. CASE BatchWriter
  BY <1>3 DEF BatchWriter
<1>4. CASE TrackPaths
  <2>1. /\ uncommitted' = uncommitted \cup (table \ known)
        /\ known' = known \cup table
        /\ pc = "track" /\ pc' = "persist"
        /\ UNCHANGED <<table, inv, outcome>>
    BY <1>4 DEF TrackPaths, Tracked, NewFiles, NothingStays
  <2> QED
    BY <2>1
<1>5. CASE RollbackSave
  BY <1>5 DEF RollbackSave
<1>6. CASE RollbackDelete
  <2>1. /\ \E f \in pending : table' = table \ {f} /\ pending' = pending \ {f}
        /\ pc = "rbDelete" /\ pc' = "rbDelete"
        /\ UNCHANGED <<inv, outcome>>
    BY <1>6 DEF RollbackDelete, NothingStays, Outcomes, May
  <2> QED
    BY <2>1
<1>7. CASE RollbackRaise
  BY <1>7 DEF RollbackRaise
<1>8. CASE ForeignAppend
  <2> DEFINE other == [inv |-> inv, from |-> 0, to |-> 0]
  <2>1. table' = table \cup {other}
    BY <1>8 DEF ForeignAppend
  <2>2. UNCHANGED <<inv, pc, known, uncommitted, pending, outcome>>
    BY <1>8 DEF ForeignAppend
  <2>3. other.from = other.to
    OBVIOUS
  <2> HIDE DEF other
  <2>4. Own(table)' = Own(table)
    BY <2>1, <2>2, <2>3
  <2>5. Own(known)' = Own(known)
    BY <2>2
  <2> HIDE DEF Own
  <2> QED
    BY <2>2, <2>4, <2>5
<1>9. CASE \/ StartWatchdog \/ EnterDone \/ LoopTest \/ PersistCheckpoint
           \/ MirrorCheckpoint \/ ChunkDone \/ DisarmWatchdog
           \/ DeleteCheckpoint \/ ClearDurableCheckpoint \/ RollbackMirror
           \/ LoadCheckpoint
  BY <1>9 DEF LoadCheckpoint, StartWatchdog, EnterDone, LoopTest,
       PersistCheckpoint, MirrorCheckpoint, ChunkDone, DisarmWatchdog,
       DeleteCheckpoint, ClearDurableCheckpoint, RollbackMirror
<1>10. CASE \/ LoadRaises \/ Succeed \/ BatchWriterRaises \/ TrackPathsRaises
            \/ Kill
  BY <1>10 DEF LoadRaises, Succeed, BatchWriterRaises, TrackPathsRaises,
       ExitFailed, Kill
<1>11. CASE \/ Watch \/ WatchBlind \/ Tick \/ UserDisarm \/ ForeignCheckpoint
            \/ UNCHANGED vars
  BY <1>11 DEF Watch, WatchBlind, Tick, UserDisarm, ForeignCheckpoint, vars,
       writerVars
<1> QED
  BY <1>1, <1>2, <1>3, <1>4, <1>5, <1>6, <1>7, <1>8, <1>9, <1>10, <1>11
     DEF Next, WriterStep

(* With tracked paths and a storage that deletes what it is told to, a     *)
(* reported rollback left none of its invocation's chunks in the table.    *)
THEOREM RollbackCloses == NothingStays => (Spec => []RollbackClosure)
<1> SUFFICES ASSUME NothingStays PROVE Spec => []RollbackClosure
  OBVIOUS
<1> DEFINE Inv == TypeOK /\ Ownership /\ Tidied
<1>1. Init => Inv
  <2>1. Init => TypeOK
    BY TypeInit
  <2>2. Init => Ownership /\ Tidied
    BY DEF Init, Ownership, Older, Writing, Tidied, Own
  <2> QED
    BY <2>1, <2>2
<1>2. Inv /\ [Next]_vars => Inv'
  BY TypeStep, OwnershipStep, TidiedStep
<1>3. Inv => RollbackClosure
  BY DEF Tidied, Own, RollbackClosure
<1> HIDE DEF Inv
<1> QED
  BY <1>1, <1>2, <1>3, PTL DEF Spec

-----------------------------------------------------------------------------
(* No record twice                                                         *)

(* Moreover an invocation ends in a success, a rollback or a checkpoint it *)
(* cannot read, and no event is delivered again after a success.           *)
Orderly == NothingStays /\ Faults \cap {"kill", "batch", "track", "again"} = {}

Empty(f) == f.from = f.to

(* The records in the table are those of the current invocation, and below *)
(* the offset it has reached.                                              *)
Once ==
    /\ pc = "idle" /\ outcome # "success" => \A f \in table : Empty(f)
    /\ pc # "idle" => \A f \in table : f.inv = inv \/ Empty(f)
    /\ pc \notin {"idle", "track"} => \A f \in table : Empty(f) \/ f.to <= offset
    /\ pc = "track" => \A f \in table : Empty(f) \/ f.to <= ChunkEnd
    /\ AppliedOnce

LEMMA OnceStep ==
  ASSUME Orderly, TypeOK, Ownership, Tidied, Once, [Next]_vars
  PROVE  Once'
<1> USE DEF Once, Goto
<1>0. NothingStays /\ {"kill", "batch", "track", "again"} \cap Faults = {}
  BY DEF Orderly
<1>1. ASSUME table' \subseteq table PROVE AppliedOnce'
  BY <1>1 DEF AppliedOnce, Holds
<1>2. CASE Invoke
  <2>1. /\ pc = "idle" /\ pc' = "load" /\ UNCHANGED table
        /\ outcome # "success"
    BY <1>0, <1>2 DEF Invoke
  <2> QED
    BY <1>1, <2>1 DEF Empty
<1>3. CASE BeginWrite
  <2>1. pc = "body" /\ pc' = "loop" /\ UNCHANGED <<table, inv>>
    BY <1>3 DEF BeginWrite
  <2>2. \A f \in table : Empty(f)
    BY <2>1 DEF Tidied, Own, Empty
  <2> QED
    BY <1>1, <2>1, <2>2 DEF Empty
<1>4. CASE BatchWriter
  <2>1. /\ pc = "batch" /\ pc' = "track" /\ table' = table \cup {ChunkFile}
        /\ UNCHANGED <<inv, offset>>
    BY <1>4 DEF BatchWriter
  <2>2. /\ ChunkFile.inv = inv /\ ChunkFile.from = offset
        /\ ChunkFile.to = ChunkEnd
    BY DEF ChunkFile
  <2>3. offset \in Nat /\ ChunkEnd \in Nat /\ offset <= ChunkEnd /\ ChunkEnd' = ChunkEnd
    BY <2>1, WriterAssumption DEF ChunkEnd, TypeOK
  <2>4. \A f \in table : Empty(f) \/ f.to <= offset
    BY <2>1
  <2>5. \A f \in table : f.from \in Nat /\ f.to \in Nat
    BY DEF TypeOK, Files
  <2>6. \A f \in table : \A r \in 0..Total : ~(Holds(f, r) /\ Holds(ChunkFile, r))
    BY <2>2, <2>3, <2>4, <2>5, WriterAssumption DEF Holds, Empty
  <2>7. AppliedOnce'
    BY <2>1, <2>6 DEF AppliedOnce, Holds
  <2>8. \A f \in table' : Empty(f) \/ f.to <= ChunkEnd
    BY <2>1, <2>2, <2>3, <2>4, <2>5
  <2>9. \A f \in table' : f.inv = inv \/ Empty(f)
    BY <2>1, <2>2
  <2> QED
    BY <2>1, <2>3, <2>7, <2>8, <2>9 DEF Empty
<1>5. CASE TrackPaths
  <2>1. /\ pc = "track" /\ pc' = "persist" /\ offset' = ChunkEnd
        /\ UNCHANGED <<table, inv>>
    BY <1>5 DEF TrackPaths
  <2> QED
    BY <1>1, <2>1 DEF Empty
<1>6. CASE RollbackDelete
  <2>1. table' \subseteq table /\ UNCHANGED <<inv, pc, offset, outcome>> /\ pc = "rbDelete"
    BY <1>6 DEF RollbackDelete
  <2> QED
    BY <1>1, <2>1 DEF Empty
<1>7. CASE RollbackRaise
  <2>1. /\ pc = "rbDelete" /\ pending = {} /\ UNCHANGED <<table, inv>>
        /\ pc' = "idle"
    BY <1>7 DEF RollbackRaise
  <2>2. \A f \in table : Empty(f)
    BY <2>1 DEF Tidied, Own, Empty
  <2> QED
    BY <1>1, <2>1, <2>2 DEF Empty
<1>8. CASE LoadRaises
  <2>1. pc = "load" /\ pc' = "idle" /\ UNCHANGED <<table, inv>>
    BY <1>8 DEF LoadRaises
  <2>2. \A f \in table : Empty(f)
    BY <2>1 DEF Tidied, Own, Empty
  <2> QED
    BY <1>1, <2>1, <2>2 DEF Empty
<1>9. CASE Succeed
  <2>1. pc' = "idle" /\ outcome' = "success" /\ UNCHANGED table
    BY <1>9 DEF Succeed
  <2> QED
    BY <1>1, <2>1
<1>10. CASE ForeignAppend
  <2> DEFINE other == [inv |-> inv, from |-> 0, to |-> 0]
  <2>1. table' = table \cup {other} /\ pc # "idle"
    BY <1>10 DEF ForeignAppend
  <2>2. UNCHANGED <<inv, pc, offset, outcome>>
    BY <1>10 DEF ForeignAppend
  <2>3. Empty(other) /\ \A r \in 0..Total : ~Holds(other, r)
    BY WriterAssumption DEF Empty, Holds
  <2> HIDE DEF other
  <2>4. AppliedOnce'
    BY <2>1, <2>3 DEF AppliedOnce, Holds
  <2>5. ChunkEnd' = ChunkEnd
    BY <2>2 DEF ChunkEnd
  <2> QED
    BY <2>1, <2>2, <2>3, <2>4, <2>5 DEF Empty
<1>11. CASE BatchWriterRaises \/ TrackPathsRaises \/ Kill
  BY <1>0, <1>11 DEF BatchWriterRaises, TrackPathsRaises, Kill, May
<1>12. ASSUME /\ UNCHANGED <<table, inv, offset>>
              /\ pc # "idle" /\ pc' # "idle"
              /\ pc = "track" <=> pc' = "track"
       PROVE  Once'
  <2>1. ChunkEnd' = ChunkEnd
    BY <1>12 DEF ChunkEnd
  <2> QED
    BY <1>1, <1>12, <2>1 DEF Empty
<1>13. CASE \/ LoadCheckpoint \/ StartWatchdog \/ EnterDone \/ LoopTest
            \/ PersistCheckpoint \/ MirrorCheckpoint \/ ChunkDone
            \/ DisarmWatchdog \/ DeleteCheckpoint \/ ClearDurableCheckpoint
            \/ RollbackSave \/ RollbackMirror
  BY <1>13, <1>12 DEF LoadCheckpoint, StartWatchdog, EnterDone, LoopTest,
       PersistCheckpoint, MirrorCheckpoint, ChunkDone, DisarmWatchdog,
       DeleteCheckpoint, ClearDurableCheckpoint, RollbackSave, RollbackMirror
<1>14. CASE \/ Watch \/ WatchBlind \/ Tick \/ UserDisarm \/ ForeignCheckpoint
            \/ UNCHANGED vars
  <2>1. UNCHANGED <<table, inv, offset, pc, outcome>>
    BY <1>14 DEF Watch, WatchBlind, Tick, UserDisarm, ForeignCheckpoint, vars,
         writerVars
  <2>2. ChunkEnd' = ChunkEnd
    BY <2>1 DEF ChunkEnd
  <2> QED
    BY <1>1, <2>1, <2>2 DEF Empty
<1> QED
  BY <1>2, <1>3, <1>4, <1>5, <1>6, <1>7, <1>8, <1>9, <1>10, <1>11, <1>13,
     <1>14 DEF Next, WriterStep

(* In an orderly environment, lost checkpoint saves and other writers      *)
(* included, no record is ever in the table twice.                         *)
THEOREM NoRecordTwice == Orderly => (Spec => []AppliedOnce)
<1> SUFFICES ASSUME Orderly PROVE Spec => []AppliedOnce
  OBVIOUS
<1> DEFINE Inv == TypeOK /\ Ownership /\ Tidied /\ Once
<1>1. Init => Inv
  <2>1. Init => TypeOK
    BY TypeInit
  <2>2. Init => Ownership /\ Tidied /\ Once
    BY DEF Init, Ownership, Older, Writing, Tidied, Own, Once, AppliedOnce
  <2> QED
    BY <2>1, <2>2
<1>2. Inv /\ [Next]_vars => Inv'
  BY TypeStep, OwnershipStep, TidiedStep, OnceStep DEF Orderly
<1>3. Inv => AppliedOnce
  BY DEF Once
<1> HIDE DEF Inv
<1> QED
  BY <1>1, <1>2, <1>3, PTL DEF Spec

-----------------------------------------------------------------------------
(* What the abstract specification promises, and with it whoever           *)
(* implements it: from the offset a retry would start at no record is      *)
(* missing, and after a success none at all.                               *)
THEOREM PromiseIsSafe ==
  Promise!Spec => [](/\ Promise!Below(Claimed) \subseteq Visible
                     /\ succeeded => Visible = Promise!Below(Total))
<1> DEFINE Safe == /\ Promise!Below(Claimed) \subseteq Visible
                   /\ succeeded => Visible = Promise!Below(Total)
           Inv == Safe /\ Visible \subseteq Promise!Below(Total)
<1> HIDE DEF Visible, Claimed
<1>1. Promise!Init => Inv
  BY WriterAssumption DEF Promise!Init, Promise!Below
<1>2. Inv /\ [Promise!Next]_(Promise!vars) => Inv'
  <2> SUFFICES ASSUME Inv, [Promise!Next]_(Promise!vars) PROVE Inv'
    OBVIOUS
  <2>1. CASE Promise!Append
    BY <2>1 DEF Promise!Append, Promise!Below
  <2>2. CASE Promise!Retract
    BY <2>2 DEF Promise!Retract, Promise!Below
  <2>3. CASE Promise!Claim
    BY <2>3 DEF Promise!Claim, Promise!Below
  <2>4. CASE Promise!Finish
    BY <2>4 DEF Promise!Finish, Promise!Below
  <2>5. CASE UNCHANGED Promise!vars
    BY <2>5 DEF Promise!vars, Promise!Below
  <2> QED
    BY <2>1, <2>2, <2>3, <2>4, <2>5 DEF Promise!Next
<1>3. Inv => Safe
  OBVIOUS
<1> HIDE DEF Inv, Safe
<1>4. Promise!Spec => []Safe
  BY <1>1, <1>2, <1>3, PTL DEF Promise!Spec
<1> QED
  BY <1>4 DEF Safe

=============================================================================
