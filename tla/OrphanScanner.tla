--------------------------- MODULE OrphanScanner ---------------------------
(***************************************************************************)
(* The orphan scanner (src/iceguard/orphan_scanner.py) beside the writers  *)
(* of one table: it lists the data files in storage, asks the adapter for  *)
(* the committed ones (src/iceguard/adapters.py, format_metadata.py) and   *)
(* deletes what is old enough and not committed.  Writers append, commit,  *)
(* remove and roll back files at any moment in between.                    *)
(*                                                                         *)
(* The table's metadata is a log of entries, each adding and removing      *)
(* files; the files it leaves are the live ones, which every reader of the *)
(* table opens.  An entry never changes once it is written, so reading the *)
(* log is one step: what it shows is fixed when its keys are listed.  In   *)
(* time Delta folds old entries into checkpoints, which are Parquet files  *)
(* under the table's prefix themselves: the adapter does not read them and *)
(* the scanner lists them like any other.  Hudi moves its old entries to   *)
(* an archive.                                                             *)
(***************************************************************************)
EXTENDS Integers, Sequences

CONSTANTS
    Files,           \* Parquet files, never written twice
    Absolute,        \* those the log names absolutely or within the bucket;
                     \* it names the others relative to the table
    MaxEntries,      \* bound: entries of the log
    TableFormats,    \* formats the table may have, see Formats
    CommitPerChunk,  \* a chunk is committed before the write is finished
    Punctual,        \* a file is committed before the retention has passed
    Faults           \* what may go wrong, see FaultKinds

Formats ==
    {"delta",    \* DeltaLakeAdapter reads the log in S3
     "hudi",     \* HudiAdapter reads the commits of the timeline in S3
     "catalog",  \* IcebergAdapter, or GlueCatalogAdapter, with a catalog
     "bare"}     \* either of them without, as the command line builds it

FaultKinds ==
    {"entry",    \* an entry of the log cannot be read
     "listing",  \* the committed files cannot be listed at all
     "delete"}   \* the deletion of an orphan fails

ASSUME ScannerAssumption ==
    /\ MaxEntries \in Nat
    /\ TableFormats \subseteq Formats
    /\ Absolute \subseteq Files
    /\ CommitPerChunk \in BOOLEAN
    /\ Punctual \in BOOLEAN
    /\ Faults \subseteq FaultKinds

VARIABLES
    format,      \* of the table; it never changes
    age,         \* of every file: unwritten, young, or past the retention
    storage,     \* files in storage
    log,         \* entries of the table's metadata, oldest first
    archived,    \* so many of them, the oldest, are no longer where they were
    checkpoints, \* files Delta folded them into, the newest last
    spc,         \* where the scanner is
    candidates,  \* old files the scanner has listed
    orphans      \* files the scanner is going to delete

tableVars == <<format, age, storage, log, archived, checkpoints>>
scannerVars == <<spc, candidates, orphans>>
vars == <<tableVars, scannerVars>>

Entries == [adds : SUBSET Files, removes : SUBSET Files]

TypeOK ==
    /\ format \in TableFormats
    /\ age \in [Files -> {"unwritten", "young", "old"}]
    /\ storage \subseteq Files
    /\ log \in Seq(Entries)
    /\ archived \in 0..Len(log)
    /\ checkpoints \in Seq(Files)
    /\ spc \in {"idle", "listed", "deleting"}
    /\ candidates \subseteq Files
    /\ orphans \subseteq Files

Init ==
    /\ format \in TableFormats
    /\ age = [f \in Files |-> "unwritten"]
    /\ storage = {}
    /\ log = <<>>
    /\ archived = 0
    /\ checkpoints = <<>>
    /\ spc = "idle"
    /\ candidates = {}
    /\ orphans = {}

(* Files some entry adds, files some entry removes.                        *)
Added == {f \in Files : \E i \in 1..Len(log) : f \in log[i].adds}
Removed == {f \in Files : \E i \in 1..Len(log) : f \in log[i].removes}

(* What a reader of the table opens.                                       *)
Live == Added \ Removed

(* The entries that are where the adapters look for them.                  *)
Present == (archived + 1)..Len(log)

Folded == {checkpoints[i] : i \in 1..Len(checkpoints)}

(* The adapter can tell that the file is committed once it has read the    *)
(* entry that added it.                                                    *)
Known(f) ==
    \/ format = "catalog"
    \/ format \in {"delta", "hudi"} /\ f \in Absolute

(* The live files it knows whose entry is in its place.                    *)
Kept == {f \in Live : Known(f) /\ \E i \in Present : f \in log[i].adds}

-----------------------------------------------------------------------------
(* The writers and the clock                                               *)

AppendFile(f) ==
    /\ age[f] = "unwritten"
    /\ age' = [age EXCEPT ![f] = "young"]
    /\ storage' = storage \cup {f}
    /\ UNCHANGED <<format, log, archived, checkpoints, scannerVars>>

(* A commit adds files that were not added before and removes live ones;   *)
(* removed files stay in storage.                                          *)
Commit(adds, removes) ==
    /\ Len(log) < MaxEntries
    /\ adds \cup removes # {}
    /\ adds \subseteq storage \ (Added \cup Folded)
    /\ Punctual => \A f \in adds : age[f] = "young"
    /\ removes \subseteq Live
    /\ log' = Append(log, [adds |-> adds, removes |-> removes])
    /\ UNCHANGED <<format, age, storage, archived, checkpoints, scannerVars>>

(* A rollback deletes the paths its writer tracked, as objects in S3: the  *)
(* metadata is neither asked nor told.  With s3_track_paths_factory these  *)
(* are all new Parquet files under the prefix, checkpoints included.       *)
Rollback(f) ==
    /\ f \in storage
    /\ age[f] = "young"
    /\ CommitPerChunk \/ f \notin Added
    /\ storage' = storage \ {f}
    /\ UNCHANGED <<format, age, log, archived, checkpoints, scannerVars>>

GrowOld(f) ==
    /\ age[f] = "young"
    /\ age' = [age EXCEPT ![f] = "old"]
    /\ UNCHANGED <<format, storage, log, archived, checkpoints, scannerVars>>

(* The writers' engine tidies the metadata, the oldest entry first: Hudi   *)
(* moves it to the archive,                                                *)
Archive ==
    /\ format = "hudi"
    /\ archived < Len(log)
    /\ archived' = archived + 1
    /\ UNCHANGED <<format, age, storage, log, checkpoints, scannerVars>>

(* and Delta removes it when a new checkpoint holds what it said.          *)
Fold(f) ==
    /\ format = "delta"
    /\ archived < Len(log)
    /\ age[f] = "unwritten"
    /\ age' = [age EXCEPT ![f] = "young"]
    /\ storage' = storage \cup {f}
    /\ checkpoints' = Append(checkpoints, f)
    /\ archived' = archived + 1
    /\ UNCHANGED <<format, log, scannerVars>>

-----------------------------------------------------------------------------
(* The scanner                                                             *)

(* mutant: the age of a file is not looked at *)
AnyAge(f) == TRUE

PastRetention(f) == age[f] = "old"

(* list_parquet_candidates: every Parquet file under the table's prefix.   *)
List ==
    /\ spc = "idle"
    /\ spc' = "listed"
    /\ candidates' = {f \in storage : PastRetention(f)}
    /\ UNCHANGED <<tableVars, orphans>>

(* mutant: the remove actions of the log are not applied *)
ActiveIgnoringRemoves(read) ==
    {f \in Files : \E i \in read : f \in log[i].adds}

(* delta_committed_paths_s3: the files the entries `read' leave active,    *)
(* one entry after the other.                                              *)
Active(read) ==
    {f \in Files : \E i \in read :
        f \in log[i].adds /\ \A j \in read : j > i => f \notin log[j].removes}

(* A path that is not absolute is resolved against the bucket, so that one *)
(* relative to the table names no file of it.                              *)
Named(files) == files \cap Absolute

(* What an adapter answers when it has nothing better: committed_files,    *)
(* which the command line does not fill.                                   *)
Seed == {}

(* pyiceberg_committed_paths: the files of the current snapshot.           *)
Snapshot == Live

(* IcebergAdapter with a catalog.                                          *)
CatalogListings == {Snapshot} \cup (IF "listing" \in Faults THEN {Seed} ELSE {})

(* The entries that a listing may fail to read.                            *)
Unread == IF "entry" \in Faults THEN SUBSET Present ELSE {{}}

(* DeltaLakeAdapter: the log, passing over each entry that cannot be read. *)
DeltaListings ==
    {Named(Active(Present \ unread)) : unread \in Unread}
    \cup (IF "listing" \in Faults THEN {Seed} ELSE {})

(* The files that the entries `read' of a Hudi timeline wrote: which ones  *)
(* they replaced is not looked at.                                         *)
Written(read) == {f \in Files : \E i \in read : f \in log[i].adds}

(* hudi_committed_paths_s3: the archive is read only when the timeline     *)
(* names no file at all.                                                   *)
Timeline(read) ==
    IF Written(read) # {} THEN Written(read) ELSE Written(1..archived)

HudiListings ==
    {Named(Timeline(Present \ unread)) : unread \in Unread}
    \cup (IF "listing" \in Faults THEN {Seed} ELSE {})

(* GlueCatalogAdapter without a catalog finds where the table lies and     *)
(* then, like IcebergAdapter, has nothing to list its files with.          *)
BareListings == {Seed}

(* The adapter of the table's format.                                      *)
Listings ==
    CASE format = "bare" -> BareListings
      [] format = "catalog" -> CatalogListings
      [] format = "delta" -> DeltaListings
      [] format = "hudi" -> HudiListings

(* scan(): the committed files are listed after the candidates.            *)
Classify ==
    /\ spc = "listed"
    /\ \E committed \in Listings : orphans' = candidates \ committed
    /\ spc' = "deleting"
    /\ candidates' = {}
    /\ UNCHANGED tableVars

(* delete_orphans, one file; a failure is counted and passed over.         *)
DeleteOrphan(f) ==
    /\ spc = "deleting"
    /\ f \in orphans
    /\ storage' = storage \ {f}
    /\ orphans' = orphans \ {f}
    /\ UNCHANGED <<format, age, log, archived, checkpoints, spc, candidates>>

DeleteFails(f) ==
    /\ spc = "deleting"
    /\ f \in orphans
    /\ "delete" \in Faults
    /\ orphans' = orphans \ {f}
    /\ UNCHANGED <<tableVars, spc, candidates>>

Finish ==
    /\ spc = "deleting"
    /\ orphans = {}
    /\ spc' = "idle"
    /\ UNCHANGED <<tableVars, candidates, orphans>>

(* A scan that only reports what it found, or whose process dies.          *)
Stop ==
    /\ spc # "idle"
    /\ spc' = "idle"
    /\ candidates' = {}
    /\ orphans' = {}
    /\ UNCHANGED tableVars

Writers ==
    \/ \E f \in Files : AppendFile(f) \/ Rollback(f) \/ GrowOld(f) \/ Fold(f)
    \/ \E adds, removes \in SUBSET Files : Commit(adds, removes)
    \/ Archive

Next ==
    \/ Writers
    \/ List \/ Classify \/ Finish \/ Stop
    \/ \E f \in Files : DeleteOrphan(f) \/ DeleteFails(f)

Spec == Init /\ [][Next]_vars

-----------------------------------------------------------------------------
(* Scheduled cleanup: the scanner runs again and again, not every scan is  *)
(* stopped, and a deletion tried again and again succeeds in the end.      *)
FairSpec ==
    /\ Spec
    /\ WF_vars(List)
    /\ SF_vars(Classify)
    /\ WF_vars(Finish)
    /\ \A f \in Files : SF_vars(DeleteOrphan(f))

-----------------------------------------------------------------------------
(* Properties                                                              *)

(* No file a reader would open is missing, as long as the adapter can tell *)
(* that it is committed and its entry is in its place: what was live when  *)
(* the scanner looked, or became live after, is never deleted, although    *)
(* the listing, the committed files and the deletions belong to different  *)
(* moments.                                                                *)
LiveKept == Kept \subseteq storage

(* What a reader of the table needs: every live file, however the log      *)
(* names it, and the newest checkpoint, without which what the folded      *)
(* entries said is lost.                                                   *)
Needed ==
    Live \cup (IF checkpoints = <<>> THEN {} ELSE {checkpoints[Len(checkpoints)]})

(* The scanner finds uncommitted files only: of those it is going to       *)
(* delete no reader of the table needs any.                                *)
OnlyUncommitted == orphans \cap Needed = {}

(* The table's present state does not name the data file; older snapshots  *)
(* of an Iceberg table may, and the adapter does not ask for them.  The    *)
(* timeline of a Hudi table goes on naming the files that later commits    *)
(* replaced.                                                               *)
Orphaned(f) ==
    /\ f \notin Folded
    /\ IF format = "hudi" THEN f \notin Added ELSE f \notin Live

(* A data file past the retention that the table's present state does not  *)
(* name is deleted in the end, also when it was live once and a later      *)
(* entry removed it.                                                       *)
OrphansGo ==
    \A f \in Files :
        (f \in storage /\ age[f] = "old" /\ Orphaned(f)) ~> (f \notin storage)

=============================================================================
