------------------------ MODULE OrphanScannerProofs ------------------------
(* Theorems about OrphanScanner, for any set of files.                     *)
EXTENDS OrphanScanner, TLAPS

(* The committed files can be listed, every entry that is in its place is  *)
(* read, files are committed before the retention has passed, and none     *)
(* that is committed is rolled back.                                       *)
Careful ==
    /\ "listing" \notin Faults
    /\ TableFormats \cap {"delta", "hudi"} # {} => "entry" \notin Faults
    /\ Punctual
    /\ ~CommitPerChunk

(* What the scanner holds is past the retention, and what it is going to   *)
(* delete is not kept and, being old, never will be.                       *)
ScannerInv ==
    /\ \A f \in candidates \cup orphans : age[f] = "old"
    /\ orphans \cap Kept = {}

Inv == TypeOK /\ ScannerInv /\ LiveKept

(* The type invariant is preserved.                                        *)
LEMMA TypeStep == TypeOK /\ [Next]_vars => TypeOK'
<1> SUFFICES ASSUME TypeOK, [Next]_vars PROVE TypeOK'
  OBVIOUS
<1> USE DEF TypeOK, tableVars, scannerVars
<1>1. ASSUME NEW f \in Files, AppendFile(f) PROVE TypeOK'
  BY <1>1 DEF AppendFile
<1>2. ASSUME NEW f \in Files, Rollback(f) PROVE TypeOK'
  BY <1>2 DEF Rollback
<1>3. ASSUME NEW f \in Files, GrowOld(f) PROVE TypeOK'
  BY <1>3 DEF GrowOld
<1>4. ASSUME NEW adds \in SUBSET Files, NEW removes \in SUBSET Files,
             Commit(adds, removes)
      PROVE TypeOK'
  <2>1. [adds |-> adds, removes |-> removes] \in Entries
    BY DEF Entries
  <2>2. log' \in Seq(Entries)
    BY <1>4, <2>1 DEF Commit
  <2>3. Len(log') = Len(log) + 1 /\ archived' = archived
    BY <1>4 DEF Commit
  <2>4. archived' \in 0..Len(log')
    BY <2>3
  <2> QED BY <1>4, <2>2, <2>4 DEF Commit
<1>10. CASE Archive
  BY <1>10 DEF Archive
<1>11. ASSUME NEW f \in Files, Fold(f) PROVE TypeOK'
  BY <1>11 DEF Fold
<1>5. CASE List
  BY <1>5 DEF List
<1>6. CASE Classify
  BY <1>6 DEF Classify
<1>7. CASE Finish \/ Stop
  BY <1>7 DEF Finish, Stop
<1>8. ASSUME NEW f \in Files, DeleteOrphan(f) \/ DeleteFails(f) PROVE TypeOK'
  BY <1>8 DEF DeleteOrphan, DeleteFails
<1>9. CASE UNCHANGED vars
  BY <1>9 DEF vars
<1> QED
  BY <1>1, <1>2, <1>3, <1>4, <1>5, <1>6, <1>7, <1>8, <1>9, <1>10, <1>11
  DEF Next, Writers

(* A commit makes no other file live than those it adds, and brings no     *)
(* other entry back to its place.                                          *)
LEMMA CommitAdds ==
    ASSUME TypeOK, NEW adds \in SUBSET Files, NEW removes \in SUBSET Files,
           Commit(adds, removes)
    PROVE  Kept' \subseteq Kept \cup adds
<1> DEFINE entry == [adds |-> adds, removes |-> removes]
<1>1. log \in Seq(Entries) /\ log' = Append(log, entry) /\ entry \in Entries
  BY DEF TypeOK, Commit, Entries
<1> HIDE DEF entry
<1>2. /\ Len(log') = Len(log) + 1
      /\ \A i \in 1..Len(log) : log'[i] = log[i]
      /\ log'[Len(log) + 1] = entry
      /\ Len(log) \in Nat
  BY <1>1
<1>3. Added' \subseteq Added \cup adds
  BY <1>2 DEF Added, entry
<1>4. Removed \subseteq Removed'
  BY <1>2 DEF Removed
<1>5. Live' \subseteq Live \cup adds
  BY <1>3, <1>4 DEF Live
<1>6. archived' = archived /\ archived \in Nat /\ format' = format
  BY DEF Commit, TypeOK
<1>7. ASSUME NEW f \in Kept', f \notin adds
      PROVE  \E i \in Present : f \in log[i].adds
  <2>1. PICK i \in Present' : f \in log'[i].adds
    BY <1>7 DEF Kept
  <2>2. i \in Present
    BY <1>2, <1>6, <1>7, <2>1 DEF Present, entry
  <2>3. i \in 1..Len(log)
    BY <1>2, <1>6, <2>2 DEF Present
  <2>4. f \in log[i].adds
    BY <1>2, <2>1, <2>3
  <2> QED BY <2>2, <2>4
<1>8. \A f \in Kept' : Known(f)
  BY <1>6 DEF Kept, Known
<1> QED BY <1>5, <1>7, <1>8 DEF Kept

(* Replaying the entries in their place leaves every kept file active, and *)
(* the timeline names it.                                                  *)
LEMMA ReplayFindsKept ==
    ASSUME TypeOK
    PROVE  Kept \subseteq Active(Present) /\ Kept \subseteq Timeline(Present)
<1> SUFFICES ASSUME NEW f \in Kept
             PROVE  f \in Active(Present) /\ f \in Timeline(Present)
  OBVIOUS
<1>1. PICK i \in Present : f \in log[i].adds
  BY DEF Kept
<1>2. f \in Files /\ f \notin Removed
  BY DEF Kept, Live, Added
<1>3. \A j \in Present : f \notin log[j].removes
  <2>1. Present \subseteq 1..Len(log)
    BY DEF Present, TypeOK
  <2> QED BY <1>2, <2>1 DEF Removed
<1>4. f \in Active(Present)
  BY <1>1, <1>2, <1>3 DEF Active
<1>5. f \in Written(Present)
  BY <1>1, <1>2 DEF Written
<1> QED BY <1>4, <1>5 DEF Timeline

(* Every answer of the adapter contains the files that are kept.           *)
LEMMA ListingsHoldKept ==
    ASSUME TypeOK, Careful, NEW committed \in Listings
    PROVE  Kept \subseteq committed
<1>1. format \in TableFormats /\ format \in Formats
  BY ScannerAssumption DEF TypeOK
<1>2. CASE format = "catalog"
  BY <1>2 DEF Careful, Listings, CatalogListings, Snapshot, Kept
<1>3. CASE format \in {"delta", "hudi"}
  <2>1. "entry" \notin Faults /\ "listing" \notin Faults
    BY <1>1, <1>3 DEF Careful
  <2>2. Present \ {} = Present /\ Unread = {{}}
    BY <2>1 DEF Unread
  <2>3. Kept \subseteq Absolute
    BY <1>3 DEF Kept, Known
  <2>4. CASE format = "delta"
    <3>1. committed = Named(Active(Present))
      BY <2>1, <2>2, <2>4, Zenon DEF Listings, DeltaListings
    <3> QED BY <2>3, <3>1, ReplayFindsKept DEF Named
  <2>5. CASE format = "hudi"
    <3>1. committed = Named(Timeline(Present))
      BY <2>1, <2>2, <2>5, Zenon DEF Listings, HudiListings
    <3> QED BY <2>3, <3>1, ReplayFindsKept DEF Named
  <2> QED BY <1>3, <2>4, <2>5
<1>4. CASE format = "bare"
  BY <1>4 DEF Kept, Known
<1> QED BY <1>1, <1>2, <1>3, <1>4 DEF Formats

LEMMA ScannerStep ==
    Careful /\ Inv /\ [Next]_vars => (ScannerInv /\ LiveKept)'
<1> SUFFICES ASSUME Careful, Inv, [Next]_vars PROVE (ScannerInv /\ LiveKept)'
  OBVIOUS
<1> USE DEF Inv, ScannerInv, LiveKept, tableVars, scannerVars
<1>0. log' = log /\ archived' = archived /\ format' = format => Kept' = Kept
  BY DEF Kept, Known, Present, Live, Added, Removed
<1>1. ASSUME NEW f \in Files, AppendFile(f) PROVE (ScannerInv /\ LiveKept)'
  BY <1>0, <1>1 DEF AppendFile, TypeOK
<1>2. ASSUME NEW f \in Files, Rollback(f) PROVE (ScannerInv /\ LiveKept)'
  BY <1>0, <1>2 DEF Rollback, Careful, Live, Kept
<1>3. ASSUME NEW f \in Files, GrowOld(f) PROVE (ScannerInv /\ LiveKept)'
  BY <1>0, <1>3 DEF GrowOld, TypeOK
<1>4. ASSUME NEW adds \in SUBSET Files, NEW removes \in SUBSET Files,
             Commit(adds, removes)
      PROVE (ScannerInv /\ LiveKept)'
  <2>1. Kept' \subseteq Kept \cup adds
    BY <1>4, CommitAdds
  <2>2. adds \cap orphans = {}
    BY <1>4 DEF Commit, Careful
  <2>3. adds \subseteq storage
    BY <1>4 DEF Commit
  <2> QED BY <1>4, <2>1, <2>2, <2>3 DEF Commit
<1>5. CASE List
  BY <1>0, <1>5 DEF List, PastRetention
<1>10. ASSUME log' = log, format' = format, archived' = archived + 1
       PROVE  Kept' \subseteq Kept
  <2>1. Live' = Live
    BY <1>10 DEF Live, Added, Removed
  <2>2. Present' \subseteq Present
    BY <1>10 DEF Present, TypeOK
  <2>3. \A f : Known(f)' = Known(f)
    BY <1>10 DEF Known
  <2> QED BY <1>10, <2>1, <2>2, <2>3 DEF Kept
<1>11. CASE Archive
  BY <1>10, <1>11 DEF Archive
<1>12. ASSUME NEW f \in Files, Fold(f) PROVE (ScannerInv /\ LiveKept)'
  <2>1. Kept' \subseteq Kept
    BY <1>10, <1>12 DEF Fold
  <2>2. storage \subseteq storage'
    BY <1>12 DEF Fold
  <2>3. \A g \in candidates \cup orphans : age'[g] = "old"
    BY <1>12 DEF Fold, TypeOK
  <2>4. candidates' = candidates /\ orphans' = orphans
    BY <1>12 DEF Fold
  <2> QED BY <2>1, <2>2, <2>3, <2>4
<1>6. CASE Classify
  <2>1. PICK committed \in Listings : orphans' = candidates \ committed
    BY <1>6 DEF Classify
  <2>2. Kept \subseteq committed
    BY ListingsHoldKept
  <2> QED BY <1>0, <1>6, <2>1, <2>2 DEF Classify
<1>7. CASE Finish \/ Stop
  BY <1>0, <1>7 DEF Finish, Stop
<1>8. ASSUME NEW f \in Files, DeleteOrphan(f) \/ DeleteFails(f)
      PROVE (ScannerInv /\ LiveKept)'
  BY <1>0, <1>8 DEF DeleteOrphan, DeleteFails
<1>9. CASE UNCHANGED vars
  BY <1>0, <1>9 DEF vars
<1> QED
  BY <1>1, <1>2, <1>3, <1>4, <1>5, <1>6, <1>7, <1>8, <1>9, <1>11,
     <1>12
  DEF Next, Writers

LEMMA InvHolds == Careful => (Spec => []Inv)
<1> SUFFICES ASSUME Careful PROVE Spec => []Inv
  OBVIOUS
<1>1. Init => Inv
  BY DEF Init, Inv, TypeOK, ScannerInv, LiveKept, Kept, Live, Added
<1>2. Inv /\ [Next]_vars => Inv'
  BY TypeStep, ScannerStep DEF Inv
<1> QED BY <1>1, <1>2, PTL DEF Spec

(* Under careful use the scanner never deletes a live file that the        *)
(* adapter knows and whose entry is in its place, however its three steps  *)
(* interleave with the writers of the table.  Files the log names relative *)
(* to the table, and Delta's checkpoints, are not among these.             *)
THEOREM LiveIsKept == Careful => (Spec => []LiveKept)
<1>1. Inv => LiveKept
  BY DEF Inv
<1> QED BY <1>1, InvHolds, PTL

(* The log of a table with a catalog is not tidied away.                   *)
NothingArchived == archived = 0 /\ checkpoints = <<>> /\ format = "catalog"

(* Under careful use of a table with a catalog the scanner finds           *)
(* uncommitted files only, which is more than that it deletes no live one: *)
(* there it is right about all that a reader of the table needs.           *)
THEOREM CatalogScanIsRight ==
    Careful /\ TableFormats \subseteq {"catalog"} => (Spec => []OnlyUncommitted)
<1> SUFFICES ASSUME Careful, TableFormats \subseteq {"catalog"}
             PROVE  Spec => []OnlyUncommitted
  OBVIOUS
<1>1. Init => NothingArchived
  BY DEF Init, NothingArchived
<1>2. NothingArchived /\ [Next]_vars => NothingArchived'
  <2> SUFFICES ASSUME NothingArchived, [Next]_vars PROVE NothingArchived'
    OBVIOUS
  <2> USE DEF NothingArchived, tableVars, scannerVars
  <2>1. ASSUME NEW f \in Files, AppendFile(f) \/ Rollback(f) \/ GrowOld(f)
        PROVE NothingArchived'
    BY <2>1 DEF AppendFile, Rollback, GrowOld
  <2>2. ASSUME NEW adds \in SUBSET Files, NEW removes \in SUBSET Files,
               Commit(adds, removes)
        PROVE NothingArchived'
    BY <2>2 DEF Commit
  <2>3. ASSUME NEW f \in Files, Archive \/ Fold(f) PROVE FALSE
    BY <2>3 DEF Archive, Fold
  <2>4. CASE Archive
    BY <2>4 DEF Archive
  <2>5. CASE List \/ Classify \/ Finish \/ Stop
    BY <2>5 DEF List, Classify, Finish, Stop
  <2>6. ASSUME NEW f \in Files, DeleteOrphan(f) \/ DeleteFails(f)
        PROVE NothingArchived'
    BY <2>6 DEF DeleteOrphan, DeleteFails
  <2>7. CASE UNCHANGED vars
    BY <2>7 DEF vars
  <2> QED
    BY <2>1, <2>2, <2>3, <2>4, <2>5, <2>6, <2>7 DEF Next, Writers
<1>3. Inv /\ NothingArchived => OnlyUncommitted
  <2> SUFFICES ASSUME Inv, NothingArchived PROVE OnlyUncommitted
    OBVIOUS
  <2>1. Live \subseteq Kept
    BY DEF NothingArchived, Kept, Known, Live, Added, Present
  <2>2. Needed = Live
    BY DEF Needed, NothingArchived
  <2> QED BY <2>1, <2>2 DEF Inv, ScannerInv, OnlyUncommitted
<1> QED BY <1>1, <1>2, <1>3, InvHolds, PTL DEF Spec

=============================================================================
