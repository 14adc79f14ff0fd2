------------------------- MODULE LeaderLockProofs -------------------------
(* Theorems about LeaderLock, checked by TLAPS. *)
EXTENDS LeaderLock, TLAPS


LEMMA Disjuncts ==
    ASSUME [LockNext]_lockVars
    PROVE  \/ UNCHANGED lockVars
           \/ Tick
           \/ \E o \in Owners :
                \/ AcquireRefused(o) \/ AcquireRead(o) \/ Renew(o) \/ Write(o)
                \/ WriteRaises(o) \/ Verify(o) \/ VerifyRefused(o)
                \/ ReleaseRead(o) \/ Delete(o) \/ LockCrash(o)
BY DEF LockNext, Acquire, Release

-----------------------------------------------------------------------------
(* Types                                                                   *)

LEMMA LockTypeInvariant == LockTypeOK /\ [LockNext]_lockVars => LockTypeOK'
<1> SUFFICES ASSUME LockTypeOK, [LockNext]_lockVars
             PROVE  LockTypeOK'
  OBVIOUS
<1> USE LockAssumption DEF LockTypeOK, LockGoto, Believe, Disbelieve, WriteLease
<1>1. CASE UNCHANGED lockVars
  BY <1>1 DEF lockVars
<1>2. CASE Tick
  <2>1. lease' \in [owner : Owners, left : 0..Lease] \cup {NoLease}
    BY <1>2 DEF Tick, NoLease, Less
  <2>2. until' \in [Owners -> 0..Lease]
    BY <1>2 DEF Tick, Less
  <2> QED BY <1>2, <2>1, <2>2 DEF Tick
<1>3. ASSUME NEW o \in Owners, AcquireRefused(o)
      PROVE  LockTypeOK'
  BY <1>3 DEF AcquireRefused
<1>4. ASSUME NEW o \in Owners, AcquireRead(o)
      PROVE  LockTypeOK'
  BY <1>4 DEF AcquireRead
<1>5. ASSUME NEW o \in Owners, Renew(o)
      PROVE  LockTypeOK'
  BY <1>5 DEF Renew
<1>6. ASSUME NEW o \in Owners, Write(o)
      PROVE  LockTypeOK'
  BY <1>6 DEF Write
<1>7. ASSUME NEW o \in Owners, WriteRaises(o)
      PROVE  LockTypeOK'
  BY <1>7 DEF WriteRaises
<1>8. ASSUME NEW o \in Owners, Verify(o) \/ VerifyRefused(o)
      PROVE  LockTypeOK'
  BY <1>8 DEF Verify, VerifyRefused
<1>9. ASSUME NEW o \in Owners, ReleaseRead(o) \/ Delete(o)
      PROVE  LockTypeOK'
  BY <1>9 DEF ReleaseRead, Delete
<1>10. ASSUME NEW o \in Owners, LockCrash(o)
       PROVE  LockTypeOK'
  BY <1>10 DEF LockCrash
<1> QED
  BY <1>1, <1>2, <1>3, <1>4, <1>5, <1>6, <1>7, <1>8, <1>9, <1>10, Disjuncts

LEMMA LockTypeInit == LockInit => LockTypeOK
<1> SUFFICES ASSUME LockInit
             PROVE  LockTypeOK
  OBVIOUS
<1>1. raced \in BOOLEAN
  BY DEF LockInit
<1>2. lease \in [owner : Owners, left : 0..Lease] \cup {NoLease}
  BY DEF LockInit
<1>3. lpc \in [Owners -> {"out", "renew", "write", "verify", "delete"}]
  BY DEF LockInit
<1>4. told \in [Owners -> BOOLEAN] /\ until \in [Owners -> 0..Lease]
  BY LockAssumption DEF LockInit
<1> QED BY <1>1, <1>2, <1>3, <1>4 DEF LockTypeOK

LEMMA LockTypeCorrect == LockSpec => []LockTypeOK
<1>1. LockInit => LockTypeOK
  BY LockTypeInit
<1> QED BY <1>1, LockTypeInvariant, PTL DEF LockSpec

(* A process that is releasing its lease has stopped believing in it.      *)
Releasing == \A o \in Owners : lpc[o] = "delete" => ~told[o]

LEMMA ReleasingInvariant ==
    LockTypeOK /\ Releasing /\ [LockNext]_lockVars => Releasing'
<1> SUFFICES ASSUME LockTypeOK, Releasing, [LockNext]_lockVars,
                    NEW o \in Owners, lpc'[o] = "delete"
             PROVE  ~told'[o]
  BY DEF Releasing
<1> USE DEF LockTypeOK, Releasing, LockGoto, Believe, Disbelieve
<1>1. CASE UNCHANGED lockVars \/ Tick
  BY <1>1 DEF lockVars, Tick
<1>2. ASSUME NEW q \in Owners,
             AcquireRefused(q) \/ AcquireRead(q) \/ Renew(q) \/ Write(q) \/ WriteRaises(q)
      PROVE  ~told'[o]
  BY <1>2 DEF AcquireRefused, AcquireRead, Renew, Write, WriteRaises
<1>3. ASSUME NEW q \in Owners,
             Verify(q) \/ VerifyRefused(q) \/ ReleaseRead(q) \/ Delete(q) \/ LockCrash(q)
      PROVE  ~told'[o]
  BY <1>3 DEF Verify, VerifyRefused, ReleaseRead, Delete, LockCrash
<1> QED BY <1>1, <1>2, <1>3, Disjuncts

LEMMA ReleasingCorrect == LockSpec => []Releasing
<1>1. LockInit => Releasing
  BY DEF LockInit, Releasing
<1> QED BY <1>1, ReleasingInvariant, LockTypeCorrect, PTL DEF LockSpec

-----------------------------------------------------------------------------
(* The leader that nobody is about to disturb                              *)

(* One step of any owner, or of the clock, leaves an undisturbed leader    *)
(* its lease and its quiet.                                                *)
LEMMA StableStep ==
    ASSUME Sighted, LockTypeOK, Releasing, [LockNext]_lockVars,
           NEW o \in Owners, Leader(o), Named(o), Quiet(o), Leader(o)'
    PROVE  Named(o)' /\ Quiet(o)'
<1> USE LockAssumption DEF LockTypeOK, Leader, Named, Quiet, LockGoto, Believe,
                           Disbelieve, WriteLease
<1>0. lease.left > 0 /\ lease.owner = o /\ lease.left \in 0..Lease
  <2>1. lease # NoLease
    BY DEF NoLease
  <2> QED BY <2>1
<1>1. CASE UNCHANGED lockVars
  BY <1>1 DEF lockVars
<1>2. CASE Tick
  <2>1. lease'.owner = o /\ lease'.left = lease.left - 1 /\ lpc' = lpc
    BY <1>0, <1>2 DEF Tick, Less
  <2>2. until'[o] = until[o] - 1
    BY <1>2 DEF Tick, Less
  <2> QED BY <1>0, <2>1, <2>2
<1>3. ASSUME NEW q \in Owners,
             \/ AcquireRefused(q) \/ AcquireRead(q) \/ Renew(q) \/ Write(q)
             \/ WriteRaises(q) \/ Verify(q) \/ VerifyRefused(q)
             \/ ReleaseRead(q) \/ Delete(q) \/ LockCrash(q)
      PROVE  Named(o)' /\ Quiet(o)'
  <2>1. CASE q = o
    <3>1. \A r \in Owners \ {o} : lpc'[r] = lpc[r]
      BY <1>3, <2>1 DEF AcquireRefused, AcquireRead, Renew, Write, WriteRaises,
         Verify, VerifyRefused, ReleaseRead, Delete, LockCrash
    <3>2. CASE Renew(o) \/ Write(o)
      BY <3>1, <3>2 DEF Renew, Write
    <3>3. CASE WriteRaises(o) \/ ReleaseRead(o) \/ LockCrash(o) \/ AcquireRefused(o)
      <4>1. told'[o] = FALSE
        BY <3>3 DEF WriteRaises, ReleaseRead, LockCrash, AcquireRefused
      <4> QED BY <4>1
    <3>4. CASE AcquireRead(o) \/ Verify(o) \/ VerifyRefused(o)
      BY <3>1, <3>4 DEF AcquireRead, Verify, VerifyRefused
    <3>5. CASE Delete(o)
      <4>1. told[o] /\ lpc[o] = "delete"
        BY <3>5 DEF Delete
      <4> QED BY <4>1 DEF Releasing
    <3> QED BY <1>3, <2>1, <3>2, <3>3, <3>4, <3>5
  <2>2. CASE q # o
    <3>1. lpc[q] \notin {"renew", "write", "delete"}
      BY <2>2
    <3>2. ~AcquireRead(q) /\ ~Renew(q) /\ ~Write(q) /\ ~WriteRaises(q) /\ ~Delete(q)
      BY <1>0, <2>2, <3>1 DEF AcquireRead, Readings, Sighted, LockMay, Running,
         Renew, Write, WriteRaises, Delete
    <3>3. /\ lease' = lease /\ until'[o] = until[o]
          /\ lpc' \in {lpc, [lpc EXCEPT ![q] = "out"]}
      <4>1. CASE AcquireRefused(q)
        BY <4>1 DEF AcquireRefused
      <4>2. CASE Verify(q) \/ VerifyRefused(q)
        BY <4>2 DEF Verify, VerifyRefused
      <4>3. CASE ReleaseRead(q)
        BY <1>0, <2>2, <4>3 DEF ReleaseRead, OwnLease
      <4>4. CASE LockCrash(q)
        BY <2>2, <4>4 DEF LockCrash
      <4> QED BY <1>3, <3>2, <4>1, <4>2, <4>3, <4>4
    <3> QED BY <3>3
  <2> QED BY <2>1, <2>2
<1> QED BY <1>1, <1>2, <1>3, Disjuncts

(* Without any assumption on the speed of the processes or of S3: once a   *)
(* leader is named and nobody is about to act on an older reading, no      *)
(* acquire, renew, release, crash of anyone else or failure, but that of a *)
(* first read, ends its lease before its time (coordinator_leader.py,      *)
(* acquire and release).                                                   *)
THEOREM LeadershipIsStable ==
    ASSUME Sighted
    PROVE  LockSpec => LeaderIsStable
<1>1. LockTypeOK /\ Releasing /\ [LockNext]_lockVars =>
        [\A o \in Owners :
           Leader(o) /\ Named(o) /\ Quiet(o) /\ Leader(o)' =>
             Named(o)' /\ Quiet(o)']_lockVars
  BY StableStep
<1> QED BY <1>1, LockTypeCorrect, ReleasingCorrect, PTL
       DEF LockSpec, LeaderIsStable

-----------------------------------------------------------------------------
(* At most one leader, as long as nobody has raced                         *)

(* Only an owner writes its name, and then with the longest lease.         *)
NamedLongEnough == \A o \in Owners : lease.owner = o => lease.left >= until[o]

(* A leader is named and undisturbed, unless somebody raced.               *)
LeaderIsSettled ==
    ~raced => \A o \in Owners : Leader(o) => lease.owner = o /\ Quiet(o)

LockInv == LockTypeOK /\ Releasing /\ NamedLongEnough /\ LeaderIsSettled

LEMMA LongEnoughStep ==
    LockTypeOK /\ NamedLongEnough /\ [LockNext]_lockVars => NamedLongEnough'
<1> SUFFICES ASSUME LockTypeOK, NamedLongEnough, [LockNext]_lockVars,
                    NEW o \in Owners, lease'.owner = o
             PROVE  lease'.left >= until'[o]
  BY DEF NamedLongEnough
<1> USE LockAssumption DEF LockTypeOK, NamedLongEnough, LockGoto, Believe,
                           Disbelieve, WriteLease, NoLease
<1>1. CASE UNCHANGED lockVars
  BY <1>1 DEF lockVars
<1>2. CASE Tick
  <2>1. lease.owner = o /\ lease'.left = Less(lease.left)
    BY <1>2 DEF Tick
  <2>2. until'[o] = Less(until[o]) /\ until[o] \in Int /\ lease.left \in Int
    BY <1>2 DEF Tick
  <2> QED BY <2>1, <2>2 DEF Less
<1>3. ASSUME NEW q \in Owners,
             \/ AcquireRefused(q) \/ AcquireRead(q) \/ Renew(q) \/ Write(q)
             \/ WriteRaises(q) \/ Verify(q) \/ VerifyRefused(q)
             \/ ReleaseRead(q) \/ Delete(q) \/ LockCrash(q)
      PROVE  lease'.left >= until'[o]
  <2>1. CASE UNCHANGED <<lease, until>>
    BY <2>1
  <2>2. CASE Renew(q) \/ Write(q)
    BY <2>2 DEF Renew, Write
  <2>3. CASE WriteRaises(q)
    BY <2>3 DEF WriteRaises
  <2>4. CASE Delete(q)
    BY <2>4 DEF Delete
  <2>5. CASE LockCrash(q)
    <3>1. lease' = lease /\ until'[o] <= until[o]
      BY <2>5 DEF LockCrash
    <3>2. lease.owner = o /\ lease.left \in Int /\ until[o] \in Int /\ until'[o] \in Int
      BY <2>5, <3>1 DEF LockCrash
    <3> QED BY <3>1, <3>2
  <2> QED BY <1>3, <2>1, <2>2, <2>3, <2>4, <2>5
          DEF AcquireRefused, AcquireRead, Verify, VerifyRefused, ReleaseRead
<1> QED BY <1>1, <1>2, <1>3, Disjuncts

LEMMA RacedForGood == LockTypeOK /\ [LockNext]_lockVars /\ raced => raced'
<1> SUFFICES ASSUME [LockNext]_lockVars, raced
             PROVE  raced'
  OBVIOUS
<1>1. CASE UNCHANGED lockVars \/ Tick
  BY <1>1 DEF lockVars, Tick
<1>2. ASSUME NEW o \in Owners, Renew(o) \/ Verify(o)
      PROVE  raced'
  BY <1>2 DEF Renew, Verify, Believe
<1>3. ASSUME NEW o \in Owners,
             AcquireRefused(o) \/ AcquireRead(o) \/ Write(o) \/ WriteRaises(o)
      PROVE  raced'
  BY <1>3 DEF AcquireRefused, AcquireRead, Write, WriteRaises
<1>4. ASSUME NEW o \in Owners,
             VerifyRefused(o) \/ ReleaseRead(o) \/ Delete(o) \/ LockCrash(o)
      PROVE  raced'
  BY <1>4 DEF VerifyRefused, ReleaseRead, Delete, LockCrash
<1> QED BY <1>1, <1>2, <1>3, <1>4, Disjuncts

(* Whoever is a leader after a step is named and undisturbed, because it   *)
(* was before or because it came to believe just now.                      *)
LEMMA SettledStep ==
    ASSUME Sighted
    PROVE  LockInv /\ [LockNext]_lockVars => LeaderIsSettled'
<1> SUFFICES ASSUME LockInv, [LockNext]_lockVars, ~raced',
                    NEW o \in Owners, Leader(o)'
             PROVE  lease'.owner = o /\ Quiet(o)'
  BY DEF LeaderIsSettled
<1>0. LockTypeOK /\ Releasing /\ ~raced
  BY RacedForGood DEF LockInv
<1>1. CASE Leader(o)
  <2>1. Named(o) /\ Quiet(o)
    BY <1>0, <1>1 DEF LockInv, LeaderIsSettled, NamedLongEnough, Named
  <2>2. Named(o)' /\ Quiet(o)'
    BY <1>0, <1>1, <2>1, StableStep
  <2> QED BY <2>2 DEF Named
<1>2. CASE ~Leader(o)
  <2>1. ~UNCHANGED lockVars
    BY <1>2 DEF lockVars, Leader
  <2>2. ~Tick
    <3> SUFFICES ASSUME Tick
                 PROVE  FALSE
      OBVIOUS
    <3>1. told' = told /\ until'[o] = Less(until[o]) /\ until[o] \in Nat
      BY <1>0 DEF Tick, LockTypeOK
    <3> QED BY <1>2, <3>1 DEF Less, Leader
  <2>3. PICK q \in Owners :
          \/ AcquireRefused(q) \/ AcquireRead(q) \/ Renew(q) \/ Write(q)
          \/ WriteRaises(q) \/ Verify(q) \/ VerifyRefused(q)
          \/ ReleaseRead(q) \/ Delete(q) \/ LockCrash(q)
    BY <2>1, <2>2, Disjuncts
  <2>4. q = o /\ (Renew(o) \/ Verify(o))
    <3>1. CASE AcquireRefused(q) \/ AcquireRead(q) \/ VerifyRefused(q) \/ Delete(q)
      BY <1>0, <1>2, <3>1
      DEF Leader, LockTypeOK, Disbelieve, AcquireRefused, AcquireRead,
          VerifyRefused, Delete
    <3>2. CASE Write(q) \/ WriteRaises(q) \/ ReleaseRead(q)
      BY <1>0, <1>2, <3>2
      DEF Leader, LockTypeOK, Disbelieve, Write, WriteRaises, ReleaseRead
    <3>3. CASE LockCrash(q)
      BY <1>0, <1>2, <3>3 DEF Leader, LockTypeOK, Disbelieve, LockCrash
    <3>4. CASE Renew(q) \/ Verify(q)
      BY <1>0, <1>2, <3>4 DEF Leader, LockTypeOK, Believe, Renew, Verify
    <3> QED BY <2>3, <3>1, <3>2, <3>3, <3>4
  <2>5. Quiet(o)
    BY <2>4 DEF Renew, Verify, Believe
  <2>6. \A r \in Owners \ {o} : lpc'[r] = lpc[r]
    BY <1>0, <2>4 DEF Renew, Verify, Believe, LockGoto, LockTypeOK
  <2>7. lease'.owner = o
    BY <2>4 DEF Renew, Verify, WriteLease, ReadsOwn
  <2> QED BY <2>5, <2>6, <2>7 DEF Quiet
<1> QED BY <1>1, <1>2

LEMMA LockInvInit == LockInit => LockInv
<1>1. LockInit => LockTypeOK
  BY LockTypeInit
<1>2. LockInit => Releasing /\ NamedLongEnough /\ LeaderIsSettled
  BY LockAssumption DEF LockInit, Releasing, NamedLongEnough, LeaderIsSettled, Leader, NoLease
<1> QED BY <1>1, <1>2 DEF LockInv

LEMMA LockInvStep ==
    ASSUME Sighted
    PROVE  LockInv /\ [LockNext]_lockVars => LockInv'
BY LockTypeInvariant, ReleasingInvariant, LongEnoughStep, SettledStep DEF LockInv

LEMMA SettledIsOne == LockInv => OneLeaderUnlessRaced
BY DEF LockInv, LeaderIsSettled, OneLeaderUnlessRaced, OneLeader

(* acquire() makes at most one process the leader at a time as long as no  *)
(* process has come to believe in its lease between another one's reading  *)
(* and writing or deleting of the object: for any number of processes, any *)
(* lease, any speed, failed writes, failed readings but a first one,       *)
(* failed deletions, release() at any time, expiry and crashes.            *)
THEOREM OneLeaderButForRaces ==
    ASSUME Sighted
    PROVE  LockSpec => []OneLeaderUnlessRaced
BY LockInvInit, LockInvStep, SettledIsOne, PTL DEF LockSpec

=============================================================================
