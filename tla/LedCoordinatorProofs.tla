------------------------ MODULE LedCoordinatorProofs ------------------------
(***************************************************************************)
(* Proofs about the composition of the coordinator with the leader lock:   *)
(* it uses the lock as LeaderLock allows, and as long as no process has    *)
(* been in a call without being the only leader (strayed), what is proved  *)
(* of one process holds among any number of them that take over from each  *)
(* other.  No assumption is made on the speed of anybody, nor on the lock. *)
(***************************************************************************)
EXTENDS LedCoordinator, CoordinatorProofs, LeaderLockProofs

LEMMA LedDisjuncts ==
  ASSUME [LedNext]_ledVars
  PROVE  \/ UNCHANGED ledVars
         \/ LedTick
         \/ \E c \in Coordinators :
              \/ LedCall(c) \/ LedWork(c)
              \/ LedAcquire(c) \/ LedRelease(c) \/ LedCrash(c)
BY DEF LedNext, LedStep

(* A step of the composition is a step of the lock or leaves it alone.     *)
LEMMA LockStep == [LedNext]_ledVars => [LockNext]_lockVars
<1> SUFFICES ASSUME [LedNext]_ledVars PROVE [LockNext]_lockVars
  OBVIOUS
<1>1. CASE LedTick
  BY <1>1 DEF LedTick, LockNext
<1>2. CASE UNCHANGED ledVars
  BY <1>2 DEF ledVars
<1>3. ASSUME NEW c \in Coordinators,
             \/ LedCall(c) \/ LedWork(c)
             \/ LedAcquire(c) \/ LedRelease(c) \/ LedCrash(c)
      PROVE  [LockNext]_lockVars
  <2>1. c \in Owners
    BY SameProcesses
  <2>2. CASE LedCall(c) \/ LedWork(c)
    BY <2>2 DEF LedCall, LedWork
  <2>3. CASE LedAcquire(c) \/ LedRelease(c) \/ LedCrash(c)
    BY <2>1, <2>3 DEF LedAcquire, LedRelease, LedCrash, LockNext
  <2> QED
    BY <1>3, <2>2, <2>3
<1> QED
  BY <1>1, <1>2, <1>3, LedDisjuncts

(* The composition implements the lock.                                    *)
THEOREM LedImplementsLock == LedSpec => LockSpec
<1>1. LedInit => LockInit
  BY DEF LedInit
<1> QED
  BY <1>1, LockStep, PTL DEF LedSpec, LockSpec

(* And it is a step of the coordinators or leaves them alone.              *)
LEMMA LedIsACall == [LedNext]_ledVars => [Next]_vars
<1> SUFFICES ASSUME [LedNext]_ledVars PROVE [Next]_vars
  OBVIOUS
<1> QED
  BY LedDisjuncts DEF ledVars, LedTick, LedCall, LedWork, LedAcquire,
     LedRelease, LedCrash, Next, Calls

-----------------------------------------------------------------------------
(* What holds whether a process strays or not                              *)

Guarded ==
    /\ LedTypeOK
    /\ \A c \in Coordinators : InCall(c) => fresh[c]
    /\ Astray => strayed

LEMMA WorkIsACall ==
  ASSUME NEW c \in Coordinators, Work(c) \/ Hang(c)
  PROVE  InCall(c)
BY DEF Work, Hang, InCall, VoteYes, VoteNo, VoteRaises, VotesIn, CommitOne,
     CommitOneFails, CommitsIn, BeginAbort, NotifyAbort, AbortDone

LEMMA GuardedInit == LedInit => Guarded
<1> SUFFICES ASSUME LedInit PROVE Guarded
  OBVIOUS
<1>1. TypeOK /\ LockTypeOK
  BY TypeInit, LockTypeInit DEF LedInit
<1>2. strayed \in BOOLEAN /\ fresh \in [Coordinators -> BOOLEAN]
  BY DEF LedInit
<1>3. \A c \in Coordinators : ~InCall(c)
  BY DEF LedInit, Init, InCall
<1> QED
  BY <1>1, <1>2, <1>3 DEF Guarded, LedTypeOK, Astray

LEMMA StrayedStep ==
  ASSUME Guarded, [LedNext]_ledVars
  PROVE  (Astray' => strayed') /\ (strayed => strayed') /\ strayed' \in BOOLEAN
<1>1. CASE LedNext
  BY <1>1 DEF LedNext
<1>2. CASE UNCHANGED ledVars
  <2>1. Astray' <=> Astray
    BY <1>2 DEF ledVars, vars, lockVars, Astray, InCall, Leader
  <2> QED
    BY <1>2, <2>1 DEF ledVars, Guarded, LedTypeOK
<1> QED
  BY <1>1, <1>2

LEMMA FreshStep ==
  ASSUME Guarded, [LedNext]_ledVars
  PROVE  /\ fresh' \in [Coordinators -> BOOLEAN]
         /\ \A c \in Coordinators : InCall(c)' => fresh'[c]
<1>1. TypeOK /\ fresh \in [Coordinators -> BOOLEAN]
      /\ \A c \in Coordinators : InCall(c) => fresh[c]
  BY DEF Guarded, LedTypeOK
<1>2. CASE UNCHANGED ledVars \/ LedTick
  BY <1>1, <1>2 DEF ledVars, vars, LedTick, InCall
<1>3. ASSUME NEW c \in Coordinators, LedCall(c) \/ LedWork(c)
      PROVE  fresh' \in [Coordinators -> BOOLEAN]
             /\ \A d \in Coordinators : InCall(d)' => fresh'[d]
  <2>1. \A d \in Coordinators : d # c => pc'[d] = pc[d]
    BY <1>1, <1>3, CallFrame DEF LedCall, LedWork, Acts, Calls
  <2>2. (UNCHANGED fresh /\ fresh[c]) \/ fresh' = [fresh EXCEPT ![c] = TRUE]
    BY <1>1, <1>3, WorkIsACall DEF LedCall, LedWork, Learn
  <2> QED
    BY <1>1, <2>1, <2>2 DEF InCall
<1>4. ASSUME NEW c \in Coordinators, LedAcquire(c) \/ LedRelease(c) \/ LedCrash(c)
      PROVE  fresh' \in [Coordinators -> BOOLEAN]
             /\ \A d \in Coordinators : InCall(d)' => fresh'[d]
  <2>1. pc'[c] = "idle" /\ \A d \in Coordinators : d # c => pc'[d] = pc[d]
    <3>1. CASE LedAcquire(c) \/ LedRelease(c)
      BY <3>1 DEF LedAcquire, LedRelease, vars
    <3>2. CASE LedCrash(c)
      BY <1>1, <3>2, CallFrame, CrashFrame DEF LedCrash
    <3> QED
      BY <1>4, <3>1, <3>2
  <2>2. \E known \in BOOLEAN : fresh' = [fresh EXCEPT ![c] = known]
    <3>1. (fresh[c] /\ Leader(c)) \in BOOLEAN
      OBVIOUS
    <3> QED
      BY <1>4, <3>1 DEF LedAcquire, LedRelease, LedCrash, Learn
  <2> QED
    BY <1>1, <2>1, <2>2 DEF InCall
<1> QED
  BY <1>2, <1>3, <1>4, LedDisjuncts

LEMMA GuardedStep == Guarded /\ [LedNext]_ledVars => Guarded'
<1> SUFFICES ASSUME Guarded, [LedNext]_ledVars PROVE Guarded'
  OBVIOUS
<1>1. TypeOK' /\ LockTypeOK'
  BY LedIsACall, TypeStep, LockStep, LockTypeInvariant DEF Guarded, LedTypeOK
<1> QED
  BY <1>1, StrayedStep, FreshStep DEF Guarded, LedTypeOK

LEMMA LockFrame ==
  ASSUME LockTypeOK, NEW c \in Owners,
         Acquire(c) \/ Release(c) \/ LockCrash(c)
  PROVE  \A d \in Owners : d # c => (Leader(d)' <=> Leader(d))
<1>1. /\ told' = told \/ \E t : told' = [told EXCEPT ![c] = t]
      /\ until' = until \/ \E u : until' = [until EXCEPT ![c] = u]
  BY DEF Acquire, Release, LockCrash, AcquireRefused, AcquireRead, Renew,
       Write, WriteRaises, Verify, VerifyRefused, ReleaseRead, Delete,
       Believe, Disbelieve
<1>2. \A d \in Owners : d # c => told'[d] = told[d] /\ until'[d] = until[d]
  BY <1>1 DEF LockTypeOK
<1> QED
  BY <1>2 DEF Leader

-----------------------------------------------------------------------------
(* What the lock gives the coordinator until a process strays: the         *)
(* conditions of its step lemmas                                           *)

(* A process that leads and has recovered the document, or began it, since *)
(* it became the leader.                                                   *)
Knows(c) == Leader(c) /\ fresh[c]

LEMMA ActsAlone ==
  ASSUME Guarded, ~strayed, NEW c \in Coordinators, LedCall(c) \/ LedWork(c)
  PROVE  Acts(c) /\ Alone(c) /\ Leader(c) /\ (Knows(c) \/ CallRecover(c))
<1>0. ~Astray
  BY DEF Guarded
<1>1. Leader(c)
  BY <1>0, WorkIsACall DEF LedCall, LedWork, Astray
<1>2. \A d \in Coordinators : InCall(d) => d = c
  BY <1>0, <1>1 DEF Astray
<1>3. Acts(c)
  BY DEF LedCall, LedWork, Acts, Calls
<1>4. fresh[c] \/ CallRecover(c)
  BY WorkIsACall DEF LedCall, LedWork, Guarded
<1> QED
  BY <1>1, <1>2, <1>3, <1>4 DEF Alone, InCall, Knows

(* What a step of the composition is to the coordinators.                  *)
LEMMA LedCases ==
  ASSUME Guarded, ~strayed, [LedNext]_ledVars
  PROVE  \/ UNCHANGED vars
         \/ \E c \in Coordinators : Crash(c)
         \/ \E c \in Coordinators :
              Acts(c) /\ Alone(c) /\ (Knows(c) \/ CallRecover(c))
<1>1. CASE UNCHANGED ledVars \/ LedTick
  BY <1>1 DEF ledVars, LedTick
<1>2. ASSUME NEW c \in Coordinators, LedAcquire(c) \/ LedRelease(c) \/ LedCrash(c)
      PROVE  UNCHANGED vars \/ Crash(c)
  BY <1>2 DEF LedAcquire, LedRelease, LedCrash
<1>3. ASSUME NEW c \in Coordinators, LedCall(c) \/ LedWork(c)
      PROVE  Acts(c) /\ Alone(c) /\ (Knows(c) \/ CallRecover(c))
  BY <1>3, ActsAlone
<1> QED
  BY <1>1, <1>2, <1>3, LedDisjuncts

(* A call that returns at once leaves the document as it is.               *)
LEMMA RefusedCall ==
  ASSUME TypeOK, NEW c \in Coordinators, Calls(c), ~InCall(c)'
  PROVE  doc' = doc
<1>1. pc'[c] \in {"idle", "hung"}
  BY DEF InCall
<1>2. ~CallPrepare(c)
  BY <1>1, Moved DEF CallPrepare
<1>3. CASE CallCommit(c)
  <2>1. ~Goto(c, "commit", 1)
    BY <1>1, Moved
  <2> QED
    BY <1>3, <2>1 DEF CallCommit
<1>4. CASE CallAbort(c) \/ CallRecover(c)
  BY <1>4 DEF CallAbort, CallRecover
<1> QED
  BY <1>2, <1>3, <1>4 DEF Calls

(* Whoever knows the transaction after a step knew it before and nobody    *)
(* touched it, or it acted itself.                                         *)
LEMMA KnowledgeStep ==
  ASSUME Guarded, [LedNext]_ledVars, ~strayed',
         NEW d \in Coordinators, Knows(d)'
  PROVE  \/ Knows(d) /\ doc' = doc /\ cached'[d] = cached[d]
         \/ Acts(d) /\ Alone(d) /\ (Knows(d) \/ CallRecover(d))
<1>0. /\ TypeOK /\ LockTypeOK
      /\ fresh \in [Coordinators -> BOOLEAN]
      /\ d \in Owners
      /\ ~strayed /\ ~Astray /\ ~Astray'
  BY SameProcesses, StrayedStep DEF Guarded, LedTypeOK
<1>1. CASE UNCHANGED ledVars
  BY <1>1 DEF ledVars, vars, lockVars, Knows, Leader
<1>2. CASE LedTick
  <2>1. /\ told' = told /\ fresh' = fresh /\ UNCHANGED vars
        /\ until'[d] = Less(until[d]) /\ until[d] \in Nat
    BY <1>0, <1>2, LockAssumption DEF LedTick, Tick, LockTypeOK
  <2> QED
    BY <2>1 DEF Less, Knows, Leader, vars
<1>3. ASSUME NEW c \in Coordinators, LedCall(c) \/ LedWork(c)
      PROVE  \/ Knows(d) /\ doc' = doc /\ cached'[d] = cached[d]
             \/ Acts(d) /\ Alone(d) /\ (Knows(d) \/ CallRecover(d))
  <2>1. Acts(c) /\ Alone(c) /\ Leader(c) /\ (Knows(c) \/ CallRecover(c))
    BY <1>0, <1>3, ActsAlone
  <2>2. UNCHANGED lockVars /\ Leader(d) /\ Leader(d)'
    BY <1>3 DEF LedCall, LedWork, lockVars, Leader, Knows
  <2>3. CASE c = d
    BY <2>1, <2>3
  <2>4. CASE c # d
    <3>1. ~InCall(c) /\ ~InCall(c)'
      BY <1>0, <2>2, <2>4 DEF Astray
    <3>2. Calls(c) /\ (UNCHANGED fresh \/ Learn(c, TRUE))
      BY <1>3, <3>1, WorkIsACall DEF LedCall, LedWork, Calls
    <3>3. doc' = doc /\ cached'[d] = cached[d]
      BY <1>0, <2>1, <2>4, <3>1, <3>2, RefusedCall, CallFrame
    <3>4. fresh'[d] = fresh[d]
      BY <1>0, <2>4, <3>2 DEF Learn
    <3> QED
      BY <2>2, <3>3, <3>4 DEF Knows
  <2> QED
    BY <2>3, <2>4
<1>4. ASSUME NEW c \in Coordinators, LedAcquire(c) \/ LedRelease(c) \/ LedCrash(c)
      PROVE  Knows(d) /\ doc' = doc /\ cached'[d] = cached[d]
  <2>1. CASE c = d
    <3>1. LedAcquire(c) /\ fresh[c] /\ Leader(c)
      BY <1>0, <1>4, <2>1 DEF LedAcquire, LedRelease, LedCrash, Learn, Knows
    <3> QED
      BY <2>1, <3>1 DEF LedAcquire, vars, Knows
  <2>2. CASE c # d
    <3>1. Leader(d) /\ fresh[d]
      BY <1>0, <1>4, <2>2, LockFrame, SameProcesses
         DEF LedAcquire, LedRelease, LedCrash, Learn, Knows
    <3>2. doc' = doc /\ cached'[d] = cached[d]
      <4>1. CASE LedCrash(c)
        BY <1>0, <2>2, <4>1, CallFrame, CrashFrame DEF LedCrash
      <4> QED
        BY <1>4, <4>1 DEF LedAcquire, LedRelease, vars
    <3> QED
      BY <3>1, <3>2 DEF Knows
  <2> QED
    BY <2>1, <2>2
<1> QED
  BY <1>1, <1>2, <1>3, <1>4, LedDisjuncts

-----------------------------------------------------------------------------
(* The document under the lock                                             *)

(* Among any number of processes that take turns under the lock, crash and *)
(* take over, a decided document leaves no participant to be told, until   *)
(* one strays, under the conditions that one process needs for it.         *)
THEOREM LedDecisionIsComplete ==
    ASSUME BegunOnce, "abortRaises" \notin Faults
    PROVE  LedSpec => []LedDecisionReachesAll
<1> DEFINE Inv == Guarded /\ (~strayed => Told)
<1>1. LedInit => Inv
  BY GuardedInit, ToldInit DEF LedInit
<1>2. Inv /\ [LedNext]_ledVars => Inv'
  <2> SUFFICES ASSUME Inv, [LedNext]_ledVars, ~strayed'
               PROVE  Told'
    BY GuardedStep
  <2>1. ~strayed /\ Told
    BY StrayedStep
  <2> QED
    BY <2>1, LedCases, ToldStep, ToldRest
<1>3. Inv => LedDecisionReachesAll
  BY DEF Told, LedDecisionReachesAll
<1> HIDE DEF Inv
<1> QED
  BY <1>1, <1>2, <1>3, PTL DEF LedSpec

(* A process that knows the transaction remembers the decision, if any.    *)
LedSettling ==
    /\ TypeOK
    /\ \A c \in Coordinators : Undecided(c)
    /\ \A c \in Coordinators : Knows(c) => Informed(c)

LEMMA LedSettlingInit == LedInit => LedSettling
BY TypeInit DEF LedInit, Init, LedSettling, Undecided, Informed, Decided

LEMMA LedSettlingStep ==
  ASSUME BegunOnce, "get" \notin Faults, Guarded, LedSettling,
         [LedNext]_ledVars, ~strayed'
  PROVE  LedSettling' /\ Stays
<1> USE DEF LedSettling
<1>0. ~strayed
  BY StrayedStep
<1>1. TypeOK'
  BY LedIsACall, TypeStep
<1>2. (\A c \in Coordinators : Undecided(c)') /\ Stays
  <2>1. CASE UNCHANGED vars
    BY <2>1 DEF vars, Undecided, Decided, Stays
  <2>2. ASSUME NEW c \in Coordinators, Crash(c)
        PROVE  (\A d \in Coordinators : Undecided(d)') /\ Stays
    BY <2>2, CrashFrame, CallFrame DEF Undecided, Decided, Stays
  <2>3. ASSUME NEW c \in Coordinators, Acts(c), Alone(c), Knows(c) \/ CallRecover(c)
        PROVE  (\A d \in Coordinators : Undecided(d)') /\ Stays
    BY <2>3, UndecidedStep
  <2> QED
    BY <1>0, <2>1, <2>2, <2>3, LedCases
<1>3. ASSUME NEW d \in Coordinators, Knows(d)'
      PROVE  Informed(d)'
  <2>1. CASE Knows(d) /\ doc' = doc /\ cached'[d] = cached[d]
    BY <2>1 DEF Informed, Decided
  <2>2. CASE Acts(d) /\ Alone(d) /\ (Knows(d) \/ CallRecover(d))
    BY <2>2, UndecidedStep
  <2> QED
    BY <1>3, <2>1, <2>2, KnowledgeStep
<1> QED
  BY <1>1, <1>2, <1>3

(* A decision is final also among processes that take over from each other *)
(* under the lock, until one strays, if the bucket answers every load.     *)
THEOREM LedDecidedIsFinal ==
    ASSUME BegunOnce, "get" \notin Faults
    PROVE  LedSpec => LedTerminalIsFinal
<1> DEFINE Inv == Guarded /\ (~strayed => LedSettling)
<1>1. LedInit => Inv
  BY GuardedInit, LedSettlingInit
<1>2. Inv /\ [LedNext]_ledVars => Inv'
  BY GuardedStep, LedSettlingStep, StrayedStep
<1>3. Inv /\ [LedNext]_ledVars =>
        [~strayed' /\ doc \in {"COMMITTED", "ABORTED"} =>
           doc' \in {doc, "PREPARING"}]_ledVars
  BY LedSettlingStep, StrayedStep DEF Stays, Decided
<1> HIDE DEF Inv
<1> QED
  BY <1>1, <1>2, <1>3, PTL DEF LedSpec, LedTerminalIsFinal

(* ABORTED means that no participant has committed, whichever process      *)
(* wrote it, until one strays or a commit is broken off.                   *)
THEOREM LedAbortedIsRight ==
    ASSUME ~Reuse, "get" \notin Faults
    PROVE  LedSpec => []LedAbortedMeansNone
<1> DEFINE Inv == Guarded /\ (~strayed => LedSettling /\ Recorded)
<1>1. LedInit => Inv
  BY GuardedInit, LedSettlingInit, RecordedInit DEF LedInit
<1>2. Inv /\ [LedNext]_ledVars => Inv'
  <2> SUFFICES ASSUME Inv, [LedNext]_ledVars, ~strayed'
               PROVE  LedSettling' /\ Recorded'
    BY GuardedStep
  <2>1. ~strayed /\ LedSettling /\ Recorded
    BY StrayedStep
  <2>2. LedSettling'
    BY <2>1, LedSettlingStep DEF BegunOnce
  <2>3. Recorded'
    BY <2>1, LedCases, RecordedStep, RecordedRest DEF LedSettling
  <2> QED
    BY <2>2, <2>3
<1>3. Inv => LedAbortedMeansNone
  BY RecordedIsRight DEF LedAbortedMeansNone
<1> HIDE DEF Inv
<1> QED
  BY <1>1, <1>2, <1>3, PTL DEF LedSpec

-----------------------------------------------------------------------------
(* The participants under the lock                                         *)

(* A process that knows the transaction has in mind what the document says.*)
LedSteady == Steady /\ Unborn /\ \A c \in Coordinators : Knows(c) => InMind(c)

LEMMA LedSteadyInit == LedInit => LedSteady
<1>1. LedInit => Unborn /\ \A c \in Coordinators : InMind(c)
  BY DEF LedInit, Init, Unborn, InMind
<1> QED
  BY <1>1, SteadyInit DEF LedInit, LedSteady

LEMMA LedSteadyStep ==
  ASSUME Faithful, "get" \notin Faults, Guarded, LedSteady,
         [LedNext]_ledVars, ~strayed'
  PROVE  LedSteady'
<1> USE DEF LedSteady
<1>0. "put" \notin Faults /\ TypeOK /\ ~strayed
  BY StrayedStep DEF Faithful, Steady
<1>1. Steady'
  BY <1>0, LedCases, SteadyStep, SteadyRest
<1>2. Unborn'
  BY <1>0, LedIsACall, UnbornStep
<1>3. ASSUME NEW d \in Coordinators, Knows(d)'
      PROVE  InMind(d)'
  <2>1. CASE Knows(d) /\ doc' = doc /\ cached'[d] = cached[d]
    BY <2>1 DEF InMind
  <2>2. CASE Acts(d) /\ Alone(d) /\ (Knows(d) \/ CallRecover(d))
    BY <1>0, <2>2, MindStep
  <2> QED
    BY <1>3, <2>1, <2>2, KnowledgeStep
<1> QED
  BY <1>1, <1>2, <1>3

(* The same of PREPARED, if nothing saved is lost and every load answered. *)
THEOREM LedPreparedMeansAll ==
    ASSUME Faithful, "get" \notin Faults
    PROVE  LedSpec => [](~strayed => PreparedIsUnanimous)
<1> DEFINE Inv == Guarded /\ (~strayed => LedSteady)
<1>1. LedInit => Inv
  BY GuardedInit, LedSteadyInit
<1>2. Inv /\ [LedNext]_ledVars => Inv'
  BY GuardedStep, LedSteadyStep, StrayedStep
<1>3. Inv => (~strayed => PreparedIsUnanimous)
  BY DEF LedSteady, Steady, Unanimous, Ready, PreparedIsUnanimous
<1> HIDE DEF Inv
<1> QED
  BY <1>1, <1>2, <1>3, PTL DEF LedSpec

(* And nobody is told to commit unless it is prepared, whichever process   *)
(* tells it.                                                               *)
THEOREM LedOnlyPreparedCommit ==
    ASSUME Faithful, "get" \notin Faults
    PROVE  LedSpec => [][~strayed' => Asked]_ledVars
<1> DEFINE Inv == Guarded /\ (~strayed => LedSteady)
<1>1. LedInit => Inv
  BY GuardedInit, LedSteadyInit
<1>2. Inv /\ [LedNext]_ledVars => Inv'
  BY GuardedStep, LedSteadyStep, StrayedStep
<1>3. Inv /\ [LedNext]_ledVars => [~strayed' => Asked]_ledVars
  <2> SUFFICES ASSUME Inv, [LedNext]_ledVars, ~strayed'
               PROVE  Asked
    OBVIOUS
  <2>1. ~strayed /\ LedSteady
    BY StrayedStep
  <2>2. CASE UNCHANGED vars
    BY <2>2 DEF vars, Asked
  <2> QED
    BY <2>1, <2>2, LedCases, AskedStep DEF LedSteady
<1> HIDE DEF Inv
<1> QED
  BY <1>1, <1>2, <1>3, PTL DEF LedSpec

-----------------------------------------------------------------------------
(* Atomicity under the lock                                                *)

LedWhole == Guarded /\ (~strayed => LedSteady /\ Whole)

LEMMA LedWholeInit == LedInit => LedWhole
BY GuardedInit, LedSteadyInit, WholeInit DEF LedInit, LedWhole

LEMMA LedWholeStep ==
  ASSUME Faithful, "get" \notin Faults, LedWhole, [LedNext]_ledVars
  PROVE  LedWhole'
<1> SUFFICES ASSUME ~strayed'
             PROVE  LedSteady' /\ Whole'
  BY GuardedStep DEF LedWhole
<1>1. ~strayed /\ LedSteady /\ Whole /\ Guarded
  BY StrayedStep DEF LedWhole
<1>2. LedSteady'
  BY <1>1, LedSteadyStep
<1>3. Whole'
  BY <1>1, LedCases, WholeStep, WholeRest DEF LedSteady, Steady
<1> QED
  BY <1>2, <1>3

(* With several processes under the lock no participant is committed while *)
(* another is aborted, until a process strays or a commit is broken off.   *)
THEOREM LedCommitIsAtomic ==
    ASSUME Faithful, "get" \notin Faults
    PROVE  LedSpec => []LedAtomic
<1>1. LedWhole => LedAtomic
  BY WholeIsAtomic DEF LedWhole, LedAtomic
<1> QED
  BY LedWholeInit, LedWholeStep, <1>1, PTL DEF LedSpec

LEMMA LedAbstractStep ==
  ASSUME Faithful, "get" \notin Faults, LedWhole, [LedNext]_ledVars
  PROVE  [LedAbstract!Next]_<<part, broken \/ strayed>>
<1>0. TypeOK /\ Guarded
  BY DEF LedWhole, Guarded, LedTypeOK
<1>1. CASE broken' \/ strayed'
  <2>1. part' \in [P -> States]
    BY <1>0, LedIsACall, StepTypes
  <2>2. (broken' \/ strayed') = TRUE
    BY <1>1
  <2>3. LedAbstract!Break
    BY <2>1, <2>2 DEF LedAbstract!Break, States
  <2> QED
    BY <2>3 DEF LedAbstract!Next
<1>2. CASE ~(broken' \/ strayed')
  <2>1. ~strayed /\ ~broken
    BY <1>0, <1>2, StrayedStep, LedIsACall, HistoryStep
  <2>2. LedSteady /\ Whole
    BY <2>1 DEF LedWhole
  <2>3. Lawful
    <3>1. CASE UNCHANGED vars
      BY <3>1 DEF vars, Lawful
    <3>2. ASSUME NEW c \in Coordinators, Crash(c)
          PROVE  Lawful
      BY <3>2 DEF Crash, Lawful
    <3>3. ASSUME NEW c \in Coordinators, Acts(c), Alone(c)
          PROVE  Lawful
      BY <1>2, <2>2, <3>3, LawfulStep DEF LedSteady
    <3> QED
      BY <1>0, <2>1, <3>1, <3>2, <3>3, LedCases
  <2>4. (broken' \/ strayed') = (broken \/ strayed)
    BY <1>2, <2>1
  <2>5. CASE part' = part
    BY <2>4, <2>5
  <2>6. ASSUME NEW p \in P,
               Abstract!Prepare(p) \/ Abstract!GiveUp(p) \/ Abstract!Commit(p)
        PROVE  LedAbstract!Next
    <3>1. LedAbstract!Prepare(p) \/ LedAbstract!GiveUp(p) \/ LedAbstract!Commit(p)
      BY <2>6 DEF Abstract!Prepare, Abstract!GiveUp, Abstract!Commit,
         LedAbstract!Prepare, LedAbstract!GiveUp, LedAbstract!Commit
    <3>2. LedAbstract!Keep
      BY <2>1, <2>4 DEF LedAbstract!Keep
    <3> QED
      BY <3>1, <3>2 DEF LedAbstract!Next
  <2> QED
    BY <2>3, <2>5, <2>6 DEF Lawful
<1> QED
  BY <1>1, <1>2

(* And then the coordinators together implement the abstract atomic        *)
(* commitment, as one of them does.                                        *)
THEOREM LedImplementsAtomicCommit ==
    ASSUME Faithful, "get" \notin Faults
    PROVE  LedSpec => LedAtomicCommit
<1>1. LedInit => LedAbstract!Init
  <2> SUFFICES ASSUME LedInit PROVE LedAbstract!Init
    OBVIOUS
  <2>1. (broken \/ strayed) = FALSE
    BY DEF LedInit, Init
  <2> QED
    BY <2>1 DEF LedInit, Init, LedAbstract!Init
<1> QED
  BY <1>1, LedWholeInit, LedWholeStep, LedAbstractStep, PTL
     DEF LedSpec, LedAtomicCommit, LedAbstract!Spec

=============================================================================
