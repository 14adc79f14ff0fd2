--------------------------- MODULE LedCoordinator ---------------------------
(***************************************************************************)
(* The coordinators of one transaction under the leader lock: Coordinator  *)
(* and LeaderLock composed.  The code leaves their use to its caller; this *)
(* is the use the two make possible.  A process calls the coordinator only *)
(* while it takes itself for the leader, it recovers the document before   *)
(* anything else when it has led without interruption no longer, and it    *)
(* releases the lock only between calls.                                   *)
(*                                                                         *)
(* Nothing keeps a process from being in a call without being the only     *)
(* leader: the lock lets two processes race, and a call may take longer    *)
(* than the lease (by default a participant has 60 s, the lease 30 s).     *)
(* `strayed' remembers that this has happened.  The properties say what    *)
(* holds as long as it has not.                                            *)
(***************************************************************************)
EXTENDS Coordinator, LeaderLock

ASSUME SameProcesses == Owners = Coordinators

VARIABLES
    fresh,   \* what each process knows of the transaction is up to date
    strayed  \* history: a process has been in a call while it was no leader
             \* any more, or another one was one too

ledVars == <<vars, lockVars, fresh, strayed>>

LedTypeOK ==
    /\ TypeOK
    /\ LockTypeOK
    /\ fresh \in [Coordinators -> BOOLEAN]
    /\ strayed \in BOOLEAN

LedInit ==
    /\ Init
    /\ LockInit
    /\ fresh = [c \in Coordinators |-> FALSE]
    /\ strayed = FALSE

Learn(c, known) == fresh' = [fresh EXCEPT ![c] = known]

InCall(c) == pc[c] \notin {"idle", "hung"}

(* A call goes on outside the lease, or under two of them.                 *)
Astray ==
    \E c \in Coordinators :
       InCall(c) /\ (~Leader(c) \/ \E d \in Coordinators \ {c} : Leader(d))

LedCall(c) ==
    /\ Leader(c)
    /\ lpc[c] = "out"
    /\ \/ fresh[c] /\ (CallPrepare(c) \/ CallCommit(c) \/ CallAbort(c))
          /\ UNCHANGED fresh
       \/ CallRecover(c) /\ Learn(c, TRUE)
    /\ UNCHANGED lockVars

LedWork(c) ==
    /\ Work(c) \/ Hang(c)
    /\ UNCHANGED <<lockVars, fresh>>

(* What was known is up to date only if the lease was held without break.  *)
LedAcquire(c) ==
    /\ pc[c] = "idle"
    /\ Acquire(c)
    /\ Learn(c, fresh[c] /\ Leader(c))
    /\ UNCHANGED vars

LedRelease(c) ==
    /\ pc[c] = "idle"
    /\ Release(c)
    /\ Learn(c, FALSE)
    /\ UNCHANGED vars

LedCrash(c) ==
    /\ Crash(c)
    /\ LockCrash(c)
    /\ Learn(c, FALSE)

LedTick == Tick /\ UNCHANGED <<vars, fresh>>

LedStep ==
    \/ LedTick
    \/ \E c \in Coordinators :
         \/ LedCall(c) \/ LedWork(c)
         \/ LedAcquire(c) \/ LedRelease(c) \/ LedCrash(c)

LedNext == LedStep /\ strayed' = (strayed \/ Astray')

LedSpec == LedInit /\ [][LedNext]_ledVars

-----------------------------------------------------------------------------
(* Properties                                                              *)

(* Among processes that take over from each other, by release, by expiry   *)
(* and after a death in the middle of a call, a decided document leaves no *)
(* participant to be told (coordinator.py), as long as none has strayed.   *)
LedDecisionReachesAll == ~strayed => DecisionReachesAll

(* Nor does one process write ABORTED for what another one has committed.  *)
LedAbortedMeansNone == ~strayed => AbortedMeansNone

(* Nor does a process that takes over move a decided document on.          *)
LedTerminalIsFinal ==
    [][~strayed' /\ doc \in {"COMMITTED", "ABORTED"} =>
         doc' \in {doc, "PREPARING"}]_ledVars

(* Atomicity, and the abstract commitment, which promises nothing of       *)
(* processes that have strayed.                                            *)
LedAtomic == ~strayed => AtomicUnlessBroken

LedAbstract == INSTANCE AtomicCommit WITH broken <- broken \/ strayed

LedAtomicCommit == LedAbstract!Spec

=============================================================================
