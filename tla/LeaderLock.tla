---------------------------- MODULE LeaderLock ----------------------------
(***************************************************************************)
(* S3LeaderLock of src/iceguard/coordinator_leader.py.  The processes of   *)
(* Owners share one S3 object that names an owner and the end of its       *)
(* lease.  acquire() reads it, refuses while another owner's lease runs,   *)
(* renews the caller's own without reading it back, and else writes the    *)
(* caller's name and reads it back.  release() reads the owner and then    *)
(* deletes what is there by then.                                          *)
(*                                                                         *)
(* Time is counted down, not up: `left' and `until' are the ticks to the   *)
(* end of a lease.  The clock acquire() compares with is read just before  *)
(* the object is, which can only refuse a lease that has just run out.     *)
(***************************************************************************)
EXTENDS Integers

CONSTANTS
    Owners,
    Lease,       \* ticks of a lease, lease_seconds
    LockFaults   \* what may go wrong, see LockFaultKinds

LockFaultKinds ==
    {"lockPut",     \* writing the lease raises, before or after it is stored
     "lockGet",     \* reading back, or reading to release, finds nothing
     "lockBlind",   \* so does the first read of acquire(), as load_document
                    \* turns a failure into no document; a reader whose clock
                    \* is ahead takes a running lease for expired likewise
     "lockDelete",  \* the deletion fails; it is logged
     "lockCrash"}   \* an owner's process dies

ASSUME LockAssumption ==
    /\ "nobody" \notin Owners
    /\ Lease \in Nat \ {0}
    /\ LockFaults \subseteq LockFaultKinds

VARIABLES
    lease,  \* the object: its owner and the ticks left, or NoLease
    lpc,    \* where each owner is in acquire() or release()
    told,   \* acquire() last returned True and release() was not called since
    until,  \* ticks left of the lease each owner has been told it holds
    raced   \* history: somebody has come to believe in its lease while another
            \* was between reading the object and writing or deleting it

lockVars == <<lease, lpc, told, until, raced>>

NoLease == [owner |-> "nobody", left |-> 0]

LockTypeOK ==
    /\ lease \in [owner : Owners, left : 0..Lease] \cup {NoLease}
    /\ lpc \in [Owners -> {"out", "renew", "write", "verify", "delete"}]
    /\ told \in [Owners -> BOOLEAN]
    /\ until \in [Owners -> 0..Lease]
    /\ raced \in BOOLEAN

LockInit ==
    /\ lease = NoLease
    /\ lpc = [o \in Owners |-> "out"]
    /\ told = [o \in Owners |-> FALSE]
    /\ until = [o \in Owners |-> 0]
    /\ raced = FALSE

Leader(o) == told[o] /\ until[o] > 0

LockMay(fault) == fault \in LockFaults

(* An acquire() that reads the object at all reads what is there.          *)
Sighted == "lockBlind" \notin LockFaults

LockGoto(o, label) == lpc' = [lpc EXCEPT ![o] = label]

(* Nobody else is about to act upon an object read before.                 *)
Quiet(o) == \A q \in Owners \ {o} : lpc[q] \notin {"renew", "write", "delete"}

(* acquire() returns True, whoever else is about to write or delete.       *)
Believe(o) ==
    /\ told' = [told EXCEPT ![o] = TRUE]
    /\ raced' = (raced \/ ~Quiet(o))
    /\ LockGoto(o, "out")

Disbelieve(o) == told' = [told EXCEPT ![o] = FALSE]

-----------------------------------------------------------------------------
(* acquire() and renew()                                                   *)

(* Another owner's lease has not expired.                                  *)
Running(seen, o) == seen.owner # o /\ seen.left > 0

(* What the first read may show.                                           *)
Readings == {lease} \cup (IF LockMay("lockBlind") THEN {NoLease} ELSE {})

AcquireRefused(o) ==
    /\ lpc[o] = "out"
    /\ Running(lease, o)
    /\ Disbelieve(o)
    /\ UNCHANGED <<lease, lpc, until, raced>>

AcquireRead(o) ==
    /\ lpc[o] = "out"
    /\ \E seen \in Readings :
         /\ ~Running(seen, o)
         /\ LockGoto(o, IF seen.owner = o THEN "renew" ELSE "write")
    /\ UNCHANGED <<lease, told, until, raced>>

WriteLease(o) == lease' = [owner |-> o, left |-> Lease]

(* The caller's own lease is renewed, and believed without another look.   *)
Renew(o) ==
    /\ lpc[o] = "renew"
    /\ WriteLease(o)
    /\ until' = [until EXCEPT ![o] = Lease]
    /\ Believe(o)

(* The caller is told nothing before the lease has been read back.         *)
Write(o) ==
    /\ lpc[o] = "write"
    /\ WriteLease(o)
    /\ until' = [until EXCEPT ![o] = Lease]
    /\ Disbelieve(o)
    /\ LockGoto(o, "verify")
    /\ UNCHANGED raced

(* The exception reaches the caller, who is no leader then.                *)
WriteRaises(o) ==
    /\ lpc[o] \in {"renew", "write"}
    /\ LockMay("lockPut")
    /\ WriteLease(o) \/ UNCHANGED lease
    /\ Disbelieve(o)
    /\ LockGoto(o, "out")
    /\ UNCHANGED <<until, raced>>

(* mutant: any lease read back will do *)
ReadsAny(o) == lease # NoLease

ReadsOwn(o) == lease.owner = o

Verify(o) ==
    /\ lpc[o] = "verify"
    /\ ReadsOwn(o)
    /\ Believe(o)
    /\ UNCHANGED <<lease, until>>

VerifyRefused(o) ==
    /\ lpc[o] = "verify"
    /\ ~ReadsOwn(o) \/ LockMay("lockGet")
    /\ LockGoto(o, "out")
    /\ UNCHANGED <<lease, told, until, raced>>

-----------------------------------------------------------------------------
(* release()                                                               *)

(* mutant: whoever calls release() deletes the lease *)
AnyLease(o) == lease # NoLease

OwnLease(o) == lease.owner = o

ReleaseRead(o) ==
    /\ lpc[o] = "out"
    /\ Disbelieve(o)
    /\ \/ OwnLease(o) /\ LockGoto(o, "delete")
       \/ (~OwnLease(o) \/ LockMay("lockGet")) /\ UNCHANGED lpc
    /\ UNCHANGED <<lease, until, raced>>

Delete(o) ==
    /\ lpc[o] = "delete"
    /\ lease' = NoLease \/ (LockMay("lockDelete") /\ UNCHANGED lease)
    /\ LockGoto(o, "out")
    /\ UNCHANGED <<told, until, raced>>

-----------------------------------------------------------------------------
(* The processes and the clock                                             *)

LockCrash(o) ==
    /\ LockMay("lockCrash")
    /\ Disbelieve(o)
    /\ LockGoto(o, "out")
    /\ until' = [until EXCEPT ![o] = 0]
    /\ UNCHANGED <<lease, raced>>

Less(n) == IF n > 0 THEN n - 1 ELSE 0

Tick ==
    /\ lease' = [lease EXCEPT !.left = Less(@)]
    /\ until' = [o \in Owners |-> Less(until[o])]
    /\ UNCHANGED <<lpc, told, raced>>

Acquire(o) ==
    \/ AcquireRefused(o) \/ AcquireRead(o) \/ Renew(o) \/ Write(o)
    \/ WriteRaises(o) \/ Verify(o) \/ VerifyRefused(o)

Release(o) == ReleaseRead(o) \/ Delete(o)

LockNext == Tick \/ \E o \in Owners : Acquire(o) \/ Release(o) \/ LockCrash(o)

LockSpec == LockInit /\ [][LockNext]_lockVars

-----------------------------------------------------------------------------
(* Properties                                                              *)

(* At most one process may take itself for the leader: the one acquire()   *)
(* returned True to and whose lease has not run out.  The code does not    *)
(* ensure it: a put that is not conditional on what was read may come      *)
(* after another process has read back its own.                            *)
OneLeader == \A o, q \in Owners : Leader(o) /\ Leader(q) => o = q

(* That race is the only way to two leaders: with nobody having come to    *)
(* believe in its lease between another one's reading and writing, failed  *)
(* and repeated calls, lost answers, expiry and crashes make no second     *)
(* one.                                                                    *)
OneLeaderUnlessRaced == ~raced => OneLeader

(* The object names o at least as long as o takes itself for the leader.   *)
Named(o) == lease.owner = o /\ lease.left >= until[o]

(* Once a leader is named and nobody is about to act upon an older state   *)
(* of the object, nobody takes its lease away before it runs out, whatever *)
(* is called, fails or dies: with no assumption on the speed of anybody,   *)
(* but that no first read fails (Sighted).                                 *)
LeaderIsStable ==
    [][\A o \in Owners :
         Leader(o) /\ Named(o) /\ Quiet(o) /\ Leader(o)' =>
           Named(o)' /\ Quiet(o)']_lockVars

=============================================================================
