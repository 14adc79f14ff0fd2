-------------------------- MODULE MCLedCoordinator --------------------------
(* Instances of LedCoordinator for TLC. *)
EXTENDS LedCoordinator, TLC

CONSTANTS c1, c2

Two == {c1, c2}

(* Anything a participant or the bucket may do to a process that leads.    *)
LedFaults ==
    {"crash", "put", "garble", "slowVote", "voteRaises", "slowCommit",
     "commitRaises", "commitBreaks", "hang"}

(* Anything but a first read that fails.                                   *)
SightedFaults == LockFaultKinds \ {"lockBlind"}

AnyOrder == Permutations(Two)

(* Bound: what the properties say ends once a process has strayed, and the *)
(* lock goes on without a call as it does with one.                        *)
NoneStrayed == ~strayed
=============================================================================
