---------------------------- MODULE AtomicCommit ----------------------------
(***************************************************************************)
(* What a coordinated write promises, without a coordinator: participants  *)
(* prepare on their own, also again after giving up; one may give up while *)
(* none has committed, and one commits only when every one has prepared    *)
(* and none has given up.  Nothing is promised once a commit that had      *)
(* begun is broken off.                                                    *)
(***************************************************************************)
CONSTANT P

VARIABLES
    part,    \* the state of every participant
    broken   \* a commit was broken off

Init ==
    /\ part = [p \in P |-> "idle"]
    /\ broken = FALSE

Prepare(p) ==
    /\ part[p] \in {"idle", "aborted"}
    /\ \A q \in P : part[q] # "committed"
    /\ part' = [part EXCEPT ![p] = "prepared"]

GiveUp(p) ==
    /\ part[p] \in {"idle", "prepared"}
    /\ \A q \in P : part[q] # "committed"
    /\ part' = [part EXCEPT ![p] = "aborted"]

Commit(p) ==
    /\ part[p] = "prepared"
    /\ \A q \in P : part[q] \in {"prepared", "committed"}
    /\ part' = [part EXCEPT ![p] = "committed"]

Keep == ~broken /\ UNCHANGED broken

Break ==
    /\ broken' = TRUE
    /\ part' \in [P -> {"idle", "prepared", "committed", "aborted"}]

Next ==
    \/ Keep /\ \E p \in P : Prepare(p) \/ GiveUp(p) \/ Commit(p)
    \/ Break

Spec == Init /\ [][Next]_<<part, broken>>
=============================================================================
