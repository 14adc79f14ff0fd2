--------------------------- MODULE ResumableWrite ---------------------------
(***************************************************************************)
(* What a checkpointed write promises its caller, without invocations,     *)
(* watchdog, rollback or storage: records become visible, some of them may *)
(* be taken back, but never one below the offset from which the job would  *)
(* resume and, once success was reported, never one at all; and success is *)
(* reported only when every record is visible.                             *)
(***************************************************************************)
EXTENDS Naturals

CONSTANT Total

VARIABLES
    visible,  \* the records a reader of the table sees
    claim,    \* a retry would start at or below this record
    done      \* success has been reported

vars == <<visible, claim, done>>

Below(o) == {r \in 0..Total : r < o}

Init == visible = {} /\ claim = 0 /\ done = FALSE

Append ==
    /\ visible \subseteq visible'
    /\ visible' \subseteq Below(Total)
    /\ UNCHANGED <<claim, done>>

Retract ==
    /\ visible' \subseteq visible
    /\ Below(claim) \subseteq visible'
    /\ ~done
    /\ UNCHANGED <<claim, done>>

Claim ==
    /\ claim' \in 0..Total
    /\ Below(claim') \subseteq visible
    /\ UNCHANGED <<visible, done>>

Finish ==
    /\ visible = Below(Total)
    /\ done' = TRUE
    /\ UNCHANGED <<visible, claim>>

Next == Append \/ Retract \/ Claim \/ Finish

Spec == Init /\ [][Next]_vars

=============================================================================
