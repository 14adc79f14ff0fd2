---------------------------- MODULE MCSafeWriter ----------------------------
(* Instances of SafeWriter for TLC. *)
EXTENDS SafeWriter

(* Everything but the loss of a checkpoint write and other writers.        *)
SavesLand == FaultKinds \ {"put", "mirror", "foreign"}

(* What can go wrong without leaving a file behind: no crash, and every    *)
(* file of a rollback is deleted.                                          *)
Tidy == {"put", "mirror", "del", "clock", "schema", "foreign"}

AnyKeying == BOOLEAN
OnlyKeyed == {TRUE}

NoFaults == {}
OnlyPut == {"put"}
=============================================================================
