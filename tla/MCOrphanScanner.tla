-------------------------- MODULE MCOrphanScanner --------------------------
(* Instances of OrphanScanner for TLC. *)
EXTENDS OrphanScanner

OnlyDelete == {"delete"}
NoFaults == {}
=============================================================================
