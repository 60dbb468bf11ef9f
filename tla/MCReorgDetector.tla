-------------------------- MODULE MCReorgDetector --------------------------
(* Small chains for the reorg detector. *)
EXTENDS ReorgDetector

BusyGap == {1, 2, 4}
=============================================================================
