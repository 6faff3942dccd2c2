----------------------------- MODULE MCRottSync -----------------------------
(***************************************************************************)
(* Instances of RottSync for TLC.                                          *)
(***************************************************************************)
EXTENDS RottSyncInv

\* The clock of a client is behind at first.
Offsets == {-2}

ASSUME SyncAssumption == NetworkAssumption /\ StartsFit /\ TimeEnough
=============================================================================
