--------------------------- MODULE MCFixupBuffers ---------------------------
(***************************************************************************)
(* Instances of FixupBuffers for TLC.                                      *)
(***************************************************************************)
EXTENDS FixupBuffers
=============================================================================
