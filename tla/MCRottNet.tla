------------------------------ MODULE MCRottNet ------------------------------
(***************************************************************************)
(* Instances of RottNet for TLC: players are model values.                 *)
(***************************************************************************)
EXTENDS RottNetFresh

CONSTANTS p0, p1, p2
=============================================================================
