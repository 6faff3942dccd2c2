------------------------------- MODULE MCZone -------------------------------
(* A zone with room for a few lumps. *)
EXTENDS Zone

CONSTANTS l1, l2, l3, h1

MCLumpSize == [l \in Lump |-> IF l = l1 THEN 1 ELSE IF l = l2 THEN 2 ELSE 3]
=============================================================================
