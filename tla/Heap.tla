-------------------------------- MODULE Heap --------------------------------
(* What the zone promises: the blocks it hands out lie in the zone and never
   overlap, stay where they are, and change by a call only: a block is handed
   out, given back (or purged), or gets another tag.                          *)
EXTENDS Integers

CONSTANTS Lump, Tag, PU_PURGELEVEL, ZoneSize

VARIABLE live   \* the blocks in use

Block == [owner : Lump \cup {"unowned"}, at : 1 .. ZoneSize, size : 1 .. ZoneSize, tag : Tag]

Apart(r, s) == r.at + r.size <= s.at \/ s.at + s.size <= r.at

Init == live = {}

\* An owner has one block at a time, and a purgable block has an owner.
Allocate(r) ==
    /\ r.at + r.size <= ZoneSize + 1
    /\ \A s \in live : Apart(r, s)
    /\ r.owner = "unowned" => r.tag < PU_PURGELEVEL
    /\ r.owner \in Lump => \A s \in live : s.owner # r.owner
    /\ live' = live \cup {r}

Release(r) == live' = live \ {r}

Retag(r, t) ==
    /\ r.owner \in Lump
    /\ live' = (live \ {r}) \cup {[r EXCEPT !.tag = t]}

Next ==
    \/ \E r \in live' \cap Block : Allocate(r)
    \/ \E r \in live : Release(r) \/ \E t \in Tag : Retag(r, t)

Spec == Init /\ [][Next]_live
=============================================================================
