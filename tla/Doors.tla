------------------------------- MODULE Doors -------------------------------
(* The doors of a level (rott/rt_door.c) and the areas they connect.

   A door slides between position 0 (shut) and Steps (open); the areas on its
   two sides are connected from its first step out of position 0 to its last
   step back.  A door opens and closes with the contiguous DF_MULTI doors of
   its doorway (UtilizeDoor), here the set Group[d].  The doors are a function
   of records; the operators take the doors before a call and give the doors
   after it, so that a handler that makes several calls composes them.        *)
EXTENDS Integers, FiniteSets

CONSTANTS
    NumActors,   \* actors of the active list, in its order
    Area,        \* area numbers of the map
    NumDoors,    \* doornum
    Group,       \* Group[d]: the doors UtilizeDoor(d, ...) applies an action to
    Side,        \* Side[d]: the two areas at the sides of door d
    Timed,       \* doors with DF_TIMED: a clock closes them, not DoorOpen
    Steps,       \* steps of a door from shut to open: 0xffff / (1 << 12)
    OPENTICS,    \* tics after which an open door tries to close
    ByteSize     \* values of a cell of areaconnect, a byte

Actor == 1 .. NumActors
Door == 1 .. NumDoors
NoDoor == 0

\* What actorat holds for a tile that no actor has.
Null == 0
DoorThing == -1

Pair == {pr \in SUBSET Area : Cardinality(pr) = 2}

ASSUME DoorAssumption ==
    /\ NumActors \in Nat /\ NumDoors \in Nat /\ Steps \in Nat \ {0} /\ OPENTICS \in Nat
    /\ ByteSize \in Nat \ {0}
    /\ Group \in [Door -> SUBSET Door]
    /\ \A d \in Door : d \in Group[d]
    /\ Side \in [Door -> Pair]
    /\ Timed \subseteq Door
    /\ IsFiniteSet(Area)

VARIABLES
    doors,       \* doorobjlist: action, position, ticcount, DF_ELEVLOCKED, and
                 \* the entry of actorat for the door's tile
    areaconnect  \* how many ways connect two areas, modulo ByteSize

DoorState == [action : {"open", "closed", "opening", "closing"},
              position : 0 .. Steps, ticcount : 0 .. OPENTICS,
              elevlocked : BOOLEAN, at : Actor \cup {DoorThing, Null}]

\* SpawnDoor: shut, and the tile is solid.  SetupElevators locks door2.
ShutDoor == [action |-> "closed", position |-> 0, ticcount |-> 0,
             elevlocked |-> FALSE, at |-> DoorThing]

DoorReadyToCloseAlone(ds, d) ==                          \* mutant of DoorReadyToClose
    ds[d].action = "closed" \/ ds[d].at \notin Actor
\* DoorReadyToClose: no actor is in the doorway.  A shut door is always ready.
DoorReadyToClose(ds, d) ==
    ds[d].action = "closed" \/ \A g \in Group[d] : ds[g].at \notin Actor

\* OpenDoor on every door of S.
OpenDoor(ds, S) ==
    [d \in Door |->
        IF d \notin S THEN ds[d]
        ELSE IF ds[d].action = "open" THEN [ds[d] EXCEPT !.ticcount = 0]
        ELSE [ds[d] EXCEPT !.action = "opening"]]

\* CloseDoor on every door of S: the tile is solid from now on.
CloseDoor(ds, S) ==
    [d \in Door |->
        IF d \in S /\ ds[d].action # "closed"
        THEN [ds[d] EXCEPT !.action = "closing", !.at = DoorThing]
        ELSE ds[d]]

LinkedOpenDoor(ds, d) == OpenDoor(ds, Group[d])

LinkedCloseDoor(ds, d) ==
    IF DoorReadyToClose(ds, d) THEN CloseDoor(ds, Group[d]) ELSE ds

UseDoor(ds, d) ==
    IF ds[d].action \in {"closing", "closed"}
    THEN LinkedOpenDoor(ds, d) ELSE LinkedCloseDoor(ds, d)

\* OperateDoor: a locked door stays as it is.
OperateDoor(ds, d, haskey) ==
    IF ds[d].elevlocked \/ ~haskey THEN ds ELSE UseDoor(ds, d)

\* DoorOpen: after OPENTICS the door closes when its doorway is free.
DoorOpen(ds, d) ==
    LET tc == IF ds[d].ticcount < OPENTICS THEN ds[d].ticcount + 1 ELSE OPENTICS
        counted == [ds EXCEPT ![d].ticcount = tc]
    IN IF tc = OPENTICS /\ d \notin Timed
       THEN LinkedCloseDoor(counted, d) ELSE counted

\* DoorOpening: one step; fully open, the tile is free again.
DoorOpening(ds, d) ==
    LET pos == ds[d].position + 1 IN
    IF pos < Steps THEN [ds EXCEPT ![d].position = pos]
    ELSE [ds EXCEPT ![d] = [ds[d] EXCEPT
                                !.position = Steps, !.ticcount = 0, !.action = "open",
                                !.at = IF @ = DoorThing THEN Null ELSE @]]

DoorClosingEarly(ds, d) ==                               \* mutant of DoorClosing
    LET pos == ds[d].position - 1 IN
    IF pos > 1 THEN [ds EXCEPT ![d].position = pos]
    ELSE [ds EXCEPT ![d].position = 0, ![d].action = "closed"]
\* DoorClosing: one step back, or shut.
DoorClosing(ds, d) ==
    LET pos == ds[d].position - 1 IN
    IF pos > 0 THEN [ds EXCEPT ![d].position = pos]
    ELSE [ds EXCEPT ![d].position = 0, ![d].action = "closed"]

\* areaconnect[a][b]++ and areaconnect[b][a]++, and the opposite.
Connect(ac, pr) == [ac EXCEPT ![pr] = (@ + 1) % ByteSize]
Disconnect(ac, pr) == [ac EXCEPT ![pr] = (@ + ByteSize - 1) % ByteSize]

\* RecursiveConnect: what is connected with the areas of S.
ConnectedWith(ac, S) ==
    LET Spread[n \in 0 .. Cardinality(Area)] ==
            IF n = 0 THEN S
            ELSE LET found == Spread[n - 1] IN
                 found \cup {a \in Area : \E b \in found : a # b /\ ac[{a, b}] > 0}
    IN Spread[Cardinality(Area)]
=============================================================================
