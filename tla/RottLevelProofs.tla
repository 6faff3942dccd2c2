-------------------------- MODULE RottLevelProofs --------------------------
(***************************************************************************)
(* Theorems about RottLevel.  An elevator is where everybody takes it to   *)
(* be, and a door closes on nobody, in every level that is WellBuilt: for  *)
(* any doors, doorways, elevators, push walls, plates, players and enemies.*)
(* LevelInv is shown to be inductive, a loop of the tic after the other.   *)
(***************************************************************************)
EXTENDS RottLevelInv, TLAPS, FiniteSetTheorems, NaturalsInduction, WellFoundedInduction

-----------------------------------------------------------------------------
(* Loops: what a recursive function yields                                 *)

\* Induction, for a set.
LEMMA SetInduction ==
    ASSUME NEW S, 0 \in S, \A n \in Nat : n \in S => n + 1 \in S
    PROVE  Nat \subseteq S
<1> DEFINE T == Nat \ S
<1> SUFFICES ASSUME T # {}
             PROVE  FALSE
  OBVIOUS
<1>1. T \subseteq Nat
  OBVIOUS
<1>2. PICK n \in T : \A k \in T : ~ <<k, n>> \in OpToRel(<, Nat)
  <2> HIDE DEF T
  <2> QED
    BY <1>1, NatLessThanWellFounded, WFMin
<1>3. \A k \in T : ~ k < n
  BY <1>1, <1>2 DEF OpToRel
<1>4. n # 0 /\ n \in Nat /\ n \notin S
  OBVIOUS
<1>5. n - 1 \in Nat /\ n - 1 < n /\ (n - 1) + 1 = n
  BY <1>4
<1>6. n - 1 \in T
  BY <1>4, <1>5
<1> QED
  BY <1>3, <1>5, <1>6

\* A loop whose body takes M to M has a run.
Runs(run, n, start, body) ==
    run = [k \in 0 .. n |-> IF k = 0 THEN start ELSE body[<<k, run[k - 1]>>]]

LEMMA LoopRuns ==
    ASSUME NEW n \in Nat, NEW M, NEW start \in M, NEW body \in [(1 .. n) \X M -> M]
    PROVE  \E run \in [0 .. n -> M] : Runs(run, n, start, body)
<1> DEFINE UpTo(m, run) ==
               /\ run \in [0 .. m -> M]
               /\ run[0] = start
               /\ \A k \in 1 .. m : run[k] = body[<<k, run[k - 1]>>]
           S == {m \in Nat : m <= n => \E run : UpTo(m, run)}
<1>1. 0 \in S
  <2>1. UpTo(0, [k \in 0 .. 0 |-> start])
    OBVIOUS
  <2> QED
    BY <2>1
<1>2. ASSUME NEW m \in Nat, m \in S
      PROVE  m + 1 \in S
  <2> SUFFICES ASSUME m + 1 <= n
               PROVE  \E run : UpTo(m + 1, run)
    OBVIOUS
  <2>1. PICK run : UpTo(m, run)
    BY <1>2
  <2>2. run[m] \in M /\ m + 1 \in 1 .. n
    BY <2>1
  <2> DEFINE longer == [k \in 0 .. m + 1 |-> IF k <= m THEN run[k] ELSE body[<<m + 1, run[m]>>]]
  <2>3. body[<<m + 1, run[m]>>] \in M
    BY <2>2
  <2>4. longer \in [0 .. m + 1 -> M]
    BY <2>1, <2>3
  <2>5. longer[0] = start
    BY <2>1
  <2>6. ASSUME NEW k \in 1 .. m + 1
        PROVE  longer[k] = body[<<k, longer[k - 1]>>]
    <3>1. k \in 0 .. m + 1 /\ k - 1 \in 0 .. m + 1 /\ k - 1 <= m /\ (k <= m \/ k = m + 1)
      OBVIOUS
    <3>2. longer[k - 1] = run[k - 1]
      BY <3>1
    <3>3. CASE k <= m
      BY <2>1, <3>1, <3>2, <3>3
    <3>4. CASE k = m + 1
      BY <3>1, <3>2, <3>4
    <3> QED
      BY <3>1, <3>3, <3>4
  <2> HIDE DEF longer
  <2> QED
    BY <2>4, <2>5, <2>6
<1>3. n \in S
  <2> HIDE DEF S
  <2> QED
    BY <1>1, <1>2, SetInduction
<1>4. PICK run : UpTo(n, run)
  BY <1>3
<1>5. run = [k \in 0 .. n |-> IF k = 0 THEN start ELSE body[<<k, run[k - 1]>>]]
  <2>1. \A k \in 0 .. n : run[k] = IF k = 0 THEN start ELSE body[<<k, run[k - 1]>>]
    BY <1>4
  <2> QED
    BY <1>4, <2>1
<1> QED
  BY <1>4, <1>5 DEF Runs

\* Every run of it stays in M.
LEMMA LoopStays ==
    ASSUME NEW n \in Nat, NEW M, NEW run, DOMAIN run = 0 .. n, run[0] \in M,
           \A k \in 1 .. n : run[k - 1] \in M => run[k] \in M
    PROVE  run[n] \in M
<1> DEFINE S == {m \in Nat : m <= n => run[m] \in M}
<1>1. 0 \in S
  OBVIOUS
<1>2. ASSUME NEW m \in Nat, m \in S
      PROVE  m + 1 \in S
  <2> SUFFICES ASSUME m + 1 <= n
               PROVE  run[m + 1] \in M
    OBVIOUS
  <2>1. m + 1 \in 1 .. n /\ (m + 1) - 1 = m /\ run[m] \in M
    BY <1>2
  <2> QED
    BY <2>1
<1> HIDE DEF S
<1>3. n \in S
  BY <1>1, <1>2, SetInduction
<1> QED
  BY <1>3 DEF S

\* RecursiveConnect, a round at a time.
More(ac, found) == found \cup {a \in Area : \E b \in found : a # b /\ ac[{a, b}] > 0}
IsSpread(run, ac, S) ==
    /\ DOMAIN run = 0 .. Cardinality(Area)
    /\ run[0] = S
    /\ \A k \in 1 .. Cardinality(Area) : run[k] = More(ac, run[k - 1])
    /\ ConnectedWith(ac, S) = run[Cardinality(Area)]

LEMMA ConnectedRun ==
    ASSUME NEW ac, NEW S \in SUBSET Area
    PROVE  Cardinality(Area) \in Nat /\ \E run : IsSpread(run, ac, S)
<1> DEFINE n == Cardinality(Area)
           Eq(f) == f = [k \in 0 .. n |-> IF k = 0 THEN S ELSE More(ac, f[k - 1])]
           Spread == CHOOSE f : Eq(f)
<1>1. ConnectedWith(ac, S) = Spread[n]
  BY DEF ConnectedWith, More
<1>2. n \in Nat
  BY DoorAssumption, FS_CardinalityType
<1>3. \A found \in SUBSET Area : More(ac, found) \in SUBSET Area
  BY DEF More
<1> HIDE DEF n
<1>4. \E f : Eq(f)
  <2> DEFINE body == [x \in (1 .. n) \X SUBSET Area |-> More(ac, x[2])]
  <2>1. body \in [(1 .. n) \X SUBSET Area -> SUBSET Area]
    BY <1>3
  <2>2. PICK run \in [0 .. n -> SUBSET Area] : Runs(run, n, S, body)
    <3> HIDE DEF body
    <3> QED
      BY <1>2, <2>1, LoopRuns
  <2>3. \A k \in 0 .. n : k # 0 => body[<<k, run[k - 1]>>] = More(ac, run[k - 1])
    <3> SUFFICES ASSUME NEW k \in 0 .. n, k # 0
                 PROVE  body[<<k, run[k - 1]>>] = More(ac, run[k - 1])
      OBVIOUS
    <3>1. k \in 1 .. n /\ k - 1 \in 0 .. n
      BY <1>2
    <3>2. <<k, run[k - 1]>> \in (1 .. n) \X SUBSET Area
      BY <3>1
    <3> QED
      BY <3>2
  <2>4. \A k \in 0 .. n : run[k] = IF k = 0 THEN S ELSE body[<<k, run[k - 1]>>]
    BY <2>2 DEF Runs
  <2> HIDE DEF body
  <2>5. \A k \in 0 .. n : run[k] = IF k = 0 THEN S ELSE More(ac, run[k - 1])
    BY <2>3, <2>4
  <2>6. Eq(run)
    BY <2>5
  <2> QED
    BY <2>6
<1>5. Eq(Spread)
  BY <1>4
<1> HIDE DEF Spread
<1>6. /\ DOMAIN Spread = 0 .. n
      /\ \A k \in 0 .. n : Spread[k] = IF k = 0 THEN S ELSE More(ac, Spread[k - 1])
  BY <1>5
<1>7. Spread[0] = S /\ \A k \in 1 .. n : Spread[k] = More(ac, Spread[k - 1])
  BY <1>2, <1>6
<1>8. IsSpread(Spread, ac, S)
  BY <1>1, <1>6, <1>7 DEF IsSpread, n
<1> QED
  BY <1>2, <1>8 DEF n

\* It finds areas.
LEMMA ConnectedType ==
    ASSUME NEW ac, NEW S \in SUBSET Area
    PROVE  ConnectedWith(ac, S) \in SUBSET Area
<1>1. PICK run : IsSpread(run, ac, S)
  BY ConnectedRun
<1> DEFINE n == Cardinality(Area)
<1>2. n \in Nat /\ DOMAIN run = 0 .. n /\ run[0] \in SUBSET Area
  BY <1>1, ConnectedRun DEF IsSpread
<1>3. \A k \in 1 .. n : run[k - 1] \in SUBSET Area => run[k] \in SUBSET Area
  BY <1>1 DEF IsSpread, More
<1>4. run[n] \in SUBSET Area
  <2> HIDE DEF n
  <2> QED
    BY <1>2, <1>3, LoopStays
<1> QED
  BY <1>1, <1>4 DEF IsSpread

-----------------------------------------------------------------------------
(* Doors: what the calls do                                                *)

DoorTypes == [Door -> DoorState]
Lift == {d \in Door : ElevatorDoors(d) # {}}

\* A door with somebody in it stays open, and the mark stays.
HeldOpen(ds, nd) ==
    \A d \in Door : ds[d].action = "open" /\ ds[d].at \in Actor =>
                        nd[d].action = "open" /\ nd[d].at = ds[d].at

\* No elevator is unlocked, and one that is shut and locked stays so.
LocksKept(ds, nd) ==
    \A d \in Lift : /\ ds[d].elevlocked => nd[d].elevlocked
                    /\ Shut(ds, d) => Shut(nd, d)

\* Calls move no door.
NoneShuts(ds, nd) == \A d \in Door : nd[d].action = "closed" => ds[d].action = "closed"

Called(ds, nd) ==
    nd \in DoorTypes /\ Together(nd) /\ HeldOpen(ds, nd) /\ LocksKept(ds, nd) /\ NoneShuts(ds, nd)

\* The door of an elevator is a doorway of its own.
LEMMA LiftDoors ==
    /\ \A e \in Elevator : Door1[e] \in Lift /\ Door2[e] \in Lift
    /\ \A d \in Lift : \E e \in Elevator : d \in {Door1[e], Door2[e]}
    /\ \A d \in Lift : Group[d] = {d} /\ \A g \in Door : d \in Group[g] => g = d
<1>1. \A e \in Elevator : /\ Door1[e] \in Door /\ Door2[e] \in Door
                          /\ Door1[e] \in ElevatorDoors(Door1[e])
                          /\ Door2[e] \in ElevatorDoors(Door2[e])
  BY ElevatorAssumption DEF ElevatorDoors
<1>2. \A d \in Lift : \E e \in Elevator : d \in {Door1[e], Door2[e]}
  BY DEF Lift, ElevatorDoors
<1>3. ASSUME NEW d \in Lift
      PROVE  Group[d] = {d} /\ \A g \in Door : d \in Group[g] => g = d
  <2>1. PICK e \in Elevator : d \in {Door1[e], Door2[e]}
    BY <1>2
  <2>2. Group[Door1[e]] = {Door1[e]} /\ Group[Door2[e]] = {Door2[e]}
    BY ElevatorAssumption
  <2>3. ASSUME NEW g \in Door, d \in Group[g]
        PROVE  g = d
    <3>1. g \in {Door1[e], Door2[e]}
      BY <2>1, <2>3, ElevatorAssumption
    <3> QED
      BY <2>2, <2>3, <3>1
  <2> QED
    BY <2>1, <2>2, <2>3
<1> QED
  BY <1>1, <1>2, <1>3 DEF Lift

LEMMA OpenDoorAt ==
    ASSUME NEW ds \in DoorTypes, NEW S \in SUBSET Door
    PROVE  /\ OpenDoor(ds, S) \in DoorTypes
           /\ \A d \in Door :
                /\ OpenDoor(ds, S)[d].elevlocked = ds[d].elevlocked
                /\ OpenDoor(ds, S)[d].at = ds[d].at
                /\ d \notin S => OpenDoor(ds, S)[d] = ds[d]
                /\ d \in S => OpenDoor(ds, S)[d].action =
                                  IF ds[d].action = "open" THEN "open" ELSE "opening"
<1>1. \A d \in Door : ds[d] \in DoorState
  BY DEF DoorTypes
<1>2. 0 \in 0 .. OPENTICS
  BY DoorAssumption
<1> QED
  BY <1>1, <1>2 DEF DoorTypes, OpenDoor, DoorState

LEMMA CloseDoorAt ==
    ASSUME NEW ds \in DoorTypes, NEW S \in SUBSET Door
    PROVE  /\ CloseDoor(ds, S) \in DoorTypes
           /\ \A d \in Door :
                /\ CloseDoor(ds, S)[d].elevlocked = ds[d].elevlocked
                /\ d \notin S => CloseDoor(ds, S)[d] = ds[d]
                /\ d \in S => CloseDoor(ds, S)[d].action =
                                  IF ds[d].action = "closed" THEN "closed" ELSE "closing"
<1>1. \A d \in Door : ds[d] \in DoorState
  BY DEF DoorTypes
<1> QED
  BY <1>1 DEF DoorTypes, CloseDoor, DoorState

\* Opening a doorway whose elevator, if it is one, is not shut.
LEMMA LinkedOpenCalled ==
    ASSUME DoorwaysAgree, NEW ds \in DoorTypes, Together(ds), NEW d \in Door,
           d \in Lift => ~ Shut(ds, d)
    PROVE  Called(ds, LinkedOpenDoor(ds, d))
<1> DEFINE nd == OpenDoor(ds, Group[d])
<1>0. Group[d] \in SUBSET Door /\ \A g \in Door : Group[g] \in SUBSET Door
  BY DoorAssumption
<1>1. /\ nd \in DoorTypes
      /\ \A g \in Door :
           /\ nd[g].elevlocked = ds[g].elevlocked
           /\ nd[g].at = ds[g].at
           /\ g \notin Group[d] => nd[g] = ds[g]
           /\ g \in Group[d] => nd[g].action = IF ds[g].action = "open" THEN "open" ELSE "opening"
  BY <1>0, OpenDoorAt
<1> HIDE DEF nd
<1>2. Together(nd)
  <2> SUFFICES ASSUME NEW g \in Door, NEW h \in Group[g], Opens(nd, g)
               PROVE  Opens(nd, h)
    BY DEF Together
  <2>1. CASE h \in Group[d]
    BY <1>0, <1>1, <2>1 DEF Opens
  <2>2. CASE h \notin Group[d]
    <3>1. g \notin Group[d]
      BY <2>2 DEF DoorwaysAgree
    <3>2. Opens(ds, h)
      BY <1>1, <3>1 DEF Opens, Together
    <3> QED
      BY <1>0, <1>1, <2>2, <3>2 DEF Opens
  <2> QED
    BY <2>1, <2>2
<1>3. HeldOpen(ds, nd)
  BY <1>1 DEF HeldOpen
<1>4. LocksKept(ds, nd)
  <2> SUFFICES ASSUME NEW g \in Lift
               PROVE  /\ ds[g].elevlocked => nd[g].elevlocked
                      /\ Shut(ds, g) => Shut(nd, g)
    BY DEF LocksKept
  <2>1. g \in Door /\ (g \in Group[d] => g = d)
    BY LiftDoors DEF Lift
  <2> QED
    BY <1>1, <2>1 DEF Shut
<1>5. NoneShuts(ds, nd)
  BY <1>1 DEF NoneShuts
<1> QED
  BY <1>1, <1>2, <1>3, <1>4, <1>5 DEF Called, LinkedOpenDoor, nd

\* Closing a doorway that is free, or shut already.
LEMMA LinkedCloseCalled ==
    ASSUME DoorwaysAgree, NEW ds \in DoorTypes, Together(ds), NEW d \in Door
    PROVE  Called(ds, LinkedCloseDoor(ds, d))
<1> DEFINE nd == CloseDoor(ds, Group[d])
<1>0. Group[d] \in SUBSET Door /\ \A g \in Door : Group[g] \in SUBSET Door
  BY DoorAssumption
<1>1. CASE ~ DoorReadyToClose(ds, d)
  <2>1. LinkedCloseDoor(ds, d) = ds
    BY <1>1 DEF LinkedCloseDoor
  <2> QED
    BY <2>1 DEF Called, HeldOpen, LocksKept, NoneShuts
<1>2. CASE DoorReadyToClose(ds, d)
  <2>1. /\ nd \in DoorTypes
        /\ \A g \in Door :
             /\ nd[g].elevlocked = ds[g].elevlocked
             /\ g \notin Group[d] => nd[g] = ds[g]
             /\ g \in Group[d] => nd[g].action = IF ds[g].action = "closed" THEN "closed" ELSE "closing"
    BY <1>0, CloseDoorAt
  <2> HIDE DEF nd
  <2>2. Together(nd)
    <3> SUFFICES ASSUME NEW g \in Door, NEW h \in Group[g], Opens(nd, g)
                 PROVE  Opens(nd, h)
      BY DEF Together
    <3>1. g \notin Group[d]
      BY <2>1 DEF Opens
    <3>2. h \notin Group[d]
      <4>1. g \in Group[g] /\ Group[h] = Group[g] /\ (h \in Group[d] => Group[h] = Group[d])
        BY DoorAssumption DEF DoorwaysAgree
      <4> QED
        BY <3>1, <4>1
    <3>3. Opens(ds, g)
      BY <2>1, <3>1 DEF Opens
    <3>4. Opens(ds, h)
      BY <3>3 DEF Together
    <3> QED
      BY <1>0, <2>1, <3>2, <3>4 DEF Opens
  <2>3. HeldOpen(ds, nd)
    <3> SUFFICES ASSUME NEW g \in Door, ds[g].action = "open", ds[g].at \in Actor
                 PROVE  nd[g] = ds[g]
      BY DEF HeldOpen
    <3>1. ASSUME g \in Group[d]
          PROVE  FALSE
      <4>1. ds[d].action = "closed"
        BY <1>2, <3>1 DEF DoorReadyToClose
      <4>2. d \in Group[g]
        <5>1. Group[g] = Group[d] /\ d \in Group[d]
          BY <3>1, DoorAssumption DEF DoorwaysAgree
        <5> QED
          BY <5>1
      <4>3. Opens(ds, g) => Opens(ds, d)
        BY <4>2 DEF Together
      <4> QED
        BY <4>1, <4>3 DEF Opens
    <3> QED
      BY <2>1, <3>1
  <2>4. LocksKept(ds, nd)
    <3> SUFFICES ASSUME NEW g \in Lift
                 PROVE  /\ ds[g].elevlocked => nd[g].elevlocked
                        /\ Shut(ds, g) => Shut(nd, g)
      BY DEF LocksKept
    <3>1. g \in Door
      BY DEF Lift
    <3> QED
      BY <2>1, <3>1 DEF Shut
  <2>5. NoneShuts(ds, nd)
    BY <2>1 DEF NoneShuts
  <2> QED
    BY <1>2, <2>1, <2>2, <2>3, <2>4, <2>5 DEF Called, LinkedCloseDoor, nd
<1> QED
  BY <1>1, <1>2

LEMMA CalledTrans ==
    ASSUME NEW ds, NEW md, NEW nd, Called(ds, md), Called(md, nd)
    PROVE  Called(ds, nd)
BY DEF Called, HeldOpen, LocksKept, NoneShuts

LEMMA CalledSame ==
    ASSUME NEW ds \in DoorTypes, Together(ds)
    PROVE  Called(ds, ds)
BY DEF Called, HeldOpen, LocksKept, NoneShuts

\* A use of a door that is not locked, by a player.
LEMMA OperateCalled ==
    ASSUME DoorwaysAgree, NEW ds \in DoorTypes, Together(ds), NEW d \in Door, NEW haskey \in BOOLEAN
    PROVE  Called(ds, OperateDoor(ds, d, haskey))
<1>1. CASE ds[d].elevlocked \/ ~haskey
  BY <1>1, CalledSame DEF OperateDoor
<1>2. CASE ~(ds[d].elevlocked \/ ~haskey)
  <2>1. ~ Shut(ds, d)
    BY <1>2 DEF Shut
  <2>2. Called(ds, LinkedOpenDoor(ds, d)) /\ Called(ds, LinkedCloseDoor(ds, d))
    BY <2>1, LinkedOpenCalled, LinkedCloseCalled
  <2> QED
    BY <1>2, <2>2 DEF OperateDoor, UseDoor
<1> QED
  BY <1>1, <1>2

\* A turn of MoveDoors: what a door that moves does, and to the other doors.
Moved(ds, nd, d) ==
    /\ nd \in DoorTypes /\ Together(nd) /\ HeldOpen(ds, nd) /\ LocksKept(ds, nd)
    /\ \A g \in Lift : g # d => nd[g].action = ds[g].action
    /\ ds[d].action = "opening" => nd[d].action \in {"opening", "open"}

LEMMA DoorOpenMoves ==
    ASSUME DoorwaysAgree, NEW ds \in DoorTypes, Together(ds), NEW d \in Door, ds[d].action = "open"
    PROVE  Moved(ds, DoorOpen(ds, d), d)
<1> DEFINE tc == IF ds[d].ticcount < OPENTICS THEN ds[d].ticcount + 1 ELSE OPENTICS
           counted == [ds EXCEPT ![d].ticcount = tc]
           nd == LinkedCloseDoor(counted, d)
<1>0. DoorOpen(ds, d) = IF tc = OPENTICS /\ d \notin Timed THEN nd ELSE counted
  BY DEF DoorOpen
<1>1. ds[d] \in DoorState /\ tc \in 0 .. OPENTICS
  BY DoorAssumption DEF DoorTypes, DoorState
<1> HIDE DEF tc
<1>2. /\ counted \in DoorTypes
      /\ \A g \in Door : /\ counted[g].action = ds[g].action /\ counted[g].at = ds[g].at
                         /\ counted[g].elevlocked = ds[g].elevlocked
  BY <1>1 DEF DoorTypes, DoorState
<1> HIDE DEF counted
<1>3. Together(counted)
  <2>1. \A g \in Door : Group[g] \subseteq Door
    BY DoorAssumption
  <2> QED
    BY <1>2, <2>1 DEF Together, Opens
<1>4. Called(counted, nd) /\ Called(counted, counted)
  BY <1>2, <1>3, LinkedCloseCalled, CalledSame
<1>5. \A g \in Lift : g # d => nd[g] = counted[g]
  <2> SUFFICES ASSUME NEW g \in Lift, g # d
               PROVE  nd[g] = counted[g]
    OBVIOUS
  <2>1. g \in Door /\ g \notin Group[d] /\ Group[d] \in SUBSET Door
    BY LiftDoors, DoorAssumption DEF Lift
  <2> QED
    BY <1>2, <2>1, CloseDoorAt DEF LinkedCloseDoor
<1>6. \A g \in Lift : g \in Door
  BY DEF Lift
<1> DEFINE new == DoorOpen(ds, d)
<1>7. Called(counted, new) /\ \A g \in Lift : g # d => new[g] = counted[g]
  BY <1>0, <1>4, <1>5
<1> HIDE DEF nd, new
<1>8. HeldOpen(ds, new) /\ LocksKept(ds, new)
  BY <1>2, <1>6, <1>7 DEF Called, HeldOpen, LocksKept, Shut
<1> QED
  BY <1>2, <1>6, <1>7, <1>8 DEF Moved, Called, new

\* A door that slides changes nothing but itself.
LEMMA SlideMoves ==
    ASSUME NEW ds \in DoorTypes, Together(ds), NEW d \in Door, NEW s \in DoorState,
           s.elevlocked = ds[d].elevlocked,
           \/ ds[d].action = "opening" /\ s.action \in {"opening", "open"}
           \/ ds[d].action = "closing" /\ s.action \in {"closing", "closed"}
    PROVE  Moved(ds, [ds EXCEPT ![d] = s], d)
<1> DEFINE nd == [ds EXCEPT ![d] = s]
<1>1. nd \in DoorTypes /\ \A g \in Door : nd[g] = IF g = d THEN s ELSE ds[g]
  BY DEF DoorTypes
<1> HIDE DEF nd
<1>2. \A g \in Door : Opens(nd, g) <=> Opens(ds, g)
  BY <1>1 DEF Opens
<1>3. Together(nd)
  BY <1>2, DoorAssumption DEF Together
<1>4. HeldOpen(ds, nd)
  BY <1>1 DEF HeldOpen
<1>5. LocksKept(ds, nd)
  <2>1. \A g \in Lift : g \in Door
    BY DEF Lift
  <2> QED
    BY <1>1, <2>1 DEF LocksKept, Shut
<1>6. \A g \in Lift : g # d => nd[g].action = ds[g].action
  BY <1>1 DEF Lift
<1> QED
  BY <1>1, <1>3, <1>4, <1>5, <1>6 DEF Moved, nd

LEMMA DoorOpeningMoves ==
    ASSUME NEW ds \in DoorTypes, Together(ds), NEW d \in Door, ds[d].action = "opening"
    PROVE  Moved(ds, DoorOpening(ds, d), d)
<1> DEFINE pos == ds[d].position + 1
           half == [ds[d] EXCEPT !.position = pos]
           full == [ds[d] EXCEPT !.position = Steps, !.ticcount = 0, !.action = "open",
                                 !.at = IF @ = DoorThing THEN Null ELSE @]
<1>1. ds[d] \in DoorState /\ DOMAIN ds = Door /\ Steps \in Nat /\ OPENTICS \in Nat
  BY DoorAssumption DEF DoorTypes
<1>2. pos < Steps => half \in DoorState /\ half.elevlocked = ds[d].elevlocked /\ half.action = "opening"
  BY <1>1 DEF DoorState
<1>3. full \in DoorState /\ full.elevlocked = ds[d].elevlocked /\ full.action = "open"
  <2>1. /\ Steps \in 0 .. Steps /\ 0 \in 0 .. OPENTICS
        /\ DOMAIN ds[d] = {"action", "position", "ticcount", "elevlocked", "at"}
    BY <1>1 DEF DoorState
  <2>2. (IF ds[d].at = DoorThing THEN Null ELSE ds[d].at) \in Actor \cup {DoorThing, Null}
    BY <1>1 DEF DoorState
  <2>3. full \in DoorState
    BY <1>1, <2>1, <2>2 DEF DoorState
  <2>4. full.elevlocked = ds[d].elevlocked /\ full.action = "open"
    BY <2>1
  <2> QED
    BY <2>3, <2>4
<1>4. DoorOpening(ds, d) = IF pos < Steps THEN [ds EXCEPT ![d] = half] ELSE [ds EXCEPT ![d] = full]
  <2>1. [ds EXCEPT ![d].position = pos] = [ds EXCEPT ![d] = half]
    BY <1>1
  <2> QED
    BY <2>1 DEF DoorOpening
<1> HIDE DEF pos, half, full
<1>5. /\ pos < Steps => Moved(ds, [ds EXCEPT ![d] = half], d)
      /\ Moved(ds, [ds EXCEPT ![d] = full], d)
  BY <1>2, <1>3, SlideMoves
<1> QED
  BY <1>4, <1>5

LEMMA DoorClosingMoves ==
    ASSUME NEW ds \in DoorTypes, Together(ds), NEW d \in Door, ds[d].action = "closing"
    PROVE  Moved(ds, DoorClosing(ds, d), d)
<1> DEFINE pos == ds[d].position - 1
           half == [ds[d] EXCEPT !.position = pos]
           full == [ds[d] EXCEPT !.position = 0, !.action = "closed"]
<1>1. ds[d] \in DoorState /\ DOMAIN ds = Door /\ Steps \in Nat
  BY DoorAssumption DEF DoorTypes
<1>2. pos > 0 => half \in DoorState /\ half.elevlocked = ds[d].elevlocked /\ half.action = "closing"
  BY <1>1 DEF DoorState
<1>3. full \in DoorState /\ full.elevlocked = ds[d].elevlocked /\ full.action = "closed"
  <2>1. full = [ds[d] EXCEPT !.position = 0, !.action = "closed"]
    OBVIOUS
  <2>2. 0 \in 0 .. Steps /\ DOMAIN ds[d] = {"action", "position", "ticcount", "elevlocked", "at"}
    BY <1>1 DEF DoorState
  <2>3. full \in DoorState
    BY <1>1, <2>2 DEF DoorState
  <2>4. full.elevlocked = ds[d].elevlocked /\ full.action = "closed"
    BY <2>2
  <2> QED
    BY <2>3, <2>4
<1>4. DoorClosing(ds, d) = IF pos > 0 THEN [ds EXCEPT ![d] = half] ELSE [ds EXCEPT ![d] = full]
  BY <1>1 DEF DoorClosing
<1> HIDE DEF pos, half, full
<1>5. /\ pos > 0 => Moved(ds, [ds EXCEPT ![d] = half], d)
      /\ Moved(ds, [ds EXCEPT ![d] = full], d)
  BY <1>2, <1>3, SlideMoves
<1> QED
  BY <1>4, <1>5

-----------------------------------------------------------------------------
(* The tic: whose turn it is                                               *)

LEMMA LevelConstants ==
    /\ NumActors \in Nat \ {0} /\ NumDoors \in Nat \ {0} /\ NumElevators \in Nat \ {0}
    /\ NumWalls \in Nat \ {0} /\ NumPlates \in Nat \ {0}
    /\ \A ph \in Phases : Count(ph) \in Nat \ {0} /\ After(ph) \in Phases
<1>1. /\ NumActors \in Nat \ {0} /\ NumDoors \in Nat /\ NumElevators \in Nat \ {0}
      /\ NumWalls \in Nat \ {0} /\ NumPlates \in Nat \ {0}
  BY DoorAssumption, ElevatorAssumption, TriggerAssumption, LevelAssumption
<1>2. 1 \in Elevator
  BY <1>1 DEF Elevator
<1>3. NumDoors # 0
  <2>1. Door1[1] \in Door
    BY <1>2, ElevatorAssumption
  <2> QED
    BY <1>1, <2>1 DEF Door
<1> QED
  BY <1>1, <1>3 DEF Phases, Count, After

LEMMA AdvanceType ==
    ASSUME phase \in Phases, turn \in 1 .. Count(phase), Advance
    PROVE  /\ phase' \in Phases /\ turn' \in 1 .. Count(phase)'
           /\ \/ phase' = phase /\ turn' = turn + 1 /\ turn < Count(phase)
              \/ phase' = After(phase) /\ turn' = 1 /\ turn = Count(phase)
<1>1. Count(phase) \in Nat \ {0} /\ After(phase) \in Phases /\ Count(After(phase)) \in Nat \ {0}
  BY LevelConstants
<1>2. CASE turn < Count(phase)
  <2>1. turn' = turn + 1 /\ phase' = phase
    BY <1>2 DEF Advance
  <2>2. Count(phase)' = Count(phase)
    BY <2>1 DEF Count
  <2> QED
    BY <1>1, <1>2, <2>1, <2>2
<1>3. CASE ~ turn < Count(phase)
  <2>1. turn' = 1 /\ phase' = After(phase) /\ turn = Count(phase)
    BY <1>1, <1>3 DEF Advance
  <2>2. Count(phase)' = Count(After(phase))
    BY <2>1 DEF Count
  <2> QED
    BY <1>1, <2>1, <2>2
<1> QED
  BY <1>2, <1>3

\* In the loops before the actors nobody has had a turn.
LEMMA OthersTurn ==
    ASSUME phase \in Phases, turn \in 1 .. Count(phase), phase # "actors", Advance
    PROVE  \A b \in Actor : LastTurn(b) = b /\ LastTurn(b)' = b
<1>1. \/ phase' = phase
      \/ turn' = 1
  BY AdvanceType
<1> QED
  BY <1>1 DEF LastTurn, Actor

\* Who has its turn was the one whose last turn was longest ago; after it, the latest.
LEMMA ActorsTurn ==
    ASSUME turn \in Actor, phase = "actors", Advance
    PROVE  /\ \A b \in Actor : LastTurn(b) <= LastTurn(turn) => b = turn
           /\ \A b \in Actor : (LastTurn(b))' <= IF turn < NumActors THEN turn + NumActors ELSE turn
           /\ \A b \in Actor : b = turn =>
                  (LastTurn(b))' = IF turn < NumActors THEN turn + NumActors ELSE turn
           /\ \A b, c \in Actor : b # turn /\ c # turn /\ LastTurn(b) <= LastTurn(c) =>
                  (LastTurn(b))' <= (LastTurn(c))'
<1>1. NumActors \in Nat \ {0} /\ turn \in 1 .. NumActors /\ Actor = 1 .. NumActors
  BY LevelConstants DEF Actor
<1>2. \/ turn < NumActors /\ phase' = "actors" /\ turn' = turn + 1
      \/ turn = NumActors /\ phase' = "doors" /\ turn' = 1
  BY <1>1 DEF Advance, Count, After
<1>3. \A b \in Actor : /\ LastTurn(b) = IF b < turn THEN b + NumActors ELSE b
                       /\ (LastTurn(b))' = IF turn < NumActors /\ b < turn + 1 THEN b + NumActors ELSE b
  BY <1>1, <1>2 DEF LastTurn
<1> HIDE DEF LastTurn
<1>4. \A b \in Actor : LastTurn(b) <= LastTurn(turn) => b = turn
  BY <1>1, <1>3
<1>5. \A b \in Actor : (LastTurn(b))' <= IF turn < NumActors THEN turn + NumActors ELSE turn
  BY <1>1, <1>3
<1>6. \A b \in Actor : b = turn =>
          (LastTurn(b))' = IF turn < NumActors THEN turn + NumActors ELSE turn
  BY <1>1, <1>3
<1>7. \A b, c \in Actor : b # turn /\ c # turn /\ LastTurn(b) <= LastTurn(c) =>
          (LastTurn(b))' <= (LastTurn(c))'
  BY <1>1, <1>3
<1> QED
  BY <1>4, <1>5, <1>6, <1>7

\* A step of the doors, elevators, walls or plates that moves nobody into or out of a door.
LEMMA MarksKept ==
    ASSUME Marks, phase \in Phases, turn \in 1 .. Count(phase), phase # "actors", Advance,
           HeldOpen(doors, doors'),
           \A d \in Door, b \in Actor : place'[b] = Tile[d] <=> place[b] = Tile[d]
    PROVE  Marks'
<1> SUFFICES ASSUME NEW d \in Door, NEW b \in Actor, place'[b] = Tile[d]
             PROVE  /\ doors'[d].action = "open" /\ doors'[d].at \in Actor
                    /\ place'[doors'[d].at] = Tile[d]
                    /\ (LastTurn(b))' <= LastTurn(doors[d].at)'
                    /\ doors'[d].at = doors[d].at
  BY DEF Marks
<1>1. /\ doors[d].action = "open" /\ doors[d].at \in Actor /\ place[doors[d].at] = Tile[d]
      /\ LastTurn(b) <= LastTurn(doors[d].at)
  BY DEF Marks
<1>2. doors'[d].action = "open" /\ doors'[d].at = doors[d].at
  BY <1>1 DEF HeldOpen
<1> QED
  BY <1>1, <1>2, OthersTurn

\* A step that unlocks no elevator, moves no cabin and runs no machine.
LEMMA CabinsKept ==
    ASSUME CabinsOK, LocksKept(doors, doors'), UNCHANGED <<elevator, cabin>>,
           cabin \in [Elevator -> {"source", "dest"}]
    PROVE  CabinsOK'
<1> SUFFICES ASSUME NEW e \in Elevator
             PROVE  CabinOK(doors', elevator[e], e, cabin[e])
  BY DEF CabinsOK
<1>1. CabinOK(doors, elevator[e], e, cabin[e])
  BY DEF CabinsOK
<1>2. DoorHere(e, cabin[e]) \in Lift /\ DoorThere(e, cabin[e]) \in Lift
  BY LiftDoors DEF DoorHere, DoorThere
<1> QED
  BY <1>1, <1>2 DEF CabinOK, LocksKept

LEMMA PlayerAreasType ==
    ASSUME NEW pl \in [Actor -> Place]
    PROVE  PlayerAreas(pl) \in SUBSET Area
BY LevelAssumption DEF PlayerAreas, Player

LEMMA CountTypes ==
    ASSUME NEW ac \in [Pair -> 0 .. ByteSize - 1], NEW pr \in Pair
    PROVE  /\ Connect(ac, pr) \in [Pair -> 0 .. ByteSize - 1]
           /\ Disconnect(ac, pr) \in [Pair -> 0 .. ByteSize - 1]
<1>1. ByteSize \in Nat \ {0} /\ ac[pr] \in Int
  BY DoorAssumption
<1>2. \A n \in Int : n % ByteSize \in 0 .. ByteSize - 1
  BY <1>1
<1>3. (ac[pr] + 1) % ByteSize \in 0 .. ByteSize - 1
  BY <1>1, <1>2
<1>4. (ac[pr] + ByteSize - 1) % ByteSize \in 0 .. ByteSize - 1
  BY <1>1, <1>2
<1> QED
  BY <1>3, <1>4 DEF Connect, Disconnect

-----------------------------------------------------------------------------
(* MoveDoors                                                               *)

LEMMA MoveDoorMoves ==
    ASSUME WellBuilt, LevelInv, MoveDoor
    PROVE  /\ turn \in Door /\ Moved(doors, doors', turn)
           /\ areaconnect' \in [Pair -> 0 .. ByteSize - 1]
           /\ areabyplayer' \in SUBSET Area
<1>1. /\ doors \in DoorTypes /\ Together(doors) /\ DoorwaysAgree /\ turn \in Door
      /\ areaconnect \in [Pair -> 0 .. ByteSize - 1] /\ areabyplayer \in SUBSET Area
      /\ place \in [Actor -> Place] /\ Side[turn] \in Pair
  BY DoorAssumption DEF WellBuilt, LevelInv, TypeInv, LevelTypeOK, DoorsInv, DoorTypes, MoveDoor
<1>2. /\ Connect(areaconnect, Side[turn]) \in [Pair -> 0 .. ByteSize - 1]
      /\ Disconnect(areaconnect, Side[turn]) \in [Pair -> 0 .. ByteSize - 1]
      /\ \A ac : ConnectedWith(ac, PlayerAreas(place)) \in SUBSET Area
  BY <1>1, CountTypes, PlayerAreasType, ConnectedType
<1>3. doors[turn].action \in {"open", "opening", "closing", "closed"}
  BY <1>1 DEF DoorTypes, DoorState
<1>4. CASE doors[turn].action = "open"
  <2>1. doors' = DoorOpen(doors, turn) /\ UNCHANGED <<areaconnect, areabyplayer>>
    BY <1>4 DEF MoveDoor
  <2> QED
    BY <1>1, <1>4, <2>1, DoorOpenMoves
<1>5. CASE doors[turn].action = "opening"
  <2>1. /\ doors' = DoorOpening(doors, turn)
        /\ \/ /\ areaconnect' = Connect(areaconnect, Side[turn])
              /\ ConnectAreas(Connect(areaconnect, Side[turn]))
           \/ UNCHANGED <<areaconnect, areabyplayer>>
    BY <1>5 DEF MoveDoor
  <2> QED
    BY <1>1, <1>2, <1>5, <2>1, DoorOpeningMoves DEF ConnectAreas
<1>6. CASE doors[turn].action = "closing"
  <2>1. /\ doors' = DoorClosing(doors, turn)
        /\ \/ /\ areaconnect' = Disconnect(areaconnect, Side[turn])
              /\ ConnectAreas(Disconnect(areaconnect, Side[turn]))
           \/ UNCHANGED <<areaconnect, areabyplayer>>
    BY <1>6 DEF MoveDoor
  <2> QED
    BY <1>1, <1>2, <1>6, <2>1, DoorClosingMoves DEF ConnectAreas
<1>7. CASE doors[turn].action = "closed"
  <2>1. UNCHANGED <<doors, areaconnect, areabyplayer>>
    BY <1>7 DEF MoveDoor
  <2>2. Moved(doors, doors, turn)
    BY <1>1, <1>7 DEF Moved, HeldOpen, LocksKept
  <2> QED
    BY <1>1, <2>1, <2>2
<1> QED
  BY <1>3, <1>4, <1>5, <1>6, <1>7

LEMMA MoveDoorInv ==
    ASSUME WellBuilt, LevelInv, MoveDoor
    PROVE  LevelInv'
<1>1. /\ turn \in Door /\ Moved(doors, doors', turn)
      /\ areaconnect' \in [Pair -> 0 .. ByteSize - 1] /\ areabyplayer' \in SUBSET Area
  BY MoveDoorMoves
<1>2. /\ phase = "doors" /\ Advance
      /\ UNCHANGED <<elevator, walls, plates, TRIGGER, place, door_to_open, cabin, rushed>>
  BY DEF MoveDoor
<1>3. /\ phase \in Phases /\ turn \in 1 .. Count(phase) /\ TypeInv /\ LevelTypeOK
      /\ cabin \in [Elevator -> {"source", "dest"}]
  BY DEF LevelInv, TypeInv, LevelTypeOK
<1>4. /\ phase' \in Phases /\ turn' \in 1 .. Count(phase)'
      /\ \/ phase' = "doors" /\ turn' = turn + 1
         \/ phase' = "elevators" /\ turn = NumDoors
  BY <1>2, <1>3, AdvanceType DEF Count, After
<1>5. TypeInv'
  <2>1. LevelTypeOK'
    BY <1>1, <1>2, <1>3, <1>4 DEF LevelTypeOK, Moved, DoorTypes
  <2> QED
    BY <1>2, <1>3, <2>1 DEF TypeInv
<1>6. DoorsInv'
  <2>1. Together(doors') /\ HeldOpen(doors, doors')
    BY <1>1 DEF Moved
  <2>2. Marks'
    BY <1>2, <1>3, <2>1, MarksKept DEF LevelInv, DoorsInv
  <2> QED
    BY <2>1, <2>2 DEF DoorsInv
<1>7. CabinsOK'
  BY <1>1, <1>2, <1>3, CabinsKept DEF Moved, LevelInv, ShaftInv
<1>8. NobodyLeftBehind'
  BY <1>2 DEF LevelInv, ShaftInv, NobodyLeftBehind
<1>9. WaitInv'
  <2> SUFFICES ASSUME NEW a \in Enemy, door_to_open[a] # NoDoor, ElevatorDoors(door_to_open[a]) # {}
               PROVE  Awaited(a, door_to_open[a])'
    BY <1>2 DEF LevelInv, ShaftInv, WaitInv
  <2> DEFINE d == door_to_open[a]
  <2>1. d \in Door /\ d \in Lift /\ d \in Int /\ d <= NumDoors
    BY <1>3, LevelConstants DEF LevelTypeOK, Lift, Door
  <2>2. Awaited(a, d)
    BY DEF LevelInv, ShaftInv, WaitInv
  <2>3. turn \in Int
    BY <1>1, LevelConstants DEF Door
  <2> HIDE DEF d
  <2>4. CASE turn <= d
    <3>1. doors[d].action = "opening"
      BY <1>2, <2>2, <2>4 DEF Awaited
    <3>2. CASE turn = d
      <4>1. doors'[d].action \in {"opening", "open"}
        BY <1>1, <3>1, <3>2 DEF Moved
      <4>2. ~(phase' = "doors" /\ turn' <= d) /\ phase' # "actors"
        BY <1>4, <2>1, <2>3, <3>2
      <4> QED
        BY <1>2, <4>1, <4>2 DEF Awaited, d
    <3>3. CASE turn # d
      <4>1. doors'[d].action = "opening"
        BY <1>1, <2>1, <3>1, <3>3 DEF Moved
      <4> QED
        BY <1>2, <4>1 DEF Awaited, d
    <3> QED
      BY <3>2, <3>3
  <2>5. CASE ~ turn <= d
    <3>1. doors'[d].action \in {"opening", "open"}
      <4>1. doors[d].action \in {"opening", "open"}
        BY <1>2, <2>2, <2>5 DEF Awaited
      <4>2. turn # d
        BY <2>1, <2>3, <2>5
      <4> QED
        BY <1>1, <2>1, <4>1, <4>2 DEF Moved
    <3>2. ~(phase' = "doors" /\ turn' <= d) /\ phase' # "actors"
      BY <1>4, <2>1, <2>3, <2>5
    <3> QED
      BY <1>2, <3>1, <3>2 DEF Awaited, d
  <2> QED
    BY <2>4, <2>5
<1> QED
  BY <1>5, <1>6, <1>7, <1>8, <1>9 DEF LevelInv, ShaftInv

-----------------------------------------------------------------------------
(* MovePWalls and TriggerStuff                                             *)

WallTypes == {ws \in [Wall -> UNION {WallState(w) : w \in Wall}] : \A w \in Wall : ws[w] \in WallState(w)}
CountsType == [Pair -> 0 .. ByteSize - 1]

\* What walls and plates may make of the doors ds: no elevator's door is touched.
Effects(ds) ==
    {m \in [doors : DoorTypes, walls : WallTypes, areaconnect : CountsType] :
        Called(ds, m.doors) /\ \A d \in Lift : m.doors[d] = ds[d]}

LEMMA RecordUpdate ==
    ASSUME NEW A, NEW L, NEW T, NEW pw \in [action : A, leg : L, state : T],
           NEW a \in A, NEW l \in L, NEW t \in T
    PROVE  /\ [pw EXCEPT !.action = a, !.state = t] \in [action : A, leg : L, state : T]
           /\ [pw EXCEPT !.state = t, !.action = a] \in [action : A, leg : L, state : T]
           /\ [pw EXCEPT !.state = t, !.action = a, !.leg = l] \in [action : A, leg : L, state : T]
<1>1. [pw EXCEPT !.action = a, !.state = t] \in [action : A, leg : L, state : T]
  OBVIOUS
<1>2. [pw EXCEPT !.state = t, !.action = a] \in [action : A, leg : L, state : T]
  OBVIOUS
<1>3. [pw EXCEPT !.state = t, !.action = a, !.leg = l] \in [action : A, leg : L, state : T]
  OBVIOUS
<1> QED
  BY <1>1, <1>2, <1>3

LEMMA WallUpdate ==
    ASSUME NEW w \in Wall, NEW pw \in WallState(w), NEW a \in {"npushed", "pushing", "pushed"},
           NEW l \in 1 .. Len(WallPath[w]), NEW t \in 0 .. PushTics
    PROVE  /\ [pw EXCEPT !.action = a, !.state = t] \in WallState(w)
           /\ [pw EXCEPT !.state = t, !.action = a] \in WallState(w)
           /\ [pw EXCEPT !.state = t, !.action = a, !.leg = l] \in WallState(w)
<1> DEFINE A == {"npushed", "pushing", "pushed"}
           L == 1 .. Len(WallPath[w])
           T == 0 .. PushTics
<1>1. a \in A /\ l \in L /\ t \in T /\ WallState(w) = [action : A, leg : L, state : T]
  BY DEF WallState
<1> HIDE DEF A, L, T
<1>2. pw \in [action : A, leg : L, state : T]
  BY <1>1
<1>3. /\ [pw EXCEPT !.action = a, !.state = t] \in [action : A, leg : L, state : T]
      /\ [pw EXCEPT !.state = t, !.action = a] \in [action : A, leg : L, state : T]
      /\ [pw EXCEPT !.state = t, !.action = a, !.leg = l] \in [action : A, leg : L, state : T]
  BY <1>1, <1>2, RecordUpdate
<1> QED
  BY <1>1, <1>3

LEMMA WallFields ==
    ASSUME NEW ws \in WallTypes, NEW w \in Wall
    PROVE  /\ ws[w] \in [action : {"npushed", "pushing", "pushed"},
                         leg : 1 .. Len(WallPath[w]), state : 0 .. PushTics]
           /\ WallPath[w] \in Seq([connects : SUBSET Pair]) /\ Len(WallPath[w]) \in Nat \ {0}
           /\ PushTics \in Nat \ {0}
           /\ \A s \in WallState(w) : [ws EXCEPT ![w] = s] \in WallTypes
<1>1. ws[w] \in WallState(w) /\ WallState(w) \subseteq UNION {WallState(v) : v \in Wall}
  BY DEF WallTypes
<1>2. /\ WallPath[w] \in Seq([connects : SUBSET Pair]) /\ WallPath[w] # <<>>
      /\ PushTics \in Nat \ {0}
  BY TriggerAssumption
<1>3. ASSUME NEW s \in WallState(w)
      PROVE  [ws EXCEPT ![w] = s] \in WallTypes
  <2>1. [ws EXCEPT ![w] = s] \in [Wall -> UNION {WallState(v) : v \in Wall}]
    BY <1>1 DEF WallTypes
  <2>2. \A v \in Wall : [ws EXCEPT ![w] = s][v] \in WallState(v)
    BY DEF WallTypes
  <2> QED
    BY <2>1, <2>2 DEF WallTypes
<1> QED
  BY <1>1, <1>2, <1>3 DEF WallState

LEMMA ConnectPushWallType ==
    ASSUME NEW ac \in CountsType, NEW prs
    PROVE  ConnectPushWall(ac, prs) \in CountsType
<1>1. ByteSize \in Nat \ {0}
  BY DoorAssumption
<1>2. \A n \in Int : n % ByteSize \in 0 .. ByteSize - 1
  BY <1>1
<1>3. \A pr \in Pair : ac[pr] \in Int /\ (ac[pr] + 1) % ByteSize \in 0 .. ByteSize - 1
  BY <1>1, <1>2 DEF CountsType
<1> QED
  BY <1>3 DEF ConnectPushWall, CountsType

LEMMA ActivateEffect ==
    ASSUME NEW ds, NEW m \in Effects(ds), NEW w \in Wall
    PROVE  ActivatePushWall(m, w) \in Effects(ds)
<1> DEFINE s == [m.walls[w] EXCEPT !.action = "pushing", !.state = PushTics]
           ws == [m.walls EXCEPT ![w] = s]
           ac == ConnectPushWall(m.areaconnect, WallPath[w][m.walls[w].leg].connects)
<1>1. /\ m \in [doors : DoorTypes, walls : WallTypes, areaconnect : CountsType]
      /\ Called(ds, m.doors) /\ \A d \in Lift : m.doors[d] = ds[d]
  BY DEF Effects
<1>2. /\ m.walls[w] \in [action : {"npushed", "pushing", "pushed"},
                         leg : 1 .. Len(WallPath[w]), state : 0 .. PushTics]
      /\ PushTics \in Nat \ {0}
      /\ \A v \in WallState(w) : [m.walls EXCEPT ![w] = v] \in WallTypes
  BY <1>1, WallFields
<1>3. s \in WallState(w)
  <2>1. m.walls[w] \in WallState(w) /\ m.walls[w].leg \in 1 .. Len(WallPath[w])
    BY <1>2 DEF WallState
  <2>2. PushTics \in 0 .. PushTics
    BY <1>2
  <2> QED
    BY <2>1, <2>2, WallUpdate
<1>4. ws \in WallTypes /\ ac \in CountsType
  BY <1>1, <1>2, <1>3, ConnectPushWallType
<1>5. w \in DOMAIN m.walls
  BY <1>1 DEF WallTypes
<1>6. ActivatePushWall(m, w) = IF m.walls[w].action # "npushed" THEN m ELSE Effect(m.doors, ws, ac)
  BY <1>5 DEF ActivatePushWall
<1> HIDE DEF ws, ac
<1>7. Effect(m.doors, ws, ac) \in Effects(ds)
  BY <1>1, <1>4 DEF Effects, Effect
<1> QED
  BY <1>6, <1>7

LEMMA WallPushingEffect ==
    ASSUME NEW ds, NEW m \in Effects(ds), NEW w \in Wall
    PROVE  WallPushing(m, w) \in Effects(ds)
<1> DEFINE pw == m.walls[w]
           Put(s) == [m EXCEPT !.walls = [m.walls EXCEPT ![w] = s]]
           goes == [pw EXCEPT !.state = @ - 1]
           stops == [pw EXCEPT !.state = 0, !.action = "pushed"]
           rests == [pw EXCEPT !.state = 0, !.action = "npushed", !.leg = @ + 1]
<1>1. /\ m \in [doors : DoorTypes, walls : WallTypes, areaconnect : CountsType]
      /\ Called(ds, m.doors) /\ \A d \in Lift : m.doors[d] = ds[d]
  BY DEF Effects
<1>2. /\ pw \in [action : {"npushed", "pushing", "pushed"},
                 leg : 1 .. Len(WallPath[w]), state : 0 .. PushTics]
      /\ PushTics \in Nat \ {0} /\ Len(WallPath[w]) \in Nat \ {0}
      /\ \A v \in WallState(w) : [m.walls EXCEPT ![w] = v] \in WallTypes
      /\ w \in DOMAIN m.walls
  BY <1>1, WallFields DEF WallTypes
<1>3. \A s \in WallState(w) : Put(s) \in Effects(ds)
  BY <1>1, <1>2 DEF Effects
<1>4. /\ [m EXCEPT !.walls[w].state = @ - 1] = Put(goes)
      /\ [m EXCEPT !.walls[w].state = 0, !.walls[w].action = "pushed"] = Put(stops)
      /\ [m EXCEPT !.walls[w].state = 0, !.walls[w].action = "npushed", !.walls[w].leg = @ + 1] = Put(rests)
  BY <1>1, <1>2
<1>5. WallPushing(m, w) =
          IF pw.state > 1 THEN Put(goes)
          ELSE IF pw.leg = Len(WallPath[w]) THEN Put(stops)
          ELSE IF w \in WallLock THEN ActivatePushWall(Put(rests), w) ELSE Put(rests)
  BY <1>4 DEF WallPushing
<1>6. pw.state > 1 => goes \in WallState(w)
  BY <1>2 DEF WallState
<1>7. stops \in WallState(w)
  <2>1. pw \in WallState(w) /\ pw.leg \in 1 .. Len(WallPath[w]) /\ 0 \in 0 .. PushTics
    BY <1>2 DEF WallState
  <2> HIDE DEF pw
  <2> QED
    BY <2>1, WallUpdate
<1>8. pw.leg # Len(WallPath[w]) => rests \in WallState(w)
  <2>1. /\ pw \in WallState(w) /\ 0 \in 0 .. PushTics
        /\ pw.leg # Len(WallPath[w]) => pw.leg + 1 \in 1 .. Len(WallPath[w])
    BY <1>2 DEF WallState
  <2> HIDE DEF pw
  <2> QED
    BY <2>1, WallUpdate
<1> HIDE DEF goes, stops, rests
<1>9. /\ pw.state > 1 => Put(goes) \in Effects(ds)
      /\ Put(stops) \in Effects(ds)
      /\ pw.leg # Len(WallPath[w]) => Put(rests) \in Effects(ds)
  BY <1>3, <1>6, <1>7, <1>8
<1> HIDE DEF Put, pw
<1>10. pw.leg # Len(WallPath[w]) => ActivatePushWall(Put(rests), w) \in Effects(ds)
  BY <1>9, ActivateEffect
<1> QED
  BY <1>5, <1>9, <1>10

LEMMA RunEffect ==
    ASSUME DoorwaysAgree, PlatesSpareElevators, NEW ds, NEW m \in Effects(ds),
           NEW i \in Plate, NEW k \in DOMAIN PlateAction[i], NEW action,
           action \in IF PlateAction[i][k].action = "push" THEN {"push"} ELSE {"open", "close"}
    PROVE  Run(m, action, PlateAction[i][k].whichobj) \in Effects(ds)
<1> DEFINE obj == PlateAction[i][k].whichobj
<1>1. /\ m \in [doors : DoorTypes, walls : WallTypes, areaconnect : CountsType]
      /\ Called(ds, m.doors) /\ \A d \in Lift : m.doors[d] = ds[d]
  BY DEF Effects
<1>2. CASE PlateAction[i][k].action = "push"
  <2>1. obj \in Wall /\ action = "push"
    BY <1>2, TriggerAssumption
  <2> QED
    BY <2>1, ActivateEffect DEF Run
<1>3. CASE PlateAction[i][k].action # "push"
  <2>1. obj \in Door /\ obj \notin Lift /\ action \in {"open", "close"}
    BY <1>3, TriggerAssumption DEF PlatesSpareElevators, Lift
  <2>2. Group[obj] \in SUBSET Door /\ \A d \in Lift : d \in Door /\ d \notin Group[obj]
    BY <2>1, LiftDoors, DoorAssumption DEF Lift
  <2> HIDE DEF obj
  <2> DEFINE opened == LinkedOpenDoor(m.doors, obj)
             closed == LinkedCloseDoor(m.doors, obj)
  <2>3. Called(ds, opened) /\ Called(ds, closed)
    <3>1. m.doors \in DoorTypes /\ Together(m.doors)
      BY <1>1 DEF Called
    <3>2. Called(m.doors, opened) /\ Called(m.doors, closed)
      BY <2>1, <3>1, LinkedOpenCalled, LinkedCloseCalled
    <3> HIDE DEF opened, closed
    <3> QED
      BY <1>1, <3>2, CalledTrans
  <2>4. \A d \in Lift : opened[d] = ds[d] /\ closed[d] = ds[d]
    BY <1>1, <2>2, OpenDoorAt, CloseDoorAt DEF LinkedOpenDoor, LinkedCloseDoor
  <2> HIDE DEF opened, closed
  <2>5. [m EXCEPT !.doors = opened] \in Effects(ds) /\ [m EXCEPT !.doors = closed] \in Effects(ds)
    BY <1>1, <2>3, <2>4 DEF Effects, Called
  <2> QED
    BY <1>1, <2>1, <2>5 DEF Run, opened, closed, obj
<1> QED
  BY <1>2, <1>3

\* A turn of the pass of TriggerStuff over a plate's list.
ListTurn(i, list, k, m) ==
    IF Waiting(list[k]) /\ list[k].ticcount = 0
    THEN Run(m, list[k].action, PlateAction[i][k].whichobj) ELSE m

\* What such turns make of m one after the other.
IsPass(pass, m, i, list) ==
    /\ DOMAIN pass = 0 .. Len(list) /\ pass[0] = m
    /\ \A k \in 1 .. Len(list) : pass[k] = ListTurn(i, list, k, pass[k - 1])
    /\ pass[Len(list)] = RunList(m, i, list)

\* RunList is what they make of m, if they take M to M.
LEMMA ListPass ==
    ASSUME NEW i, NEW E, NEW list \in Seq(E), NEW M, NEW m \in M,
           \A k \in 1 .. Len(list) : \A before \in M : ListTurn(i, list, k, before) \in M
    PROVE  \E pass : IsPass(pass, m, i, list)
<1> DEFINE n == Len(list)
           Turn(k, before) == ListTurn(i, list, k, before)
           Eq(f) == f = [k \in 0 .. n |-> IF k = 0 THEN m ELSE Turn(k, f[k - 1])]
           Pass == CHOOSE f : Eq(f)
<1>1. RunList(m, i, list) = Pass[n]
  BY DEF RunList, ListTurn
<1>2. n \in Nat
  OBVIOUS
<1>3. \A k \in 1 .. n : \A before \in M : Turn(k, before) \in M
  OBVIOUS
<1> HIDE DEF Turn, n
<1>4. \E f : Eq(f)
  <2> DEFINE body == [x \in (1 .. n) \X M |-> Turn(x[1], x[2])]
  <2>1. body \in [(1 .. n) \X M -> M]
    BY <1>3
  <2>2. PICK run \in [0 .. n -> M] : Runs(run, n, m, body)
    <3> HIDE DEF body
    <3> QED
      BY <1>2, <2>1, LoopRuns
  <2>3. \A k \in 0 .. n : k # 0 => body[<<k, run[k - 1]>>] = Turn(k, run[k - 1])
    <3> SUFFICES ASSUME NEW k \in 0 .. n, k # 0
                 PROVE  body[<<k, run[k - 1]>>] = Turn(k, run[k - 1])
      OBVIOUS
    <3>1. k \in 1 .. n /\ k - 1 \in 0 .. n
      BY <1>2
    <3>2. <<k, run[k - 1]>> \in (1 .. n) \X M
      BY <3>1
    <3> QED
      BY <3>2
  <2>4. \A k \in 0 .. n : run[k] = IF k = 0 THEN m ELSE body[<<k, run[k - 1]>>]
    BY <2>2 DEF Runs
  <2> HIDE DEF body
  <2>5. \A k \in 0 .. n : run[k] = IF k = 0 THEN m ELSE Turn(k, run[k - 1])
    BY <2>3, <2>4
  <2>6. Eq(run)
    BY <2>5
  <2> QED
    BY <2>6
<1>5. Eq(Pass)
  BY <1>4
<1> HIDE DEF Pass
<1>6. /\ DOMAIN Pass = 0 .. n
      /\ \A k \in 0 .. n : Pass[k] = IF k = 0 THEN m ELSE Turn(k, Pass[k - 1])
  BY <1>5
<1>7. Pass[0] = m /\ \A k \in 1 .. n : Pass[k] = Turn(k, Pass[k - 1])
  BY <1>2, <1>6
<1> QED
  BY <1>1, <1>6, <1>7 DEF Turn, n, IsPass

\* What an entry that runs may do.
LEMMA EntryRuns ==
    ASSUME NEW i \in Plate, NEW list, ListOK(i, list), NEW E, list \in Seq(E),
           NEW k \in 1 .. Len(list), Waiting(list[k])
    PROVE  /\ k \in DOMAIN PlateAction[i]
           /\ list[k].action \in {PlateAction[i][k].action, PlateAction[i][k].swapaction}
           /\ list[k].action \in IF PlateAction[i][k].action = "push" THEN {"push"} ELSE {"open", "close"}
<1>1. DOMAIN list = 1 .. Len(list)
  OBVIOUS
<1>2. /\ k \in DOMAIN PlateAction[i] /\ list[k].action # "none"
      /\ list[k].action \in {PlateAction[i][k].action, PlateAction[i][k].swapaction}
  BY <1>1 DEF ListOK, Waiting
<1>3. \/ /\ PlateAction[i][k].action \in {"open", "close"}
         /\ PlateAction[i][k].swapaction \in {"open", "close"}
      \/ PlateAction[i][k].action = "push" /\ PlateAction[i][k].swapaction = "none"
  BY <1>2, TriggerAssumption
<1> QED
  BY <1>2, <1>3

LEMMA ListTurnEffect ==
    ASSUME DoorwaysAgree, PlatesSpareElevators, NEW ds, NEW m \in Effects(ds),
           NEW i \in Plate, NEW list, ListOK(i, list), NEW E, list \in Seq(E),
           NEW k \in 1 .. Len(list)
    PROVE  ListTurn(i, list, k, m) \in Effects(ds)
<1>1. ASSUME Waiting(list[k])
      PROVE  Run(m, list[k].action, PlateAction[i][k].whichobj) \in Effects(ds)
  BY <1>1, EntryRuns, RunEffect
<1> QED
  BY <1>1 DEF ListTurn

LEMMA RunListEffect ==
    ASSUME DoorwaysAgree, PlatesSpareElevators, NEW ds, NEW m \in Effects(ds),
           NEW i \in Plate, NEW list, ListOK(i, list), NEW E, list \in Seq(E)
    PROVE  RunList(m, i, list) \in Effects(ds)
<1> DEFINE n == Len(list)
           M == Effects(ds)
<1>1. n \in Nat /\ m \in M
  OBVIOUS
<1>2. \A k \in 1 .. n : \A before \in M : ListTurn(i, list, k, before) \in M
  BY ListTurnEffect
<1> HIDE DEF M
<1>3. PICK pass : IsPass(pass, m, i, list)
  BY <1>1, <1>2, ListPass
<1>4. \A k \in 1 .. n : pass[k - 1] \in M => pass[k] \in M
  BY <1>2, <1>3 DEF IsPass
<1>5. pass[n] \in M
  <2>1. DOMAIN pass = 0 .. n /\ pass[0] \in M
    BY <1>1, <1>3 DEF IsPass
  <2> HIDE DEF n
  <2> QED
    BY <1>1, <1>4, <2>1, LoopStays
<1> QED
  BY <1>3, <1>5 DEF M, IsPass

\* What waits for a door before the actors' loop finds it as MoveDoors left it.
LEMMA WaitsKept ==
    ASSUME WaitInv, phase \in {"elevators", "walls", "plates"}, turn \in 1 .. Count(phase), Advance,
           door_to_open \in [Enemy -> Door \cup {NoDoor}], UNCHANGED door_to_open,
           \A a \in Actor : place[a] \notin DoorTile => place'[a] \notin DoorTile,
           \A d \in Lift : doors[d].action \in {"opening", "open"} =>
                               doors'[d].action \in {"opening", "open"}
    PROVE  WaitInv'
<1> SUFFICES ASSUME NEW a \in Enemy, door_to_open[a] # NoDoor
             PROVE  /\ place'[a] \notin DoorTile
                    /\ ElevatorDoors(door_to_open[a]) # {} => Awaited(a, door_to_open[a])'
  BY DEF WaitInv
<1> DEFINE d == door_to_open[a]
<1>1. a \in Actor /\ a \in Int /\ a >= 1 /\ d \in Door
  BY LevelAssumption, LevelConstants DEF Actor
<1>2. place'[a] \notin DoorTile
  BY <1>1 DEF WaitInv
<1>3. ASSUME ElevatorDoors(d) # {}
      PROVE  Awaited(a, d)'
  <2>1. Awaited(a, d) /\ d \in Lift
    BY <1>1, <1>3 DEF WaitInv, Lift
  <2> HIDE DEF d
  <2>2. doors'[d].action \in {"opening", "open"}
    BY <2>1 DEF Awaited
  <2>3. phase \in Phases
    BY DEF Phases
  <2>4. /\ phase' # "doors"
        /\ phase' = "actors" => turn' = 1
    BY <2>3, AdvanceType DEF After
  <2>5. ~(phase' = "doors" /\ turn' <= d) /\ ~(phase' = "actors" /\ turn' > a)
    BY <1>1, <2>4
  <2> QED
    BY <2>2, <2>5 DEF Awaited, d
<1> QED
  BY <1>2, <1>3

LEMMA EntryFields ==
    ASSUME NEW i \in Plate, NEW list \in Seq(PlateEntry), ListOK(i, list)
    PROVE  /\ Len(list) \in Nat /\ DOMAIN list = 1 .. Len(list)
           /\ \A k \in DOMAIN list :
                /\ k \in DOMAIN PlateAction[i] /\ list[k] \in PlateEntry
                /\ PlateAction[i][k].tictime \in Nat
                /\ list[k].ticcount \in Nat /\ list[k].ticcount <= PlateAction[i][k].tictime
<1>1. Len(list) \in Nat /\ DOMAIN list = 1 .. Len(list) /\ \A k \in DOMAIN list : list[k] \in PlateEntry
  OBVIOUS
<1>2. \A k \in DOMAIN list : k \in DOMAIN PlateAction[i] /\ list[k].ticcount <= PlateAction[i][k].tictime
  BY DEF ListOK
<1>3. \A k \in DOMAIN PlateAction[i] : PlateAction[i][k].tictime \in Nat
  BY TriggerAssumption
<1>4. \A k \in DOMAIN list : list[k].ticcount \in Nat
  BY <1>1 DEF PlateEntry
<1> QED
  BY <1>1, <1>2, <1>3, <1>4

\* A list made entry by entry from a list of a plate, each for the same thing.
LEMMA NewList ==
    ASSUME NEW i \in Plate, NEW list \in Seq(PlateEntry), ListOK(i, list),
           NEW new, new = [k \in DOMAIN list |-> new[k]],
           \A k \in DOMAIN list :
               /\ new[k] \in PlateEntry
               /\ {new[k].action, new[k].swapaction} \subseteq {list[k].action, list[k].swapaction}
               /\ new[k].ticcount <= PlateAction[i][k].tictime
    PROVE  new \in Seq(PlateEntry) /\ ListOK(i, new)
<1>1. DOMAIN list = 1 .. Len(list) /\ Len(list) \in Nat
  BY EntryFields
<1>2. new \in [1 .. Len(list) -> PlateEntry]
  BY <1>1
<1>3. new \in Seq(PlateEntry)
  BY <1>1, <1>2
<1>4. ListOK(i, new)
  BY DEF ListOK
<1> QED
  BY <1>3, <1>4

LEMMA EntryUpdate ==
    ASSUME NEW A, NEW r \in [action : A, swapaction : A, ticcount : Nat, triggered : BOOLEAN],
           NEW t \in Nat, NEW b \in BOOLEAN
    PROVE  /\ [r EXCEPT !.ticcount = t] \in [action : A, swapaction : A, ticcount : Nat, triggered : BOOLEAN]
           /\ [r EXCEPT !.ticcount = t].action = r.action
           /\ [r EXCEPT !.ticcount = t].swapaction = r.swapaction
           /\ [r EXCEPT !.ticcount = t].ticcount = t
           /\ [r EXCEPT !.triggered = b] \in [action : A, swapaction : A, ticcount : Nat, triggered : BOOLEAN]
           /\ [r EXCEPT !.triggered = b].action = r.action
           /\ [r EXCEPT !.triggered = b].swapaction = r.swapaction
           /\ [r EXCEPT !.triggered = b].ticcount = r.ticcount
OBVIOUS

LEMMA ListAfterOK ==
    ASSUME NEW i \in Plate, NEW list \in Seq(PlateEntry), ListOK(i, list)
    PROVE  ListAfter(i, list) \in Seq(PlateEntry) /\ ListOK(i, ListAfter(i, list))
<1> DEFINE new == ListAfter(i, list)
<1>1. /\ DOMAIN new = DOMAIN list /\ new = [k \in DOMAIN list |-> new[k]]
      /\ \A k \in DOMAIN list : new[k] =
             IF ~Waiting(list[k]) THEN list[k]
             ELSE IF list[k].ticcount > 0 THEN [list[k] EXCEPT !.ticcount = list[k].ticcount - 1]
             ELSE [action |-> list[k].swapaction, swapaction |-> list[k].action,
                   ticcount |-> PlateAction[i][k].tictime, triggered |-> TRUE]
  BY DEF ListAfter
<1> HIDE DEF new
<1>2. ASSUME NEW k \in DOMAIN list
      PROVE  /\ new[k] \in PlateEntry
             /\ {new[k].action, new[k].swapaction} \subseteq {list[k].action, list[k].swapaction}
             /\ new[k].ticcount <= PlateAction[i][k].tictime
  <2>1. /\ list[k] \in PlateEntry /\ PlateAction[i][k].tictime \in Nat
        /\ list[k].ticcount \in Nat /\ list[k].ticcount <= PlateAction[i][k].tictime
    BY EntryFields
  <2>2. CASE ~Waiting(list[k])
    BY <1>1, <2>1, <2>2
  <2>3. CASE Waiting(list[k]) /\ list[k].ticcount > 0
    <3> DEFINE t == list[k].ticcount - 1
    <3>1. new[k] = [list[k] EXCEPT !.ticcount = t] /\ t \in Nat /\ t <= PlateAction[i][k].tictime
      BY <1>1, <2>1, <2>3
    <3> HIDE DEF t
    <3> QED
      BY <2>1, <3>1, EntryUpdate DEF PlateEntry
  <2>4. CASE Waiting(list[k]) /\ ~ list[k].ticcount > 0
    <3>1. new[k] = [action |-> list[k].swapaction, swapaction |-> list[k].action,
                    ticcount |-> PlateAction[i][k].tictime, triggered |-> TRUE]
      BY <1>1, <2>4
    <3>2. list[k].action \in PlateDoes /\ list[k].swapaction \in PlateDoes
      BY <2>1 DEF PlateEntry
    <3> QED
      BY <2>1, <3>1, <3>2 DEF PlateEntry
  <2> QED
    BY <2>2, <2>3, <2>4
<1> QED
  BY <1>1, <1>2, NewList DEF new

LEMMA RearmedOK ==
    ASSUME NEW i \in Plate, NEW p \in PlateState, ListOK(i, p.list)
    PROVE  RearmedPlate(p) \in PlateState /\ ListOK(i, RearmedPlate(p).list)
<1> DEFINE list == p.list
           new == [k \in DOMAIN list |-> [list[k] EXCEPT !.triggered = FALSE]]
<1>1. p \in [complete : BOOLEAN, done : BOOLEAN, list : Seq(PlateEntry)]
  BY DEF PlateState
<1>2. list \in Seq(PlateEntry) /\ ListOK(i, list)
  BY <1>1
<1> HIDE DEF list
<1>3. ASSUME NEW k \in DOMAIN list
      PROVE  /\ new[k] \in PlateEntry
             /\ {new[k].action, new[k].swapaction} \subseteq {list[k].action, list[k].swapaction}
             /\ new[k].ticcount <= PlateAction[i][k].tictime
  <2>1. list[k] \in PlateEntry /\ list[k].ticcount <= PlateAction[i][k].tictime
    BY <1>2, EntryFields
  <2> QED
    BY <2>1, EntryUpdate DEF PlateEntry
<1>4. new = [k \in DOMAIN list |-> new[k]]
  OBVIOUS
<1> HIDE DEF new
<1>5. new \in Seq(PlateEntry) /\ ListOK(i, new)
  BY <1>2, <1>3, <1>4, NewList
<1>6. RearmedPlate(p) = [p EXCEPT !.done = FALSE, !.list = new]
  BY <1>1 DEF RearmedPlate, new, list
<1>7. RearmedPlate(p) \in [complete : BOOLEAN, done : BOOLEAN, list : Seq(PlateEntry)]
      /\ RearmedPlate(p).list = new
  BY <1>1, <1>5, <1>6
<1> QED
  BY <1>5, <1>7 DEF PlateState

LEMMA PlateAfterOK ==
    ASSUME NEW i \in Plate, NEW list \in Seq(PlateEntry), ListOK(i, list)
    PROVE  PlateAfter(list) \in PlateState /\ ListOK(i, PlateAfter(list).list)
<1>1. PlateAfter(list) \in [complete : BOOLEAN, done : BOOLEAN, list : Seq(PlateEntry)]
      /\ PlateAfter(list).list = list
  BY DEF PlateAfter
<1> QED
  BY <1>1 DEF PlateState

LEMMA NoEffect ==
    ASSUME TypeInv, DoorsInv
    PROVE  Effect(doors, walls, areaconnect) \in Effects(doors)
<1>1. doors \in DoorTypes /\ areaconnect \in CountsType /\ Together(doors)
  BY DEF TypeInv, LevelTypeOK, DoorsInv, DoorTypes, CountsType
<1>2. walls \in WallTypes
  BY DEF TypeInv, LevelTypeOK, WallTypes
<1>3. Called(doors, doors)
  BY <1>1, CalledSame
<1> QED
  BY <1>1, <1>2, <1>3 DEF Effect, Effects

\* A turn of MovePWalls or TriggerStuff.
QuietTypes ==
    /\ areabyplayer' \in SUBSET Area /\ TRIGGER' \subseteq Plate
    /\ plates' \in [Plate -> PlateState] /\ \A i \in Plate : ListOK(i, plates'[i].list)

LEMMA TakeEffectTypes ==
    ASSUME TypeInv, NEW m, TakeEffect(m)
    PROVE  areabyplayer' \in SUBSET Area
<1>1. areabyplayer \in SUBSET Area /\ place \in [Actor -> Place]
  BY DEF TypeInv, LevelTypeOK
<1>2. ConnectedWith(m.areaconnect, PlayerAreas(place)) \in SUBSET Area
  BY <1>1, PlayerAreasType, ConnectedType
<1> QED
  BY <1>1, <1>2 DEF TakeEffect, ConnectAreas

LEMMA QuietInv ==
    ASSUME WellBuilt, LevelInv, phase \in {"walls", "plates"}, Advance, QuietTypes,
           NEW m \in Effects(doors),
           doors' = m.doors, walls' = m.walls, areaconnect' = m.areaconnect,
           UNCHANGED <<elevator, place, door_to_open, cabin, rushed>>
    PROVE  LevelInv'
<1>1. /\ doors' \in DoorTypes /\ walls' \in WallTypes /\ areaconnect' \in CountsType
      /\ Called(doors, doors') /\ \A d \in Lift : doors'[d] = doors[d]
  BY DEF Effects
<1>2. /\ phase \in Phases /\ turn \in 1 .. Count(phase) /\ TypeInv /\ LevelTypeOK
      /\ cabin \in [Elevator -> {"source", "dest"}] /\ phase # "actors"
      /\ door_to_open \in [Enemy -> Door \cup {NoDoor}]
  BY DEF LevelInv, TypeInv, LevelTypeOK
<1>3. phase' \in Phases /\ turn' \in 1 .. Count(phase)'
  BY <1>2, AdvanceType
<1>4. TypeInv'
  <2>1. /\ \A w \in Wall : walls'[w] \in WallState(w)
        /\ walls' = [w \in Wall |-> walls'[w]]
    BY <1>1 DEF WallTypes
  <2>2. \A i \in Plate : \A k \in DOMAIN PlateAction[i] :
            plates'[i].list[k].ticcount \in 0 .. PlateAction[i][k].tictime
    <3> SUFFICES ASSUME NEW i \in Plate, NEW k \in DOMAIN PlateAction[i]
                 PROVE  plates'[i].list[k].ticcount \in 0 .. PlateAction[i][k].tictime
      OBVIOUS
    <3>1. plates'[i].list \in Seq(PlateEntry) /\ ListOK(i, plates'[i].list)
      BY DEF QuietTypes, PlateState
    <3>2. k \in DOMAIN plates'[i].list
      BY <3>1 DEF ListOK
    <3> QED
      BY <3>1, <3>2, EntryFields
  <2>3. LevelTypeOK'
    BY <1>1, <1>2, <1>3, <2>1, <2>2 DEF LevelTypeOK, QuietTypes, DoorTypes, CountsType
  <2> QED
    BY <2>1, <2>3 DEF TypeInv, QuietTypes
<1>5. DoorsInv'
  <2>1. Together(doors') /\ HeldOpen(doors, doors')
    BY <1>1 DEF Called
  <2>2. Marks'
    BY <1>2, <2>1, MarksKept DEF LevelInv, DoorsInv
  <2> QED
    BY <2>1, <2>2 DEF DoorsInv
<1>6. CabinsOK'
  BY <1>1, <1>2, CabinsKept DEF Called, LevelInv, ShaftInv
<1>7. NobodyLeftBehind'
  BY DEF LevelInv, ShaftInv, NobodyLeftBehind
<1>8. WaitInv'
  <2>1. phase \in {"elevators", "walls", "plates"} /\ WaitInv
    BY DEF LevelInv, ShaftInv
  <2> QED
    BY <1>1, <1>2, <2>1, WaitsKept
<1> QED
  BY <1>4, <1>5, <1>6, <1>7, <1>8 DEF LevelInv, ShaftInv

LEMMA MovePWallInv ==
    ASSUME WellBuilt, LevelInv, MovePWall
    PROVE  LevelInv'
<1> DEFINE start == Effect(doors, walls, areaconnect)
           m == IF walls[turn].action = "pushing" THEN WallPushing(start, turn) ELSE start
<1>1. start \in Effects(doors)
  BY NoEffect DEF LevelInv
<1>2. turn \in Wall
  BY DEF MovePWall
<1> HIDE DEF start
<1>3. m \in Effects(doors)
  BY <1>1, <1>2, WallPushingEffect
<1>4. TakeEffect(m) /\ phase = "walls" /\ Advance
      /\ UNCHANGED <<elevator, plates, TRIGGER, place, door_to_open, cabin, rushed>>
  BY DEF MovePWall, start
<1> HIDE DEF m
<1>5. doors' = m.doors /\ walls' = m.walls /\ areaconnect' = m.areaconnect
  BY <1>4 DEF TakeEffect
<1>6. QuietTypes
  BY <1>4, TakeEffectTypes DEF QuietTypes, LevelInv, TypeInv, LevelTypeOK
<1> QED
  BY <1>3, <1>4, <1>5, <1>6, QuietInv

LEMMA TriggerStuffInv ==
    ASSUME WellBuilt, LevelInv, TriggerStuff
    PROVE  LevelInv'
<1> DEFINE start == Effect(doors, walls, areaconnect)
<1>1. /\ turn \in Plate /\ phase = "plates" /\ Advance
      /\ UNCHANGED <<elevator, place, door_to_open, cabin, rushed>>
      /\ PlateRests(turn) \/ PlateRearms(turn) \/ PlateRuns(turn)
  BY DEF TriggerStuff
<1>2. /\ start \in Effects(doors)
      /\ start.doors = doors /\ start.walls = walls /\ start.areaconnect = areaconnect
  <2>1. start \in Effects(doors)
    BY NoEffect DEF LevelInv
  <2> QED
    BY <2>1 DEF Effect
<1> HIDE DEF start
<1>3. /\ areabyplayer \in SUBSET Area /\ TRIGGER \subseteq Plate
      /\ plates \in [Plate -> PlateState] /\ \A i \in Plate : ListOK(i, plates[i].list)
  BY DEF LevelInv, TypeInv, LevelTypeOK
<1>4. plates[turn] \in PlateState /\ plates[turn].list \in Seq(PlateEntry)
      /\ ListOK(turn, plates[turn].list)
  BY <1>1, <1>3 DEF PlateState
<1>5. ASSUME NEW p \in PlateState, ListOK(turn, p.list)
      PROVE  /\ [plates EXCEPT ![turn] = p] \in [Plate -> PlateState]
             /\ \A i \in Plate : ListOK(i, [plates EXCEPT ![turn] = p][i].list)
  BY <1>1, <1>3, <1>5
<1>6. CASE PlateRests(turn)
  <2>1. QuietTypes
    BY <1>3, <1>6 DEF PlateRests, QuietTypes
  <2>2. doors' = start.doors /\ walls' = start.walls /\ areaconnect' = start.areaconnect
    BY <1>2, <1>6 DEF PlateRests
  <2> QED
    BY <1>1, <1>2, <2>1, <2>2, QuietInv
<1>7. CASE PlateRearms(turn)
  <2> DEFINE p == RearmedPlate(plates[turn])
  <2>1. p \in PlateState /\ ListOK(turn, p.list)
    BY <1>1, <1>4, RearmedOK
  <2>2. /\ plates' = [plates EXCEPT ![turn] = p] /\ TRIGGER' = TRIGGER \ {turn}
        /\ UNCHANGED <<doors, walls, areaconnect, areabyplayer>>
    BY <1>7 DEF PlateRearms
  <2> HIDE DEF p
  <2>3. QuietTypes
    BY <1>3, <1>5, <2>1, <2>2 DEF QuietTypes
  <2>4. doors' = start.doors /\ walls' = start.walls /\ areaconnect' = start.areaconnect
    BY <1>2, <2>2
  <2> QED
    BY <1>1, <1>2, <2>3, <2>4, QuietInv
<1>8. CASE PlateRuns(turn)
  <2> DEFINE list == plates[turn].list
             p == PlateAfter(ListAfter(turn, list))
             m == RunList(start, turn, list)
  <2>1. /\ plates' = [plates EXCEPT ![turn] = p] /\ UNCHANGED TRIGGER
        /\ TakeEffect(m)
    BY <1>8 DEF PlateRuns, start
  <2>2. list \in Seq(PlateEntry) /\ ListOK(turn, list)
    BY <1>4
  <2> HIDE DEF list
  <2>3. p \in PlateState /\ ListOK(turn, p.list)
    <3>1. ListAfter(turn, list) \in Seq(PlateEntry) /\ ListOK(turn, ListAfter(turn, list))
      BY <1>1, <2>2, ListAfterOK
    <3> QED
      BY <1>1, <3>1, PlateAfterOK
  <2>4. m \in Effects(doors)
    BY <1>1, <1>2, <2>2, RunListEffect DEF WellBuilt
  <2> HIDE DEF p, m
  <2>5. areabyplayer' \in SUBSET Area
    BY <2>1, TakeEffectTypes DEF LevelInv
  <2>6. QuietTypes
    BY <1>3, <1>5, <2>1, <2>3, <2>5 DEF QuietTypes
  <2>7. doors' = m.doors /\ walls' = m.walls /\ areaconnect' = m.areaconnect
    BY <2>1 DEF TakeEffect
  <2> QED
    BY <1>1, <2>4, <2>6, <2>7, QuietInv
<1> QED
  BY <1>1, <1>6, <1>7, <1>8

-----------------------------------------------------------------------------
(* ProcessElevators                                                        *)

\* The doors of the elevators are all different.
LEMMA LiftDoorsApart ==
    ASSUME NEW e \in Elevator, NEW cab \in {"source", "dest"}
    PROVE  /\ DoorHere(e, cab) \in Lift /\ DoorThere(e, cab) \in Lift
           /\ DoorHere(e, cab) \in Door /\ DoorThere(e, cab) \in Door
           /\ DoorHere(e, cab) # DoorThere(e, cab)
           /\ \A f \in Elevator, c \in {"source", "dest"} : f # e =>
                  /\ DoorHere(f, c) \notin {DoorHere(e, cab), DoorThere(e, cab)}
                  /\ DoorThere(f, c) \notin {DoorHere(e, cab), DoorThere(e, cab)}
<1>1. /\ Door1[e] \in Lift /\ Door2[e] \in Lift /\ Door1[e] \in Door /\ Door2[e] \in Door
  BY LiftDoors DEF Lift
<1>2. \A f \in Elevator : /\ Door1[e] # Door2[f] /\ Door1[f] # Door2[e]
                          /\ f # e => Door1[e] # Door1[f] /\ Door2[e] # Door2[f]
  BY ElevatorAssumption
<1> QED
  BY <1>1, <1>2 DEF DoorHere, DoorThere

\* A turn of ProcessElevators, but for the machines themselves.
LEMMA MachineInv ==
    ASSUME WellBuilt, LevelInv, ProcessElevator,
           doors' \in DoorTypes, Together(doors'), HeldOpen(doors, doors'),
           \A d \in Lift : doors[d].action \in {"opening", "open"} =>
                               doors'[d].action \in {"opening", "open"},
           elevator' \in [Elevator -> ElevatorState],
           cabin' \in [Elevator -> {"source", "dest"}], CabinsOK',
           place' \in [Actor -> Place], NobodyLeftBehind',
           \A d \in Door, b \in Actor : place'[b] = Tile[d] <=> place[b] = Tile[d]
    PROVE  LevelInv'
<1>1. /\ phase = "elevators" /\ Advance
      /\ UNCHANGED <<areaconnect, areabyplayer, walls, plates, TRIGGER, door_to_open, rushed>>
  BY DEF ProcessElevator, ElevatorWaits, ElevatorStops, ElevatorStarts, ElevatorRests, Elevating
<1>2. /\ phase \in Phases /\ turn \in 1 .. Count(phase) /\ TypeInv /\ LevelTypeOK /\ phase # "actors"
      /\ door_to_open \in [Enemy -> Door \cup {NoDoor}]
  BY <1>1 DEF LevelInv, TypeInv, LevelTypeOK
<1>3. phase' \in Phases /\ turn' \in 1 .. Count(phase)'
  BY <1>1, <1>2, AdvanceType
<1>4. TypeInv'
  <2>1. LevelTypeOK'
    BY <1>1, <1>2, <1>3 DEF LevelTypeOK, DoorTypes
  <2> QED
    BY <1>1, <1>2, <2>1 DEF TypeInv
<1>5. Marks'
  BY <1>1, <1>2, MarksKept DEF LevelInv, DoorsInv
<1>6. \A a \in Actor : place[a] \notin DoorTile => place'[a] \notin DoorTile
  BY DEF DoorTile
<1>7. WaitInv'
  <2>1. phase \in {"elevators", "walls", "plates"} /\ WaitInv
    BY <1>1 DEF LevelInv, ShaftInv
  <2> QED
    BY <1>1, <1>2, <1>6, <2>1, WaitsKept
<1> QED
  BY <1>4, <1>5, <1>7 DEF LevelInv, DoorsInv, ShaftInv

\* A turn in which the machine is all that changes.
LEMMA MachineOnlyInv ==
    ASSUME WellBuilt, LevelInv, ProcessElevator, turn \in Elevator, UNCHANGED <<doors, place, cabin>>,
           NEW ev \in ElevatorState, elevator' = [elevator EXCEPT ![turn] = ev],
           CabinOK(doors, ev, turn, cabin[turn])
    PROVE  LevelInv'
<1>1. /\ doors \in DoorTypes /\ Together(doors) /\ elevator \in [Elevator -> ElevatorState]
      /\ cabin \in [Elevator -> {"source", "dest"}] /\ place \in [Actor -> Place]
      /\ CabinsOK /\ NobodyLeftBehind
  BY DEF LevelInv, TypeInv, LevelTypeOK, DoorsInv, ShaftInv, DoorTypes
<1>2. elevator' \in [Elevator -> ElevatorState]
  BY <1>1
<1>3. CabinsOK'
  <2> SUFFICES ASSUME NEW e \in Elevator
               PROVE  CabinOK(doors, elevator'[e], e, cabin[e])
    BY DEF CabinsOK
  <2>1. CASE e = turn
    BY <1>1, <2>1
  <2>2. CASE e # turn
    BY <1>1, <2>2 DEF CabinsOK
  <2> QED
    BY <2>1, <2>2
<1>4. HeldOpen(doors, doors') /\ Together(doors') /\ doors' \in DoorTypes
  BY <1>1 DEF HeldOpen
<1>5. NobodyLeftBehind'
  BY <1>1 DEF NobodyLeftBehind
<1> QED
  BY <1>1, <1>2, <1>3, <1>4, <1>5, MachineInv

LEMMA ElevatorFields ==
    ASSUME LevelInv, turn \in Elevator
    PROVE  /\ elevator \in [Elevator -> ElevatorState] /\ elevator[turn] \in ElevatorState
           /\ cabin[turn] \in {"source", "dest"} /\ CabinOK(doors, elevator[turn], turn, cabin[turn])
           /\ TripTime \in Nat /\ OPENTICS \in Nat
BY ElevatorAssumption, DoorAssumption DEF LevelInv, TypeInv, LevelTypeOK, ShaftInv, CabinsOK

LEMMA ElevatorWaitsInv ==
    ASSUME WellBuilt, LevelInv, ProcessElevator, ElevatorWaits
    PROVE  LevelInv'
<1> DEFINE ev == elevator[turn]
           new == [ev EXCEPT !.ticcount = ev.ticcount - 1]
<1>1. turn \in Elevator /\ ev.ticcount > 0 /\ UNCHANGED <<doors, place, cabin>>
  BY DEF ElevatorWaits, Elevating
<1>2. /\ elevator \in [Elevator -> ElevatorState] /\ ev \in ElevatorState
      /\ cabin[turn] \in {"source", "dest"} /\ CabinOK(doors, ev, turn, cabin[turn])
      /\ TripTime \in Nat /\ OPENTICS \in Nat
  BY <1>1, ElevatorFields
<1>3. elevator' = [elevator EXCEPT ![turn] = new]
  BY <1>1, <1>2 DEF ElevatorWaits
<1> HIDE DEF ev
<1>4. new \in ElevatorState
  BY <1>1, <1>2 DEF ElevatorState
<1>5. CabinOK(doors, new, turn, cabin[turn])
  <2>1. /\ new.state = ev.state /\ new.nextaction = ev.nextaction
        /\ new.doorclosing = ev.doorclosing /\ new.doortoopen = ev.doortoopen
    BY <1>2 DEF ElevatorState
  <2> QED
    BY <1>2, <2>1 DEF CabinOK
<1> HIDE DEF new
<1> QED
  BY <1>1, <1>3, <1>4, <1>5, MachineOnlyInv

LEMMA ElevatorStartsInv ==
    ASSUME WellBuilt, LevelInv, ProcessElevator, ElevatorStarts
    PROVE  LevelInv'
<1> DEFINE e == turn
           ev == elevator[turn]
           cab == cabin[turn]
           started == [ev EXCEPT !.state = ev.nextaction, !.nextaction = "none",
                                 !.doorclosing = NoDoor, !.ticcount = TripTime,
                                 !.doortoopen = IF ev.nextaction = "mtd"
                                                THEN Door2[turn] ELSE Door1[turn]]
           ready == [ev EXCEPT !.state = IF ev.doorclosing = Door1[turn] THEN "ras" ELSE "rad",
                               !.doorclosing = NoDoor]
           new == IF doors[ev.doorclosing].action # "closed" THEN ev
                  ELSE IF ev.nextaction # "none" THEN started ELSE ready
<1>1. turn \in Elevator /\ ev.state = "doorclosing" /\ UNCHANGED <<doors, place, cabin>>
  BY DEF ElevatorStarts, Elevating
<1>2. /\ elevator \in [Elevator -> ElevatorState] /\ ev \in ElevatorState
      /\ cab \in {"source", "dest"} /\ CabinOK(doors, ev, turn, cab)
      /\ TripTime \in Nat /\ OPENTICS \in Nat
  BY <1>1, ElevatorFields
<1>3. elevator' = [elevator EXCEPT ![turn] = new]
  <2>1. elevator = [elevator EXCEPT ![turn] = ev]
    BY <1>2
  <2> QED
    BY <1>2, <2>1 DEF ElevatorStarts, CheckElevatorStart, Machines
<1>4. /\ Door1[turn] \in Door /\ Door2[turn] \in Door /\ Door1[turn] # Door2[turn]
      /\ DoorHere(turn, cab) = (IF cab = "source" THEN Door1[turn] ELSE Door2[turn])
      /\ DoorThere(turn, cab) = (IF cab = "source" THEN Door2[turn] ELSE Door1[turn])
  BY <1>1, ElevatorAssumption DEF DoorHere, DoorThere
<1>5. /\ ev.doorclosing = DoorHere(turn, cab) /\ Shut(doors, DoorThere(turn, cab))
      /\ ev.nextaction # "none" =>
             /\ doors[DoorHere(turn, cab)].elevlocked
             /\ ev.nextaction = IF cab = "source" THEN "mtd" ELSE "mts"
  BY <1>1, <1>2 DEF CabinOK
<1>6. DOMAIN ev = {"state", "nextaction", "doortoopen", "doorclosing", "ticcount", "flipped"}
  BY <1>2 DEF ElevatorState
<1> HIDE DEF ev, cab
<1>7. /\ started.state = ev.nextaction /\ started.nextaction = "none"
      /\ started.doorclosing = NoDoor
      /\ started.doortoopen = IF ev.nextaction = "mtd" THEN Door2[turn] ELSE Door1[turn]
  BY <1>6
<1>8. /\ ready.state = (IF ev.doorclosing = Door1[turn] THEN "ras" ELSE "rad")
      /\ ready.nextaction = ev.nextaction /\ ready.doorclosing = NoDoor
      /\ ready.doortoopen = ev.doortoopen
  BY <1>6
<1>9. ev.nextaction # "none" => started \in ElevatorState
  <2>1. TripTime \in 0 .. TripTime + OPENTICS
    BY <1>2
  <2>2. ev.nextaction # "none" => ev.nextaction \in {"mts", "mtd"}
    BY <1>2 DEF ElevatorState
  <2> DEFINE dto == IF ev.nextaction = "mtd" THEN Door2[turn] ELSE Door1[turn]
  <2>3. dto \in Door
    BY <1>4
  <2>4. started = [ev EXCEPT !.state = ev.nextaction, !.nextaction = "none", !.doorclosing = NoDoor,
                             !.ticcount = TripTime, !.doortoopen = dto]
    BY DEF started
  <2> HIDE DEF dto
  <2> QED
    BY <1>2, <2>1, <2>2, <2>3, <2>4 DEF ElevatorState
<1>10. ready \in ElevatorState
  BY <1>2, <1>4 DEF ElevatorState
<1> HIDE DEF started, ready
<1>11. new \in ElevatorState
  BY <1>2, <1>9, <1>10
<1>12. CabinOK(doors, new, turn, cab)
  <2>1. CASE doors[ev.doorclosing].action # "closed"
    BY <1>2, <2>1
  <2>2. CASE doors[ev.doorclosing].action = "closed" /\ ev.nextaction # "none"
    <3>1. Shut(doors, DoorHere(turn, cab)) /\ new = started
      BY <1>5, <2>2 DEF Shut
    <3> HIDE DEF new
    <3> QED
      BY <1>2, <1>4, <1>5, <1>7, <2>2, <3>1 DEF CabinOK
  <2>3. CASE doors[ev.doorclosing].action = "closed" /\ ev.nextaction = "none"
    <3>1. new = ready
      BY <2>3
    <3> HIDE DEF new
    <3> QED
      BY <1>2, <1>4, <1>5, <1>8, <2>3, <3>1 DEF CabinOK
  <2> QED
    BY <2>1, <2>2, <2>3
<1> HIDE DEF new
<1> QED
  BY <1>1, <1>3, <1>11, <1>12, MachineOnlyInv DEF cab

LEMMA ElevatorRestsInv ==
    ASSUME WellBuilt, LevelInv, ProcessElevator, ElevatorRests
    PROVE  LevelInv'
<1>1. turn \in Elevator /\ UNCHANGED <<doors, elevator, place, cabin>>
  BY DEF ElevatorRests, Elevating
<1>2. /\ elevator \in [Elevator -> ElevatorState] /\ elevator[turn] \in ElevatorState
      /\ CabinOK(doors, elevator[turn], turn, cabin[turn])
  BY <1>1, ElevatorFields
<1>3. elevator' = [elevator EXCEPT ![turn] = elevator[turn]]
  BY <1>1, <1>2
<1> QED
  BY <1>1, <1>2, <1>3, MachineOnlyInv

\* The elevator arrives: its other door is unlocked and told to open, and who
\* was in the one cell is in the other.
LEMMA ElevatorStopsInv ==
    ASSUME WellBuilt, LevelInv, ProcessElevator, ElevatorStops
    PROVE  LevelInv'
<1> DEFINE e == turn
           ev == elevator[turn]
           cab == cabin[turn]
           here == DoorHere(turn, cab)
           there == DoorThere(turn, cab)
           away == IF cab = "source" THEN "dest" ELSE "source"
           startcell == IF cab = "source" THEN CellS[turn] ELSE CellD[turn]
           destcell == IF cab = "source" THEN CellD[turn] ELSE CellS[turn]
           unlocked == [doors EXCEPT ![there].elevlocked = FALSE]
           start == IF ev.state = "mtd" THEN "source" ELSE "dest"
           stopped == [ev EXCEPT !.state = "doorclosing", !.doorclosing = there,
                                 !.flipped = @ \ {start}, !.ticcount = OPENTICS,
                                 !.doortoopen = NoDoor]
<1>1. turn \in Elevator /\ ev.state \in {"mts", "mtd"}
  BY DEF ElevatorStops, Elevating
<1>2. /\ elevator \in [Elevator -> ElevatorState] /\ ev \in ElevatorState
      /\ cab \in {"source", "dest"} /\ CabinOK(doors, ev, turn, cab)
      /\ TripTime \in Nat /\ OPENTICS \in Nat
  BY <1>1, ElevatorFields
<1>3. /\ doors \in DoorTypes /\ Together(doors) /\ CabinsOK /\ NobodyLeftBehind
      /\ cabin \in [Elevator -> {"source", "dest"}] /\ place \in [Actor -> Place]
  BY DEF LevelInv, TypeInv, LevelTypeOK, DoorsInv, ShaftInv, DoorTypes
<1>4. /\ ev.state = (IF cab = "source" THEN "mtd" ELSE "mts")
      /\ Shut(doors, here) /\ Shut(doors, there) /\ ev.doortoopen = there
      /\ ev.nextaction = "none"
  BY <1>1, <1>2 DEF CabinOK
<1>5. /\ here \in Lift /\ there \in Lift /\ here \in Door /\ there \in Door /\ here # there
      /\ \A f \in Elevator, c \in {"source", "dest"} : f # turn =>
             /\ DoorHere(f, c) \notin {here, there}
             /\ DoorThere(f, c) \notin {here, there}
  BY <1>1, <1>2, LiftDoorsApart
<1>6. /\ DoorHere(turn, away) = there /\ DoorThere(turn, away) = here /\ away \in {"source", "dest"}
      /\ away # cab
  BY <1>2 DEF DoorHere, DoorThere
<1>7. /\ doors' = OpenDoor(unlocked, {there})
      /\ elevator' = [elevator EXCEPT ![turn] = stopped]
      /\ place' = [a \in Actor |-> IF place[a] = startcell THEN destcell ELSE place[a]]
      /\ cabin' = [cabin EXCEPT ![turn] = away]
  <2>1. elevator' = ExecuteElevatorStopActions(Machines(doors, elevator), turn).elevator
    BY DEF ElevatorStops
  <2>2. doors' = ExecuteElevatorStopActions(Machines(doors, elevator), turn).doors
    BY DEF ElevatorStops
  <2>3. Teleport(turn)
    BY DEF ElevatorStops
  <2>4. elevator' = [elevator EXCEPT ![turn] = stopped]
    BY <1>4, <2>1 DEF ExecuteElevatorStopActions, Machines
  <2>5. doors' = OpenDoor(unlocked, {there})
    BY <1>4, <2>2 DEF ExecuteElevatorStopActions, Machines
  <2>6. elevator[turn].state = "mtd" <=> cab = "source"
    BY <1>4
  <2>7. /\ place' = [a \in Actor |-> IF place[a] = startcell THEN destcell ELSE place[a]]
        /\ cabin' = [cabin EXCEPT ![turn] = away]
    BY <2>3, <2>6 DEF Teleport
  <2> QED
    BY <2>4, <2>5, <2>7
<1> HIDE DEF cab, away, here, there
<1>8. /\ doors' \in DoorTypes
      /\ \A d \in Door : /\ d # there => doors'[d] = doors[d]
                         /\ doors'[d].at = doors[d].at
                         /\ d = there => doors'[d].action = "opening" /\ doors[d].action = "closed"
  <2>1. doors[there] \in DoorState
    BY <1>3, <1>5 DEF DoorTypes
  <2>2. /\ unlocked \in DoorTypes
        /\ \A d \in Door : /\ d # there => unlocked[d] = doors[d]
                           /\ unlocked[d].action = doors[d].action
                           /\ unlocked[d].at = doors[d].at
    BY <1>3, <1>5, <2>1 DEF DoorTypes, DoorState
  <2> HIDE DEF unlocked
  <2>3. {there} \in SUBSET Door
    BY <1>5
  <2>4. doors[there].action = "closed"
    BY <1>4 DEF Shut
  <2> DEFINE nd == OpenDoor(unlocked, {there})
  <2>5. /\ nd \in DoorTypes
        /\ \A d \in Door :
             /\ nd[d].at = unlocked[d].at
             /\ d \notin {there} => nd[d] = unlocked[d]
             /\ d \in {there} => nd[d].action = IF unlocked[d].action = "open" THEN "open" ELSE "opening"
    BY <2>2, <2>3, OpenDoorAt
  <2> HIDE DEF nd
  <2>6. doors' = nd
    BY <1>7 DEF nd
  <2> QED
    BY <2>2, <2>4, <2>5, <2>6
<1>9. Together(doors')
  <2> SUFFICES ASSUME NEW d \in Door, NEW g \in Group[d], Opens(doors', d)
               PROVE  Opens(doors', g)
    BY DEF Together
  <2>1. g \in Door
    BY DoorAssumption
  <2>2. CASE g = there
    BY <1>5, <1>8, <2>2 DEF Opens
  <2>3. CASE g # there
    <3>1. d # there
      BY <1>5, <2>3, LiftDoors
    <3> QED
      BY <1>3, <1>8, <2>1, <2>3, <3>1 DEF Opens, Together
  <2> QED
    BY <2>2, <2>3
<1>10. /\ HeldOpen(doors, doors')
       /\ \A d \in Lift : doors[d].action \in {"opening", "open"} => doors'[d].action \in {"opening", "open"}
  <2>1. \A d \in Door : d = there => doors[d].action = "closed"
    BY <1>8
  <2> QED
    BY <1>8, <2>1 DEF HeldOpen, Lift
<1>11. /\ stopped \in ElevatorState /\ stopped.state = "doorclosing" /\ stopped.doorclosing = there
       /\ stopped.nextaction = "none"
  <2>1. /\ DOMAIN ev = {"state", "nextaction", "doortoopen", "doorclosing", "ticcount", "flipped"}
        /\ OPENTICS \in 0 .. TripTime + OPENTICS
    BY <1>2 DEF ElevatorState
  <2>2. stopped \in ElevatorState
    BY <1>2, <1>5, <2>1 DEF ElevatorState
  <2>3. stopped.state = "doorclosing" /\ stopped.doorclosing = there /\ stopped.nextaction = ev.nextaction
    BY <2>1
  <2> QED
    BY <1>4, <2>2, <2>3
<1> HIDE DEF stopped
<1>12. elevator' \in [Elevator -> ElevatorState] /\ cabin' \in [Elevator -> {"source", "dest"}]
  BY <1>1, <1>2, <1>3, <1>6, <1>7, <1>11
<1>13. CabinsOK'
  <2> SUFFICES ASSUME NEW f \in Elevator
               PROVE  CabinOK(doors', elevator'[f], f, cabin'[f])
    BY DEF CabinsOK
  <2>1. CASE f = turn
    <3>1. elevator'[f] = stopped /\ cabin'[f] = away
      BY <1>1, <1>2, <1>3, <1>7, <2>1
    <3>2. Shut(doors', here)
      BY <1>4, <1>5, <1>8 DEF Shut
    <3> QED
      BY <1>6, <1>11, <2>1, <3>1, <3>2 DEF CabinOK
  <2>2. CASE f # turn
    <3>1. elevator'[f] = elevator[f] /\ cabin'[f] = cabin[f] /\ cabin[f] \in {"source", "dest"}
      BY <1>2, <1>3, <1>7, <2>2
    <3>2. CabinOK(doors, elevator[f], f, cabin[f])
      BY <1>3 DEF CabinsOK
    <3>3. /\ doors'[DoorHere(f, cabin[f])] = doors[DoorHere(f, cabin[f])]
          /\ doors'[DoorThere(f, cabin[f])] = doors[DoorThere(f, cabin[f])]
      BY <1>5, <1>8, <2>2, <3>1, LiftDoorsApart
    <3> QED
      BY <3>1, <3>2, <3>3 DEF CabinOK, Shut
  <2> QED
    BY <2>1, <2>2
<1>14. /\ startcell \in Place /\ destcell \in Place /\ startcell \in Cells /\ destcell \in Cells
       /\ CellS[turn] # CellD[turn]
       /\ \A f \in Elevator : f # turn => /\ CellS[f] \notin {CellS[turn], CellD[turn]}
                                          /\ CellD[f] \notin {CellS[turn], CellD[turn]}
  BY <1>1, LevelAssumption DEF WellBuilt, CellsApart, Cells
<1>15. place' \in [Actor -> Place]
  BY <1>3, <1>7, <1>14
<1>16. NobodyLeftBehind'
  <2> SUFFICES ASSUME NEW f \in Elevator, NEW a \in Actor
               PROVE  /\ place'[a] = CellS[f] => cabin'[f] = "source"
                      /\ place'[a] = CellD[f] => cabin'[f] = "dest"
    BY DEF NobodyLeftBehind
  <2>1. place'[a] = IF place[a] = startcell THEN destcell ELSE place[a]
    BY <1>7
  <2>2. CASE f = turn
    <3>1. cabin'[f] = away
      BY <1>1, <1>3, <1>7, <2>2
    <3>2. /\ place[a] = CellS[turn] => cab = "source"
          /\ place[a] = CellD[turn] => cab = "dest"
      BY <1>1, <1>3 DEF NobodyLeftBehind, cab
    <3> QED
      BY <1>2, <1>14, <2>1, <2>2, <3>1, <3>2 DEF away
  <2>3. CASE f # turn
    <3>1. cabin'[f] = cabin[f]
      BY <1>3, <1>7, <2>3
    <3>2. /\ place[a] = CellS[f] => cabin[f] = "source"
          /\ place[a] = CellD[f] => cabin[f] = "dest"
      BY <1>3 DEF NobodyLeftBehind
    <3>3. destcell # CellS[f] /\ destcell # CellD[f]
      BY <1>14, <2>3
    <3> QED
      BY <2>1, <3>1, <3>2, <3>3
  <2> QED
    BY <2>2, <2>3
<1>17. \A d \in Door, b \in Actor : place'[b] = Tile[d] <=> place[b] = Tile[d]
  <2>1. \A d \in Door : Tile[d] \notin Cells
    BY DEF WellBuilt, CellsApart, DoorTile
  <2> QED
    BY <1>7, <1>14, <2>1
<1> HIDE DEF startcell, destcell
<1> QED
  BY <1>8, <1>9, <1>10, <1>12, <1>13, <1>15, <1>16, <1>17, MachineInv

LEMMA ProcessElevatorInv ==
    ASSUME WellBuilt, LevelInv, ProcessElevator
    PROVE  LevelInv'
<1>1. ElevatorWaits \/ ElevatorStops \/ ElevatorStarts \/ ElevatorRests
  BY DEF ProcessElevator
<1> QED
  BY <1>1, ElevatorWaitsInv, ElevatorStopsInv, ElevatorStartsInv, ElevatorRestsInv

-----------------------------------------------------------------------------
(* DoActor: what those who press use, wait or meet a door ask for          *)

\* Calls that leave every machine where its cabin is.
Requested(ds, es) ==
    /\ Called(doors, ds) /\ es \in [Elevator -> ElevatorState]
    /\ \A e \in Elevator : CabinOK(ds, es[e], e, cabin[e])

LEMMA CabinKept ==
    ASSUME NEW ds, NEW nd, LocksKept(ds, nd), NEW e \in Elevator, NEW cab \in {"source", "dest"},
           NEW ev, CabinOK(ds, ev, e, cab)
    PROVE  CabinOK(nd, ev, e, cab)
<1>1. DoorHere(e, cab) \in Lift /\ DoorThere(e, cab) \in Lift
  BY LiftDoorsApart
<1> QED
  BY <1>1 DEF CabinOK, LocksKept

LEMMA RequestedMore ==
    ASSUME cabin \in [Elevator -> {"source", "dest"}], NEW ds, NEW es, Requested(ds, es),
           NEW nd, Called(ds, nd)
    PROVE  Requested(nd, es)
<1>1. Called(doors, nd)
  BY CalledTrans DEF Requested
<1>2. \A e \in Elevator : CabinOK(nd, es[e], e, cabin[e])
  BY CabinKept DEF Requested, Called
<1> QED
  BY <1>1, <1>2 DEF Requested

\* The elevator is sent away from where its cabin is.
LEMMA SetNextActionOK ==
    ASSUME DoorwaysAgree, cabin \in [Elevator -> {"source", "dest"}],
           NEW ds, NEW es, Requested(ds, es), NEW e \in Elevator,
           es[e].state \notin {"mts", "mtd"},
           NEW action, action = IF cabin[e] = "source" THEN "mtd" ELSE "mts",
           CanSetNextAction(Machines(ds, es), e, action)
    PROVE  LET m == SetNextAction(Machines(ds, es), e, action)
           IN m = Machines(m.doors, m.elevator) /\ Requested(m.doors, m.elevator)
<1> DEFINE dn == LeftDoor(e, action)
           closed == CloseDoor(ds, {dn})
           nd == [closed EXCEPT ![dn].elevlocked = TRUE]
           new == [es[e] EXCEPT !.state = "doorclosing", !.doorclosing = dn, !.nextaction = action]
           ns == [es EXCEPT ![e] = new]
<1>1. /\ Called(doors, ds) /\ es \in [Elevator -> ElevatorState] /\ es[e] \in ElevatorState
      /\ CabinOK(ds, es[e], e, cabin[e]) /\ cabin[e] \in {"source", "dest"}
  BY DEF Requested
<1>2. /\ dn = DoorHere(e, cabin[e]) /\ dn \in Lift /\ dn \in Door /\ Group[dn] = {dn}
  BY <1>1, LiftDoorsApart, LiftDoors DEF LeftDoor, DoorHere
<1>3. SetNextAction(Machines(ds, es), e, action) = Machines(nd, ns)
  <2>1. /\ [es EXCEPT ![e].state = "doorclosing", ![e].doorclosing = dn, ![e].nextaction = action] = ns
    BY <1>1
  <2> QED
    BY <2>1 DEF SetNextAction, Machines
<1>4. Called(ds, closed)
  <2>1. DoorReadyToClose(ds, dn)
    BY DEF CanSetNextAction, Machines
  <2>2. LinkedCloseDoor(ds, dn) = closed
    BY <1>2, <2>1 DEF LinkedCloseDoor
  <2>3. ds \in DoorTypes /\ Together(ds)
    BY <1>1 DEF Called
  <2> QED
    BY <1>2, <2>2, <2>3, LinkedCloseCalled
<1> HIDE DEF closed, dn
<1>5. /\ Called(closed, nd) /\ nd[dn].elevlocked
  <2>1. closed \in DoorTypes /\ closed[dn] \in DoorState /\ Together(closed)
    BY <1>2, <1>4 DEF Called, DoorTypes
  <2>2. /\ nd \in DoorTypes
        /\ \A d \in Door : /\ nd[d].action = closed[d].action /\ nd[d].at = closed[d].at
                           /\ nd[d].elevlocked = IF d = dn THEN TRUE ELSE closed[d].elevlocked
    BY <1>2, <2>1 DEF DoorTypes, DoorState
  <2> HIDE DEF nd
  <2>3. Together(nd)
    BY <2>1, <2>2, DoorAssumption DEF Together, Opens
  <2>4. HeldOpen(closed, nd) /\ LocksKept(closed, nd) /\ NoneShuts(closed, nd)
    BY <2>2 DEF HeldOpen, LocksKept, NoneShuts, Shut, Lift
  <2> QED
    BY <1>2, <2>2, <2>3, <2>4 DEF Called
<1> HIDE DEF nd
<1>6. Requested(nd, es)
  BY <1>4, <1>5, RequestedMore
<1>7. /\ new \in ElevatorState /\ new.state = "doorclosing" /\ new.doorclosing = dn
      /\ new.nextaction = action
  BY <1>1, <1>2 DEF ElevatorState
<1>8. CabinOK(nd, new, e, cabin[e])
  BY <1>1, <1>2, <1>5, <1>6, <1>7 DEF CabinOK, Requested
<1> HIDE DEF new
<1>9. Requested(nd, ns)
  BY <1>1, <1>6, <1>7, <1>8 DEF Requested
<1> HIDE DEF ns
<1>10. LET m == Machines(nd, ns) IN m = Machines(m.doors, m.elevator) /\ Requested(m.doors, m.elevator)
  BY <1>9 DEF Machines
<1> QED
  BY <1>3, <1>10

\* Somebody is at the door of an elevator.
LEMMA OperateElevatorDoorOK ==
    ASSUME DoorwaysAgree, cabin \in [Elevator -> {"source", "dest"}],
           NEW ds, NEW es, Requested(ds, es), NEW d \in Lift
    PROVE  LET m == OperateElevatorDoor(Machines(ds, es), d)
           IN m = Machines(m.doors, m.elevator) /\ Requested(m.doors, m.elevator)
<1> DEFINE e == CHOOSE e \in Elevator : d \in {Door1[e], Door2[e]}
           wanted == IF d = Door1[e] THEN "mts" ELSE "mtd"
           awayfrom == IF d = Door1[e] THEN "rad" ELSE "ras"
           m0 == Machines(ds, es)
           Goal(m) == m = Machines(m.doors, m.elevator) /\ Requested(m.doors, m.elevator)
<1>1. e \in Elevator /\ d \in {Door1[e], Door2[e]}
  BY LiftDoors
<1>2. OperateElevatorDoor(m0, d) =
          IF /\ \/ es[e].state = awayfrom
                \/ es[e].state = "doorclosing" /\ es[e].doorclosing # d
             /\ es[e].nextaction # wanted
          THEN SetNextAction(m0, e, wanted) ELSE m0
  BY DEF OperateElevatorDoor, Machines
<1> HIDE DEF e
<1>3. Goal(m0)
  BY DEF Machines
<1>4. CabinOK(ds, es[e], e, cabin[e]) /\ cabin[e] \in {"source", "dest"} /\ Door1[e] # Door2[e]
  BY <1>1, ElevatorAssumption DEF Requested
<1>5. ASSUME \/ es[e].state = awayfrom
             \/ es[e].state = "doorclosing" /\ es[e].doorclosing # d
      PROVE  Goal(SetNextAction(m0, e, wanted))
  <2>1. es[e].state \notin {"mts", "mtd"}
    BY <1>5
  <2>2. wanted = IF cabin[e] = "source" THEN "mtd" ELSE "mts"
    BY <1>1, <1>4, <1>5 DEF CabinOK, DoorHere
  <2> HIDE DEF wanted, awayfrom
  <2>3. CASE CanSetNextAction(m0, e, wanted)
    BY <1>1, <2>1, <2>2, <2>3, SetNextActionOK
  <2>4. CASE ~CanSetNextAction(m0, e, wanted)
    <3>1. SetNextAction(m0, e, wanted) = m0
      BY <2>4 DEF SetNextAction
    <3> QED
      BY <1>3, <3>1
  <2> QED
    BY <2>3, <2>4
<1> HIDE DEF Goal, wanted, awayfrom
<1>6. Goal(OperateElevatorDoor(m0, d))
  BY <1>2, <1>3, <1>5
<1> QED
  BY <1>6 DEF Goal

\* The switch in a cell, for somebody in the cabin.
LEMMA OperateElevatorSwitchOK ==
    ASSUME DoorwaysAgree, cabin \in [Elevator -> {"source", "dest"}],
           NEW ds, NEW es, Requested(ds, es), NEW e \in Elevator, NEW cell, cell = cabin[e]
    PROVE  LET m == OperateElevatorSwitch(Machines(ds, es), e, cell)
           IN m = Machines(m.doors, m.elevator) /\ Requested(m.doors, m.elevator)
<1> DEFINE action == IF cell = "source" THEN "mtd" ELSE "mts"
           m0 == Machines(ds, es)
           next == SetNextAction(m0, e, action)
           last == [next EXCEPT !.elevator[e].ticcount = 0, !.elevator[e].flipped = @ \cup {cell}]
           Goal(m) == m = Machines(m.doors, m.elevator) /\ Requested(m.doors, m.elevator)
<1>1. Goal(m0)
  BY DEF Machines
<1>2. OperateElevatorSwitch(m0, e, cell) =
          IF es[e].state \in {"mts", "mtd"} \/ ~CanSetNextAction(m0, e, action) THEN m0 ELSE last
  BY DEF OperateElevatorSwitch, Machines
<1>3. ASSUME es[e].state \notin {"mts", "mtd"}, CanSetNextAction(m0, e, action)
      PROVE  Goal(last)
  <2>1. action = IF cabin[e] = "source" THEN "mtd" ELSE "mts"
    OBVIOUS
  <2> HIDE DEF action
  <2>2. next = Machines(next.doors, next.elevator) /\ Requested(next.doors, next.elevator)
    BY <1>3, <2>1, SetNextActionOK
  <2> HIDE DEF next
  <2> DEFINE nd == next.doors
             ns == next.elevator
             new == [ns[e] EXCEPT !.ticcount = 0, !.flipped = ns[e].flipped \cup {cell}]
             nn == [ns EXCEPT ![e] = new]
  <2>3. Requested(nd, ns) /\ next = Machines(nd, ns)
    BY <2>2
  <2> HIDE DEF nd, ns
  <2>4. /\ ns \in [Elevator -> ElevatorState] /\ ns[e] \in ElevatorState
        /\ CabinOK(nd, ns[e], e, cabin[e]) /\ cabin[e] \in {"source", "dest"}
    BY <2>3 DEF Requested
  <2>5. last = Machines(nd, nn)
    <3>1. /\ next = [doors |-> nd, elevator |-> ns] /\ e \in DOMAIN ns
          /\ DOMAIN ns[e] = {"state", "nextaction", "doortoopen", "doorclosing", "ticcount", "flipped"}
      BY <2>3, <2>4 DEF Machines, ElevatorState
    <3>2. last = [next EXCEPT !.elevator = nn]
      BY <3>1
    <3> QED
      BY <3>1, <3>2 DEF Machines
  <2>6. /\ new \in ElevatorState /\ new.state = ns[e].state /\ new.nextaction = ns[e].nextaction
        /\ new.doorclosing = ns[e].doorclosing /\ new.doortoopen = ns[e].doortoopen
    <3>1. 0 \in 0 .. TripTime + OPENTICS
      BY DoorAssumption, ElevatorAssumption
    <3>2. cell \in {"source", "dest"}
      BY <2>4
    <3>3. ns[e].flipped \cup {cell} \in SUBSET {"source", "dest"}
      BY <2>4, <3>2 DEF ElevatorState
    <3> QED
      BY <2>4, <3>1, <3>3 DEF ElevatorState
  <2> HIDE DEF new, last
  <2>7. Requested(nd, nn)
    <3>1. CabinOK(nd, new, e, cabin[e])
      BY <2>4, <2>6 DEF CabinOK
    <3> QED
      BY <2>3, <2>4, <2>6, <3>1 DEF Requested
  <2> HIDE DEF nn
  <2> QED
    BY <2>5, <2>7 DEF Machines
<1> HIDE DEF Goal, last, action
<1>4. Goal(OperateElevatorSwitch(m0, e, cell))
  BY <1>1, <1>2, <1>3
<1> QED
  BY <1>4 DEF Goal

LEMMA UseOfDoorOK ==
    ASSUME DoorwaysAgree, cabin \in [Elevator -> {"source", "dest"}],
           doors \in DoorTypes, Together(doors), Requested(doors, elevator), NEW d \in Door
    PROVE  LET m == UseOfDoor(Machines(doors, elevator), d)
           IN Requested(m.doors, m.elevator)
<1> DEFINE nd == OperateDoor(doors, d, TRUE)
<1>1. UseOfDoor(Machines(doors, elevator), d) =
          IF ElevatorDoors(d) = {} THEN Machines(nd, elevator)
          ELSE OperateElevatorDoor(Machines(nd, elevator), d)
  BY DEF UseOfDoor, Machines
<1>2. Called(doors, nd)
  BY OperateCalled
<1> HIDE DEF nd
<1>3. Requested(nd, elevator)
  BY <1>2, RequestedMore
<1>4. CASE ElevatorDoors(d) = {}
  BY <1>1, <1>3, <1>4 DEF Machines
<1>5. CASE ElevatorDoors(d) # {}
  <2>1. d \in Lift
    BY <1>5 DEF Lift
  <2> QED
    BY <1>1, <1>3, <1>5, <2>1, OperateElevatorDoorOK
<1> QED
  BY <1>4, <1>5

\* Whatever a player presses use at.
LEMMA UsesOK ==
    ASSUME WellBuilt, LevelInv, NEW p \in Actor, NEW m \in Uses(p)
    PROVE  /\ Requested(m.doors, m.elevator)
           /\ m.walls \in WallTypes /\ m.areaconnect \in CountsType
<1> DEFINE m0 == Machines(doors, elevator)
           Keep(n) == [doors |-> n.doors, elevator |-> n.elevator,
                       walls |-> walls, areaconnect |-> areaconnect]
           start == Effect(doors, walls, areaconnect)
           Push(w) == [doors |-> doors, elevator |-> elevator,
                       walls |-> OperatePushWall(start, w).walls,
                       areaconnect |-> OperatePushWall(start, w).areaconnect]
           Goal(n) == /\ Requested(n.doors, n.elevator)
                      /\ n.walls \in WallTypes /\ n.areaconnect \in CountsType
<1>1. /\ DoorwaysAgree /\ cabin \in [Elevator -> {"source", "dest"}]
      /\ doors \in DoorTypes /\ Together(doors) /\ elevator \in [Elevator -> ElevatorState]
      /\ CabinsOK /\ NobodyLeftBehind /\ start \in Effects(doors)
  <2>1. start \in Effects(doors)
    BY NoEffect DEF LevelInv
  <2> QED
    BY <2>1 DEF WellBuilt, LevelInv, TypeInv, LevelTypeOK, DoorsInv, ShaftInv, DoorTypes
<1>2. walls \in WallTypes /\ areaconnect \in CountsType
  BY <1>1 DEF Effects, Effect
<1>3. Requested(doors, elevator)
  BY <1>1, CalledSame DEF Requested, CabinsOK
<1>4. \/ m = Keep(m0)
      \/ \E d \in Door : m = Keep(UseOfDoor(m0, d))
      \/ \E e \in Elevator : place[p] = CellS[e] /\ m = Keep(OperateElevatorSwitch(m0, e, "source"))
      \/ \E e \in Elevator : place[p] = CellD[e] /\ m = Keep(OperateElevatorSwitch(m0, e, "dest"))
      \/ \E w \in Wall : m = Push(w)
  BY DEF Uses
<1>5. \A n : Requested(n.doors, n.elevator) => Goal(Keep(n))
  BY <1>2
<1>6. Requested(m0.doors, m0.elevator)
  BY <1>3 DEF Machines
<1>7. \A d \in Door : LET n == UseOfDoor(m0, d) IN Requested(n.doors, n.elevator)
  BY <1>1, <1>3, UseOfDoorOK
<1>8. \A e \in Elevator : place[p] = CellS[e] =>
          LET n == OperateElevatorSwitch(m0, e, "source") IN Requested(n.doors, n.elevator)
  <2> SUFFICES ASSUME NEW e \in Elevator, place[p] = CellS[e]
               PROVE  LET n == OperateElevatorSwitch(m0, e, "source")
                      IN Requested(n.doors, n.elevator)
    OBVIOUS
  <2>1. "source" = cabin[e]
    BY <1>1 DEF NobodyLeftBehind
  <2> QED
    BY <1>1, <1>3, <2>1, OperateElevatorSwitchOK
<1>9. \A e \in Elevator : place[p] = CellD[e] =>
          LET n == OperateElevatorSwitch(m0, e, "dest") IN Requested(n.doors, n.elevator)
  <2> SUFFICES ASSUME NEW e \in Elevator, place[p] = CellD[e]
               PROVE  LET n == OperateElevatorSwitch(m0, e, "dest")
                      IN Requested(n.doors, n.elevator)
    OBVIOUS
  <2>1. "dest" = cabin[e]
    BY <1>1 DEF NobodyLeftBehind
  <2> QED
    BY <1>1, <1>3, <2>1, OperateElevatorSwitchOK
<1>10. \A w \in Wall : Goal(Push(w))
  <2> SUFFICES ASSUME NEW w \in Wall
               PROVE  Goal(Push(w))
    OBVIOUS
  <2> HIDE DEF start
  <2>1. OperatePushWall(start, w) \in Effects(doors)
    BY <1>1, ActivateEffect DEF OperatePushWall
  <2>2. OperatePushWall(start, w).walls \in WallTypes /\ OperatePushWall(start, w).areaconnect \in CountsType
    BY <2>1 DEF Effects
  <2> QED
    BY <1>3, <2>2
<1> HIDE DEF Keep, Push, m0
<1>11. Goal(m)
  <2>1. CASE m = Keep(m0)
    BY <1>5, <1>6, <2>1
  <2>2. CASE \E d \in Door : m = Keep(UseOfDoor(m0, d))
    BY <1>5, <1>7, <2>2
  <2>3. CASE \E e \in Elevator : place[p] = CellS[e] /\ m = Keep(OperateElevatorSwitch(m0, e, "source"))
    BY <1>5, <1>8, <2>3
  <2>4. CASE \E e \in Elevator : place[p] = CellD[e] /\ m = Keep(OperateElevatorSwitch(m0, e, "dest"))
    BY <1>5, <1>9, <2>4
  <2>5. CASE \E w \in Wall : m = Push(w)
    BY <1>10, <2>5
  <2> QED
    BY <1>4, <2>1, <2>2, <2>3, <2>4, <2>5
<1> QED
  BY <1>11

-----------------------------------------------------------------------------
(* DoActor: moving                                                         *)

LEMMA MarkedAt ==
    ASSUME NEW ds \in DoorTypes, NEW a \in Actor, NEW x
    PROVE  /\ Marked(ds, a, x) \in DoorTypes
           /\ \A d \in Door :
                /\ Marked(ds, a, x)[d].action = ds[d].action
                /\ Marked(ds, a, x)[d].elevlocked = ds[d].elevlocked
                /\ x = Tile[d] => Marked(ds, a, x)[d].at = a
                /\ x # Tile[d] /\ ds[d].at # a => Marked(ds, a, x)[d].at = ds[d].at
<1>1. \A d \in Door : ds[d] \in DoorState
  BY DEF DoorTypes
<1>2. \A d \in Door : /\ [ds[d] EXCEPT !.at = a] \in DoorState
                      /\ [ds[d] EXCEPT !.at = Null] \in DoorState
  BY <1>1 DEF DoorState
<1>3. Marked(ds, a, x) \in DoorTypes
  BY <1>1, <1>2 DEF Marked, DoorTypes
<1>4. \A d \in Door :
        /\ Marked(ds, a, x)[d].action = ds[d].action
        /\ Marked(ds, a, x)[d].elevlocked = ds[d].elevlocked
        /\ x = Tile[d] => Marked(ds, a, x)[d].at = a
        /\ x # Tile[d] /\ ds[d].at # a => Marked(ds, a, x)[d].at = ds[d].at
  BY <1>1 DEF Marked, DoorState
<1> QED
  BY <1>3, <1>4

\* An elevator's door is open for whoever goes through it: the cabin is there.
LEMMA CellEntered ==
    ASSUME WellBuilt, LevelInv, NEW a \in Actor, NEW nd, NEW es, Requested(nd, es),
           NEW x \in Place, CanWalk(nd, a, x), x # place[a], NEW e \in Elevator
    PROVE  /\ x = CellS[e] => cabin[e] = "source"
           /\ x = CellD[e] => cabin[e] = "dest"
<1>1. /\ NextTo(place[a], x)
      /\ \A d \in Door : Tile[d] = place[a] => nd[d].action = "open"
  BY DEF CanWalk
<1>2. CabinOK(nd, es[e], e, cabin[e]) /\ cabin[e] \in {"source", "dest"} /\ place[a] \in Place
  BY DEF Requested, LevelInv, TypeInv, LevelTypeOK
<1>3. Door1[e] \in Door /\ Door2[e] \in Door
  BY ElevatorAssumption
<1>4. CASE x \in Cells
  <2>1. {place[a], x} \in Passage
    <3>1. \A w \in Wall : {place[a], x} # WallPassage[w]
      BY <1>4 DEF WellBuilt, CellsWalledIn
    <3> QED
      BY <1>1, <3>1 DEF NextTo
  <2>2. x = CellS[e] => nd[Door1[e]].action = "open"
    BY <1>1, <1>2, <1>3, <2>1 DEF WellBuilt, CellsWalledIn
  <2>3. x = CellD[e] => nd[Door2[e]].action = "open"
    BY <1>1, <1>2, <1>3, <2>1 DEF WellBuilt, CellsWalledIn
  <2> QED
    BY <1>2, <2>2, <2>3 DEF CabinOK, Shut, DoorThere
<1>5. CASE x \notin Cells
  BY <1>5 DEF Cells
<1> QED
  BY <1>4, <1>5

\* An actor has its turn: it has made calls, and then is at x.
LEMMA ActorMoves ==
    ASSUME WellBuilt, LevelInv, phase = "actors", turn \in Actor, Advance, UNCHANGED cabin,
           NEW nd, NEW x \in Place, Requested(nd, elevator'), CanWalk(nd, turn, x),
           doors' = Marked(nd, turn, x), place' = [place EXCEPT ![turn] = x]
    PROVE  /\ doors' \in DoorTypes /\ place' \in [Actor -> Place]
           /\ \A d \in Door : doors'[d].action = nd[d].action
           /\ DoorsInv' /\ CabinsOK' /\ NobodyLeftBehind'
<1>1. /\ place \in [Actor -> Place] /\ cabin \in [Elevator -> {"source", "dest"}]
      /\ nd \in DoorTypes /\ Together(nd) /\ HeldOpen(doors, nd)
      /\ Marks /\ NobodyLeftBehind
  BY DEF LevelInv, TypeInv, LevelTypeOK, DoorsInv, ShaftInv, Requested, Called
<1>2. /\ doors' \in DoorTypes
      /\ \A d \in Door :
           /\ doors'[d].action = nd[d].action
           /\ doors'[d].elevlocked = nd[d].elevlocked
           /\ x = Tile[d] => doors'[d].at = turn
           /\ x # Tile[d] /\ nd[d].at # turn => doors'[d].at = nd[d].at
  BY <1>1, MarkedAt
<1>3. /\ place' \in [Actor -> Place]
      /\ \A b \in Actor : place'[b] = IF b = turn THEN x ELSE place[b]
  BY <1>1
<1>4. Together(doors')
  BY <1>1, <1>2, DoorAssumption DEF Together, Opens
<1>5. Marks'
  <2> DEFINE Turn(v) == IF phase' = "actors" /\ v < turn' THEN v + NumActors ELSE v
  <2>0. /\ \A b \in Actor : LastTurn(b) <= LastTurn(turn) => b = turn
        /\ \A b \in Actor : Turn(b) <= Turn(turn)
        /\ \A b, c \in Actor : b # turn /\ c # turn /\ LastTurn(b) <= LastTurn(c) => Turn(b) <= Turn(c)
    <3>1. \A b \in Actor : (LastTurn(b))' = Turn(b)
      BY DEF LastTurn
    <3> HIDE DEF Turn
    <3>2. PICK a \in Actor : a = turn
      OBVIOUS
    <3>3. (LastTurn(a))' = Turn(turn)
      BY <3>1, <3>2
    <3> QED
      BY <3>1, <3>2, <3>3, ActorsTurn
  <2> SUFFICES ASSUME NEW d \in Door, NEW b \in Actor, place'[b] = Tile[d]
               PROVE  /\ doors'[d].action = "open" /\ doors'[d].at \in Actor
                      /\ place'[doors'[d].at] = Tile[d]
                      /\ Turn(b) <= Turn(doors'[d].at)
    BY DEF Marks, LastTurn
  <2> HIDE DEF Turn
  <2>1. ASSUME NEW c \in Actor, place[c] = Tile[d]
        PROVE  /\ nd[d].action = "open" /\ nd[d].at \in Actor
               /\ place[nd[d].at] = Tile[d] /\ LastTurn(c) <= LastTurn(nd[d].at)
    <3>1. /\ doors[d].action = "open" /\ doors[d].at \in Actor
          /\ place[doors[d].at] = Tile[d] /\ LastTurn(c) <= LastTurn(doors[d].at)
      BY <1>1, <2>1 DEF Marks
    <3>2. nd[d].action = "open" /\ nd[d].at = doors[d].at
      BY <1>1, <3>1 DEF HeldOpen
    <3> QED
      BY <3>1, <3>2
  <2>2. x = Tile[d] => nd[d].action = "open"
    BY <1>1, <2>1 DEF CanWalk
  <2>3. CASE x = Tile[d]
    <3>1. doors'[d].at = turn /\ place'[turn] = x
      BY <1>2, <1>3, <2>3
    <3>2. Turn(b) <= Turn(turn)
      BY <2>0
    <3> QED
      BY <1>2, <2>2, <2>3, <3>1, <3>2
  <2>4. CASE x # Tile[d]
    <3>1. b # turn /\ place[b] = Tile[d]
      BY <1>3, <2>4
    <3> DEFINE c == nd[d].at
    <3>2. nd[d].action = "open" /\ c \in Actor /\ place[c] = Tile[d] /\ LastTurn(b) <= LastTurn(c)
      BY <2>1, <3>1
    <3> HIDE DEF c
    <3>3. c # turn
      BY <2>0, <3>1, <3>2
    <3>4. Turn(b) <= Turn(c)
      BY <2>0, <3>1, <3>2, <3>3
    <3>5. doors'[d].at = c /\ place'[c] = place[c]
      BY <1>2, <1>3, <2>4, <3>2, <3>3 DEF c
    <3> QED
      BY <1>2, <3>2, <3>4, <3>5
  <2> QED
    BY <2>3, <2>4
<1>6. CabinsOK'
  <2> SUFFICES ASSUME NEW e \in Elevator
               PROVE  CabinOK(doors', elevator'[e], e, cabin[e])
    BY DEF CabinsOK
  <2>1. CabinOK(nd, elevator'[e], e, cabin[e]) /\ cabin[e] \in {"source", "dest"}
    BY <1>1 DEF Requested
  <2>2. LocksKept(nd, doors')
    BY <1>2 DEF LocksKept, Shut, Lift
  <2> QED
    BY <2>1, <2>2, CabinKept
<1>7. NobodyLeftBehind'
  <2> SUFFICES ASSUME NEW e \in Elevator, NEW b \in Actor
               PROVE  /\ place'[b] = CellS[e] => cabin[e] = "source"
                      /\ place'[b] = CellD[e] => cabin[e] = "dest"
    BY DEF NobodyLeftBehind
  <2>1. CASE place'[b] = place[b]
    BY <1>1, <2>1 DEF NobodyLeftBehind
  <2>2. CASE place'[b] # place[b]
    <3>1. b = turn /\ place'[b] = x /\ x # place[turn]
      BY <1>3, <2>2
    <3> QED
      BY <3>1, CellEntered
  <2> QED
    BY <2>1, <2>2
<1> QED
  BY <1>2, <1>3, <1>4, <1>5, <1>6, <1>7 DEF DoorsInv

-----------------------------------------------------------------------------
(* DoActor: the steps                                                      *)

LEMMA ActorTypes ==
    ASSUME TypeInv, phase = "actors", Advance,
           doors' \in DoorTypes, elevator' \in [Elevator -> ElevatorState],
           walls' \in WallTypes, areaconnect' \in CountsType, areabyplayer' \in SUBSET Area,
           TRIGGER' \subseteq Plate, place' \in [Actor -> Place],
           door_to_open' \in [Enemy -> Door \cup {NoDoor}], rushed' \subseteq Door,
           UNCHANGED <<plates, cabin>>
    PROVE  TypeInv'
<1>1. /\ \A w \in Wall : walls'[w] \in WallState(w)
      /\ walls' = [w \in Wall |-> walls'[w]]
  BY DEF WallTypes
<1>2. phase' \in Phases /\ turn' \in 1 .. Count(phase)'
  BY AdvanceType DEF TypeInv, LevelTypeOK
<1>3. LevelTypeOK'
  BY <1>1, <1>2 DEF TypeInv, LevelTypeOK, DoorTypes, CountsType
<1> QED
  BY <1>1, <1>3 DEF TypeInv

\* The enemies that do not have their turn go on waiting.
LEMMA OthersWait ==
    ASSUME WellBuilt, LevelInv, phase = "actors", turn \in Actor, Advance,
           NEW a \in Enemy, a # turn, door_to_open[a] # NoDoor, place'[a] = place[a],
           door_to_open'[a] = door_to_open[a],
           doors' \in DoorTypes, NoneShuts(doors, doors'),
           turn \in Enemy => \A d \in Door : doors[d].action = "opening" =>
                                                 doors'[d].action = "opening"
    PROVE  /\ place'[a] \notin DoorTile
           /\ ElevatorDoors(door_to_open[a]) # {} => Awaited(a, door_to_open[a])'
<1> DEFINE d == door_to_open[a]
           AwaitedThen ==
               doors'[d].action \in
                   IF (phase' = "doors" /\ turn' <= d) \/ (phase' = "actors" /\ turn' > a) THEN {"opening"}
                   ELSE IF phase' = "actors" THEN {"opening", "open", "closing"}
                   ELSE {"opening", "open"}
<1>1. /\ a \in Actor /\ d \in Door /\ WaitInv
      /\ \A p \in Player, e \in Enemy : p < e
  BY LevelAssumption DEF LevelInv, TypeInv, LevelTypeOK, ShaftInv
<1>2. /\ NumActors \in Nat /\ a \in 1 .. NumActors /\ turn \in 1 .. NumActors
  BY <1>1, LevelConstants DEF Actor
<1>3. /\ place[a] \notin DoorTile
      /\ ElevatorDoors(d) # {} => Awaited(a, d)
  BY <1>1 DEF WaitInv
<1> HIDE DEF d
<1>4. ASSUME Awaited(a, d)
      PROVE  AwaitedThen
  <2>1. CASE turn > a
    <3>1. turn \in Enemy
      BY <1>1, <1>2, <2>1 DEF Player
    <3>2. doors[d].action = "opening"
      BY <1>4, <2>1 DEF Awaited
    <3>3. doors'[d].action = "opening"
      BY <1>1, <3>1, <3>2
    <3> QED
      BY <3>3
  <2>2. CASE ~ turn > a
    <3>1. turn < a /\ turn < NumActors
      BY <1>2, <2>2
    <3>2. phase' = "actors" /\ turn' = turn + 1 /\ ~ turn' > a
      BY <1>2, <3>1 DEF Advance, Count
    <3>3. doors[d].action # "closed"
      BY <1>4, <2>2 DEF Awaited
    <3>4. doors'[d].action \in {"opening", "open", "closing"}
      BY <1>1, <3>3 DEF NoneShuts, DoorTypes, DoorState
    <3> QED
      BY <3>2, <3>4
  <2> QED
    BY <2>1, <2>2
<1>5. ElevatorDoors(d) # {} => AwaitedThen
  BY <1>3, <1>4
<1> QED
  BY <1>3, <1>5 DEF Awaited, d

LEMMA PlayerActsInv ==
    ASSUME WellBuilt, LevelInv, phase = "actors", Advance, turn \in Player, PlayerActs(turn),
           rushed' \subseteq Door
    PROVE  LevelInv'
<1>1. PICK m \in Uses(turn), x \in Place :
        /\ CanWalk(m.doors, turn, x)
        /\ doors' = Marked(m.doors, turn, x)
        /\ elevator' = m.elevator /\ walls' = m.walls /\ areaconnect' = m.areaconnect
        /\ place' = [place EXCEPT ![turn] = x]
        /\ IF m.areaconnect # areaconnect THEN ConnectAreas(m.areaconnect) ELSE UNCHANGED areabyplayer
        /\ TRIGGER' = TRIGGER \cup {i \in Plate : PlateAt[i] = x}
        /\ UNCHANGED <<plates, door_to_open, cabin>>
  BY DEF PlayerActs
<1>2. turn \in Actor /\ \A a \in Enemy : a # turn /\ a \in Actor
  BY LevelAssumption DEF Player
<1>3. Requested(m.doors, m.elevator) /\ m.walls \in WallTypes /\ m.areaconnect \in CountsType
  BY <1>2, UsesOK
<1>4. /\ doors' \in DoorTypes /\ place' \in [Actor -> Place]
      /\ \A d \in Door : doors'[d].action = m.doors[d].action
      /\ DoorsInv' /\ CabinsOK' /\ NobodyLeftBehind'
  BY <1>1, <1>2, <1>3, ActorMoves
<1>5. /\ TypeInv /\ place \in [Actor -> Place] /\ areabyplayer \in SUBSET Area
      /\ TRIGGER \subseteq Plate /\ door_to_open \in [Enemy -> Door \cup {NoDoor}]
  BY DEF LevelInv, TypeInv, LevelTypeOK
<1>6. TypeInv'
  <2>1. areabyplayer' \in SUBSET Area
    <3>1. ConnectedWith(m.areaconnect, PlayerAreas(place)) \in SUBSET Area
      BY <1>5, PlayerAreasType, ConnectedType
    <3> QED
      BY <1>1, <1>5, <3>1 DEF ConnectAreas
  <2>2. m.elevator \in [Elevator -> ElevatorState] /\ TRIGGER' \subseteq Plate
    BY <1>1, <1>3, <1>5 DEF Requested
  <2> QED
    BY <1>1, <1>3, <1>4, <1>5, <2>1, <2>2, ActorTypes
<1>7. WaitInv'
  <2> SUFFICES ASSUME NEW a \in Enemy, door_to_open[a] # NoDoor
               PROVE  /\ place'[a] \notin DoorTile
                      /\ ElevatorDoors(door_to_open[a]) # {} => Awaited(a, door_to_open[a])'
    BY <1>1 DEF WaitInv
  <2>1. /\ a # turn /\ place'[a] = place[a] /\ turn \notin Enemy
        /\ door_to_open'[a] = door_to_open[a]
    BY <1>1, <1>2, <1>5 DEF Player
  <2>2. NoneShuts(doors, doors')
    BY <1>3, <1>4 DEF NoneShuts, Requested, Called
  <2> QED
    BY <1>2, <1>4, <2>1, <2>2, OthersWait
<1> QED
  BY <1>4, <1>6, <1>7 DEF LevelInv, ShaftInv

\* An enemy opens a door that no elevator has shut and locked.
LEMMA EnemyOpens ==
    ASSUME WellBuilt, LevelInv, NEW d \in Door, d \in Lift => ~ Shut(doors, d)
    PROVE  LET nd == LinkedOpenDoor(doors, d)
           IN /\ Requested(nd, elevator)
              /\ \A g \in Door : doors[g].action = "opening" => nd[g].action = "opening"
              /\ nd[d].action \in {"opening", "open"}
<1> DEFINE nd == LinkedOpenDoor(doors, d)
<1>1. /\ doors \in DoorTypes /\ Together(doors) /\ DoorwaysAgree /\ CabinsOK
      /\ elevator \in [Elevator -> ElevatorState] /\ cabin \in [Elevator -> {"source", "dest"}]
  BY DEF WellBuilt, LevelInv, TypeInv, LevelTypeOK, DoorsInv, ShaftInv, DoorTypes
<1>2. Called(doors, nd)
  BY <1>1, LinkedOpenCalled
<1>3. Requested(doors, elevator)
  BY <1>1, CalledSame DEF Requested, CabinsOK
<1>4. /\ \A g \in Door : doors[g].action = "opening" => nd[g].action = "opening"
      /\ nd[d].action \in {"opening", "open"}
  <2>1. Group[d] \in SUBSET Door /\ d \in Group[d]
    BY DoorAssumption
  <2> QED
    BY <1>1, <2>1, OpenDoorAt DEF LinkedOpenDoor
<1> HIDE DEF nd
<1>5. Requested(nd, elevator)
  BY <1>1, <1>2, <1>3, RequestedMore
<1> QED
  BY <1>4, <1>5 DEF nd

\* The rest of an enemy's turn, its own wait apart.
LEMMA EnemyActsInv ==
    ASSUME WellBuilt, LevelInv, phase = "actors", Advance, turn \in Enemy,
           UNCHANGED <<areaconnect, areabyplayer, walls, plates, TRIGGER, cabin, elevator>>,
           rushed' \subseteq Door, doors' \in DoorTypes, place' \in [Actor -> Place], DoorsInv', CabinsOK', NobodyLeftBehind',
           NoneShuts(doors, doors'),
           \A d \in Door : doors[d].action = "opening" => doors'[d].action = "opening",
           \A a \in Actor : a # turn => place'[a] = place[a],
           NEW d \in Door \cup {NoDoor}, door_to_open' = [door_to_open EXCEPT ![turn] = d],
           d # NoDoor => place'[turn] \notin DoorTile /\ (d \in Lift => doors'[d].action = "opening")
    PROVE  LevelInv'
<1>1. /\ TypeInv /\ elevator \in [Elevator -> ElevatorState] /\ areabyplayer \in SUBSET Area
      /\ areaconnect \in CountsType /\ walls \in WallTypes
      /\ TRIGGER \subseteq Plate /\ door_to_open \in [Enemy -> Door \cup {NoDoor}]
  BY DEF LevelInv, TypeInv, LevelTypeOK, WallTypes, CountsType
<1>2. turn \in Actor /\ Enemy \subseteq Actor
  BY LevelAssumption
<1>3. TypeInv'
  <2>1. door_to_open' \in [Enemy -> Door \cup {NoDoor}]
    BY <1>1
  <2> QED
    BY <1>1, <2>1, ActorTypes
<1>4. WaitInv'
  <2> SUFFICES ASSUME NEW a \in Enemy, door_to_open'[a] # NoDoor
               PROVE  /\ place'[a] \notin DoorTile
                      /\ ElevatorDoors(door_to_open'[a]) # {} => Awaited(a, door_to_open[a])'
    BY DEF WaitInv
  <2>1. CASE a = turn
    <3>1. door_to_open'[a] = d /\ d \in Door
      BY <1>1, <2>1
    <3>2. ElevatorDoors(d) # {} => doors'[d].action = "opening"
      BY <3>1, <2>1 DEF Lift
    <3> QED
      BY <2>1, <3>1, <3>2 DEF Awaited
  <2>2. CASE a # turn
    <3>1. door_to_open'[a] = door_to_open[a] /\ place'[a] = place[a]
      BY <1>1, <1>2, <2>2
    <3> QED
      BY <1>2, <2>2, <3>1, OthersWait
  <2> QED
    BY <2>1, <2>2
<1> QED
  BY <1>3, <1>4 DEF LevelInv, ShaftInv

\* An enemy that waits asks for its door again.
LEMMA EnemyWaitsInv ==
    ASSUME WellBuilt, LevelInv, phase = "actors", Advance, turn \in Enemy, EnemyWaits(turn),
           UNCHANGED <<areaconnect, areabyplayer, walls, plates, TRIGGER, cabin>>, rushed' \subseteq Door
    PROVE  LevelInv'
<1> DEFINE d == door_to_open[turn]
           nd == LinkedOpenDoor(doors, d)
<1>1. /\ d # NoDoor /\ nd[d].action # "open" /\ doors' = nd
      /\ UNCHANGED <<elevator, place, door_to_open>>
  BY DEF EnemyWaits
<1>2. /\ place \in [Actor -> Place] /\ cabin \in [Elevator -> {"source", "dest"}]
      /\ door_to_open \in [Enemy -> Door \cup {NoDoor}] /\ d \in Door /\ turn \in Actor
      /\ place[turn] \notin DoorTile /\ Marks /\ NobodyLeftBehind
      /\ ElevatorDoors(d) # {} => Awaited(turn, d)
  BY <1>1, LevelAssumption DEF LevelInv, TypeInv, LevelTypeOK, ShaftInv, DoorsInv, WaitInv
<1>3. d \in Lift => ~ Shut(doors, d)
  BY <1>2, LevelConstants DEF Awaited, Shut, Lift, Actor
<1>4. /\ Requested(nd, elevator)
      /\ \A g \in Door : doors[g].action = "opening" => nd[g].action = "opening"
      /\ nd[d].action = "opening"
  BY <1>1, <1>2, <1>3, EnemyOpens
<1> HIDE DEF nd, d
<1>5. /\ nd \in DoorTypes /\ Together(nd) /\ HeldOpen(doors, nd) /\ NoneShuts(doors, nd)
  BY <1>4 DEF Requested, Called
<1>6. Marks'
  <2> DEFINE Turn(v) == IF phase' = "actors" /\ v < turn' THEN v + NumActors ELSE v
  <2>1. \A b, c \in Actor : b # turn /\ c # turn /\ LastTurn(b) <= LastTurn(c) => Turn(b) <= Turn(c)
    <3>1. \A b \in Actor : (LastTurn(b))' = Turn(b)
      BY DEF LastTurn
    <3> HIDE DEF Turn
    <3> QED
      BY <1>2, <3>1, ActorsTurn
  <2> SUFFICES ASSUME NEW g \in Door, NEW b \in Actor, place[b] = Tile[g]
               PROVE  /\ nd[g].action = "open" /\ nd[g].at \in Actor
                      /\ place[nd[g].at] = Tile[g]
                      /\ Turn(b) <= Turn(nd[g].at)
    BY <1>1 DEF Marks, LastTurn
  <2> HIDE DEF Turn
  <2>2. /\ doors[g].action = "open" /\ doors[g].at \in Actor
        /\ place[doors[g].at] = Tile[g] /\ LastTurn(b) <= LastTurn(doors[g].at)
    BY <1>2 DEF Marks
  <2>3. nd[g].action = "open" /\ nd[g].at = doors[g].at
    BY <1>5, <2>2 DEF HeldOpen
  <2>4. place[turn] # Tile[g]
    BY <1>2 DEF DoorTile
  <2> QED
    BY <2>1, <2>2, <2>3, <2>4
<1>7. DoorsInv' /\ CabinsOK' /\ NobodyLeftBehind'
  BY <1>1, <1>2, <1>4, <1>5, <1>6 DEF DoorsInv, CabinsOK, Requested, NobodyLeftBehind
<1>8. door_to_open' = [door_to_open EXCEPT ![turn] = d] /\ d \in Door \cup {NoDoor}
  BY <1>1, <1>2 DEF d
<1> QED
  BY <1>1, <1>2, <1>4, <1>5, <1>7, <1>8, EnemyActsInv

\* An enemy whose door is open, or that waits for none, walks or stays.
LEMMA EnemyWalksInv ==
    ASSUME WellBuilt, LevelInv, phase = "actors", Advance, turn \in Enemy, EnemyWalks(turn),
           UNCHANGED <<areaconnect, areabyplayer, walls, plates, TRIGGER, cabin>>, rushed' \subseteq Door
    PROVE  LevelInv'
<1> DEFINE d == door_to_open[turn]
           nd == IF d = NoDoor THEN doors ELSE LinkedOpenDoor(doors, d)
<1>1. PICK x \in Place :
        /\ CanWalk(nd, turn, x) /\ doors' = Marked(nd, turn, x)
        /\ place' = [place EXCEPT ![turn] = x]
        /\ door_to_open' = [door_to_open EXCEPT ![turn] = NoDoor]
        /\ UNCHANGED elevator
  BY DEF EnemyWalks
<1>2. /\ place \in [Actor -> Place] /\ door_to_open \in [Enemy -> Door \cup {NoDoor}]
      /\ turn \in Actor /\ doors \in DoorTypes /\ Together(doors) /\ CabinsOK
      /\ elevator \in [Elevator -> ElevatorState]
      /\ d # NoDoor /\ ElevatorDoors(d) # {} => Awaited(turn, d)
  BY LevelAssumption DEF LevelInv, TypeInv, LevelTypeOK, ShaftInv, DoorsInv, WaitInv, DoorTypes
<1>3. /\ Requested(nd, elevator)
      /\ \A g \in Door : doors[g].action = "opening" => nd[g].action = "opening"
  <2>1. CASE d = NoDoor
    BY <1>2, <2>1, CalledSame DEF Requested, CabinsOK
  <2>2. CASE d # NoDoor
    <3>1. d \in Door
      BY <1>2, <2>2
    <3>2. d \in Lift => ~ Shut(doors, d)
      BY <1>2, <2>2, LevelConstants DEF Awaited, Shut, Lift, Actor
    <3> HIDE DEF d
    <3> QED
      BY <2>2, <3>1, <3>2, EnemyOpens
  <2> QED
    BY <2>1, <2>2
<1> HIDE DEF nd, d
<1>4. /\ doors' \in DoorTypes /\ place' \in [Actor -> Place]
      /\ \A g \in Door : doors'[g].action = nd[g].action
      /\ DoorsInv' /\ CabinsOK' /\ NobodyLeftBehind'
  BY <1>1, <1>2, <1>3, ActorMoves
<1>5. /\ NoneShuts(doors, doors')
      /\ \A g \in Door : doors[g].action = "opening" => doors'[g].action = "opening"
      /\ \A a \in Actor : a # turn => place'[a] = place[a]
  BY <1>1, <1>2, <1>3, <1>4 DEF NoneShuts, Requested, Called
<1> QED
  BY <1>1, <1>4, <1>5, EnemyActsInv

\* An enemy tells a door to open. If it is an elevator's, the cabin is there:
\* the other door is locked, and an enemy does not use a locked door.
\* The door that an enemy meets is not locked: the cabin is there already.
LEMMA MeetingSendsNothing ==
    ASSUME CabinsOK, cabin \in [Elevator -> {"source", "dest"}],
           NEW d \in Door, ~doors[d].elevlocked, ElevatorDoors(d) # {}, NEW nd
    PROVE  OperateElevatorDoor(Machines(nd, elevator), d) = Machines(nd, elevator)
<1> DEFINE told == Machines(nd, elevator)
           e == CHOOSE e \in Elevator : d \in {Door1[e], Door2[e]}
<1>1. e \in Elevator /\ d \in {Door1[e], Door2[e]}
  BY LiftDoors DEF Lift
<1>2. OperateElevatorDoor(told, d) =
          IF /\ \/ elevator[e].state = IF d = Door1[e] THEN "rad" ELSE "ras"
                \/ elevator[e].state = "doorclosing" /\ elevator[e].doorclosing # d
             /\ elevator[e].nextaction # IF d = Door1[e] THEN "mts" ELSE "mtd"
          THEN SetNextAction(told, e, IF d = Door1[e] THEN "mts" ELSE "mtd") ELSE told
  BY DEF OperateElevatorDoor, Machines
<1> HIDE DEF e, told
<1>3. CabinOK(doors, elevator[e], e, cabin[e]) /\ cabin[e] \in {"source", "dest"} /\ Door1[e] # Door2[e]
  BY <1>1, ElevatorAssumption DEF CabinsOK
<1>4. d # DoorThere(e, cabin[e])
  BY <1>3 DEF CabinOK, Shut
<1>5. d = DoorHere(e, cabin[e])
  BY <1>1, <1>3, <1>4 DEF DoorHere, DoorThere
<1>6. /\ elevator[e].state # IF d = Door1[e] THEN "rad" ELSE "ras"
      /\ elevator[e].state = "doorclosing" => elevator[e].doorclosing = d
  BY <1>1, <1>3, <1>5 DEF CabinOK, DoorHere
<1> QED
  BY <1>2, <1>6 DEF told

LEMMA EnemyMeetsDoorInv ==
    ASSUME WellBuilt, LevelInv, phase = "actors", Advance, turn \in Enemy, EnemyMeetsDoor(turn),
           UNCHANGED <<areaconnect, areabyplayer, walls, plates, TRIGGER, cabin>>, rushed' \subseteq Door
    PROVE  LevelInv'
<1>1. PICK d \in Door :
        LET told == Machines(LinkedOpenDoor(doors, d), elevator)
            m == IF ElevatorDoors(d) = {} THEN told ELSE OperateElevatorDoor(told, d)
        IN /\ door_to_open[turn] = NoDoor
           /\ {place[turn], Tile[d]} \in Passage
           /\ doors[d].action # "open" /\ ~doors[d].elevlocked
           /\ doors' = Marked(m.doors, turn, place[turn])
           /\ elevator' = m.elevator
           /\ door_to_open' = [door_to_open EXCEPT ![turn] = d]
           /\ UNCHANGED place
  BY DEF EnemyMeetsDoor
<1> DEFINE nd == LinkedOpenDoor(doors, d)
           told == Machines(nd, elevator)
<1>2. /\ place \in [Actor -> Place] /\ place[turn] \in Place /\ turn \in Actor
      /\ doors \in DoorTypes /\ CabinsOK /\ cabin \in [Elevator -> {"source", "dest"}]
      /\ elevator \in [Elevator -> ElevatorState]
  BY LevelAssumption DEF LevelInv, TypeInv, LevelTypeOK, ShaftInv, DoorTypes
<1>3. d \in Lift => ~ Shut(doors, d)
  BY <1>1 DEF Shut
<1>4. ElevatorDoors(d) # {} => OperateElevatorDoor(told, d) = told
  BY <1>1, <1>2, MeetingSendsNothing
<1>5. /\ doors' = Marked(nd, turn, place[turn]) /\ elevator' = elevator /\ UNCHANGED place
      /\ door_to_open' = [door_to_open EXCEPT ![turn] = d]
  <2>1. (IF ElevatorDoors(d) = {} THEN told ELSE OperateElevatorDoor(told, d)) = told
    BY <1>4
  <2>2. told.doors = nd /\ told.elevator = elevator
    BY DEF Machines
  <2> QED
    BY <1>1, <2>1, <2>2
<1>6. /\ Requested(nd, elevator)
      /\ \A g \in Door : doors[g].action = "opening" => nd[g].action = "opening"
      /\ nd[d].action = "opening"
  <2>1. /\ Requested(nd, elevator)
        /\ \A g \in Door : doors[g].action = "opening" => nd[g].action = "opening"
        /\ nd[d].action \in {"opening", "open"}
    BY <1>3, EnemyOpens
  <2>2. nd[d].action # "open"
    <3>1. Group[d] \in SUBSET Door /\ d \in Group[d]
      BY DoorAssumption
    <3> QED
      BY <1>1, <1>2, <3>1, OpenDoorAt DEF LinkedOpenDoor
  <2> QED
    BY <2>1, <2>2
<1> HIDE DEF nd, told
<1>7. CanWalk(nd, turn, place[turn]) /\ place' = [place EXCEPT ![turn] = place[turn]]
  BY <1>2, <1>5 DEF CanWalk
<1>8. /\ doors' \in DoorTypes /\ place' \in [Actor -> Place]
      /\ \A g \in Door : doors'[g].action = nd[g].action
      /\ DoorsInv' /\ CabinsOK' /\ NobodyLeftBehind'
  <2>1. Requested(nd, elevator')
    BY <1>5, <1>6
  <2> QED
    BY <1>2, <1>5, <1>7, <2>1, ActorMoves
<1>9. /\ NoneShuts(doors, doors')
      /\ \A g \in Door : doors[g].action = "opening" => doors'[g].action = "opening"
      /\ \A a \in Actor : a # turn => place'[a] = place[a]
  BY <1>5, <1>6, <1>8 DEF NoneShuts, Requested, Called
<1>10. place'[turn] \notin DoorTile /\ (d \in Lift => doors'[d].action = "opening")
  BY <1>1, <1>5, <1>6, <1>8 DEF WellBuilt, DoorsApart, DoorTile
<1> QED
  BY <1>5, <1>8, <1>9, <1>10, EnemyActsInv

LEMMA DoActorInv ==
    ASSUME WellBuilt, LevelInv, DoActor
    PROVE  LevelInv'
<1>1. phase = "actors" /\ Advance /\ rushed' \subseteq Door
  BY DEF DoActor, Acting, Rushed, LevelInv, TypeInv, LevelTypeOK
<1>2. CASE turn \in Player /\ PlayerActs(turn)
  BY <1>1, <1>2, PlayerActsInv
<1>3. CASE /\ turn \in Enemy
           /\ EnemyWaits(turn) \/ EnemyWalks(turn) \/ EnemyMeetsDoor(turn)
           /\ UNCHANGED <<areaconnect, areabyplayer, walls, plates, TRIGGER, cabin>>
  BY <1>1, <1>3, EnemyWaitsInv, EnemyWalksInv, EnemyMeetsDoorInv
<1> QED
  BY <1>2, <1>3 DEF DoActor

-----------------------------------------------------------------------------
(* The level                                                               *)

LEMMA NewPlateOK ==
    ASSUME NEW i \in Plate
    PROVE  NewPlate(i) \in PlateState /\ ListOK(i, NewPlate(i).list)
<1> DEFINE list == [k \in DOMAIN PlateAction[i] |->
                       [action |-> PlateAction[i][k].action,
                        swapaction |-> PlateAction[i][k].swapaction,
                        ticcount |-> PlateAction[i][k].tictime, triggered |-> FALSE]]
<1>1. /\ DOMAIN PlateAction[i] = 1 .. Len(PlateAction[i]) /\ Len(PlateAction[i]) \in Nat
      /\ \A k \in DOMAIN PlateAction[i] :
           /\ PlateAction[i][k].tictime \in Nat
           /\ \/ PlateAction[i][k].action \in {"open", "close"}
                 /\ PlateAction[i][k].swapaction \in {"open", "close"}
              \/ PlateAction[i][k].action = "push" /\ PlateAction[i][k].swapaction = "none"
  BY TriggerAssumption
<1>2. \A k \in DOMAIN PlateAction[i] : list[k] \in PlateEntry
  BY <1>1 DEF PlateEntry, PlateDoes
<1>3. list \in [1 .. Len(PlateAction[i]) -> PlateEntry]
  BY <1>1, <1>2
<1>4. ListOK(i, list)
  BY <1>1 DEF ListOK
<1> HIDE DEF list
<1>5. list \in Seq(PlateEntry)
  BY <1>1, <1>3
<1>6. NewPlate(i) = [complete |-> FALSE, done |-> FALSE, list |-> list]
  BY DEF NewPlate, list
<1> QED
  BY <1>4, <1>5, <1>6 DEF PlateState

LEMMA InitLevel ==
    ASSUME WellBuilt, Init
    PROVE  LevelInv
<1>1. \A d \in Door : /\ doors[d].action = "closed"
                      /\ doors[d].elevlocked = (\E e \in Elevator : d = Door2[e])
  BY DEF Init, ShutDoor
<1>2. doors \in DoorTypes
  <2> DEFINE S(locked) == [action |-> "closed", position |-> 0, ticcount |-> 0,
                           elevlocked |-> locked, at |-> DoorThing]
  <2>1. \A locked \in BOOLEAN : S(locked) \in DoorState
    BY DoorAssumption DEF DoorState
  <2> DEFINE Locked(d) == \E e \in Elevator : d = Door2[e]
  <2>2. \A d \in Door : [ShutDoor EXCEPT !.elevlocked = Locked(d)] = S(Locked(d))
    <3> HIDE DEF Locked
    <3> QED
      BY DEF ShutDoor
  <2>3. doors = [d \in Door |-> S(Locked(d))]
    BY <2>2 DEF Init
  <2> HIDE DEF S
  <2>4. \A d \in Door : Locked(d) \in BOOLEAN
    OBVIOUS
  <2> HIDE DEF Locked
  <2>5. \A d \in Door : S(Locked(d)) \in DoorState
    BY <2>1, <2>4
  <2> QED
    BY <2>3, <2>5 DEF DoorTypes
<1>3. place \in [Actor -> Place] /\ place \in Starts
  BY LevelAssumption DEF Init
<1>4. elevator \in [Elevator -> ElevatorState]
  <2>1. 0 \in 0 .. TripTime + OPENTICS
    BY DoorAssumption, ElevatorAssumption
  <2> QED
    BY <2>1 DEF Init, IdleElevator, ElevatorState
<1>5. plates \in [Plate -> PlateState] /\ \A i \in Plate : ListOK(i, plates[i].list)
  BY NewPlateOK DEF Init
<1>6. walls = [w \in Wall |-> walls[w]] /\ \A w \in Wall : walls[w] \in WallState(w)
  <2>1. \A w \in Wall : 1 \in 1 .. Len(WallPath[w]) /\ 0 \in 0 .. PushTics
    BY TriggerAssumption
  <2> QED
    BY <2>1 DEF Init, WallState
<1>7. TypeInv
  <2>1. \A i \in Plate : \A k \in DOMAIN PlateAction[i] :
            plates[i].list[k].ticcount \in 0 .. PlateAction[i][k].tictime
    <3> SUFFICES ASSUME NEW i \in Plate, NEW k \in DOMAIN PlateAction[i]
                 PROVE  plates[i].list[k].ticcount \in 0 .. PlateAction[i][k].tictime
      OBVIOUS
    <3>1. plates[i].list \in Seq(PlateEntry) /\ ListOK(i, plates[i].list)
      BY <1>5 DEF PlateState
    <3>2. k \in DOMAIN plates[i].list
      BY <3>1 DEF ListOK
    <3> QED
      BY <3>1, <3>2, EntryFields
  <2>2. areaconnect \in [Pair -> 0 .. ByteSize - 1]
    BY DoorAssumption DEF Init
  <2>3. areabyplayer \in SUBSET Area
    BY <1>3, PlayerAreasType DEF Init
  <2>4. phase \in Phases /\ turn \in 1 .. Count(phase)
    BY LevelConstants DEF Init, Phases, Count
  <2>5. /\ TRIGGER \subseteq Plate /\ door_to_open \in [Enemy -> Door \cup {NoDoor}]
        /\ cabin \in [Elevator -> {"source", "dest"}] /\ rushed \subseteq Door
    BY DEF Init
  <2> QED
    BY <1>2, <1>3, <1>4, <1>5, <1>6, <2>1, <2>2, <2>3, <2>4, <2>5 DEF TypeInv, LevelTypeOK, DoorTypes
<1>8. DoorsInv
  <2>1. Together(doors)
    BY <1>1 DEF Together, Opens
  <2>2. Marks
    BY <1>3 DEF Marks, WellBuilt, StartsOutside, DoorTile
  <2> QED
    BY <2>1, <2>2 DEF DoorsInv
<1>9. CabinsOK
  <2> SUFFICES ASSUME NEW e \in Elevator
               PROVE  CabinOK(doors, elevator[e], e, cabin[e])
    BY DEF CabinsOK
  <2>1. cabin[e] = "source" /\ elevator[e].state = "ras" /\ elevator[e].nextaction = "none"
    BY DEF Init, IdleElevator
  <2>2. Shut(doors, Door2[e])
    BY <1>1, ElevatorAssumption DEF Shut
  <2> QED
    BY <2>1, <2>2 DEF CabinOK, DoorThere
<1>10. NobodyLeftBehind
  <2>1. \A e \in Elevator : cabin[e] = "source"
    BY DEF Init
  <2> QED
    BY <1>3, <2>1 DEF NobodyLeftBehind, WellBuilt, StartsOutside
<1>11. WaitInv
  BY DEF Init, WaitInv
<1> QED
  BY <1>7, <1>8, <1>9, <1>10, <1>11 DEF LevelInv, ShaftInv

LEMMA NextLevel ==
    ASSUME WellBuilt, LevelInv, [Next]_vars
    PROVE  LevelInv'
<1>1. CASE UNCHANGED vars
  <2>1. UNCHANGED <<doors, areaconnect, elevator, walls, plates, TRIGGER, place, door_to_open,
                    areabyplayer, phase, turn, cabin, rushed>>
    BY <1>1 DEF vars, level
  <2>2. TypeInv'
    BY <2>1 DEF LevelInv, TypeInv, LevelTypeOK, Count
  <2>3. DoorsInv'
    BY <2>1 DEF LevelInv, DoorsInv, Marks, LastTurn
  <2>4. ShaftInv'
    BY <2>1 DEF LevelInv, ShaftInv, CabinsOK, NobodyLeftBehind, WaitInv, Awaited
  <2> QED
    BY <2>2, <2>3, <2>4 DEF LevelInv
<1> QED
  BY <1>1, MoveDoorInv, ProcessElevatorInv, MovePWallInv, TriggerStuffInv, DoActorInv DEF Next

\* In a level that is WellBuilt the places where the cabin of an elevator is
\* remembered agree after every step of the tic, and so do those of who is in a
\* door: MoveDoors, ProcessElevators, MovePWalls, TriggerStuff, DoActor.
THEOREM LevelInvariant == ASSUME WellBuilt PROVE Spec => []LevelInv
<1>1. Init => LevelInv
  BY InitLevel
<1>2. LevelInv /\ [Next]_vars => LevelInv'
  BY NextLevel
<1> QED
  BY <1>1, <1>2, PTL DEF Spec

\* Every variable keeps its type: doorobjlist, areaconnect, ELEVATOR, pwallobjlist,
\* touchplate and the places and areas of the actors.
THEOREM LevelTyped == ASSUME WellBuilt PROVE Spec => []LevelTypeOK
<1>1. LevelInv => LevelTypeOK
  BY DEF LevelInv, TypeInv
<1> QED
  BY <1>1, LevelInvariant, PTL

\* Nobody walks into an elevator's shaft: whatever plates, players and enemies do,
\* the door of the cell the cabin is not at is shut and locked (SetNextAction,
\* CheckElevatorStart, ExecuteElevatorStopActions).
THEOREM ShaftStaysShut == ASSUME WellBuilt PROVE Spec => []ShaftIsShut
<1>1. LevelInv => ShaftIsShut
  <2> SUFFICES ASSUME LevelInv, NEW e \in Elevator
               PROVE  /\ cabin[e] = "source" => Shut(doors, Door2[e])
                      /\ cabin[e] = "dest" => Shut(doors, Door1[e])
                      /\ elevator[e].state \in {"mts", "mtd"} =>
                             Shut(doors, Door1[e]) /\ Shut(doors, Door2[e])
    BY DEF ShaftIsShut, Shut
  <2>1. CabinOK(doors, elevator[e], e, cabin[e]) /\ cabin[e] \in {"source", "dest"}
    BY DEF LevelInv, TypeInv, LevelTypeOK, ShaftInv, CabinsOK
  <2> QED
    BY <2>1 DEF CabinOK, DoorHere, DoorThere
<1> QED
  BY <1>1, LevelInvariant, PTL

\* Teleport leaves nobody behind: who is in a cell is in the cabin, although only
\* the doors keep others out of the cells.
THEOREM NobodyStaysBehind == ASSUME WellBuilt PROVE Spec => []NobodyLeftBehind
<1>1. LevelInv => NobodyLeftBehind
  BY DEF LevelInv, ShaftInv
<1> QED
  BY <1>1, LevelInvariant, PTL

\* "Don't close on anything solid" (DoorUnBlocked): no door closes on an actor,
\* although actorat holds only one of those in a tile and is cleared by who leaves.
THEOREM NobodyIsShutIn == ASSUME WellBuilt PROVE Spec => []NobodyShutIn
<1>1. LevelInv => NobodyShutIn
  BY DEF LevelInv, DoorsInv, Marks, NobodyShutIn
<1> QED
  BY <1>1, LevelInvariant, PTL
=============================================================================
