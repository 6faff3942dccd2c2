----------------------- MODULE RottLevelCountProofs ------------------------
(***************************************************************************)
(* The counts of RottLevel: areaconnect is the number of doors and pushed  *)
(* walls between two areas, in every level that is WellBuilt and Countable *)
(* and for every pair of areas none of whose doors an actor has rushed.    *)
(* CountInv is shown to be inductive on top of LevelInv: a door that is    *)
(* told to open is told to close before it has moved by an actor only      *)
(* (ToldInv), so every other door that shuts has left its first position,  *)
(* and was counted.                                                        *)
(*                                                                         *)
(* And the areas the players see, on top of both: ConnectAreas finds the   *)
(* least set of areas closed under areaconnect, and who walks from one     *)
(* area into another has a connection that is counted (WalkConnected).     *)
(***************************************************************************)
EXTENDS RottLevelProofs

-----------------------------------------------------------------------------
(* Calls and the positions of the doors                                    *)

\* Calls move no door; those of T may be told to open, and of the doors that were
\* told to open and have not moved those of R may be told to close.
Counted(ds, nd, T, R) ==
    \A d \in Door :
        /\ nd[d].position = ds[d].position
        /\ nd[d].action = "open" => ds[d].action = "open"
        /\ nd[d].action = "closed" => ds[d].action = "closed"
        /\ nd[d].action = "closing" => ds[d].action # "closed" /\ (JustTold(ds, d) => d \in R)
        /\ JustTold(nd, d) => JustTold(ds, d) \/ (d \in T /\ ds[d].action \in {"closed", "closing"})

LEMMA OpenDoorPositions ==
    ASSUME NEW ds \in DoorTypes, NEW S \in SUBSET Door
    PROVE  \A d \in Door : OpenDoor(ds, S)[d].position = ds[d].position
<1>1. \A d \in Door : ds[d] \in DoorState
  BY DEF DoorTypes
<1> QED
  BY <1>1 DEF OpenDoor, DoorState

LEMMA CloseDoorPositions ==
    ASSUME NEW ds \in DoorTypes, NEW S \in SUBSET Door
    PROVE  \A d \in Door : CloseDoor(ds, S)[d].position = ds[d].position
<1>1. \A d \in Door : ds[d] \in DoorState
  BY DEF DoorTypes
<1> QED
  BY <1>1 DEF CloseDoor, DoorState

LEMMA OpenCounted ==
    ASSUME NEW ds \in DoorTypes, NEW S \in SUBSET Door
    PROVE  Counted(ds, OpenDoor(ds, S), S, {})
<1> DEFINE nd == OpenDoor(ds, S)
<1>1. \A d \in Door : /\ nd[d].position = ds[d].position
                      /\ d \notin S => nd[d] = ds[d]
                      /\ d \in S => nd[d].action = IF ds[d].action = "open" THEN "open" ELSE "opening"
  BY OpenDoorPositions, OpenDoorAt
<1> HIDE DEF nd
<1>2. \A d \in Door : ds[d].action \in {"open", "closed", "opening", "closing"}
  BY DEF DoorTypes, DoorState
<1> SUFFICES ASSUME NEW d \in Door
             PROVE  /\ nd[d].position = ds[d].position
                    /\ nd[d].action = "open" => ds[d].action = "open"
                    /\ nd[d].action = "closed" => ds[d].action = "closed"
                    /\ nd[d].action = "closing" => ds[d].action # "closed" /\ ~ JustTold(ds, d)
                    /\ JustTold(nd, d) =>
                           JustTold(ds, d) \/ (d \in S /\ ds[d].action \in {"closed", "closing"})
  BY DEF Counted, nd
<1>3. CASE d \in S
  <2>1. JustTold(nd, d) => JustTold(ds, d) \/ ds[d].action \in {"closed", "closing"}
    BY <1>1, <1>2, <1>3 DEF JustTold
  <2> QED
    BY <1>1, <1>3, <2>1
<1>4. CASE d \notin S
  BY <1>1, <1>4 DEF JustTold
<1> QED
  BY <1>3, <1>4

LEMMA CloseCounted ==
    ASSUME NEW ds \in DoorTypes, NEW S \in SUBSET Door,
           NEW R, \A g \in S : JustTold(ds, g) => g \in R
    PROVE  Counted(ds, CloseDoor(ds, S), {}, R)
<1> DEFINE nd == CloseDoor(ds, S)
<1>1. \A d \in Door : /\ nd[d].position = ds[d].position
                      /\ d \notin S => nd[d] = ds[d]
                      /\ d \in S => nd[d].action = IF ds[d].action = "closed" THEN "closed" ELSE "closing"
  BY CloseDoorPositions, CloseDoorAt
<1> HIDE DEF nd
<1> QED
  BY <1>1 DEF Counted, JustTold, nd

LEMMA AlikeCounted ==
    ASSUME NEW ds, NEW nd,
           \A d \in Door : nd[d].action = ds[d].action /\ nd[d].position = ds[d].position
    PROVE  Counted(ds, nd, {}, {})
BY DEF Counted, JustTold

LEMMA CountedPositions ==
    ASSUME NEW ds \in DoorTypes, NEW Q, PositionsOK(ds, Q),
           NEW nd, NEW T, NEW R, Counted(ds, nd, T, R), NEW P, Q \subseteq P, R \subseteq P
    PROVE  PositionsOK(nd, P)
<1> SUFFICES ASSUME NEW d \in Door
             PROVE  /\ nd[d].action = "open" => nd[d].position > 0
                    /\ nd[d].action = "closing" => nd[d].position > 0 \/ d \in P
                    /\ nd[d].action = "closed" => nd[d].position = 0
  BY DEF PositionsOK
<1>1. ds[d].position \in Nat /\ ds[d].action \in {"open", "closed", "opening", "closing"}
  BY DoorAssumption DEF DoorTypes, DoorState
<1> QED
  BY <1>1 DEF Counted, PositionsOK, JustTold

LEMMA CountedTrans ==
    ASSUME NEW ds \in DoorTypes, PositionsOK(ds, Door), NEW md \in DoorTypes, NEW nd, NEW T, NEW U,
           NEW R, \A d \in R : ds[d].action # "closed",
           Counted(ds, md, T, R), Counted(md, nd, U, R)
    PROVE  Counted(ds, nd, T \cup U, R)
<1> SUFFICES ASSUME NEW d \in Door
             PROVE  /\ nd[d].position = ds[d].position
                    /\ nd[d].action = "open" => ds[d].action = "open"
                    /\ nd[d].action = "closed" => ds[d].action = "closed"
                    /\ nd[d].action = "closing" =>
                           ds[d].action # "closed" /\ (JustTold(ds, d) => d \in R)
                    /\ JustTold(nd, d) => JustTold(ds, d)
                           \/ (d \in T \cup U /\ ds[d].action \in {"closed", "closing"})
  BY DEF Counted
<1>1. /\ md[d].action \in {"open", "closed", "opening", "closing"}
      /\ ds[d].action \in {"open", "closed", "opening", "closing"}
      /\ ds[d].position \in Nat
  BY DoorAssumption DEF DoorTypes, DoorState
<1>2. nd[d].action = "closing" => ds[d].action # "closed" /\ (JustTold(ds, d) => d \in R)
  BY <1>1 DEF Counted, PositionsOK, JustTold
<1>3. JustTold(nd, d) => JustTold(ds, d) \/ (d \in T \cup U /\ ds[d].action \in {"closed", "closing"})
  BY <1>1 DEF Counted, PositionsOK, JustTold
<1> QED
  BY <1>2, <1>3 DEF Counted

LEMMA CountedMore ==
    ASSUME NEW ds, NEW nd, NEW T, NEW R, Counted(ds, nd, T, R), NEW U, T \subseteq U, NEW Q, R \subseteq Q
    PROVE  Counted(ds, nd, U, Q)
BY DEF Counted

\* The calls with their doorways.
LEMMA LinkedOpenCounted ==
    ASSUME NEW ds \in DoorTypes, NEW d \in Door
    PROVE  Counted(ds, LinkedOpenDoor(ds, d), Group[d], {})
<1>1. Group[d] \in SUBSET Door
  BY DoorAssumption
<1> QED
  BY <1>1, OpenCounted DEF LinkedOpenDoor

LEMMA LinkedCloseCounted ==
    ASSUME NEW ds \in DoorTypes, NEW d \in Door, NEW R, \A g \in Group[d] : JustTold(ds, g) => g \in R
    PROVE  Counted(ds, LinkedCloseDoor(ds, d), {}, R)
<1>1. Group[d] \in SUBSET Door
  BY DoorAssumption
<1>2. Counted(ds, CloseDoor(ds, Group[d]), {}, R)
  BY <1>1, CloseCounted
<1>3. Counted(ds, ds, {}, R)
  <2>1. Counted(ds, ds, {}, {})
    BY AlikeCounted
  <2> QED
    BY <2>1, CountedMore
<1> QED
  BY <1>2, <1>3 DEF LinkedCloseDoor

\* ToldInv, through a turn of a loop that moves no door.
LEMMA ToldKept ==
    ASSUME DoorwaysAgree, phase \in Phases \ {"doors"}, turn \in 1 .. Count(phase), Advance,
           doors \in DoorTypes, Together(doors), PositionsOK(doors, rushed), ToldInv,
           NEW T, NEW R, Counted(doors, doors', T, R), rushed' = rushed \cup R,
           phase = "elevators" => T \subseteq Lift,
           phase = "walls" => T = {},
           phase = "plates" =>
               \A g \in T : \E k \in DOMAIN PlateAction[turn] : Tells(turn, k, "open", g)
    PROVE  ToldInv' /\ PositionsOK(doors', rushed')
<1>1. PositionsOK(doors', rushed')
  BY CountedPositions
<1>2. ASSUME NEW g \in Door, JustTold(doors', g)
      PROVE  /\ phase' = "doors" => turn' <= g
             /\ \A d \in Group[g] : doors'[d].action = "open" => phase' = "doors" /\ turn' > d
             /\ phase' \in {"elevators", "walls"} => ElevatorDoors(g) # {}
             /\ phase' = "plates" /\ ElevatorDoors(g) = {} =>
                    \E i \in Plate : i < turn' /\ \E k \in DOMAIN PlateAction[i] : Tells(i, k, "open", g)
  <2>1. JustTold(doors, g) \/ (g \in T /\ doors[g].action \in {"closed", "closing"})
    BY <1>2 DEF Counted
  <2>2. turn \in Nat /\ g \in Nat /\ g >= 1 /\ g \in Group[g] /\ Group[g] \in SUBSET Door
    <3>1. Count(phase) \in Nat
      BY LevelConstants
    <3> QED
      BY <3>1, DoorAssumption DEF Door
  <2>3. phase' = "doors" => turn' = 1
    BY DEF Advance, After, Phases
  <2>4. \A d \in Group[g] : doors'[d].action # "open"
    <3> SUFFICES ASSUME NEW d \in Group[g], doors[d].action = "open"
                 PROVE  FALSE
      BY <2>2 DEF Counted
    <3>1. Group[d] = Group[g] /\ d \in Door
      BY <2>2 DEF DoorwaysAgree
    <3>2. ~ JustTold(doors, g)
      BY <3>1 DEF ToldInv
    <3>3. doors[g].action \in {"closed", "closing"} /\ Opens(doors, d) /\ g \in Group[d]
      BY <2>1, <2>2, <3>1, <3>2 DEF Opens
    <3> QED
      BY <3>1, <3>3 DEF Together, Opens
  <2>5. phase' \in {"elevators", "walls"} => ElevatorDoors(g) # {}
    <3>1. phase' \in {"elevators", "walls"} => phase \in {"elevators", "walls"}
      BY DEF Advance, After, Phases
    <3> QED
      BY <2>1, <3>1 DEF ToldInv, Lift
  <2>6. ASSUME phase' = "plates", ElevatorDoors(g) = {}
        PROVE  \E i \in Plate : i < turn' /\ \E k \in DOMAIN PlateAction[i] : Tells(i, k, "open", g)
    <3>1. phase = "plates" /\ turn' = turn + 1
      <4>1. phase # "elevators"
        BY <2>6 DEF Advance, After
      <4>2. phase # "walls"
        BY <2>1, <2>6 DEF ToldInv
      <4> QED
        BY <2>6, <4>1, <4>2 DEF Advance, After, Phases
    <3>2. CASE JustTold(doors, g)
      <4>1. PICK i \in Plate : i < turn /\ \E k \in DOMAIN PlateAction[i] :
                                   Tells(i, k, "open", g)
        BY <2>6, <3>1, <3>2 DEF ToldInv
      <4>2. i < turn'
        BY <2>2, <3>1, <4>1 DEF Plate
      <4> QED
        BY <4>1, <4>2
    <3>3. CASE g \in T
      <4>1. turn \in Plate /\ turn < turn'
        BY <2>2, <3>1 DEF Plate, Count
      <4> QED
        BY <3>1, <3>3, <4>1
    <3> QED
      BY <2>1, <3>2, <3>3
  <2> QED
    BY <2>2, <2>3, <2>4, <2>5, <2>6
<1>3. ToldInv'
  BY <1>2 DEF ToldInv
<1> QED
  BY <1>1, <1>3

-----------------------------------------------------------------------------
(* What is counted                                                         *)

\* The doors, and the pushes of walls, that connect the areas of pr.
OpenAt(ds, pr) == {d \in Door : Side[d] = pr /\ ds[d].position > 0}
BegunAt(ws, pr) == {push \in PushesBegun(ws) : pr \in WallPath[push[1]][push[2]].connects}

\* The pairs of areas none of whose doors is in R.
Sound(R) == {pr \in Pair : \A d \in R : Side[d] # pr}

CountsOK(ds, ws, ac, R) ==
    \A pr \in Sound(R) : ac[pr] = Cardinality(OpenAt(ds, pr)) + Cardinality(BegunAt(ws, pr))

LEMMA FewerCounts ==
    ASSUME NEW ds, NEW ws, NEW ac, NEW R, CountsOK(ds, ws, ac, R), NEW Q, R \subseteq Q
    PROVE  CountsOK(ds, ws, ac, Q)
BY DEF CountsOK, Sound

LEMMA PushesFinite == IsFiniteSet(Door) /\ IsFiniteSet(Pushes)
<1>1. NumDoors \in Nat /\ NumWalls \in Nat /\ \A w \in Wall : Len(WallPath[w]) \in Nat
                                             /\ DOMAIN WallPath[w] = 1 .. Len(WallPath[w])
  BY LevelConstants, TriggerAssumption
<1>2. IsFiniteSet(Door) /\ IsFiniteSet(Wall)
  BY <1>1, FS_Interval DEF Door, Wall
<1> DEFINE Legs(w) == {w} \X DOMAIN WallPath[w]
           S == {Legs(w) : w \in Wall}
           legs == [w \in Wall |-> Legs(w)]
<1>3. ASSUME NEW w \in Wall
      PROVE  IsFiniteSet(Legs(w))
  <2>1. IsFiniteSet({w}) /\ IsFiniteSet(DOMAIN WallPath[w])
    <3>1. Len(WallPath[w]) \in Int /\ 1 \in Int
      BY <1>1
    <3>2. IsFiniteSet(1 .. Len(WallPath[w]))
      BY <3>1, FS_Interval
    <3> QED
      BY <1>1, <3>2, FS_Singleton
  <2> QED
    BY <2>1, FS_Product
<1>4. IsFiniteSet(S)
  <2>1. legs \in Surjection(Wall, S)
    BY DEF Surjection
  <2> HIDE DEF legs, S
  <2> QED
    BY <1>2, <2>1, FS_Surjection
<1>5. \A s \in S : IsFiniteSet(s)
  BY <1>3
<1>6. Pushes = UNION S
  BY DEF Pushes
<1> HIDE DEF S
<1> QED
  BY <1>2, <1>4, <1>5, <1>6, FS_UNION

\* They are finitely many, and a byte can count them.
LEMMA CountsBounded ==
    ASSUME NEW pr \in Pair
    PROVE  /\ \A ds : IsFiniteSet(OpenAt(ds, pr)) /\ Cardinality(OpenAt(ds, pr)) \in Nat
           /\ \A ws : IsFiniteSet(BegunAt(ws, pr)) /\ Cardinality(BegunAt(ws, pr)) \in Nat
           /\ CountsFit => \A ds, ws :
                  Cardinality(OpenAt(ds, pr)) + Cardinality(BegunAt(ws, pr)) < ByteSize
<1> DEFINE allD == {d \in Door : Side[d] = pr}
           allP == {push \in Pushes : pr \in WallPath[push[1]][push[2]].connects}
<1>1. IsFiniteSet(allD) /\ IsFiniteSet(allP) /\ Cardinality(allD) \in Nat /\ Cardinality(allP) \in Nat
  <2>1. allD \in SUBSET Door /\ allP \in SUBSET Pushes
    OBVIOUS
  <2> HIDE DEF allD, allP
  <2>2. IsFiniteSet(allD) /\ IsFiniteSet(allP)
    BY <2>1, PushesFinite, FS_Subset
  <2> QED
    BY <2>2, FS_CardinalityType
<1>2. CountsFit => Cardinality(allD) + Cardinality(allP) < ByteSize
  BY DEF CountsFit
<1>3. ASSUME NEW ds
      PROVE  /\ IsFiniteSet(OpenAt(ds, pr)) /\ Cardinality(OpenAt(ds, pr)) \in Nat
             /\ Cardinality(OpenAt(ds, pr)) <= Cardinality(allD)
  <2>1. OpenAt(ds, pr) \in SUBSET allD
    BY DEF OpenAt
  <2> HIDE DEF allD
  <2> QED
    BY <1>1, <2>1, FS_Subset, FS_CardinalityType
<1>4. ASSUME NEW ws
      PROVE  /\ IsFiniteSet(BegunAt(ws, pr)) /\ Cardinality(BegunAt(ws, pr)) \in Nat
             /\ Cardinality(BegunAt(ws, pr)) <= Cardinality(allP)
  <2>1. BegunAt(ws, pr) \in SUBSET allP
    BY DEF BegunAt, PushesBegun
  <2> HIDE DEF allP
  <2> QED
    BY <1>1, <2>1, FS_Subset, FS_CardinalityType
<1> HIDE DEF allD, allP
<1>5. ASSUME CountsFit, NEW ds, NEW ws
      PROVE  Cardinality(OpenAt(ds, pr)) + Cardinality(BegunAt(ws, pr)) < ByteSize
  <2>1. ByteSize \in Nat
    BY DoorAssumption
  <2> QED
    BY <1>1, <1>2, <1>3, <1>4, <1>5, <2>1
<1> QED
  BY <1>3, <1>4, <1>5

\* A byte that goes up or down and does not wrap.
LEMMA ByteSteps ==
    ASSUME NEW n \in Nat
    PROVE  /\ n + 1 < ByteSize => (n + 1) % ByteSize = n + 1
           /\ n > 0 /\ n < ByteSize => (n + ByteSize - 1) % ByteSize = n - 1
<1>1. ByteSize \in Nat \ {0}
  BY DoorAssumption
<1>2. ASSUME n > 0, n < ByteSize
      PROVE  (n + ByteSize - 1) % ByteSize = n - 1
  <2>1. n + ByteSize - 1 = ByteSize + (n - 1) /\ n - 1 \in 0 .. ByteSize - 1
    BY <1>1, <1>2
  <2> QED
    BY <1>1, <2>1
<1> QED
  BY <1>1, <1>2

\* Only whether a door is out of its first position is counted.
LEMMA SamePositionsCount ==
    ASSUME NEW ds, NEW ws, NEW ac, NEW R, CountsOK(ds, ws, ac, R), NEW nd,
           \A d \in Door : nd[d].position > 0 <=> ds[d].position > 0
    PROVE  CountsOK(nd, ws, ac, R)
<1>1. \A pr \in Pair : OpenAt(nd, pr) = OpenAt(ds, pr)
  BY DEF OpenAt
<1> QED
  BY <1>1 DEF CountsOK, Sound

LEMMA SamePushesCount ==
    ASSUME NEW ds, NEW ws, NEW ac, NEW R, CountsOK(ds, ws, ac, R), NEW nw, PushesBegun(nw) = PushesBegun(ws)
    PROVE  CountsOK(ds, nw, ac, R)
BY DEF CountsOK, Sound, BegunAt

\* A door leaves its first position.
LEMMA DoorConnects ==
    ASSUME CountsFit, NEW ds, NEW ws, NEW ac \in CountsType,
           NEW R, CountsOK(ds, ws, ac, R), NEW d \in Door, NEW nd,
           ~ ds[d].position > 0, nd[d].position > 0,
           \A g \in Door : g # d => nd[g].position = ds[g].position
    PROVE  CountsOK(nd, ws, Connect(ac, Side[d]), R)
<1> DEFINE nc == Connect(ac, Side[d])
<1>1. Side[d] \in Pair
  BY DoorAssumption
<1>2. \A pr \in Pair : nc[pr] = IF pr = Side[d] THEN (ac[pr] + 1) % ByteSize ELSE ac[pr]
  BY <1>1 DEF Connect, CountsType
<1>3. /\ OpenAt(nd, Side[d]) = OpenAt(ds, Side[d]) \cup {d} /\ d \notin OpenAt(ds, Side[d])
      /\ \A pr \in Pair : pr # Side[d] => OpenAt(nd, pr) = OpenAt(ds, pr)
  BY DEF OpenAt
<1>4. Cardinality(OpenAt(nd, Side[d])) = Cardinality(OpenAt(ds, Side[d])) + 1
  BY <1>1, <1>3, CountsBounded, FS_AddElement
<1> HIDE DEF nc
<1>5. ASSUME Side[d] \in Sound(R)
      PROVE  nc[Side[d]] = Cardinality(OpenAt(nd, Side[d])) + Cardinality(BegunAt(ws, Side[d]))
  <2> DEFINE p == Side[d]
             a == Cardinality(OpenAt(ds, p))
             b == Cardinality(BegunAt(ws, p))
  <2>1. a \in Nat /\ b \in Nat /\ Cardinality(OpenAt(nd, p)) + b < ByteSize /\ ac[p] = a + b
    BY <1>1, <1>5, CountsBounded DEF CountsOK
  <2> HIDE DEF a, b
  <2>2. a + b \in Nat /\ (a + b) + 1 < ByteSize
    BY <1>4, <2>1 DEF a
  <2>3. ((a + b) + 1) % ByteSize = (a + b) + 1
    BY <2>2, ByteSteps
  <2> QED
    BY <1>1, <1>2, <1>4, <2>1, <2>3 DEF a, b
<1> QED
  BY <1>2, <1>3, <1>5 DEF CountsOK, Sound, nc

\* A door is back in it.
LEMMA DoorDisconnects ==
    ASSUME CountsFit, NEW ds, NEW ws, NEW ac \in CountsType,
           NEW R, CountsOK(ds, ws, ac, R), NEW d \in Door, NEW nd,
           ds[d].position > 0 \/ d \in R, ~ nd[d].position > 0,
           \A g \in Door : g # d => nd[g].position = ds[g].position
    PROVE  CountsOK(nd, ws, Disconnect(ac, Side[d]), R)
<1> DEFINE nc == Disconnect(ac, Side[d])
<1>1. Side[d] \in Pair
  BY DoorAssumption
<1>2. \A pr \in Pair : nc[pr] = IF pr = Side[d] THEN (ac[pr] + ByteSize - 1) % ByteSize ELSE ac[pr]
  BY <1>1 DEF Disconnect, CountsType
<1>3. /\ Side[d] \in Sound(R) => /\ OpenAt(nd, Side[d]) = OpenAt(ds, Side[d]) \ {d}
                                  /\ d \in OpenAt(ds, Side[d])
      /\ \A pr \in Pair : pr # Side[d] => OpenAt(nd, pr) = OpenAt(ds, pr)
  BY DEF OpenAt, Sound
<1>4. Side[d] \in Sound(R) => Cardinality(OpenAt(nd, Side[d])) = Cardinality(OpenAt(ds, Side[d])) - 1
  BY <1>1, <1>3, CountsBounded, FS_RemoveElement
<1> HIDE DEF nc
<1>5. ASSUME Side[d] \in Sound(R)
      PROVE  nc[Side[d]] = Cardinality(OpenAt(nd, Side[d])) + Cardinality(BegunAt(ws, Side[d]))
  <2> DEFINE p == Side[d]
             a == Cardinality(OpenAt(ds, p))
             b == Cardinality(BegunAt(ws, p))
             c == Cardinality(OpenAt(nd, p))
  <2>1. a \in Nat /\ b \in Nat /\ c \in Nat /\ a + b < ByteSize /\ ac[p] = a + b /\ c = a - 1
    BY <1>1, <1>4, <1>5, CountsBounded DEF CountsOK
  <2> HIDE DEF a, b, c
  <2>2. a + b \in Nat /\ a + b > 0 /\ a + b < ByteSize
    BY <2>1
  <2>3. ((a + b) + ByteSize - 1) % ByteSize = (a + b) - 1
    BY <2>2, ByteSteps
  <2>4. nc[p] = (a + b) - 1
    BY <1>1, <1>2, <2>1, <2>3
  <2>5. nc[p] = c + b
    BY <2>1, <2>4
  <2> QED
    BY <2>5 DEF b, c
<1> QED
  BY <1>2, <1>3, <1>5 DEF CountsOK, Sound, nc

\* The pushes of a wall that is at rest, and of one that is not.
LEMMA PushMember ==
    ASSUME NEW ws, NEW w \in Wall, NEW l
    PROVE  <<w, l>> \in PushesBegun(ws) <=>
               /\ l \in DOMAIN WallPath[w]
               /\ l < ws[w].leg + (IF ws[w].action = "npushed" THEN 0 ELSE 1)
<1>1. <<w, l>> \in Pushes <=> l \in DOMAIN WallPath[w]
  BY DEF Pushes
<1> QED
  BY <1>1 DEF PushesBegun

LEMMA SamePushes ==
    ASSUME NEW ws, NEW nw,
           \A w \in Wall : \A l \in DOMAIN WallPath[w] :
               l < nw[w].leg + (IF nw[w].action = "npushed" THEN 0 ELSE 1)
                   <=> l < ws[w].leg + (IF ws[w].action = "npushed" THEN 0 ELSE 1)
    PROVE  PushesBegun(nw) = PushesBegun(ws)
<1>1. \A push \in Pushes : push[1] \in Wall /\ push[2] \in DOMAIN WallPath[push[1]]
  BY DEF Pushes
<1> QED
  BY <1>1 DEF PushesBegun

\* A wall that begins a push.
LEMMA PushConnects ==
    ASSUME CountsFit, NEW ds, NEW ws \in WallTypes, NEW ac \in CountsType, NEW R, CountsOK(ds, ws, ac, R),
           NEW w \in Wall, ws[w].action = "npushed",
           NEW nw \in WallTypes, nw[w].action = "pushing", nw[w].leg = ws[w].leg,
           \A v \in Wall : v # w => nw[v] = ws[v]
    PROVE  CountsOK(ds, nw, ConnectPushWall(ac, WallPath[w][ws[w].leg].connects), R)
<1> DEFINE leg == ws[w].leg
           prs == WallPath[w][leg].connects
           nc == ConnectPushWall(ac, prs)
           push == <<w, leg>>
<1>1. leg \in DOMAIN WallPath[w] /\ leg \in Nat /\ DOMAIN WallPath[w] = 1 .. Len(WallPath[w])
  BY WallFields
<1>2. PushesBegun(nw) = PushesBegun(ws) \cup {push} /\ push \notin PushesBegun(ws) /\ push \in Pushes
  <2>1. push \in Pushes
    BY <1>1 DEF Pushes
  <2>2. push \notin PushesBegun(ws)
    BY <1>1, PushMember
  <2>3. ASSUME NEW q \in Pushes
        PROVE  q \in PushesBegun(nw) <=> q \in PushesBegun(ws) \/ q = push
    <3>1. PICK v \in Wall : \E l \in DOMAIN WallPath[v] : q = <<v, l>>
      BY DEF Pushes
    <3>4. PICK l \in DOMAIN WallPath[v] : q = <<v, l>>
      BY <3>1
    <3>2. CASE v = w
      <4>1. l \in Nat
        BY <1>1, <3>2
      <4>2. q \in PushesBegun(nw) <=> l < leg + 1
        BY <3>4, <3>2, PushMember
      <4>3. q \in PushesBegun(ws) <=> l < leg + 0
        BY <3>4, <3>2, PushMember
      <4>4. q = push <=> l = leg
        BY <3>4, <3>2
      <4> HIDE DEF push, leg
      <4> QED
        BY <1>1, <4>1, <4>2, <4>3, <4>4
    <3>3. CASE v # w
      BY <3>4, <3>3, PushMember
    <3> QED
      BY <3>2, <3>3
  <2>4. PushesBegun(nw) \subseteq Pushes /\ PushesBegun(ws) \subseteq Pushes
    BY DEF PushesBegun
  <2> HIDE DEF push
  <2> QED
    BY <2>1, <2>2, <2>3, <2>4
<1>3. \A pr \in Pair : nc[pr] = IF pr \in prs THEN (ac[pr] + 1) % ByteSize ELSE ac[pr]
  BY DEF ConnectPushWall, CountsType
<1> HIDE DEF nc
<1> SUFFICES ASSUME NEW pr \in Sound(R)
             PROVE  nc[pr] = Cardinality(OpenAt(ds, pr)) + Cardinality(BegunAt(nw, pr))
  BY DEF CountsOK, nc
<1>0. pr \in Pair
  BY DEF Sound
<1>4. WallPath[push[1]][push[2]].connects = prs
  OBVIOUS
<1> HIDE DEF push, prs
<1>5. CASE pr \in prs
  <2>1. BegunAt(nw, pr) = BegunAt(ws, pr) \cup {push} /\ push \notin BegunAt(ws, pr)
    BY <1>2, <1>4, <1>5 DEF BegunAt
  <2>2. Cardinality(BegunAt(nw, pr)) = Cardinality(BegunAt(ws, pr)) + 1
    BY <2>1, <1>0, CountsBounded, FS_AddElement
  <2> DEFINE a == Cardinality(OpenAt(ds, pr))
             b == Cardinality(BegunAt(ws, pr))
             c == Cardinality(BegunAt(nw, pr))
  <2>3. a \in Nat /\ b \in Nat /\ c = b + 1 /\ a + c < ByteSize /\ ac[pr] = a + b
    BY <1>0, <2>2, CountsBounded DEF CountsOK
  <2> HIDE DEF a, b, c
  <2>4. a + b \in Nat /\ (a + b) + 1 < ByteSize
    BY <2>3
  <2>5. ((a + b) + 1) % ByteSize = (a + b) + 1
    BY <2>4, ByteSteps
  <2>6. nc[pr] = a + c
    BY <1>0, <1>3, <1>5, <2>3, <2>5
  <2> QED
    BY <2>6 DEF a, c
<1>6. CASE pr \notin prs
  <2>1. BegunAt(nw, pr) = BegunAt(ws, pr)
    BY <1>2, <1>4, <1>6 DEF BegunAt
  <2> QED
    BY <1>0, <1>3, <1>6, <2>1 DEF CountsOK
<1> QED
  BY <1>5, <1>6

LEMMA CountsAre ==
    /\ OnlyRushMiscounts <=> CountsOK(doors, walls, areaconnect, rushed)
    /\ OnlyRushMiscounts' <=> CountsOK(doors', walls', areaconnect', rushed')
BY DEF OnlyRushMiscounts, Ways, CountsOK, Sound, OpenAt, BegunAt

LEMMA CountsNow ==
    ASSUME LevelInv, CountInv
    PROVE  /\ CountsOK(doors, walls, areaconnect, rushed) /\ PositionsOK(doors, rushed) /\ ToldInv
           /\ PositionsOK(doors, Door) /\ rushed \subseteq Door
           /\ doors \in DoorTypes /\ Together(doors) /\ areaconnect \in CountsType /\ walls \in WallTypes
<1>1. CountsOK(doors, walls, areaconnect, rushed)
  BY CountsAre DEF CountInv
<1>2. PositionsOK(doors, rushed) /\ PositionsOK(doors, Door)
  BY DEF CountInv, PositionsOK
<1> QED
  BY <1>1, <1>2 DEF LevelInv, TypeInv, LevelTypeOK, DoorsInv, CountInv, DoorTypes, CountsType, WallTypes

-----------------------------------------------------------------------------
(* MoveDoors                                                               *)

\* The one door that moves, and the doorway it may close.
LEMMA MoveDoorCounts ==
    ASSUME WellBuilt, Countable, LevelInv, CountInv, MoveDoor
    PROVE  CountInv'
<1> DEFINE d == turn
           nd == doors'
<1>1. /\ d \in Door /\ phase = "doors" /\ Advance /\ UNCHANGED <<walls, rushed>>
      /\ doors \in DoorTypes /\ doors[d] \in DoorState /\ Together(doors) /\ DoorwaysAgree
      /\ areaconnect \in CountsType /\ PositionsOK(doors, rushed) /\ PositionsOK(doors, Door) /\ ToldInv
      /\ CountsOK(doors, walls, areaconnect, rushed) /\ CountsFit
  BY CountsNow DEF MoveDoor, WellBuilt, Countable, DoorTypes
<1>2. nd \in DoorTypes /\ Together(nd)
  BY MoveDoorMoves DEF Moved
<1>3. Steps \in Nat \ {0} /\ doors[d].position \in 0 .. Steps
      /\ doors[d].action \in {"open", "closed", "opening", "closing"}
  BY <1>1, DoorAssumption DEF DoorState
\* What becomes of it, and of the others.
<1>4. /\ PositionsOK(nd, rushed) /\ CountsOK(nd, walls, areaconnect', rushed) /\ ~ JustTold(nd, d)
      /\ \A g \in Door : JustTold(nd, g) => JustTold(doors, g)
      /\ \A g \in Door : g # d /\ nd[g].action = "open" => doors[g].action = "open"
  <2>1. CASE doors[d].action = "open"
    <3> DEFINE tc == IF doors[d].ticcount < OPENTICS THEN doors[d].ticcount + 1 ELSE OPENTICS
               counted == [doors EXCEPT ![d].ticcount = tc]
    <3>0. nd = DoorOpen(doors, d) /\ UNCHANGED areaconnect
      BY <2>1 DEF MoveDoor
    <3>1. DoorOpen(doors, d) = IF tc = OPENTICS /\ d \notin Timed THEN LinkedCloseDoor(counted, d)
                                                                ELSE counted
      BY DEF DoorOpen
    <3>2. tc \in 0 .. OPENTICS
      BY <1>1, DoorAssumption DEF DoorState
    <3> HIDE DEF tc
    <3>3. /\ counted \in DoorTypes
          /\ \A g \in Door : counted[g].action = doors[g].action /\ counted[g].position = doors[g].position
      BY <1>1, <3>2 DEF DoorTypes, DoorState
    <3> HIDE DEF counted
    <3>4. Counted(doors, counted, {}, {}) /\ Counted(counted, counted, {}, {})
      BY <3>3, AlikeCounted
    <3>5. \A g \in Group[d] : ~ JustTold(counted, g)
      <4> SUFFICES ASSUME NEW g \in Group[d], JustTold(doors, g)
                   PROVE  FALSE
        BY <1>1, <3>3, DoorAssumption DEF JustTold
      <4>1. g \in Door /\ d \in Group[g]
        BY <1>1, DoorAssumption DEF DoorwaysAgree
      <4>2. phase = "doors" /\ turn > d
        BY <1>1, <2>1, <4>1 DEF ToldInv
      <4> QED
        BY <1>1, <4>2 DEF Door
    <3>6. Counted(counted, LinkedCloseDoor(counted, d), {}, {})
      BY <1>1, <3>3, <3>5, LinkedCloseCounted
    <3>7. Counted(counted, nd, {}, {})
      BY <3>0, <3>1, <3>4, <3>6
    <3>8. Counted(doors, nd, {}, {})
      <4>1. Counted(doors, nd, {} \cup {}, {})
        BY <1>1, <3>3, <3>4, <3>7, CountedTrans
      <4> QED
        BY <4>1
    <3>9. PositionsOK(nd, rushed) /\ CountsOK(nd, walls, areaconnect', rushed)
      BY <1>1, <3>0, <3>8, CountedPositions, SamePositionsCount DEF Counted
    <3> QED
      BY <1>1, <2>1, <3>8, <3>9 DEF Counted, JustTold
  <2>2. CASE doors[d].action = "opening"
    <3>1. /\ nd = DoorOpening(doors, d)
          /\ IF doors[d].position = 0 THEN areaconnect' = Connect(areaconnect, Side[d])
                                      ELSE UNCHANGED areaconnect
      BY <2>2 DEF MoveDoor
    <3>2. /\ nd[d].position > 0 /\ nd[d].action \in {"opening", "open"}
          /\ \A g \in Door : g # d => nd[g] = doors[g]
      BY <1>1, <1>3, <2>2, <3>1 DEF DoorOpening, DoorTypes, DoorState
    <3>3. PositionsOK(nd, rushed)
      BY <1>1, <3>2 DEF PositionsOK
    <3>4. CountsOK(nd, walls, areaconnect', rushed)
      <4>1. CASE doors[d].position = 0
        BY <1>1, <3>1, <3>2, <4>1, DoorConnects
      <4>2. CASE doors[d].position # 0
        <5>1. \A g \in Door : nd[g].position > 0 <=> doors[g].position > 0
          BY <1>3, <3>2, <4>2
        <5> QED
          BY <1>1, <3>1, <4>2, <5>1, SamePositionsCount
      <4> QED
        BY <4>1, <4>2
    <3> QED
      BY <3>2, <3>3, <3>4 DEF JustTold
  <2>3. CASE doors[d].action = "closing"
    <3>1. /\ nd = DoorClosing(doors, d)
          /\ IF doors[d].position <= 1 THEN areaconnect' = Disconnect(areaconnect, Side[d])
                                       ELSE UNCHANGED areaconnect
      BY <2>3 DEF MoveDoor
    <3>2. doors[d].position > 0 \/ d \in rushed
      BY <1>1, <2>3 DEF PositionsOK
    <3>3. /\ doors[d].position > 0 => nd[d].position = doors[d].position - 1
          /\ doors[d].position = 0 => nd[d].position = 0
          /\ nd[d].action = IF nd[d].position > 0 THEN "closing" ELSE "closed"
          /\ \A g \in Door : g # d => nd[g] = doors[g]
      BY <1>1, <1>3, <2>3, <3>1 DEF DoorClosing, DoorTypes, DoorState
    <3>4. PositionsOK(nd, rushed)
      BY <1>1, <1>3, <3>3 DEF PositionsOK
    <3>5. CountsOK(nd, walls, areaconnect', rushed)
      <4>1. CASE doors[d].position <= 1
        <5>1. ~ nd[d].position > 0
          BY <1>3, <3>3, <4>1
        <5> QED
          BY <1>1, <3>1, <3>2, <3>3, <4>1, <5>1, DoorDisconnects
      <4>2. CASE doors[d].position > 1
        <5>1. \A g \in Door : nd[g].position > 0 <=> doors[g].position > 0
          BY <1>3, <3>3, <4>2
        <5>2. UNCHANGED areaconnect
          BY <1>3, <3>1, <4>2
        <5> QED
          BY <1>1, <5>1, <5>2, SamePositionsCount
      <4> QED
        BY <1>3, <4>1, <4>2
    <3> QED
      BY <3>3, <3>4, <3>5 DEF JustTold
  <2>4. CASE doors[d].action = "closed"
    BY <1>1, <2>4 DEF MoveDoor, JustTold
  <2> QED
    BY <1>3, <2>1, <2>2, <2>3, <2>4
<1>5. ASSUME NEW g \in Door, JustTold(nd, g)
      PROVE  /\ phase' = "doors" /\ turn' = turn + 1 /\ turn' <= g
             /\ \A h \in Group[g] : nd[h].action = "open" => turn' > h
  <2>1. JustTold(doors, g) /\ g # d
    BY <1>4, <1>5
  <2>2. turn < g
    BY <1>1, <2>1 DEF ToldInv, Door
  <2>3. phase' = "doors" /\ turn' = turn + 1
    BY <1>1, <2>2, LevelConstants DEF Advance, Count, Door
  <2>4. ASSUME NEW h \in Group[g], nd[h].action = "open"
        PROVE  turn' > h
    <3>1. h \in Door
      BY DoorAssumption
    <3>2. CASE h = d
      BY <1>1, <2>3, <3>2 DEF Door
    <3>3. CASE h # d
      <4>1. doors[h].action = "open"
        BY <1>4, <2>4, <3>1, <3>3
      <4>2. turn > h
        BY <1>1, <1>5, <2>1, <2>4, <4>1 DEF ToldInv
      <4> QED
        BY <1>1, <2>3, <3>1, <4>2 DEF Door
    <3> QED
      BY <3>2, <3>3
  <2> QED
    BY <1>1, <2>2, <2>3, <2>4 DEF Door
<1>6. ToldInv'
  BY <1>5 DEF ToldInv
<1>7. OnlyRushMiscounts'
  BY <1>1, <1>4, CountsAre
<1> QED
  BY <1>1, <1>4, <1>6, <1>7 DEF CountInv

-----------------------------------------------------------------------------
(* The other loops                                                         *)

\* A turn of a loop that moves no door.
LEMMA LaterCounts ==
    ASSUME WellBuilt, LevelInv, CountInv, phase # "doors", Advance,
           NEW T, NEW R, Counted(doors, doors', T, R), rushed' = rushed \cup R,
           CountsOK(doors', walls', areaconnect', rushed'),
           phase = "elevators" => T \subseteq Lift,
           phase = "walls" => T = {},
           phase = "plates" =>
               \A g \in T : \E k \in DOMAIN PlateAction[turn] : Tells(turn, k, "open", g)
    PROVE  CountInv'
<1>1. /\ DoorwaysAgree /\ phase \in Phases \ {"doors"} /\ turn \in 1 .. Count(phase)
      /\ doors \in DoorTypes /\ Together(doors) /\ PositionsOK(doors, rushed) /\ ToldInv
  BY DEF WellBuilt, LevelInv, TypeInv, LevelTypeOK, DoorsInv, CountInv, DoorTypes
<1>2. ToldInv' /\ PositionsOK(doors', rushed')
  BY <1>1, ToldKept
<1>3. OnlyRushMiscounts'
  BY CountsAre
<1> QED
  BY <1>2, <1>3 DEF CountInv

LEMMA EffectFields ==
    ASSUME NEW ds, NEW m \in Effects(ds)
    PROVE  /\ m.doors \in DoorTypes /\ Together(m.doors) /\ m.walls \in WallTypes
           /\ m.areaconnect \in CountsType
           /\ m = [doors |-> m.doors, walls |-> m.walls, areaconnect |-> m.areaconnect]
BY DEF Effects, Called

\* Calls of which the doors and the counts stay right.
CountedEffect(m) == CountsOK(m.doors, m.walls, m.areaconnect, rushed)

LEMMA ActivateAt ==
    ASSUME NEW ds, NEW m \in Effects(ds), NEW w \in Wall, m.walls[w].action = "npushed"
    PROVE  LET n == ActivatePushWall(m, w)
           IN /\ n.doors = m.doors
              /\ n.areaconnect = ConnectPushWall(m.areaconnect, WallPath[w][m.walls[w].leg].connects)
              /\ n.walls \in WallTypes /\ n.walls[w].action = "pushing"
              /\ n.walls[w].leg = m.walls[w].leg
              /\ \A v \in Wall : v # w => n.walls[v] = m.walls[v]
<1> DEFINE s == [m.walls[w] EXCEPT !.action = "pushing", !.state = PushTics]
           nw == [m.walls EXCEPT ![w] = s]
           nc == ConnectPushWall(m.areaconnect, WallPath[w][m.walls[w].leg].connects)
<1>1. m.walls \in WallTypes
  BY EffectFields
<1>2. /\ m.walls[w] \in [action : {"npushed", "pushing", "pushed"},
                         leg : 1 .. Len(WallPath[w]), state : 0 .. PushTics]
      /\ PushTics \in Nat \ {0} /\ w \in DOMAIN m.walls
      /\ \A v \in WallState(w) : [m.walls EXCEPT ![w] = v] \in WallTypes
  BY <1>1, WallFields DEF WallTypes
<1>3. s \in WallState(w) /\ s.action = "pushing" /\ s.leg = m.walls[w].leg
  <2>1. m.walls[w] \in WallState(w) /\ m.walls[w].leg \in 1 .. Len(WallPath[w]) /\ PushTics \in 0 .. PushTics
    BY <1>2 DEF WallState
  <2>2. s \in WallState(w)
    BY <2>1, WallUpdate
  <2> QED
    BY <1>2, <2>2
<1>4. /\ nw \in WallTypes /\ nw[w].action = "pushing" /\ nw[w].leg = m.walls[w].leg
      /\ \A v \in Wall : v # w => nw[v] = m.walls[v]
  BY <1>1, <1>2, <1>3
<1>5. ActivatePushWall(m, w) = Effect(m.doors, nw, nc)
  BY <1>2 DEF ActivatePushWall
<1> HIDE DEF nw, nc
<1>6. /\ Effect(m.doors, nw, nc).doors = m.doors /\ Effect(m.doors, nw, nc).walls = nw
      /\ Effect(m.doors, nw, nc).areaconnect = nc
  BY DEF Effect
<1> QED
  BY <1>4, <1>5, <1>6 DEF nc

LEMMA ActivateCounts ==
    ASSUME CountsFit, NEW ds, NEW m \in Effects(ds), CountedEffect(m), NEW w \in Wall
    PROVE  ActivatePushWall(m, w).doors = m.doors /\ CountedEffect(ActivatePushWall(m, w))
<1>1. CASE m.walls[w].action # "npushed"
  BY <1>1 DEF ActivatePushWall
<1>2. CASE m.walls[w].action = "npushed"
  <2> DEFINE n == ActivatePushWall(m, w)
  <2>1. /\ m.walls \in WallTypes /\ m.areaconnect \in CountsType
        /\ CountsOK(m.doors, m.walls, m.areaconnect, rushed)
    BY EffectFields DEF CountedEffect
  <2>2. /\ n.doors = m.doors
        /\ n.areaconnect = ConnectPushWall(m.areaconnect, WallPath[w][m.walls[w].leg].connects)
        /\ n.walls \in WallTypes /\ n.walls[w].action = "pushing" /\ n.walls[w].leg = m.walls[w].leg
        /\ \A v \in Wall : v # w => n.walls[v] = m.walls[v]
    BY <1>2, ActivateAt
  <2> HIDE DEF n
  <2>3. CountsOK(m.doors, n.walls, n.areaconnect, rushed)
    BY <1>2, <2>1, <2>2, PushConnects
  <2> QED
    BY <2>2, <2>3 DEF CountedEffect, n
<1> QED
  BY <1>1, <1>2

\* n is m with a wall in its next state.
Turned(m, w, n, action, leg) ==
    /\ n.doors = m.doors /\ n.areaconnect = m.areaconnect
    /\ n.walls[w].action = action /\ n.walls[w].leg = leg
    /\ \A v \in Wall : v # w => n.walls[v] = m.walls[v]

\* A wall that is pushed moves on, stops at the end of its path, or has come to the
\* end of a leg.
LEMMA WallPushingAt ==
    ASSUME NEW ds, NEW m \in Effects(ds), NEW w \in Wall, m.walls[w].action = "pushing"
    PROVE  LET n == WallPushing(m, w)
               pw == m.walls[w]
           IN \/ Turned(m, w, n, "pushing", pw.leg)
              \/ pw.leg = Len(WallPath[w]) /\ Turned(m, w, n, "pushed", pw.leg)
              \/ \E r \in Effects(ds) : /\ Turned(m, w, r, "npushed", pw.leg + 1)
                                        /\ n = IF w \in WallLock THEN ActivatePushWall(r, w) ELSE r
<1> DEFINE pw == m.walls[w]
           Put(s) == [m EXCEPT !.walls = [m.walls EXCEPT ![w] = s]]
           goes == [pw EXCEPT !.state = @ - 1]
           stops == [pw EXCEPT !.state = 0, !.action = "pushed"]
           rests == [pw EXCEPT !.state = 0, !.action = "npushed", !.leg = @ + 1]
<1>1. /\ m = [doors |-> m.doors, walls |-> m.walls, areaconnect |-> m.areaconnect]
      /\ m.walls \in WallTypes /\ m \in [doors : DoorTypes, walls : WallTypes, areaconnect : CountsType]
      /\ Called(ds, m.doors) /\ \A d \in Lift : m.doors[d] = ds[d]
  BY EffectFields DEF Effects
<1>2. /\ pw \in [action : {"npushed", "pushing", "pushed"},
                 leg : 1 .. Len(WallPath[w]), state : 0 .. PushTics]
      /\ PushTics \in Nat \ {0} /\ Len(WallPath[w]) \in Nat \ {0}
      /\ \A v \in WallState(w) : [m.walls EXCEPT ![w] = v] \in WallTypes
      /\ w \in DOMAIN m.walls
  BY <1>1, WallFields DEF WallTypes
<1>3. ASSUME NEW s
      PROVE  Turned(m, w, Put(s), s.action, s.leg)
  <2> DEFINE nw == [m.walls EXCEPT ![w] = s]
  <2>1. nw[w] = s /\ \A v \in Wall : v # w => nw[v] = m.walls[v]
    BY <1>1, <1>2
  <2>2. Put(s).doors = m.doors /\ Put(s).walls = nw /\ Put(s).areaconnect = m.areaconnect
    BY <1>1
  <2> HIDE DEF nw, Put
  <2> QED
    BY <2>1, <2>2 DEF Turned
<1>4. /\ [m EXCEPT !.walls[w].state = @ - 1] = Put(goes)
      /\ [m EXCEPT !.walls[w].state = 0, !.walls[w].action = "pushed"] = Put(stops)
      /\ [m EXCEPT !.walls[w].state = 0, !.walls[w].action = "npushed", !.walls[w].leg = @ + 1] = Put(rests)
  <2>1. m \in [doors : DoorTypes, walls : WallTypes, areaconnect : CountsType] /\ w \in DOMAIN m.walls
    BY <1>1, <1>2
  <2>2. pw \in [action : {"npushed", "pushing", "pushed"},
                leg : 1 .. Len(WallPath[w]), state : 0 .. PushTics]
    BY <1>2
  <2> QED
    BY <2>1, <2>2
<1>5. WallPushing(m, w) =
          IF pw.state > 1 THEN Put(goes)
          ELSE IF pw.leg = Len(WallPath[w]) THEN Put(stops)
          ELSE IF w \in WallLock THEN ActivatePushWall(Put(rests), w) ELSE Put(rests)
  BY <1>4 DEF WallPushing
<1>6. /\ Turned(m, w, Put(goes), "pushing", pw.leg)
      /\ Turned(m, w, Put(stops), "pushed", pw.leg)
      /\ Turned(m, w, Put(rests), "npushed", pw.leg + 1)
  <2>1. /\ goes.leg = pw.leg /\ goes.action = "pushing"
        /\ stops.leg = pw.leg /\ stops.action = "pushed"
        /\ rests.leg = pw.leg + 1 /\ rests.action = "npushed"
    BY <1>2
  <2> HIDE DEF Put, goes, stops, rests
  <2>2. Turned(m, w, Put(goes), goes.action, goes.leg)
    BY <1>3
  <2>3. Turned(m, w, Put(stops), stops.action, stops.leg)
    BY <1>3
  <2>4. Turned(m, w, Put(rests), rests.action, rests.leg)
    BY <1>3
  <2> QED
    BY <2>1, <2>2, <2>3, <2>4
<1>7. pw.leg # Len(WallPath[w]) => Put(rests) \in Effects(ds)
  <2>1. pw.leg # Len(WallPath[w]) => rests \in WallState(w)
    <3>1. /\ pw \in WallState(w) /\ 0 \in 0 .. PushTics
          /\ pw.leg # Len(WallPath[w]) => pw.leg + 1 \in 1 .. Len(WallPath[w])
      BY <1>2 DEF WallState
    <3> HIDE DEF pw
    <3> QED
      BY <3>1, WallUpdate
  <2> HIDE DEF rests
  <2> QED
    BY <1>1, <1>2, <2>1 DEF Effects
<1> HIDE DEF goes, stops, rests, Put
<1> QED
  BY <1>5, <1>6, <1>7

LEMMA WallPushingCounts ==
    ASSUME CountsFit, NEW ds, NEW m \in Effects(ds), CountedEffect(m), NEW w \in Wall,
           m.walls[w].action = "pushing"
    PROVE  WallPushing(m, w).doors = m.doors /\ CountedEffect(WallPushing(m, w))
<1> DEFINE pw == m.walls[w]
           Good(n) == n.doors = m.doors /\ CountedEffect(n)
<1>1. pw.leg \in Nat
  <2>1. m.walls \in WallTypes
    BY EffectFields
  <2> QED
    BY <2>1, WallFields
<1>2. ASSUME NEW n, NEW action, NEW leg, Turned(m, w, n, action, leg),
             leg + (IF action = "npushed" THEN 0 ELSE 1) = pw.leg + 1
      PROVE  Good(n)
  <2>1. PushesBegun(n.walls) = PushesBegun(m.walls)
    <3> SUFFICES ASSUME NEW v \in Wall
                 PROVE  n.walls[v].leg + (IF n.walls[v].action = "npushed" THEN 0 ELSE 1)
                            = m.walls[v].leg + (IF m.walls[v].action = "npushed" THEN 0 ELSE 1)
      BY SamePushes
    <3>1. CASE v = w
      <4>1. n.walls[v].leg + (IF n.walls[v].action = "npushed" THEN 0 ELSE 1) = pw.leg + 1
        BY <1>2, <3>1 DEF Turned
      <4>2. pw.action # "npushed"
        OBVIOUS
      <4> QED
        BY <3>1, <4>1, <4>2
    <3>2. CASE v # w
      BY <1>2, <3>2 DEF Turned
    <3> QED
      BY <3>1, <3>2
  <2>2. CountsOK(m.doors, n.walls, m.areaconnect, rushed)
    BY <2>1, SamePushesCount DEF CountedEffect
  <2> QED
    BY <1>2, <2>2 DEF CountedEffect, Turned
<1> HIDE DEF Good
<1>3. CASE Turned(m, w, WallPushing(m, w), "pushing", pw.leg)
  <2>1. Good(WallPushing(m, w))
    BY <1>1, <1>2, <1>3
  <2> QED
    BY <2>1 DEF Good
<1>4. CASE Turned(m, w, WallPushing(m, w), "pushed", pw.leg)
  <2>1. Good(WallPushing(m, w))
    BY <1>1, <1>2, <1>4
  <2> QED
    BY <2>1 DEF Good
<1>5. ASSUME NEW r \in Effects(ds), Turned(m, w, r, "npushed", pw.leg + 1),
             WallPushing(m, w) = IF w \in WallLock THEN ActivatePushWall(r, w) ELSE r
      PROVE  WallPushing(m, w).doors = m.doors /\ CountedEffect(WallPushing(m, w))
  <2>1. pw.leg + 1 + 0 = pw.leg + 1
    BY <1>1
  <2> HIDE DEF pw
  <2>2. Good(r)
    BY <1>2, <1>5, <2>1
  <2>3. r.doors = m.doors /\ CountedEffect(r)
    BY <2>2 DEF Good
  <2>4. ActivatePushWall(r, w).doors = r.doors /\ CountedEffect(ActivatePushWall(r, w))
    BY <1>5, <2>3, ActivateCounts
  <2> QED
    BY <1>5, <2>3, <2>4
<1> QED
  BY <1>3, <1>4, <1>5, WallPushingAt

LEMMA MovePWallCounts ==
    ASSUME WellBuilt, Countable, LevelInv, CountInv, MovePWall
    PROVE  CountInv'
<1> DEFINE start == Effect(doors, walls, areaconnect)
           m == IF walls[turn].action = "pushing" THEN WallPushing(start, turn) ELSE start
<1>1. start \in Effects(doors) /\ CountedEffect(start) /\ start.doors = doors /\ start.walls = walls
  <2>1. start \in Effects(doors)
    BY NoEffect DEF LevelInv
  <2> QED
    BY <2>1, CountsNow DEF CountedEffect, Effect
<1>2. /\ turn \in Wall /\ phase = "walls" /\ Advance /\ CountsFit /\ rushed' = rushed \cup {}
      /\ TakeEffect(m)
  BY DEF MovePWall, Countable
<1> HIDE DEF start
<1>3. m.doors = doors /\ CountedEffect(m)
  BY <1>1, <1>2, WallPushingCounts
<1> HIDE DEF m
<1>4. doors' = doors /\ CountsOK(doors', walls', areaconnect', rushed')
  BY <1>2, <1>3 DEF TakeEffect, CountedEffect
<1>5. Counted(doors, doors', {}, {})
  BY <1>4, AlikeCounted
<1> QED
  BY <1>2, <1>4, <1>5, LaterCounts

\* The doors that the first k entries of plate i may tell to open.
ToldBy(i, k) ==
    {g \in Door : \E l \in DOMAIN PlateAction[i] : l <= k /\ Tells(i, l, "open", g)}

\* What the first k entries of plate i have made of the doors.
PassOK(i, k, n) ==
    n \in Effects(doors) /\ CountedEffect(n) /\ Counted(doors, n.doors, ToldBy(i, k), {})

\* An entry that runs: a door it closes was not told to open by another one.
LEMMA EntryCounts ==
    ASSUME WellBuilt, Countable, LevelInv, CountInv, phase = "plates", turn \in Plate,
           NEW list, ListOK(turn, list), NEW E, list \in Seq(E),
           NEW k \in 1 .. Len(list), Waiting(list[k]), NEW n, PassOK(turn, k - 1, n)
    PROVE  PassOK(turn, k, Run(n, list[k].action, PlateAction[turn][k].whichobj))
<1> DEFINE i == turn
           obj == PlateAction[i][k].whichobj
           act == list[k].action
           r == Run(n, act, obj)
           T == ToldBy(i, k - 1)
           U == ToldBy(i, k)
<1>1. /\ k \in DOMAIN PlateAction[i] /\ k \in Nat
      /\ act \in {PlateAction[i][k].action, PlateAction[i][k].swapaction}
      /\ act \in IF PlateAction[i][k].action = "push" THEN {"push"} ELSE {"open", "close"}
  BY EntryRuns
<1>2. /\ DoorwaysAgree /\ PlatesSpareElevators /\ PlatesAgree /\ CountsFit
      /\ doors \in DoorTypes /\ PositionsOK(doors, Door) /\ ToldInv
  BY CountsNow DEF WellBuilt, Countable
<1>3. /\ n \in Effects(doors) /\ CountedEffect(n) /\ Counted(doors, n.doors, T, {})
      /\ n.doors \in DoorTypes /\ PositionsOK(n.doors, Door)
      /\ n = [doors |-> n.doors, walls |-> n.walls, areaconnect |-> n.areaconnect]
  <2>1. n \in Effects(doors) /\ CountedEffect(n) /\ Counted(doors, n.doors, T, {})
    BY DEF PassOK
  <2>2. n.doors \in DoorTypes
        /\ n = [doors |-> n.doors, walls |-> n.walls, areaconnect |-> n.areaconnect]
    BY <2>1, EffectFields
  <2> HIDE DEF T
  <2> QED
    BY <1>2, <2>1, <2>2, CountedPositions
<1>4. r \in Effects(doors)
  BY <1>1, <1>2, <1>3, RunEffect
<1>5. T \subseteq U
  <2> SUFFICES ASSUME NEW g \in T
               PROVE  g \in U
    OBVIOUS
  <2>1. PICK l \in DOMAIN PlateAction[i] : l <= k - 1 /\ Tells(i, l, "open", g)
    BY DEF ToldBy
  <2>2. l \in Nat
    BY TriggerAssumption
  <2>3. l <= k
    BY <1>1, <2>1, <2>2
  <2> QED
    BY <2>1, <2>3 DEF ToldBy
<1>6. CASE act = "push"
  <2>1. obj \in Wall
    <3>1. PlateAction[i][k].action = "push"
      BY <1>1, <1>6
    <3> QED
      BY <1>1, <3>1, TriggerAssumption
  <2> HIDE DEF obj
  <2>2. r = ActivatePushWall(n, obj)
    BY <1>6 DEF Run
  <2>3. r.doors = n.doors /\ CountedEffect(r)
    BY <1>2, <1>3, <2>1, <2>2, ActivateCounts
  <2> HIDE DEF r, T, U
  <2>4. Counted(doors, r.doors, U, {})
    BY <1>3, <1>5, <2>3, CountedMore
  <2> QED
    BY <1>4, <2>3, <2>4 DEF PassOK, r, U, obj
<1>7. CASE act \in {"open", "close"}
  <2>1. /\ obj \in Door /\ obj \notin Lift /\ Group[obj] \in SUBSET Door
        /\ \A g \in Group[obj] : Tells(i, k, act, g)
    <3>1. PlateAction[i][k].action # "push"
      BY <1>1, <1>7
    <3>2. obj \in Door
      BY <1>1, <3>1, TriggerAssumption
    <3> QED
      BY <1>1, <1>2, <3>1, <3>2, DoorAssumption DEF PlatesSpareElevators, Lift, Tells
  <2>2. act = "open" => Group[obj] \subseteq U
    BY <1>1, <2>1 DEF ToldBy
  <2> DEFINE nd == IF act = "open" THEN LinkedOpenDoor(n.doors, obj) ELSE LinkedCloseDoor(n.doors, obj)
  <2>3. r = [n EXCEPT !.doors = nd]
    BY <1>3, <1>7 DEF Run
  <2>4. /\ r.doors = nd /\ r.walls = n.walls /\ r.areaconnect = n.areaconnect
    <3> HIDE DEF nd, r
    <3> QED
      BY <1>3, <2>3
  <2>5. Counted(n.doors, nd, U, {})
    <3>1. CASE act = "open"
      <4>1. Counted(n.doors, nd, Group[obj], {})
        BY <1>3, <2>1, <3>1, LinkedOpenCounted
      <4> HIDE DEF nd, U
      <4> QED
        BY <2>2, <3>1, <4>1, CountedMore
    <3>2. CASE act = "close"
      <4>1. ASSUME NEW g \in Group[obj], JustTold(n.doors, g)
            PROVE  FALSE
        <5>1. g \in Door /\ g \notin Lift /\ Tells(i, k, "close", g)
          BY <2>1, <3>2, <4>1, LiftDoors
        <5>2. JustTold(doors, g) \/ g \in T
          BY <1>3, <4>1, <5>1 DEF Counted
        <5>3. ASSUME NEW j \in Plate, NEW l \in DOMAIN PlateAction[j], Tells(j, l, "open", g)
              PROVE  j = i /\ l = k
          BY <1>1, <1>2, <5>1, <5>3 DEF PlatesAgree
        <5>4. CASE JustTold(doors, g)
          <6>1. ElevatorDoors(g) = {}
            BY <5>1 DEF Lift
          <6>2. PICK j \in Plate : j < turn /\ \E l \in DOMAIN PlateAction[j] : Tells(j, l, "open", g)
            BY <1>2, <5>1, <5>4, <6>1 DEF ToldInv
          <6>3. j # i
            BY <6>2 DEF Plate
          <6> QED
            BY <5>3, <6>2, <6>3
        <5>5. CASE g \in T
          <6>1. PICK l \in DOMAIN PlateAction[i] : l <= k - 1 /\ Tells(i, l, "open", g)
            BY <5>5 DEF ToldBy
          <6>2. l \in Nat /\ l # k
            <7>1. l \in Nat
              BY TriggerAssumption
            <7> QED
              BY <1>1, <6>1, <7>1
          <6> QED
            BY <5>3, <6>1, <6>2
        <5> QED
          BY <5>2, <5>4, <5>5
      <4>2. Counted(n.doors, LinkedCloseDoor(n.doors, obj), {}, {})
        BY <1>3, <2>1, <4>1, LinkedCloseCounted
      <4>3. Counted(n.doors, nd, {}, {})
        BY <3>2, <4>2
      <4> HIDE DEF nd, U
      <4> QED
        BY <4>3, CountedMore
    <3> QED
      BY <1>7, <3>1, <3>2
  <2> HIDE DEF nd
  <2>6. Counted(doors, nd, U, {})
    <3> HIDE DEF T, U
    <3>1. Counted(doors, nd, T \cup U, {})
      BY <1>2, <1>3, <2>5, CountedTrans
    <3>2. T \cup U = U
      BY <1>5
    <3> QED
      BY <3>1, <3>2
  <2>7. CountsOK(nd, n.walls, n.areaconnect, rushed)
    <3>1. \A d \in Door : nd[d].position > 0 <=> n.doors[d].position > 0
      BY <2>5 DEF Counted
    <3> QED
      BY <1>3, <3>1, SamePositionsCount DEF CountedEffect
  <2> HIDE DEF r, U
  <2>8. PassOK(i, k, r)
    BY <1>4, <2>4, <2>6, <2>7 DEF PassOK, CountedEffect, U
  <2> QED
    BY <2>8 DEF r
<1> QED
  BY <1>1, <1>6, <1>7

LEMMA RunListCounts ==
    ASSUME WellBuilt, Countable, LevelInv, CountInv, phase = "plates", turn \in Plate,
           NEW list, ListOK(turn, list), NEW E, list \in Seq(E)
    PROVE  PassOK(turn, Len(list), RunList(Effect(doors, walls, areaconnect), turn, list))
<1> DEFINE n == Len(list)
           M == Effects(doors)
           start == Effect(doors, walls, areaconnect)
<1>1. n \in Nat /\ start \in M
  BY NoEffect DEF LevelInv
<1>2. \A k \in 1 .. n : \A before \in M : ListTurn(turn, list, k, before) \in M
  BY ListTurnEffect DEF WellBuilt
<1>3. PassOK(turn, 0, start)
  <2>1. CountedEffect(start) /\ start.doors = doors
    BY CountsNow DEF CountedEffect, Effect
  <2>2. Counted(doors, doors, {}, {})
    BY AlikeCounted
  <2>3. Counted(doors, doors, ToldBy(turn, 0), {})
    BY <2>2, CountedMore
  <2> HIDE DEF start
  <2> QED
    BY <1>1, <2>1, <2>3 DEF PassOK
<1> HIDE DEF M, start
<1>4. PICK pass : IsPass(pass, start, turn, list)
  BY <1>1, <1>2, ListPass
\* The turns are numbered, for what PassOK says of each.
<1> DEFINE Numbered == {x \in (0 .. n) \X M : PassOK(turn, x[1], x[2])}
           run == [k \in 0 .. n |-> <<k, pass[k]>>]
<1>5. ASSUME NEW k \in 1 .. n, run[k - 1] \in Numbered
      PROVE  run[k] \in Numbered
  <2>1. /\ k - 1 \in 0 .. n /\ k \in 0 .. n /\ run[k - 1] = <<k - 1, pass[k - 1]>>
        /\ run[k] = <<k, pass[k]>>
    BY <1>1
  <2>2. PassOK(turn, k - 1, pass[k - 1]) /\ pass[k - 1] \in M
    BY <1>5, <2>1
  <2>3. pass[k] = ListTurn(turn, list, k, pass[k - 1])
    BY <1>4 DEF IsPass
  <2>4. PassOK(turn, k, pass[k])
    <3>1. CASE Waiting(list[k]) /\ list[k].ticcount = 0
      <4>1. pass[k] = Run(pass[k - 1], list[k].action, PlateAction[turn][k].whichobj)
        BY <2>3, <3>1 DEF ListTurn
      <4> QED
        BY <2>2, <3>1, <4>1, EntryCounts
    <3>2. CASE ~ (Waiting(list[k]) /\ list[k].ticcount = 0)
      <4>1. pass[k] = pass[k - 1]
        BY <2>3, <3>2 DEF ListTurn
      <4>2. ToldBy(turn, k - 1) \subseteq ToldBy(turn, k)
        <5>1. \A l \in DOMAIN PlateAction[turn] : l <= k - 1 => l <= k
          <6>1. \A l \in DOMAIN PlateAction[turn] : l \in Nat
            BY TriggerAssumption
          <6> QED
            BY <6>1
        <5> QED
          BY <5>1 DEF ToldBy
      <4> QED
        BY <2>2, <4>1, <4>2, CountedMore DEF PassOK
    <3> QED
      BY <3>1, <3>2
  <2>5. pass[k] \in M
    BY <1>2, <2>2, <2>3
  <2> QED
    BY <2>1, <2>4, <2>5
<1>6. run[0] \in Numbered /\ DOMAIN run = 0 .. n
  BY <1>1, <1>3, <1>4 DEF IsPass
<1>7. run[n] \in Numbered
  <2> HIDE DEF run, Numbered, n
  <2> QED
    BY <1>1, <1>5, <1>6, LoopStays
<1>8. run[n] = <<n, pass[n]>>
  BY <1>1
<1>9. PassOK(turn, n, pass[n])
  BY <1>7, <1>8
<1> QED
  BY <1>4, <1>9 DEF start, IsPass

LEMMA TriggerStuffCounts ==
    ASSUME WellBuilt, Countable, LevelInv, CountInv, TriggerStuff
    PROVE  CountInv'
<1>1. /\ turn \in Plate /\ phase = "plates" /\ Advance /\ rushed' = rushed \cup {}
      /\ PlateRests(turn) \/ PlateRearms(turn) \/ PlateRuns(turn)
  BY DEF TriggerStuff
<1>2. CASE PlateRests(turn) \/ PlateRearms(turn)
  <2>1. UNCHANGED <<doors, walls, areaconnect>>
    BY <1>2 DEF PlateRests, PlateRearms
  <2>2. Counted(doors, doors', {}, {}) /\ CountsOK(doors', walls', areaconnect', rushed')
    BY <1>1, <2>1, CountsNow, AlikeCounted
  <2> QED
    BY <1>1, <2>2, LaterCounts
<1>3. CASE PlateRuns(turn)
  <2> DEFINE list == plates[turn].list
             m == RunList(Effect(doors, walls, areaconnect), turn, list)
             T == ToldBy(turn, Len(list))
  <2>1. TakeEffect(m)
    BY <1>3 DEF PlateRuns
  <2>2. list \in Seq(PlateEntry) /\ ListOK(turn, list)
    BY <1>1 DEF LevelInv, TypeInv, PlateState
  <2> HIDE DEF list
  <2>3. PassOK(turn, Len(list), m)
    BY <1>1, <2>2, RunListCounts
  <2> HIDE DEF m
  <2>4. Counted(doors, doors', T, {}) /\ CountsOK(doors', walls', areaconnect', rushed')
    BY <1>1, <2>1, <2>3 DEF TakeEffect, PassOK, CountedEffect
  <2>5. \A g \in T : \E k \in DOMAIN PlateAction[turn] : Tells(turn, k, "open", g)
    BY DEF ToldBy
  <2> HIDE DEF T
  <2> QED
    BY <1>1, <2>4, <2>5, LaterCounts
<1> QED
  BY <1>1, <1>2, <1>3

\* Only an elevator that stops tells a door to open.
LEMMA ProcessElevatorCounts ==
    ASSUME WellBuilt, LevelInv, CountInv, ProcessElevator
    PROVE  CountInv'
<1>1. /\ phase = "elevators" /\ turn \in Elevator /\ Advance /\ UNCHANGED <<areaconnect, walls>>
      /\ rushed' = rushed \cup {}
  BY DEF ProcessElevator, ElevatorWaits, ElevatorStops, ElevatorStarts, ElevatorRests, Elevating
<1>2. /\ CountsOK(doors, walls, areaconnect, rushed) /\ doors \in DoorTypes /\ PositionsOK(doors, Door)
  BY CountsNow
<1>3. CASE UNCHANGED doors
  <2>1. Counted(doors, doors', {}, {})
    BY <1>3, AlikeCounted
  <2> QED
    BY <1>1, <1>2, <1>3, <2>1, LaterCounts
<1>4. CASE ElevatorStops
  <2> DEFINE there == elevator[turn].doortoopen
             unlocked == [doors EXCEPT ![there].elevlocked = FALSE]
  <2>1. doors' = OpenDoor(unlocked, {there})
    BY <1>4 DEF ElevatorStops, ExecuteElevatorStopActions, Machines
  <2>2. there \in Lift /\ there \in Door
    <3>1. there = DoorThere(turn, cabin[turn])
      BY <1>1, <1>4, ElevatorFields DEF ElevatorStops, CabinOK
    <3> QED
      BY <1>1, <3>1, ElevatorFields, LiftDoorsApart
  <2> HIDE DEF there
  <2>3. /\ unlocked \in DoorTypes
        /\ \A d \in Door : unlocked[d].action = doors[d].action /\ unlocked[d].position = doors[d].position
    BY <1>2, <2>2 DEF DoorTypes, DoorState
  <2> HIDE DEF unlocked
  <2>4. Counted(doors, unlocked, {}, {})
    BY <2>3, AlikeCounted
  <2>5. Counted(unlocked, doors', {there}, {})
    BY <1>2, <2>1, <2>2, <2>3, <2>4, CountedPositions, OpenCounted
  <2>6. Counted(doors, doors', {} \cup {there}, {})
    BY <1>2, <2>3, <2>4, <2>5, CountedTrans
  <2>7. Counted(doors, doors', {there}, {}) /\ {there} \subseteq Lift
    BY <2>2, <2>6
  <2>8. CountsOK(doors', walls', areaconnect', rushed')
    BY <1>1, <1>2, <2>7, SamePositionsCount DEF Counted
  <2> QED
    BY <1>1, <2>7, <2>8, LaterCounts
<1> QED
  BY <1>3, <1>4 DEF ProcessElevator, ElevatorWaits, ElevatorStarts, ElevatorRests

-----------------------------------------------------------------------------
(* DoActor                                                                 *)

\* The doors that were told to open and have not moved.
ToldIn(ds) == {d \in Door : JustTold(ds, d)}

\* An elevator is sent away: it shuts the door it leaves.
LEMMA SetNextActionCounted ==
    ASSUME NEW ds \in DoorTypes, NEW es, NEW e \in Elevator, NEW action,
           NEW R, JustTold(ds, LeftDoor(e, action)) => LeftDoor(e, action) \in R
    PROVE  Counted(ds, SetNextAction(Machines(ds, es), e, action).doors, {}, R)
<1> DEFINE dn == LeftDoor(e, action)
           closed == CloseDoor(ds, {dn})
           nd == [closed EXCEPT ![dn].elevlocked = TRUE]
<1>1. dn \in Door
  BY ElevatorAssumption DEF LeftDoor
<1>2. SetNextAction(Machines(ds, es), e, action).doors = ds
      \/ SetNextAction(Machines(ds, es), e, action).doors = nd
  BY DEF SetNextAction, Machines
<1>3. Counted(ds, ds, {}, R)
  <2>1. Counted(ds, ds, {}, {})
    BY AlikeCounted
  <2> QED
    BY <2>1, CountedMore
<1> HIDE DEF dn
<1>4. Counted(ds, closed, {}, R) /\ closed \in DoorTypes
  <2>1. \A g \in {dn} : JustTold(ds, g) => g \in R
    BY DEF dn
  <2> QED
    BY <1>1, <2>1, CloseCounted, CloseDoorAt
<1> HIDE DEF closed
<1>5. Counted(ds, nd, {}, R)
  <2>1. closed[dn] \in DoorState
    BY <1>1, <1>4 DEF DoorTypes
  <2>2. \A d \in Door : nd[d].action = closed[d].action /\ nd[d].position = closed[d].position
    BY <1>1, <1>4, <2>1 DEF DoorTypes, DoorState
  <2> QED
    BY <1>4, <2>2 DEF Counted, JustTold
<1> QED
  BY <1>2, <1>3, <1>5 DEF dn, closed

LEMMA OperateElevatorDoorCounted ==
    ASSUME NEW ds \in DoorTypes, NEW es, NEW d \in Lift,
           NEW R, \A g \in ElevatorDoors(d) \ {d} : JustTold(ds, g) => g \in R
    PROVE  Counted(ds, OperateElevatorDoor(Machines(ds, es), d).doors, {}, R)
<1> DEFINE e == CHOOSE e \in Elevator : d \in {Door1[e], Door2[e]}
           wanted == IF d = Door1[e] THEN "mts" ELSE "mtd"
           m == OperateElevatorDoor(Machines(ds, es), d)
<1>1. e \in Elevator /\ d \in {Door1[e], Door2[e]}
  BY LiftDoors
<1>2. m = Machines(ds, es) \/ m = SetNextAction(Machines(ds, es), e, wanted)
  BY DEF OperateElevatorDoor
<1> HIDE DEF e
<1>3. JustTold(ds, LeftDoor(e, wanted)) => LeftDoor(e, wanted) \in R
  <2>1. LeftDoor(e, wanted) \in {Door1[e], Door2[e]} \ {d}
    BY <1>1, ElevatorAssumption DEF LeftDoor
  <2>2. {Door1[e], Door2[e]} \subseteq ElevatorDoors(d)
    BY <1>1 DEF ElevatorDoors
  <2> QED
    BY <2>1, <2>2
<1> HIDE DEF wanted, m
<1>4. Counted(ds, SetNextAction(Machines(ds, es), e, wanted).doors, {}, R)
  BY <1>1, <1>3, SetNextActionCounted
<1>5. Counted(ds, Machines(ds, es).doors, {}, R)
  <2>1. Counted(ds, ds, {}, {})
    BY AlikeCounted
  <2> QED
    BY <2>1, CountedMore DEF Machines
<1>6. Counted(ds, m.doors, {}, R)
  BY <1>2, <1>4, <1>5
<1> QED
  BY <1>6 DEF m

LEMMA OperateElevatorSwitchCounted ==
    ASSUME NEW ds \in DoorTypes, NEW es, NEW e \in Elevator, NEW cell \in {"source", "dest"}
    PROVE  Counted(ds, OperateElevatorSwitch(Machines(ds, es), e, cell).doors, {}, ToldIn(ds))
<1> DEFINE action == IF cell = "source" THEN "mtd" ELSE "mts"
           m0 == Machines(ds, es)
           next == SetNextAction(m0, e, action)
           last == [next EXCEPT !.elevator[e].ticcount = 0, !.elevator[e].flipped = @ \cup {cell}]
<1>1. OperateElevatorSwitch(m0, e, cell) =
          IF es[e].state \in {"mts", "mtd"} \/ ~CanSetNextAction(m0, e, action) THEN m0 ELSE last
  BY DEF OperateElevatorSwitch, Machines
<1>2. Counted(ds, m0.doors, {}, ToldIn(ds))
  <2>1. Counted(ds, ds, {}, {})
    BY AlikeCounted
  <2> QED
    BY <2>1, CountedMore DEF Machines
<1>3. Counted(ds, next.doors, {}, ToldIn(ds))
  <2>1. JustTold(ds, LeftDoor(e, action)) => LeftDoor(e, action) \in ToldIn(ds)
    BY ElevatorAssumption DEF LeftDoor, ToldIn
  <2> HIDE DEF action
  <2> QED
    BY <2>1, SetNextActionCounted
<1>4. last.doors = next.doors
  <2>1. "doors" \in DOMAIN next
    BY DEF SetNextAction, Machines
  <2> HIDE DEF next
  <2> QED
    BY <2>1
<1> HIDE DEF m0, last, next, action
<1> QED
  BY <1>1, <1>2, <1>3, <1>4 DEF m0

\* A user may tell a door to close before it has moved, but no other door.
LEMMA OperateDoorCounted ==
    ASSUME NEW ds \in DoorTypes, NEW d \in Door, NEW haskey \in BOOLEAN
    PROVE  Counted(ds, OperateDoor(ds, d, haskey), Group[d], ToldIn(ds))
<1>1. Counted(ds, ds, Group[d], ToldIn(ds))
  <2>1. Counted(ds, ds, {}, {})
    BY AlikeCounted
  <2> QED
    BY <2>1, CountedMore
<1>2. Counted(ds, LinkedOpenDoor(ds, d), Group[d], ToldIn(ds))
  <2>1. Counted(ds, LinkedOpenDoor(ds, d), Group[d], {})
    BY LinkedOpenCounted
  <2> QED
    BY <2>1, CountedMore
<1>3. Counted(ds, LinkedCloseDoor(ds, d), Group[d], ToldIn(ds))
  <2>1. \A g \in Group[d] : JustTold(ds, g) => g \in ToldIn(ds)
    BY DoorAssumption DEF ToldIn
  <2>2. Counted(ds, LinkedCloseDoor(ds, d), {}, ToldIn(ds))
    BY <2>1, LinkedCloseCounted
  <2> QED
    BY <2>2, CountedMore
<1> QED
  BY <1>1, <1>2, <1>3 DEF OperateDoor, UseDoor

LEMMA UseOfDoorCounted ==
    ASSUME LevelInv, CountInv, WellBuilt, NEW d \in Door
    PROVE  Counted(doors, UseOfDoor(Machines(doors, elevator), d).doors, Door, ToldIn(doors))
<1> DEFINE nd == OperateDoor(doors, d, TRUE)
           R == ToldIn(doors)
<1>1. UseOfDoor(Machines(doors, elevator), d) =
          IF ElevatorDoors(d) = {} THEN Machines(nd, elevator)
          ELSE OperateElevatorDoor(Machines(nd, elevator), d)
  BY DEF UseOfDoor, Machines
<1>2. /\ doors \in DoorTypes /\ PositionsOK(doors, Door) /\ Together(doors) /\ DoorwaysAgree
      /\ Group[d] \in SUBSET Door
  BY CountsNow, DoorAssumption DEF WellBuilt
<1>3. Counted(doors, nd, Group[d], R)
  BY <1>2, OperateDoorCounted
<1>4. nd \in DoorTypes
  BY <1>2, OperateCalled DEF Called
<1>5. \A g \in R : doors[g].action # "closed"
  BY DEF ToldIn, JustTold
<1> HIDE DEF nd
<1>6. CASE ElevatorDoors(d) = {}
  BY <1>1, <1>2, <1>3, <1>6, CountedMore DEF Machines
<1>7. CASE ElevatorDoors(d) # {}
  <2> DEFINE ld == OperateElevatorDoor(Machines(nd, elevator), d).doors
  <2>1. d \in Lift /\ Group[d] = {d}
    BY <1>7, LiftDoors DEF Lift
  <2>2. \A g \in ElevatorDoors(d) \ {d} : JustTold(nd, g) => g \in R
    <3>1. ElevatorDoors(d) \subseteq Door
      BY ElevatorAssumption DEF ElevatorDoors
    <3> QED
      BY <1>3, <2>1, <3>1 DEF Counted, ToldIn
  <2> HIDE DEF R
  <2>3. Counted(nd, ld, {}, R)
    BY <1>4, <2>1, <2>2, OperateElevatorDoorCounted
  <2> HIDE DEF ld
  <2>4. Counted(doors, ld, Group[d] \cup {}, R)
    BY <1>2, <1>3, <1>4, <1>5, <2>3, CountedTrans
  <2>5. Counted(doors, ld, Door, R)
    BY <1>2, <2>4, CountedMore
  <2> QED
    BY <1>1, <1>7, <2>5 DEF ld, R
<1> QED
  BY <1>6, <1>7

\* Whatever a player presses use at.
LEMMA UsesCounted ==
    ASSUME WellBuilt, Countable, LevelInv, CountInv, NEW p \in Actor, NEW m \in Uses(p)
    PROVE  Counted(doors, m.doors, Door, ToldIn(doors)) /\ CountsOK(m.doors, m.walls, m.areaconnect, rushed)
<1> DEFINE m0 == Machines(doors, elevator)
           Keep(n) == [doors |-> n.doors, elevator |-> n.elevator,
                       walls |-> walls, areaconnect |-> areaconnect]
           start == Effect(doors, walls, areaconnect)
           Push(w) == [doors |-> doors, elevator |-> elevator,
                       walls |-> OperatePushWall(start, w).walls,
                       areaconnect |-> OperatePushWall(start, w).areaconnect]
           Goal(n) == Counted(doors, n.doors, Door, ToldIn(doors)) /\ CountsOK(n.doors, n.walls, n.areaconnect, rushed)
<1>1. /\ CountsOK(doors, walls, areaconnect, rushed) /\ doors \in DoorTypes /\ CountsFit
      /\ \A d \in Door : d \in Group[d]
  BY CountsNow, DoorAssumption DEF Countable
<1>2. Counted(doors, doors, Door, ToldIn(doors))
  <2>1. Counted(doors, doors, {}, {})
    BY AlikeCounted
  <2> QED
    BY <2>1, CountedMore
<1>3. ASSUME NEW n, Counted(doors, n.doors, Door, ToldIn(doors))
      PROVE  Goal(Keep(n))
  <2>1. \A d \in Door : n.doors[d].position > 0 <=> doors[d].position > 0
    BY <1>3 DEF Counted
  <2>2. CountsOK(n.doors, walls, areaconnect, rushed)
    BY <1>1, <2>1, SamePositionsCount
  <2> QED
    BY <1>3, <2>2
<1>4. \/ m = Keep(m0)
      \/ \E d \in Door : m = Keep(UseOfDoor(m0, d))
      \/ \E e \in Elevator : m = Keep(OperateElevatorSwitch(m0, e, "source"))
      \/ \E e \in Elevator : m = Keep(OperateElevatorSwitch(m0, e, "dest"))
      \/ \E w \in Wall : m = Push(w)
  BY DEF Uses
<1>5. Counted(doors, m0.doors, Door, ToldIn(doors))
  BY <1>2 DEF Machines
<1>6. \A d \in Door : Counted(doors, UseOfDoor(m0, d).doors, Door, ToldIn(doors))
  BY UseOfDoorCounted
<1>7. \A e \in Elevator :
          Counted(doors, OperateElevatorSwitch(m0, e, "source").doors, Door, ToldIn(doors))
  <2> SUFFICES ASSUME NEW e \in Elevator
               PROVE  Counted(doors, OperateElevatorSwitch(m0, e, "source").doors, Door, ToldIn(doors))
    OBVIOUS
  <2>1. Counted(doors, OperateElevatorSwitch(m0, e, "source").doors, {}, ToldIn(doors))
    BY <1>1, OperateElevatorSwitchCounted
  <2> HIDE DEF m0
  <2> QED
    BY <2>1, CountedMore
<1>8. \A e \in Elevator :
          Counted(doors, OperateElevatorSwitch(m0, e, "dest").doors, Door, ToldIn(doors))
  <2> SUFFICES ASSUME NEW e \in Elevator
               PROVE  Counted(doors, OperateElevatorSwitch(m0, e, "dest").doors, Door, ToldIn(doors))
    OBVIOUS
  <2>1. Counted(doors, OperateElevatorSwitch(m0, e, "dest").doors, {}, ToldIn(doors))
    BY <1>1, OperateElevatorSwitchCounted
  <2> HIDE DEF m0
  <2> QED
    BY <2>1, CountedMore
<1>9. \A w \in Wall : Goal(Push(w))
  <2> SUFFICES ASSUME NEW w \in Wall
               PROVE  Goal(Push(w))
    OBVIOUS
  <2>1. start \in Effects(doors) /\ CountedEffect(start) /\ start.doors = doors
    <3>1. start \in Effects(doors)
      BY NoEffect DEF LevelInv
    <3> QED
      BY <1>1, <3>1 DEF CountedEffect, Effect
  <2> HIDE DEF start
  <2>2. OperatePushWall(start, w).doors = doors /\ CountedEffect(OperatePushWall(start, w))
    BY <1>1, <2>1, ActivateCounts DEF OperatePushWall
  <2> QED
    BY <1>2, <2>2 DEF CountedEffect
<1> HIDE DEF Keep, Push, m0, Goal
<1>10. Goal(m)
  <2>1. CASE m = Keep(m0)
    BY <1>3, <1>5, <2>1
  <2>2. CASE \E d \in Door : m = Keep(UseOfDoor(m0, d))
    BY <1>3, <1>6, <2>2
  <2>3. CASE \E e \in Elevator : m = Keep(OperateElevatorSwitch(m0, e, "source"))
    BY <1>3, <1>7, <2>3
  <2>4. CASE \E e \in Elevator : m = Keep(OperateElevatorSwitch(m0, e, "dest"))
    BY <1>3, <1>8, <2>4
  <2>5. CASE \E w \in Wall : m = Push(w)
    BY <1>9, <2>5
  <2> QED
    BY <1>4, <2>1, <2>2, <2>3, <2>4, <2>5
<1> QED
  BY <1>10 DEF Goal

LEMMA MarkedCounted ==
    ASSUME NEW ds \in DoorTypes, NEW a \in Actor, NEW x
    PROVE  Counted(ds, Marked(ds, a, x), {}, {})
<1>1. \A d \in Door : ds[d] \in DoorState
  BY DEF DoorTypes
<1>2. \A d \in Door : /\ Marked(ds, a, x)[d].action = ds[d].action
                      /\ Marked(ds, a, x)[d].position = ds[d].position
  BY <1>1 DEF Marked, DoorState
<1> QED
  BY <1>2, AlikeCounted

\* An actor's turn: what it asks for, then its move.
LEMMA ActorCounts ==
    ASSUME LevelInv, CountInv, turn \in Actor, NEW R, \A d \in R : doors[d].action # "closed",
           NEW nd \in DoorTypes, Counted(doors, nd, Door, R), NEW x, doors' = Marked(nd, turn, x),
           CountsOK(nd, walls', areaconnect', rushed)
    PROVE  Counted(doors, doors', Door, R) /\ CountsOK(doors', walls', areaconnect', rushed)
<1>1. doors \in DoorTypes /\ PositionsOK(doors, Door)
  BY CountsNow
<1>2. Counted(nd, doors', {}, {})
  BY MarkedCounted
<1>3. Counted(doors, doors', Door, R)
  <2>1. Counted(nd, doors', {}, R)
    BY <1>2, CountedMore
  <2>2. Counted(doors, doors', Door \cup {}, R)
    BY <1>1, <2>1, CountedTrans
  <2> QED
    BY <2>2
<1>4. CountsOK(doors', walls', areaconnect', rushed)
  BY <1>2, SamePositionsCount DEF Counted
<1> QED
  BY <1>3, <1>4

LEMMA PlayerActsCounts ==
    ASSUME WellBuilt, Countable, LevelInv, CountInv, turn \in Actor, PlayerActs(turn)
    PROVE  Counted(doors, doors', Door, ToldIn(doors)) /\ CountsOK(doors', walls', areaconnect', rushed)
<1>1. PICK m \in Uses(turn), x \in Place :
        doors' = Marked(m.doors, turn, x) /\ walls' = m.walls /\ areaconnect' = m.areaconnect
  BY DEF PlayerActs
<1>2. Counted(doors, m.doors, Door, ToldIn(doors)) /\ CountsOK(m.doors, m.walls, m.areaconnect, rushed)
  BY UsesCounted
<1>3. m.doors \in DoorTypes
  BY UsesOK DEF Requested, Called
<1>4. CountsOK(m.doors, walls', areaconnect', rushed) /\ \A d \in ToldIn(doors) : doors[d].action # "closed"
  BY <1>1, <1>2 DEF ToldIn, JustTold
<1> QED
  BY <1>1, <1>2, <1>3, <1>4, ActorCounts

\* Asking a door to open never takes a connection away.
LEMMA EnemyOpensCounted ==
    ASSUME LevelInv, CountInv, NEW d \in Door
    PROVE  LET nd == LinkedOpenDoor(doors, d)
           IN nd \in DoorTypes /\ Counted(doors, nd, Group[d], {}) /\ CountsOK(nd, walls, areaconnect, rushed)
<1> DEFINE nd == LinkedOpenDoor(doors, d)
<1>1. doors \in DoorTypes /\ PositionsOK(doors, Door) /\ CountsOK(doors, walls, areaconnect, rushed)
      /\ Group[d] \in SUBSET Door
  BY CountsNow, DoorAssumption
<1>2. nd \in DoorTypes /\ Counted(doors, nd, Group[d], {})
  BY <1>1, OpenDoorAt, LinkedOpenCounted DEF LinkedOpenDoor
<1> HIDE DEF nd
<1>3. CountsOK(nd, walls, areaconnect, rushed)
  BY <1>1, <1>2, SamePositionsCount DEF Counted
<1> QED
  BY <1>2, <1>3 DEF nd

LEMMA EnemyCounts ==
    ASSUME WellBuilt, Countable, LevelInv, CountInv, turn \in Enemy,
           EnemyWaits(turn) \/ EnemyWalks(turn) \/ EnemyMeetsDoor(turn),
           UNCHANGED <<areaconnect, walls>>
    PROVE  Counted(doors, doors', Door, {}) /\ CountsOK(doors', walls', areaconnect', rushed)
<1>1. /\ turn \in Actor /\ doors \in DoorTypes /\ PositionsOK(doors, Door)
      /\ CountsOK(doors, walls, areaconnect, rushed)
      /\ door_to_open[turn] \in Door \cup {NoDoor} /\ \A d \in Door : Group[d] \in SUBSET Door
  BY CountsNow, LevelAssumption, DoorAssumption DEF LevelInv, TypeInv, LevelTypeOK
<1>2. CASE EnemyWaits(turn)
  <2> DEFINE d == door_to_open[turn]
             nd == LinkedOpenDoor(doors, d)
  <2>1. d \in Door /\ doors' = nd
    BY <1>1, <1>2 DEF EnemyWaits
  <2> HIDE DEF d
  <2>2. nd \in DoorTypes /\ Counted(doors, nd, Group[d], {}) /\ CountsOK(nd, walls, areaconnect, rushed)
    BY <2>1, EnemyOpensCounted
  <2>3. Counted(doors, doors', Group[d], {}) /\ CountsOK(doors', walls', areaconnect', rushed)
    BY <2>1, <2>2
  <2> QED
    BY <1>1, <2>1, <2>3, CountedMore
<1>3. CASE EnemyWalks(turn)
  <2> DEFINE d == door_to_open[turn]
             nd == IF d = NoDoor THEN doors ELSE LinkedOpenDoor(doors, d)
  <2>1. PICK x \in Place : doors' = Marked(nd, turn, x)
    BY <1>3 DEF EnemyWalks
  <2>2. nd \in DoorTypes /\ Counted(doors, nd, Door, {}) /\ CountsOK(nd, walls', areaconnect', rushed)
    <3>1. CASE d = NoDoor
      <4>1. Counted(doors, doors, {}, {})
        BY AlikeCounted
      <4>2. Counted(doors, doors, Door, {})
        BY <4>1, CountedMore
      <4> QED
        BY <1>1, <3>1, <4>2
    <3>2. CASE d # NoDoor
      <4>1. d \in Door
        BY <1>1, <3>2
      <4> HIDE DEF d
      <4>2. LinkedOpenDoor(doors, d) \in DoorTypes /\ Counted(doors, LinkedOpenDoor(doors, d), Group[d], {})
            /\ CountsOK(LinkedOpenDoor(doors, d), walls, areaconnect, rushed)
        BY <4>1, EnemyOpensCounted
      <4>3. Counted(doors, LinkedOpenDoor(doors, d), Door, {})
        BY <1>1, <4>1, <4>2, CountedMore
      <4> QED
        BY <3>2, <4>2, <4>3
    <3> QED
      BY <3>1, <3>2
  <2> HIDE DEF nd
  <2> QED
    BY <1>1, <2>1, <2>2, ActorCounts
<1>4. CASE EnemyMeetsDoor(turn)
  <2>1. PICK d \in Door :
          LET told == Machines(LinkedOpenDoor(doors, d), elevator)
              m == IF ElevatorDoors(d) = {} THEN told ELSE OperateElevatorDoor(told, d)
          IN ~doors[d].elevlocked /\ doors' = Marked(m.doors, turn, place[turn])
    BY <1>4 DEF EnemyMeetsDoor
  <2> DEFINE nd == LinkedOpenDoor(doors, d)
             told == Machines(nd, elevator)
  <2>2. ElevatorDoors(d) # {} => OperateElevatorDoor(told, d) = told
    <3>1. CabinsOK /\ cabin \in [Elevator -> {"source", "dest"}]
      BY DEF LevelInv, TypeInv, LevelTypeOK, ShaftInv
    <3> HIDE DEF nd
    <3> QED
      BY <2>1, <3>1, MeetingSendsNothing
  <2>3. doors' = Marked(nd, turn, place[turn])
    <3>1. (IF ElevatorDoors(d) = {} THEN told ELSE OperateElevatorDoor(told, d)) = told
      BY <2>2
    <3>2. told.doors = nd
      BY DEF Machines
    <3> QED
      BY <2>1, <3>1, <3>2
  <2>4. nd \in DoorTypes /\ Counted(doors, nd, Group[d], {}) /\ CountsOK(nd, walls, areaconnect, rushed)
    BY EnemyOpensCounted
  <2> HIDE DEF nd, told
  <2>5. Counted(doors, nd, Door, {})
    BY <1>1, <2>4, CountedMore
  <2> QED
    BY <1>1, <2>3, <2>4, <2>5, ActorCounts
<1> QED
  BY <1>2, <1>3, <1>4

\* The doors that an actor has turned round are those of Rushed.
LEMMA RushedCounts ==
    ASSUME NEW T, NEW R, Counted(doors, doors', T, R)
    PROVE  Counted(doors, doors', T, Rushed)
BY DEF Counted, Rushed

LEMMA DoActorCounts ==
    ASSUME WellBuilt, Countable, LevelInv, CountInv, DoActor
    PROVE  CountInv' /\ Counted(doors, doors', Door, Rushed)
<1>1. phase = "actors" /\ Advance /\ turn \in Actor /\ rushed' = rushed \cup Rushed
  BY DEF DoActor, Acting
<1>2. Counted(doors, doors', Door, Rushed) /\ CountsOK(doors', walls', areaconnect', rushed)
  <2>1. CASE turn \in Player /\ PlayerActs(turn)
    BY <1>1, <2>1, PlayerActsCounts, RushedCounts
  <2>2. CASE /\ turn \in Enemy
             /\ EnemyWaits(turn) \/ EnemyWalks(turn) \/ EnemyMeetsDoor(turn)
             /\ UNCHANGED <<areaconnect, areabyplayer, walls, plates, TRIGGER, cabin>>
    BY <2>2, EnemyCounts, RushedCounts
  <2> QED
    BY <2>1, <2>2 DEF DoActor
<1>3. CountsOK(doors', walls', areaconnect', rushed')
  BY <1>1, <1>2, FewerCounts
<1>4. CountInv'
  BY <1>1, <1>2, <1>3, LaterCounts
<1> QED
  BY <1>2, <1>4

-----------------------------------------------------------------------------
(* The whole tic                                                           *)

\* The level begins with every door shut and every wall on its first tile.
LEMMA InitCounts ==
    ASSUME Init
    PROVE  CountInv
<1>1. /\ areaconnect = [pr \in Pair |-> 0]
      /\ \A d \in Door : doors[d].position = 0 /\ doors[d].action = "closed"
      /\ \A w \in Wall : walls[w].leg = 1 /\ walls[w].action = "npushed"
  BY DEF Init, ShutDoor
<1>2. PositionsOK(doors, rushed) /\ ToldInv
  BY <1>1 DEF PositionsOK, ToldInv, JustTold
<1>3. OnlyRushMiscounts
  <2>1. PushesBegun(walls) = {}
    <3>1. SUFFICES ASSUME NEW push \in PushesBegun(walls)
                   PROVE  FALSE
      OBVIOUS
    <3>2. PICK w \in Wall : push \in {w} \X DOMAIN WallPath[w]
      BY <3>1 DEF PushesBegun, Pushes
    <3>3. PICK l \in DOMAIN WallPath[w] : push = <<w, l>>
      BY <3>2
    <3>4. l \in Nat /\ l >= 1
      BY <3>3, TriggerAssumption
    <3>5. l < 1
      BY <1>1, <3>1, <3>3, <3>4, PushMember
    <3> QED
      BY <3>4, <3>5
  <2>2. SUFFICES ASSUME NEW pr \in Pair
                 PROVE  areaconnect[pr] =
                            Cardinality({d \in Door : Side[d] = pr /\ doors[d].position > 0})
                          + Cardinality({push \in PushesBegun(walls) :
                                            pr \in WallPath[push[1]][push[2]].connects})
    BY DEF OnlyRushMiscounts, Ways
  <2>3. {d \in Door : Side[d] = pr /\ doors[d].position > 0} = {}
    BY <1>1
  <2>4. {push \in PushesBegun(walls) : pr \in WallPath[push[1]][push[2]].connects} = {}
    BY <2>1
  <2>5. Cardinality({}) = 0 /\ areaconnect[pr] = 0
    BY <1>1, FS_EmptySet
  <2>6. /\ Cardinality({d \in Door : Side[d] = pr /\ doors[d].position > 0}) = 0
        /\ Cardinality({push \in PushesBegun(walls) :
                            pr \in WallPath[push[1]][push[2]].connects}) = 0
    BY <2>3, <2>4, <2>5
  <2> QED
    BY <2>5, <2>6
<1> QED
  BY <1>2, <1>3 DEF CountInv

LEMMA NextCounts ==
    ASSUME WellBuilt, Countable, LevelInv, CountInv, [Next]_vars
    PROVE  CountInv'
<1>1. CASE UNCHANGED vars
  <2>1. UNCHANGED <<doors, areaconnect, walls, phase, turn, rushed>>
    BY <1>1 DEF vars, level
  <2> QED
    BY <2>1 DEF CountInv, OnlyRushMiscounts, Ways, PushesBegun, PositionsOK, ToldInv, JustTold
<1>2. CASE MoveDoor
  BY <1>2, MoveDoorCounts
<1>3. CASE ProcessElevator
  BY <1>3, ProcessElevatorCounts
<1>4. CASE MovePWall
  BY <1>4, MovePWallCounts
<1>5. CASE TriggerStuff
  BY <1>5, TriggerStuffCounts
<1>6. CASE DoActor
  BY <1>6, DoActorCounts
<1> QED
  BY <1>1, <1>2, <1>3, <1>4, <1>5, <1>6 DEF Next

\* In a level that is WellBuilt and Countable a door that MoveDoors, an elevator or
\* a plate has told to open is told to close before it has moved by nobody but a
\* user (OperateDoor, OperateElevatorSwitch, OperateElevatorDoor), so every door
\* that shuts was counted when it opened unless a user has once turned it round.
THEOREM CountInvariant == ASSUME WellBuilt, Countable PROVE Spec => []CountInv
<1>1. Init => CountInv
  BY InitCounts
<1>2. LevelInv /\ CountInv /\ [Next]_vars => CountInv'
  BY NextCounts
<1> QED
  BY <1>1, <1>2, LevelInvariant, PTL DEF Spec

\* "Areaconnect is incremented/decremented by each door.  If >0 they connect": the
\* count between two areas is that of its doors out of position 0 and of the
\* pushes of walls begun there, and never wraps, through every tic (DoorOpening,
\* DoorClosing, ConnectPushWall) and until a user turns one of its own doors round
\* before MoveDoors has moved it, however many others have been.
THEOREM OnlyRushes == ASSUME WellBuilt, Countable PROVE Spec => []OnlyRushMiscounts
<1>1. CountInv => OnlyRushMiscounts
  BY DEF CountInv
<1> QED
  BY <1>1, CountInvariant, PTL

-----------------------------------------------------------------------------
(* The areas the players see                                               *)

\* All that is connected with areas of T is in T.
Closed(ac, T) == \A b \in T, a \in Area : a # b /\ ac[{a, b}] > 0 => a \in T

\* RecursiveConnect goes on for long enough: a round that finds no new area is
\* the last that would, and there are no more rounds that do than areas.
LEMMA ConnectedIsClosed ==
    ASSUME NEW ac, NEW S \in SUBSET Area
    PROVE  Closed(ac, ConnectedWith(ac, S))
<1> DEFINE n == Cardinality(Area)
           M == {x \in (0 .. n) \X SUBSET Area : Closed(ac, x[2]) \/ x[1] <= Cardinality(x[2])}
<1>1. PICK found : IsSpread(found, ac, S)
  BY ConnectedRun
<1>2. /\ n \in Nat /\ DOMAIN found = 0 .. n /\ found[0] = S /\ ConnectedWith(ac, S) = found[n]
      /\ \A k \in 1 .. n : found[k] = More(ac, found[k - 1])
  BY <1>1, ConnectedRun DEF IsSpread
<1>3. \A X \in SUBSET Area : IsFiniteSet(X) /\ Cardinality(X) \in Nat
  BY DoorAssumption, FS_Subset, FS_CardinalityType
<1> DEFINE run == [k \in 0 .. n |-> <<k, found[k]>>]
<1>4. ASSUME NEW k \in 1 .. n, run[k - 1] \in M
      PROVE  run[k] \in M
  <2> DEFINE X == found[k - 1]
             Y == found[k]
  <2>1. /\ k - 1 \in 0 .. n /\ k \in 0 .. n /\ run[k - 1] = <<k - 1, X>> /\ run[k] = <<k, Y>>
        /\ k \in Nat
    BY <1>2
  <2>2. X \in SUBSET Area /\ (Closed(ac, X) \/ k - 1 <= Cardinality(X))
    BY <1>4, <2>1
  <2>3. Y = X \cup {a \in Area : \E b \in X : a # b /\ ac[{a, b}] > 0}
    BY <1>2 DEF More
  <2> HIDE DEF X, Y
  <2>4. CASE Closed(ac, X)
    <3>1. Y = X
      BY <2>3, <2>4 DEF Closed
    <3> QED
      BY <2>1, <2>2, <2>4, <3>1
  <2>5. CASE ~ Closed(ac, X)
    <3>1. PICK a \in Area : a \notin X /\ a \in Y
      BY <2>3, <2>5 DEF Closed
    <3>2. X \cup {a} \subseteq Y /\ Y \in SUBSET Area /\ X \in SUBSET Area
      BY <2>2, <2>3, <3>1
    <3>3. Cardinality(X \cup {a}) = Cardinality(X) + 1
      BY <1>3, <3>1, <3>2, FS_AddElement
    <3>4. Cardinality(X \cup {a}) <= Cardinality(Y)
      BY <1>3, <3>2, FS_Subset
    <3>5. k <= Cardinality(Y)
      BY <1>3, <2>1, <2>2, <2>5, <3>2, <3>3, <3>4
    <3> QED
      BY <2>1, <3>2, <3>5
  <2> QED
    BY <2>4, <2>5
<1>5. run[0] \in M /\ DOMAIN run = 0 .. n
  <2>1. 0 \in 0 .. n /\ run[0] = <<0, S>>
    BY <1>2
  <2>2. 0 <= Cardinality(S)
    BY <1>3
  <2> QED
    BY <2>1, <2>2
<1>6. run[n] \in M
  <2> HIDE DEF run, M, n
  <2> QED
    BY <1>2, <1>4, <1>5, LoopStays
<1>7. run[n] = <<n, found[n]>>
  BY <1>2
<1>8. found[n] \in SUBSET Area /\ (Closed(ac, found[n]) \/ n <= Cardinality(found[n]))
  BY <1>6, <1>7
<1>9. CASE n <= Cardinality(found[n])
  <2>1. found[n] = Area
    <3>1. IsFiniteSet(Area) /\ found[n] \subseteq Area
      BY <1>8, DoorAssumption
    <3>2. Cardinality(found[n]) <= n
      BY <3>1, FS_Subset
    <3>3. Cardinality(found[n]) = n
      BY <1>2, <1>3, <1>8, <1>9, <3>2
    <3> QED
      BY <3>1, <3>3, FS_Subset
  <2> QED
    BY <1>2, <2>1 DEF Closed
<1> QED
  BY <1>2, <1>8, <1>9

\* What is connected with S is the least set of areas that is closed and has S.
LEMMA ConnectedIsLeast ==
    ASSUME NEW ac, NEW S \in SUBSET Area
    PROVE  /\ S \subseteq ConnectedWith(ac, S)
           /\ \A T \in SUBSET Area : S \subseteq T /\ Closed(ac, T) => ConnectedWith(ac, S) \subseteq T
<1> DEFINE n == Cardinality(Area)
<1>1. PICK found : IsSpread(found, ac, S)
  BY ConnectedRun
<1>2. /\ n \in Nat /\ DOMAIN found = 0 .. n /\ found[0] = S /\ ConnectedWith(ac, S) = found[n]
      /\ \A k \in 1 .. n : found[k] = More(ac, found[k - 1])
  BY <1>1, ConnectedRun DEF IsSpread
<1>3. S \subseteq found[n]
  <2> DEFINE M == {X \in SUBSET Area : S \subseteq X}
  <2>1. found[0] \in M
    BY <1>2
  <2>2. \A k \in 1 .. n : found[k - 1] \in M => found[k] \in M
    BY <1>2 DEF More
  <2>3. found[n] \in M
    <3> HIDE DEF M, n
    <3> QED
      BY <1>2, <2>1, <2>2, LoopStays
  <2> QED
    BY <2>3
<1>4. ASSUME NEW T \in SUBSET Area, S \subseteq T, Closed(ac, T)
      PROVE  found[n] \subseteq T
  <2> DEFINE M == SUBSET T
  <2>1. found[0] \in M
    BY <1>2, <1>4
  <2>2. \A X \in M : More(ac, X) \in M
    BY <1>4 DEF More, Closed
  <2>3. \A k \in 1 .. n : found[k - 1] \in M => found[k] \in M
    <3> HIDE DEF M, n
    <3> QED
      BY <1>2, <2>2
  <2>4. found[n] \in M
    <3> HIDE DEF M, n
    <3> QED
      BY <1>2, <2>1, <2>3, LoopStays
  <2> QED
    BY <2>4
<1> QED
  BY <1>2, <1>3, <1>4

\* Players in other areas, but each of which is connected with the others, see the same.
LEMMA SameConnected ==
    ASSUME NEW ac, NEW S \in SUBSET Area, NEW T \in SUBSET Area,
           S \subseteq ConnectedWith(ac, T), T \subseteq ConnectedWith(ac, S)
    PROVE  ConnectedWith(ac, S) = ConnectedWith(ac, T)
<1>1. /\ ConnectedWith(ac, S) \in SUBSET Area /\ Closed(ac, ConnectedWith(ac, S))
      /\ ConnectedWith(ac, T) \in SUBSET Area /\ Closed(ac, ConnectedWith(ac, T))
  BY ConnectedType, ConnectedIsClosed
<1>2. ConnectedWith(ac, S) \subseteq ConnectedWith(ac, T)
  BY <1>1, ConnectedIsLeast
<1>3. ConnectedWith(ac, T) \subseteq ConnectedWith(ac, S)
  BY <1>1, ConnectedIsLeast
<1> QED
  BY <1>2, <1>3

-----------------------------------------------------------------------------
(* Walls that go on                                                        *)

LEMMA ActivateGoesOn ==
    ASSUME NEW ds, NEW m \in Effects(ds), NEW w \in Wall,
           \A v \in Wall : v # w \/ m.walls[w].action # "npushed" => GoesOn(m.walls[v], v)
    PROVE  LET n == ActivatePushWall(m, w)
           IN WallsGoOn(n.walls) /\ PushesBegun(m.walls) \subseteq PushesBegun(n.walls)
<1> DEFINE n == ActivatePushWall(m, w)
<1>1. CASE m.walls[w].action # "npushed"
  <2>1. n = m
    BY <1>1 DEF ActivatePushWall
  <2> QED
    BY <1>1, <2>1 DEF WallsGoOn
<1>2. CASE m.walls[w].action = "npushed"
  <2>1. /\ n.walls[w].action = "pushing" /\ n.walls[w].leg = m.walls[w].leg
        /\ \A v \in Wall : v # w => n.walls[v] = m.walls[v]
    BY <1>2, ActivateAt
  <2> HIDE DEF n
  <2>2. WallsGoOn(n.walls)
    <3>1. GoesOn(n.walls[w], w)
      BY <2>1 DEF GoesOn
    <3> QED
      BY <2>1, <3>1 DEF WallsGoOn
  <2>3. PushesBegun(m.walls) \subseteq PushesBegun(n.walls)
    <3> SUFFICES ASSUME NEW q \in PushesBegun(m.walls)
                 PROVE  q \in PushesBegun(n.walls)
      OBVIOUS
    <3>1. PICK v \in Wall : \E l \in DOMAIN WallPath[v] : q = <<v, l>>
      BY DEF PushesBegun, Pushes
    <3>2. PICK l \in DOMAIN WallPath[v] : q = <<v, l>>
      BY <3>1
    <3>3. l < m.walls[v].leg + (IF m.walls[v].action = "npushed" THEN 0 ELSE 1)
      BY <3>2, PushMember
    <3>4. l < n.walls[v].leg + (IF n.walls[v].action = "npushed" THEN 0 ELSE 1)
      <4>1. CASE v = w
        <5>1. l \in Nat /\ m.walls[w].leg \in Nat
          <6>1. m.walls \in WallTypes
            BY EffectFields
          <6> QED
            BY <6>1, WallFields, TriggerAssumption
        <5> QED
          BY <1>2, <2>1, <3>3, <4>1, <5>1
      <4>2. CASE v # w
        BY <2>1, <3>3, <4>2
      <4> QED
        BY <4>1, <4>2
    <3> QED
      BY <3>2, <3>4, PushMember
  <2> QED
    BY <2>2, <2>3 DEF n
<1> QED
  BY <1>1, <1>2

LEMMA WallPushingGoesOn ==
    ASSUME NEW ds, NEW m \in Effects(ds), NEW w \in Wall, m.walls[w].action = "pushing",
           WallsGoOn(m.walls)
    PROVE  WallsGoOn(WallPushing(m, w).walls)
<1> DEFINE n == WallPushing(m, w)
           pw == m.walls[w]
<1>1. GoesOn(pw, w) /\ \A v \in Wall : GoesOn(m.walls[v], v)
  BY DEF WallsGoOn
<1>2. CASE Turned(m, w, n, "pushing", pw.leg)
  <2>1. GoesOn(n.walls[w], w) /\ \A v \in Wall : v # w => n.walls[v] = m.walls[v]
    BY <1>2 DEF Turned, GoesOn
  <2> HIDE DEF n
  <2> QED
    BY <1>1, <2>1 DEF WallsGoOn, n
<1>3. CASE pw.leg = Len(WallPath[w]) /\ Turned(m, w, n, "pushed", pw.leg)
  <2>1. GoesOn(n.walls[w], w) /\ \A v \in Wall : v # w => n.walls[v] = m.walls[v]
    BY <1>3 DEF Turned, GoesOn
  <2> HIDE DEF n
  <2> QED
    BY <1>1, <2>1 DEF WallsGoOn, n
<1>4. ASSUME NEW r \in Effects(ds), Turned(m, w, r, "npushed", pw.leg + 1),
             n = IF w \in WallLock THEN ActivatePushWall(r, w) ELSE r
      PROVE  WallsGoOn(n.walls)
  <2>1. \A v \in Wall : v # w => GoesOn(r.walls[v], v)
    BY <1>1, <1>4 DEF Turned
  <2>2. r.walls[w].action = "npushed"
    BY <1>4 DEF Turned
  <2>3. CASE w \in WallLock
    <3>1. \A v \in Wall : v # w \/ r.walls[w].action # "npushed" => GoesOn(r.walls[v], v)
      BY <2>1, <2>2
    <3>2. WallsGoOn(ActivatePushWall(r, w).walls)
      BY <1>4, <3>1, ActivateGoesOn
    <3> HIDE DEF n
    <3> QED
      BY <1>4, <2>3, <3>2
  <2>4. CASE w \notin WallLock
    <3>1. GoesOn(r.walls[w], w)
      BY <2>2, <2>4 DEF GoesOn
    <3>2. WallsGoOn(r.walls)
      BY <2>1, <3>1 DEF WallsGoOn
    <3> HIDE DEF n
    <3> QED
      BY <1>4, <2>4, <3>2
  <2> QED
    BY <2>3, <2>4
<1> QED
  BY <1>2, <1>3, <1>4, WallPushingAt

LEMMA RunListGoesOn ==
    ASSUME WellBuilt, LevelInv, turn \in Plate, WallsGoOn(walls),
           NEW list, ListOK(turn, list), NEW E, list \in Seq(E)
    PROVE  WallsGoOn(RunList(Effect(doors, walls, areaconnect), turn, list).walls)
<1> DEFINE n == Len(list)
           start == Effect(doors, walls, areaconnect)
           M == {m \in Effects(doors) : WallsGoOn(m.walls)}
<1>1. n \in Nat /\ start \in M
  <2>1. start \in Effects(doors)
    BY NoEffect DEF LevelInv
  <2>2. start.walls = walls
    BY DEF Effect
  <2> QED
    BY <2>1, <2>2
<1>2. ASSUME NEW k \in 1 .. n, NEW before \in M
      PROVE  ListTurn(turn, list, k, before) \in M
  <2>1. ListTurn(turn, list, k, before) \in Effects(doors)
    BY ListTurnEffect DEF WellBuilt
  <2>2. WallsGoOn(ListTurn(turn, list, k, before).walls)
    <3>1. CASE Waiting(list[k]) /\ list[k].ticcount = 0
      <4> DEFINE obj == PlateAction[turn][k].whichobj
                 act == list[k].action
                 r == Run(before, act, obj)
      <4>1. /\ k \in DOMAIN PlateAction[turn]
            /\ act \in IF PlateAction[turn][k].action = "push" THEN {"push"} ELSE {"open", "close"}
        BY <3>1, EntryRuns
      <4>2. ListTurn(turn, list, k, before) = r
        BY <3>1 DEF ListTurn
      <4>3. CASE act = "push"
        <5>1. obj \in Wall
          <6>1. PlateAction[turn][k].action = "push"
            BY <4>1, <4>3
          <6> QED
            BY <4>1, <6>1, TriggerAssumption
        <5>2. r = ActivatePushWall(before, obj)
          BY <4>3 DEF Run
        <5>3. \A v \in Wall : GoesOn(before.walls[v], v)
          BY DEF WallsGoOn
        <5> HIDE DEF obj, r
        <5>4. WallsGoOn(ActivatePushWall(before, obj).walls)
          BY <5>1, <5>3, ActivateGoesOn
        <5> QED
          BY <4>2, <5>2, <5>4
      <4>4. CASE act \in {"open", "close"}
        <5>1. r.walls = before.walls
          <6>1. before = [doors |-> before.doors, walls |-> before.walls, areaconnect |-> before.areaconnect]
            BY EffectFields
          <6>2. \/ r = [before EXCEPT !.doors = LinkedOpenDoor(@, obj)]
                \/ r = [before EXCEPT !.doors = LinkedCloseDoor(@, obj)]
            BY <4>4 DEF Run
          <6> HIDE DEF r, obj
          <6> QED
            BY <6>1, <6>2
        <5> HIDE DEF r
        <5> QED
          BY <4>2, <5>1
      <4> QED
        BY <4>1, <4>3, <4>4
    <3>2. CASE ~ (Waiting(list[k]) /\ list[k].ticcount = 0)
      BY <3>2 DEF ListTurn
    <3> QED
      BY <3>1, <3>2
  <2> QED
    BY <2>1, <2>2
<1> HIDE DEF M, start
<1>3. PICK pass : IsPass(pass, start, turn, list)
  BY <1>1, <1>2, ListPass
<1>4. pass[n] \in M
  <2>1. /\ DOMAIN pass = 0 .. n /\ pass[0] \in M
        /\ \A k \in 1 .. n : pass[k - 1] \in M => pass[k] \in M
    BY <1>1, <1>2, <1>3 DEF IsPass
  <2> HIDE DEF n
  <2> QED
    BY <1>1, <2>1, LoopStays
<1>5. RunList(start, turn, list) \in M
  BY <1>3, <1>4 DEF IsPass
<1> QED
  BY <1>5 DEF M, start

-----------------------------------------------------------------------------
(* Walking from one area to another                                        *)

\* A connection that is counted connects.
LEMMA CountedConnects ==
    ASSUME NEW ds, NEW ws, NEW ac, CountsOK(ds, ws, ac, {}), NEW pr \in Pair,
           OpenAt(ds, pr) # {} \/ BegunAt(ws, pr) # {}
    PROVE  ac[pr] > 0
<1> DEFINE a == Cardinality(OpenAt(ds, pr))
           b == Cardinality(BegunAt(ws, pr))
<1>1. a \in Nat /\ b \in Nat /\ ac[pr] = a + b
  BY CountsBounded DEF CountsOK, Sound
<1>2. a # 0 \/ b # 0
  BY CountsBounded, FS_EmptySet
<1> HIDE DEF a, b
<1> QED
  BY <1>1, <1>2

\* The areas of a pair are all there is in it.
LEMMA PairConnects ==
    ASSUME NEW ac, NEW T \in SUBSET Area, Closed(ac, T), NEW pr \in Pair, ac[pr] > 0,
           pr \cap T # {}
    PROVE  pr \subseteq T
<1> SUFFICES ASSUME NEW a \in pr, a \notin T
             PROVE  FALSE
  OBVIOUS
<1>1. PICK b \in pr : b \in T
  OBVIOUS
<1>2. a # b /\ a \in Area /\ b \in Area /\ pr \in SUBSET Area /\ Cardinality(pr) = 2
  BY <1>1 DEF Pair
<1>3. IsFiniteSet(pr)
  BY <1>2, DoorAssumption, FS_Subset
<1>4. IsFiniteSet({a}) /\ Cardinality({a}) = 1
  BY FS_Singleton
<1>5. Cardinality({a} \cup {b}) = 2
  <2>1. b \notin {a}
    BY <1>2
  <2>2. Cardinality({a} \cup {b}) = Cardinality({a}) + 1
    BY <1>4, <2>1, FS_AddElement
  <2> QED
    BY <1>4, <2>2
<1>6. {a, b} = {a} \cup {b} /\ {a, b} \subseteq pr
  BY <1>1
<1>7. {a, b} = pr
  BY <1>2, <1>3, <1>5, <1>6, FS_Subset
<1> QED
  BY <1>1, <1>2, <1>7 DEF Closed

\* A wall that has left its first tile has begun what it was to begin there.
LEMMA MadeIsBegun ==
    ASSUME WallsGoOn(walls), walls \in WallTypes, NEW w \in Wall,
           walls[w].leg > 1 \/ walls[w].action = "pushed", NEW pr \in Made(w)
    PROVE  pr \in Pair /\ BegunAt(walls, pr) # {}
<1>1. PICK l \in DOMAIN WallPath[w] :
        /\ l = 1 \/ (l = 2 /\ w \in WallLock)
        /\ pr \in WallPath[w][l].connects
  BY DEF Made
<1>2. /\ WallPath[w] \in Seq([connects : SUBSET Pair]) /\ Len(WallPath[w]) \in Nat
      /\ walls[w].leg \in 1 .. Len(WallPath[w]) /\ l \in 1 .. Len(WallPath[w])
  <2>1. /\ walls[w] \in [action : {"npushed", "pushing", "pushed"},
                         leg : 1 .. Len(WallPath[w]), state : 0 .. PushTics]
        /\ WallPath[w] \in Seq([connects : SUBSET Pair]) /\ Len(WallPath[w]) \in Nat \ {0}
    BY WallFields
  <2>2. walls[w].leg \in 1 .. Len(WallPath[w])
    BY <2>1
  <2>3. DOMAIN WallPath[w] = 1 .. Len(WallPath[w])
    BY <2>1
  <2> QED
    BY <1>1, <2>1, <2>2, <2>3
<1>3. GoesOn(walls[w], w)
  BY DEF WallsGoOn
<1>4. l < walls[w].leg + (IF walls[w].action = "npushed" THEN 0 ELSE 1)
  <2>1. CASE l = 1
    BY <1>2, <2>1
  <2>2. CASE l = 2 /\ w \in WallLock
    <3>1. walls[w].leg > 1 /\ walls[w].action # "npushed"
      BY <1>2, <1>3, <2>2 DEF GoesOn
    <3> QED
      BY <1>2, <2>2, <3>1
  <2> QED
    BY <1>1, <2>1, <2>2
<1>5. <<w, l>> \in PushesBegun(walls)
  BY <1>1, <1>4, PushMember
<1>6. <<w, l>>[1] = w /\ <<w, l>>[2] = l
  OBVIOUS
<1>7. <<w, l>> \in BegunAt(walls, pr)
  BY <1>1, <1>5, <1>6 DEF BegunAt
<1>8. pr \in Pair
  <2>1. WallPath[w][l] \in [connects : SUBSET Pair]
    <3>1. l \in DOMAIN WallPath[w] /\ \A k \in DOMAIN WallPath[w] : WallPath[w][k] \in [connects : SUBSET Pair]
      <4> DEFINE E == [connects : SUBSET Pair]
      <4>1. WallPath[w] \in Seq(E)
        BY <1>2
      <4> HIDE DEF E
      <4>2. \A k \in DOMAIN WallPath[w] : WallPath[w][k] \in E
        BY <4>1
      <4> QED
        BY <1>1, <4>2 DEF E
    <3> QED
      BY <3>1
  <2> QED
    BY <1>1, <2>1
<1> QED
  BY <1>7, <1>8

\* Who walks from one area to another goes by a door that is open or a wall that has
\* been pushed, and both are counted.
LEMMA WalkConnected ==
    ASSUME AreasApart, WallsGoOn(walls), walls \in WallTypes,
           NEW p \in Actor, place \in [Actor -> Place], NEW x \in Place,
           NEW ds, CanWalk(ds, p, x), PositionsOK(ds, Door),
           NEW ws, PushesBegun(walls) \subseteq PushesBegun(ws),
           NEW ac, CountsOK(ds, ws, ac, {}), NEW T \in SUBSET Area, Closed(ac, T)
    PROVE  AreaOf[place[p]] \in T <=> AreaOf[x] \in T
<1> DEFINE y == place[p]
<1>1. y \in Place /\ {x, y} = {y, x}
  OBVIOUS
<1>2. \/ x = y
      \/ /\ {y, x} \in Passage
         /\ \A d \in Door : Tile[d] \in {x, y} => ds[d].action = "open"
      \/ \E w \in Wall : /\ {y, x} = WallPassage[w]
                         /\ walls[w].leg > 1 \/ walls[w].action = "pushed"
  BY DEF CanWalk, NextTo
<1> HIDE DEF y
<1>3. CASE /\ {y, x} \in Passage
           /\ \A d \in Door : Tile[d] \in {x, y} => ds[d].action = "open"
  <2>1. CASE AreaOf[y] = AreaOf[x]
    BY <2>1 DEF y
  <2>2. ASSUME NEW d \in Door, Tile[d] \in {x, y}, Side[d] = {AreaOf[y], AreaOf[x]}
        PROVE  AreaOf[y] \in T <=> AreaOf[x] \in T
    <3>1. ds[d].position > 0
      BY <1>3, <2>2 DEF PositionsOK
    <3>2. Side[d] \in Pair /\ d \in OpenAt(ds, Side[d])
      BY <3>1, DoorAssumption DEF OpenAt
    <3>3. ac[Side[d]] > 0
      BY <3>2, CountedConnects
    <3>4. Side[d] \cap T # {} => Side[d] \subseteq T
      BY <3>2, <3>3, PairConnects
    <3> QED
      BY <2>2, <3>4
  <2> QED
    BY <1>1, <1>3, <2>1, <2>2 DEF AreasApart, y
<1>4. ASSUME NEW w \in Wall, {y, x} = WallPassage[w], walls[w].leg > 1 \/ walls[w].action = "pushed"
      PROVE  AreaOf[y] \in T <=> AreaOf[x] \in T
  <2>1. \A pr \in Made(w) : pr \cap T # {} => pr \subseteq T
    <3> SUFFICES ASSUME NEW pr \in Made(w), pr \cap T # {}
                 PROVE  pr \subseteq T
      OBVIOUS
    <3>1. pr \in Pair /\ BegunAt(walls, pr) # {}
      BY <1>4, MadeIsBegun
    <3>2. BegunAt(ws, pr) # {}
      BY <3>1 DEF BegunAt
    <3>3. ac[pr] > 0
      BY <3>1, <3>2, CountedConnects
    <3> QED
      BY <3>1, <3>3, PairConnects
  <2>2. AreaOf[y] \in T => AreaOf[x] \in T
    BY <1>1, <1>4, <2>1 DEF AreasApart
  <2>3. AreaOf[x] \in T => AreaOf[y] \in T
    <3>1. {x, y} = WallPassage[w]
      BY <1>1, <1>4
    <3> QED
      BY <1>1, <2>1, <3>1 DEF AreasApart
  <2> QED
    BY <2>2, <2>3
<1> QED
  BY <1>2, <1>3, <1>4 DEF y

\* A door that is about to move still is after calls.
LEMMA ToldStays ==
    ASSUME NEW ds, NEW nd \in DoorTypes, NEW T, Counted(ds, nd, T, {}), NEW g \in Door, JustTold(ds, g)
    PROVE  JustTold(nd, g)
<1>1. nd[g].action \in {"open", "closed", "opening", "closing"}
  BY DEF DoorTypes, DoorState
<1> QED
  BY <1>1 DEF Counted, JustTold

-----------------------------------------------------------------------------
(* The areas, through the tic                                              *)

LEMMA AboutStays ==
    ASSUME AboutToMove, \A g \in Lift : JustTold(doors, g) => JustTold(doors', g)
    PROVE  AboutToMove'
BY DEF AboutToMove, Lift

\* A door that moves for the first or the last time brings the areas up to date;
\* the doors that MoveDoors closes with it are not those of elevators.
LEMMA MoveDoorAreas ==
    ASSUME WellBuilt, LevelInv, AreasInv, MoveDoor
    PROVE  AreasInv'
<1> DEFINE d == turn
<1>1. /\ d \in Door /\ UNCHANGED <<walls, place, rushed>> /\ doors \in DoorTypes /\ doors[d] \in DoorState
  BY DEF MoveDoor, LevelInv, TypeInv, LevelTypeOK, DoorTypes
<1>2. WallsGoOn(walls')
  BY <1>1 DEF AreasInv
<1>3. CASE UNCHANGED <<areaconnect, areabyplayer>> /\ ~ JustTold(doors, d)
  <2>1. Followed => Followed'
    BY <1>1, <1>3 DEF Followed
  <2>2. ASSUME NEW g \in Lift, g # d
        PROVE  doors'[g] = doors[g]
    <3>1. g \in Door /\ g \notin Group[d]
      BY <1>1, <2>2, LiftDoors DEF Lift
    <3>2. CASE doors[d].action = "open"
      <4> DEFINE tc == IF doors[d].ticcount < OPENTICS THEN doors[d].ticcount + 1 ELSE OPENTICS
                 counted == [doors EXCEPT ![d].ticcount = tc]
      <4>1. doors' = DoorOpen(doors, d)
        BY <3>2 DEF MoveDoor
      <4>2. doors' = counted \/ doors' = LinkedCloseDoor(counted, d)
        BY <4>1 DEF DoorOpen
      <4>3. counted[g] = doors[g]
        BY <1>1, <2>2, <3>1 DEF DoorTypes
      <4> HIDE DEF counted
      <4>4. LinkedCloseDoor(counted, d)[g] = counted[g]
        BY <3>1 DEF LinkedCloseDoor, CloseDoor
      <4> QED
        BY <4>2, <4>3, <4>4
    <3>3. CASE doors[d].action = "opening"
      <4>1. doors' = DoorOpening(doors, d)
        BY <3>3 DEF MoveDoor
      <4> QED
        BY <1>1, <2>2, <3>1, <4>1 DEF DoorOpening, DoorTypes
    <3>4. CASE doors[d].action = "closing"
      <4>1. doors' = DoorClosing(doors, d)
        BY <3>4 DEF MoveDoor
      <4> QED
        BY <1>1, <2>2, <3>1, <4>1 DEF DoorClosing, DoorTypes
    <3>5. CASE doors[d].action = "closed"
      BY <3>5 DEF MoveDoor
    <3> QED
      BY <1>1, <3>2, <3>3, <3>4, <3>5 DEF DoorState
  <2>3. AboutToMove => AboutToMove'
    <3>1. \A g \in Lift : JustTold(doors, g) => JustTold(doors', g)
      BY <1>3, <2>2 DEF JustTold
    <3> QED
      BY <3>1, AboutStays
  <2> QED
    BY <1>1, <1>2, <2>1, <2>3 DEF AreasInv
<1>4. CASE ConnectAreas(areaconnect')
  <2>1. Followed'
    BY <1>1, <1>4 DEF Followed, ConnectAreas
  <2> QED
    BY <1>2, <2>1 DEF AreasInv
<1>5. \/ UNCHANGED <<areaconnect, areabyplayer>> /\ ~ JustTold(doors, d)
      \/ ConnectAreas(areaconnect')
  BY <1>1 DEF MoveDoor, JustTold, DoorState, ConnectAreas
<1> QED
  BY <1>3, <1>4, <1>5

\* An elevator that has carried somebody has told a door to open.
LEMMA ProcessElevatorAreas ==
    ASSUME WellBuilt, LevelInv, CountInv, AreasInv, ProcessElevator
    PROVE  AreasInv'
<1>1. /\ turn \in Elevator /\ UNCHANGED <<areaconnect, areabyplayer, walls, rushed>>
      /\ doors \in DoorTypes /\ PositionsOK(doors, Door)
  BY CountsNow DEF ProcessElevator, ElevatorWaits, ElevatorStops, ElevatorStarts, ElevatorRests,
                   Elevating
<1>2. WallsGoOn(walls')
  BY <1>1 DEF AreasInv
<1>3. CASE UNCHANGED <<doors, place>>
  <2>1. (Followed => Followed') /\ (AboutToMove => AboutToMove')
    BY <1>1, <1>3 DEF Followed, AboutToMove, JustTold
  <2> QED
    BY <1>1, <1>2, <2>1 DEF AreasInv
<1>4. CASE ElevatorStops
  <2> DEFINE there == elevator[turn].doortoopen
             unlocked == [doors EXCEPT ![there].elevlocked = FALSE]
  <2>1. doors' = OpenDoor(unlocked, {there})
    BY <1>4 DEF ElevatorStops, ExecuteElevatorStopActions, Machines
  <2>2. there \in Lift /\ there \in Door /\ doors[there].action = "closed"
    <3>1. there = DoorThere(turn, cabin[turn]) /\ Shut(doors, DoorThere(turn, cabin[turn]))
      BY <1>1, <1>4, ElevatorFields DEF ElevatorStops, CabinOK
    <3> QED
      BY <1>1, <3>1, ElevatorFields, LiftDoorsApart DEF Shut
  <2> HIDE DEF there
  <2>3. doors[there] \in DoorState /\ doors[there].position = 0
    BY <1>1, <2>2 DEF DoorTypes, PositionsOK
  <2>4. unlocked[there].action = "closed" /\ unlocked[there].position = 0 /\ unlocked \in DoorTypes
    BY <1>1, <2>2, <2>3 DEF DoorTypes, DoorState
  <2> HIDE DEF unlocked
  <2>5. {there} \in SUBSET Door
    BY <2>2
  <2>6. doors'[there].action = "opening" /\ doors'[there].position = 0
    BY <2>1, <2>2, <2>4, <2>5, OpenDoorAt, OpenDoorPositions
  <2>7. AboutToMove'
    BY <2>2, <2>6 DEF AboutToMove, JustTold, Lift
  <2> QED
    BY <1>2, <2>7 DEF AreasInv
<1> QED
  BY <1>3, <1>4 DEF ProcessElevator, ElevatorWaits, ElevatorStarts, ElevatorRests

\* ConnectAreas follows what walls and plates have connected.
LEMMA TakeEffectAreas ==
    ASSUME AreasInv, NEW m \in Effects(doors), WallsGoOn(m.walls), TakeEffect(m), UNCHANGED <<place, rushed>>
    PROVE  AreasInv'
<1>1. WallsGoOn(walls')
  BY DEF TakeEffect
<1>2. Followed => Followed'
  BY DEF TakeEffect, Followed, ConnectAreas
<1>3. AboutToMove => AboutToMove'
  <2>1. \A g \in Lift : doors'[g] = doors[g]
    BY DEF TakeEffect, Effects
  <2> QED
    BY <2>1, AboutStays DEF JustTold
<1> QED
  BY <1>1, <1>2, <1>3 DEF AreasInv

LEMMA MovePWallAreas ==
    ASSUME LevelInv, AreasInv, MovePWall
    PROVE  AreasInv'
<1> DEFINE start == Effect(doors, walls, areaconnect)
           m == IF walls[turn].action = "pushing" THEN WallPushing(start, turn) ELSE start
<1>1. /\ start \in Effects(doors) /\ start.walls = walls
      /\ turn \in Wall /\ TakeEffect(m) /\ UNCHANGED <<place, rushed>> /\ WallsGoOn(walls)
  <2>1. start \in Effects(doors)
    BY NoEffect DEF LevelInv
  <2> QED
    BY <2>1 DEF MovePWall, AreasInv, Effect
<1> HIDE DEF start
<1>2. m \in Effects(doors) /\ WallsGoOn(m.walls)
  BY <1>1, WallPushingEffect, WallPushingGoesOn
<1> HIDE DEF m
<1> QED
  BY <1>1, <1>2, TakeEffectAreas

LEMMA TriggerStuffAreas ==
    ASSUME WellBuilt, LevelInv, AreasInv, TriggerStuff
    PROVE  AreasInv'
<1>1. /\ turn \in Plate /\ UNCHANGED <<place, rushed>> /\ WallsGoOn(walls)
      /\ PlateRests(turn) \/ PlateRearms(turn) \/ PlateRuns(turn)
  BY DEF TriggerStuff, AreasInv
<1>2. CASE PlateRests(turn) \/ PlateRearms(turn)
  <2>1. UNCHANGED <<doors, walls, areaconnect, areabyplayer>>
    BY <1>2 DEF PlateRests, PlateRearms
  <2> QED
    BY <1>1, <2>1 DEF AreasInv, Followed, AboutToMove, JustTold
<1>3. CASE PlateRuns(turn)
  <2> DEFINE start == Effect(doors, walls, areaconnect)
             list == plates[turn].list
             m == RunList(start, turn, list)
  <2>1. TakeEffect(m)
    BY <1>3 DEF PlateRuns
  <2>2. start \in Effects(doors) /\ list \in Seq(PlateEntry) /\ ListOK(turn, list)
    BY <1>1, NoEffect DEF LevelInv, TypeInv, PlateState
  <2> HIDE DEF list
  <2>3. WallsGoOn(m.walls)
    BY <1>1, <2>2, RunListGoesOn
  <2> HIDE DEF start
  <2>4. m \in Effects(doors)
    BY <1>1, <2>2, RunListEffect DEF WellBuilt
  <2> HIDE DEF m
  <2> QED
    BY <1>1, <2>1, <2>3, <2>4, TakeEffectAreas
<1> QED
  BY <1>1, <1>2, <1>3

\* Whatever a player presses use at, no wall goes back.
LEMMA UsesGoOn ==
    ASSUME LevelInv, WallsGoOn(walls), NEW p \in Actor, NEW m \in Uses(p)
    PROVE  WallsGoOn(m.walls) /\ PushesBegun(walls) \subseteq PushesBegun(m.walls)
<1> DEFINE start == Effect(doors, walls, areaconnect)
<1>1. start \in Effects(doors) /\ start.walls = walls
  <2>1. start \in Effects(doors)
    BY NoEffect DEF LevelInv
  <2> QED
    BY <2>1 DEF Effect
<1>2. m.walls = walls \/ \E w \in Wall : m.walls = OperatePushWall(start, w).walls
  <2> DEFINE m0 == Machines(doors, elevator)
             Keep(n) == [doors |-> n.doors, elevator |-> n.elevator,
                         walls |-> walls, areaconnect |-> areaconnect]
             Push(w) == [doors |-> doors, elevator |-> elevator,
                         walls |-> OperatePushWall(start, w).walls,
                         areaconnect |-> OperatePushWall(start, w).areaconnect]
  <2>1. \/ m = Keep(m0)
        \/ \E d \in Door : m = Keep(UseOfDoor(m0, d))
        \/ \E e \in Elevator : m = Keep(OperateElevatorSwitch(m0, e, "source"))
        \/ \E e \in Elevator : m = Keep(OperateElevatorSwitch(m0, e, "dest"))
        \/ \E w \in Wall : m = Push(w)
    BY DEF Uses
  <2>2. (\A n : Keep(n).walls = walls) /\ \A w : Push(w).walls = OperatePushWall(start, w).walls
    OBVIOUS
  <2> HIDE DEF m0, Keep, Push, start
  <2> QED
    BY <2>1, <2>2
<1> HIDE DEF start
<1>3. ASSUME NEW w \in Wall, m.walls = OperatePushWall(start, w).walls
      PROVE  WallsGoOn(m.walls) /\ PushesBegun(walls) \subseteq PushesBegun(m.walls)
  <2>1. CASE w \in WallLock
    BY <1>1, <1>3, <2>1 DEF OperatePushWall
  <2>2. CASE w \notin WallLock
    <3>1. m.walls = ActivatePushWall(start, w).walls
      BY <1>3, <2>2 DEF OperatePushWall
    <3>2. \A v \in Wall : GoesOn(start.walls[v], v)
      BY <1>1 DEF WallsGoOn
    <3>3. /\ WallsGoOn(ActivatePushWall(start, w).walls)
          /\ PushesBegun(start.walls) \subseteq PushesBegun(ActivatePushWall(start, w).walls)
      BY <1>1, <3>2, ActivateGoesOn
    <3> QED
      BY <1>1, <3>1, <3>3
  <2> QED
    BY <2>1, <2>2
<1> QED
  BY <1>2, <1>3

\* A door that is about to move is not told otherwise by who has its turn.
LEMMA ActorTold ==
    ASSUME LevelInv', Counted(doors, doors', Door, {}), AboutToMove
    PROVE  AboutToMove'
<1>1. doors' \in DoorTypes
  BY DEF LevelInv, TypeInv, LevelTypeOK, DoorTypes
<1>2. \A g \in Lift : JustTold(doors, g) => JustTold(doors', g)
  BY <1>1, ToldStays DEF Lift
<1> QED
  BY <1>2, AboutStays

\* The areas connected with the players' are the same before and after a player's
\* move, with what it has connected itself.
LEMMA PlayerActsAreas ==
    ASSUME WellBuilt, Countable, AreasApart, LevelInv, LevelInv', CountInv, AreasInv,
           turn \in Player, PlayerActs(turn), rushed = {}, Counted(doors, doors', Door, {})
    PROVE  AreasInv'
<1>1. PICK m \in Uses(turn), x \in Place :
        /\ CanWalk(m.doors, turn, x)
        /\ doors' = Marked(m.doors, turn, x)
        /\ walls' = m.walls /\ areaconnect' = m.areaconnect
        /\ place' = [place EXCEPT ![turn] = x]
        /\ IF m.areaconnect # areaconnect THEN ConnectAreas(m.areaconnect) ELSE UNCHANGED areabyplayer
  BY DEF PlayerActs
<1>2. /\ turn \in Actor /\ WallsGoOn(walls) /\ walls \in WallTypes
      /\ place \in [Actor -> Place] /\ place' \in [Actor -> Place]
      /\ doors \in DoorTypes /\ PositionsOK(doors, Door)
  BY CountsNow DEF LevelInv, TypeInv, LevelTypeOK, AreasInv, Player
<1>3. /\ WallsGoOn(m.walls) /\ PushesBegun(walls) \subseteq PushesBegun(m.walls)
      /\ Counted(doors, m.doors, Door, ToldIn(doors)) /\ CountsOK(m.doors, m.walls, m.areaconnect, {})
  BY <1>2, UsesGoOn, UsesCounted
<1>4. PositionsOK(m.doors, Door)
  <2>1. ToldIn(doors) \subseteq Door
    BY DEF ToldIn
  <2> QED
    BY <1>2, <1>3, <2>1, CountedPositions
<1>5. AboutToMove => AboutToMove'
  BY ActorTold
<1>6. Followed => Followed'
  <2> DEFINE S == PlayerAreas(place)
             T == PlayerAreas(place')
             ac == m.areaconnect
  <2>1. S \in SUBSET Area /\ T \in SUBSET Area
    BY <1>2, PlayerAreasType
  <2>2. /\ \A q \in Player : q # turn => place'[q] = place[q]
        /\ place'[turn] = x
    BY <1>1, <1>2 DEF Player
  <2>3. \A U \in SUBSET Area : Closed(ac, U) => (AreaOf[place[turn]] \in U <=> AreaOf[x] \in U)
    BY <1>1, <1>2, <1>3, <1>4, WalkConnected
  <2>4. \A U \in SUBSET Area : Closed(ac, U) => (S \subseteq U <=> T \subseteq U)
    BY <2>2, <2>3 DEF PlayerAreas
  <2> HIDE DEF S, T, ac
  <2>5. /\ ConnectedWith(ac, S) \in SUBSET Area /\ Closed(ac, ConnectedWith(ac, S))
        /\ ConnectedWith(ac, T) \in SUBSET Area /\ Closed(ac, ConnectedWith(ac, T))
        /\ S \subseteq ConnectedWith(ac, S) /\ T \subseteq ConnectedWith(ac, T)
    BY <2>1, ConnectedType, ConnectedIsClosed, ConnectedIsLeast
  <2>6. ConnectedWith(ac, S) = ConnectedWith(ac, T)
    BY <2>1, <2>4, <2>5, SameConnected
  <2> QED
    BY <1>1, <2>6 DEF Followed, ConnectAreas, S, T, ac
<1>7. WallsGoOn(walls')
  BY <1>1, <1>3
<1> QED
  BY <1>5, <1>6, <1>7 DEF AreasInv

\* No actor makes a wall go back.
LEMMA WallsStay ==
    ASSUME LevelInv, AreasInv, DoActor
    PROVE  WallsGoOn(walls')
<1>1. WallsGoOn(walls)
  BY DEF AreasInv
<1>2. CASE turn \in Player /\ PlayerActs(turn)
  <2>1. PICK m \in Uses(turn) : walls' = m.walls
    BY <1>2 DEF PlayerActs
  <2>2. turn \in Actor
    BY <1>2 DEF Player
  <2> QED
    BY <1>1, <2>1, <2>2, UsesGoOn
<1>3. CASE UNCHANGED walls
  BY <1>1, <1>3
<1> QED
  BY <1>2, <1>3 DEF DoActor

LEMMA DoActorAreas ==
    ASSUME WellBuilt, Countable, AreasApart, LevelInv, LevelInv', CountInv, AreasInv, DoActor
    PROVE  AreasInv'
<1> SUFFICES ASSUME rushed' = {}
             PROVE  WallsGoOn(walls') /\ (Followed' \/ AboutToMove')
  BY WallsStay DEF AreasInv
<1>3. rushed = {} /\ Counted(doors, doors', Door, {})
  <2>1. rushed' = rushed \cup Rushed
    BY DEF DoActor
  <2>2. rushed = {} /\ Rushed = {}
    BY <2>1
  <2> QED
    BY <2>2, DoActorCounts
<1>1. CASE turn \in Player /\ PlayerActs(turn)
  <2>1. AreasInv'
    BY <1>1, <1>3, PlayerActsAreas
  <2> QED
    BY <2>1 DEF AreasInv
<1>2. CASE /\ turn \in Enemy
           /\ EnemyWaits(turn) \/ EnemyWalks(turn) \/ EnemyMeetsDoor(turn)
           /\ UNCHANGED <<areaconnect, areabyplayer, walls, plates, TRIGGER, cabin>>
  <2>1. AboutToMove => AboutToMove'
    BY <1>3, ActorTold
  <2>2. PlayerAreas(place') = PlayerAreas(place)
    <3>1. \A q \in Player : place'[q] = place[q]
      <4>1. place \in [Actor -> Place] /\ turn \notin Player
        BY <1>2 DEF LevelInv, TypeInv, LevelTypeOK, Player
      <4>2. place' = place \/ \E x \in Place : place' = [place EXCEPT ![turn] = x]
        BY <1>2 DEF EnemyWaits, EnemyWalks, EnemyMeetsDoor
      <4> QED
        BY <4>1, <4>2 DEF Player
    <3> QED
      BY <3>1 DEF PlayerAreas
  <2> QED
    BY <1>2, <1>3, <2>1, <2>2 DEF AreasInv, Followed
<1> QED
  BY <1>1, <1>2 DEF DoActor

\* Nothing is connected when the level begins.
LEMMA InitAreas ==
    ASSUME Init
    PROVE  AreasInv
<1>1. /\ areaconnect = [pr \in Pair |-> 0] /\ place \in Starts
      /\ areabyplayer = PlayerAreas(place)
      /\ \A w \in Wall : walls[w] = [action |-> "npushed", leg |-> 1, state |-> 0]
  BY DEF Init
<1>2. WallsGoOn(walls)
  BY <1>1 DEF WallsGoOn, GoesOn
<1>3. Followed
  <2> DEFINE S == PlayerAreas(place)
             T == ConnectedWith(areaconnect, S)
  <2>1. S \in SUBSET Area
    BY <1>1, LevelAssumption, PlayerAreasType
  <2> HIDE DEF S
  <2>2. Closed(areaconnect, S)
    <3> SUFFICES ASSUME NEW b \in S, NEW a \in Area, a # b
                 PROVE  ~ areaconnect[{a, b}] > 0
      BY DEF Closed
    <3>1. {a, b} \in Pair
      <4>1. IsFiniteSet({a}) /\ Cardinality({a}) = 1
        BY FS_Singleton
      <4>2. Cardinality({a} \cup {b}) = 2
        BY <4>1, FS_AddElement
      <4>3. {a, b} = {a} \cup {b} /\ {a, b} \in SUBSET Area
        BY <2>1
      <4> QED
        BY <4>2, <4>3 DEF Pair
    <3> QED
      BY <1>1, <3>1
  <2>3. S \subseteq T /\ T \subseteq S
    BY <2>1, <2>2, ConnectedIsLeast
  <2> QED
    BY <1>1, <2>3 DEF Followed, S
<1> QED
  BY <1>2, <1>3 DEF AreasInv

LEMMA NextAreas ==
    ASSUME WellBuilt, Countable, AreasApart, LevelInv, LevelInv', CountInv, AreasInv, [Next]_vars
    PROVE  AreasInv'
<1>1. CASE UNCHANGED vars
  <2>1. UNCHANGED <<doors, areaconnect, walls, place, areabyplayer, rushed>>
    BY <1>1 DEF vars, level
  <2> QED
    BY <2>1 DEF AreasInv, Followed, AboutToMove, JustTold
<1> QED
  BY <1>1, MoveDoorAreas, ProcessElevatorAreas, MovePWallAreas, TriggerStuffAreas, DoActorAreas DEF Next

\* In a level that is WellBuilt and Countable and whose areas are apart, a player gets
\* from one area into another only where they are connected, so the areas that
\* ConnectAreas found last are those it would find now, until Teleport carries a
\* player and before the door it has told to open moves; until a user turns a door
\* round before it has moved, after which its count may be wrong (OnlyRushMiscounts).
THEOREM AreasInvariant ==
    ASSUME WellBuilt, Countable, AreasApart
    PROVE  Spec => []AreasInv
<1>1. Init => AreasInv
  BY InitAreas
<1>2. LevelInv /\ LevelInv' /\ CountInv /\ AreasInv /\ [Next]_vars => AreasInv'
  BY NextAreas
<1> QED
  BY <1>1, <1>2, LevelInvariant, CountInvariant, PTL DEF Spec

\* "An area is true if it connects with the player's current spor": areabyplayer, by
\* which actors are woken, is what ConnectAreas would find, for the actors of every
\* tic in which no elevator's door has been told to open and has not moved, in a
\* level where no user has yet turned a door round before it moved.
THEOREM AreasFollowed ==
    ASSUME WellBuilt, Countable, AreasApart
    PROVE  Spec => []AreasFollowPlayers
<1>1. AreasInv => AreasFollowPlayers
  <2> SUFFICES ASSUME AreasInv, rushed = {},
                      \A e \in Elevator : \A d \in {Door1[e], Door2[e]} : ~JustTold(doors, d)
               PROVE  Followed
    BY DEF AreasFollowPlayers, Followed
  <2>1. ~ AboutToMove
    BY LiftDoors DEF AboutToMove, Lift
  <2> QED
    BY <2>1 DEF AreasInv
<1> QED
  BY <1>1, AreasInvariant, PTL
=============================================================================
