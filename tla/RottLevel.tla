----------------------------- MODULE RottLevel -----------------------------
(* One level of the game, tic by tic (the loop of UpdateGameObjects in
   rott/rt_main.c): MoveDoors, ProcessElevators, MovePWalls, TriggerStuff and
   then the actors of the active list, each with its DoActor, all working on
   the same doors, areas and places.  The loop handles one thing per step:
   phase says which of the five loops runs and turn what it handles next.     *)
EXTENDS Elevators, Triggers

CONSTANTS
    Enemy,          \* those that are not players
    Place,          \* where an actor can stand: door tiles and spots of the map
    AreaOf,         \* AreaOf[x]: the area number of a place
    Tile,           \* Tile[d]: the place that is the tile of door d
    Passage,        \* pairs of places next to each other
    WallPassage,    \* WallPassage[w]: places next to each other once w was pushed
    CellS, CellD,   \* CellS[e], CellD[e]: the two cells of elevator e
    PlateAt,        \* PlateAt[i]: the place of plate i
    WallAt,         \* WallAt[w]: where one stands to push wall w
    Starts,         \* the ways the actors may be placed at first
    TileHolds,      \* actors that fit in the tile of a door
    MaxRushed       \* bound: no door is rushed any more when this many have been

Player == Actor \ Enemy
DoorTile == {Tile[d] : d \in Door}

ASSUME LevelAssumption ==
    /\ Enemy \subseteq Actor /\ Starts \subseteq [Actor -> Place]
    /\ AreaOf \in [Place -> Area] /\ Tile \in [Door -> Place]
    /\ \A d, g \in Door : d # g => Tile[d] # Tile[g]
    /\ \A d \in Door : AreaOf[Tile[d]] \in Side[d]
    /\ CellS \in [Elevator -> Place] /\ CellD \in [Elevator -> Place]
    /\ PlateAt \in [Plate -> Place] /\ WallAt \in [Wall -> Place]
    /\ TileHolds \in Nat \ {0} /\ MaxRushed \in Nat
    \* SetupGameLevel places the players before the actors of the map, and
    \* MakeActive appends: the players think first.
    /\ \A p \in Player, e \in Enemy : p < e
    \* A loop over nothing does nothing and is left out of the model.
    /\ NumElevators > 0 /\ NumWalls > 0 /\ NumPlates > 0 /\ NumActors > 0

VARIABLES
    place,          \* tilex, tiley of the actors
    door_to_open,   \* the door an enemy waits for
    areabyplayer,   \* areas connected with a player's, as ConnectAreas left it
    phase, turn,    \* where the tic is
    cabin,          \* cabin[e]: the cell elevator e is at (history)
    rushed          \* doors an actor has turned round before they moved (history)

level == <<doors, areaconnect, elevator, walls, plates, TRIGGER>>
vars == <<level, place, door_to_open, areabyplayer, phase, turn, cabin, rushed>>

Phases == {"doors", "elevators", "walls", "plates", "actors"}
Count(ph) == CASE ph = "doors" -> NumDoors [] ph = "elevators" -> NumElevators
               [] ph = "walls" -> NumWalls [] ph = "plates" -> NumPlates
               [] ph = "actors" -> NumActors
After(ph) == CASE ph = "doors" -> "elevators" [] ph = "elevators" -> "walls"
               [] ph = "walls" -> "plates" [] ph = "plates" -> "actors"
               [] ph = "actors" -> "doors"

Advance == IF turn < Count(phase) THEN turn' = turn + 1 /\ phase' = phase
           ELSE turn' = 1 /\ phase' = After(phase)

PlayerAreas(pl) == {AreaOf[pl[p]] : p \in Player}

\* ConnectAreas, when areaconnect has become ac.
ConnectAreas(ac) == areabyplayer' = ConnectedWith(ac, PlayerAreas(place))

------------------------------------------------------------------------------
Init ==
    /\ doors = [d \in Door |->
                   [ShutDoor EXCEPT !.elevlocked = \E e \in Elevator : d = Door2[e]]]
    /\ areaconnect = [pr \in Pair |-> 0]
    /\ elevator = [e \in Elevator |-> IdleElevator]
    /\ walls = [w \in Wall |-> [action |-> "npushed", leg |-> 1, state |-> 0]]
    /\ plates = [i \in Plate |-> NewPlate(i)]
    /\ TRIGGER = {}
    /\ place \in Starts
    /\ door_to_open = [a \in Enemy |-> NoDoor]
    /\ areabyplayer = PlayerAreas(place)
    /\ phase = "doors" /\ turn = 1
    /\ cabin = [e \in Elevator |-> "source"]
    /\ rushed = {}

------------------------------------------------------------------------------
(* MoveDoors *)
MoveDoor ==
    LET d == turn IN
    /\ phase = "doors" /\ d \in Door
    /\ CASE doors[d].action = "open" ->
              /\ doors' = DoorOpen(doors, d)
              /\ UNCHANGED <<areaconnect, areabyplayer>>
         [] doors[d].action = "opening" ->
              /\ doors' = DoorOpening(doors, d)
              /\ IF doors[d].position = 0
                 THEN /\ areaconnect' = Connect(areaconnect, Side[d])
                      /\ ConnectAreas(Connect(areaconnect, Side[d]))
                 ELSE UNCHANGED <<areaconnect, areabyplayer>>
         [] doors[d].action = "closing" ->
              /\ doors' = DoorClosing(doors, d)
              /\ IF doors[d].position <= 1
                 THEN /\ areaconnect' = Disconnect(areaconnect, Side[d])
                      /\ ConnectAreas(Disconnect(areaconnect, Side[d]))
                 ELSE UNCHANGED <<areaconnect, areabyplayer>>
         [] doors[d].action = "closed" ->
              UNCHANGED <<doors, areaconnect, areabyplayer>>
    /\ Advance
    /\ UNCHANGED <<elevator, walls, plates, TRIGGER, place, door_to_open, cabin, rushed>>

------------------------------------------------------------------------------
(* ProcessElevators *)
Elevating == phase = "elevators" /\ turn \in Elevator

TeleportPlayers(e) ==                                    \* mutant of Teleport
    LET toDest == elevator[e].state = "mtd"
        start == IF toDest THEN CellS[e] ELSE CellD[e]
        dest == IF toDest THEN CellD[e] ELSE CellS[e]
    IN /\ place' = [a \in Actor |-> IF a \in Player /\ place[a] = start THEN dest ELSE place[a]]
       /\ cabin' = [cabin EXCEPT ![e] = IF toDest THEN "dest" ELSE "source"]
\* Teleport: who stands in the cell the elevator left is in the other one.
Teleport(e) ==
    LET toDest == elevator[e].state = "mtd"
        start == IF toDest THEN CellS[e] ELSE CellD[e]
        dest == IF toDest THEN CellD[e] ELSE CellS[e]
    IN /\ place' = [a \in Actor |-> IF place[a] = start THEN dest ELSE place[a]]
       /\ cabin' = [cabin EXCEPT ![e] = IF toDest THEN "dest" ELSE "source"]

ElevatorWaits ==
    /\ Elevating /\ elevator[turn].ticcount > 0
    /\ elevator' = [elevator EXCEPT ![turn].ticcount = @ - 1]
    /\ UNCHANGED <<doors, place, cabin>>

ElevatorStops ==
    LET m == ExecuteElevatorStopActions(Machines(doors, elevator), turn) IN
    /\ Elevating /\ elevator[turn].ticcount = 0
    /\ elevator[turn].state \in {"mts", "mtd"}
    /\ doors' = m.doors /\ elevator' = m.elevator
    /\ Teleport(turn)

ElevatorStarts ==
    LET m == CheckElevatorStart(Machines(doors, elevator), turn) IN
    /\ Elevating /\ elevator[turn].ticcount = 0
    /\ elevator[turn].state = "doorclosing"
    /\ elevator' = m.elevator
    /\ UNCHANGED <<doors, place, cabin>>

ElevatorRests ==
    /\ Elevating /\ elevator[turn].ticcount = 0
    /\ elevator[turn].state \in {"ras", "rad"}
    /\ UNCHANGED <<doors, elevator, place, cabin>>

ProcessElevator ==
    /\ ElevatorWaits \/ ElevatorStops \/ ElevatorStarts \/ ElevatorRests
    /\ Advance
    /\ UNCHANGED <<areaconnect, areabyplayer, walls, plates, TRIGGER, door_to_open, rushed>>

------------------------------------------------------------------------------
(* MovePWalls and TriggerStuff *)

\* The effect of a step that may connect areas: ConnectAreas follows.
TakeEffect(m) ==
    /\ doors' = m.doors /\ walls' = m.walls /\ areaconnect' = m.areaconnect
    /\ IF m.areaconnect # areaconnect THEN ConnectAreas(m.areaconnect) ELSE UNCHANGED areabyplayer

MovePWall ==
    /\ phase = "walls" /\ turn \in Wall
    /\ TakeEffect(IF walls[turn].action = "pushing"
                  THEN WallPushing(Effect(doors, walls, areaconnect), turn)
                  ELSE Effect(doors, walls, areaconnect))
    /\ Advance
    /\ UNCHANGED <<elevator, plates, TRIGGER, place, door_to_open, cabin, rushed>>

PlayerOn(i) == \E p \in Player : place[p] = PlateAt[i]

\* A plate at rest, out of commission, or done and still stood on.
PlateRests(i) ==
    /\ i \notin TRIGGER \/ plates[i].complete \/ (plates[i].done /\ PlayerOn(i))
    /\ TRIGGER' = IF plates[i].complete /\ ~PlayerOn(i) THEN TRIGGER \ {i} ELSE TRIGGER
    /\ UNCHANGED <<plates, doors, walls, areaconnect, areabyplayer>>

PlateRearms(i) ==
    /\ i \in TRIGGER /\ ~plates[i].complete /\ plates[i].done /\ ~PlayerOn(i)
    /\ plates' = [plates EXCEPT ![i] = RearmedPlate(@)]
    /\ TRIGGER' = TRIGGER \ {i}
    /\ UNCHANGED <<doors, walls, areaconnect, areabyplayer>>

PlateRuns(i) ==
    /\ i \in TRIGGER /\ ~plates[i].complete /\ ~plates[i].done
    /\ TakeEffect(RunList(Effect(doors, walls, areaconnect), i, plates[i].list))
    /\ plates' = [plates EXCEPT ![i] = PlateAfter(ListAfter(i, @.list))]
    /\ UNCHANGED TRIGGER

TriggerStuff ==
    /\ phase = "plates" /\ turn \in Plate
    /\ PlateRests(turn) \/ PlateRearms(turn) \/ PlateRuns(turn)
    /\ Advance
    /\ UNCHANGED <<elevator, place, door_to_open, cabin, rushed>>

------------------------------------------------------------------------------
(* DoActor *)
Acting == phase = "actors" /\ turn \in Actor

NextTo(x, y) ==
    \/ {x, y} \in Passage
    \/ \E w \in Wall : {x, y} = WallPassage[w] /\ (walls[w].leg > 1 \/ walls[w].action = "pushed")

\* CheckDoors: no movement into the tile of a door that is not open.  (Who is in
\* a door's tile is there while it is open: NobodyShutIn.)
CanWalk(ds, a, x) ==
    \/ x = place[a]
    \/ /\ NextTo(place[a], x)
       /\ \A d \in Door : Tile[d] \in {x, place[a]} => ds[d].action = "open"
       /\ x \in DoorTile => Cardinality({b \in Actor : place[b] = x}) < TileHolds

\* MoveActor and the end of DoActor: actorat of the tile left and of the tile
\* the actor is in.
Marked(ds, a, x) ==
    [d \in Door |->
        IF x = Tile[d] THEN [ds[d] EXCEPT !.at = a]
        ELSE IF ds[d].at = a THEN [ds[d] EXCEPT !.at = Null]
        ELSE ds[d]]

\* A door that was told to open and that MoveDoors has not moved yet.
JustTold(ds, d) == ds[d].action = "opening" /\ ds[d].position = 0

\* The doors of the elevator that door d belongs to.
ElevatorDoors(d) ==
    UNION {{Door1[e], Door2[e]} : e \in {f \in Elevator : d \in {Door1[f], Door2[f]}}}

\* A player faces door d and has pressed use (Cmd_Use).
UseOfDoor(m, d) ==
    LET used == Machines(OperateDoor(m.doors, d, TRUE), m.elevator)
    IN IF ElevatorDoors(d) = {} THEN used ELSE OperateElevatorDoor(used, d)

\* What a player can bring about by pressing use where it stands: nothing, a
\* door, an elevator switch that is not flipped, a push wall.
Uses(p) ==
    LET m == Machines(doors, elevator)
        Keep(n) == [doors |-> n.doors, elevator |-> n.elevator,
                    walls |-> walls, areaconnect |-> areaconnect]
        Push(w) == LET n == OperatePushWall(Effect(doors, walls, areaconnect), w)
                   IN [doors |-> doors, elevator |-> elevator,
                       walls |-> n.walls, areaconnect |-> n.areaconnect]
        Facing(d) == {place[p], Tile[d]} \in Passage
    IN {Keep(m)}
       \cup {Keep(UseOfDoor(m, d)) : d \in {d \in Door : Facing(d)}}
       \cup {Keep(OperateElevatorSwitch(m, e, "source")) :
                e \in {e \in Elevator : place[p] = CellS[e] /\ "source" \notin elevator[e].flipped}}
       \cup {Keep(OperateElevatorSwitch(m, e, "dest")) :
                e \in {e \in Elevator : place[p] = CellD[e] /\ "dest" \notin elevator[e].flipped}}
       \cup {Push(w) : w \in {w \in Wall : place[p] = WallAt[w]}}

\* A player presses use or not, then moves or not; a plate it is on is triggered.
PlayerActs(p) ==
    \E m \in Uses(p), x \in Place :
        /\ CanWalk(m.doors, p, x)
        /\ doors' = Marked(m.doors, p, x)
        /\ elevator' = m.elevator /\ walls' = m.walls /\ areaconnect' = m.areaconnect
        /\ place' = [place EXCEPT ![p] = x]
        /\ IF m.areaconnect # areaconnect THEN ConnectAreas(m.areaconnect) ELSE UNCHANGED areabyplayer
        /\ TRIGGER' = TRIGGER \cup {i \in Plate : PlateAt[i] = x}
        /\ UNCHANGED <<plates, door_to_open, cabin>>

\* M_CheckDoor: an enemy that waits for a door asks for it again, whatever has
\* happened to the door's locks, and does nothing else until it is open.
EnemyWaits(a) ==
    LET ds == LinkedOpenDoor(doors, door_to_open[a]) IN
    /\ door_to_open[a] # NoDoor
    /\ ds[door_to_open[a]].action # "open"
    /\ doors' = ds
    /\ UNCHANGED <<elevator, place, door_to_open>>

\* An enemy whose door, if it waited for one, is open: it walks or stays.
EnemyWalks(a) ==
    LET d == door_to_open[a]
        ds == IF d = NoDoor THEN doors ELSE LinkedOpenDoor(doors, d)
    IN \E x \in Place :
        /\ d # NoDoor => ds[d].action = "open"
        /\ CanWalk(ds, a, x)
        /\ doors' = Marked(ds, a, x)
        /\ place' = [place EXCEPT ![a] = x]
        /\ door_to_open' = [door_to_open EXCEPT ![a] = NoDoor]
        /\ UNCHANGED elevator

\* CheckDoors: an enemy meets a door that is neither open nor locked.
EnemyMeetsDoor(a) ==
    \E d \in Door :
        LET told == Machines(LinkedOpenDoor(doors, d), elevator)
            m == IF ElevatorDoors(d) = {} THEN told ELSE OperateElevatorDoor(told, d)
        IN /\ door_to_open[a] = NoDoor
           /\ {place[a], Tile[d]} \in Passage
           /\ doors[d].action # "open" /\ ~doors[d].elevlocked
           /\ doors' = Marked(m.doors, a, place[a])
           /\ elevator' = m.elevator
           /\ door_to_open' = [door_to_open EXCEPT ![a] = d]
           /\ UNCHANGED place

\* Doors that were told to open and, before MoveDoors has moved them, to close.
Rushed == {d \in Door : JustTold(doors, d) /\ doors'[d].action = "closing"}

DoActor ==
    /\ Acting
    /\ \/ turn \in Player /\ PlayerActs(turn)
       \/ /\ turn \in Enemy
          /\ EnemyWaits(turn) \/ EnemyWalks(turn) \/ EnemyMeetsDoor(turn)
          /\ UNCHANGED <<areaconnect, areabyplayer, walls, plates, TRIGGER, cabin>>
    /\ rushed' = rushed \cup Rushed
    /\ Rushed # {} => Cardinality(rushed) < MaxRushed
    /\ Advance

Next == MoveDoor \/ ProcessElevator \/ MovePWall \/ TriggerStuff \/ DoActor

Spec == Init /\ [][Next]_vars

\* UpdateGameObjects is called again and again: the loops come round forever.
\* (The same as WF_vars(Next), since every step of Next moves the tic on.)
FairSpec == Spec /\ []<>(phase = "doors") /\ []<>(phase = "actors")

------------------------------------------------------------------------------
LevelTypeOK ==
    /\ doors \in [Door -> DoorState]
    /\ areaconnect \in [Pair -> 0 .. ByteSize - 1]
    /\ elevator \in [Elevator -> ElevatorState]
    /\ \A w \in Wall : walls[w] \in WallState(w)
    /\ \A i \in Plate : \A k \in DOMAIN PlateAction[i] :
           plates[i].list[k].ticcount \in 0 .. PlateAction[i][k].tictime
    /\ TRIGGER \subseteq Plate
    /\ place \in [Actor -> Place]
    /\ door_to_open \in [Enemy -> Door \cup {NoDoor}]
    /\ areabyplayer \subseteq Area
    /\ phase \in Phases /\ turn \in 1 .. Count(phase)
    /\ cabin \in [Elevator -> {"source", "dest"}]
    /\ rushed \subseteq Door

\* The legs of the push walls, and those that have been begun.
Pushes == UNION {{w} \X DOMAIN WallPath[w] : w \in Wall}
PushesBegun(ws) ==
    {push \in Pushes :
        LET w == push[1] IN push[2] < ws[w].leg + (IF ws[w].action = "npushed" THEN 0 ELSE 1)}

\* The doors out of position 0 and the pushes of walls between two areas.
Ways(pr) ==
    Cardinality({d \in Door : Side[d] = pr /\ doors[d].position > 0})
        + Cardinality({push \in PushesBegun(walls) : pr \in WallPath[push[1]][push[2]].connects})

\* The header of rt_door.c, "Areaconnect is incremented/decremented by each
\* door.  If >0 they connect": two areas have as many connections as ways.  A door
\* that is used twice before MoveDoors moves it breaks this: DoorClosing takes away
\* what DoorOpening has never added, and the byte wraps.
ConnectionsCountDoors == \A pr \in Pair : areaconnect[pr] = Ways(pr)

\* Nothing but that miscounts: the count of two areas is right until an actor turns
\* one of their doors round before it has moved, whatever clocks, plates, elevators,
\* switches and waiting enemies tell these doors, and however wrong others are.
OnlyRushMiscounts ==
    \A pr \in Pair : (\A d \in rushed : Side[d] # pr) => areaconnect[pr] = Ways(pr)

\* The same header, "An area is true if it connects with the player's current
\* spor": actors and statics are woken by areabyplayer.  It may lag in the tic
\* an elevator stops, until its door has moved.  Nothing is said of it once a door
\* was turned round before it moved, be it the one Teleport has opened: by a count
\* that is wrong it may go wrong as well.
AreasFollowPlayers ==
    (/\ phase = "actors" /\ rushed = {}
     /\ \A e \in Elevator : \A d \in {Door1[e], Door2[e]} : ~JustTold(doors, d))
    => areabyplayer = ConnectedWith(areaconnect, PlayerAreas(place))

\* The cell without the cabin has its door shut and locked, and while the
\* elevator moves both cells have: nobody walks into the shaft.
ShaftIsShut ==
    \A e \in Elevator :
        LET Shut(d) == doors[d].action = "closed" /\ doors[d].elevlocked
        IN /\ cabin[e] = "source" => Shut(Door2[e])
           /\ cabin[e] = "dest" => Shut(Door1[e])
           /\ elevator[e].state \in {"mts", "mtd"} => Shut(Door1[e]) /\ Shut(Door2[e])

\* Who is in a cell is in the cabin: Teleport leaves nobody behind.
NobodyLeftBehind ==
    \A e \in Elevator, a \in Actor :
        /\ place[a] = CellS[e] => cabin[e] = "source"
        /\ place[a] = CellD[e] => cabin[e] = "dest"

\* "don't close on anything solid" (DoorUnBlocked): nobody stands in the tile
\* of a door that is shut or closing.
NobodyShutIn ==
    \A d \in Door : doors[d].action \in {"closing", "closed"} =>
        \A a \in Actor : place[a] # Tile[d]

\* An elevator that has accepted a request arrives, and opens its door there,
\* unless an enemy opens the door it is to leave again, or somebody then stands
\* in it: an enemy that waits for a door asks for it although it has been locked
\* in the meantime (M_CheckDoor).
RequestedElevatorArrives ==
    LET Held(d) == (\E a \in Enemy : door_to_open[a] = d) \/ (\E a \in Actor : place[a] = Tile[d])
        Opens(d) == doors[d].action \in {"opening", "open"}
    IN \A e \in Elevator :
        /\ elevator[e].nextaction = "mtd" ~>
               (cabin[e] = "dest" /\ Opens(Door2[e])) \/ Held(Door1[e])
        /\ elevator[e].nextaction = "mts" ~>
               (cabin[e] = "source" /\ Opens(Door1[e])) \/ Held(Door2[e])
=============================================================================
