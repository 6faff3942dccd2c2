---------------------------- MODULE RottLevelInv ----------------------------
(***************************************************************************)
(* An inductive invariant of RottLevel, and what it needs of the map.  Two *)
(* things are remembered in several places at once: where the cabin of an  *)
(* elevator is (its state, the locks of its doors, who is in its cells,    *)
(* the doors enemies wait for) and who is in the tile of a door (actorat   *)
(* holds one of them).                                                     *)
(***************************************************************************)
EXTENDS RottLevel

-----------------------------------------------------------------------------
(* What the map must be like                                               *)

\* The doors of a doorway have the same doorway; it is not entered from a door.
DoorwaysAgree == \A d \in Door : \A g \in Group[d] : Group[g] = Group[d]
DoorsApart == \A d, g \in Door : {Tile[d], Tile[g]} \notin Passage

\* A cell is a place of its own, and its door is the only way into it.
Cells == {CellS[e] : e \in Elevator} \cup {CellD[e] : e \in Elevator}
CellsApart ==
    /\ Cells \cap DoorTile = {}
    /\ \A e, f \in Elevator : /\ CellS[e] # CellD[f]
                              /\ e # f => CellS[e] # CellS[f] /\ CellD[e] # CellD[f]
CellsWalledIn ==
    /\ \A e \in Elevator, x \in Place : /\ {x, CellS[e]} \in Passage => x = Tile[Door1[e]]
                                        /\ {x, CellD[e]} \in Passage => x = Tile[Door2[e]]
    /\ \A w \in Wall : WallPassage[w] \cap Cells = {}

\* Nobody starts in a door or where the cabin is not.
StartsOutside ==
    \A pl \in Starts, a \in Actor : pl[a] \notin DoorTile /\ \A e \in Elevator : pl[a] # CellD[e]

\* No plate acts on the door of an elevator.
PlatesSpareElevators ==
    \A i \in Plate : \A k \in DOMAIN PlateAction[i] :
        PlateAction[i][k].action # "push" => ElevatorDoors(PlateAction[i][k].whichobj) = {}

WellBuilt == DoorwaysAgree /\ DoorsApart /\ CellsApart /\ CellsWalledIn /\ StartsOutside
                 /\ PlatesSpareElevators

-----------------------------------------------------------------------------
(* Types                                                                   *)

\* A plate's list: an action and the one it is exchanged with act on the same thing.
PlateDoes == {"open", "close", "push", "none"}
PlateEntry == [action : PlateDoes, swapaction : PlateDoes, ticcount : Nat, triggered : BOOLEAN]
PlateState == [complete : BOOLEAN, done : BOOLEAN, list : Seq(PlateEntry)]
ListOK(i, list) ==
    /\ DOMAIN list = DOMAIN PlateAction[i]
    /\ \A k \in DOMAIN list :
        /\ {list[k].action, list[k].swapaction} \subseteq
               {PlateAction[i][k].action, PlateAction[i][k].swapaction}
        /\ list[k].ticcount <= PlateAction[i][k].tictime

TypeInv ==
    /\ LevelTypeOK
    /\ walls = [w \in Wall |-> walls[w]]
    /\ plates \in [Plate -> PlateState]
    /\ \A i \in Plate : ListOK(i, plates[i].list)

-----------------------------------------------------------------------------
(* Doors and who is in them                                                *)

Opens(ds, d) == ds[d].action \in {"open", "opening"}

\* The doors of a doorway open and close together.
Together(ds) == \A d \in Door : \A g \in Group[d] : Opens(ds, d) => Opens(ds, g)

\* When an actor had its last turn, among the actors.
LastTurn(a) == IF phase = "actors" /\ a < turn THEN a + NumActors ELSE a

\* A door with somebody in its tile is open, and actorat holds the one of them
\* who had the last turn, so that it is not cleared while another one is there.
Marks ==
    \A d \in Door, b \in Actor : place[b] = Tile[d] =>
        /\ doors[d].action = "open"
        /\ doors[d].at \in Actor
        /\ place[doors[d].at] = Tile[d]
        /\ LastTurn(b) <= LastTurn(doors[d].at)

DoorsInv == Together(doors) /\ Marks

-----------------------------------------------------------------------------
(* Elevators                                                               *)

Shut(ds, d) == ds[d].action = "closed" /\ ds[d].elevlocked

\* The door where the cabin is, and the other one.
DoorHere(e, cab) == IF cab = "source" THEN Door1[e] ELSE Door2[e]
DoorThere(e, cab) == IF cab = "source" THEN Door2[e] ELSE Door1[e]

\* The machine of an elevator knows where the cabin is.
CabinOK(ds, ev, e, cab) ==
    /\ Shut(ds, DoorThere(e, cab))
    /\ cab = "source" => ev.state \in {"ras", "mtd", "doorclosing"}
    /\ cab = "dest" => ev.state \in {"rad", "mts", "doorclosing"}
    /\ ev.state = "doorclosing" => ev.doorclosing = DoorHere(e, cab)
    /\ ev.state \in {"mts", "mtd"} =>
           Shut(ds, DoorHere(e, cab)) /\ ev.doortoopen = DoorThere(e, cab)
    /\ ev.nextaction # "none" =>
           /\ ev.state = "doorclosing" /\ ds[DoorHere(e, cab)].elevlocked
           /\ ev.nextaction = IF cab = "source" THEN "mtd" ELSE "mts"

CabinsOK == \A e \in Elevator : CabinOK(doors, elevator[e], e, cabin[e])

\* What an enemy that waits for the door of an elevator has made of it, and the
\* loops and players since: it has not been shut again.
Awaited(a, d) ==
    doors[d].action \in
        IF (phase = "doors" /\ turn <= d) \/ (phase = "actors" /\ turn > a) THEN {"opening"}
        ELSE IF phase = "actors" THEN {"opening", "open", "closing"}
        ELSE {"opening", "open"}

WaitInv ==
    \A a \in Enemy : door_to_open[a] # NoDoor =>
        /\ place[a] \notin DoorTile
        /\ ElevatorDoors(door_to_open[a]) # {} => Awaited(a, door_to_open[a])

ShaftInv == CabinsOK /\ NobodyLeftBehind /\ WaitInv

LevelInv == TypeInv /\ DoorsInv /\ ShaftInv

-----------------------------------------------------------------------------
(* The counts of the connections                                           *)

\* Entry k of plate i is one that does act to door g, now or after an exchange.
Tells(i, k, act, g) ==
    /\ k \in DOMAIN PlateAction[i] /\ PlateAction[i][k].action # "push"
    /\ act \in {PlateAction[i][k].action, PlateAction[i][k].swapaction}
    /\ g \in Group[PlateAction[i][k].whichobj]

\* A door that an entry closes is opened by no other entry, so no plate closes a
\* door that another one has opened in the same tic.
PlatesAgree ==
    \A i, j \in Plate : \A k \in DOMAIN PlateAction[i], l \in DOMAIN PlateAction[j], g \in Door :
        Tells(i, k, "close", g) /\ Tells(j, l, "open", g) => i = j /\ k = l

\* A byte is enough for the connections there can be between two areas.
CountsFit ==
    \A pr \in Pair :
        Cardinality({d \in Door : Side[d] = pr})
            + Cardinality({push \in Pushes : pr \in WallPath[push[1]][push[2]].connects}) < ByteSize

Countable == PlatesAgree /\ CountsFit

\* A door that closes has left the position in which it was counted as shut,
\* unless it is one of R: those that were turned round there.
PositionsOK(ds, R) ==
    \A d \in Door : /\ ds[d].action = "open" => ds[d].position > 0
                    /\ ds[d].action = "closing" => ds[d].position > 0 \/ d \in R
                    /\ ds[d].action = "closed" => ds[d].position = 0

\* Who has told a door to open that has not moved yet: none of the loops but that
\* of the actors tells it to close.  In the loop of the doors, one of its doorway
\* may be open before it.
ToldInv ==
    \A g \in Door : JustTold(doors, g) =>
        /\ phase = "doors" => turn <= g
        /\ \A d \in Group[g] : doors[d].action = "open" => phase = "doors" /\ turn > d
        /\ phase \in {"elevators", "walls"} => ElevatorDoors(g) # {}
        /\ phase = "plates" /\ ElevatorDoors(g) = {} =>
               \E i \in Plate : i < turn /\ \E k \in DOMAIN PlateAction[i] : Tells(i, k, "open", g)

CountInv == OnlyRushMiscounts /\ PositionsOK(doors, rushed) /\ ToldInv

-----------------------------------------------------------------------------
(* The areas the players see                                               *)

\* What a wall that has left its first tile has connected: a locked one has gone
\* on from there at once.
Made(w) ==
    UNION {WallPath[w][l].connects :
              l \in {k \in DOMAIN WallPath[w] : k = 1 \/ (k = 2 /\ w \in WallLock)}}

\* Places next to each other are in one area, or there is a door between them that
\* connects theirs, or a wall was that has.
AreasApart ==
    /\ \A x, y \in Place : {x, y} \in Passage =>
           \/ AreaOf[x] = AreaOf[y]
           \/ \E d \in Door : Tile[d] \in {x, y} /\ Side[d] = {AreaOf[x], AreaOf[y]}
    /\ \A w \in Wall, x, y \in Place : {x, y} = WallPassage[w] =>
           \A S \in SUBSET Area :
               /\ AreaOf[x] \in S
               /\ \A pr \in Made(w) : pr \cap S # {} => pr \subseteq S
               => AreaOf[y] \in S

\* A locked wall rests only where it began, and a wall is done only at the end.
GoesOn(pw, w) == /\ pw.action = "pushed" => pw.leg = Len(WallPath[w])
                 /\ w \in WallLock /\ pw.leg > 1 => pw.action # "npushed"
WallsGoOn(ws) == \A w \in Wall : GoesOn(ws[w], w)

\* areabyplayer is what ConnectAreas would make of it now, or a door is about to
\* move that will bring it up to date: an elevator's, which has carried somebody.
Followed == areabyplayer = ConnectedWith(areaconnect, PlayerAreas(place))
AboutToMove == \E g \in Door : ElevatorDoors(g) # {} /\ JustTold(doors, g)

AreasInv == WallsGoOn(walls) /\ (rushed = {} => Followed \/ AboutToMove)
=============================================================================
