---------------------------- MODULE MCRottLevel ----------------------------
(* A small level of two wings.  In the east wing an elevator joins two halls:
   areas 1 and 3, its cells are areas 2 and 4.  In the west wing a doorway of
   two DF_MULTI doors and two push walls lie between areas 5 and 6; a plate in
   area 5 opens the doorway and starts the second wall, which is locked.  Who
   is not in play is in a closet.                                           *)
EXTENDS RottLevelInv

CONSTANTS hallS, hallD, cellS, cellD, room, far, vault, plate, closet, t1, t2, t3, t4

MCGroup == << {1}, {2}, {3, 4}, {3, 4} >>
MCSide == << {1, 2}, {3, 4}, {5, 6}, {5, 6} >>
MCPlace == {hallS, hallD, cellS, cellD, room, far, vault, plate, closet, t1, t2, t3, t4}
MCAreaOf == [x \in MCPlace |-> CASE x \in {hallS, t1} -> 1
                                 [] x \in {cellS} -> 2
                                 [] x \in {hallD, t2} -> 3
                                 [] x \in {cellD} -> 4
                                 [] x \in {room, plate, t3, t4} -> 5
                                 [] x \in {far, closet} -> 6
                                 [] x = vault -> 7]
MCTile == << t1, t2, t3, t4 >>
MCPassage == {{hallS, t1}, {t1, cellS}, {cellD, t2}, {t2, hallD},
              {room, t3}, {t3, far}, {room, t4}, {t4, far}, {room, plate}}
MCDoor1 == << 1 >>
MCDoor2 == << 2 >>
MCCellS == << cellS >>
MCCellD == << cellD >>
MCPlateAction ==
    << << [action |-> "open", swapaction |-> "open", whichobj |-> 3, tictime |-> 1],
          [action |-> "push", swapaction |-> "none", whichobj |-> 2, tictime |-> 0] >> >>
MCWallPath == << << [connects |-> {{5, 6}}] >>,
                << [connects |-> {{5, 6}}], [connects |-> {{5, 7}}] >> >>
MCWallPassage == << {room, far}, {far, vault} >>
MCPlateAt == << plate >>
MCWallAt == << far, room >>

\* Two players and an enemy at the elevator.
MCAtElevator == { <<hallS, hallD, hallD>> }
\* Two players at the doorway, or a player and an enemy there.
MCAtDoorway == { <<room, room, closet>>, <<closet, room, far>> }
MCStarts == MCAtElevator \cup MCAtDoorway

ASSUME MapAssumption == WellBuilt /\ Countable /\ AreasApart
=============================================================================
