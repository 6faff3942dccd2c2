----------------------------- MODULE Elevators -----------------------------
(* The elevators of a level (rott/rt_door.c).  An elevator is a pair of cells,
   at its source and at its destination, each behind a door; it moves by
   closing and locking the door of the cell it is at, waiting, and moving who
   stands in that cell to the other one.  Nothing says where the cabin is but
   the state and doorclosing.                                                 *)
EXTENDS Doors

CONSTANTS
    NumElevators,   \* _numelevators
    Door1, Door2,   \* Door1[e], Door2[e]: the doors at source and destination
    TripTime        \* SetElevatorOperationTime

Elevator == 1 .. NumElevators

ASSUME ElevatorAssumption ==
    /\ NumElevators \in Nat /\ TripTime \in Nat
    /\ Door1 \in [Elevator -> Door] /\ Door2 \in [Elevator -> Door]
    \* A door belongs to one elevator (eindex) and is a doorway of its own.
    /\ \A e, f \in Elevator : /\ Door1[e] # Door2[f]
                              /\ e # f => Door1[e] # Door1[f] /\ Door2[e] # Door2[f]
    /\ \A e \in Elevator : Group[Door1[e]] = {Door1[e]} /\ Group[Door2[e]] = {Door2[e]}
    /\ \A d \in Door : \A e \in Elevator :
           (Door1[e] \in Group[d] \/ Door2[e] \in Group[d]) => d \in {Door1[e], Door2[e]}

VARIABLE elevator   \* ELEVATOR, and which of its two switches are flipped

ElevatorState == [state : {"ras", "rad", "mts", "mtd", "doorclosing"},
                  nextaction : {"none", "mts", "mtd"},
                  doortoopen : Door \cup {NoDoor}, doorclosing : Door \cup {NoDoor},
                  ticcount : 0 .. TripTime + OPENTICS,
                  flipped : SUBSET {"source", "dest"}]

\* SetupElevators: ready at the source.
IdleElevator == [state |-> "ras", nextaction |-> "none", doortoopen |-> NoDoor,
                 doorclosing |-> NoDoor, ticcount |-> 0, flipped |-> {}]

\* A call changes doors and elevators: a pair of them, before and after.
Machines(ds, es) == [doors |-> ds, elevator |-> es]

\* The door an elevator leaves behind it.
LeftDoor(e, action) == IF action = "mtd" THEN Door1[e] ELSE Door2[e]

CanSetNextAction(m, e, action) == DoorReadyToClose(m.doors, LeftDoor(e, action))

SetNextActionUnlocked(m, e, action) ==                   \* mutant of SetNextAction
    LET dn == LeftDoor(e, action) IN
    IF ~CanSetNextAction(m, e, action) THEN m
    ELSE Machines(CloseDoor(m.doors, {dn}),
                  [m.elevator EXCEPT ![e].state = "doorclosing", ![e].doorclosing = dn,
                                     ![e].nextaction = action])
\* SetNextAction: close the door, lock it, and move when it is shut.
SetNextAction(m, e, action) ==
    LET dn == LeftDoor(e, action) IN
    IF ~CanSetNextAction(m, e, action) THEN m
    ELSE Machines([CloseDoor(m.doors, {dn}) EXCEPT ![dn].elevlocked = TRUE],
                  [m.elevator EXCEPT ![e].state = "doorclosing",
                                     ![e].doorclosing = dn,
                                     ![e].nextaction = action])

\* OperateElevatorDoor: somebody wants door d, so the elevator comes there.
OperateElevatorDoor(m, d) ==
    LET e == CHOOSE e \in Elevator : d \in {Door1[e], Door2[e]}
        ev == m.elevator[e]
        wanted == IF d = Door1[e] THEN "mts" ELSE "mtd"
        awayfrom == IF d = Door1[e] THEN "rad" ELSE "ras"
    IN IF /\ \/ ev.state = awayfrom
             \/ ev.state = "doorclosing" /\ ev.doorclosing # d
          /\ ev.nextaction # wanted
       THEN SetNextAction(m, e, wanted) ELSE m

\* OperateElevatorSwitch: the switch inside a cell sends the elevator to the
\* other one, at once.
OperateElevatorSwitch(m, e, cell) ==
    LET action == IF cell = "source" THEN "mtd" ELSE "mts"
        next == SetNextAction(m, e, action)
    IN IF m.elevator[e].state \in {"mts", "mtd"} \/ ~CanSetNextAction(m, e, action)
       THEN m
       ELSE [next EXCEPT !.elevator[e].ticcount = 0,
                         !.elevator[e].flipped = @ \cup {cell}]

ExecuteElevatorStopActionsShut(m, e) ==                  \* mutant of the next
    LET ev == m.elevator[e]
        start == IF ev.state = "mtd" THEN "source" ELSE "dest"
    IN Machines([m.doors EXCEPT ![ev.doortoopen].elevlocked = FALSE],
                [m.elevator EXCEPT ![e] = [ev EXCEPT
                    !.state = "doorclosing", !.doorclosing = ev.doortoopen,
                    !.flipped = @ \ {start}, !.ticcount = OPENTICS,
                    !.doortoopen = NoDoor]])
\* ExecuteElevatorStopActions without the move of those inside.
ExecuteElevatorStopActions(m, e) ==
    LET ev == m.elevator[e]
        start == IF ev.state = "mtd" THEN "source" ELSE "dest"
    IN Machines(OpenDoor([m.doors EXCEPT ![ev.doortoopen].elevlocked = FALSE],
                         {ev.doortoopen}),
                [m.elevator EXCEPT ![e] = [ev EXCEPT
                    !.state = "doorclosing", !.doorclosing = ev.doortoopen,
                    !.flipped = @ \ {start}, !.ticcount = OPENTICS,
                    !.doortoopen = NoDoor]])

CheckElevatorStartReady(m, e) ==                         \* mutant of CheckElevatorStart
    LET ev == m.elevator[e]
    IN IF m.doors[ev.doorclosing].action # "closed" THEN m
       ELSE [m EXCEPT !.elevator[e] =
                [ev EXCEPT !.state = IF ev.doorclosing = Door1[e] THEN "ras" ELSE "rad",
                           !.doorclosing = NoDoor]]
\* CheckElevatorStart: the door is shut; move, or be ready here.
CheckElevatorStart(m, e) ==
    LET ev == m.elevator[e]
        started == [ev EXCEPT !.state = ev.nextaction, !.nextaction = "none",
                              !.doorclosing = NoDoor, !.ticcount = TripTime,
                              !.doortoopen = IF ev.nextaction = "mtd"
                                             THEN Door2[e] ELSE Door1[e]]
        ready == [ev EXCEPT !.state = IF ev.doorclosing = Door1[e] THEN "ras" ELSE "rad",
                            !.doorclosing = NoDoor]
    IN IF m.doors[ev.doorclosing].action # "closed" THEN m
       ELSE [m EXCEPT !.elevator[e] = IF ev.nextaction # "none" THEN started ELSE ready]
=============================================================================
