------------------------------ MODULE Triggers ------------------------------
(* Push walls and touch plates of a level (rott/rt_door.c).

   A push wall is pushed leg by leg along its ICONARROWS; each push connects
   the areas around the wall's tile for good.  A touch plate has a list of
   actions on doors and push walls; each runs once per trigger, after its own
   delay, and is then exchanged with its swapaction.                          *)
EXTENDS Doors, Sequences

CONSTANTS
    NumWalls,       \* pwallnum
    WallPath,       \* WallPath[w]: its legs, each with the areas it connects
    WallLock,       \* push walls with a lock: only a plate starts them
    PushTics,       \* 0x20000 / speed, tics of a push
    NumPlates,      \* lasttouch
    PlateAction     \* PlateAction[i]: its actions, as SetupLinks made them

Wall == 1 .. NumWalls
Plate == 1 .. NumPlates

ASSUME TriggerAssumption ==
    /\ NumWalls \in Nat /\ NumPlates \in Nat /\ PushTics \in Nat \ {0}
    /\ WallPath \in [Wall -> Seq([connects : SUBSET Pair])]
    /\ \A w \in Wall : WallPath[w] # <<>>
    /\ WallLock \subseteq Wall
    /\ \A i \in Plate : PlateAction[i] \in Seq([action : STRING, swapaction : STRING,
                                               whichobj : Nat, tictime : Nat])
    /\ \A i \in Plate : \A k \in DOMAIN PlateAction[i] :
           LET a == PlateAction[i][k] IN
           /\ a.tictime \in Nat
           /\ \/ a.action \in {"open", "close"} /\ a.whichobj \in Door
                                                /\ a.swapaction \in {"open", "close"}
              \/ a.action = "push" /\ a.whichobj \in Wall /\ a.swapaction = "none"

VARIABLES
    walls,      \* pwallobjlist: action, the leg it is on, state (tics left)
    plates,     \* touchplate: complete, done and the list of actions
    TRIGGER     \* plates and switches that have been triggered

WallState(w) == [action : {"npushed", "pushing", "pushed"},
                 leg : 1 .. Len(WallPath[w]), state : 0 .. PushTics]

\* A call changes doors, walls and areaconnect.
Effect(ds, ws, ac) == [doors |-> ds, walls |-> ws, areaconnect |-> ac]

\* ConnectPushWall, for every pair of areas the leg lies between.
ConnectPushWall(ac, prs) ==
    [pr \in DOMAIN ac |-> IF pr \in prs THEN (ac[pr] + 1) % ByteSize ELSE ac[pr]]

\* OperatePushWall and ActivatePushWall: a wall at rest starts a push.
ActivatePushWall(m, w) ==
    IF m.walls[w].action # "npushed" THEN m
    ELSE Effect(m.doors,
                [m.walls EXCEPT ![w] = [@ EXCEPT !.action = "pushing", !.state = PushTics]],
                ConnectPushWall(m.areaconnect, WallPath[w][m.walls[w].leg].connects))

OperatePushWall(m, w) == IF w \in WallLock THEN m ELSE ActivatePushWall(m, w)

\* WallPushing: at the end of a leg a locked wall goes on, another one waits to
\* be pushed again; at the end of the path it is an ordinary wall.
WallPushing(m, w) ==
    LET pw == m.walls[w]
        last == pw.leg = Len(WallPath[w])
        arrived == [m EXCEPT !.walls[w].state = 0, !.walls[w].action = "npushed",
                             !.walls[w].leg = @ + 1]
    IN IF pw.state > 1 THEN [m EXCEPT !.walls[w].state = @ - 1]
       ELSE IF last THEN [m EXCEPT !.walls[w].state = 0, !.walls[w].action = "pushed"]
       ELSE IF w \in WallLock THEN ActivatePushWall(arrived, w)
       ELSE arrived

Run(m, action, obj) ==
    CASE action = "open"  -> [m EXCEPT !.doors = LinkedOpenDoor(@, obj)]
      [] action = "close" -> [m EXCEPT !.doors = LinkedCloseDoor(@, obj)]
      [] action = "push"  -> ActivatePushWall(m, obj)

\* SetupLinks: what a plate's list starts as.
NewPlate(i) ==
    [complete |-> FALSE, done |-> FALSE,
     list |-> [k \in DOMAIN PlateAction[i] |->
                  [action |-> PlateAction[i][k].action,
                   swapaction |-> PlateAction[i][k].swapaction,
                   ticcount |-> PlateAction[i][k].tictime, triggered |-> FALSE]]]

Waiting(a) == a.action # "none" /\ ~a.triggered

\* The pass of TriggerStuff over a plate's list, in the list's order.
RunList(m, i, list) ==
    LET After[k \in 0 .. Len(list)] ==
            IF k = 0 THEN m
            ELSE LET before == After[k - 1] IN
                 IF Waiting(list[k]) /\ list[k].ticcount = 0
                 THEN Run(before, list[k].action, PlateAction[i][k].whichobj)
                 ELSE before
    IN After[Len(list)]

ListAfterZero(i, list) ==                                \* mutant of ListAfter
    [k \in DOMAIN list |-> IF Waiting(list[k]) THEN [list[k] EXCEPT !.ticcount = @ - 1]
                           ELSE list[k]]
\* What that pass leaves in the list.
ListAfter(i, list) ==
    [k \in DOMAIN list |->
        IF ~Waiting(list[k]) THEN list[k]
        ELSE IF list[k].ticcount > 0 THEN [list[k] EXCEPT !.ticcount = @ - 1]
        ELSE [action |-> list[k].swapaction, swapaction |-> list[k].action,
              ticcount |-> PlateAction[i][k].tictime, triggered |-> TRUE]]

\* Whether the plate is out of commission, or done until it is left.
PlateAfter(list) ==
    IF \A k \in DOMAIN list : list[k].action = "none"
    THEN [complete |-> TRUE, done |-> FALSE, list |-> list]
    ELSE [complete |-> FALSE, done |-> \A k \in DOMAIN list : ~Waiting(list[k]), list |-> list]

\* A plate that was done and is left: its actions can be triggered again.
RearmedPlate(p) ==
    [p EXCEPT !.done = FALSE,
              !.list = [k \in DOMAIN @ |-> [@[k] EXCEPT !.triggered = FALSE]]]
=============================================================================
