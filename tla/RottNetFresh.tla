----------------------------- MODULE RottNetFresh -----------------------------
(***************************************************************************)
(* Why no slot of a ring is taken for an older or newer tic.  What an end  *)
(* knows of the other is the time of the last packet in sequence and a     *)
(* status per slot; what makes that enough is the order of the packets on  *)
(* their way and that a client is less than MAXCMDS tics ahead of its      *)
(* simulation.  Both directions are alike: the server and a command        *)
(* packet of a client, a client and a packet of the server.                *)
(***************************************************************************)
EXTENDS RottNetInv

\* A client's clock does not run a whole ring ahead of its simulation.
NoOverrun == MaxLead < MAXCMDS

\* Nobody's QUIT or ENDGAME is in a closed tic yet.
NobodyLeft == \A p \in Player : InGame(p)

-----------------------------------------------------------------------------
(* The order of what is on its way                                         *)

\* The last tic a packet carries; none, for a request.
LastTime(m) == CASE m.type = "command" -> m.cmd.time
                 [] m.type = "server" -> m.pkt.time
                 [] m.type = "fixup" -> m.time + Len(m.subs) - 1
                 [] m.type = "request" -> -1

\* The subs of a fixup are packets of consecutive tics.
Consecutive(fix) ==
    fix.time \in Nat /\ \A k \in DOMAIN fix.subs : fix.subs[k].time = fix.time + k - 1

\* A request for more than one packet is for packets from before that time.
Answerable(request, end) ==
    /\ request.time \in Nat
    /\ request.numpackets < MAXCMDS
    /\ request.numpackets <= 1 \/ request.time + request.numpackets <= end

\* A reader that has got as far as lct finds the packets of its queue later and
\* in sequence; all are from before end, and requests for packets from before asked.
InOrder(queue, lct, end, asked) ==
    /\ -1 <= lct /\ lct < end
    /\ \A i \in DOMAIN queue :
        /\ LastTime(queue[i]) < end
        /\ queue[i].type \in {"command", "server"} =>
               /\ lct < LastTime(queue[i])
               /\ \A j \in 1 .. i - 1 : LastTime(queue[j]) < LastTime(queue[i])
        /\ queue[i].type = "fixup" => Consecutive(queue[i])
        /\ queue[i].type = "request" => Answerable(queue[i], asked)

\* A ring holds the last MAXCMDS packets before end, each in its slot.
RingHolds(ring, end) ==
    /\ \A a \in Slot : ring[a].time \in Nat =>
           a = CommandAddress(ring[a].time) /\ end - MAXCMDS <= ring[a].time /\ ring[a].time < end
    /\ \A t \in Nat : end - MAXCMDS <= t /\ t < end => ring[CommandAddress(t)].time = t

\* What comes from p, and what goes to p.
UpInOrder(p) == InOrder(toServer[p], ServerLastCommandTime[p], controlupdatetime[p], serverupdatetime)
DownInOrder(p) == InOrder(toClient[p], LastCommandTime[p], serverupdatetime, controlupdatetime[p])

OrderInv ==
    /\ RingHolds(ServerCmds, serverupdatetime)
    /\ \A p \in Player :
        /\ RingHolds(LocalCmds[p], controlupdatetime[p])
        /\ UpInOrder(p)
        /\ DownInOrder(p)

-----------------------------------------------------------------------------
(* The statuses and what they stand for                                    *)

\* The tics the slots of a ring stand for at an end that uses from next.
Window(from) == from .. from + MAXCMDS - 1

\* Nothing is ready that did not arrive, nothing waited for beyond the next packet.
StatusOK(status, from, lct) ==
    \A t \in Window(from) :
        /\ status[CommandAddress(t)] = "ready" => t <= lct
        /\ status[CommandAddress(t)] = "fixing" => t <= lct + 1

\* A ready slot holds the packet of the tic it stands for.
ReadyOK(status, ring, from) ==
    \A t \in Window(from) :
        status[CommandAddress(t)] = "ready" => ring[CommandAddress(t)].time = t

\* A fixup that is accepted, and a request that is answered, is not a ring
\* behind; all of them, or those in front of a request.
Recent(queue, lct, all) ==
    \A i \in DOMAIN queue :
        /\ queue[i].type \in {"fixup", "request"}
        /\ all \/ \E k \in DOMAIN queue : i <= k /\ queue[k].type = "request"
        => /\ lct + 1 < queue[i].time + MAXCMDS
           /\ \A j \in 1 .. i - 1 : LastTime(queue[j]) + 1 < queue[i].time + MAXCMDS

\* What the server asks a client for was not closed when it asked.
Unclosed(queue, lct, end) ==
    \A i \in DOMAIN queue : queue[i].type = "request" =>
        /\ lct < queue[i].time /\ queue[i].time <= end
        /\ \A j \in 1 .. i - 1 : LastTime(queue[j]) < queue[i].time

\* The server waits for a command of p, or has asked for one before p left.
Followed(p) == InGame(p) \/ Holds(toClient[p], {"request"})

\* A client: its clock, what comes from the server, and what it waits for.
ClientFresh(p) ==
    /\ controlupdatetime[p] - oldpolltime[p] <= MaxLead
    /\ playstate[p] # "fatal"
    /\ Unclosed(toClient[p], LastCommandTime[p], controlupdatetime[p])
    /\ Recent(toClient[p], LastCommandTime[p], InGame(p))
    /\ Followed(p) =>
        /\ oldpolltime[p] <= LastCommandTime[p] + 1
        /\ StatusOK(ServerCommandStatus[p], oldpolltime[p], LastCommandTime[p])

\* The server: what comes from a player in the game, and what it waits for.
ServerFresh(p) ==
    InGame(p) =>
        /\ serverupdatetime <= ServerLastCommandTime[p] + 1
        /\ Recent(toServer[p], ServerLastCommandTime[p], TRUE)
        /\ StatusOK(ClientCommandStatus[p], serverupdatetime, ServerLastCommandTime[p])
        /\ ReadyOK(ClientCommandStatus[p], ClientCmds[p], serverupdatetime)

\* What AreClientsReady saw is still there when the tic is closed.
CheckedFresh == clientsready => \A p \in Player : InGame(p) => Collecting(p) = "ready"

FreshInv == CheckedFresh /\ \A p \in Player : ClientFresh(p) /\ ServerFresh(p)

-----------------------------------------------------------------------------
(* What the closed tics hold, and what the clients make of them            *)

\* A closed tic has the commands of the players still in the game for that tic.
ClosedPacket ==
    {pkt \in ServerPacket : pkt.time \in Nat =>
        \A q \in Player : InGame(q) => pkt.cmds[q].time = pkt.time}
DownClosed ==
    [type : {"server"}, pkt : ClosedPacket] \cup RequestPacket
        \cup [type : {"fixup"}, time : Int, subs : Seq(ClosedPacket)]

\* So it is in the server's ring and on its way.
ClosedInv ==
    /\ \A a \in Slot : ServerCmds[a] \in ClosedPacket
    /\ \A p \in Player : toClient[p] \in Seq(DownClosed)

\* The log: the commands of a player up to the one with which it leaves.
LogInv ==
    /\ log \in Seq([Player -> Command \cup {Absent}])
    /\ Len(log) = serverupdatetime
    /\ \A q \in Player :
        IF InGame(q)
        THEN \A t \in 1 .. Len(log) : /\ t <= Len(submitted[q]) /\ log[t][q] = submitted[q][t]
                                      /\ log[t][q].kind \notin Leaving
        ELSE \E t \in 1 .. Len(log) : log[t][q].kind \in Leaving

\* A client has simulated every tic up to oldpolltime until the battle was over.
Paced(p) ==
    /\ Len(applied[p]) <= oldpolltime[p]
    /\ playstate[p] = "playing" => Len(applied[p]) = oldpolltime[p]

\* What p holds and has simulated of q's commands is what the server closed.
Follows(p, q) ==
    /\ ReadyOK(ServerCommandStatus[p], PlayerCmds[p][q], oldpolltime[p])
    /\ PlayerStatus[p][q] = "ingame"
    /\ \A t \in 1 .. Len(applied[p]) : applied[p][t][q] = log[t][q]

SyncInv ==
    \A p \in Player : InGame(p) => Paced(p) /\ \A q \in Player : InGame(q) => Follows(p, q)

\* Nobody ends the battle or stops before somebody has left.
PlayingInv == NobodyLeft => \A p \in Player : playstate[p] \in {"playing", "quit"}

LockstepInv == ClosedInv /\ LogInv /\ SyncInv /\ PlayingInv

-----------------------------------------------------------------------------
(* What follows for the players in the game, whoever has left              *)

\* The next tic of a client in the game is closed when its slot is ready, and
\* holds the command the server closed for every player in the game.
StayersTicIsClosed ==
    \A p \in Player : InGame(p) /\ TicReady(p) =>
        /\ oldpolltime[p] < serverupdatetime
        /\ \A q \in Player : InGame(q) => Polled(p, q) = log[oldpolltime[p] + 1][q]

\* Clients in the game have simulated the same commands of the players in it.
StayersInSync ==
    \A p, r \in Player : InGame(p) /\ InGame(r) =>
        \A t \in DOMAIN applied[p] \cap DOMAIN applied[r] : \A q \in Player :
            InGame(q) => applied[p][t][q] = applied[r][t][q]

\* Clients in the game have each other in the game: a QUIT that is not in a
\* closed tic yet, or a slot of an older tic, removes nobody.
StayersStay ==
    \A p, q \in Player : InGame(p) /\ InGame(q) => PlayerStatus[p][q] = "ingame"

\* The log grows by a step of the lock step, also when somebody leaves or has left.
ClosesInLockstep == [][log' = log \/ Abstract!Close]_vars

\* Until somebody has left every step is one of the lock step.
PlaysInLockstep == [][NobodyLeft => Abstract!Next \/ UNCHANGED history]_vars
=============================================================================
