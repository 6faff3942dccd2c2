------------------------------- MODULE RottNet -------------------------------
(***************************************************************************)
(* The network game of rt_net.c: one standalone packet server and a client *)
(* per player.  A client makes one command per tic (PrepareLocalPacket)    *)
(* and sends it to the server.  The server closes a tic when it holds the  *)
(* command of every player in the game (AreClientsReady) and broadcasts    *)
(* them (SendFullServerPacket).  A client simulates tic oldpolltime when   *)
(* the server's packet for it has arrived (ControlPlayerObj).  Both sides  *)
(* keep rings of MAXCMDS slots addressed by the time, with a status per    *)
(* slot, and recover lost or damaged packets with requests and fixups.     *)
(*                                                                         *)
(* Times are counted from controlupdatestartedtime with controldivisor 1.  *)
(* The driver behind rottcom is external: a FIFO queue per direction and   *)
(* client that may lose or damage packets.  A fixup is one packet here:    *)
(* how Resend*Packets cuts it into buffers is not modelled.                *)
(***************************************************************************)
EXTENDS Integers, Sequences

CONSTANTS
    Player,        \* the players; each has its own client program
    Host,          \* consoleplayer 0: ends the game instead of quitting it
    MAXCMDS,       \* slots of every ring
    ByteSize,      \* values of the byte that holds a request's numpackets
    FillSlot,      \* the slot the time in a memset-filled command addresses
    Kind,          \* kinds of commands that occur
    EventTics,     \* tics at which a player may give another command than delta
    MaxTime,       \* bound: the tics of the game
    MaxLead,       \* how far a client's clock runs ahead of its simulation
    ChanCap,       \* packets a driver queue holds; more are dropped
    MaxFaults      \* bound: packets lost or damaged, and timeouts that are early

ASSUME RottNetAssumption ==
    /\ Host \in Player
    /\ MAXCMDS \in Nat \ {0}
    /\ ByteSize \in 1 .. MAXCMDS
    /\ FillSlot \in 0 .. MAXCMDS - 1
    /\ Kind \subseteq {"delta", "quit", "endgame", "exit"}
    /\ "delta" \in Kind
    /\ EventTics \subseteq Nat
    /\ MaxTime \in Nat
    /\ MaxLead \in Nat
    /\ ChanCap \in Nat
    /\ MaxFaults \in Nat

VARIABLES
    \* each client
    controlupdatetime,     \* the tic its next local command is for
    LocalCmds,             \* ring of its own commands
    oldpolltime,           \* the tic it simulates next
    ServerCommandStatus,   \* status of the server's packet per slot
    PlayerCmds,            \* ring of commands of every player
    LastCommandTime,       \* time of the last packet in sequence from the server
    PlayerStatus,          \* who is in the game, as this client knows it
    playstate,             \* "playing", "battledone", "left", "quit", "fatal"
    \* the server
    serverupdatetime,      \* the tic it closes next
    ServerCmds,            \* ring of closed tics
    ClientCmds,            \* ring of received commands of every player
    ClientCommandStatus,   \* status of those commands
    ServerLastCommandTime, \* its LastCommandTime of every client
    ServerPlayerStatus,    \* who is in the game
    clientsready,          \* AreClientsReady held when ProcessServer looked
    \* the driver
    toServer, toClient, faults,
    \* history: what was made, closed, and simulated until the battle was over
    submitted, log, applied

clientVars == <<controlupdatetime, LocalCmds, oldpolltime, ServerCommandStatus,
                PlayerCmds, LastCommandTime, PlayerStatus, playstate>>
serverVars == <<serverupdatetime, ServerCmds, ClientCmds, ClientCommandStatus,
                ServerLastCommandTime, ServerPlayerStatus, clientsready>>
history == <<submitted, log, applied>>
vars == <<clientVars, serverVars, toServer, toClient, faults, history>>
-----------------------------------------------------------------------------
(* Slots, commands and packets                                             *)

Slot == 0 .. MAXCMDS - 1
CommandAddress(time) == time % MAXCMDS

Status == {"notarrived", "fixing", "ready"}

Absent == [time |-> 0, kind |-> "absent"]
LeavingByQuitOnly == {"quit"}                            \* mutant of Leaving
Leaving == {"quit", "endgame"}

\* What memset(..., COM_DELTA, ...) leaves in a slot: a command whose time is
\* no tic of the game but addresses a slot all the same.
FillTime == FillSlot - MAXCMDS
Fill == [time |-> FillTime, kind |-> "delta"]
EmptyPacket == [time |-> FillTime, cmds |-> [q \in Player |-> Fill]]

Command == [time : Nat \cup {FillTime}, kind : Kind]
ServerPacket == [time : Nat \cup {FillTime}, cmds : [Player -> Command]]

CommandPacket(cmd) == [type |-> "command", cmd |-> cmd]
TicPacket(pkt) == [type |-> "server", pkt |-> pkt]
RequestOneMore(time, n) ==                               \* mutant of Request
    [type |-> "request", time |-> time, numpackets |-> (n + 1) % ByteSize]
\* COM_REQUEST: numpackets is a byte.
Request(time, n) == [type |-> "request", time |-> time, numpackets |-> n % ByteSize]
\* COM_FIXUP: n slots of a ring from the one of time on, whatever they hold.
Fixup(ring, time, n) ==
    [type |-> "fixup", time |-> time,
     subs |-> [i \in 1 .. n |-> ring[CommandAddress(time + i - 1)]]]

Queued(queue, packet) == IF Len(queue) < ChanCap THEN Append(queue, packet) ELSE queue

Holds(queue, types) == \E i \in DOMAIN queue : queue[i].type \in types

\* A timeout that fires while packets are still on their way is early:
\* NETWORKTIMEOUT is longer than the way there and back.
TimeoutUnless(early) ==
    IF early THEN faults < MaxFaults /\ faults' = faults + 1 ELSE UNCHANGED faults

\* UpdateClientControls of p still runs; afterwards nothing reads its packets.
Controlling(p) == playstate[p] \in {"playing", "battledone"}

WriteToServer(p, packet) == toServer' = [toServer EXCEPT ![p] = Queued(@, packet)]
WriteToClient(p, packet) ==
    toClient' = [toClient EXCEPT ![p] = IF Controlling(p) THEN Queued(@, packet) ELSE @]

ExpectedAgain(lct) == lct                                \* mutant of Expected
\* The time CheckForPacket, AddPacket and AddServerPacket expect next.
Expected(lct) == lct + 1

\* After a gap the first missing packet decides whether to request them all.
MustRequest(status, expected, gap) ==
    gap # 0 /\ status[CommandAddress(expected)] # "fixing"

MarkFixingTooFar(status, time, n) ==                     \* mutant of MarkFixing
    [a \in 0 .. MAXCMDS |-> IF \E i \in 0 .. n - 1 : CommandAddress(time + i) = a
                            THEN "fixing" ELSE status[a % MAXCMDS]]
\* RequestPacket's loop: n slots from time on wait for a fixup.
MarkFixing(status, time, n) ==
    [a \in Slot |-> IF \E i \in 0 .. n - 1 : CommandAddress(time + i) = a
                    THEN "fixing" ELSE status[a]]

NotReset(status, time) == status                         \* mutant of NotArrived
\* ResetCurrentCommand, and the same in SendFullServerPacket.
NotArrived(status, time) == [status EXCEPT ![CommandAddress(time)] = "notarrived"]

AcceptNotArrived(status, fix) ==                         \* mutant of Accepted
    {i \in DOMAIN fix.subs : status[CommandAddress(fix.time + i - 1)] = "notarrived"}
\* FixupPacket: the sub-packets whose turn comes on a slot that waits for one.
Accepted(status, fix) ==
    {i \in DOMAIN fix.subs : status[CommandAddress(fix.time + i - 1)] = "fixing"}
\* Where the sub-packets in S go: by their own time, the last one wins.
Landing(fix, S, a) == {i \in S : CommandAddress(fix.subs[i].time) = a}
Latest(S) == CHOOSE i \in S : \A j \in S : j <= i
FixedStatus(status, fix) ==
    [a \in Slot |-> IF Landing(fix, Accepted(status, fix), a) # {}
                    THEN "ready" ELSE status[a]]
FixedTimeAlways(lct, fix) == fix.time + Len(fix.subs) - 1 \* mutant of FixedTime
\* FixupPacket moves LastCommandTime along when the fixup continues the sequence.
FixedTime(lct, fix) ==
    IF Expected(lct) \in fix.time .. fix.time + Len(fix.subs) - 1
    THEN fix.time + Len(fix.subs) - 1 ELSE lct
-----------------------------------------------------------------------------
(* The clients                                                             *)

Init ==
    /\ controlupdatetime = [p \in Player |-> 0]
    /\ LocalCmds = [p \in Player |-> [a \in Slot |-> Fill]]
    /\ oldpolltime = [p \in Player |-> 0]
    /\ ServerCommandStatus = [p \in Player |-> [a \in Slot |-> "notarrived"]]
    /\ PlayerCmds = [p \in Player |-> [q \in Player |-> [a \in Slot |-> Fill]]]
    /\ LastCommandTime = [p \in Player |-> -1]
    /\ PlayerStatus = [p \in Player |-> [q \in Player |-> "ingame"]]
    /\ playstate = [p \in Player |-> "playing"]
    /\ serverupdatetime = 0
    /\ ServerCmds = [a \in Slot |-> EmptyPacket]
    /\ ClientCmds = [p \in Player |-> [a \in Slot |-> Fill]]
    /\ ClientCommandStatus = [p \in Player |-> [a \in Slot |-> "notarrived"]]
    /\ ServerLastCommandTime = [p \in Player |-> -1]
    /\ ServerPlayerStatus = [p \in Player |-> "ingame"]
    /\ clientsready = FALSE
    /\ toServer = [p \in Player |-> <<>>]
    /\ toClient = [p \in Player |-> <<>>]
    /\ faults = 0
    /\ submitted = [p \in Player |-> <<>>]
    /\ log = <<>>
    /\ applied = [p \in Player |-> <<>>]

\* What the program lets p put into a command: player 0 ends the game
\* (AddEndGameCommand), the others quit it (AddQuitCommand).
MayIssue(p, k, time) ==
    \/ k = "delta"
    \/ /\ time \in EventTics
       /\ k = "quit" => p # Host
       /\ k = "endgame" => p = Host

\* The client's clock is at most MaxLead tics ahead of its simulation.
PrepareLocalPacket(p) ==
    /\ Controlling(p)
    /\ controlupdatetime[p] < MaxTime
    /\ controlupdatetime[p] - oldpolltime[p] < MaxLead
    /\ \E k \in Kind :
          LET cmd == [time |-> controlupdatetime[p], kind |-> k] IN
          /\ MayIssue(p, k, cmd.time)
          /\ LocalCmds' = [LocalCmds EXCEPT ![p][CommandAddress(cmd.time)] = cmd]
          /\ WriteToServer(p, CommandPacket(cmd))
          /\ submitted' = [submitted EXCEPT ![p] = Append(@, cmd)]
    /\ controlupdatetime' = [controlupdatetime EXCEPT ![p] = @ + 1]
    /\ UNCHANGED <<oldpolltime, ServerCommandStatus, PlayerCmds, LastCommandTime,
                   PlayerStatus, playstate, serverVars, toClient, faults, log, applied>>

\* CheckForPacket of a client: the head of its queue has the given type.
Arrived(p, type) ==
    /\ Controlling(p)
    /\ toClient[p] # <<>>
    /\ Head(toClient[p]).type = type
    /\ toClient' = [toClient EXCEPT ![p] = Tail(@)]

SubPacketOfOther(pkt, q) ==                              \* mutant of SubPacket
    pkt.cmds[CHOOSE r \in Player : r # q]
\* AddServerSubPacket: the i-th command of a closed tic is the i-th player's.
SubPacket(pkt, q) == pkt.cmds[q]

\* AddServerPacket: packets are expected in sequence; after a gap the missing
\* ones are requested unless the first of them is already waited for.
AddServerPacket(p) ==
    /\ Arrived(p, "server")
    /\ LET pkt == Head(toClient[p]).pkt
           expected == Expected(LastCommandTime[p])
           gap == pkt.time - expected
           status == ServerCommandStatus[p]
           ask == MustRequest(status, expected, gap)
           marked == IF ask THEN MarkFixing(status, expected, gap) ELSE status
       IN /\ LastCommandTime' = [LastCommandTime EXCEPT ![p] = pkt.time]
          /\ ServerCommandStatus' = [ServerCommandStatus EXCEPT ![p] =
                [marked EXCEPT ![CommandAddress(pkt.time)] = "ready"]]
          /\ PlayerCmds' = [PlayerCmds EXCEPT ![p] =
                [q \in Player |-> [@[q] EXCEPT ![CommandAddress(SubPacket(pkt, q).time)] =
                                                SubPacket(pkt, q)]]]
          /\ IF ask THEN WriteToServer(p, Request(expected, gap))
                    ELSE UNCHANGED toServer
    /\ UNCHANGED <<controlupdatetime, LocalCmds, oldpolltime, PlayerStatus, playstate,
                   serverVars, faults, history>>

\* FixupPacket on a client.
ClientFixupPacket(p) ==
    /\ Arrived(p, "fixup")
    /\ LET fix == Head(toClient[p])
           S == Accepted(ServerCommandStatus[p], fix)
           From(q, a) == {i \in S : CommandAddress(SubPacket(fix.subs[i], q).time) = a}
       IN /\ LastCommandTime' = [LastCommandTime EXCEPT ![p] = FixedTime(@, fix)]
          /\ ServerCommandStatus' = [ServerCommandStatus EXCEPT ![p] = FixedStatus(@, fix)]
          /\ PlayerCmds' = [PlayerCmds EXCEPT ![p] =
                [q \in Player |-> [a \in Slot |->
                    IF From(q, a) # {} THEN SubPacket(fix.subs[Latest(From(q, a))], q)
                                       ELSE @[q][a]]]]
    /\ UNCHANGED <<controlupdatetime, LocalCmds, oldpolltime, PlayerStatus, playstate,
                   serverVars, toServer, faults, history>>

\* ResendLocalPackets: an Error when the ring no longer holds the command.
ResendLocalPackets(p) ==
    /\ Arrived(p, "request")
    /\ LET request == Head(toClient[p])
           made == request.time < controlupdatetime[p]
           held == LocalCmds[p][CommandAddress(request.time)].time = request.time
       IN /\ IF made /\ held
             THEN WriteToServer(p, Fixup(LocalCmds[p], request.time, request.numpackets))
             ELSE UNCHANGED toServer
          /\ playstate' = [playstate EXCEPT ![p] = IF made /\ ~held THEN "fatal" ELSE @]
    /\ UNCHANGED <<controlupdatetime, LocalCmds, oldpolltime, ServerCommandStatus,
                   PlayerCmds, LastCommandTime, PlayerStatus, serverVars, faults, history>>

\* RequestPacket on a client.
RequestFromServer(p, time, n) ==
    /\ ServerCommandStatus' = [ServerCommandStatus EXCEPT ![p] = MarkFixing(@, time, n)]
    /\ WriteToServer(p, Request(time, n))

\* CheckForPacket with badpacket set.
ClientBadPacket(p) ==
    /\ faults < MaxFaults
    /\ Controlling(p)
    /\ toClient[p] # <<>>
    /\ toClient' = [toClient EXCEPT ![p] = Tail(@)]
    /\ faults' = faults + 1
    /\ RequestFromServer(p, Expected(LastCommandTime[p]), 1)
    /\ UNCHANGED <<controlupdatetime, LocalCmds, oldpolltime, PlayerCmds, LastCommandTime,
                   PlayerStatus, playstate, serverVars, history>>

TicAssumedReady(p) == TRUE                               \* mutant of TicReady
\* ControlPlayerObj's test: only the status of the slot.
TicReady(p) == ServerCommandStatus[p][CommandAddress(oldpolltime[p])] = "ready"

\* ControlPlayerObj waits for the tic and its timeout fires.
ClientTimeout(p) ==
    /\ Controlling(p)
    /\ oldpolltime[p] < controlupdatetime[p]
    /\ ~TicReady(p)
    /\ TimeoutUnless(toServer[p] # <<>> \/ toClient[p] # <<>>)
    /\ RequestFromServer(p, oldpolltime[p], 1)
    /\ UNCHANGED <<controlupdatetime, LocalCmds, oldpolltime, PlayerCmds, LastCommandTime,
                   PlayerStatus, playstate, serverVars, toClient, history>>

\* The command of q in the slot of the tic p simulates.
Polled(p, q) == PlayerCmds[p][q][CommandAddress(oldpolltime[p])]
Polling(p) == {q \in Player : PlayerStatus[p][q] = "ingame"}

\* One tic of UpdateGameObjects: ControlPlayerObj and ProcessPlayerCommand for
\* every player in the game, then ResetCurrentCommand.
SimulateTic(p) ==
    /\ Controlling(p)
    /\ TicReady(p)
    /\ LET Gave(k) == {q \in Polling(p) : Polled(p, q).kind = k} IN
       /\ playstate' = [playstate EXCEPT ![p] =
             IF p \in Gave("quit") \/ Gave("exit") # {} THEN "quit"
             ELSE IF Gave("endgame") # {} THEN "battledone" ELSE @]
       /\ PlayerStatus' = [PlayerStatus EXCEPT ![p] =
             [q \in Player |-> IF q \in Gave("quit") THEN "quitgame" ELSE @[q]]]
    /\ applied' = IF playstate[p] = "battledone" THEN applied
                  ELSE [applied EXCEPT ![p] = Append(@, [q \in Player |->
                           IF q \in Polling(p) THEN Polled(p, q) ELSE Absent])]
    /\ ServerCommandStatus' = [ServerCommandStatus EXCEPT ![p] = NotArrived(@, oldpolltime[p])]
    /\ oldpolltime' = [oldpolltime EXCEPT ![p] = @ + 1]
    /\ UNCHANGED <<controlupdatetime, LocalCmds, PlayerCmds, LastCommandTime, serverVars,
                   toServer, toClient, faults, submitted, log>>

\* PlayLoop ends after the frame in which ENDGAME was simulated.
LeaveGame(p) ==
    /\ playstate[p] = "battledone"
    /\ playstate' = [playstate EXCEPT ![p] = "left"]
    /\ UNCHANGED <<controlupdatetime, LocalCmds, oldpolltime, ServerCommandStatus,
                   PlayerCmds, LastCommandTime, PlayerStatus, serverVars, toServer,
                   toClient, faults, history>>
-----------------------------------------------------------------------------
(* The server                                                              *)

\* CheckForPacket of the server: the head of p's queue has the given type.
Received(p, type) ==
    /\ toServer[p] # <<>>
    /\ Head(toServer[p]).type = type
    /\ toServer' = [toServer EXCEPT ![p] = Tail(@)]

InGame(p) == ServerPlayerStatus[p] = "ingame"

\* AddPacket: as AddServerPacket, for a command of a player in the game.
AddPacket(p) ==
    /\ Received(p, "command")
    /\ InGame(p)
    /\ LET cmd == Head(toServer[p]).cmd
           expected == Expected(ServerLastCommandTime[p])
           gap == cmd.time - expected
           status == ClientCommandStatus[p]
           ask == MustRequest(status, expected, gap)
           marked == IF ask THEN MarkFixing(status, expected, gap) ELSE status
       IN /\ ServerLastCommandTime' = [ServerLastCommandTime EXCEPT ![p] = cmd.time]
          /\ ClientCommandStatus' = [ClientCommandStatus EXCEPT ![p] =
                [marked EXCEPT ![CommandAddress(cmd.time)] = "ready"]]
          /\ ClientCmds' = [ClientCmds EXCEPT ![p][CommandAddress(cmd.time)] = cmd]
          /\ IF ask THEN WriteToClient(p, Request(expected, gap))
                    ELSE UNCHANGED toClient
    /\ UNCHANGED <<clientVars, serverupdatetime, ServerCmds, ServerPlayerStatus,
                   clientsready, faults, history>>

\* AddPacket returns at once for a player who is out of the game.
IgnorePacket(p) ==
    /\ Received(p, "command")
    /\ ~InGame(p)
    /\ UNCHANGED <<clientVars, serverVars, toClient, faults, history>>

\* FixupPacket on the server.
ServerFixupPacket(p) ==
    /\ Received(p, "fixup")
    /\ LET fix == Head(toServer[p])
           S == Accepted(ClientCommandStatus[p], fix)
       IN /\ ServerLastCommandTime' = [ServerLastCommandTime EXCEPT ![p] = FixedTime(@, fix)]
          /\ ClientCommandStatus' = [ClientCommandStatus EXCEPT ![p] = FixedStatus(@, fix)]
          /\ ClientCmds' = [ClientCmds EXCEPT ![p] =
                [a \in Slot |-> IF Landing(fix, S, a) # {}
                                THEN fix.subs[Latest(Landing(fix, S, a))] ELSE @[a]]]
    /\ UNCHANGED <<clientVars, serverupdatetime, ServerCmds, ServerPlayerStatus,
                   clientsready, toClient, faults, history>>

IsServerCommandLater(time) ==                            \* mutant of IsServerCommandReady
    ServerCmds[CommandAddress(time)].time > time
\* The ring still holds the closed tic of that time.
IsServerCommandReady(time) == ServerCmds[CommandAddress(time)].time = time

\* ResendPacket and ResendServerPackets: nothing when it does not.
ResendServerPackets(p) ==
    /\ Received(p, "request")
    /\ LET request == Head(toServer[p]) IN
       IF IsServerCommandReady(request.time)
       THEN WriteToClient(p, Fixup(ServerCmds, request.time, request.numpackets))
       ELSE UNCHANGED toClient
    /\ UNCHANGED <<clientVars, serverVars, faults, history>>

\* CheckForPacket with badpacket set: RequestPacket does nothing for a player
\* who is out of the game.
ServerBadPacket(p) ==
    /\ faults < MaxFaults
    /\ toServer[p] # <<>>
    /\ toServer' = [toServer EXCEPT ![p] = Tail(@)]
    /\ faults' = faults + 1
    /\ LET time == Expected(ServerLastCommandTime[p]) IN
       IF InGame(p)
       THEN /\ ClientCommandStatus' =
                  [ClientCommandStatus EXCEPT ![p] = MarkFixing(@, time, 1)]
            /\ WriteToClient(p, Request(time, 1))
       ELSE UNCHANGED <<ClientCommandStatus, toClient>>
    /\ UNCHANGED <<clientVars, serverupdatetime, ServerCmds, ClientCmds,
                   ServerLastCommandTime, ServerPlayerStatus, clientsready, history>>

\* The commands of the tic the server closes next.
Collected(p) == ClientCmds[p][CommandAddress(serverupdatetime)]
Collecting(p) == ClientCommandStatus[p][CommandAddress(serverupdatetime)]

ClientReadyOrMissing(p) == Collecting(p) # "fixing"      \* mutant of ClientReady
ClientReady(p) == Collecting(p) = "ready" /\ Collected(p).time = serverupdatetime

\* ProcessServer asks AreClientsReady before it reads the waiting packets.
AreClientsReady ==
    /\ ~clientsready
    /\ \A p \in Player : InGame(p) => ClientReady(p)
    /\ clientsready' = TRUE
    /\ UNCHANGED <<clientVars, serverupdatetime, ServerCmds, ClientCmds,
                   ClientCommandStatus, ServerLastCommandTime, ServerPlayerStatus,
                   toServer, toClient, faults, history>>

\* SendFullServerPacket closes the tic, without looking again.  Players whose
\* command is QUIT or ENDGAME leave after it: ResetClientCommands.
SendFullServerPacket ==
    /\ clientsready
    /\ serverupdatetime < MaxTime
    /\ LET slot == CommandAddress(serverupdatetime)
           pkt == [time |-> serverupdatetime, cmds |-> [p \in Player |-> Collected(p)]]
           leaving == {p \in Player : Collected(p).kind \in Leaving}
       IN /\ ServerCmds' = [ServerCmds EXCEPT ![slot] = pkt]
          /\ ClientCommandStatus' =
                [p \in Player |-> NotArrived(ClientCommandStatus[p], serverupdatetime)]
          /\ toClient' = [p \in Player |->
                IF InGame(p) /\ Controlling(p)
                THEN Queued(toClient[p], TicPacket(pkt)) ELSE toClient[p]]
          /\ ClientCmds' = [p \in Player |->
                IF p \in leaving THEN [a \in Slot |-> Fill] ELSE ClientCmds[p]]
          /\ ServerPlayerStatus' = [p \in Player |->
                IF p \notin leaving THEN ServerPlayerStatus[p]
                ELSE IF Collected(p).kind = "quit" THEN "quitgame" ELSE "leftgame"]
          /\ log' = Append(log, [p \in Player |->
                IF InGame(p) THEN Collected(p) ELSE Absent])
    /\ serverupdatetime' = serverupdatetime + 1
    /\ clientsready' = FALSE
    /\ UNCHANGED <<clientVars, ServerLastCommandTime, toServer, faults, submitted, applied>>

\* ProcessServer's timeout: every command still missing is requested.
ServerTimeout ==
    LET missing == {p \in Player : InGame(p) /\ Collecting(p) # "ready"} IN
    /\ missing # {}
    /\ TimeoutUnless(\E p \in missing : \/ Holds(toClient[p], {"request"})
                                       \/ Holds(toServer[p], {"command", "fixup"}))
    /\ ClientCommandStatus' = [p \in Player |->
          IF p \in missing THEN MarkFixing(ClientCommandStatus[p], serverupdatetime, 1)
                           ELSE ClientCommandStatus[p]]
    /\ toClient' = [p \in Player |->
          IF p \in missing /\ Controlling(p)
          THEN Queued(toClient[p], Request(serverupdatetime, 1)) ELSE toClient[p]]
    /\ UNCHANGED <<clientVars, serverupdatetime, ServerCmds, ClientCmds,
                   ServerLastCommandTime, ServerPlayerStatus, clientsready, toServer,
                   history>>
-----------------------------------------------------------------------------
(* The driver loses packets                                                *)

LoseToServer(p) ==
    /\ faults < MaxFaults
    /\ toServer[p] # <<>>
    /\ toServer' = [toServer EXCEPT ![p] = Tail(@)]
    /\ faults' = faults + 1
    /\ UNCHANGED <<clientVars, serverVars, toClient, history>>

LoseToClient(p) ==
    /\ faults < MaxFaults
    /\ Controlling(p)
    /\ toClient[p] # <<>>
    /\ toClient' = [toClient EXCEPT ![p] = Tail(@)]
    /\ faults' = faults + 1
    /\ UNCHANGED <<clientVars, serverVars, toServer, history>>

\* Every client has stopped or simulated the last tic of the bound.
Finished == \A p \in Player : ~Controlling(p) \/ oldpolltime[p] = MaxTime
GameOver == Finished /\ UNCHANGED vars

Client(p) ==
    \/ PrepareLocalPacket(p)
    \/ AddServerPacket(p)
    \/ ClientFixupPacket(p)
    \/ ResendLocalPackets(p)
    \/ ClientBadPacket(p)
    \/ ClientTimeout(p)
    \/ SimulateTic(p)
    \/ LeaveGame(p)

Server ==
    \/ \E p \in Player : \/ AddPacket(p)
                         \/ IgnorePacket(p)
                         \/ ServerFixupPacket(p)
                         \/ ResendServerPackets(p)
                         \/ ServerBadPacket(p)
    \/ AreClientsReady
    \/ SendFullServerPacket
    \/ ServerTimeout

Network == \E p \in Player : LoseToServer(p) \/ LoseToClient(p)

Next == Server \/ Network \/ GameOver \/ \E p \in Player : Client(p)

Spec == Init /\ [][Next]_vars

\* Every program runs, reads its packets and times out; Error, losses and the
\* player's choices are not fair.
Fairness ==
    /\ \A p \in Player :
          /\ WF_vars(PrepareLocalPacket(p))
          /\ WF_vars(AddServerPacket(p) \/ ClientFixupPacket(p) \/ ResendLocalPackets(p))
          /\ SF_vars(ClientTimeout(p))
          /\ WF_vars(SimulateTic(p))
          /\ WF_vars(AddPacket(p) \/ IgnorePacket(p) \/ ServerFixupPacket(p)
                     \/ ResendServerPackets(p))
    /\ WF_vars(AreClientsReady)
    /\ WF_vars(SendFullServerPacket)
    /\ SF_vars(ServerTimeout)

FairSpec == Spec /\ Fairness
-----------------------------------------------------------------------------
(* Properties                                                              *)

\* Type correctness of every variable.
TypeOK ==
    /\ controlupdatetime \in [Player -> Nat]
    /\ LocalCmds \in [Player -> [Slot -> Command]]
    /\ oldpolltime \in [Player -> Nat]
    /\ ServerCommandStatus \in [Player -> [Slot -> Status]]
    /\ PlayerCmds \in [Player -> [Player -> [Slot -> Command]]]
    /\ LastCommandTime \in [Player -> Int]
    /\ PlayerStatus \in [Player -> [Player -> {"ingame", "quitgame"}]]
    /\ playstate \in [Player -> {"playing", "battledone", "left", "quit", "fatal"}]
    /\ serverupdatetime \in Nat
    /\ ServerCmds \in [Slot -> ServerPacket]
    /\ ClientCmds \in [Player -> [Slot -> Command]]
    /\ ClientCommandStatus \in [Player -> [Slot -> Status]]
    /\ ServerLastCommandTime \in [Player -> Int]
    /\ ServerPlayerStatus \in [Player -> {"ingame", "quitgame", "leftgame"}]
    /\ clientsready \in BOOLEAN

\* The server closes a tic only when every player still in the game has made
\* its command for it: it is never ahead of a player, although AreClientsReady
\* sees a status and a slot that are both reused every MAXCMDS tics.
ServerNeverAhead ==
    \A p \in Player : InGame(p) => serverupdatetime <= controlupdatetime[p]

\* Every command a client simulates for a player is one that player made, or
\* the fill of ResetClientCommands: rings, resends and fixups neither invent
\* commands nor give one player's commands to another.
NothingInvented ==
    \A p \in Player : \A t \in DOMAIN applied[p] : \A q \in Player :
        applied[p][t][q] \in {Absent, Fill} \cup {submitted[q][i] : i \in DOMAIN submitted[q]}

\* What a client is about to simulate is what the server closed for that tic:
\* a ready slot never holds the command of an older or newer tic, although the
\* rings are reused every MAXCMDS tics and ControlPlayerObj looks at the status
\* only (IsPlayerCommandReady is never called).
NextTicIsClosedTic ==
    \A p \in Player : playstate[p] = "playing" /\ TicReady(p) =>
        /\ oldpolltime[p] < serverupdatetime
        /\ \A q \in Polling(p) : Polled(p, q) = log[oldpolltime[p] + 1][q]

\* Clients that have simulated the same tic agree on who is in the game.
SameRoster ==
    \A p, q \in Player :
        playstate[p] = "playing" /\ playstate[q] = "playing" /\ oldpolltime[p] = oldpolltime[q]
        => PlayerStatus[p] = PlayerStatus[q]

\* What the sync check of ProcessSyncCheckPacket is about ("is unsynced"): two
\* clients still playing have simulated the same commands, tic by tic.
ClientsInSync ==
    \A p, q \in Player : playstate[p] = "playing" /\ playstate[q] = "playing" =>
        \A t \in DOMAIN applied[p] \cap DOMAIN applied[q] : applied[p][t] = applied[q][t]

\* AreClientsReady can always come true: a command marked ready in the slot the
\* server waits on is the command of that tic.  The timeout of ProcessServer
\* only asks again for commands that are not marked ready.
CollectedIsCurrent ==
    \A p \in Player : InGame(p) /\ Collecting(p) = "ready" => Collected(p).time = serverupdatetime

\* ProcessServer asks AreClientsReady, then reads packets, then closes the tic:
\* what it asked about is still true when it closes.
CheckedStaysReady ==
    clientsready => \A p \in Player : InGame(p) =>
        Collecting(p) = "ready" /\ Collected(p).time = serverupdatetime

\* A closed tic is in the server's ring as long as a client in the game needs
\* it: ResendPacket can always answer.
NeededTicsHeld ==
    \A p \in Player : Controlling(p) /\ InGame(p) =>
        \A t \in oldpolltime[p] .. serverupdatetime - 1 : ServerCmds[CommandAddress(t)].time = t

\* The Error of ResendLocalPackets, "Could not find packet to resend", is not
\* reached: what the server asks for is still in the client's ring.
NoFatalError == \A p \in Player : playstate[p] # "fatal"

\* A fixup holds the packets of consecutive tics from its time on: a resend
\* never carries a slot that was reused or not filled yet.
FixupsAreConsecutive ==
    \A p \in Player :
        /\ \A i \in DOMAIN toServer[p] : LET m == toServer[p][i] IN
             m.type = "fixup" => \A k \in DOMAIN m.subs : m.subs[k].time = m.time + k - 1
        /\ \A i \in DOMAIN toClient[p] : LET m == toClient[p][i] IN
             m.type = "fixup" => \A k \in DOMAIN m.subs : m.subs[k].time = m.time + k - 1

\* LastCommandTime, from which a gap is recognised, never moves back.
SequenceNeverMovesBack ==
    [][\A p \in Player : /\ LastCommandTime'[p] >= LastCommandTime[p]
                         /\ ServerLastCommandTime'[p] >= ServerLastCommandTime[p]]_vars

\* The network game implements the lock step it promises.
Abstract == INSTANCE Lockstep WITH submitted <- submitted, log <- log, applied <- applied
LockstepSpec == Abstract!Spec

\* Every client of the game simulates every tic up to the bound, or its player
\* leaves: lost and damaged packets are recovered in the end.
EveryTicIsSimulated ==
    \A p \in Player : <>(oldpolltime[p] = MaxTime \/ ~Controlling(p))

\* The server catches up again and again: it closes every tic that all its players
\* have made, whatever was lost.
EveryTicIsClosed == []<>(\E p \in Player : serverupdatetime >= controlupdatetime[p])
=============================================================================
