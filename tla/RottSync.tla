------------------------------ MODULE RottSync ------------------------------
(***************************************************************************)
(* Setting the clocks before a network game: ComSetTime of rt_com.c.  The  *)
(* server (master) goes through the clients one by one (SyncTime): a hello *)
(* in SYNC_PHASE0, then a ping-pong of phases in which it sets the         *)
(* client's (slave's) clock and corrects it twice by the measured round    *)
(* trip.  Then it sends COM_START to all, twice, and every program starts  *)
(* the game at the same reading of its clock.                              *)
(*                                                                         *)
(* Time is the master's tic count.  A slave's clock is the time plus its   *)
(* offset.  All programs poll: what can be done at a tic is done before    *)
(* the next tic.  The driver keeps the order of packets; a packet travels  *)
(* some tics, or is lost.                                                  *)
(***************************************************************************)
EXTENDS Integers, Sequences, Functions

CONSTANTS
    numplayers,    \* the clients are 0 .. numplayers - 1
    SYNCTIME,      \* tics before a packet is sent again, and of every pause
    VBLCOUNTER,    \* tics of a second
    Transit,       \* tics a packet may travel
    Late,          \* tics a late answer to the hello travels
    Lossy,         \* phases whose packets may get lost
    FirstOffset,   \* what the slaves' clocks may be off by in the beginning
    LastEntry,     \* bound: when the last client has loaded the level
    MaxTime,       \* bound: time
    MaxFaults      \* bound: packets lost or late

ASSUME RottSyncAssumption ==
    /\ numplayers \in Nat \ {0}
    /\ SYNCTIME \in Nat \ {0}
    /\ VBLCOUNTER \in Nat
    /\ Transit \subseteq Nat /\ Transit # {}
    /\ Late \in Nat
    /\ FirstOffset \subseteq Int /\ FirstOffset # {}
    /\ LastEntry \in Nat
    /\ MaxTime \in Nat
    /\ MaxFaults \in Nat

Client == 0 .. numplayers - 1

SYNC_PHASE0 == 6
SYNC_PHASE1 == 0
SYNC_PHASE2 == 1
SYNC_PHASE3 == 2
SYNC_PHASE4 == 3
SYNC_PHASE5 == 4
SYNC_MEMO == 99
NUMSYNCPHASES == 5

VARIABLES
    now,             \* the master's tic count
    \* the master
    mstate,          \* where it is in ComSetTime
    client,          \* the client it is synchronising
    pkt,             \* sync->pkt
    sendtime,        \* sync->sendtime
    since,           \* the start of a pause
    dtime,           \* the round trips of the phases
    deltatime,       \* their average
    done,            \* its loop in SyncTime is done
    transittimes,    \* what it has measured, per client
    missed,          \* clients whose SYNC_PHASE5 was lost (history)
    \* the slaves
    sstate, offset, ssince, ssendtime, sdone,
    \* the time of COM_START, in the master and in the slaves
    controlsynctime, scontrolsynctime,
    \* the driver
    toMaster, toSlave, faults

masterVars == <<mstate, client, pkt, sendtime, since, dtime, deltatime, done,
                transittimes, controlsynctime, missed>>
slaveVars == <<sstate, offset, ssince, ssendtime, sdone, scontrolsynctime>>
network == <<toMaster, toSlave, faults>>
vars == <<now, masterVars, slaveVars, network>>
-----------------------------------------------------------------------------
(* Packets                                                                 *)

SyncPacket == [type : {"sync"}, phase : 0 .. 4 \cup {SYNC_PHASE0, SYNC_MEMO},
               clocktime : Int, delta : Int]
StartPacket == [type : {"start"}, clocktime : Int]

\* The queue when p was sent and travels for the given time: the order is kept.
Arriving(queue, p, travel) ==
    LET due == IF queue # <<>> /\ queue[Len(queue)].due > now + travel
               THEN queue[Len(queue)].due ELSE now + travel
    IN Append(queue, [pkt |-> p, due |-> due])

\* What may become of a packet: the queue and the number of faults afterwards.
\* The answer to the hello may be late.
Sent(queue, p, answer) ==
    {[queue |-> Arriving(queue, p, t), faults |-> faults] : t \in Transit}
    \cup (IF faults < MaxFaults /\ p.phase \in Lossy
          THEN {[queue |-> queue, faults |-> faults + 1]} ELSE {})
    \cup (IF faults < MaxFaults /\ answer /\ p.phase = SYNC_PHASE0
          THEN {[queue |-> Arriving(queue, p, Late), faults |-> faults + 1]} ELSE {})

\* ReadPacket finds a packet.
Waiting(queue) == queue # <<>> /\ Head(queue).due <= now

\* SendSyncPacket of the master, and of slave c.
SendToSlave(p) ==
    /\ sendtime' = now
    /\ \E s \in Sent(toSlave[client], p, FALSE) :
          /\ toSlave' = [toSlave EXCEPT ![client] = s.queue] /\ faults' = s.faults
          /\ missed' = missed \cup {c \in {client} : p.phase = SYNC_PHASE5 /\ faults' > faults}
SendToMaster(p) ==
    \E s \in Sent(toMaster, p, TRUE) : toMaster' = s.queue /\ faults' = s.faults

\* The same packet to the clients in C.  Only packets of a phase are lost here:
\* COM_START is not, though it may be thrown away.
Broadcast(p, C) ==
    \E travel \in [C -> Transit] :
        toSlave' = [c \in Client |-> IF c \in C THEN Arriving(toSlave[c], p, travel[c])
                                                ELSE toSlave[c]]
-----------------------------------------------------------------------------
(* The master                                                              *)

\* What SyncTime allocates: values that are set before they are used.
FreshPkt == [type |-> "sync", phase |-> SYNC_PHASE0, clocktime |-> 0, delta |-> 0]
FreshTimes == [i \in 0 .. NUMSYNCPHASES - 1 |-> 0]

Init ==
    /\ now = 0
    /\ mstate = "begin"
    /\ client = 0
    /\ pkt = FreshPkt /\ dtime = FreshTimes /\ deltatime = 0
    /\ sendtime = 0 /\ since = 0
    /\ done = FALSE
    /\ transittimes = [c \in Client |-> 0]
    /\ missed = {}
    /\ sstate = [c \in Client |-> "loading"]
    /\ offset \in [Client -> FirstOffset]
    /\ ssince = [c \in Client |-> 0]
    /\ ssendtime = [c \in Client |-> 0]
    /\ sdone = [c \in Client |-> FALSE]
    /\ controlsynctime = 0
    /\ scontrolsynctime = [c \in Client |-> 0]
    /\ toMaster = <<>>
    /\ toSlave = [c \in Client |-> <<>>]
    /\ faults = 0

\* When the loop the master is in ends or sends again.
MasterDeadline ==
    CASE mstate \in {"hello", "settle"} -> sendtime + SYNCTIME
      [] mstate \in {"drain", "rest"} -> since + SYNCTIME
      [] mstate = "phases" -> IF done THEN now ELSE sendtime + SYNCTIME
      [] mstate \in {"begin", "start"} -> now
      [] mstate = "startagain" -> controlsynctime + VBLCOUNTER \div 4
      [] mstate = "flush" -> controlsynctime + VBLCOUNTER
      [] mstate = "started" -> now + 1
MasterAt(state) == mstate = state /\ now >= MasterDeadline

MasterReadsInLoops == mstate \in {"hello", "phases", "flush"} \* mutant of MasterReads
\* The loops that read; those that throw away stop doing so at their deadline.
MasterReads ==
    \/ mstate \in {"hello", "phases"}
    \/ mstate \in {"drain", "flush"} /\ now < MasterDeadline
MasterReceives == MasterReads /\ Waiting(toMaster) /\ toMaster' = Tail(toMaster)

\* InitialMasterSync: the clients whose turn comes later get a message.
BeginSync ==
    /\ MasterAt("begin")
    /\ Broadcast([type |-> "sync", phase |-> SYNC_MEMO, clocktime |-> client, delta |-> 0],
                 {c \in Client : c > client})
    /\ sendtime' = now - SYNCTIME
    /\ mstate' = "hello"
    /\ UNCHANGED <<now, client, pkt, since, dtime, deltatime, done, transittimes,
                   controlsynctime, missed, slaveVars, toMaster, faults>>

SendHello ==
    /\ MasterAt("hello")
    /\ SendToSlave(pkt)
    /\ UNCHANGED <<now, mstate, client, pkt, since, dtime, deltatime, done, transittimes,
                   controlsynctime, slaveVars, toMaster>>

\* Other sync packets are ignored: the loop sets SYNC_PHASE0 again.
HelloAnswered ==
    /\ mstate = "hello"
    /\ MasterReceives
    /\ LET answer == Head(toMaster).pkt IN
       IF answer.phase = SYNC_PHASE0
       THEN mstate' = "drain" /\ since' = now ELSE UNCHANGED <<mstate, since>>
    /\ UNCHANGED <<now, client, pkt, sendtime, dtime, deltatime, done, transittimes,
                   controlsynctime, missed, slaveVars, toSlave, faults>>

\* Answers to a hello sent twice, and whatever comes after COM_START.
MasterDiscards ==
    /\ mstate \in {"drain", "flush"}
    /\ MasterReceives
    /\ UNCHANGED <<now, masterVars, slaveVars, toSlave, faults>>

EndDrain ==
    /\ MasterAt("drain")
    /\ mstate' = "rest"
    /\ since' = now
    /\ UNCHANGED <<now, client, pkt, sendtime, dtime, deltatime, done, transittimes,
                   controlsynctime, missed, slaveVars, network>>

EndRest ==
    /\ MasterAt("rest")
    /\ mstate' = "phases"
    /\ done' = FALSE
    /\ pkt' = [pkt EXCEPT !.phase = SYNC_PHASE1]
    /\ sendtime' = now - SYNCTIME
    /\ UNCHANGED <<now, client, since, dtime, deltatime, transittimes, controlsynctime,
                   missed, slaveVars, network>>

\* No answer for SYNCTIME tics: the same packet again.
SendPhase ==
    /\ MasterAt("phases")
    /\ ~done
    /\ SendToSlave(pkt)
    /\ UNCHANGED <<now, mstate, client, pkt, since, dtime, deltatime, done, transittimes,
                   controlsynctime, slaveVars, toMaster>>

OldDelta(answer, average) == answer.delta                \* mutant of Delta
\* How far the slave's clock was ahead when its answer arrived.
Delta(answer, average) == answer.clocktime - now + average \div 2

\* What the master sends next; in the other phases the packet goes back as it is.
MasterPhaseHandler(answer, average) ==
    CASE answer.phase = SYNC_PHASE1 ->
           [answer EXCEPT !.phase = SYNC_PHASE2, !.clocktime = now + average \div 2]
      [] answer.phase = SYNC_PHASE2 -> [answer EXCEPT !.phase = SYNC_PHASE3]
      [] answer.phase = SYNC_PHASE3 ->
           [answer EXCEPT !.phase = SYNC_PHASE4, !.delta = Delta(answer, average)]
      [] answer.phase = SYNC_PHASE4 ->
           [answer EXCEPT !.phase = SYNC_PHASE5, !.delta = Delta(answer, average),
                          !.clocktime = now + SYNCTIME]
      [] answer.phase = SYNC_PHASE5 -> answer

AverageNotDivided(trips, phase) ==                       \* mutant of Average
    FoldFunctionOnSet(+, 0, trips, 0 .. phase)
\* deltatime: the average round trip of the phases so far.
Average(trips, phase) == FoldFunctionOnSet(+, 0, trips, 0 .. phase) \div (phase + 1)

\* SYNC_PHASE5 is sent but not answered.
LastAnswered == SYNC_PHASE4

\* An answer in SYNC_PHASE0 would index dtime out of its bounds: the model has
\* no step for it.
PhaseAnswered ==
    /\ mstate = "phases"
    /\ MasterReceives
    /\ LET answer == Head(toMaster).pkt
           trips == [dtime EXCEPT ![answer.phase] = now - sendtime]
           average == Average(trips, answer.phase)
           next == MasterPhaseHandler(answer, average)
       IN /\ answer.phase \in DOMAIN dtime
          /\ dtime' = trips
          /\ deltatime' = average
          /\ pkt' = next
          /\ done' = (answer.phase = LastAnswered)
          /\ SendToSlave(next)
    /\ UNCHANGED <<now, mstate, client, since, transittimes, controlsynctime, slaveVars>>

\* SendSyncPacket has set sendtime to the present, so SyncTime throws nothing
\* away at its end.
LeaveSync ==
    /\ MasterAt("phases")
    /\ done
    /\ mstate' = "settle"
    /\ UNCHANGED <<now, client, pkt, sendtime, since, dtime, deltatime, done, transittimes,
                   controlsynctime, missed, slaveVars, network>>

OneClientTooMany == client < numplayers                  \* mutants of MoreClients
OneClientTooFew == client + 2 < numplayers
MoreClients == client + 1 < numplayers
\* SetTransitTime, and on to the next client.
EndSettle ==
    /\ MasterAt("settle")
    /\ transittimes' = [transittimes EXCEPT ![client] = deltatime \div 2]
    /\ IF MoreClients
       THEN mstate' = "begin" /\ client' = client + 1
       ELSE mstate' = "start" /\ UNCHANGED client
    /\ pkt' = FreshPkt /\ dtime' = FreshTimes /\ deltatime' = 0
    /\ sendtime' = 0 /\ since' = 0
    /\ UNCHANGED <<now, done, controlsynctime, missed, slaveVars, network>>

StartPktOfNow(time) == [type |-> "start", clocktime |-> now] \* mutant of StartPkt
StartPkt(time) == [type |-> "start", clocktime |-> time]

SendStart ==
    /\ MasterAt("start")
    /\ Broadcast(StartPkt(now), Client)
    /\ controlsynctime' = now
    /\ mstate' = "startagain"
    /\ UNCHANGED <<now, client, pkt, sendtime, since, dtime, deltatime, done, transittimes,
                   missed, slaveVars, toMaster, faults>>

\* A client that still throws packets away misses the first.
SendStartAgain ==
    /\ MasterAt("startagain")
    /\ Broadcast(StartPkt(controlsynctime), Client)
    /\ mstate' = "flush"
    /\ UNCHANGED <<now, client, pkt, sendtime, since, dtime, deltatime, done, transittimes,
                   controlsynctime, missed, slaveVars, toMaster, faults>>

MasterStarted ==
    /\ MasterAt("flush")
    /\ mstate' = "started"
    /\ UNCHANGED <<now, client, pkt, sendtime, since, dtime, deltatime, done, transittimes,
                   controlsynctime, missed, slaveVars, network>>
-----------------------------------------------------------------------------
(* The slaves                                                              *)

Clock(c) == now + offset[c]

SlaveDeadline(c) ==
    CASE sstate[c] = "loading" -> LastEntry + offset[c]
      [] sstate[c] = "drain" -> ssince[c] + SYNCTIME
      [] sstate[c] = "phases" -> IF sdone[c] THEN Clock(c) ELSE Clock(c) + 1
      [] sstate[c] = "settle" -> ssendtime[c] + SYNCTIME
      [] sstate[c] = "flush" -> scontrolsynctime[c] + VBLCOUNTER
      [] sstate[c] \in {"hello", "waitstart", "started"} -> Clock(c) + 1
SlaveAt(c, state) == sstate[c] = state /\ Clock(c) >= SlaveDeadline(c)

\* The mutant goes on throwing away as long as SyncTime takes.
SlaveDiscardingLonger(c) == sstate[c] \in {"drain", "flush", "settle"} /\ Clock(c) < SlaveDeadline(c)
\* The loops that throw packets away, and until when.
SlaveDiscarding(c) ==
    \/ sstate[c] \in {"drain", "flush"} /\ Clock(c) < SlaveDeadline(c)
    \/ sstate[c] = "settle" /\ Clock(c) < ssendtime[c]
SlaveReads(c) == sstate[c] \in {"hello", "phases", "waitstart"} \/ SlaveDiscarding(c)
SlaveReceives(c) ==
    /\ SlaveReads(c) /\ Waiting(toSlave[c])
    /\ toSlave' = [toSlave EXCEPT ![c] = Tail(@)]

\* The client has loaded the level and calls ComSetTime.
Enter(c) ==
    /\ sstate[c] = "loading"
    /\ sstate' = [sstate EXCEPT ![c] = "hello"]
    /\ UNCHANGED <<now, masterVars, offset, ssince, ssendtime, sdone, scontrolsynctime, network>>

\* InitialSlaveSync: SYNC_MEMO is shown only.
Greeted(c) ==
    /\ sstate[c] = "hello"
    /\ SlaveReceives(c)
    /\ LET hello == Head(toSlave[c]).pkt IN
       IF hello.type = "sync" /\ hello.phase = SYNC_PHASE0
       THEN /\ SendToMaster(hello)
            /\ sstate' = [sstate EXCEPT ![c] = "drain"]
            /\ ssince' = [ssince EXCEPT ![c] = Clock(c)]
       ELSE UNCHANGED <<sstate, ssince, toMaster, faults>>
    /\ UNCHANGED <<now, masterVars, offset, ssendtime, sdone, scontrolsynctime>>

SlaveDiscards(c) ==
    /\ SlaveDiscarding(c)
    /\ SlaveReceives(c)
    /\ UNCHANGED <<now, masterVars, slaveVars, toMaster, faults>>

SlaveEndDrain(c) ==
    /\ SlaveAt(c, "drain")
    /\ sstate' = [sstate EXCEPT ![c] = "phases"]
    /\ UNCHANGED <<now, masterVars, offset, ssince, ssendtime, sdone, scontrolsynctime, network>>

\* SlavePhaseHandler: how the clock is moved.
SetOffset(c, p) ==
    CASE p.phase = SYNC_PHASE2 -> p.clocktime - now
      [] p.phase \in {SYNC_PHASE4, SYNC_PHASE5} -> offset[c] - p.delta
      [] OTHER -> offset[c]

\* Everything but SYNC_PHASE5 is answered, with the clock in the phases 3 and 4.
SlavePhase(c) ==
    /\ sstate[c] = "phases"
    /\ SlaveReceives(c)
    /\ LET p == Head(toSlave[c]).pkt
           clock == now + SetOffset(c, p)
       IN IF p.type # "sync"
          THEN UNCHANGED <<offset, ssendtime, sdone, toMaster, faults>>
          ELSE /\ offset' = [offset EXCEPT ![c] = SetOffset(c, p)]
               /\ sdone' = [sdone EXCEPT ![c] = p.phase = SYNC_PHASE5]
               /\ IF p.phase = SYNC_PHASE5
                  THEN /\ ssendtime' = [ssendtime EXCEPT ![c] = p.clocktime]
                       /\ UNCHANGED <<toMaster, faults>>
                  ELSE /\ SendToMaster(IF p.phase \in {SYNC_PHASE3, SYNC_PHASE4}
                                       THEN [p EXCEPT !.clocktime = clock] ELSE p)
                       /\ UNCHANGED ssendtime
    /\ UNCHANGED <<now, masterVars, sstate, ssince, scontrolsynctime>>

SlaveLeaveSync(c) ==
    /\ SlaveAt(c, "phases")
    /\ sstate' = [sstate EXCEPT ![c] = "settle"]
    /\ UNCHANGED <<now, masterVars, offset, ssince, ssendtime, sdone, scontrolsynctime, network>>

SlaveEndSettle(c) ==
    /\ SlaveAt(c, "settle")
    /\ sstate' = [sstate EXCEPT ![c] = "waitstart"]
    /\ ssince' = [ssince EXCEPT ![c] = 0]
    /\ ssendtime' = [ssendtime EXCEPT ![c] = 0]
    /\ UNCHANGED <<now, masterVars, offset, sdone, scontrolsynctime, network>>

\* Only COM_START ends the wait.
SlaveHearsStart(c) ==
    /\ sstate[c] = "waitstart"
    /\ SlaveReceives(c)
    /\ LET p == Head(toSlave[c]).pkt IN
       IF p.type = "start"
       THEN /\ sstate' = [sstate EXCEPT ![c] = "flush"]
            /\ scontrolsynctime' = [scontrolsynctime EXCEPT ![c] = p.clocktime]
       ELSE UNCHANGED <<sstate, scontrolsynctime>>
    /\ UNCHANGED <<now, masterVars, offset, ssince, ssendtime, sdone, toMaster, faults>>

SlaveStarted(c) ==
    /\ SlaveAt(c, "flush")
    /\ sstate' = [sstate EXCEPT ![c] = "started"]
    /\ UNCHANGED <<now, masterVars, offset, ssince, ssendtime, sdone, scontrolsynctime, network>>
-----------------------------------------------------------------------------
Master ==
    \/ BeginSync \/ SendHello \/ HelloAnswered \/ MasterDiscards \/ EndDrain \/ EndRest
    \/ SendPhase \/ PhaseAnswered \/ LeaveSync \/ EndSettle
    \/ SendStart \/ SendStartAgain \/ MasterStarted

Slave(c) ==
    \/ Enter(c) \/ Greeted(c) \/ SlaveDiscards(c) \/ SlaveEndDrain(c)
    \/ SlavePhase(c) \/ SlaveLeaveSync(c) \/ SlaveEndSettle(c)
    \/ SlaveHearsStart(c) \/ SlaveStarted(c)

Started == mstate = "started" /\ \A c \in Client : sstate[c] = "started"

\* A tic passes when no program has anything to do in this one.
Tick ==
    /\ now < MaxTime
    /\ ~Started
    /\ now < MasterDeadline
    /\ ~(MasterReads /\ Waiting(toMaster))
    /\ \A c \in Client : Clock(c) < SlaveDeadline(c) /\ ~(SlaveReads(c) /\ Waiting(toSlave[c]))
    /\ now' = now + 1
    /\ UNCHANGED <<masterVars, slaveVars, network>>

\* The game has begun everywhere, or the bound is reached.
Stopped == (Started \/ now = MaxTime) /\ UNCHANGED vars

Next == Master \/ Tick \/ Stopped \/ \E c \in Client : Slave(c)

Spec == Init /\ [][Next]_vars
-----------------------------------------------------------------------------
(* Properties                                                              *)

\* The longest time a packet travels when nothing goes wrong.
MaxTransit == CHOOSE t \in Transit : \A u \in Transit : u <= t

\* Type correctness of every variable.
TypeOK ==
    /\ now \in Nat
    /\ mstate \in {"begin", "hello", "drain", "rest", "phases", "settle", "start",
                   "startagain", "flush", "started"}
    /\ client \in Client
    /\ pkt \in SyncPacket
    /\ sendtime \in Int /\ since \in Nat
    /\ dtime \in [0 .. NUMSYNCPHASES - 1 -> Nat]
    /\ deltatime \in Nat
    /\ done \in BOOLEAN
    /\ transittimes \in [Client -> Nat]
    /\ missed \in SUBSET Client
    /\ sstate \in [Client -> {"loading", "hello", "drain", "phases", "settle", "waitstart",
                              "flush", "started"}]
    /\ offset \in [Client -> Int] /\ ssince \in [Client -> Int] /\ ssendtime \in [Client -> Int]
    /\ sdone \in [Client -> BOOLEAN]
    /\ controlsynctime \in Nat /\ scontrolsynctime \in [Client -> Nat]
    /\ toMaster \in Seq([pkt : SyncPacket, due : Nat])
    /\ toSlave \in [Client -> Seq([pkt : SyncPacket \cup StartPacket, due : Nat])]
    /\ faults \in 0 .. MaxFaults

Synchronised(c) == sstate[c] \in {"settle", "waitstart", "flush", "started"}

\* A client that has left SyncTime has the master's clock, up to the time a
\* packet travels: packets sent again move its clock twice or to a time that is
\* over, but SYNC_PHASE5 corrects by the clock in the last answer.
ClocksAgree ==
    \A c \in Client : Synchronised(c) => offset[c] \in -MaxTransit .. MaxTransit

\* In the phases the master gets answers to the phase it sent last: those to a
\* hello sent twice, which would index dtime out of its bounds, are gone, and so
\* is everything of the client before.
AnswersAreCurrent ==
    mstate = "phases" /\ ~done /\ Waiting(toMaster) => Head(toMaster).pkt.phase = pkt.phase

\* GetTransitTime, by which the sync check later predicts when its packets
\* arrive, is a time a packet can travel, however often packets were repeated.
TransitIsMeasured == \A c \in Client : transittimes[c] <= MaxTransit

\* "All players synched.", the message of ComSetTime when COM_START has come
\* (rt_com.c:557), is true but for a client whose SYNC_PHASE5 was lost, which is
\* sent once, is not answered, and leaves the client in SyncTime for ever.  The
\* loss of any other packet is made good in time.
OnlyMissedBehind ==
    (\E c \in Client : sstate[c] \in {"flush", "started"}) =>
        \A c \in Client \ missed : Synchronised(c)

\* When the server begins to run the game every client has heard COM_START and
\* counts its tics from the same time, unless it has missed SYNC_PHASE5.  The
\* first COM_START may meet clients that throw packets away, not the second.
NobodyLate ==
    mstate = "started" => \A c \in Client \ missed :
        sstate[c] \in {"flush", "started"} /\ scontrolsynctime[c] = controlsynctime

\* Every program gets to the game before the bound, although packets of all
\* phases are lost and a client may throw the first COM_START away: a client that
\* has missed SYNC_PHASE5 is left behind, and holds up neither server nor clients.
OthersStart ==
    now = MaxTime =>
        mstate = "started" /\ \A c \in Client \ missed : sstate[c] = "started"
=============================================================================
