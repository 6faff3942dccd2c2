----------------------------- MODULE RottSyncInv -----------------------------
(***************************************************************************)
(* The inductive invariant of RottSync: how old what is on its way can be, *)
(* and what it says about the clocks of both ends.  There is a part for    *)
(* each stage of a client's turn; a client whose turn has not come has     *)
(* sent nothing, and one whose turn is over sends nothing any more.        *)
(***************************************************************************)
EXTENDS RottSync

(* What the invariant needs of the network.                                *)

\* A packet and its answer are faster than SYNCTIME, unless the answer is late.
Prompt ==
    /\ \E t \in Transit : \A u \in Transit : u <= t
    /\ 2 * MaxTransit < SYNCTIME

\* A hello and an answer to it that is late are faster than SYNCTIME too, or
\* only one thing goes wrong.
LateOnce == Late + MaxTransit < SYNCTIME \/ MaxFaults <= 1

\* The second COM_START comes when no client throws packets away any more, and
\* the time until the game is long enough for it and for the last pause of the
\* last client.
StartsFit ==
    /\ MaxTransit <= VBLCOUNTER \div 4
    /\ SYNCTIME + MaxTransit < VBLCOUNTER

NetworkAssumption == Prompt /\ LateOnce
-----------------------------------------------------------------------------
(* Packets on their way                                                    *)

InTimeOrder(queue) == \A i, j \in 1 .. Len(queue) : i <= j => queue[i].due <= queue[j].due
DueBy(queue, t) == \A i \in 1 .. Len(queue) : queue[i].due <= t
DueFrom(queue, t) == \A i \in 1 .. Len(queue) : queue[i].due >= t

IsSync(p, phase) == p.type = "sync" /\ p.phase = phase
IsMemo(p) == IsSync(p, SYNC_MEMO)
IsHello(p) == IsSync(p, SYNC_PHASE0)
IsStart(p) == p = StartPkt(controlsynctime)

Hellos(queue) == \A i \in 1 .. Len(queue) : IsHello(queue[i].pkt)
Memos(queue) == \A i \in 1 .. Len(queue) : IsMemo(queue[i].pkt)
Starts(queue) == \A i \in 1 .. Len(queue) : IsStart(queue[i].pkt)
MemosThenHellos(queue) == \A i, j \in 1 .. Len(queue) :
    /\ IsMemo(queue[i].pkt) \/ IsHello(queue[i].pkt)
    /\ i <= j /\ IsMemo(queue[j].pkt) => IsMemo(queue[i].pkt)

\* A slave in the phases reads a packet in the tic in which it comes.
QueueOK(c) ==
    /\ InTimeOrder(toSlave[c]) /\ DueBy(toSlave[c], now + MaxTransit)
    /\ sstate[c] = "phases" => DueFrom(toSlave[c], now)
-----------------------------------------------------------------------------
(* The hello                                                               *)

\* When slave c began to throw away what comes, on the master's clock.
Answered(c) == ssince[c] - offset[c]

DrainOK(c) == sstate[c] = "drain" =>
    /\ Answered(c) <= now /\ now <= Answered(c) + SYNCTIME
    /\ now > Answered(c) => DueFrom(toSlave[c], now)

\* A late answer may still come, and be longer on its way than the master
\* throws packets away.
LateLeft == faults < MaxFaults /\ ~(Late + MaxTransit < SYNCTIME)

\* The first answer is not late, and the slave answers no second one before
\* it has come.
FirstAnswer(c) ==
    /\ sstate[c] = "drain"
    /\ toMaster # <<>>
    /\ DueBy(toMaster, Answered(c) + MaxTransit)

\* When the first answer has come, the others come within less than SYNCTIME.
AnswersClose ==
    IF Late + MaxTransit < SYNCTIME
    THEN DueBy(toMaster, now + SYNCTIME - 1)
    ELSE \A i \in 1 .. Len(toMaster) :
            toMaster[i].due <= toMaster[1].due + MaxTransit \/ toMaster[i].due <= now + MaxTransit

HelloOK(c) ==
    /\ sstate[c] \in {"loading", "hello", "drain", "phases"} /\ ~sdone[c]
    /\ Hellos(toMaster)
    /\ sstate[c] \in {"loading", "hello"} => toMaster = <<>> /\ MemosThenHellos(toSlave[c])
    /\ sstate[c] \in {"drain", "phases"} => Hellos(toSlave[c])
    /\ LateLeft => sstate[c] \in {"loading", "hello"} \/ FirstAnswer(c)
    /\ AnswersClose

\* The master throws away the answers to the hellos it sent in vain.
MasterDrainOK(c) ==
    /\ since <= now /\ now <= since + SYNCTIME
    /\ sstate[c] \in {"drain", "phases"} /\ ~sdone[c]
    /\ sstate[c] = "drain" => Answered(c) <= since
    /\ Hellos(toMaster) /\ DueBy(toMaster, since + SYNCTIME - 1)
    /\ Hellos(toSlave[c]) /\ DueBy(toSlave[c], since + MaxTransit)
    /\ LateLeft => \/ sstate[c] = "drain" /\ since <= Answered(c) + MaxTransit
                   \/ sstate[c] = "phases" /\ toSlave[c] = <<>>

RestOK(c) ==
    /\ since <= now /\ now <= since + SYNCTIME
    /\ sstate[c] \in {"drain", "phases"} /\ ~sdone[c]
    /\ sstate[c] = "drain" => Answered(c) + SYNCTIME <= since
    /\ toMaster = <<>> /\ toSlave[c] = <<>>
-----------------------------------------------------------------------------
(* The phases                                                              *)

Near(t) == t \in -MaxTransit .. MaxTransit

\* The packet the master sent last is on its way to the slave.
OutboundOK(c) ==
    /\ Len(toSlave[c]) = 1 /\ toMaster = <<>>
    /\ toSlave[c][1].pkt = pkt
    /\ toSlave[c][1].due <= sendtime + MaxTransit

\* The answer is on its way to the master.  That to SYNC_PHASE4 tells by how
\* much the slave's clock is ahead.
InboundOK(c) ==
    /\ Len(toMaster) = 1 /\ toSlave[c] = <<>>
    /\ IsSync(toMaster[1].pkt, pkt.phase)
    /\ toMaster[1].due <= sendtime + 2 * MaxTransit
    /\ pkt.phase = SYNC_PHASE4 =>
          toMaster[1].due - (toMaster[1].pkt.clocktime - offset[c]) \in 0 .. MaxTransit

PingPongOK(c) ==
    /\ pkt.phase \in SYNC_PHASE1 .. SYNC_PHASE4
    /\ sstate[c] = "phases" /\ ~sdone[c]
    /\ sendtime <= now /\ now <= sendtime + SYNCTIME
    /\ \/ toMaster = <<>> /\ toSlave[c] = <<>>
       \/ OutboundOK(c)
       \/ InboundOK(c)

\* The slave's clock is set: once SYNC_PHASE5 has come, or for ever if not.
LeavingOK(c) ==
    /\ pkt.phase = SYNC_PHASE5 /\ toMaster = <<>>
    /\ sendtime <= now /\ now <= sendtime + SYNCTIME
    /\ pkt.clocktime = sendtime + SYNCTIME
    /\ \/ /\ sstate[c] = "phases" /\ ~sdone[c]
          /\ OutboundOK(c) /\ Near(offset[c] - pkt.delta)
       \/ /\ sstate[c] = "phases" /\ ~sdone[c]
          /\ toSlave[c] = <<>> /\ SYNC_PHASE5 \in Lossy
       \/ /\ \/ sstate[c] = "phases" /\ sdone[c] /\ now <= sendtime + MaxTransit
             \/ sstate[c] = "settle"
          /\ toSlave[c] = <<>> /\ Near(offset[c])
          /\ ssendtime[c] = sendtime + SYNCTIME

TimesOK ==
    /\ dtime \in [0 .. NUMSYNCPHASES - 1 -> 0 .. 2 * MaxTransit]
    /\ deltatime \in 0 .. 2 * MaxTransit
    /\ \A c \in Client : transittimes[c] <= MaxTransit
-----------------------------------------------------------------------------
(* Before and after                                                        *)

Starting == mstate \in {"start", "startagain", "flush", "started"}
StartSent == mstate \in {"startagain", "flush", "started"}

\* The turn of client c has not come, is, and is over.
Later(c) == ~Starting /\ (c > client \/ (c = client /\ mstate = "begin"))
Current(c) == ~Starting /\ c = client /\ mstate # "begin"
Earlier(c) == Starting \/ c < client

LaterOK(c) ==
    /\ sstate[c] \in {"loading", "hello"} /\ ~sdone[c]
    /\ Memos(toSlave[c])

CurrentOK(c) ==
    /\ mstate = "hello" => HelloOK(c) /\ pkt = FreshPkt /\ sendtime <= now
    /\ mstate = "drain" => MasterDrainOK(c) /\ pkt = FreshPkt
    /\ mstate = "rest" => RestOK(c) /\ pkt = FreshPkt
    /\ mstate = "phases" /\ ~done => PingPongOK(c)
    /\ mstate = "phases" /\ done => LeavingOK(c) /\ now = sendtime
    /\ mstate = "settle" => LeavingOK(c)

EarlierOK(c) ==
    /\ \/ sstate[c] = "phases" /\ ~sdone[c] /\ SYNC_PHASE5 \in Lossy
       \/ Synchronised(c) /\ Near(offset[c])
    /\ IF StartSent THEN Starts(toSlave[c]) ELSE toSlave[c] = <<>>
    /\ sstate[c] \in {"flush", "started"} => StartSent

ClientOK(c) ==
    /\ QueueOK(c)
    /\ DrainOK(c)
    /\ Later(c) => LaterOK(c)
    /\ Current(c) => CurrentOK(c)
    /\ Earlier(c) => EarlierOK(c)

\* The master too reads in time, and between the turns there is nothing to read.
MasterOK ==
    /\ InTimeOrder(toMaster) /\ DueFrom(toMaster, now)
    /\ mstate = "begin" => pkt = FreshPkt
    /\ mstate = "begin" \/ Starting => toMaster = <<>>

\* The inductive invariant.
SyncInv == TypeOK /\ MasterOK /\ (\A c \in Client : ClientOK(c)) /\ TimesOK
-----------------------------------------------------------------------------
(* Clients that are left behind                                            *)

\* The master has sent SYNC_PHASE5, and waits for nothing more from the client.
TurnDone == mstate = "settle" \/ (mstate = "phases" /\ done)

\* The master is done with c, which waits for a SYNC_PHASE5 that does not come.
Behind(c) ==
    /\ sstate[c] = "phases" /\ ~sdone[c]
    /\ Earlier(c) \/ (TurnDone /\ c = client /\ toSlave[c] = <<>>)
Left == {c \in Client : Behind(c)}

\* Each of them has missed SYNC_PHASE5.
LeftInv == Left \subseteq missed
-----------------------------------------------------------------------------
(* The start of the game                                                   *)

StartTimesOK ==
    /\ StartSent => controlsynctime <= now
    /\ mstate = "startagain" => now <= controlsynctime + VBLCOUNTER \div 4
    /\ mstate = "flush" => /\ controlsynctime + VBLCOUNTER \div 4 <= now
                           /\ now <= controlsynctime + VBLCOUNTER

\* The last pause of a client began before the game was started.
SettleOK(c) == Earlier(c) /\ sstate[c] = "settle" =>
    /\ ssendtime[c] <= (IF StartSent THEN controlsynctime ELSE now)
    /\ Clock(c) <= ssendtime[c] + SYNCTIME

\* A client that waits for COM_START reads in time, or has only just left the
\* pause in which it did not read.
WaiterOK(c) == StartSent /\ sstate[c] = "waitstart" =>
    \/ DueFrom(toSlave[c], now)
    \/ now <= controlsynctime + SYNCTIME + MaxTransit

\* What a client that has not heard COM_START yet is going to read.
StillWaiting(c) ==
    /\ sstate[c] \in {"settle", "waitstart"}
    /\ toSlave[c] # <<>>
    /\ DueBy(toSlave[c], controlsynctime + VBLCOUNTER \div 4 + MaxTransit)

Heard(c) == sstate[c] \in {"flush", "started"} /\ scontrolsynctime[c] = controlsynctime

HearingOK(c) ==
    /\ sstate[c] \in {"flush", "started"} => Heard(c)
    /\ mstate = "flush" /\ Synchronised(c) => StillWaiting(c) \/ Heard(c)
    /\ mstate = "started" /\ Synchronised(c) => Heard(c)

StartOK(c) == SettleOK(c) /\ WaiterOK(c) /\ HearingOK(c)

\* The part of the invariant about the start.
StartInv == StartTimesOK /\ \A c \in Client : StartOK(c)
-----------------------------------------------------------------------------
(* How long all this takes                                                 *)

\* A turn in which nothing goes wrong: the three pauses, the hello and four
\* phases, each with its answer.
TurnTime == 3 * SYNCTIME + 10 * MaxTransit

\* What a lost or late packet costs at most: the slave throws the next hello
\* away until SYNCTIME after its answer, and the one after it comes SYNCTIME later.
FaultTime == IF Late > 2 * SYNCTIME + MaxTransit THEN Late ELSE 2 * SYNCTIME + MaxTransit

\* When the turn of the client begins, at the latest; what goes wrong in it counts too.
TurnBegin == LastEntry + client * TurnTime + faults * FaultTime

HelloDue ==
    \E i \in 1 .. Len(toSlave[client]) :
        IsHello(toSlave[client][i].pkt) /\ toSlave[client][i].due <= TurnBegin + MaxTransit
HelloComes == HelloDue \/ sendtime + SYNCTIME <= TurnBegin

\* The answer is on its way, or has been lost and the slave throws packets away,
\* or a hello is on its way, or soon will be.
HelloPace ==
    /\ now <= sendtime + SYNCTIME
    /\ toMaster # <<>> => toMaster[1].due <= TurnBegin + 2 * MaxTransit
    /\ toMaster = <<>> =>
          IF sstate[client] = "drain"
          THEN Answered(client) + FaultTime <= TurnBegin + MaxTransit
          ELSE now <= TurnBegin + MaxTransit /\ HelloComes

\* When the answer to the packet sent last comes, at the latest.
PhaseEnd == TurnBegin + 2 * SYNCTIME + (pkt.phase + 1) * 2 * MaxTransit

PhasePace ==
    /\ sendtime <= PhaseEnd
    /\ toMaster = <<>> /\ toSlave[client] = <<>> => sendtime + SYNCTIME <= PhaseEnd

PaceOK ==
    /\ mstate = "begin" => now <= TurnBegin
    /\ mstate = "hello" => HelloPace
    /\ mstate = "drain" => since <= TurnBegin + 2 * MaxTransit
    /\ mstate = "rest" => since <= TurnBegin + SYNCTIME + 2 * MaxTransit
    /\ mstate = "phases" /\ ~done => PhasePace
    /\ mstate = "settle" \/ (mstate = "phases" /\ done) =>
          sendtime <= TurnBegin + 2 * SYNCTIME + 10 * MaxTransit
    /\ mstate = "start" => now <= TurnBegin + TurnTime
    /\ StartSent => controlsynctime <= TurnBegin + TurnTime

FlushPace(c) == sstate[c] = "flush" => now <= controlsynctime + VBLCOUNTER + MaxTransit

\* The part of the invariant about the time everything takes.
PaceInv == PaceOK /\ \A c \in Client : FlushPace(c)

\* The last tic in which a program may still not be in the game.
LastMoment == LastEntry + numplayers * TurnTime + MaxFaults * FaultTime + VBLCOUNTER + MaxTransit
TimeEnough == MaxTime > LastMoment
=============================================================================
