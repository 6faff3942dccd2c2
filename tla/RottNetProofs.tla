---------------------------- MODULE RottNetProofs ----------------------------
(***************************************************************************)
(* Theorems about RottNet, for every set of players, ring size, lead of    *)
(* the clients and number of faults: first who made what is on its way and *)
(* in the rings, then in which order: what is on its way is in sequence,   *)
(* whatever is lost, damaged, requested and sent again, and however far a  *)
(* client runs ahead.                                                      *)
(***************************************************************************)
EXTENDS RottNetFresh, SequenceTheorems, WellFoundedInduction, TLAPS

-----------------------------------------------------------------------------
(* Lemmas about the operators                                              *)

\* Every time, also one before the game, addresses a slot.
LEMMA AddressInRing ==
    ASSUME NEW t \in Int
    PROVE  CommandAddress(t) \in Slot
BY RottNetAssumption, SMT DEF CommandAddress, Slot

\* The fill left by memset is a command, and its time is no tic.
LEMMA FillIsCommand == Fill \in Command /\ FillTime \in Int /\ FillTime < 0
BY RottNetAssumption DEF Fill, FillTime, Command

\* A driver queue holds packets of the same kind after one was written.
LEMMA QueuedType ==
    ASSUME NEW S, NEW queue \in Seq(S), NEW packet \in S
    PROVE  Queued(queue, packet) \in Seq(S)
BY AppendProperties DEF Queued

\* What is read from a driver queue, and what stays in it.
LEMMA ReadType ==
    ASSUME NEW S, NEW queue \in Seq(S), queue # <<>>
    PROVE  Head(queue) \in S /\ Tail(queue) \in Seq(S)
BY HeadTailProperties

\* A fixup carries what the ring holds.
LEMMA FixupSubs ==
    ASSUME NEW S, NEW ring \in [Slot -> S], NEW t \in Int, NEW n \in Nat
    PROVE  [i \in 1 .. n |-> ring[CommandAddress(t + i - 1)]] \in Seq(S)
<1>1. \A i \in 1 .. n : CommandAddress(t + i - 1) \in Slot
  BY AddressInRing
<1> DEFINE s == [i \in 1 .. n |-> ring[CommandAddress(t + i - 1)]]
<1>2. s \in [1 .. n -> S]
  BY <1>1
<1>3. Seq(S) = UNION {[1 .. m -> S] : m \in Nat}
  BY SeqDef
<1> HIDE DEF s
<1>4. s \in Seq(S)
  BY <1>2, <1>3
<1> QED
  BY <1>4 DEF s

\* The last sub-packet that lands on a slot exists.
LEMMA LatestExists ==
    ASSUME NEW n \in Nat, NEW S, S \subseteq 1 .. n, S # {}
    PROVE  Latest(S) \in S
<1>0. \A i \in S : i \in Int /\ 1 <= i /\ i <= n
  OBVIOUS
<1> DEFINE Distance == {n - i : i \in S}
<1>1. Distance \subseteq Nat
  <2>1. \A i \in S : n - i \in Nat
    BY <1>0
  <2> QED
    BY <2>1
<1>2. Distance # {}
  OBVIOUS
<1>3. PICK d \in Distance : \A e \in Distance : ~ <<e, d>> \in OpToRel(<, Nat)
  <2> HIDE DEF Distance
  <2> QED
    BY <1>1, <1>2, NatLessThanWellFounded, WFMin
<1>4. \A e \in Distance : ~ e < d
  BY <1>1, <1>3 DEF OpToRel
<1>5. PICK i \in S : d = n - i
  BY <1>3
<1>6. \A j \in S : j <= i
  <2> SUFFICES ASSUME NEW j \in S PROVE j <= i
    OBVIOUS
  <2>1. n - j \in Distance
    OBVIOUS
  <2>2. ~ n - j < n - i
    BY <1>4, <1>5, <2>1
  <2> HIDE DEF Distance
  <2> QED
    BY <1>0, <2>2
<1> QED
  BY <1>6 DEF Latest

\* Marking slots and resetting them keeps a status per slot.
LEMMA StatusType ==
    ASSUME NEW status \in [Slot -> Status], NEW t \in Int
    PROVE  /\ \A n \in Int : MarkFixing(status, t, n) \in [Slot -> Status]
           /\ NotArrived(status, t) \in [Slot -> Status]
           /\ \A fix : FixedStatus(status, fix) \in [Slot -> Status]
           /\ [status EXCEPT ![CommandAddress(t)] = "ready"] \in [Slot -> Status]
BY AddressInRing DEF MarkFixing, NotArrived, FixedStatus, Status
-----------------------------------------------------------------------------
(* Lemmas about queues and packets                                         *)

\* What is made stays made as long as no player makes another command.
LEMMA SameMade ==
    ASSUME UNCHANGED submitted
    PROVE  /\ \A p \in Player : Made(p)' = Made(p) /\ UpPacket(p)' = UpPacket(p)
           /\ MadePacket' = MadePacket
           /\ DownPacket' = DownPacket
BY DEF Made, MadePacket, UpPacket, DownPacket

\* Made commands are commands, and what a made command says about its maker.
LEMMA MadeIsCommand ==
    ASSUME SubmittedOK, NEW p \in Player, NEW c \in Made(p)
    PROVE  /\ c \in Command
           /\ c.time \in Int
           /\ c.time \in Nat => c.time < controlupdatetime[p]
<1>1. CASE c = Fill
  BY <1>1, FillIsCommand DEF Fill
<1>2. CASE c # Fill
  <2>1. PICK i \in 1 .. Len(submitted[p]) : c = submitted[p][i]
    BY <1>2, LenProperties DEF Made, SubmittedOK
  <2>2. c \in Command /\ c.time = i - 1 /\ i <= controlupdatetime[p]
    BY <2>1, ElementOfSeq DEF SubmittedOK
  <2>3. i \in Nat /\ Len(submitted[p]) \in Nat
    BY LenProperties DEF SubmittedOK
  <2> QED
    BY <2>2, <2>3 DEF SubmittedOK
<1> QED
  BY <1>1, <1>2

\* A client writes a packet.
LEMMA WriteUp ==
    ASSUME QueuesOK, NEW p \in Player, NEW packet \in UpPacket(p), WriteToServer(p, packet)
    PROVE  /\ toServer' = [q \in Player |-> toServer'[q]]
           /\ \A q \in Player : toServer'[q] \in Seq(UpPacket(q))
<1>1. Queued(toServer[p], packet) \in Seq(UpPacket(p))
  BY QueuedType DEF QueuesOK
<1> QED
  BY <1>1 DEF QueuesOK, WriteToServer

\* The server writes a packet.
LEMMA WriteDown ==
    ASSUME QueuesOK, NEW p \in Player, NEW packet \in DownPacket, WriteToClient(p, packet)
    PROVE  /\ toClient' = [q \in Player |-> toClient'[q]]
           /\ \A q \in Player : toClient'[q] \in Seq(DownPacket)
<1>1. Queued(toClient[p], packet) \in Seq(DownPacket)
  BY QueuedType DEF QueuesOK
<1> QED
  BY <1>1 DEF QueuesOK, WriteToClient

\* The server takes the head of a queue.
LEMMA ReadUp ==
    ASSUME QueuesOK, NEW p \in Player, toServer[p] # <<>>,
           toServer' = [toServer EXCEPT ![p] = Tail(@)]
    PROVE  /\ Head(toServer[p]) \in UpPacket(p)
           /\ toServer' = [q \in Player |-> toServer'[q]]
           /\ \A q \in Player : toServer'[q] \in Seq(UpPacket(q))
<1>1. Head(toServer[p]) \in UpPacket(p) /\ Tail(toServer[p]) \in Seq(UpPacket(p))
  BY ReadType DEF QueuesOK
<1> QED
  BY <1>1 DEF QueuesOK

\* A client takes the head of its queue.
LEMMA ReadDown ==
    ASSUME QueuesOK, NEW p \in Player, toClient[p] # <<>>,
           toClient' = [toClient EXCEPT ![p] = Tail(@)]
    PROVE  /\ Head(toClient[p]) \in DownPacket
           /\ toClient' = [q \in Player |-> toClient'[q]]
           /\ \A q \in Player : toClient'[q] \in Seq(DownPacket)
<1>1. Head(toClient[p]) \in DownPacket /\ Tail(toClient[p]) \in Seq(DownPacket)
  BY ReadType DEF QueuesOK
<1> QED
  BY <1>1 DEF QueuesOK

\* What a packet of each type carries.
LEMMA UpFields ==
    ASSUME NEW p \in Player, NEW m \in UpPacket(p)
    PROVE  /\ m.type = "command" => m.cmd \in Made(p)
           /\ m.type = "request" => m.time \in Int /\ m.numpackets \in Nat
           /\ m.type = "fixup" => m.time \in Int /\ m.subs \in Seq(Made(p))
BY DEF UpPacket, RequestPacket

LEMMA DownFields ==
    ASSUME NEW m \in DownPacket
    PROVE  /\ m.type = "server" => m.pkt \in MadePacket
           /\ m.type = "request" => m.time \in Int /\ m.numpackets \in Nat
           /\ m.type = "fixup" => m.time \in Int /\ m.subs \in Seq(MadePacket)
BY DEF DownPacket, RequestPacket

\* A request is a packet in both directions; numpackets is a byte.
LEMMA RequestIsPacket ==
    ASSUME NEW t \in Int, NEW n \in Int
    PROVE  Request(t, n) \in RequestPacket
<1>1. n % ByteSize \in Nat
  BY RottNetAssumption, SMT
<1> QED
  BY <1>1 DEF Request, RequestPacket
-----------------------------------------------------------------------------
(* The invariant holds initially and every action keeps it                 *)

LEMMA InitInv == Init => IInv
<1> SUFFICES ASSUME Init PROVE IInv
  OBVIOUS
<1> USE FillIsCommand
<1>0. CommandAddress(0) \in Slot /\ \A p \in Player : Made(p) = {Fill}
  <2>1. \A p \in Player : DOMAIN submitted[p] = {}
    <3> SUFFICES ASSUME NEW p \in Player PROVE DOMAIN submitted[p] = {}
      OBVIOUS
    <3>1. submitted[p] \in Seq(Nat) /\ Len(submitted[p]) = 0
      BY EmptySeq DEF Init
    <3>2. DOMAIN submitted[p] = 1 .. 0
      BY <3>1, LenProperties
    <3> QED
      BY <3>2
  <2> QED
    BY <2>1, AddressInRing DEF Made
<1>1. TypeOK
  <2>1. EmptyPacket \in ServerPacket
    BY DEF EmptyPacket, ServerPacket
  <2>2. /\ ServerCommandStatus \in [Player -> [Slot -> Status]]
        /\ ClientCommandStatus \in [Player -> [Slot -> Status]]
    BY DEF Init, Status
  <2>3. /\ LocalCmds \in [Player -> [Slot -> Command]]
        /\ ClientCmds \in [Player -> [Slot -> Command]]
        /\ ServerCmds \in [Slot -> ServerPacket]
        /\ PlayerCmds \in [Player -> [Player -> [Slot -> Command]]]
    BY <2>1 DEF Init
  <2>4. /\ LastCommandTime \in [Player -> Int]
        /\ ServerLastCommandTime \in [Player -> Int]
    BY DEF Init
  <2> QED
    BY <2>2, <2>3, <2>4 DEF Init, TypeOK
<1>2. SubmittedOK
  BY EmptySeq DEF Init, SubmittedOK
<1>3. ClientRingsOK
  BY <1>0 DEF Init, ClientRingsOK
<1>4. ServerRingsOK
  BY <1>0 DEF Init, ServerRingsOK, EmptyPacket, ServerPacket, MadePacket
<1>5. QueuesOK
  BY EmptySeq DEF Init, QueuesOK
<1>6. SimulatedOK
  BY EmptySeq DEF Init, SimulatedOK
<1>7. AheadOK
  BY DEF Init, AheadOK, ServerNeverAhead
<1> QED
  BY <1>1, <1>2, <1>3, <1>4, <1>5, <1>6, <1>7 DEF IInv

\* PrepareLocalPacket is the only action that makes a command.
LEMMA PrepareLocalPacketInv ==
    ASSUME IInv, NEW p \in Player, PrepareLocalPacket(p)
    PROVE  IInv'
<1> USE DEF IInv
<1>1. PICK k \in Kind : LET cmd == [time |-> controlupdatetime[p], kind |-> k] IN
          /\ LocalCmds' = [LocalCmds EXCEPT ![p][CommandAddress(cmd.time)] = cmd]
          /\ WriteToServer(p, CommandPacket(cmd))
          /\ submitted' = [submitted EXCEPT ![p] = Append(@, cmd)]
  BY DEF PrepareLocalPacket
<1> DEFINE cmd == [time |-> controlupdatetime[p], kind |-> k]
<1>2. /\ cmd \in Command
      /\ CommandAddress(cmd.time) \in Slot
      /\ controlupdatetime[p] \in Nat
      /\ controlupdatetime' = [controlupdatetime EXCEPT ![p] = @ + 1]
  BY AddressInRing DEF Command, TypeOK, PrepareLocalPacket
<1>3. /\ LocalCmds' = [LocalCmds EXCEPT ![p][CommandAddress(cmd.time)] = cmd]
      /\ WriteToServer(p, CommandPacket(cmd))
      /\ submitted' = [submitted EXCEPT ![p] = Append(@, cmd)]
  BY <1>1
<1> HIDE DEF cmd
<1>4. SubmittedOK'
  <2>1. /\ submitted[p] \in Seq(Command)
        /\ Len(submitted[p]) = controlupdatetime[p]
        /\ \A i \in 1 .. Len(submitted[p]) : submitted[p][i].time = i - 1
    BY DEF SubmittedOK
  <2>2. /\ Append(submitted[p], cmd) \in Seq(Command)
        /\ Len(Append(submitted[p], cmd)) = controlupdatetime[p] + 1
        /\ \A i \in 1 .. Len(submitted[p]) : Append(submitted[p], cmd)[i] = submitted[p][i]
        /\ Append(submitted[p], cmd)[Len(submitted[p]) + 1] = cmd
    BY <1>2, <2>1, AppendProperties
  <2>3. cmd.time = controlupdatetime[p]
    BY DEF cmd
  <2>4. \A i \in 1 .. controlupdatetime[p] + 1 : Append(submitted[p], cmd)[i].time = i - 1
    BY <1>2, <2>1, <2>2, <2>3
  <2> QED
    BY <1>2, <1>3, <2>2, <2>4 DEF SubmittedOK, TypeOK
<1>5. \A q \in Player : Made(q) \subseteq Made(q)' /\ cmd \in Made(p)'
  <2>1. \A i \in DOMAIN submitted[p] : /\ i \in DOMAIN Append(submitted[p], cmd)
                                       /\ Append(submitted[p], cmd)[i] = submitted[p][i]
    BY <1>2, AppendProperties, LenProperties DEF SubmittedOK
  <2>2. \E i \in DOMAIN Append(submitted[p], cmd) : Append(submitted[p], cmd)[i] = cmd
    <3>1. Append(submitted[p], cmd) \in Seq(Command)
      BY <1>2, AppendProperties DEF SubmittedOK
    <3>2. /\ DOMAIN Append(submitted[p], cmd) = 1 .. Len(submitted[p]) + 1
          /\ Append(submitted[p], cmd)[Len(submitted[p]) + 1] = cmd
      BY <1>2, <3>1, AppendProperties, LenProperties DEF SubmittedOK
    <3>3. Len(submitted[p]) + 1 \in 1 .. Len(submitted[p]) + 1
      BY <1>2 DEF SubmittedOK
    <3> QED
      BY <3>2, <3>3
  <2> QED
    BY <1>3, <2>1, <2>2 DEF Made, SubmittedOK
<1>6. TypeOK'
  <2>1. /\ controlupdatetime' \in [Player -> Nat]
        /\ LocalCmds' \in [Player -> [Slot -> Command]]
    BY <1>2, <1>3 DEF TypeOK
  <2> QED
    BY <2>1 DEF TypeOK, PrepareLocalPacket, serverVars
<1>7. ClientRingsOK'
  <2>1. \A q \in Player : \A a \in Slot : LocalCmds'[q][a] \in Made(q)'
    BY <1>2, <1>3, <1>5 DEF ClientRingsOK, TypeOK
  <2>2. UNCHANGED PlayerCmds
    BY DEF PrepareLocalPacket
  <2> QED
    BY <1>5, <2>1, <2>2 DEF ClientRingsOK
<1>8. MadePacket \subseteq MadePacket'
  BY <1>5 DEF MadePacket
<1>9. ServerRingsOK'
  BY <1>5, <1>8 DEF ServerRingsOK, PrepareLocalPacket, serverVars
<1>10. QueuesOK'
  <2>1. \A q \in Player : UpPacket(q) \subseteq UpPacket(q)'
    <3> SUFFICES ASSUME NEW q \in Player, NEW m \in UpPacket(q) PROVE m \in UpPacket(q)'
      OBVIOUS
    <3>1. CASE m \in [type : {"fixup"}, time : Int, subs : Seq(Made(q))]
      <4>1. m.subs \in Seq(Made(q)')
        BY <1>5, <3>1, SeqMonotonic
      <4> QED
        BY <3>1, <4>1 DEF UpPacket
    <3>2. CASE m \notin [type : {"fixup"}, time : Int, subs : Seq(Made(q))]
      BY <1>5, <3>2 DEF UpPacket, RequestPacket
    <3> QED
      BY <3>1, <3>2
  <2>2. DownPacket \subseteq DownPacket'
    <3> SUFFICES ASSUME NEW m \in DownPacket PROVE m \in DownPacket'
      OBVIOUS
    <3>1. CASE m \in [type : {"fixup"}, time : Int, subs : Seq(MadePacket)]
      <4>1. m.subs \in Seq(MadePacket')
        BY <1>8, <3>1, SeqMonotonic
      <4> QED
        BY <3>1, <4>1 DEF DownPacket
    <3>2. CASE m \notin [type : {"fixup"}, time : Int, subs : Seq(MadePacket)]
      BY <1>8, <3>2 DEF DownPacket, RequestPacket
    <3> QED
      BY <3>1, <3>2
  <2>3. CommandPacket(cmd) \in UpPacket(p)'
    BY <1>5 DEF CommandPacket, UpPacket
  <2>4. \A q \in Player : toServer[q] \in Seq(UpPacket(q)') /\ toClient[q] \in Seq(DownPacket')
    BY <2>1, <2>2, SeqMonotonic DEF QueuesOK
  <2>5. Queued(toServer[p], CommandPacket(cmd)) \in Seq(UpPacket(p)')
    BY <2>3, <2>4, QueuedType
  <2>6. toServer' = [toServer EXCEPT ![p] = Queued(@, CommandPacket(cmd))]
    BY <1>3 DEF WriteToServer
  <2>7. UNCHANGED toClient
    BY DEF PrepareLocalPacket
  <2> QED
    BY <2>4, <2>5, <2>6, <2>7 DEF QueuesOK
<1>11. SimulatedOK'
  BY <1>5 DEF SimulatedOK, PrepareLocalPacket
<1>12. AheadOK'
  BY <1>2 DEF AheadOK, ServerNeverAhead, InGame, PrepareLocalPacket, serverVars, TypeOK
<1> QED
  BY <1>4, <1>6, <1>7, <1>9, <1>10, <1>11, <1>12

\* AddServerPacket.
LEMMA AddServerPacketInv ==
    ASSUME IInv, NEW p \in Player, AddServerPacket(p)
    PROVE  IInv'
<1> USE DEF IInv
<1> DEFINE pkt == Head(toClient[p]).pkt
           expected == Expected(LastCommandTime[p])
           gap == pkt.time - expected
           status == ServerCommandStatus[p]
           ask == MustRequest(status, expected, gap)
           marked == IF ask THEN MarkFixing(status, expected, gap) ELSE status
<1>1. /\ Head(toClient[p]) \in DownPacket
      /\ Head(toClient[p]).type = "server"
      /\ toClient' = [q \in Player |-> toClient'[q]]
      /\ \A q \in Player : toClient'[q] \in Seq(DownPacket)
  BY ReadDown DEF AddServerPacket, Arrived
<1>2. /\ LastCommandTime' = [LastCommandTime EXCEPT ![p] = pkt.time]
      /\ ServerCommandStatus' = [ServerCommandStatus EXCEPT ![p] =
            [marked EXCEPT ![CommandAddress(pkt.time)] = "ready"]]
      /\ PlayerCmds' = [PlayerCmds EXCEPT ![p] =
            [q \in Player |-> [@[q] EXCEPT ![CommandAddress(SubPacket(pkt, q).time)] =
                                            SubPacket(pkt, q)]]]
      /\ IF ask THEN WriteToServer(p, Request(expected, gap)) ELSE UNCHANGED toServer
      /\ UNCHANGED <<controlupdatetime, LocalCmds, oldpolltime, PlayerStatus, playstate,
                     serverVars, faults, history>>
  BY DEF AddServerPacket
<1>3. /\ pkt \in MadePacket /\ pkt.time \in Int
      /\ \A q \in Player : SubPacket(pkt, q) \in Made(q)
  <2>1. pkt \in MadePacket
    BY <1>1, DownFields
  <2> HIDE DEF pkt
  <2> QED
    BY <2>1, FillIsCommand DEF MadePacket, ServerPacket, SubPacket
<1>4. /\ expected \in Int /\ gap \in Int
      /\ status \in [Slot -> Status]
  BY <1>3 DEF TypeOK, Expected
<1>5. marked \in [Slot -> Status]
  BY <1>4, StatusType
<1>6. [marked EXCEPT ![CommandAddress(pkt.time)] = "ready"] \in [Slot -> Status]
  BY <1>3, <1>5, StatusType
<1> HIDE DEF pkt, expected, gap, status, ask, marked
<1>7. \A q \in Player : /\ SubPacket(pkt, q) \in Command
                        /\ CommandAddress(SubPacket(pkt, q).time) \in Slot
  BY <1>3, MadeIsCommand, AddressInRing
<1>8. TypeOK'
  <2>1. /\ LastCommandTime' \in [Player -> Int]
        /\ ServerCommandStatus' \in [Player -> [Slot -> Status]]
    BY <1>2, <1>3, <1>6 DEF TypeOK
  <2>2. PlayerCmds' \in [Player -> [Player -> [Slot -> Command]]]
    BY <1>2, <1>7 DEF TypeOK
  <2> QED
    BY <1>2, <2>1, <2>2 DEF TypeOK, serverVars
<1>9. SubmittedOK'
  BY <1>2 DEF SubmittedOK, history
<1>10. ClientRingsOK'
  <2>1. \A q \in Player : \A a \in Slot : PlayerCmds'[p][q][a] \in Made(q)
    BY <1>2, <1>3, <1>7 DEF ClientRingsOK, TypeOK
  <2>2. \A r \in Player : r # p => PlayerCmds'[r] = PlayerCmds[r]
    BY <1>2 DEF TypeOK
  <2> QED
    BY <1>2, <2>1, <2>2, SameMade DEF ClientRingsOK, history
<1>11. ServerRingsOK'
  BY <1>2, SameMade DEF ServerRingsOK, history, serverVars
<1>12. QueuesOK'
  <2>1. /\ toServer' = [q \in Player |-> toServer'[q]]
        /\ \A q \in Player : toServer'[q] \in Seq(UpPacket(q))
    <3>1. Request(expected, gap) \in UpPacket(p)
      BY <1>4, RequestIsPacket DEF UpPacket
    <3> QED
      BY <1>2, <3>1, WriteUp DEF QueuesOK
  <2> QED
    BY <1>1, <1>2, <2>1, SameMade DEF QueuesOK, history
<1>13. SimulatedOK'
  BY <1>2, SameMade DEF SimulatedOK, history
<1>14. AheadOK'
  BY <1>2 DEF AheadOK, ServerNeverAhead, InGame, serverVars
<1> QED
  BY <1>8, <1>9, <1>10, <1>11, <1>12, <1>13, <1>14

\* FixupPacket on a client.
LEMMA ClientFixupPacketInv ==
    ASSUME IInv, NEW p \in Player, ClientFixupPacket(p)
    PROVE  IInv'
<1> USE DEF IInv
<1> DEFINE fix == Head(toClient[p])
           S == Accepted(ServerCommandStatus[p], fix)
           From(q, a) == {i \in S : CommandAddress(SubPacket(fix.subs[i], q).time) = a}
<1>1. /\ fix \in DownPacket
      /\ fix.type = "fixup"
      /\ toClient' = [q \in Player |-> toClient'[q]]
      /\ \A q \in Player : toClient'[q] \in Seq(DownPacket)
  BY ReadDown DEF ClientFixupPacket, Arrived
<1>2. /\ LastCommandTime' = [LastCommandTime EXCEPT ![p] = FixedTime(@, fix)]
      /\ ServerCommandStatus' = [ServerCommandStatus EXCEPT ![p] = FixedStatus(@, fix)]
      /\ PlayerCmds' = [PlayerCmds EXCEPT ![p] =
            [q \in Player |-> [a \in Slot |->
                IF From(q, a) # {} THEN SubPacket(fix.subs[Latest(From(q, a))], q)
                                   ELSE @[q][a]]]]
      /\ UNCHANGED <<controlupdatetime, LocalCmds, oldpolltime, PlayerStatus, playstate,
                     serverVars, toServer, faults, history>>
  BY DEF ClientFixupPacket
<1>3. fix.time \in Int /\ fix.subs \in Seq(MadePacket)
  BY <1>1, DownFields
<1>4. /\ Len(fix.subs) \in Nat
      /\ DOMAIN fix.subs = 1 .. Len(fix.subs)
      /\ \A i \in 1 .. Len(fix.subs) : fix.subs[i] \in MadePacket
  BY <1>3, LenProperties, ElementOfSeq
<1>5. \A q \in Player : \A a \in Slot :
        From(q, a) # {} => SubPacket(fix.subs[Latest(From(q, a))], q) \in Made(q)
  <2> SUFFICES ASSUME NEW q \in Player, NEW a \in Slot, From(q, a) # {}
               PROVE  SubPacket(fix.subs[Latest(From(q, a))], q) \in Made(q)
    OBVIOUS
  <2>1. From(q, a) \subseteq 1 .. Len(fix.subs)
    BY <1>4 DEF Accepted
  <2>2. Latest(From(q, a)) \in 1 .. Len(fix.subs)
    <3> HIDE DEF From
    <3> QED
      BY <1>4, <2>1, LatestExists
  <2> QED
    BY <1>4, <2>2 DEF SubPacket, MadePacket
<1>6. FixedTime(LastCommandTime[p], fix) \in Int
  BY <1>3, <1>4 DEF FixedTime, TypeOK
<1>7. FixedStatus(ServerCommandStatus[p], fix) \in [Slot -> Status]
  BY <1>3, StatusType DEF TypeOK
<1> HIDE DEF fix, S, From
<1>8. \A q \in Player : \A a \in Slot : PlayerCmds'[p][q][a] \in Made(q)
  BY <1>2, <1>5 DEF ClientRingsOK, TypeOK
<1>9. TypeOK'
  <2>1. /\ LastCommandTime' \in [Player -> Int]
        /\ ServerCommandStatus' \in [Player -> [Slot -> Status]]
    BY <1>2, <1>6, <1>7 DEF TypeOK
  <2>2. \A q \in Player : \A a \in Slot : PlayerCmds'[p][q][a] \in Command
    BY <1>8, MadeIsCommand
  <2>3. PlayerCmds' \in [Player -> [Player -> [Slot -> Command]]]
    BY <1>2, <2>2 DEF TypeOK
  <2> QED
    BY <1>2, <2>1, <2>3 DEF TypeOK, serverVars
<1>10. SubmittedOK'
  BY <1>2 DEF SubmittedOK, history
<1>11. ClientRingsOK'
  <2>1. \A r \in Player : r # p => PlayerCmds'[r] = PlayerCmds[r]
    BY <1>2 DEF TypeOK
  <2> QED
    BY <1>2, <1>8, <2>1, SameMade DEF ClientRingsOK, history
<1>12. ServerRingsOK'
  BY <1>2, SameMade DEF ServerRingsOK, history, serverVars
<1>13. QueuesOK'
  BY <1>1, <1>2, SameMade DEF QueuesOK, history
<1>14. SimulatedOK'
  BY <1>2, SameMade DEF SimulatedOK, history
<1>15. AheadOK'
  BY <1>2 DEF AheadOK, ServerNeverAhead, InGame, serverVars
<1> QED
  BY <1>9, <1>10, <1>11, <1>12, <1>13, <1>14, <1>15

\* ResendLocalPackets, which may end the client with an Error.
LEMMA ResendLocalPacketsInv ==
    ASSUME IInv, NEW p \in Player, ResendLocalPackets(p)
    PROVE  IInv'
<1> USE DEF IInv
<1> DEFINE request == Head(toClient[p])
           made == request.time < controlupdatetime[p]
           held == LocalCmds[p][CommandAddress(request.time)].time = request.time
<1>1. /\ request \in DownPacket
      /\ request.type = "request"
      /\ toClient' = [q \in Player |-> toClient'[q]]
      /\ \A q \in Player : toClient'[q] \in Seq(DownPacket)
  BY ReadDown DEF ResendLocalPackets, Arrived
<1>2. /\ IF made /\ held
         THEN WriteToServer(p, Fixup(LocalCmds[p], request.time, request.numpackets))
         ELSE UNCHANGED toServer
      /\ playstate' = [playstate EXCEPT ![p] = IF made /\ ~held THEN "fatal" ELSE @]
      /\ UNCHANGED <<controlupdatetime, LocalCmds, oldpolltime, ServerCommandStatus,
                     PlayerCmds, LastCommandTime, PlayerStatus, serverVars, faults, history>>
  BY DEF ResendLocalPackets
<1>3. request.time \in Int /\ request.numpackets \in Nat
  BY <1>1, DownFields
<1> HIDE DEF request, made, held
<1>4. Fixup(LocalCmds[p], request.time, request.numpackets) \in UpPacket(p)
  <2>1. LocalCmds[p] \in [Slot -> Made(p)]
    BY DEF TypeOK, ClientRingsOK
  <2> QED
    BY <1>3, <2>1, FixupSubs DEF Fixup, UpPacket
<1>5. TypeOK'
  BY <1>2 DEF TypeOK, serverVars
<1>6. QueuesOK'
  <2>1. /\ toServer' = [q \in Player |-> toServer'[q]]
        /\ \A q \in Player : toServer'[q] \in Seq(UpPacket(q))
    BY <1>2, <1>4, WriteUp DEF QueuesOK
  <2> QED
    BY <1>1, <1>2, <2>1, SameMade DEF QueuesOK, history
<1>7. SubmittedOK' /\ SimulatedOK'
  BY <1>2, SameMade DEF SubmittedOK, SimulatedOK, history
<1>8. ClientRingsOK' /\ ServerRingsOK'
  BY <1>2, SameMade DEF ClientRingsOK, ServerRingsOK, history, serverVars
<1>9. AheadOK'
  BY <1>2 DEF AheadOK, ServerNeverAhead, InGame, serverVars
<1> QED
  BY <1>5, <1>6, <1>7, <1>8, <1>9

\* RequestPacket on a client, after a damaged packet or a timeout.
LEMMA RequestFromServerInv ==
    ASSUME IInv, NEW p \in Player, NEW t \in Int, RequestFromServer(p, t, 1),
           toClient' = [q \in Player |-> toClient'[q]],
           \A q \in Player : toClient'[q] \in Seq(DownPacket),
           UNCHANGED <<controlupdatetime, LocalCmds, oldpolltime, PlayerCmds, LastCommandTime,
                       PlayerStatus, playstate, serverVars, history>>
    PROVE  IInv'
<1> USE DEF IInv
<1>1. TypeOK'
  <2>1. ServerCommandStatus' \in [Player -> [Slot -> Status]]
    <3>1. MarkFixing(ServerCommandStatus[p], t, 1) \in [Slot -> Status]
      BY DEF TypeOK, MarkFixing, Status
    <3> QED
      BY <3>1 DEF TypeOK, RequestFromServer
  <2> QED
    BY <2>1 DEF TypeOK, serverVars
<1>2. QueuesOK'
  <2>1. Request(t, 1) \in UpPacket(p)
    BY RequestIsPacket DEF UpPacket
  <2>2. /\ toServer' = [q \in Player |-> toServer'[q]]
        /\ \A q \in Player : toServer'[q] \in Seq(UpPacket(q))
    BY <2>1, WriteUp DEF RequestFromServer
  <2> QED
    BY <2>2, SameMade DEF QueuesOK, history
<1>3. SubmittedOK' /\ SimulatedOK'
  BY SameMade DEF SubmittedOK, SimulatedOK, history
<1>4. ClientRingsOK' /\ ServerRingsOK'
  BY SameMade DEF ClientRingsOK, ServerRingsOK, history, serverVars
<1>5. AheadOK'
  BY DEF AheadOK, ServerNeverAhead, InGame, serverVars
<1> QED
  BY <1>1, <1>2, <1>3, <1>4, <1>5

LEMMA ClientBadPacketInv ==
    ASSUME IInv, NEW p \in Player, ClientBadPacket(p)
    PROVE  IInv'
<1>1. /\ toClient' = [q \in Player |-> toClient'[q]]
      /\ \A q \in Player : toClient'[q] \in Seq(DownPacket)
  BY ReadDown DEF ClientBadPacket, IInv
<1>2. Expected(LastCommandTime[p]) \in Int
  BY DEF IInv, TypeOK, Expected
<1>3. /\ RequestFromServer(p, Expected(LastCommandTime[p]), 1)
      /\ UNCHANGED <<controlupdatetime, LocalCmds, oldpolltime, PlayerCmds, LastCommandTime,
                     PlayerStatus, playstate, serverVars, history>>
  BY DEF ClientBadPacket
<1> QED
  BY <1>1, <1>2, <1>3, RequestFromServerInv

LEMMA ClientTimeoutInv ==
    ASSUME IInv, NEW p \in Player, ClientTimeout(p)
    PROVE  IInv'
<1>1. /\ toClient' = [q \in Player |-> toClient'[q]]
      /\ \A q \in Player : toClient'[q] \in Seq(DownPacket)
  BY DEF ClientTimeout, IInv, QueuesOK
<1>2. oldpolltime[p] \in Int
  BY DEF IInv, TypeOK
<1>3. /\ RequestFromServer(p, oldpolltime[p], 1)
      /\ UNCHANGED <<controlupdatetime, LocalCmds, oldpolltime, PlayerCmds, LastCommandTime,
                     PlayerStatus, playstate, serverVars, history>>
  BY DEF ClientTimeout
<1> QED
  BY <1>1, <1>2, <1>3, RequestFromServerInv

\* A client simulates a tic: what it appends to its history is in its rings.
LEMMA SimulateTicInv ==
    ASSUME IInv, NEW p \in Player, SimulateTic(p)
    PROVE  IInv'
<1> USE DEF IInv
<1> DEFINE tic == [q \in Player |-> IF q \in Polling(p) THEN Polled(p, q) ELSE Absent]
<1>1. /\ applied' = IF playstate[p] = "battledone" THEN applied
                    ELSE [applied EXCEPT ![p] = Append(@, tic)]
      /\ ServerCommandStatus' =
            [ServerCommandStatus EXCEPT ![p] = NotArrived(@, oldpolltime[p])]
      /\ oldpolltime' = [oldpolltime EXCEPT ![p] = @ + 1]
      /\ UNCHANGED <<controlupdatetime, LocalCmds, PlayerCmds, LastCommandTime, serverVars,
                     toServer, toClient, faults, submitted, log>>
  BY DEF SimulateTic
<1>2. /\ playstate' \in [Player -> {"playing", "battledone", "left", "quit", "fatal"}]
      /\ PlayerStatus' \in [Player -> [Player -> {"ingame", "quitgame"}]]
  BY DEF SimulateTic, TypeOK
<1>3. oldpolltime[p] \in Nat /\ CommandAddress(oldpolltime[p]) \in Slot
  BY AddressInRing DEF TypeOK
<1>4. \A q \in Player : Polled(p, q) \in Made(q) /\ Polled(p, q) \in Command
  BY <1>3, MadeIsCommand DEF Polled, ClientRingsOK
<1>5. /\ tic \in [Player -> Command \cup {Absent}]
      /\ \A q \in Player : tic[q] \in Made(q) \cup {Absent}
  BY <1>4
<1> HIDE DEF tic
<1>6. TypeOK'
  <2>1. ServerCommandStatus' \in [Player -> [Slot -> Status]]
    BY <1>1, <1>3, StatusType DEF TypeOK
  <2>2. oldpolltime' \in [Player -> Nat]
    BY <1>1, <1>3 DEF TypeOK
  <2> QED
    BY <1>1, <1>2, <2>1, <2>2 DEF TypeOK, serverVars
<1>7. SimulatedOK'
  <2>1. CASE playstate[p] = "battledone"
    BY <1>1, <2>1, SameMade DEF SimulatedOK
  <2>2. CASE playstate[p] # "battledone"
    <3>1. /\ Append(applied[p], tic) \in Seq([Player -> Command \cup {Absent}])
          /\ Len(Append(applied[p], tic)) = Len(applied[p]) + 1
          /\ Append(applied[p], tic)[Len(applied[p]) + 1] = tic
          /\ \A t \in 1 .. Len(applied[p]) : Append(applied[p], tic)[t] = applied[p][t]
          /\ Len(applied[p]) \in Nat
      BY <1>5, AppendProperties, LenProperties DEF SimulatedOK
    <3>2. \A t \in 1 .. Len(applied[p]) + 1 : \A q \in Player :
             Append(applied[p], tic)[t][q] \in Made(q) \cup {Absent}
      <4> SUFFICES ASSUME NEW t \in 1 .. Len(applied[p]) + 1, NEW q \in Player
                   PROVE  Append(applied[p], tic)[t][q] \in Made(q) \cup {Absent}
        OBVIOUS
      <4>1. CASE t = Len(applied[p]) + 1
        BY <1>5, <3>1, <4>1
      <4>2. CASE t # Len(applied[p]) + 1
        <5>1. t \in 1 .. Len(applied[p])
          BY <3>1, <4>2
        <5> QED
          BY <3>1, <5>1 DEF SimulatedOK
      <4> QED
        BY <4>1, <4>2
    <3>3. applied' = [applied EXCEPT ![p] = Append(@, tic)]
      BY <1>1, <2>2
    <3> QED
      BY <1>1, <3>1, <3>2, <3>3, SameMade DEF SimulatedOK
  <2> QED
    BY <2>1, <2>2
<1>8. SubmittedOK' /\ QueuesOK'
  BY <1>1, SameMade DEF SubmittedOK, QueuesOK
<1>9. ClientRingsOK' /\ ServerRingsOK'
  BY <1>1, SameMade DEF ClientRingsOK, ServerRingsOK, serverVars
<1>10. AheadOK'
  BY <1>1 DEF AheadOK, ServerNeverAhead, InGame, serverVars
<1> QED
  BY <1>6, <1>7, <1>8, <1>9, <1>10

LEMMA LeaveGameInv ==
    ASSUME IInv, NEW p \in Player, LeaveGame(p)
    PROVE  IInv'
<1> USE DEF IInv
<1>1. TypeOK'
  BY DEF LeaveGame, TypeOK, serverVars
<1>2. SubmittedOK' /\ QueuesOK' /\ SimulatedOK'
  BY SameMade DEF LeaveGame, SubmittedOK, QueuesOK, SimulatedOK, history
<1>3. ClientRingsOK' /\ ServerRingsOK'
  BY SameMade DEF LeaveGame, ClientRingsOK, ServerRingsOK, serverVars, history
<1>4. AheadOK'
  BY DEF LeaveGame, AheadOK, ServerNeverAhead, InGame, serverVars
<1> QED
  BY <1>1, <1>2, <1>3, <1>4

\* AddPacket: the command of a player enters the server's ring.
LEMMA AddPacketInv ==
    ASSUME IInv, NEW p \in Player, AddPacket(p)
    PROVE  IInv'
<1> USE DEF IInv
<1> DEFINE cmd == Head(toServer[p]).cmd
           expected == Expected(ServerLastCommandTime[p])
           gap == cmd.time - expected
           status == ClientCommandStatus[p]
           ask == MustRequest(status, expected, gap)
           marked == IF ask THEN MarkFixing(status, expected, gap) ELSE status
<1>1. /\ Head(toServer[p]) \in UpPacket(p)
      /\ Head(toServer[p]).type = "command"
      /\ toServer' = [q \in Player |-> toServer'[q]]
      /\ \A q \in Player : toServer'[q] \in Seq(UpPacket(q))
  BY ReadUp DEF AddPacket, Received
<1>2. /\ ServerLastCommandTime' = [ServerLastCommandTime EXCEPT ![p] = cmd.time]
      /\ ClientCommandStatus' = [ClientCommandStatus EXCEPT ![p] =
            [marked EXCEPT ![CommandAddress(cmd.time)] = "ready"]]
      /\ ClientCmds' = [ClientCmds EXCEPT ![p][CommandAddress(cmd.time)] = cmd]
      /\ IF ask THEN WriteToClient(p, Request(expected, gap)) ELSE UNCHANGED toClient
      /\ UNCHANGED <<clientVars, serverupdatetime, ServerCmds, ServerPlayerStatus,
                     clientsready, faults, history>>
  BY DEF AddPacket
<1>3. cmd \in Made(p)
  BY <1>1, UpFields
<1>4. cmd \in Command /\ cmd.time \in Int /\ CommandAddress(cmd.time) \in Slot
  BY <1>3, MadeIsCommand, AddressInRing
<1>5. /\ expected \in Int /\ gap \in Int
      /\ status \in [Slot -> Status]
  BY <1>4 DEF TypeOK, Expected
<1>6. marked \in [Slot -> Status]
  BY <1>5, StatusType
<1>7. [marked EXCEPT ![CommandAddress(cmd.time)] = "ready"] \in [Slot -> Status]
  BY <1>4, <1>6, StatusType
<1> HIDE DEF cmd, expected, gap, status, ask, marked
<1>8. TypeOK'
  <2>1. /\ ServerLastCommandTime' \in [Player -> Int]
        /\ ClientCommandStatus' \in [Player -> [Slot -> Status]]
    BY <1>2, <1>4, <1>7 DEF TypeOK
  <2>2. ClientCmds' \in [Player -> [Slot -> Command]]
    BY <1>2, <1>4 DEF TypeOK
  <2> QED
    BY <1>2, <2>1, <2>2 DEF TypeOK, clientVars
<1>9. ServerRingsOK'
  <2>1. \A q \in Player : \A a \in Slot : ClientCmds'[q][a] \in Made(q)
    BY <1>2, <1>3, <1>4 DEF ServerRingsOK, TypeOK
  <2> QED
    BY <1>2, <2>1, SameMade DEF ServerRingsOK, history
<1>10. QueuesOK'
  <2>1. /\ toClient' = [q \in Player |-> toClient'[q]]
        /\ \A q \in Player : toClient'[q] \in Seq(DownPacket)
    <3>1. Request(expected, gap) \in DownPacket
      BY <1>5, RequestIsPacket DEF DownPacket
    <3> QED
      BY <1>2, <3>1, WriteDown DEF QueuesOK
  <2> QED
    BY <1>1, <1>2, <2>1, SameMade DEF QueuesOK, history
<1>11. SubmittedOK' /\ SimulatedOK' /\ ClientRingsOK'
  BY <1>2, SameMade DEF SubmittedOK, SimulatedOK, ClientRingsOK, history, clientVars
<1>12. AheadOK'
  BY <1>2 DEF AheadOK, ServerNeverAhead, InGame, clientVars
<1> QED
  BY <1>8, <1>9, <1>10, <1>11, <1>12

LEMMA IgnorePacketInv ==
    ASSUME IInv, NEW p \in Player, IgnorePacket(p)
    PROVE  IInv'
<1> USE DEF IInv
<1>1. /\ toServer' = [q \in Player |-> toServer'[q]]
      /\ \A q \in Player : toServer'[q] \in Seq(UpPacket(q))
  BY ReadUp DEF IgnorePacket, Received
<1>2. TypeOK' /\ QueuesOK'
  BY <1>1, SameMade DEF IgnorePacket, TypeOK, QueuesOK, clientVars, serverVars, history
<1>3. SubmittedOK' /\ SimulatedOK' /\ ClientRingsOK' /\ ServerRingsOK'
  BY SameMade DEF IgnorePacket, SubmittedOK, SimulatedOK, ClientRingsOK, ServerRingsOK,
                  clientVars, serverVars, history
<1>4. AheadOK'
  BY DEF IgnorePacket, AheadOK, ServerNeverAhead, InGame, clientVars, serverVars
<1> QED
  BY <1>2, <1>3, <1>4

\* FixupPacket on the server.
LEMMA ServerFixupPacketInv ==
    ASSUME IInv, NEW p \in Player, ServerFixupPacket(p)
    PROVE  IInv'
<1> USE DEF IInv
<1> DEFINE fix == Head(toServer[p])
           S == Accepted(ClientCommandStatus[p], fix)
<1>1. /\ fix \in UpPacket(p)
      /\ fix.type = "fixup"
      /\ toServer' = [q \in Player |-> toServer'[q]]
      /\ \A q \in Player : toServer'[q] \in Seq(UpPacket(q))
  BY ReadUp DEF ServerFixupPacket, Received
<1>2. /\ ServerLastCommandTime' = [ServerLastCommandTime EXCEPT ![p] = FixedTime(@, fix)]
      /\ ClientCommandStatus' = [ClientCommandStatus EXCEPT ![p] = FixedStatus(@, fix)]
      /\ ClientCmds' = [ClientCmds EXCEPT ![p] =
            [a \in Slot |-> IF Landing(fix, S, a) # {}
                            THEN fix.subs[Latest(Landing(fix, S, a))] ELSE @[a]]]
      /\ UNCHANGED <<clientVars, serverupdatetime, ServerCmds, ServerPlayerStatus,
                     clientsready, toClient, faults, history>>
  BY DEF ServerFixupPacket
<1>3. fix.time \in Int /\ fix.subs \in Seq(Made(p))
  BY <1>1, UpFields
<1>4. /\ Len(fix.subs) \in Nat
      /\ DOMAIN fix.subs = 1 .. Len(fix.subs)
      /\ \A i \in 1 .. Len(fix.subs) : fix.subs[i] \in Made(p)
  BY <1>3, LenProperties, ElementOfSeq
<1>5. \A a \in Slot : Landing(fix, S, a) # {} => fix.subs[Latest(Landing(fix, S, a))] \in Made(p)
  <2> SUFFICES ASSUME NEW a \in Slot, Landing(fix, S, a) # {}
               PROVE  fix.subs[Latest(Landing(fix, S, a))] \in Made(p)
    OBVIOUS
  <2>1. Landing(fix, S, a) \subseteq 1 .. Len(fix.subs)
    BY <1>4 DEF Landing, Accepted
  <2>2. Latest(Landing(fix, S, a)) \in 1 .. Len(fix.subs)
    BY <1>4, <2>1, LatestExists
  <2> QED
    BY <1>4, <2>2
<1>6. FixedTime(ServerLastCommandTime[p], fix) \in Int
  BY <1>3, <1>4 DEF FixedTime, TypeOK
<1>7. FixedStatus(ClientCommandStatus[p], fix) \in [Slot -> Status]
  BY <1>3, StatusType DEF TypeOK
<1> HIDE DEF fix, S
<1>8. \A a \in Slot : ClientCmds'[p][a] \in Made(p)
  BY <1>2, <1>5 DEF ServerRingsOK, TypeOK
<1>9. TypeOK'
  <2>1. /\ ServerLastCommandTime' \in [Player -> Int]
        /\ ClientCommandStatus' \in [Player -> [Slot -> Status]]
    BY <1>2, <1>6, <1>7 DEF TypeOK
  <2>2. \A a \in Slot : ClientCmds'[p][a] \in Command
    BY <1>8, MadeIsCommand
  <2>3. ClientCmds' \in [Player -> [Slot -> Command]]
    BY <1>2, <2>2 DEF TypeOK
  <2> QED
    BY <1>2, <2>1, <2>3 DEF TypeOK, clientVars
<1>10. ServerRingsOK'
  <2>1. \A r \in Player : r # p => ClientCmds'[r] = ClientCmds[r]
    BY <1>2 DEF TypeOK
  <2> QED
    BY <1>2, <1>8, <2>1, SameMade DEF ServerRingsOK, history
<1>11. QueuesOK'
  BY <1>1, <1>2, SameMade DEF QueuesOK, history
<1>12. SubmittedOK' /\ SimulatedOK' /\ ClientRingsOK'
  <2>1. UNCHANGED <<clientVars, history>>
    BY <1>2
  <2> QED
    BY <2>1, SameMade DEF SubmittedOK, SimulatedOK, ClientRingsOK, history, clientVars
<1>13. AheadOK'
  BY <1>2 DEF AheadOK, ServerNeverAhead, InGame, clientVars
<1> QED
  BY <1>9, <1>10, <1>11, <1>12, <1>13

LEMMA ResendServerPacketsInv ==
    ASSUME IInv, NEW p \in Player, ResendServerPackets(p)
    PROVE  IInv'
<1> USE DEF IInv
<1> DEFINE request == Head(toServer[p])
<1>1. /\ request \in UpPacket(p)
      /\ request.type = "request"
      /\ toServer' = [q \in Player |-> toServer'[q]]
      /\ \A q \in Player : toServer'[q] \in Seq(UpPacket(q))
  BY ReadUp DEF ResendServerPackets, Received
<1>2. /\ IF IsServerCommandReady(request.time)
         THEN WriteToClient(p, Fixup(ServerCmds, request.time, request.numpackets))
         ELSE UNCHANGED toClient
      /\ UNCHANGED <<clientVars, serverVars, faults, history>>
  BY DEF ResendServerPackets
<1>3. request.time \in Int /\ request.numpackets \in Nat
  BY <1>1, UpFields
<1> HIDE DEF request
<1>4. Fixup(ServerCmds, request.time, request.numpackets) \in DownPacket
  <2>1. ServerCmds \in [Slot -> MadePacket]
    BY DEF TypeOK, ServerRingsOK
  <2> QED
    BY <1>3, <2>1, FixupSubs DEF Fixup, DownPacket
<1>5. TypeOK'
  BY <1>2 DEF TypeOK, clientVars, serverVars
<1>6. QueuesOK'
  <2>1. /\ toClient' = [q \in Player |-> toClient'[q]]
        /\ \A q \in Player : toClient'[q] \in Seq(DownPacket)
    BY <1>2, <1>4, WriteDown DEF QueuesOK
  <2> QED
    BY <1>1, <1>2, <2>1, SameMade DEF QueuesOK, history
<1>7. SubmittedOK' /\ SimulatedOK' /\ ClientRingsOK' /\ ServerRingsOK'
  BY <1>2, SameMade DEF SubmittedOK, SimulatedOK, ClientRingsOK, ServerRingsOK,
                        clientVars, serverVars, history
<1>8. AheadOK'
  BY <1>2 DEF AheadOK, ServerNeverAhead, InGame, clientVars, serverVars
<1> QED
  BY <1>5, <1>6, <1>7, <1>8

LEMMA ServerBadPacketInv ==
    ASSUME IInv, NEW p \in Player, ServerBadPacket(p)
    PROVE  IInv'
<1> USE DEF IInv
<1> DEFINE time == Expected(ServerLastCommandTime[p])
<1>1. /\ toServer' = [q \in Player |-> toServer'[q]]
      /\ \A q \in Player : toServer'[q] \in Seq(UpPacket(q))
  BY ReadUp DEF ServerBadPacket
<1>2. time \in Int
  BY DEF TypeOK, Expected
<1>3. /\ IF InGame(p)
         THEN /\ ClientCommandStatus' =
                    [ClientCommandStatus EXCEPT ![p] = MarkFixing(@, time, 1)]
              /\ WriteToClient(p, Request(time, 1))
         ELSE UNCHANGED <<ClientCommandStatus, toClient>>
      /\ UNCHANGED <<clientVars, serverupdatetime, ServerCmds, ClientCmds,
                     ServerLastCommandTime, ServerPlayerStatus, clientsready, history>>
  BY DEF ServerBadPacket
<1>4. MarkFixing(ClientCommandStatus[p], time, 1) \in [Slot -> Status]
  BY <1>2 DEF TypeOK, MarkFixing, Status
<1>5. Request(time, 1) \in DownPacket
  BY <1>2, RequestIsPacket DEF DownPacket
<1> HIDE DEF time
<1>6. TypeOK'
  <2>1. ClientCommandStatus' \in [Player -> [Slot -> Status]]
    BY <1>3, <1>4 DEF TypeOK
  <2> QED
    BY <1>3, <2>1 DEF TypeOK, clientVars
<1>7. QueuesOK'
  <2>1. /\ toClient' = [q \in Player |-> toClient'[q]]
        /\ \A q \in Player : toClient'[q] \in Seq(DownPacket)
    BY <1>3, <1>5, WriteDown DEF QueuesOK
  <2> QED
    BY <1>1, <1>3, <2>1, SameMade DEF QueuesOK, history
<1>8. SubmittedOK' /\ SimulatedOK' /\ ClientRingsOK' /\ ServerRingsOK'
  BY <1>3, SameMade DEF SubmittedOK, SimulatedOK, ClientRingsOK, ServerRingsOK,
                        clientVars, history
<1>9. AheadOK'
  BY <1>3 DEF AheadOK, ServerNeverAhead, InGame, clientVars
<1> QED
  BY <1>6, <1>7, <1>8, <1>9

\* AreClientsReady: a ready command of the tic the server closes was made, so
\* its maker is past that tic.
LEMMA AreClientsReadyInv ==
    ASSUME IInv, AreClientsReady
    PROVE  IInv'
<1> USE DEF IInv
<1>1. /\ \A p \in Player : InGame(p) => ClientReady(p)
      /\ clientsready' = TRUE
      /\ UNCHANGED <<clientVars, serverupdatetime, ServerCmds, ClientCmds,
                     ClientCommandStatus, ServerLastCommandTime, ServerPlayerStatus,
                     toServer, toClient, faults, history>>
  BY DEF AreClientsReady
<1>2. \A p \in Player : InGame(p) => serverupdatetime < controlupdatetime[p]
  <2> SUFFICES ASSUME NEW p \in Player, InGame(p)
               PROVE  serverupdatetime < controlupdatetime[p]
    OBVIOUS
  <2>1. serverupdatetime \in Nat /\ CommandAddress(serverupdatetime) \in Slot
    BY AddressInRing DEF TypeOK
  <2>2. Collected(p) \in Made(p)
    BY <2>1 DEF ServerRingsOK, Collected
  <2>3. Collected(p).time = serverupdatetime
    BY <1>1 DEF ClientReady
  <2> QED
    BY <2>1, <2>2, <2>3, MadeIsCommand
<1>3. TypeOK'
  BY <1>1 DEF TypeOK, clientVars
<1>4. SubmittedOK' /\ QueuesOK' /\ SimulatedOK'
  BY <1>1, SameMade DEF SubmittedOK, QueuesOK, SimulatedOK, clientVars, history
<1>5. ClientRingsOK' /\ ServerRingsOK'
  BY <1>1, SameMade DEF ClientRingsOK, ServerRingsOK, clientVars, history
<1>6. AheadOK'
  BY <1>1, <1>2 DEF AheadOK, ServerNeverAhead, InGame, clientVars
<1> QED
  BY <1>3, <1>4, <1>5, <1>6

\* SendFullServerPacket closes a tic that all players in the game have made.
LEMMA SendFullServerPacketInv ==
    ASSUME IInv, SendFullServerPacket
    PROVE  IInv'
<1> USE DEF IInv
<1> DEFINE slot == CommandAddress(serverupdatetime)
           pkt == [time |-> serverupdatetime, cmds |-> [p \in Player |-> Collected(p)]]
           leaving == {p \in Player : Collected(p).kind \in Leaving}
<1>1. /\ clientsready
      /\ ServerCmds' = [ServerCmds EXCEPT ![slot] = pkt]
      /\ ClientCommandStatus' =
            [p \in Player |-> NotArrived(ClientCommandStatus[p], serverupdatetime)]
      /\ toClient' = [p \in Player |->
            IF InGame(p) /\ Controlling(p)
            THEN Queued(toClient[p], TicPacket(pkt)) ELSE toClient[p]]
      /\ ClientCmds' = [p \in Player |->
            IF p \in leaving THEN [a \in Slot |-> Fill] ELSE ClientCmds[p]]
      /\ ServerPlayerStatus' = [p \in Player |->
            IF p \notin leaving THEN ServerPlayerStatus[p]
            ELSE IF Collected(p).kind = "quit" THEN "quitgame" ELSE "leftgame"]
      /\ serverupdatetime' = serverupdatetime + 1
      /\ clientsready' = FALSE
      /\ UNCHANGED <<clientVars, ServerLastCommandTime, toServer, faults, submitted, applied>>
  BY DEF SendFullServerPacket
<1>2. serverupdatetime \in Nat /\ slot \in Slot
  BY AddressInRing DEF TypeOK
<1>3. \A p \in Player : Collected(p) \in Made(p) /\ Collected(p) \in Command
  BY <1>2, MadeIsCommand DEF ServerRingsOK, Collected
<1>4. pkt \in MadePacket /\ pkt \in ServerPacket
  BY <1>2, <1>3 DEF MadePacket, ServerPacket
<1> HIDE DEF slot, pkt, leaving
<1>5. TypeOK'
  <2>1. ServerCmds' \in [Slot -> ServerPacket]
    BY <1>1, <1>2, <1>4 DEF TypeOK
  <2>2. ClientCommandStatus' \in [Player -> [Slot -> Status]]
    <3>1. \A p \in Player : NotArrived(ClientCommandStatus[p], serverupdatetime)
                              \in [Slot -> Status]
      BY DEF TypeOK, NotArrived, Status
    <3> QED
      BY <1>1, <3>1
  <2>3. ClientCmds' \in [Player -> [Slot -> Command]]
    BY <1>1, FillIsCommand DEF TypeOK
  <2>4. ServerPlayerStatus' \in [Player -> {"ingame", "quitgame", "leftgame"}]
    <3>1. \A p \in Player : ServerPlayerStatus[p] \in {"ingame", "quitgame", "leftgame"}
      BY DEF TypeOK
    <3> QED
      BY <1>1, <3>1
  <2>5. serverupdatetime' \in Nat
    BY <1>1, <1>2
  <2>6. clientsready' \in BOOLEAN
    BY <1>1
  <2> QED
    BY <1>1, <2>1, <2>2, <2>3, <2>4, <2>5, <2>6 DEF TypeOK, clientVars
<1>6. ServerRingsOK'
  <2>1. \A p \in Player : \A a \in Slot : ClientCmds'[p][a] \in Made(p)
    BY <1>1 DEF ServerRingsOK, Made
  <2>2. \A a \in Slot : ServerCmds'[a] \in MadePacket
    BY <1>1, <1>4 DEF ServerRingsOK, TypeOK
  <2> QED
    BY <1>1, <2>1, <2>2, SameMade DEF ServerRingsOK
<1>7. QueuesOK'
  <2>1. TicPacket(pkt) \in DownPacket
    BY <1>4 DEF TicPacket, DownPacket
  <2>2. \A p \in Player : toClient'[p] \in Seq(DownPacket)
    BY <1>1, <2>1, QueuedType DEF QueuesOK
  <2>3. toClient' = [p \in Player |-> toClient'[p]]
    BY <1>1
  <2> QED
    BY <1>1, <2>2, <2>3, SameMade DEF QueuesOK
<1>8. SubmittedOK' /\ SimulatedOK' /\ ClientRingsOK'
  BY <1>1, SameMade DEF SubmittedOK, SimulatedOK, ClientRingsOK, clientVars
<1>9. AheadOK'
  <2>1. \A p \in Player : InGame(p)' => InGame(p)
    BY <1>1 DEF InGame, TypeOK
  <2>2. \A p \in Player : InGame(p) => serverupdatetime + 1 <= controlupdatetime[p]
    BY <1>1, <1>2 DEF AheadOK, TypeOK
  <2> QED
    BY <1>1, <2>1, <2>2 DEF AheadOK, ServerNeverAhead, clientVars
<1> QED
  BY <1>5, <1>6, <1>7, <1>8, <1>9

\* The server's timeout asks again for what is missing.
LEMMA ServerTimeoutInv ==
    ASSUME IInv, ServerTimeout
    PROVE  IInv'
<1> USE DEF IInv
<1> DEFINE missing == {p \in Player : InGame(p) /\ Collecting(p) # "ready"}
<1>1. /\ ClientCommandStatus' = [p \in Player |->
            IF p \in missing THEN MarkFixing(ClientCommandStatus[p], serverupdatetime, 1)
                             ELSE ClientCommandStatus[p]]
      /\ toClient' = [p \in Player |->
            IF p \in missing /\ Controlling(p)
            THEN Queued(toClient[p], Request(serverupdatetime, 1)) ELSE toClient[p]]
      /\ UNCHANGED <<clientVars, serverupdatetime, ServerCmds, ClientCmds,
                     ServerLastCommandTime, ServerPlayerStatus, clientsready, toServer,
                     history>>
  BY DEF ServerTimeout
<1> HIDE DEF missing
<1>2. TypeOK'
  <2>1. \A p \in Player : MarkFixing(ClientCommandStatus[p], serverupdatetime, 1)
                            \in [Slot -> Status]
    BY DEF TypeOK, MarkFixing, Status
  <2>2. ClientCommandStatus' \in [Player -> [Slot -> Status]]
    BY <1>1, <2>1 DEF TypeOK
  <2> QED
    BY <1>1, <2>2 DEF TypeOK, clientVars
<1>3. QueuesOK'
  <2>1. Request(serverupdatetime, 1) \in DownPacket
    BY RequestIsPacket DEF DownPacket, TypeOK
  <2>2. \A p \in Player : toClient'[p] \in Seq(DownPacket)
    BY <1>1, <2>1, QueuedType DEF QueuesOK
  <2>3. toClient' = [p \in Player |-> toClient'[p]]
    BY <1>1
  <2> QED
    BY <1>1, <2>2, <2>3, SameMade DEF QueuesOK, history
<1>4. SubmittedOK' /\ SimulatedOK' /\ ClientRingsOK' /\ ServerRingsOK'
  BY <1>1, SameMade DEF SubmittedOK, SimulatedOK, ClientRingsOK, ServerRingsOK,
                        clientVars, history
<1>5. AheadOK'
  BY <1>1 DEF AheadOK, ServerNeverAhead, InGame, clientVars
<1> QED
  BY <1>2, <1>3, <1>4, <1>5

\* Losing a packet leaves the rest as it was.
LEMMA NetworkInv ==
    ASSUME IInv, Network
    PROVE  IInv'
<1> USE DEF IInv
<1>1. UNCHANGED <<clientVars, serverVars, history>>
  BY DEF Network, LoseToServer, LoseToClient
<1>2. /\ toServer' = [q \in Player |-> toServer'[q]]
      /\ \A q \in Player : toServer'[q] \in Seq(UpPacket(q))
  BY ReadUp DEF Network, LoseToServer, LoseToClient, QueuesOK
<1>3. /\ toClient' = [q \in Player |-> toClient'[q]]
      /\ \A q \in Player : toClient'[q] \in Seq(DownPacket)
  BY ReadDown DEF Network, LoseToServer, LoseToClient, QueuesOK
<1>4. TypeOK' /\ QueuesOK'
  BY <1>1, <1>2, <1>3, SameMade DEF TypeOK, QueuesOK, clientVars, serverVars, history
<1>5. SubmittedOK' /\ SimulatedOK' /\ ClientRingsOK' /\ ServerRingsOK'
  BY <1>1, SameMade DEF SubmittedOK, SimulatedOK, ClientRingsOK, ServerRingsOK,
                        clientVars, serverVars, history
<1>6. AheadOK'
  BY <1>1 DEF AheadOK, ServerNeverAhead, InGame, clientVars, serverVars
<1> QED
  BY <1>4, <1>5, <1>6

LEMMA StutterInv ==
    ASSUME IInv, UNCHANGED vars
    PROVE  IInv'
<1>1. UNCHANGED <<clientVars, serverVars, toServer, toClient, history>>
  BY DEF vars
<1>2. TypeOK'
  BY <1>1 DEF IInv, TypeOK, clientVars, serverVars
<1>3. SubmittedOK' /\ QueuesOK' /\ SimulatedOK'
  BY <1>1, SameMade DEF IInv, SubmittedOK, QueuesOK, SimulatedOK, clientVars, history
<1>4. ClientRingsOK' /\ ServerRingsOK'
  BY <1>1, SameMade DEF IInv, ClientRingsOK, ServerRingsOK, clientVars, serverVars, history
<1>5. AheadOK'
  BY <1>1 DEF IInv, AheadOK, ServerNeverAhead, InGame, clientVars, serverVars
<1> QED
  BY <1>2, <1>3, <1>4, <1>5 DEF IInv

\* Every step keeps the invariant.
LEMMA NextInv ==
    ASSUME IInv, [Next]_vars
    PROVE  IInv'
<1>1. ASSUME NEW p \in Player, Client(p) PROVE IInv'
  BY <1>1, PrepareLocalPacketInv, AddServerPacketInv, ClientFixupPacketInv,
     ResendLocalPacketsInv, ClientBadPacketInv, ClientTimeoutInv, SimulateTicInv,
     LeaveGameInv DEF Client
<1>2. CASE Server
  BY <1>2, AddPacketInv, IgnorePacketInv, ServerFixupPacketInv, ResendServerPacketsInv,
     ServerBadPacketInv, AreClientsReadyInv, SendFullServerPacketInv, ServerTimeoutInv
     DEF Server
<1>3. CASE Network
  BY <1>3, NetworkInv
<1>4. CASE GameOver \/ UNCHANGED vars
  BY <1>4, StutterInv DEF GameOver
<1> QED
  BY <1>1, <1>2, <1>3, <1>4 DEF Next
-----------------------------------------------------------------------------
(* The theorems                                                            *)

\* IInv is an invariant of the network game: rings, queues and histories hold
\* commands their players made, and the server is not ahead of a player.
THEOREM Inductive == Spec => []IInv
<1>1. Init => IInv
  BY InitInv
<1>2. IInv /\ [Next]_vars => IInv'
  BY NextInv
<1> QED
  BY <1>1, <1>2, PTL DEF Spec

\* Every variable keeps its type: no ring is written outside its slots and no
\* slot gets anything but a command, also with every loss and every timeout.
THEOREM TypeCorrect == Spec => []TypeOK
<1>1. IInv => TypeOK
  BY DEF IInv
<1> QED
  BY <1>1, Inductive, PTL

\* The server never closes a tic before every player in the game made its
\* command for it (AreClientsReady, SendFullServerPacket).
THEOREM NeverAhead == Spec => []ServerNeverAhead
<1>1. IInv => ServerNeverAhead
  BY DEF IInv, AheadOK
<1> QED
  BY <1>1, Inductive, PTL

\* What a client simulates for a player is a command of that player or the
\* fill of a reset ring, whatever is lost, resent or overwritten on the way.
THEOREM Genuine == Spec => []NothingInvented
<1>1. IInv => NothingInvented
  <2> SUFFICES ASSUME IInv, NEW p \in Player, NEW t \in DOMAIN applied[p], NEW q \in Player
               PROVE  applied[p][t][q] \in {Absent, Fill}
                        \cup {submitted[q][i] : i \in DOMAIN submitted[q]}
    BY DEF NothingInvented
  <2>1. t \in 1 .. Len(applied[p])
    BY LenProperties DEF IInv, SimulatedOK
  <2> QED
    BY <2>1 DEF IInv, SimulatedOK, Made
<1> QED
  BY <1>1, Inductive, PTL
-----------------------------------------------------------------------------
(* Times and slots                                                         *)

\* Times less than a ring apart that address the same slot are equal.
LEMMA SameSlot ==
    ASSUME NEW t \in Int, NEW u \in Int, t - u < MAXCMDS, u - t < MAXCMDS,
           CommandAddress(t) = CommandAddress(u)
    PROVE  t = u
<1> DEFINE q == t \div MAXCMDS
           r == u \div MAXCMDS
<1>1. MAXCMDS \in Nat \ {0}
  BY RottNetAssumption
<1>2. /\ q \in Int /\ t % MAXCMDS \in Int /\ t = MAXCMDS * q + (t % MAXCMDS)
      /\ r \in Int /\ u = MAXCMDS * r + (u % MAXCMDS)
  BY <1>1, SMT
<1>3. t % MAXCMDS = u % MAXCMDS
  BY DEF CommandAddress
<1> HIDE DEF q, r
<1>4. t - u = MAXCMDS * (q - r)
  BY <1>1, <1>2, <1>3, SMT
<1>5. CASE q - r >= 1
  <2>1. MAXCMDS * (q - r) >= MAXCMDS
    BY <1>1, <1>2, <1>5, SMT
  <2> QED
    BY <1>1, <1>4, <2>1
<1>6. CASE q - r <= -1
  <2>1. MAXCMDS * (q - r) <= -MAXCMDS
    BY <1>1, <1>2, <1>6, SMT
  <2> QED
    BY <1>1, <1>4, <2>1
<1>7. CASE q = r
  BY <1>1, <1>2, <1>3, <1>7, SMT
<1> QED
  BY <1>2, <1>5, <1>6, <1>7

\* One round of the ring later is the same slot.
LEMMA NextRound ==
    ASSUME NEW t \in Int
    PROVE  CommandAddress(t + MAXCMDS) = CommandAddress(t)
<1> DEFINE q == t \div MAXCMDS
           r == t % MAXCMDS
<1>1. MAXCMDS \in Nat \ {0}
  BY RottNetAssumption
<1>2. q \in Int /\ r \in 0 .. MAXCMDS - 1 /\ t = MAXCMDS * q + r
  BY <1>1, SMT
<1> HIDE DEF q, r
<1>3. t + MAXCMDS = MAXCMDS * (q + 1) + r
  BY <1>1, <1>2, SMT
<1>4. (MAXCMDS * (q + 1) + r) % MAXCMDS = r
  BY <1>1, <1>2, SMT
<1> QED
  BY <1>3, <1>4 DEF CommandAddress, r

-----------------------------------------------------------------------------
(* Rings                                                                   *)

\* The next packet takes the slot of the oldest.
LEMMA RingNext ==
    ASSUME NEW S, \A e \in S : e.time \in Int, NEW ring \in [Slot -> S], NEW end \in Nat,
           NEW entry \in S, entry.time = end, RingHolds(ring, end)
    PROVE  RingHolds([ring EXCEPT ![CommandAddress(end)] = entry], end + 1)
<1> DEFINE new == [ring EXCEPT ![CommandAddress(end)] = entry]
<1>0. MAXCMDS \in Nat \ {0} /\ CommandAddress(end) \in Slot
  BY RottNetAssumption, AddressInRing
<1>1. ASSUME NEW a \in Slot, new[a].time \in Nat
      PROVE  /\ a = CommandAddress(new[a].time)
             /\ end + 1 - MAXCMDS <= new[a].time /\ new[a].time < end + 1
  <2>1. CASE a = CommandAddress(end)
    BY <1>0, <2>1
  <2>2. CASE a # CommandAddress(end)
    <3>1. new[a] = ring[a]
      BY <2>2
    <3>2. /\ a = CommandAddress(ring[a].time)
          /\ end - MAXCMDS <= ring[a].time /\ ring[a].time < end
      BY <1>1, <3>1 DEF RingHolds
    <3>3. ring[a].time # end - MAXCMDS
      <4>1. CommandAddress((end - MAXCMDS) + MAXCMDS) = CommandAddress(end - MAXCMDS)
        BY <1>0, NextRound
      <4>2. (end - MAXCMDS) + MAXCMDS = end
        BY <1>0
      <4> QED
        BY <2>2, <3>2, <4>1, <4>2
    <3> QED
      BY <1>0, <1>1, <3>1, <3>2, <3>3
  <2> QED
    BY <2>1, <2>2
<1>2. ASSUME NEW t \in Nat, end + 1 - MAXCMDS <= t, t < end + 1
      PROVE  new[CommandAddress(t)].time = t
  <2>1. CASE t = end
    BY <1>0, <2>1
  <2>2. CASE t # end
    <3>1. end - MAXCMDS <= t /\ t < end
      BY <1>0, <1>2, <2>2
    <3>2. CommandAddress(t) # CommandAddress(end)
      BY <1>0, <1>2, <2>2, SameSlot
    <3>3. ring[CommandAddress(t)].time = t /\ CommandAddress(t) \in Slot
      BY <3>1, AddressInRing DEF RingHolds
    <3> QED
      BY <3>2, <3>3
  <2> QED
    BY <2>1, <2>2
<1> HIDE DEF new
<1>3. RingHolds(new, end + 1)
  BY <1>0, <1>1, <1>2 DEF RingHolds
<1> QED
  BY <1>3 DEF new

\* What is sent again are consecutive packets, the first of which the ring holds.
LEMMA RingFixup ==
    ASSUME NEW S, \A e \in S : e.time \in Int, NEW ring \in [Slot -> S], NEW end \in Nat,
           RingHolds(ring, end), NEW request, request.time \in Nat, request.numpackets \in Nat,
           Answerable(request, end), ring[CommandAddress(request.time)].time = request.time
    PROVE  LET fix == Fixup(ring, request.time, request.numpackets)
           IN /\ Consecutive(fix) /\ LastTime(fix) < end /\ LastTime(fix) \in Int
              /\ fix.type = "fixup" /\ fix.time = request.time
<1> DEFINE t == request.time
           n == request.numpackets
           fix == Fixup(ring, t, n)
<1>0. MAXCMDS \in Nat \ {0} /\ CommandAddress(t) \in Slot
  BY RottNetAssumption, AddressInRing
<1>1. end - MAXCMDS <= t /\ t < end
  BY <1>0 DEF RingHolds
<1>2. fix.type = "fixup" /\ fix.time = t
  BY DEF Fixup
<1>3. fix.subs = [i \in 1 .. n |-> ring[CommandAddress(t + i - 1)]]
  BY DEF Fixup
<1>4. fix.subs \in Seq(S) /\ Len(fix.subs) = n /\ DOMAIN fix.subs = 1 .. n
  <2>1. fix.subs \in Seq(S)
    <3>1. t \in Int /\ n \in Nat
      OBVIOUS
    <3>2. [i \in 1 .. n |-> ring[CommandAddress(t + i - 1)]] \in Seq(S)
      <4> HIDE DEF t, n
      <4> QED
        BY <3>1, FixupSubs
    <3> QED
      BY <1>3, <3>2
  <2>2. DOMAIN fix.subs = 1 .. n
    BY <1>3
  <2>3. Len(fix.subs) \in Nat /\ DOMAIN fix.subs = 1 .. Len(fix.subs)
    BY <2>1, LenProperties
  <2> HIDE DEF fix
  <2> QED
    BY <2>1, <2>2, <2>3
<1>5. n <= 1 \/ t + n <= end
  BY DEF Answerable
<1>6. ASSUME NEW k \in 1 .. n PROVE fix.subs[k].time = t + k - 1
  <2>1. fix.subs[k] = ring[CommandAddress(t + k - 1)]
    BY <1>3
  <2>2. t + k - 1 \in Nat /\ end - MAXCMDS <= t + k - 1 /\ t + k - 1 < end
    BY <1>0, <1>1, <1>5
  <2> HIDE DEF t, n, fix
  <2> QED
    BY <2>1, <2>2 DEF RingHolds
<1>7. LastTime(fix) = t + n - 1
  BY <1>2, <1>4 DEF LastTime
<1>8. t + n - 1 < end
  BY <1>1, <1>5
<1> QED
  BY <1>2, <1>4, <1>6, <1>7, <1>8 DEF Consecutive

-----------------------------------------------------------------------------
(* Queues                                                                  *)

\* The packets of a queue to which m was written, unless it was full.
Written(queue, m, after) ==
    \A i \in DOMAIN after :
        /\ \/ i \in DOMAIN queue /\ after[i] = queue[i]
           \/ i = Len(queue) + 1 /\ after[i] = m
        /\ \A j \in 1 .. i - 1 : j \in DOMAIN queue /\ after[j] = queue[j]

LEMMA QueuedAt ==
    ASSUME NEW S, NEW queue \in Seq(S), NEW m \in S
    PROVE  Written(queue, m, Queued(queue, m))
<1>1. DOMAIN queue = 1 .. Len(queue) /\ Len(queue) \in Nat
  BY LenProperties
<1>2. CASE Len(queue) < ChanCap
  <2>1. Queued(queue, m) = Append(queue, m)
    BY <1>2 DEF Queued
  <2>2. /\ Append(queue, m) \in Seq(S)
        /\ Len(Append(queue, m)) = Len(queue) + 1
        /\ \A i \in 1 .. Len(queue) : Append(queue, m)[i] = queue[i]
        /\ Append(queue, m)[Len(queue) + 1] = m
    BY AppendProperties
  <2>3. DOMAIN Append(queue, m) = 1 .. Len(queue) + 1
    BY <2>2, LenProperties
  <2>4. Written(queue, m, Append(queue, m))
    BY <1>1, <2>2, <2>3 DEF Written
  <2> QED
    BY <2>1, <2>4
<1>3. CASE ~ Len(queue) < ChanCap
  <2>1. Queued(queue, m) = queue
    BY <1>3 DEF Queued
  <2>2. Written(queue, m, queue)
    BY <1>1 DEF Written
  <2> QED
    BY <2>1, <2>2
<1> QED
  BY <1>2, <1>3

\* The packets of a queue from which one was read.
LEMMA TailAt ==
    ASSUME NEW S, NEW queue \in Seq(S), queue # <<>>
    PROVE  /\ Tail(queue) \in Seq(S)
           /\ DOMAIN queue = 1 .. Len(queue) /\ Len(queue) \in Nat \ {0}
           /\ Head(queue) = queue[1] /\ queue[1] \in S
           /\ DOMAIN Tail(queue) = 1 .. Len(queue) - 1
           /\ \A i \in 1 .. Len(queue) - 1 : Tail(queue)[i] = queue[i + 1]
<1>1. DOMAIN queue = 1 .. Len(queue) /\ Len(queue) \in Nat \ {0}
  BY LenProperties, EmptySeq
<1>2. /\ Tail(queue) \in Seq(S) /\ Len(Tail(queue)) = Len(queue) - 1
      /\ \A i \in 1 .. Len(Tail(queue)) : Tail(queue)[i] = queue[i + 1]
  BY HeadTailProperties
<1>3. Head(queue) = queue[1] /\ queue[1] \in S
  BY <1>1, ElementOfSeq
<1>4. DOMAIN Tail(queue) = 1 .. Len(Tail(queue))
  BY <1>2, LenProperties
<1> QED
  BY <1>1, <1>2, <1>3, <1>4

\* What a reader finds at the head of its queue, and what is left for it.
LEMMA OrderRead ==
    ASSUME NEW S, \A m \in S : LastTime(m) \in Int, NEW queue \in Seq(S), queue # <<>>,
           NEW lct \in Int, NEW end \in Int, NEW asked \in Int, InOrder(queue, lct, end, asked),
           NEW new \in Int, lct <= new, new = lct \/ new = LastTime(Head(queue))
    PROVE  /\ InOrder(Tail(queue), new, end, asked)
           /\ LastTime(Head(queue)) < end
           /\ Head(queue).type \in {"command", "server"} => lct < LastTime(Head(queue))
           /\ Head(queue).type = "fixup" => Consecutive(Head(queue))
           /\ Head(queue).type = "request" => Answerable(Head(queue), asked)
<1>1. /\ DOMAIN queue = 1 .. Len(queue) /\ Len(queue) \in Nat \ {0}
      /\ Head(queue) = queue[1] /\ queue[1] \in S
      /\ DOMAIN Tail(queue) = 1 .. Len(queue) - 1
      /\ \A i \in 1 .. Len(queue) - 1 : Tail(queue)[i] = queue[i + 1]
  BY TailAt
<1>2. 1 \in DOMAIN queue
  BY <1>1
<1>3. /\ LastTime(Head(queue)) < end
      /\ Head(queue).type \in {"command", "server"} => lct < LastTime(Head(queue))
      /\ Head(queue).type = "fixup" => Consecutive(Head(queue))
      /\ Head(queue).type = "request" => Answerable(Head(queue), asked)
  BY <1>1, <1>2 DEF InOrder
<1>4. -1 <= new /\ new < end
  BY <1>3 DEF InOrder
<1>5. ASSUME NEW i \in DOMAIN Tail(queue)
      PROVE  LET m == Tail(queue)[i] IN
             /\ LastTime(m) < end
             /\ m.type \in {"command", "server"} =>
                    /\ new < LastTime(m)
                    /\ \A j \in 1 .. i - 1 : LastTime(Tail(queue)[j]) < LastTime(m)
             /\ m.type = "fixup" => Consecutive(m)
             /\ m.type = "request" => Answerable(m, asked)
  <2>1. i \in 1 .. Len(queue) - 1 /\ i + 1 \in DOMAIN queue /\ Tail(queue)[i] = queue[i + 1]
    BY <1>1
  <2>2. /\ LastTime(queue[i + 1]) < end
        /\ queue[i + 1].type \in {"command", "server"} =>
               /\ lct < LastTime(queue[i + 1])
               /\ \A j \in 1 .. (i + 1) - 1 : LastTime(queue[j]) < LastTime(queue[i + 1])
        /\ queue[i + 1].type = "fixup" => Consecutive(queue[i + 1])
        /\ queue[i + 1].type = "request" => Answerable(queue[i + 1], asked)
    BY <2>1 DEF InOrder
  <2>3. \A j \in 1 .. i - 1 : Tail(queue)[j] = queue[j + 1] /\ j + 1 \in 1 .. (i + 1) - 1
    <3>1. i \in Int /\ Len(queue) \in Int /\ i <= Len(queue) - 1
      BY <1>1, <2>1
    <3>2. \A j \in 1 .. i - 1 : j \in 1 .. Len(queue) - 1 /\ j + 1 \in 1 .. (i + 1) - 1
      BY <3>1
    <3> QED
      BY <1>1, <3>2
  <2>4. 1 \in 1 .. (i + 1) - 1
    BY <2>1
  <2> QED
    BY <1>1, <2>1, <2>2, <2>3, <2>4
<1> QED
  BY <1>3, <1>4, <1>5 DEF InOrder

\* What may be written to a queue.
LEMMA OrderWrite ==
    ASSUME NEW S, NEW queue \in Seq(S), NEW m \in S,
           NEW lct, NEW end, NEW asked, InOrder(queue, lct, end, asked),
           LastTime(m) < end,
           m.type \in {"command", "server"} =>
               lct < LastTime(m) /\ \A i \in DOMAIN queue : LastTime(queue[i]) < LastTime(m),
           m.type = "fixup" => Consecutive(m),
           m.type = "request" => Answerable(m, asked)
    PROVE  InOrder(Queued(queue, m), lct, end, asked)
<1> DEFINE after == Queued(queue, m)
<1>1. Written(queue, m, after)
  BY QueuedAt
<1> HIDE DEF after
<1>2. InOrder(after, lct, end, asked)
  <2>1. -1 <= lct /\ lct < end
    BY DEF InOrder
  <2>2. ASSUME NEW i \in DOMAIN after
        PROVE  /\ LastTime(after[i]) < end
               /\ after[i].type \in {"command", "server"} =>
                      /\ lct < LastTime(after[i])
                      /\ \A j \in 1 .. i - 1 : LastTime(after[j]) < LastTime(after[i])
               /\ after[i].type = "fixup" => Consecutive(after[i])
               /\ after[i].type = "request" => Answerable(after[i], asked)
    <3>1. CASE i \in DOMAIN queue /\ after[i] = queue[i]
      BY <1>1, <3>1 DEF InOrder, Written
    <3>2. CASE after[i] = m
      BY <1>1, <3>2 DEF Written
    <3> QED
      BY <1>1, <3>1, <3>2 DEF Written
  <2> QED
    BY <2>1, <2>2 DEF InOrder
<1> QED
  BY <1>2 DEF after

\* The times in the packets of S are numbers.
Timed(S) ==
    \A m \in S : /\ LastTime(m) \in Int
                 /\ m.type = "request" => m.time \in Int /\ m.numpackets \in Int

\* Time goes on at the other end.
LEMMA OrderGrow ==
    ASSUME NEW S, Timed(S), NEW queue \in Seq(S), NEW lct \in Int,
           NEW end \in Int, NEW asked \in Int, NEW later \in Int, NEW asklater \in Int,
           end <= later, asked <= asklater, InOrder(queue, lct, end, asked)
    PROVE  InOrder(queue, lct, later, asklater)
<1>1. \A i \in DOMAIN queue : queue[i] \in S
  BY LenProperties, ElementOfSeq
<1>2. -1 <= lct /\ lct < later
  BY DEF InOrder
<1>3. ASSUME NEW i \in DOMAIN queue
      PROVE  /\ LastTime(queue[i]) < later
             /\ queue[i].type = "request" => Answerable(queue[i], asklater)
  <2>0. queue[i] \in S
    BY <1>1
  <2>1. LastTime(queue[i]) < end
    BY DEF InOrder
  <2>2. ASSUME queue[i].type = "request" PROVE Answerable(queue[i], asklater)
    <3>1. queue[i].time \in Int /\ queue[i].numpackets \in Int
      BY <2>0, <2>2 DEF Timed
    <3>2. Answerable(queue[i], asked)
      BY <2>2 DEF InOrder
    <3> QED
      BY <3>1, <3>2 DEF Answerable
  <2> QED
    BY <2>0, <2>1, <2>2 DEF Timed
<1> QED
  BY <1>2, <1>3 DEF InOrder

-----------------------------------------------------------------------------
(* The packets of the players                                              *)

\* What a packet of a player, or of the server, says about its last tic.
LEMMA UpTimes ==
    ASSUME SubmittedOK, NEW p \in Player, NEW m \in UpPacket(p)
    PROVE  /\ LastTime(m) \in Int
           /\ m.type = "request" => m.time \in Int /\ m.numpackets \in Int
           /\ m.type \in {"command", "request", "fixup"}
<1>1. CASE m \in [type : {"command"}, cmd : Made(p)]
  BY <1>1, MadeIsCommand DEF LastTime
<1>2. CASE m \in RequestPacket
  BY <1>2 DEF RequestPacket, LastTime
<1>3. CASE m \in [type : {"fixup"}, time : Int, subs : Seq(Made(p))]
  BY <1>3, LenProperties DEF LastTime
<1> QED
  BY <1>1, <1>2, <1>3 DEF UpPacket

LEMMA DownTimes ==
    ASSUME NEW m \in DownPacket
    PROVE  /\ LastTime(m) \in Int
           /\ m.type = "request" => m.time \in Int /\ m.numpackets \in Int
           /\ m.type \in {"server", "request", "fixup"}
<1>1. CASE m \in [type : {"server"}, pkt : MadePacket]
  BY <1>1, FillIsCommand DEF LastTime, MadePacket, ServerPacket
<1>2. CASE m \in RequestPacket
  BY <1>2 DEF RequestPacket, LastTime
<1>3. CASE m \in [type : {"fixup"}, time : Int, subs : Seq(MadePacket)]
  BY <1>3, LenProperties DEF LastTime
<1> QED
  BY <1>1, <1>2, <1>3 DEF DownPacket

LEMMA PacketsTimed ==
    ASSUME SubmittedOK
    PROVE  Timed(DownPacket) /\ \A p \in Player : Timed(UpPacket(p))
BY UpTimes, DownTimes DEF Timed

\* A request as the two sides write it can be answered.
LEMMA RequestAnswerable ==
    ASSUME NEW t \in Nat, NEW n \in Nat, NEW end \in Int, n <= 1 \/ t + n <= end
    PROVE  /\ Request(t, n) \in RequestPacket
           /\ Request(t, n).type = "request" /\ Request(t, n).time = t
           /\ LastTime(Request(t, n)) = -1
           /\ Answerable(Request(t, n), end)
<1>1. Request(t, n) \in RequestPacket
  BY RequestIsPacket
<1>2. Request(t, n).type = "request" /\ Request(t, n).time = t /\ Request(t, n).numpackets = n % ByteSize
  BY DEF Request
<1>3. n % ByteSize \in Nat /\ n % ByteSize <= n /\ n % ByteSize < MAXCMDS
  <2>1. ByteSize \in Nat \ {0} /\ ByteSize <= MAXCMDS /\ MAXCMDS \in Nat
    BY RottNetAssumption
  <2> DEFINE q == n \div ByteSize
             r == n % ByteSize
  <2>2. q \in Int /\ r \in 0 .. ByteSize - 1 /\ n = ByteSize * q + r
    BY <2>1, SMT
  <2> HIDE DEF q, r
  <2>3. CASE q >= 0
    <3>1. ByteSize * q >= 0
      BY <2>1, <2>2, <2>3, SMT
    <3> QED
      BY <2>1, <2>2, <3>1 DEF r
  <2>4. CASE q <= -1
    <3>1. ByteSize * q <= -ByteSize
      BY <2>1, <2>2, <2>4, SMT
    <3> QED
      BY <2>1, <2>2, <3>1
  <2> QED
    BY <2>2, <2>3, <2>4
<1>4. LastTime(Request(t, n)) = -1
  BY <1>2 DEF LastTime
<1>5. Answerable(Request(t, n), end)
  BY <1>2, <1>3 DEF Answerable
<1> QED
  BY <1>1, <1>2, <1>4, <1>5

\* What a player's packet says of the order once it was written.
LEMMA UpWritten ==
    ASSUME IInv, OrderInv, NEW p \in Player, NEW m \in UpPacket(p), WriteToServer(p, m),
           LastTime(m) < controlupdatetime[p], m.type # "command",
           m.type = "fixup" => Consecutive(m),
           m.type = "request" => Answerable(m, serverupdatetime)
    PROVE  \A q \in Player : InOrder(toServer'[q], ServerLastCommandTime[q],
                                     controlupdatetime[q], serverupdatetime)
<1> SUFFICES ASSUME NEW q \in Player
             PROVE  InOrder(toServer'[q], ServerLastCommandTime[q],
                            controlupdatetime[q], serverupdatetime)
  OBVIOUS
<1>1. /\ InOrder(toServer[q], ServerLastCommandTime[q], controlupdatetime[q], serverupdatetime)
      /\ toServer[q] \in Seq(UpPacket(q))
      /\ toServer' = [toServer EXCEPT ![p] = Queued(@, m)]
      /\ toServer = [r \in Player |-> toServer[r]]
  BY DEF OrderInv, UpInOrder, IInv, QueuesOK, WriteToServer
<1>2. CASE q = p
  <2>1. toServer'[p] = Queued(toServer[p], m)
    BY <1>1
  <2>2. m.type \in {"command", "request", "fixup"}
    BY UpTimes DEF IInv
  <2>3. InOrder(Queued(toServer[p], m), ServerLastCommandTime[p],
                controlupdatetime[p], serverupdatetime)
    BY <1>1, <1>2, <2>2, OrderWrite
  <2> QED
    BY <1>2, <2>1, <2>3
<1>3. CASE q # p
  BY <1>1, <1>3
<1> QED
  BY <1>2, <1>3

\* And the same of the server's.
LEMMA DownWritten ==
    ASSUME IInv, OrderInv, NEW p \in Player, NEW m \in DownPacket, WriteToClient(p, m),
           LastTime(m) < serverupdatetime, m.type # "server",
           m.type = "fixup" => Consecutive(m),
           m.type = "request" => Answerable(m, controlupdatetime[p])
    PROVE  \A q \in Player : InOrder(toClient'[q], LastCommandTime[q],
                                     serverupdatetime, controlupdatetime[q])
<1> SUFFICES ASSUME NEW q \in Player
             PROVE  InOrder(toClient'[q], LastCommandTime[q],
                            serverupdatetime, controlupdatetime[q])
  OBVIOUS
<1>1. /\ InOrder(toClient[q], LastCommandTime[q], serverupdatetime, controlupdatetime[q])
      /\ toClient[q] \in Seq(DownPacket)
      /\ toClient' = [toClient EXCEPT ![p] = IF Controlling(p) THEN Queued(@, m) ELSE @]
      /\ toClient = [r \in Player |-> toClient[r]]
  BY DEF OrderInv, DownInOrder, IInv, QueuesOK, WriteToClient
<1>2. CASE q = p /\ Controlling(p)
  <2>1. toClient'[p] = Queued(toClient[p], m)
    BY <1>1, <1>2
  <2>2. m.type \in {"server", "request", "fixup"}
    BY DownTimes
  <2>3. InOrder(Queued(toClient[p], m), LastCommandTime[p],
                serverupdatetime, controlupdatetime[p])
    BY <1>1, <1>2, <2>2, OrderWrite
  <2> QED
    BY <1>2, <2>1, <2>3
<1>3. CASE ~ (q = p /\ Controlling(p))
  <2>1. toClient'[q] = toClient[q]
    BY <1>1, <1>3
  <2> QED
    BY <1>1, <2>1
<1> QED
  BY <1>2, <1>3

\* What the server finds at the head of a queue, and what is left in it.
LEMMA UpRead ==
    ASSUME IInv, OrderInv, NEW p \in Player, toServer[p] # <<>>,
           toServer' = [toServer EXCEPT ![p] = Tail(@)],
           NEW new \in Int, ServerLastCommandTime[p] <= new,
           new = ServerLastCommandTime[p] \/ new = LastTime(Head(toServer[p])),
           \A q \in Player : ServerLastCommandTime'[q] =
                                 IF q = p THEN new ELSE ServerLastCommandTime[q]
    PROVE  \A q \in Player : InOrder(toServer'[q], ServerLastCommandTime'[q],
                                     controlupdatetime[q], serverupdatetime)
<1> SUFFICES ASSUME NEW q \in Player
             PROVE  InOrder(toServer'[q], ServerLastCommandTime'[q],
                            controlupdatetime[q], serverupdatetime)
  OBVIOUS
<1>1. /\ InOrder(toServer[q], ServerLastCommandTime[q], controlupdatetime[q], serverupdatetime)
      /\ toServer[q] \in Seq(UpPacket(q))
      /\ toServer = [r \in Player |-> toServer[r]]
      /\ ServerLastCommandTime[q] \in Int /\ controlupdatetime[q] \in Int /\ serverupdatetime \in Int
  BY DEF OrderInv, UpInOrder, IInv, QueuesOK, TypeOK
<1>2. CASE q = p
  <2>1. toServer'[p] = Tail(toServer[p]) /\ ServerLastCommandTime'[p] = new
    BY <1>1
  <2>2. \A m \in UpPacket(p) : LastTime(m) \in Int
    BY UpTimes DEF IInv
  <2>3. InOrder(Tail(toServer[p]), new, controlupdatetime[p], serverupdatetime)
    BY <1>1, <1>2, <2>2, OrderRead
  <2> QED
    BY <1>2, <2>1, <2>3
<1>3. CASE q # p
  <2>1. toServer'[q] = toServer[q] /\ ServerLastCommandTime'[q] = ServerLastCommandTime[q]
    BY <1>1, <1>3
  <2> QED
    BY <1>1, <2>1
<1> QED
  BY <1>2, <1>3

\* And a client.
LEMMA DownRead ==
    ASSUME IInv, OrderInv, NEW p \in Player, toClient[p] # <<>>,
           toClient' = [toClient EXCEPT ![p] = Tail(@)],
           NEW new \in Int, LastCommandTime[p] <= new,
           new = LastCommandTime[p] \/ new = LastTime(Head(toClient[p])),
           \A q \in Player : LastCommandTime'[q] = IF q = p THEN new ELSE LastCommandTime[q]
    PROVE  \A q \in Player : InOrder(toClient'[q], LastCommandTime'[q],
                                     serverupdatetime, controlupdatetime[q])
<1> SUFFICES ASSUME NEW q \in Player
             PROVE  InOrder(toClient'[q], LastCommandTime'[q],
                            serverupdatetime, controlupdatetime[q])
  OBVIOUS
<1>1. /\ InOrder(toClient[q], LastCommandTime[q], serverupdatetime, controlupdatetime[q])
      /\ toClient[q] \in Seq(DownPacket)
      /\ toClient = [r \in Player |-> toClient[r]]
      /\ LastCommandTime[q] \in Int /\ controlupdatetime[q] \in Int /\ serverupdatetime \in Int
  BY DEF OrderInv, DownInOrder, IInv, QueuesOK, TypeOK
<1>2. CASE q = p
  <2>1. toClient'[p] = Tail(toClient[p]) /\ LastCommandTime'[p] = new
    BY <1>1
  <2>2. \A m \in DownPacket : LastTime(m) \in Int
    BY DownTimes
  <2>3. InOrder(Tail(toClient[p]), new, serverupdatetime, controlupdatetime[p])
    BY <1>1, <1>2, <2>2, OrderRead
  <2> QED
    BY <1>2, <2>1, <2>3
<1>3. CASE q # p
  <2>1. toClient'[q] = toClient[q] /\ LastCommandTime'[q] = LastCommandTime[q]
    BY <1>1, <1>3
  <2> QED
    BY <1>1, <2>1
<1> QED
  BY <1>2, <1>3

-----------------------------------------------------------------------------
(* The order holds initially and every action keeps it                     *)

\* The body of SequenceNeverMovesBack.
NeverBack ==
    \A p \in Player : /\ LastCommandTime'[p] >= LastCommandTime[p]
                      /\ ServerLastCommandTime'[p] >= ServerLastCommandTime[p]

LEMMA InitOrder == Init => OrderInv
<1> SUFFICES ASSUME Init PROVE OrderInv
  OBVIOUS
<1>0. MAXCMDS \in Nat /\ FillTime \in Int /\ FillTime < 0
  BY RottNetAssumption, FillIsCommand
<1>1. ASSUME NEW ring, \A a \in Slot : ring[a].time = FillTime,
             \A t \in Nat : ~ t < 0
      PROVE  RingHolds(ring, 0)
  BY <1>0, <1>1 DEF RingHolds
<1>2. RingHolds(ServerCmds, serverupdatetime)
  BY <1>1 DEF Init, EmptyPacket
<1>3. \A p \in Player : RingHolds(LocalCmds[p], controlupdatetime[p])
  <2> SUFFICES ASSUME NEW p \in Player PROVE RingHolds(LocalCmds[p], 0)
    BY DEF Init
  <2>1. \A a \in Slot : LocalCmds[p][a].time = FillTime
    BY DEF Init, Fill
  <2> QED
    BY <1>1, <2>1
<1>4. InOrder(<<>>, -1, 0, 0)
  BY DEF InOrder
<1>5. \A p \in Player : UpInOrder(p) /\ DownInOrder(p)
  BY <1>4 DEF UpInOrder, DownInOrder, Init
<1> QED
  BY <1>2, <1>3, <1>5 DEF OrderInv

\* A fixup does not move the sequence back, and moves it to its last packet.
LEMMA FixedTimeMoves ==
    ASSUME NEW lct \in Int, NEW fix, fix.type = "fixup", fix.time \in Int,
           NEW S, fix.subs \in Seq(S)
    PROVE  /\ FixedTime(lct, fix) \in Int /\ lct <= FixedTime(lct, fix)
           /\ FixedTime(lct, fix) = lct \/ FixedTime(lct, fix) = LastTime(fix)
<1>1. Len(fix.subs) \in Nat
  BY LenProperties
<1>2. LastTime(fix) = fix.time + Len(fix.subs) - 1
  BY DEF LastTime
<1> QED
  BY <1>1, <1>2 DEF FixedTime, Expected

LEMMA PrepareLocalPacketOrder ==
    ASSUME IInv, OrderInv, NEW p \in Player, PrepareLocalPacket(p)
    PROVE  OrderInv' /\ NeverBack
<1> DEFINE c == controlupdatetime[p]
<1>1. PICK k \in Kind : LET cmd == [time |-> controlupdatetime[p], kind |-> k] IN
          /\ LocalCmds' = [LocalCmds EXCEPT ![p][CommandAddress(cmd.time)] = cmd]
          /\ WriteToServer(p, CommandPacket(cmd))
  BY DEF PrepareLocalPacket
<1> DEFINE cmd == [time |-> controlupdatetime[p], kind |-> k]
           m == CommandPacket(cmd)
<1>2. /\ LocalCmds' = [LocalCmds EXCEPT ![p][CommandAddress(c)] = cmd]
      /\ toServer' = [toServer EXCEPT ![p] = Queued(@, m)]
      /\ controlupdatetime' = [controlupdatetime EXCEPT ![p] = c + 1]
      /\ UNCHANGED <<LastCommandTime, serverupdatetime, ServerCmds, ServerLastCommandTime, toClient>>
  BY <1>1 DEF PrepareLocalPacket, WriteToServer, serverVars
<1>3. /\ cmd \in Command /\ cmd.time = c /\ c \in Nat
      /\ m.type = "command" /\ LastTime(m) = c
  BY DEF IInv, TypeOK, Command, CommandPacket, LastTime
<1>4. /\ LocalCmds \in [Player -> [Slot -> Command]]
      /\ controlupdatetime \in [Player -> Nat]
      /\ serverupdatetime \in Nat
      /\ LastCommandTime \in [Player -> Int] /\ ServerLastCommandTime \in [Player -> Int]
      /\ toServer = [q \in Player |-> toServer[q]]
  BY DEF IInv, TypeOK, QueuesOK
<1> HIDE DEF cmd, m
<1>5. ASSUME NEW q \in Player PROVE RingHolds(LocalCmds'[q], controlupdatetime'[q])
  <2>1. RingHolds(LocalCmds[q], controlupdatetime[q])
    BY DEF OrderInv
  <2>2. CASE q = p
    <3>1. LocalCmds'[p] = [LocalCmds[p] EXCEPT ![CommandAddress(c)] = cmd]
      BY <1>2, <1>4
    <3>2. \A e \in Command : e.time \in Int
      BY FillIsCommand DEF Command
    <3>3. RingHolds([LocalCmds[p] EXCEPT ![CommandAddress(c)] = cmd], c + 1)
      BY <1>3, <1>4, <2>1, <2>2, <3>2, RingNext
    <3> QED
      BY <1>2, <1>4, <2>2, <3>1, <3>3
  <2>3. CASE q # p
    BY <1>2, <1>4, <2>1, <2>3
  <2> QED
    BY <2>2, <2>3
<1>6. ASSUME NEW q \in Player PROVE UpInOrder(q)'
  <2>1. /\ InOrder(toServer[q], ServerLastCommandTime[q], controlupdatetime[q], serverupdatetime)
        /\ toServer[q] \in Seq(UpPacket(q))
    BY DEF OrderInv, UpInOrder, IInv, QueuesOK
  <2>2. CASE q = p
    <3>1. Timed(UpPacket(p))
      BY PacketsTimed DEF IInv
    <3>2. InOrder(toServer[p], ServerLastCommandTime[p], c + 1, serverupdatetime)
      <4>1. /\ c \in Int /\ c + 1 \in Int /\ c <= c + 1
            /\ serverupdatetime \in Int /\ ServerLastCommandTime[p] \in Int
        BY <1>3, <1>4
      <4> QED
        BY <2>1, <2>2, <3>1, <4>1, OrderGrow
    <3>3. toServer[p] \in Seq(UpPacket(p) \cup {m})
      BY <2>1, <2>2, SeqMonotonic
    <3>4. ServerLastCommandTime[p] < c /\ \A i \in DOMAIN toServer[p] : LastTime(toServer[p][i]) < c
      BY <2>1, <2>2 DEF InOrder
    <3>5. InOrder(Queued(toServer[p], m), ServerLastCommandTime[p], c + 1, serverupdatetime)
      BY <1>3, <3>2, <3>3, <3>4, OrderWrite
    <3> QED
      BY <1>2, <1>4, <2>2, <3>5 DEF UpInOrder
  <2>3. CASE q # p
    BY <1>2, <1>4, <2>1, <2>3 DEF UpInOrder
  <2> QED
    BY <2>2, <2>3
<1>7. ASSUME NEW q \in Player PROVE DownInOrder(q)'
  <2>1. /\ InOrder(toClient[q], LastCommandTime[q], serverupdatetime, controlupdatetime[q])
        /\ toClient[q] \in Seq(DownPacket)
    BY DEF OrderInv, DownInOrder, IInv, QueuesOK
  <2>2. /\ controlupdatetime[q] \in Int /\ controlupdatetime'[q] \in Int
        /\ controlupdatetime[q] <= controlupdatetime'[q]
    BY <1>2, <1>4
  <2>3. Timed(DownPacket) /\ LastCommandTime[q] \in Int /\ serverupdatetime \in Int
    BY <1>4, PacketsTimed DEF IInv
  <2>4. InOrder(toClient[q], LastCommandTime[q], serverupdatetime, controlupdatetime'[q])
    BY <2>1, <2>2, <2>3, OrderGrow
  <2> QED
    BY <1>2, <2>4 DEF DownInOrder
<1>8. RingHolds(ServerCmds, serverupdatetime)' /\ NeverBack
  BY <1>2, <1>4 DEF OrderInv, NeverBack
<1> QED
  BY <1>5, <1>6, <1>7, <1>8 DEF OrderInv

LEMMA AddServerPacketOrder ==
    ASSUME IInv, OrderInv, NEW p \in Player, AddServerPacket(p)
    PROVE  OrderInv' /\ NeverBack
<1> DEFINE m == Head(toClient[p])
           t == m.pkt.time
           expected == Expected(LastCommandTime[p])
           gap == t - expected
           ask == MustRequest(ServerCommandStatus[p], expected, gap)
<1>1. /\ toClient[p] # <<>> /\ m.type = "server"
      /\ toClient' = [toClient EXCEPT ![p] = Tail(@)]
      /\ LastCommandTime' = [LastCommandTime EXCEPT ![p] = t]
      /\ ask => WriteToServer(p, Request(expected, gap))
      /\ ~ask => UNCHANGED toServer
      /\ UNCHANGED <<controlupdatetime, LocalCmds, ServerLastCommandTime, serverupdatetime, ServerCmds>>
  BY DEF AddServerPacket, Arrived, serverVars
<1>2. /\ LastCommandTime \in [Player -> Int] /\ LastCommandTime[p] \in Int
      /\ ServerLastCommandTime \in [Player -> Int]
      /\ serverupdatetime \in Nat
      /\ toClient[p] \in Seq(DownPacket)
  BY DEF IInv, TypeOK, QueuesOK
<1>3. LastTime(m) = t /\ t \in Int
  <2>1. m \in DownPacket
    BY <1>1, <1>2, ReadType
  <2> QED
    BY <1>1, <2>1, DownTimes DEF LastTime
<1>4. LastCommandTime[p] < t /\ t < serverupdatetime /\ -1 <= LastCommandTime[p]
  <2>1. InOrder(toClient[p], LastCommandTime[p], serverupdatetime, controlupdatetime[p])
    BY DEF OrderInv, DownInOrder
  <2>2. 1 \in DOMAIN toClient[p] /\ m = toClient[p][1]
    BY <1>1, <1>2, TailAt
  <2> QED
    BY <1>1, <1>3, <2>1, <2>2 DEF InOrder
<1> HIDE DEF t, m, ask
<1>5. \A q \in Player : InOrder(toClient'[q], LastCommandTime'[q],
                                serverupdatetime, controlupdatetime[q])
  <2>1. t = LastTime(Head(toClient[p]))
    BY <1>3 DEF m
  <2>2. \A q \in Player : LastCommandTime'[q] = IF q = p THEN t ELSE LastCommandTime[q]
    BY <1>1, <1>2
  <2>3. LastCommandTime[p] <= t
    BY <1>2, <1>3, <1>4
  <2> QED
    BY <1>1, <1>3, <2>1, <2>2, <2>3, DownRead
<1>6. \A q \in Player : InOrder(toServer'[q], ServerLastCommandTime[q],
                                controlupdatetime[q], serverupdatetime)
  <2>1. CASE ask
    <3>1. expected \in Nat /\ gap \in Nat /\ expected + gap <= serverupdatetime
      BY <1>2, <1>3, <1>4 DEF Expected
    <3> HIDE DEF expected, gap
    <3>2. /\ Request(expected, gap) \in UpPacket(p) /\ Request(expected, gap).type = "request"
          /\ LastTime(Request(expected, gap)) = -1
          /\ Answerable(Request(expected, gap), serverupdatetime)
      BY <1>2, <3>1, RequestAnswerable DEF UpPacket
    <3>3. -1 < controlupdatetime[p]
      BY DEF IInv, TypeOK
    <3> QED
      BY <1>1, <2>1, <3>2, <3>3, UpWritten
  <2>2. CASE ~ask
    BY <1>1, <2>2 DEF OrderInv, UpInOrder
  <2> QED
    BY <2>1, <2>2
<1>7. NeverBack
  BY <1>1, <1>2, <1>3, <1>4 DEF NeverBack
<1> QED
  BY <1>1, <1>5, <1>6, <1>7 DEF OrderInv, UpInOrder, DownInOrder

LEMMA ClientFixupPacketOrder ==
    ASSUME IInv, OrderInv, NEW p \in Player, ClientFixupPacket(p)
    PROVE  OrderInv' /\ NeverBack
<1> DEFINE fix == Head(toClient[p])
           t == FixedTime(LastCommandTime[p], fix)
<1>1. /\ toClient[p] # <<>> /\ fix.type = "fixup"
      /\ toClient' = [toClient EXCEPT ![p] = Tail(@)]
      /\ LastCommandTime' = [LastCommandTime EXCEPT ![p] = t]
      /\ UNCHANGED <<controlupdatetime, LocalCmds, ServerLastCommandTime, serverupdatetime,
                     ServerCmds, toServer>>
  BY DEF ClientFixupPacket, Arrived, serverVars
<1>2. /\ LastCommandTime \in [Player -> Int] /\ ServerLastCommandTime \in [Player -> Int]
      /\ LastCommandTime[p] \in Int /\ toClient[p] \in Seq(DownPacket)
  BY DEF IInv, TypeOK, QueuesOK
<1>3. fix.time \in Int /\ fix.subs \in Seq(MadePacket)
  BY <1>1, <1>2, ReadType, DownFields
<1>4. t \in Int /\ LastCommandTime[p] <= t /\ (t = LastCommandTime[p] \/ t = LastTime(fix))
  BY <1>1, <1>2, <1>3, FixedTimeMoves
<1> HIDE DEF t
<1>5. \A q \in Player : LastCommandTime'[q] = IF q = p THEN t ELSE LastCommandTime[q]
  BY <1>1, <1>2
<1>6. \A q \in Player : InOrder(toClient'[q], LastCommandTime'[q],
                                serverupdatetime, controlupdatetime[q])
  BY <1>1, <1>4, <1>5, DownRead
<1>7. NeverBack
  BY <1>1, <1>2, <1>4, <1>5 DEF NeverBack
<1> QED
  BY <1>1, <1>6, <1>7 DEF OrderInv, UpInOrder, DownInOrder

LEMMA ResendLocalPacketsOrder ==
    ASSUME IInv, OrderInv, NEW p \in Player, ResendLocalPackets(p)
    PROVE  OrderInv' /\ NeverBack
<1> DEFINE request == Head(toClient[p])
           held == LocalCmds[p][CommandAddress(request.time)].time = request.time
           fix == Fixup(LocalCmds[p], request.time, request.numpackets)
<1>1. /\ toClient[p] # <<>> /\ request.type = "request"
      /\ toClient' = [toClient EXCEPT ![p] = Tail(@)]
      /\ \/ held /\ WriteToServer(p, fix)
         \/ UNCHANGED toServer
      /\ UNCHANGED <<controlupdatetime, LocalCmds, LastCommandTime, ServerLastCommandTime,
                     serverupdatetime, ServerCmds>>
  BY DEF ResendLocalPackets, Arrived, serverVars
<1>2. /\ LastCommandTime \in [Player -> Int] /\ ServerLastCommandTime \in [Player -> Int]
      /\ LastCommandTime[p] \in Int /\ LastCommandTime[p] <= LastCommandTime[p]
      /\ controlupdatetime[p] \in Nat /\ controlupdatetime[p] \in Int /\ serverupdatetime \in Int
      /\ LocalCmds[p] \in [Slot -> Command] /\ toClient[p] \in Seq(DownPacket)
  BY DEF IInv, TypeOK, QueuesOK
<1>3. \A q \in Player : LastCommandTime'[q] = IF q = p THEN LastCommandTime[p]
                                              ELSE LastCommandTime[q]
  BY <1>1
<1>4. \A q \in Player : InOrder(toClient'[q], LastCommandTime'[q],
                                serverupdatetime, controlupdatetime[q])
  BY <1>1, <1>2, <1>3, DownRead
<1>5. request \in DownPacket
  BY <1>1, <1>2, ReadType
<1>6. CASE held /\ WriteToServer(p, fix)
  <2>1. InOrder(toClient[p], LastCommandTime[p], serverupdatetime, controlupdatetime[p])
    BY DEF OrderInv, DownInOrder
  <2>2. \A m \in DownPacket : LastTime(m) \in Int
    BY DownTimes
  <2>3. Answerable(request, controlupdatetime[p])
    BY <1>1, <1>2, <2>1, <2>2, OrderRead
  <2>4. request.time \in Nat /\ request.numpackets \in Nat
    BY <1>1, <1>5, <2>3, DownFields DEF Answerable
  <2>5. RingHolds(LocalCmds[p], controlupdatetime[p])
    BY DEF OrderInv
  <2>6. \A e \in Command : e.time \in Int
    BY FillIsCommand DEF Command
  <2>7. /\ Consecutive(fix) /\ LastTime(fix) < controlupdatetime[p] /\ fix.type = "fixup"
    <3> HIDE DEF request
    <3> QED
      BY <1>2, <1>6, <2>3, <2>4, <2>5, <2>6, RingFixup
  <2>8. fix \in UpPacket(p)
    <3>1. LocalCmds[p] \in [Slot -> Made(p)]
      BY <1>2 DEF IInv, ClientRingsOK
    <3>2. request.time \in Int
      BY <2>4
    <3> HIDE DEF request, held
    <3>3. Fixup(LocalCmds[p], request.time, request.numpackets) \in UpPacket(p)
      BY <2>4, <3>1, <3>2, FixupSubs DEF Fixup, UpPacket
    <3> QED
      BY <3>3
  <2> HIDE DEF fix
  <2>9. \A q \in Player : InOrder(toServer'[q], ServerLastCommandTime[q],
                                  controlupdatetime[q], serverupdatetime)
    BY <1>6, <2>7, <2>8, UpWritten
  <2> QED
    BY <1>1, <1>2, <1>4, <2>9 DEF OrderInv, UpInOrder, DownInOrder, NeverBack
<1>7. CASE UNCHANGED toServer
  BY <1>1, <1>2, <1>4, <1>7 DEF OrderInv, UpInOrder, DownInOrder, NeverBack
<1> QED
  BY <1>1, <1>6, <1>7

\* A request of a client, alone or instead of a damaged packet.
LEMMA RequestFromServerOrder ==
    ASSUME IInv, OrderInv, NEW p \in Player, NEW t \in Nat, RequestFromServer(p, t, 1),
           \A q \in Player : InOrder(toClient'[q], LastCommandTime[q],
                                     serverupdatetime, controlupdatetime[q]),
           UNCHANGED <<controlupdatetime, LocalCmds, LastCommandTime, serverVars>>
    PROVE  OrderInv' /\ NeverBack
<1>1. /\ WriteToServer(p, Request(t, 1))
      /\ UNCHANGED <<ServerLastCommandTime, serverupdatetime, ServerCmds>>
  BY DEF RequestFromServer, serverVars
<1>2. /\ LastCommandTime \in [Player -> Int] /\ ServerLastCommandTime \in [Player -> Int]
      /\ controlupdatetime[p] \in Nat /\ serverupdatetime \in Int
  BY DEF IInv, TypeOK
<1>3. /\ Request(t, 1) \in UpPacket(p) /\ Request(t, 1).type = "request"
      /\ LastTime(Request(t, 1)) = -1
      /\ Answerable(Request(t, 1), serverupdatetime)
  <2>1. 1 \in Nat /\ (1 <= 1 \/ t + 1 <= serverupdatetime)
    OBVIOUS
  <2> QED
    BY <1>2, <2>1, RequestAnswerable DEF UpPacket
<1>4. -1 < controlupdatetime[p]
  BY <1>2
<1>5. \A q \in Player : InOrder(toServer'[q], ServerLastCommandTime[q],
                                controlupdatetime[q], serverupdatetime)
  BY <1>1, <1>3, <1>4, UpWritten
<1> QED
  BY <1>1, <1>2, <1>5 DEF OrderInv, UpInOrder, DownInOrder, NeverBack

LEMMA ClientBadPacketOrder ==
    ASSUME IInv, OrderInv, NEW p \in Player, ClientBadPacket(p)
    PROVE  OrderInv' /\ NeverBack
<1>1. /\ toClient[p] # <<>>
      /\ toClient' = [toClient EXCEPT ![p] = Tail(@)]
      /\ RequestFromServer(p, Expected(LastCommandTime[p]), 1)
      /\ UNCHANGED <<controlupdatetime, LocalCmds, LastCommandTime, serverVars>>
  BY DEF ClientBadPacket
<1>2. LastCommandTime[p] \in Int /\ LastCommandTime[p] <= LastCommandTime[p]
  BY DEF IInv, TypeOK
<1>3. \A q \in Player : LastCommandTime'[q] = IF q = p THEN LastCommandTime[p]
                                              ELSE LastCommandTime[q]
  BY <1>1
<1>4. \A q \in Player : InOrder(toClient'[q], LastCommandTime'[q],
                                serverupdatetime, controlupdatetime[q])
  BY <1>1, <1>2, <1>3, DownRead
<1>5. Expected(LastCommandTime[p]) \in Nat
  BY <1>2 DEF Expected, OrderInv, DownInOrder, InOrder
<1> QED
  BY <1>1, <1>4, <1>5, RequestFromServerOrder

LEMMA ClientTimeoutOrder ==
    ASSUME IInv, OrderInv, NEW p \in Player, ClientTimeout(p)
    PROVE  OrderInv' /\ NeverBack
<1>1. /\ RequestFromServer(p, oldpolltime[p], 1)
      /\ UNCHANGED <<controlupdatetime, LocalCmds, LastCommandTime, serverVars, toClient>>
  BY DEF ClientTimeout
<1>2. oldpolltime[p] \in Nat
  BY DEF IInv, TypeOK
<1>3. \A q \in Player : InOrder(toClient'[q], LastCommandTime[q],
                                serverupdatetime, controlupdatetime[q])
  BY <1>1 DEF OrderInv, DownInOrder
<1> QED
  BY <1>1, <1>2, <1>3, RequestFromServerOrder

\* Actions that touch no queue, no ring of made commands or closed tics and no
\* sequence.
LEMMA StutterOrder ==
    ASSUME IInv, OrderInv,
           UNCHANGED <<controlupdatetime, LocalCmds, LastCommandTime, serverupdatetime, ServerCmds,
                       ServerLastCommandTime, toServer, toClient>>
    PROVE  OrderInv' /\ NeverBack
BY DEF OrderInv, UpInOrder, DownInOrder, NeverBack, IInv, TypeOK

LEMMA AddPacketOrder ==
    ASSUME IInv, OrderInv, NEW p \in Player, AddPacket(p)
    PROVE  OrderInv' /\ NeverBack
<1> DEFINE m == Head(toServer[p])
           t == m.cmd.time
           expected == Expected(ServerLastCommandTime[p])
           gap == t - expected
           ask == MustRequest(ClientCommandStatus[p], expected, gap)
<1>1. /\ toServer[p] # <<>> /\ m.type = "command"
      /\ toServer' = [toServer EXCEPT ![p] = Tail(@)]
      /\ ServerLastCommandTime' = [ServerLastCommandTime EXCEPT ![p] = t]
      /\ ask => WriteToClient(p, Request(expected, gap))
      /\ ~ask => UNCHANGED toClient
      /\ UNCHANGED <<controlupdatetime, LocalCmds, LastCommandTime, serverupdatetime, ServerCmds>>
  BY DEF AddPacket, Received, clientVars
<1>2. /\ ServerLastCommandTime \in [Player -> Int] /\ ServerLastCommandTime[p] \in Int
      /\ LastCommandTime \in [Player -> Int]
      /\ serverupdatetime \in Nat /\ controlupdatetime[p] \in Int
      /\ toServer[p] \in Seq(UpPacket(p))
  BY DEF IInv, TypeOK, QueuesOK
<1>3. LastTime(m) = t /\ t \in Int
  <2>1. m \in UpPacket(p)
    BY <1>1, <1>2, ReadType
  <2> QED
    BY <1>1, <2>1, UpTimes DEF LastTime, IInv
<1>4. ServerLastCommandTime[p] < t /\ t < controlupdatetime[p] /\ -1 <= ServerLastCommandTime[p]
  <2>1. InOrder(toServer[p], ServerLastCommandTime[p], controlupdatetime[p], serverupdatetime)
    BY DEF OrderInv, UpInOrder
  <2>2. 1 \in DOMAIN toServer[p] /\ m = toServer[p][1]
    BY <1>1, <1>2, TailAt
  <2> QED
    BY <1>1, <1>3, <2>1, <2>2 DEF InOrder
<1> HIDE DEF t, m, ask
<1>5. \A q \in Player : InOrder(toServer'[q], ServerLastCommandTime'[q],
                                controlupdatetime[q], serverupdatetime)
  <2>1. t = LastTime(Head(toServer[p]))
    BY <1>3 DEF m
  <2>2. \A q \in Player : ServerLastCommandTime'[q] =
                              IF q = p THEN t ELSE ServerLastCommandTime[q]
    BY <1>1, <1>2
  <2>3. ServerLastCommandTime[p] <= t
    BY <1>2, <1>3, <1>4
  <2> QED
    BY <1>1, <1>3, <2>1, <2>2, <2>3, UpRead
<1>6. \A q \in Player : InOrder(toClient'[q], LastCommandTime[q],
                                serverupdatetime, controlupdatetime[q])
  <2>1. CASE ask
    <3>1. expected \in Nat /\ gap \in Nat /\ expected + gap <= controlupdatetime[p]
      <4>1. expected = ServerLastCommandTime[p] + 1
        BY DEF Expected
      <4> HIDE DEF expected
      <4> QED
        BY <1>2, <1>3, <1>4, <4>1
    <3> HIDE DEF expected, gap
    <3>2. /\ Request(expected, gap) \in DownPacket /\ Request(expected, gap).type = "request"
          /\ LastTime(Request(expected, gap)) = -1
          /\ Answerable(Request(expected, gap), controlupdatetime[p])
      BY <1>2, <3>1, RequestAnswerable DEF DownPacket
    <3>3. -1 < serverupdatetime
      BY <1>2
    <3> QED
      BY <1>1, <2>1, <3>2, <3>3, DownWritten
  <2>2. CASE ~ask
    BY <1>1, <2>2 DEF OrderInv, DownInOrder
  <2> QED
    BY <2>1, <2>2
<1>7. NeverBack
  BY <1>1, <1>2, <1>3, <1>4 DEF NeverBack
<1> QED
  BY <1>1, <1>5, <1>6, <1>7 DEF OrderInv, UpInOrder, DownInOrder

LEMMA ServerFixupPacketOrder ==
    ASSUME IInv, OrderInv, NEW p \in Player, ServerFixupPacket(p)
    PROVE  OrderInv' /\ NeverBack
<1> DEFINE fix == Head(toServer[p])
           t == FixedTime(ServerLastCommandTime[p], fix)
<1>1. /\ toServer[p] # <<>> /\ fix.type = "fixup"
      /\ toServer' = [toServer EXCEPT ![p] = Tail(@)]
      /\ ServerLastCommandTime' = [ServerLastCommandTime EXCEPT ![p] = t]
      /\ UNCHANGED <<controlupdatetime, LocalCmds, LastCommandTime, serverupdatetime,
                     ServerCmds, toClient>>
  BY DEF ServerFixupPacket, Received, clientVars
<1>2. /\ LastCommandTime \in [Player -> Int] /\ ServerLastCommandTime \in [Player -> Int]
      /\ ServerLastCommandTime[p] \in Int /\ toServer[p] \in Seq(UpPacket(p))
  BY DEF IInv, TypeOK, QueuesOK
<1>3. fix.time \in Int /\ fix.subs \in Seq(Made(p))
  BY <1>1, <1>2, ReadType, UpFields
<1>4. /\ t \in Int /\ ServerLastCommandTime[p] <= t
      /\ t = ServerLastCommandTime[p] \/ t = LastTime(fix)
  BY <1>1, <1>2, <1>3, FixedTimeMoves
<1> HIDE DEF t
<1>5. \A q \in Player : ServerLastCommandTime'[q] =
                            IF q = p THEN t ELSE ServerLastCommandTime[q]
  BY <1>1, <1>2
<1>6. \A q \in Player : InOrder(toServer'[q], ServerLastCommandTime'[q],
                                controlupdatetime[q], serverupdatetime)
  BY <1>1, <1>4, <1>5, UpRead
<1>7. NeverBack
  BY <1>1, <1>2, <1>4, <1>5 DEF NeverBack
<1> QED
  BY <1>1, <1>6, <1>7 DEF OrderInv, UpInOrder, DownInOrder

\* The server takes a packet and leaves its sequence alone.
LEMMA UpTaken ==
    ASSUME IInv, OrderInv, NEW p \in Player, toServer[p] # <<>>,
           toServer' = [toServer EXCEPT ![p] = Tail(@)], UNCHANGED ServerLastCommandTime
    PROVE  \A q \in Player : InOrder(toServer'[q], ServerLastCommandTime[q],
                                     controlupdatetime[q], serverupdatetime)
<1>1. ServerLastCommandTime[p] \in Int /\ ServerLastCommandTime[p] <= ServerLastCommandTime[p]
  BY DEF IInv, TypeOK
<1>2. \A q \in Player : ServerLastCommandTime'[q] = IF q = p THEN ServerLastCommandTime[p]
                                                    ELSE ServerLastCommandTime[q]
  OBVIOUS
<1>3. \A q \in Player : InOrder(toServer'[q], ServerLastCommandTime'[q],
                                controlupdatetime[q], serverupdatetime)
  BY <1>1, <1>2, UpRead
<1> QED
  BY <1>3

LEMMA IgnorePacketOrder ==
    ASSUME IInv, OrderInv, NEW p \in Player, IgnorePacket(p)
    PROVE  OrderInv' /\ NeverBack
<1>1. /\ toServer[p] # <<>> /\ toServer' = [toServer EXCEPT ![p] = Tail(@)]
      /\ UNCHANGED <<controlupdatetime, LocalCmds, LastCommandTime, serverupdatetime,
                     ServerCmds, ServerLastCommandTime, toClient>>
  BY DEF IgnorePacket, Received, clientVars, serverVars
<1>2. \A q \in Player : InOrder(toServer'[q], ServerLastCommandTime[q],
                                controlupdatetime[q], serverupdatetime)
  BY <1>1, UpTaken
<1>3. NeverBack
  BY <1>1 DEF NeverBack, IInv, TypeOK
<1> QED
  BY <1>1, <1>2, <1>3 DEF OrderInv, UpInOrder, DownInOrder

LEMMA ResendServerPacketsOrder ==
    ASSUME IInv, OrderInv, NEW p \in Player, ResendServerPackets(p)
    PROVE  OrderInv' /\ NeverBack
<1> DEFINE request == Head(toServer[p])
           held == IsServerCommandReady(request.time)
           fix == Fixup(ServerCmds, request.time, request.numpackets)
<1>1. /\ toServer[p] # <<>> /\ request.type = "request"
      /\ toServer' = [toServer EXCEPT ![p] = Tail(@)]
      /\ \/ held /\ WriteToClient(p, fix)
         \/ UNCHANGED toClient
      /\ UNCHANGED <<controlupdatetime, LocalCmds, LastCommandTime, ServerLastCommandTime,
                     serverupdatetime, ServerCmds>>
  BY DEF ResendServerPackets, Received, clientVars, serverVars
<1>2. /\ LastCommandTime \in [Player -> Int] /\ ServerLastCommandTime \in [Player -> Int]
      /\ ServerLastCommandTime[p] \in Int
      /\ ServerLastCommandTime[p] <= ServerLastCommandTime[p]
      /\ serverupdatetime \in Nat /\ controlupdatetime[p] \in Int /\ serverupdatetime \in Int
      /\ ServerCmds \in [Slot -> ServerPacket] /\ toServer[p] \in Seq(UpPacket(p))
  BY DEF IInv, TypeOK, QueuesOK
<1>3. \A q \in Player : InOrder(toServer'[q], ServerLastCommandTime[q],
                                controlupdatetime[q], serverupdatetime)
  BY <1>1, UpTaken
<1>4. request \in UpPacket(p)
  BY <1>1, <1>2, ReadType
<1>5. CASE held /\ WriteToClient(p, fix)
  <2>1. InOrder(toServer[p], ServerLastCommandTime[p], controlupdatetime[p], serverupdatetime)
    BY DEF OrderInv, UpInOrder
  <2>2. \A m \in UpPacket(p) : LastTime(m) \in Int
    BY UpTimes DEF IInv
  <2>3. Answerable(request, serverupdatetime)
    BY <1>1, <1>2, <2>1, <2>2, OrderRead
  <2>4. request.time \in Nat /\ request.numpackets \in Nat
    BY <1>1, <1>4, <2>3, UpFields DEF Answerable
  <2>5. RingHolds(ServerCmds, serverupdatetime)
    BY DEF OrderInv
  <2>6. \A e \in ServerPacket : e.time \in Int
    BY FillIsCommand DEF ServerPacket
  <2>7. ServerCmds[CommandAddress(request.time)].time = request.time
    BY <1>5 DEF IsServerCommandReady
  <2>8. /\ Consecutive(fix) /\ LastTime(fix) < serverupdatetime /\ fix.type = "fixup"
    <3> HIDE DEF request
    <3> QED
      BY <1>2, <2>3, <2>4, <2>5, <2>6, <2>7, RingFixup
  <2>9. fix \in DownPacket
    <3>1. ServerCmds \in [Slot -> MadePacket]
      BY <1>2 DEF IInv, ServerRingsOK
    <3>2. request.time \in Int
      BY <2>4
    <3> HIDE DEF request, held
    <3>3. Fixup(ServerCmds, request.time, request.numpackets) \in DownPacket
      BY <2>4, <3>1, <3>2, FixupSubs DEF Fixup, DownPacket
    <3> QED
      BY <3>3
  <2> HIDE DEF fix
  <2>10. \A q \in Player : InOrder(toClient'[q], LastCommandTime[q],
                                   serverupdatetime, controlupdatetime[q])
    BY <1>5, <2>8, <2>9, DownWritten
  <2> QED
    BY <1>1, <1>2, <1>3, <2>10 DEF OrderInv, UpInOrder, DownInOrder, NeverBack
<1>6. CASE UNCHANGED toClient
  BY <1>1, <1>2, <1>3, <1>6 DEF OrderInv, UpInOrder, DownInOrder, NeverBack
<1> QED
  BY <1>1, <1>5, <1>6

LEMMA ServerBadPacketOrder ==
    ASSUME IInv, OrderInv, NEW p \in Player, ServerBadPacket(p)
    PROVE  OrderInv' /\ NeverBack
<1> DEFINE t == Expected(ServerLastCommandTime[p])
<1>1. /\ toServer[p] # <<>> /\ toServer' = [toServer EXCEPT ![p] = Tail(@)]
      /\ WriteToClient(p, Request(t, 1)) \/ UNCHANGED toClient
      /\ UNCHANGED <<controlupdatetime, LocalCmds, LastCommandTime, serverupdatetime,
                     ServerCmds, ServerLastCommandTime>>
  BY DEF ServerBadPacket, clientVars
<1>2. /\ ServerLastCommandTime \in [Player -> Int] /\ LastCommandTime \in [Player -> Int]
      /\ controlupdatetime[p] \in Int /\ serverupdatetime \in Nat
  BY DEF IInv, TypeOK
<1>3. t \in Nat
  BY <1>2 DEF Expected, OrderInv, UpInOrder, InOrder
<1> HIDE DEF t
<1>4. \A q \in Player : InOrder(toServer'[q], ServerLastCommandTime[q],
                                controlupdatetime[q], serverupdatetime)
  BY <1>1, UpTaken
<1>5. CASE WriteToClient(p, Request(t, 1))
  <2>1. 1 \in Nat /\ (1 <= 1 \/ t + 1 <= controlupdatetime[p]) /\ -1 < serverupdatetime
    BY <1>2
  <2>2. /\ Request(t, 1) \in DownPacket /\ Request(t, 1).type = "request"
        /\ LastTime(Request(t, 1)) = -1
        /\ Answerable(Request(t, 1), controlupdatetime[p])
    BY <1>2, <1>3, <2>1, RequestAnswerable DEF DownPacket
  <2>3. \A q \in Player : InOrder(toClient'[q], LastCommandTime[q],
                                  serverupdatetime, controlupdatetime[q])
    BY <1>5, <2>1, <2>2, DownWritten
  <2> QED
    BY <1>1, <1>2, <1>4, <2>3 DEF OrderInv, UpInOrder, DownInOrder, NeverBack
<1>6. CASE UNCHANGED toClient
  BY <1>1, <1>2, <1>4, <1>6 DEF OrderInv, UpInOrder, DownInOrder, NeverBack
<1> QED
  BY <1>1, <1>5, <1>6

LEMMA SendFullServerPacketOrder ==
    ASSUME IInv, OrderInv, SendFullServerPacket
    PROVE  OrderInv' /\ NeverBack
<1> DEFINE n == serverupdatetime
           pkt == [time |-> serverupdatetime, cmds |-> [p \in Player |-> Collected(p)]]
           m == TicPacket(pkt)
<1>1. /\ ServerCmds' = [ServerCmds EXCEPT ![CommandAddress(n)] = pkt]
      /\ toClient' = [p \in Player |->
            IF InGame(p) /\ Controlling(p) THEN Queued(toClient[p], m) ELSE toClient[p]]
      /\ serverupdatetime' = n + 1
      /\ UNCHANGED <<controlupdatetime, LocalCmds, LastCommandTime, ServerLastCommandTime, toServer>>
  BY DEF SendFullServerPacket, clientVars
<1>2. /\ n \in Nat /\ ServerCmds \in [Slot -> ServerPacket]
      /\ LastCommandTime \in [Player -> Int] /\ ServerLastCommandTime \in [Player -> Int]
      /\ controlupdatetime \in [Player -> Nat]
  BY DEF IInv, TypeOK
<1>3. pkt \in MadePacket /\ pkt \in ServerPacket /\ pkt.time = n
  <2>1. \A p \in Player : Collected(p) \in Made(p) /\ Collected(p) \in Command
    <3>1. CommandAddress(serverupdatetime) \in Slot
      BY <1>2, AddressInRing
    <3> QED
      BY <3>1 DEF Collected, IInv, TypeOK, ServerRingsOK
  <2> QED
    BY <1>2, <2>1 DEF MadePacket, ServerPacket
<1>4. m \in DownPacket /\ m.type = "server" /\ LastTime(m) = n
  BY <1>3 DEF TicPacket, DownPacket, LastTime
<1> HIDE DEF pkt, m
<1>5. RingHolds(ServerCmds', n + 1)
  <2>1. \A e \in ServerPacket : e.time \in Int
    BY FillIsCommand DEF ServerPacket
  <2>2. RingHolds(ServerCmds, n)
    BY DEF OrderInv
  <2>3. RingHolds([ServerCmds EXCEPT ![CommandAddress(n)] = pkt], n + 1)
    BY <1>2, <1>3, <2>1, <2>2, RingNext
  <2> QED
    BY <1>1, <2>3
<1>6. ASSUME NEW p \in Player PROVE InOrder(toServer[p], ServerLastCommandTime[p],
                                            controlupdatetime[p], n + 1)
  <2>1. /\ InOrder(toServer[p], ServerLastCommandTime[p], controlupdatetime[p], n)
        /\ toServer[p] \in Seq(UpPacket(p)) /\ Timed(UpPacket(p))
    BY PacketsTimed DEF OrderInv, UpInOrder, IInv, QueuesOK
  <2>2. /\ n \in Int /\ n + 1 \in Int /\ n <= n + 1 /\ ServerLastCommandTime[p] \in Int
        /\ controlupdatetime[p] \in Int /\ controlupdatetime[p] <= controlupdatetime[p]
    BY <1>2
  <2> QED
    BY <2>1, <2>2, OrderGrow
<1>7. ASSUME NEW p \in Player PROVE InOrder(toClient'[p], LastCommandTime[p],
                                            n + 1, controlupdatetime[p])
  <2>1. /\ InOrder(toClient[p], LastCommandTime[p], n, controlupdatetime[p])
        /\ toClient[p] \in Seq(DownPacket) /\ Timed(DownPacket)
    BY PacketsTimed DEF OrderInv, DownInOrder, IInv, QueuesOK
  <2>2. /\ n \in Int /\ n + 1 \in Int /\ n <= n + 1 /\ n < n + 1 /\ LastCommandTime[p] \in Int
        /\ controlupdatetime[p] \in Int /\ controlupdatetime[p] <= controlupdatetime[p]
    BY <1>2
  <2>3. InOrder(toClient[p], LastCommandTime[p], n + 1, controlupdatetime[p])
    BY <2>1, <2>2, OrderGrow
  <2>4. LastCommandTime[p] < n /\ \A i \in DOMAIN toClient[p] : LastTime(toClient[p][i]) < n
    BY <2>1 DEF InOrder
  <2>5. InOrder(Queued(toClient[p], m), LastCommandTime[p], n + 1, controlupdatetime[p])
    BY <1>4, <2>1, <2>2, <2>3, <2>4, OrderWrite
  <2> QED
    BY <1>1, <2>3, <2>5
<1>8. RingHolds(ServerCmds', serverupdatetime') /\ NeverBack
  BY <1>1, <1>2, <1>5 DEF NeverBack
<1> QED
  BY <1>1, <1>6, <1>7, <1>8 DEF OrderInv, UpInOrder, DownInOrder

LEMMA ServerTimeoutOrder ==
    ASSUME IInv, OrderInv, ServerTimeout
    PROVE  OrderInv' /\ NeverBack
<1> DEFINE n == serverupdatetime
<1>1. /\ \A p \in Player : toClient'[p] \in {toClient[p], Queued(toClient[p], Request(n, 1))}
      /\ UNCHANGED <<controlupdatetime, LocalCmds, LastCommandTime, ServerLastCommandTime,
                     serverupdatetime, ServerCmds, toServer>>
  BY DEF ServerTimeout, clientVars
<1>2. /\ n \in Nat /\ LastCommandTime \in [Player -> Int]
      /\ ServerLastCommandTime \in [Player -> Int] /\ controlupdatetime \in [Player -> Nat]
  BY DEF IInv, TypeOK
<1>3. ASSUME NEW p \in Player
      PROVE  InOrder(toClient'[p], LastCommandTime[p], n, controlupdatetime[p])
  <2>1. /\ InOrder(toClient[p], LastCommandTime[p], n, controlupdatetime[p])
        /\ toClient[p] \in Seq(DownPacket)
    BY DEF OrderInv, DownInOrder, IInv, QueuesOK
  <2>2. 1 \in Nat /\ (1 <= 1 \/ n + 1 <= controlupdatetime[p]) /\ -1 < n
        /\ controlupdatetime[p] \in Int
    BY <1>2
  <2>3. /\ Request(n, 1) \in DownPacket /\ Request(n, 1).type = "request"
        /\ LastTime(Request(n, 1)) = -1
        /\ Answerable(Request(n, 1), controlupdatetime[p])
    BY <1>2, <2>2, RequestAnswerable DEF DownPacket
  <2>4. InOrder(Queued(toClient[p], Request(n, 1)), LastCommandTime[p], n, controlupdatetime[p])
    BY <2>1, <2>2, <2>3, OrderWrite
  <2> QED
    BY <1>1, <2>1, <2>4
<1> QED
  BY <1>1, <1>2, <1>3 DEF OrderInv, UpInOrder, DownInOrder, NeverBack

LEMMA NetworkOrder ==
    ASSUME IInv, OrderInv, Network
    PROVE  OrderInv' /\ NeverBack
<1>1. UNCHANGED <<controlupdatetime, LocalCmds, LastCommandTime, ServerLastCommandTime,
                  serverupdatetime, ServerCmds>>
  BY DEF Network, LoseToServer, LoseToClient, clientVars, serverVars
<1>2. NeverBack
  BY <1>1 DEF NeverBack, IInv, TypeOK
<1>3. ASSUME NEW p \in Player, LoseToServer(p) PROVE OrderInv'
  <2>1. /\ toServer[p] # <<>> /\ toServer' = [toServer EXCEPT ![p] = Tail(@)]
        /\ UNCHANGED <<ServerLastCommandTime, toClient>>
    BY <1>3 DEF LoseToServer, serverVars
  <2>2. \A q \in Player : InOrder(toServer'[q], ServerLastCommandTime[q],
                                  controlupdatetime[q], serverupdatetime)
    BY <2>1, UpTaken
  <2> QED
    BY <1>1, <2>1, <2>2 DEF OrderInv, UpInOrder, DownInOrder
<1>4. ASSUME NEW p \in Player, LoseToClient(p) PROVE OrderInv'
  <2>1. /\ toClient[p] # <<>> /\ toClient' = [toClient EXCEPT ![p] = Tail(@)]
        /\ UNCHANGED <<LastCommandTime, toServer>>
    BY <1>4 DEF LoseToClient, clientVars
  <2>2. LastCommandTime[p] \in Int /\ LastCommandTime[p] <= LastCommandTime[p]
    BY DEF IInv, TypeOK
  <2>3. \A q \in Player : LastCommandTime'[q] = IF q = p THEN LastCommandTime[p]
                                                ELSE LastCommandTime[q]
    BY <2>1
  <2>4. \A q \in Player : InOrder(toClient'[q], LastCommandTime'[q],
                                  serverupdatetime, controlupdatetime[q])
    BY <2>1, <2>2, <2>3, DownRead
  <2> QED
    BY <1>1, <2>1, <2>4 DEF OrderInv, UpInOrder, DownInOrder
<1> QED
  BY <1>2, <1>3, <1>4 DEF Network

LEMMA NextOrder ==
    ASSUME IInv, OrderInv, [Next]_vars
    PROVE  OrderInv' /\ NeverBack
<1>1. ASSUME NEW p \in Player, SimulateTic(p) \/ LeaveGame(p) PROVE OrderInv' /\ NeverBack
  <2>1. UNCHANGED <<controlupdatetime, LocalCmds, LastCommandTime, serverupdatetime, ServerCmds,
                    ServerLastCommandTime, toServer, toClient>>
    BY <1>1 DEF SimulateTic, LeaveGame, serverVars
  <2> QED
    BY <2>1, StutterOrder
<1>2. ASSUME NEW p \in Player, Client(p) PROVE OrderInv' /\ NeverBack
  BY <1>1, <1>2, PrepareLocalPacketOrder, AddServerPacketOrder, ClientFixupPacketOrder,
     ResendLocalPacketsOrder, ClientBadPacketOrder, ClientTimeoutOrder DEF Client
<1>3. CASE Server
  <2>1. CASE AreClientsReady
    <3>1. UNCHANGED <<controlupdatetime, LocalCmds, LastCommandTime, serverupdatetime, ServerCmds,
                      ServerLastCommandTime, toServer, toClient>>
      BY <2>1 DEF AreClientsReady, clientVars
    <3> QED
      BY <3>1, StutterOrder
  <2> QED
    BY <1>3, <2>1, AddPacketOrder, IgnorePacketOrder, ServerFixupPacketOrder,
       ResendServerPacketsOrder, ServerBadPacketOrder, SendFullServerPacketOrder,
       ServerTimeoutOrder DEF Server
<1>4. CASE Network
  BY <1>4, NetworkOrder
<1>5. CASE GameOver \/ UNCHANGED vars
  <2>1. UNCHANGED <<controlupdatetime, LocalCmds, LastCommandTime, serverupdatetime, ServerCmds,
                    ServerLastCommandTime, toServer, toClient>>
    BY <1>5 DEF GameOver, vars, clientVars, serverVars
  <2> QED
    BY <2>1, StutterOrder
<1> QED
  BY <1>2, <1>3, <1>4, <1>5 DEF Next
-----------------------------------------------------------------------------
(* The theorems                                                            *)

\* OrderInv is an invariant of the network game: what is on its way is in
\* sequence, and every ring holds the last MAXCMDS packets that were put in it.
THEOREM Ordered == Spec => []OrderInv
<1>1. Init => OrderInv
  BY InitOrder
<1>2. IInv /\ OrderInv /\ [Next]_vars => OrderInv'
  BY NextOrder
<1> QED
  BY <1>1, <1>2, Inductive, PTL DEF Spec

\* The subs of every fixup on its way are the packets of consecutive tics from
\* its time on (Resend*Packets): no slot that was reused or not filled yet,
\* whatever is lost and however far a client runs ahead.
THEOREM FixupsFollow == Spec => []FixupsAreConsecutive
<1>1. OrderInv => FixupsAreConsecutive
  BY DEF OrderInv, UpInOrder, DownInOrder, InOrder, Consecutive, FixupsAreConsecutive
<1> QED
  BY <1>1, Ordered, PTL

\* No packet, late, repeated or sent again, moves LastCommandTime back, on the
\* server or on a client (CheckForPacket, AddPacket, AddServerPacket, FixupPacket).
THEOREM SequenceKept == Spec => SequenceNeverMovesBack
<1>1. IInv /\ OrderInv /\ [Next]_vars =>
          [\A p \in Player : /\ LastCommandTime'[p] >= LastCommandTime[p]
                             /\ ServerLastCommandTime'[p] >= ServerLastCommandTime[p]]_vars
  BY NextOrder DEF NeverBack
<1>2. Spec => [][\A p \in Player :
                     /\ LastCommandTime'[p] >= LastCommandTime[p]
                     /\ ServerLastCommandTime'[p] >= ServerLastCommandTime[p]]_vars
  BY <1>1, Inductive, Ordered, PTL DEF Spec
<1> QED
  BY <1>2 DEF SequenceNeverMovesBack
=============================================================================
