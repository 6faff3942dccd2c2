------------------------ MODULE RottNetLockstepProofs ------------------------
(***************************************************************************)
(* Theorems about the lock step of RottNet, for clients whose clock runs   *)
(* less than a ring ahead of their simulation: the server closes every tic *)
(* with the commands of all players in the game, and what the clients      *)
(* simulate of the players in the game is what it closed.                  *)
(***************************************************************************)
EXTENDS RottNetFreshProofs

-----------------------------------------------------------------------------
(* Closed packets                                                          *)

\* Players only leave: what was closed for them stays closed.
LEMMA ClosedStays ==
    ASSUME \A q \in Player : InGame(q)' => InGame(q)
    PROVE  /\ ClosedPacket \subseteq ClosedPacket'
           /\ DownClosed \subseteq DownClosed'
           /\ Seq(DownClosed) \subseteq Seq(DownClosed')
<1>1. ClosedPacket \subseteq ClosedPacket'
  BY DEF ClosedPacket
<1>2. DownClosed \subseteq DownClosed'
  <2> SUFFICES ASSUME NEW m \in DownClosed PROVE m \in DownClosed'
    OBVIOUS
  <2>1. CASE m \in [type : {"fixup"}, time : Int, subs : Seq(ClosedPacket)]
    <3>1. m.subs \in Seq(ClosedPacket')
      BY <1>1, <2>1, SeqMonotonic
    <3> QED
      BY <2>1, <3>1 DEF DownClosed
  <2>2. CASE m \notin [type : {"fixup"}, time : Int, subs : Seq(ClosedPacket)]
    BY <1>1, <2>2 DEF DownClosed, RequestPacket
  <2> QED
    BY <2>1, <2>2
<1>3. Seq(DownClosed) \subseteq Seq(DownClosed')
  BY <1>2, SeqMonotonic
<1> QED
  BY <1>1, <1>2, <1>3

\* What a client reads carries closed tics.
LEMMA ClosedRead ==
    ASSUME ClosedInv, NEW p \in Player, toClient[p] # <<>>
    PROVE  LET m == Head(toClient[p]) IN
           /\ m \in DownClosed /\ Tail(toClient[p]) \in Seq(DownClosed)
           /\ m.type = "server" => m.pkt \in ClosedPacket
           /\ m.type = "fixup" => m.subs \in Seq(ClosedPacket)
<1>1. Head(toClient[p]) \in DownClosed /\ Tail(toClient[p]) \in Seq(DownClosed)
  BY ReadType DEF ClosedInv
<1> QED
  BY <1>1 DEF DownClosed, RequestPacket

\* A command that was made for a tic is the one its player submitted for it.
LEMMA MadeFor ==
    ASSUME SubmittedOK, NEW p \in Player, NEW c \in Made(p), NEW t \in Nat, c.time = t
    PROVE  t + 1 \in 1 .. Len(submitted[p]) /\ c = submitted[p][t + 1]
<1>1. c # Fill
  BY FillIsCommand DEF Fill
<1>2. Len(submitted[p]) \in Nat /\ DOMAIN submitted[p] = 1 .. Len(submitted[p])
  BY LenProperties DEF SubmittedOK
<1>3. PICK i \in 1 .. Len(submitted[p]) : c = submitted[p][i]
  BY <1>1, <1>2 DEF Made
<1>4. i = t + 1
  BY <1>2, <1>3 DEF SubmittedOK
<1> QED
  BY <1>3, <1>4

\* What is written to or read from a client's queue leaves closed tics there.
LEMMA ClosedQueues ==
    ASSUME ClosedInv, UNCHANGED <<ServerCmds, ServerPlayerStatus>>,
           \A p \in Player :
               \/ toClient'[p] = toClient[p]
               \/ toClient[p] # <<>> /\ toClient'[p] = Tail(toClient[p])
               \/ \E m \in DownClosed : toClient'[p] = Queued(toClient[p], m)
    PROVE  ClosedInv'
<1>1. /\ ClosedPacket' = ClosedPacket /\ DownClosed' = DownClosed
  BY DEF ClosedPacket, DownClosed, InGame
<1>2. ASSUME NEW p \in Player PROVE toClient'[p] \in Seq(DownClosed)
  <2>1. toClient[p] \in Seq(DownClosed)
    BY DEF ClosedInv
  <2> QED
    BY <2>1, ReadType, QueuedType
<1> QED
  BY <1>1, <1>2 DEF ClosedInv

\* The steps but the closing of a tic.
LEMMA OtherStepsClosed ==
    ASSUME IInv, ClosedInv, [Next]_vars, ~SendFullServerPacket
    PROVE  ClosedInv'
<1>1. \A t \in Int, n \in Int : Request(t, n) \in DownClosed
  BY RequestIsPacket DEF DownClosed
<1>2. \A p \in Player : ServerLastCommandTime[p] + 1 \in Int /\ ServerLastCommandTime[p] \in Int
  BY DEF IInv, TypeOK
<1>3. toClient = [q \in Player |-> toClient[q]]
  BY DEF IInv, QueuesOK
<1>4. ASSUME NEW p \in Player, Client(p) \/ LoseToServer(p) \/ LoseToClient(p) \/ IgnorePacket(p)
                               \/ ServerFixupPacket(p)
      PROVE  ClosedInv'
  <2>1. UNCHANGED <<ServerCmds, ServerPlayerStatus>>
    BY <1>4 DEF Client, PrepareLocalPacket, AddServerPacket, ClientFixupPacket, ResendLocalPackets,
                ClientBadPacket, ClientTimeout, SimulateTic, LeaveGame, LoseToServer, LoseToClient,
                IgnorePacket, ServerFixupPacket, serverVars
  <2>2. toClient' = toClient \/ (toClient[p] # <<>> /\ toClient' = [toClient EXCEPT ![p] = Tail(@)])
    BY <1>4 DEF Client, PrepareLocalPacket, AddServerPacket, ClientFixupPacket, ResendLocalPackets,
                ClientBadPacket, ClientTimeout, SimulateTic, LeaveGame, LoseToServer, LoseToClient,
                IgnorePacket, ServerFixupPacket, Arrived
  <2> QED
    BY <1>3, <2>1, <2>2, ClosedQueues
<1>5. ASSUME NEW p \in Player, AddPacket(p) PROVE ClosedInv'
  <2> DEFINE gap == Head(toServer[p]).cmd.time - (ServerLastCommandTime[p] + 1)
             m == Request(ServerLastCommandTime[p] + 1, gap)
  <2>1. /\ UNCHANGED <<ServerCmds, ServerPlayerStatus>>
        /\ toServer[p] # <<>> /\ Head(toServer[p]).type = "command"
        /\ UNCHANGED toClient \/ WriteToClient(p, m)
    BY <1>5 DEF AddPacket, Received, Expected
  <2>2. gap \in Int
    <3>1. Head(toServer[p]).cmd \in Made(p)
      BY <2>1, ReadType, UpFields DEF IInv, QueuesOK
    <3> QED
      BY <1>2, <3>1, MadeIsCommand DEF IInv
  <2> HIDE DEF gap
  <2>3. m \in DownClosed
    BY <1>1, <1>2, <2>2
  <2> HIDE DEF m
  <2> QED
    BY <1>3, <2>1, <2>3, ClosedQueues DEF WriteToClient
<1>6. ASSUME NEW p \in Player, ServerBadPacket(p) PROVE ClosedInv'
  <2> DEFINE m == Request(ServerLastCommandTime[p] + 1, 1)
  <2>1. /\ UNCHANGED <<ServerCmds, ServerPlayerStatus>>
        /\ UNCHANGED toClient \/ WriteToClient(p, m)
    BY <1>6 DEF ServerBadPacket, Expected
  <2>2. m \in DownClosed
    BY <1>1, <1>2
  <2> HIDE DEF m
  <2> QED
    BY <1>3, <2>1, <2>2, ClosedQueues DEF WriteToClient
<1>7. ASSUME NEW p \in Player, ResendServerPackets(p) PROVE ClosedInv'
  <2> DEFINE request == Head(toServer[p])
             m == Fixup(ServerCmds, request.time, request.numpackets)
  <2>1. /\ UNCHANGED <<ServerCmds, ServerPlayerStatus>>
        /\ toServer[p] # <<>> /\ request.type = "request"
        /\ UNCHANGED toClient \/ WriteToClient(p, m)
    BY <1>7 DEF ResendServerPackets, Received, serverVars
  <2>2. request.time \in Int /\ request.numpackets \in Nat
    BY <2>1, ReadType, UpFields DEF IInv, QueuesOK
  <2> HIDE DEF request
  <2>3. m \in DownClosed
    <3>1. ServerCmds \in [Slot -> ClosedPacket]
      BY DEF ClosedInv, IInv, TypeOK
    <3> QED
      BY <2>2, <3>1, FixupSubs DEF Fixup, DownClosed
  <2> HIDE DEF m
  <2> QED
    BY <1>3, <2>1, <2>3, ClosedQueues DEF WriteToClient
<1>8. CASE AreClientsReady
  BY <1>8, ClosedQueues DEF AreClientsReady
<1>9. CASE ServerTimeout
  <2>1. PICK missing : toClient' = [p \in Player |->
          IF p \in missing /\ Controlling(p)
          THEN Queued(toClient[p], Request(serverupdatetime, 1)) ELSE toClient[p]]
    BY <1>9 DEF ServerTimeout
  <2>2. Request(serverupdatetime, 1) \in DownClosed
    BY <1>1 DEF IInv, TypeOK
  <2>3. UNCHANGED <<ServerCmds, ServerPlayerStatus>>
    BY <1>9 DEF ServerTimeout
  <2> QED
    BY <2>1, <2>2, <2>3, ClosedQueues
<1>10. CASE GameOver \/ UNCHANGED vars
  BY <1>10, ClosedQueues DEF GameOver, vars, serverVars
<1> QED
  BY <1>4, <1>5, <1>6, <1>7, <1>8, <1>9, <1>10 DEF Next, Server, Network

\* Closing a tic: every player still in the game has its command in it.
LEMMA SendFullServerPacketClosed ==
    ASSUME IInv, ClosedInv, CheckedStaysReady, SendFullServerPacket
    PROVE  ClosedInv'
<1> DEFINE pkt == [time |-> serverupdatetime, cmds |-> [p \in Player |-> Collected(p)]]
<1>1. /\ clientsready
      /\ ServerCmds' = [ServerCmds EXCEPT ![CommandAddress(serverupdatetime)] = pkt]
      /\ toClient' = [p \in Player |->
            IF InGame(p) /\ Controlling(p)
            THEN Queued(toClient[p], TicPacket(pkt)) ELSE toClient[p]]
      /\ \A q \in Player : InGame(q)' => InGame(q)
  BY DEF SendFullServerPacket, InGame
<1>2. serverupdatetime \in Nat /\ CommandAddress(serverupdatetime) \in Slot
  BY AddressInRing DEF IInv, TypeOK
<1>3. \A p \in Player : Collected(p) \in Command /\ (InGame(p) => Collected(p).time = serverupdatetime)
  BY <1>1, <1>2 DEF Collected, IInv, TypeOK, CheckedStaysReady
<1>4. pkt \in ClosedPacket
  <2>1. pkt \in ServerPacket
    BY <1>2, <1>3 DEF ServerPacket
  <2> QED
    BY <1>3, <2>1 DEF ClosedPacket
<1> HIDE DEF pkt
<1>5. TicPacket(pkt) \in DownClosed
  BY <1>4 DEF TicPacket, DownClosed
<1>6. ASSUME NEW p \in Player PROVE toClient'[p] \in Seq(DownClosed)
  BY <1>1, <1>5, QueuedType DEF ClosedInv
<1>7. \A a \in Slot : ServerCmds'[a] \in ClosedPacket
  BY <1>1, <1>4 DEF ClosedInv, IInv, TypeOK
<1> QED
  BY <1>1, <1>6, <1>7, ClosedStays DEF ClosedInv

-----------------------------------------------------------------------------
(* The log                                                                 *)

\* The steps of a queue, a ring or a client: nothing is closed or submitted.
LEMMA LogKept ==
    ASSUME LogInv, UNCHANGED <<log, submitted, serverupdatetime, ServerPlayerStatus>>
    PROVE  LogInv'
BY DEF LogInv, InGame

\* Another command of a player: the ones in the log are still there.
LEMMA PrepareLocalPacketLog ==
    ASSUME IInv, LogInv, NEW p \in Player, PrepareLocalPacket(p)
    PROVE  LogInv'
<1>1. PICK k \in Kind : submitted' =
          [submitted EXCEPT ![p] = Append(@, [time |-> controlupdatetime[p], kind |-> k])]
  BY DEF PrepareLocalPacket
<1> DEFINE cmd == [time |-> controlupdatetime[p], kind |-> k]
<1>2. cmd \in Command /\ submitted \in [Player -> Seq(Command)]
  BY DEF IInv, TypeOK, SubmittedOK, Command
<1>3. submitted' = [submitted EXCEPT ![p] = Append(@, cmd)]
  BY <1>1
<1> HIDE DEF cmd
<1>4. \A q \in Player : /\ Len(submitted[q]) \in Nat /\ Len(submitted[q]) <= Len(submitted'[q])
                        /\ \A t \in 1 .. Len(submitted[q]) : submitted'[q][t] = submitted[q][t]
                        /\ Len(submitted'[q]) \in Nat
  <2> TAKE q \in Player
  <2>1. CASE q = p
    BY <1>2, <1>3, <2>1, AppendProperties, LenProperties
  <2>2. CASE q # p
    BY <1>2, <1>3, <2>2, LenProperties
  <2> QED
    BY <2>1, <2>2
<1>5. UNCHANGED <<log, serverupdatetime, ServerPlayerStatus>>
  BY DEF PrepareLocalPacket, serverVars
<1>6. Len(log) \in Nat
  BY LenProperties DEF LogInv
<1>7. ASSUME NEW q \in Player
      PROVE  IF InGame(q)'
             THEN \A t \in 1 .. Len(log) : /\ t <= Len(submitted'[q]) /\ log[t][q] = submitted'[q][t]
                                           /\ log[t][q].kind \notin Leaving
             ELSE \E t \in 1 .. Len(log) : log[t][q].kind \in Leaving
  <2>1. CASE InGame(q)
    <3> SUFFICES ASSUME NEW t \in 1 .. Len(log)
                 PROVE  /\ t <= Len(submitted'[q]) /\ log[t][q] = submitted'[q][t]
                        /\ log[t][q].kind \notin Leaving
      BY <1>5, <2>1 DEF InGame
    <3>1. t <= Len(submitted[q]) /\ log[t][q] = submitted[q][t] /\ log[t][q].kind \notin Leaving
      BY <2>1 DEF LogInv
    <3>2. t \in 1 .. Len(submitted[q])
      BY <1>4, <1>6, <3>1
    <3> QED
      BY <1>4, <1>6, <3>1, <3>2
  <2>2. CASE ~InGame(q)
    BY <1>5, <2>2 DEF LogInv, InGame
  <2> QED
    BY <2>1, <2>2
<1> QED
  BY <1>5, <1>7 DEF LogInv

\* Closing a tic: a player still in the game made its command for it, and is
\* out of the game afterwards if that is its leaving command.
LEMMA SendFullServerPacketLog ==
    ASSUME IInv, LogInv, CheckedStaysReady, SendFullServerPacket
    PROVE  LogInv'
<1> DEFINE tic == [p \in Player |-> IF InGame(p) THEN Collected(p) ELSE Absent]
           n == serverupdatetime + 1
<1>1. /\ clientsready
      /\ ServerPlayerStatus' = [p \in Player |->
            IF p \notin {q \in Player : Collected(q).kind \in Leaving} THEN ServerPlayerStatus[p]
            ELSE IF Collected(p).kind = "quit" THEN "quitgame" ELSE "leftgame"]
      /\ log' = Append(log, tic)
      /\ serverupdatetime' = n
      /\ UNCHANGED submitted
  BY DEF SendFullServerPacket
<1>2. serverupdatetime \in Nat /\ CommandAddress(serverupdatetime) \in Slot
  BY AddressInRing DEF IInv, TypeOK
<1>3. ASSUME NEW p \in Player
      PROVE  /\ Collected(p) \in Command
             /\ InGame(p) => n <= Len(submitted[p]) /\ Collected(p) = submitted[p][n]
  <2>1. Collected(p) \in Made(p) /\ Collected(p) \in Command
    BY <1>2 DEF Collected, IInv, TypeOK, ServerRingsOK
  <2>2. InGame(p) => Collected(p).time = serverupdatetime
    BY <1>1 DEF CheckedStaysReady
  <2> QED
    BY <1>2, <2>1, <2>2, MadeFor DEF IInv
<1>4. ASSUME NEW p \in Player
      PROVE  IF InGame(p)' THEN InGame(p) /\ Collected(p).kind \notin Leaving
                           ELSE ~InGame(p) \/ Collected(p).kind \in Leaving
  BY <1>1 DEF InGame
<1>5. tic \in [Player -> Command \cup {Absent}]
  BY <1>3
<1>6. /\ log \in Seq([Player -> Command \cup {Absent}]) /\ Len(log) = serverupdatetime
  BY DEF LogInv
<1>7. \A p \in Player : InGame(p) => tic[p] = Collected(p)
  OBVIOUS
<1> HIDE DEF tic
<1>8. /\ log' \in Seq([Player -> Command \cup {Absent}]) /\ Len(log') = n
      /\ log'[n] = tic
      /\ \A t \in 1 .. serverupdatetime : log'[t] = log[t]
  BY <1>1, <1>5, <1>6, AppendProperties
<1>9. \A t \in 1 .. n : t = n \/ t \in 1 .. serverupdatetime
  BY <1>2
<1>10. n \in 1 .. n /\ \A t \in 1 .. serverupdatetime : t \in 1 .. n
  BY <1>2
<1> HIDE DEF n
<1>11. ASSUME NEW q \in Player
       PROVE  IF InGame(q)'
              THEN \A t \in 1 .. n : /\ t <= Len(submitted[q]) /\ log'[t][q] = submitted[q][t]
                                     /\ log'[t][q].kind \notin Leaving
              ELSE \E t \in 1 .. n : log'[t][q].kind \in Leaving
  <2>1. CASE InGame(q)'
    <3> SUFFICES ASSUME NEW t \in 1 .. n
                 PROVE  /\ t <= Len(submitted[q]) /\ log'[t][q] = submitted[q][t]
                        /\ log'[t][q].kind \notin Leaving
      BY <2>1
    <3>1. CASE t = n
      BY <1>3, <1>4, <1>7, <1>8, <2>1, <3>1
    <3>2. CASE t \in 1 .. serverupdatetime
      BY <1>4, <1>6, <1>8, <2>1, <3>2 DEF LogInv
    <3> QED
      BY <1>9, <3>1, <3>2
  <2>2. CASE ~InGame(q)' /\ InGame(q)
    BY <1>4, <1>7, <1>8, <1>10, <2>2
  <2>3. CASE ~InGame(q)' /\ ~InGame(q)
    <3>1. PICK t \in 1 .. serverupdatetime : log[t][q].kind \in Leaving
      BY <1>6, <2>3 DEF LogInv
    <3>2. t \in 1 .. n /\ log'[t][q].kind \in Leaving
      BY <1>8, <1>10, <3>1
    <3> QED
      BY <2>3, <3>2
  <2> QED
    BY <2>1, <2>2, <2>3
<1> QED
  BY <1>1, <1>8, <1>11 DEF LogInv

LEMMA NextLog ==
    ASSUME IInv, LogInv, CheckedStaysReady, [Next]_vars
    PROVE  LogInv'
<1> DEFINE NothingClosed ==
           /\ log' = log /\ submitted' = submitted
           /\ serverupdatetime' = serverupdatetime /\ ServerPlayerStatus' = ServerPlayerStatus
<1>1. CASE \E p \in Player : PrepareLocalPacket(p)
  BY <1>1, PrepareLocalPacketLog
<1>2. CASE SendFullServerPacket
  BY <1>2, SendFullServerPacketLog
<1>3. CASE ~SendFullServerPacket /\ ~ \E p \in Player : PrepareLocalPacket(p)
  <2>1. ASSUME NEW p \in Player, Client(p)
        PROVE  NothingClosed
    BY <1>3, <2>1 DEF Client, AddServerPacket, ClientFixupPacket, ResendLocalPackets,
       ClientBadPacket, ClientTimeout, SimulateTic, LeaveGame, serverVars, history
  <2>2. ASSUME Server PROVE NothingClosed
    <3>1. ASSUME NEW p \in Player, AddPacket(p) \/ IgnorePacket(p) \/ ServerFixupPacket(p)
                                   \/ ResendServerPackets(p) \/ ServerBadPacket(p)
          PROVE  NothingClosed
      BY <3>1 DEF AddPacket, IgnorePacket, ServerFixupPacket, ResendServerPackets,
         ServerBadPacket, serverVars, history
    <3>2. CASE AreClientsReady
      BY <3>2 DEF AreClientsReady, history
    <3>3. CASE ServerTimeout
      BY <3>3 DEF ServerTimeout, history
    <3> HIDE DEF NothingClosed
    <3> QED
      BY <1>3, <2>2, <3>1, <3>2, <3>3 DEF Server
  <2>3. ASSUME Network \/ GameOver \/ UNCHANGED vars PROVE NothingClosed
    <3>1. ASSUME NEW p \in Player, LoseToServer(p) \/ LoseToClient(p)
          PROVE  NothingClosed
      BY <3>1 DEF LoseToServer, LoseToClient, serverVars, history
    <3>2. CASE GameOver \/ UNCHANGED vars
      <4>1. UNCHANGED <<serverVars, history>>
        BY <3>2 DEF GameOver, vars
      <4> QED
        BY <4>1 DEF serverVars, history
    <3> HIDE DEF NothingClosed
    <3> QED
      BY <2>3, <3>1, <3>2 DEF Network
  <2>4. NothingClosed
    <3> HIDE DEF NothingClosed
    <3> QED
      BY <2>1, <2>2, <2>3 DEF Next
  <2> QED
    BY <2>4, LogKept
<1> QED
  BY <1>1, <1>2, <1>3

-----------------------------------------------------------------------------
(* What the clients hold and simulate                                      *)

\* The next tic of a client whose slot is ready is closed, and what it holds of
\* a player in the game is what was closed; nobody in the game leaves with it.
LEMMA ReadyIsClosed ==
    ASSUME NoOverrun, IInv, OrderInv, FreshInv, LogInv, SyncInv,
           NEW p \in Player, InGame(p), TicReady(p)
    PROVE  /\ oldpolltime[p] < serverupdatetime
           /\ \A q \in Player : InGame(q) =>
                 /\ q \in Polling(p)
                 /\ Polled(p, q) = log[oldpolltime[p] + 1][q]
                 /\ Polled(p, q).kind \notin Leaving
<1> DEFINE from == oldpolltime[p]
<1>1. /\ from \in Nat /\ serverupdatetime \in Nat /\ from \in Window(from)
      /\ LastCommandTime[p] \in Int /\ LastCommandTime[p] < serverupdatetime
  BY Chain DEF Window
<1>2. from <= LastCommandTime[p]
  BY <1>1 DEF FreshInv, ClientFresh, Followed, StatusOK, TicReady
<1>3. from < serverupdatetime
  BY <1>1, <1>2
<1>4. ASSUME NEW q \in Player, InGame(q)
      PROVE  /\ q \in Polling(p)
             /\ Polled(p, q) = log[from + 1][q]
             /\ Polled(p, q).kind \notin Leaving
  <2>1. Follows(p, q)
    BY <1>4 DEF SyncInv
  <2>2. Polled(p, q).time = from
    BY <1>1, <2>1 DEF Follows, ReadyOK, TicReady, Polled
  <2>3. Polled(p, q) \in Made(q)
    BY <1>1, AddressInRing DEF Polled, IInv, ClientRingsOK
  <2>4. Polled(p, q) = submitted[q][from + 1]
    BY <1>1, <2>2, <2>3, MadeFor DEF IInv
  <2>5. from + 1 \in 1 .. Len(log)
    BY <1>1, <1>3 DEF LogInv
  <2> QED
    BY <1>4, <2>1, <2>4, <2>5 DEF LogInv, Polling, Follows
<1> QED
  BY <1>3, <1>4

\* A step of a client concerns what that client holds and has simulated.
LEMMA SyncStep ==
    ASSUME SyncInv, NEW p \in Player, UNCHANGED <<ServerPlayerStatus, log>>,
           \A q \in Player : q # p =>
               /\ oldpolltime'[q] = oldpolltime[q] /\ playstate'[q] = playstate[q]
               /\ ServerCommandStatus'[q] = ServerCommandStatus[q]
               /\ PlayerCmds'[q] = PlayerCmds[q] /\ PlayerStatus'[q] = PlayerStatus[q]
               /\ applied'[q] = applied[q],
           InGame(p) => Paced(p)',
           \A q \in Player : InGame(p) /\ InGame(q) => Follows(p, q)'
    PROVE  SyncInv'
<1>1. \A q \in Player : InGame(q)' = InGame(q)
  BY DEF InGame
<1>2. ASSUME NEW r \in Player, InGame(r), r # p
      PROVE  Paced(r)' /\ \A q \in Player : InGame(q) => Follows(r, q)'
  BY <1>2 DEF SyncInv, Paced, Follows
<1> QED
  BY <1>1, <1>2 DEF SyncInv

\* What a client does not simulate or receive.
LEMMA SyncKept ==
    ASSUME SyncInv, UNCHANGED <<ServerPlayerStatus, log, oldpolltime, PlayerCmds, PlayerStatus, applied>>,
           \A p \in Player :
               /\ \A a \in Slot : ServerCommandStatus'[p][a] = "ready" =>
                                      ServerCommandStatus[p][a] = "ready"
               /\ playstate'[p] = "playing" => playstate[p] = "playing",
           IInv
    PROVE  SyncInv'
<1>1. \A q \in Player : InGame(q)' = InGame(q)
  BY DEF InGame
<1>2. ASSUME NEW p \in Player, InGame(p) PROVE Paced(p)'
  BY <1>2 DEF SyncInv, Paced
<1>3. ASSUME NEW p \in Player, InGame(p), NEW q \in Player, InGame(q) PROVE Follows(p, q)'
  <2>1. \A t \in Window(oldpolltime[p]) : CommandAddress(t) \in Slot
    <3>1. oldpolltime[p] \in Nat /\ MAXCMDS \in Nat
      BY RottNetAssumption DEF IInv, TypeOK
    <3> QED
      BY <3>1, AddressInRing DEF Window
  <2> QED
    BY <1>3, <2>1 DEF SyncInv, Follows, ReadyOK
<1> QED
  BY <1>1, <1>2, <1>3 DEF SyncInv

\* RequestPacket makes no slot ready.
LEMMA RequestSync ==
    ASSUME IInv, SyncInv, NEW p \in Player, ClientBadPacket(p) \/ ClientTimeout(p)
    PROVE  SyncInv'
<1>1. /\ UNCHANGED <<ServerPlayerStatus, log, oldpolltime, PlayerCmds, PlayerStatus, applied, playstate>>
      /\ \E t, n : ServerCommandStatus' = [ServerCommandStatus EXCEPT ![p] = MarkFixing(@, t, n)]
  BY DEF ClientBadPacket, ClientTimeout, RequestFromServer, serverVars, history
<1>2. \A r \in Player : \A a \in Slot :
          ServerCommandStatus'[r][a] = "ready" => ServerCommandStatus[r][a] = "ready"
  BY <1>1 DEF MarkFixing, IInv, TypeOK
<1> QED
  BY <1>1, <1>2, SyncKept

LEMMA AddServerPacketSync ==
    ASSUME NoOverrun, IInv, OrderInv, FreshInv, ClosedInv, SyncInv,
           NEW p \in Player, AddServerPacket(p)
    PROVE  SyncInv'
<1> DEFINE m == Head(toClient[p])
           t == m.pkt.time
           lct == LastCommandTime[p]
           gap == t - (lct + 1)
           status == ServerCommandStatus[p]
           ask == MustRequest(status, lct + 1, gap)
           marked == IF ask THEN MarkFixing(status, lct + 1, gap) ELSE status
           new == [marked EXCEPT ![CommandAddress(t)] = "ready"]
           ring(q) == [PlayerCmds[p][q] EXCEPT ![CommandAddress(m.pkt.cmds[q].time)] = m.pkt.cmds[q]]
<1>1. /\ toClient[p] # <<>> /\ m.type = "server"
      /\ ServerCommandStatus' = [ServerCommandStatus EXCEPT ![p] = new]
      /\ PlayerCmds' = [PlayerCmds EXCEPT ![p] = [q \in Player |-> ring(q)]]
      /\ UNCHANGED <<oldpolltime, playstate, PlayerStatus, applied, ServerPlayerStatus, log>>
  BY DEF AddServerPacket, Arrived, Expected, SubPacket, serverVars, history
<1>2. /\ lct \in Int /\ status \in [Slot -> Status]
      /\ ServerCommandStatus \in [Player -> [Slot -> Status]]
      /\ PlayerCmds \in [Player -> [Player -> [Slot -> Command]]]
  BY DEF IInv, TypeOK
<1>3. /\ ServerCommandStatus'[p] = new /\ \A q \in Player : PlayerCmds'[p][q] = ring(q)
      /\ \A q \in Player : q # p => /\ ServerCommandStatus'[q] = ServerCommandStatus[q]
                                    /\ PlayerCmds'[q] = PlayerCmds[q]
  BY <1>1, <1>2
<1>4. /\ m.pkt \in ClosedPacket /\ LastTime(m) = t /\ t \in Int /\ lct < t
  <2>1. 1 \in DOMAIN toClient[p] /\ m = toClient[p][1] /\ m.pkt \in ClosedPacket
    BY <1>1, DownQueue, TailAt, ClosedRead
  <2>2. LastTime(m) = t /\ LastTime(m) \in Int
    BY <1>1, <2>1, DownQueue DEF LastTime
  <2>3. lct < LastTime(m)
    BY <1>1, <2>1 DEF OrderInv, DownInOrder, InOrder
  <2> QED
    BY <2>1, <2>2, <2>3
<1>5. t \in Nat
  BY <1>2, <1>4, Chain
<1>6. ASSUME NEW q \in Player, InGame(p), InGame(q) PROVE Follows(p, q)'
  <2>1. t < oldpolltime[p] + MAXCMDS
    BY <1>1, <1>4, <1>6, DownHead
  <2>2. /\ oldpolltime[p] <= lct + 1 /\ StatusOK(status, oldpolltime[p], lct)
        /\ oldpolltime[p] \in Int
    BY <1>6, Chain DEF FreshInv, ClientFresh, Followed
  <2>3. marked = status \/ marked = MarkFixing(status, lct + 1, t - (lct + 1))
    OBVIOUS
  <2> DEFINE from == oldpolltime[p]
  <2>4. /\ StatusOK(new, from, t)
        /\ status[CommandAddress(from)] = "ready" => new[CommandAddress(from)] = "ready"
        /\ \A u \in Window(from) : new[CommandAddress(u)] = "ready" /\ u # t =>
              /\ status[CommandAddress(u)] = "ready"
              /\ CommandAddress(u) # CommandAddress(t)
    <3>1. /\ from \in Int /\ lct \in Int /\ t \in Int /\ status \in [Slot -> Status]
          /\ from <= lct + 1 /\ lct < t /\ t < from + MAXCMDS /\ StatusOK(status, from, lct)
      BY <1>2, <1>4, <2>1, <2>2
    <3> HIDE DEF marked, t, lct, status, from
    <3> QED
      BY <2>3, <3>1, StatusArrives
  <2>5. m.pkt.cmds[q].time = t
    BY <1>4, <1>5, <1>6 DEF ClosedPacket
  <2>6. \A a \in Slot : ring(q)[a] = IF a = CommandAddress(t) THEN m.pkt.cmds[q]
                                                             ELSE PlayerCmds[p][q][a]
    BY <1>2, <2>5
  <2>7. Follows(p, q)
    BY <1>6 DEF SyncInv
  <2> HIDE DEF new
  <2>8. ReadyOK(new, ring(q), oldpolltime[p])
    <3> SUFFICES ASSUME NEW u \in Window(oldpolltime[p]), new[CommandAddress(u)] = "ready"
                 PROVE  ring(q)[CommandAddress(u)].time = u
      BY DEF ReadyOK
    <3>1. CommandAddress(u) \in Slot
      BY <2>2, AddressInRing DEF Window
    <3>2. CASE u = t
      BY <2>5, <2>6, <3>1, <3>2
    <3>3. CASE u # t
      BY <2>4, <2>6, <2>7, <3>1, <3>3 DEF Follows, ReadyOK
    <3> QED
      BY <3>2, <3>3
  <2> HIDE DEF ring
  <2> QED
    BY <1>1, <1>3, <2>7, <2>8 DEF Follows
<1>7. InGame(p) => Paced(p)'
  BY <1>1 DEF SyncInv, Paced
<1> HIDE DEF new, ring
<1> QED
  BY <1>1, <1>3, <1>6, <1>7, SyncStep

LEMMA ClientFixupPacketSync ==
    ASSUME NoOverrun, IInv, OrderInv, FreshInv, ClosedInv, SyncInv,
           NEW p \in Player, ClientFixupPacket(p)
    PROVE  SyncInv'
<1> DEFINE fix == Head(toClient[p])
           from == oldpolltime[p]
           lct == LastCommandTime[p]
           status == ServerCommandStatus[p]
           S == Accepted(status, fix)
           new == FixedStatus(status, fix)
           From(q, a) == {i \in S : CommandAddress(fix.subs[i].cmds[q].time) = a}
           ring(q) == [a \in Slot |-> IF From(q, a) # {} THEN fix.subs[Latest(From(q, a))].cmds[q]
                                                         ELSE PlayerCmds[p][q][a]]
<1>1. /\ toClient[p] # <<>> /\ fix.type = "fixup"
      /\ ServerCommandStatus' = [ServerCommandStatus EXCEPT ![p] = new]
      /\ PlayerCmds' = [PlayerCmds EXCEPT ![p] = [q \in Player |-> ring(q)]]
      /\ UNCHANGED <<oldpolltime, playstate, PlayerStatus, applied, ServerPlayerStatus, log>>
  BY DEF ClientFixupPacket, Arrived, SubPacket, serverVars, history
<1>2. /\ lct \in Int /\ status \in [Slot -> Status] /\ from \in Int
      /\ ServerCommandStatus \in [Player -> [Slot -> Status]]
      /\ PlayerCmds \in [Player -> [Player -> [Slot -> Command]]]
  BY DEF IInv, TypeOK
<1>3. /\ ServerCommandStatus'[p] = new /\ \A q \in Player : PlayerCmds'[p][q] = ring(q)
      /\ \A q \in Player : q # p => /\ ServerCommandStatus'[q] = ServerCommandStatus[q]
                                    /\ PlayerCmds'[q] = PlayerCmds[q]
  BY <1>1, <1>2
<1>4. /\ fix.subs \in Seq(ClosedPacket) /\ Consecutive(fix)
      /\ Len(fix.subs) \in Nat /\ DOMAIN fix.subs = 1 .. Len(fix.subs)
  <2>1. 1 \in DOMAIN toClient[p] /\ fix = toClient[p][1]
    <3>1. toClient[p] \in Seq(DownPacket) /\ toClient[p] # <<>>
      BY <1>1, DownQueue
    <3> QED
      BY <3>1, TailAt
  <2>2. fix.subs \in Seq(ClosedPacket)
    BY <1>1, ClosedRead
  <2>3. Consecutive(fix)
    BY <1>1, <2>1 DEF OrderInv, DownInOrder, InOrder
  <2> QED
    BY <2>2, <2>3, LenProperties
<1>5. ASSUME NEW q \in Player, InGame(q), NEW i \in S
      PROVE  i \in 1 .. Len(fix.subs) /\ fix.subs[i].cmds[q].time = fix.subs[i].time
  <2>1. i \in 1 .. Len(fix.subs)
    BY <1>4 DEF Accepted
  <2>2. fix.subs[i] \in ClosedPacket /\ fix.subs[i].time \in Nat
    BY <1>4, <2>1, ElementOfSeq DEF Consecutive
  <2> QED
    BY <1>5, <2>1, <2>2 DEF ClosedPacket
<1>6. ASSUME NEW q \in Player, InGame(p), InGame(q) PROVE Follows(p, q)'
  <2>1. /\ LastTime(fix) < from + MAXCMDS /\ lct + 1 < fix.time + MAXCMDS
    BY <1>1, <1>6, DownHead
  <2>2. StatusOK(status, from, lct)
    BY <1>6 DEF FreshInv, ClientFresh, Followed
  <2>3. FillsOwnSlots(status, fix, from)
    <3>1. /\ fix.type = "fixup" /\ fix.subs \in Seq(ClosedPacket) /\ Consecutive(fix)
          /\ from \in Int /\ lct \in Int /\ status \in [Slot -> Status]
          /\ StatusOK(status, from, lct)
          /\ lct + 1 < fix.time + MAXCMDS /\ LastTime(fix) < from + MAXCMDS
      BY <1>1, <1>2, <1>4, <2>1, <2>2
    <3> HIDE DEF lct, status, fix, from
    <3> QED
      BY <3>1, StatusFixed
  <2>4. \A a \in Slot : From(q, a) = Landing(fix, S, a)
    BY <1>5, <1>6 DEF Landing
  <2>5. Follows(p, q)
    BY <1>6 DEF SyncInv
  <2> HIDE DEF new
  <2>6. ReadyOK(new, ring(q), from)
    <3> SUFFICES ASSUME NEW u \in Window(from), new[CommandAddress(u)] = "ready"
                 PROVE  ring(q)[CommandAddress(u)].time = u
      BY DEF ReadyOK
    <3> DEFINE L == From(q, CommandAddress(u))
    <3>1. CommandAddress(u) \in Slot /\ L = Landing(fix, S, CommandAddress(u))
      BY <1>2, <2>4, AddressInRing DEF Window
    <3>2. CASE L # {}
      <4>1. Latest(L) \in L
        <5>1. L \subseteq 1 .. Len(fix.subs)
          BY <1>5, <1>6
        <5> HIDE DEF L
        <5> QED
          BY <1>4, <3>2, <5>1, LatestExists
      <4>2. ring(q)[CommandAddress(u)] = fix.subs[Latest(L)].cmds[q]
        BY <3>1, <3>2
      <4>3. fix.subs[Latest(L)].cmds[q].time = fix.subs[Latest(L)].time
        BY <1>5, <1>6, <4>1
      <4>4. fix.subs[Latest(L)].time = u
        <5> HIDE DEF L
        <5> QED
          BY <2>3, <3>1, <4>1 DEF FillsOwnSlots
      <4> QED
        BY <4>2, <4>3, <4>4
    <3>3. CASE L = {}
      <4>1. ring(q)[CommandAddress(u)] = PlayerCmds[p][q][CommandAddress(u)]
        BY <3>1, <3>3
      <4>2. status[CommandAddress(u)] = "ready"
        <5> HIDE DEF L
        <5> QED
          BY <2>3, <3>1, <3>3 DEF FillsOwnSlots, new
      <4> QED
        BY <2>5, <4>1, <4>2 DEF Follows, ReadyOK
    <3> QED
      BY <3>2, <3>3
  <2> HIDE DEF ring
  <2> QED
    BY <1>1, <1>3, <2>5, <2>6 DEF Follows
<1>7. InGame(p) => Paced(p)'
  BY <1>1 DEF SyncInv, Paced
<1> HIDE DEF new, ring
<1> QED
  BY <1>1, <1>3, <1>6, <1>7, SyncStep

\* A client simulates what was closed.
LEMMA SimulateTicSync ==
    ASSUME NoOverrun, IInv, OrderInv, FreshInv, LogInv, SyncInv, NEW p \in Player, SimulateTic(p)
    PROVE  SyncInv'
<1> DEFINE from == oldpolltime[p]
           status == ServerCommandStatus[p]
           new == NotArrived(status, from)
           quitting == {q \in Polling(p) : Polled(p, q).kind = "quit"}
           tic == [q \in Player |-> IF q \in Polling(p) THEN Polled(p, q) ELSE Absent]
<1>1. /\ TicReady(p) /\ playstate[p] \in {"playing", "battledone"}
      /\ \E s \in {playstate[p], "quit", "battledone"} : playstate' = [playstate EXCEPT ![p] = s]
      /\ PlayerStatus' = [PlayerStatus EXCEPT ![p] =
            [q \in Player |-> IF q \in quitting THEN "quitgame" ELSE @[q]]]
      /\ applied' = IF playstate[p] = "battledone" THEN applied
                    ELSE [applied EXCEPT ![p] = Append(@, tic)]
      /\ ServerCommandStatus' = [ServerCommandStatus EXCEPT ![p] = new]
      /\ oldpolltime' = [oldpolltime EXCEPT ![p] = from + 1]
      /\ UNCHANGED <<PlayerCmds, ServerPlayerStatus, log>>
  BY DEF SimulateTic, Controlling, serverVars
<1>2. /\ from \in Nat /\ status \in [Slot -> Status]
      /\ ServerCommandStatus \in [Player -> [Slot -> Status]] /\ oldpolltime \in [Player -> Nat]
      /\ playstate \in [Player -> {"playing", "battledone", "left", "quit", "fatal"}]
      /\ PlayerStatus \in [Player -> [Player -> {"ingame", "quitgame"}]]
      /\ applied \in [Player -> Seq([Player -> Command \cup {Absent}])]
  BY DEF IInv, TypeOK, SimulatedOK
<1>3. tic \in [Player -> Command \cup {Absent}]
  <2>1. CommandAddress(from) \in Slot
    BY <1>2, AddressInRing
  <2>2. \A q \in Player : Polled(p, q) \in Command
    BY <2>1 DEF Polled, IInv, TypeOK
  <2> QED
    BY <2>2
<1>4. \A q \in Player : q \in Polling(p) => tic[q] = Polled(p, q)
  OBVIOUS
<1> HIDE DEF tic, new
<1>5. /\ oldpolltime'[p] = from + 1 /\ ServerCommandStatus'[p] = new
      /\ playstate'[p] \in {playstate[p], "quit", "battledone"}
      /\ \A q \in Player : PlayerStatus'[p][q] = IF q \in quitting THEN "quitgame" ELSE PlayerStatus[p][q]
      /\ \A q \in Player : q # p =>
            /\ oldpolltime'[q] = oldpolltime[q] /\ playstate'[q] = playstate[q]
            /\ ServerCommandStatus'[q] = ServerCommandStatus[q]
            /\ PlayerStatus'[q] = PlayerStatus[q] /\ applied'[q] = applied[q]
  BY <1>1, <1>2
<1>6. \/ applied'[p] = applied[p] /\ playstate[p] = "battledone"
      \/ /\ playstate[p] = "playing"
         /\ Len(applied'[p]) = Len(applied[p]) + 1
         /\ applied'[p][Len(applied[p]) + 1] = tic
         /\ \A t \in 1 .. Len(applied[p]) : applied'[p][t] = applied[p][t]
  BY <1>1, <1>2, <1>3, AppendProperties
<1>7. Len(applied[p]) \in Nat
  BY <1>2, LenProperties
<1>8. InGame(p) => Paced(p)'
  <2> SUFFICES ASSUME InGame(p) PROVE Paced(p)'
    OBVIOUS
  <2>1. Len(applied[p]) <= from /\ (playstate[p] = "playing" => Len(applied[p]) = from)
    BY DEF SyncInv, Paced
  <2>2. CASE applied'[p] = applied[p] /\ playstate[p] = "battledone"
    <3>1. playstate'[p] # "playing"
      BY <1>5, <2>2
    <3>2. Len(applied'[p]) <= oldpolltime'[p]
      BY <1>2, <1>5, <1>7, <2>1, <2>2
    <3> QED
      BY <3>1, <3>2 DEF Paced
  <2>3. CASE playstate[p] = "playing" /\ Len(applied'[p]) = Len(applied[p]) + 1
    <3>1. Len(applied'[p]) = oldpolltime'[p] /\ Len(applied'[p]) <= oldpolltime'[p]
      BY <1>2, <1>5, <1>7, <2>1, <2>3
    <3> QED
      BY <3>1 DEF Paced
  <2> QED
    BY <1>6, <2>2, <2>3
<1>9. ASSUME NEW q \in Player, InGame(p), InGame(q) PROVE Follows(p, q)'
  <2>1. /\ q \in Polling(p) /\ Polled(p, q) = log[from + 1][q]
        /\ Polled(p, q).kind \notin Leaving
    BY <1>1, <1>9, ReadyIsClosed
  <2>2. Follows(p, q) /\ Paced(p)
    BY <1>9 DEF SyncInv
  <2>3. ReadyOK(new, PlayerCmds[p][q], from + 1)
    <3>1. StatusOK(status, from, LastCommandTime[p]) /\ LastCommandTime[p] \in Int
      BY <1>9 DEF FreshInv, ClientFresh, Followed, IInv, TypeOK
    <3>2. \A u \in Window(from + 1) : new[CommandAddress(u)] # "notarrived" =>
              u \in Window(from) /\ new[CommandAddress(u)] = status[CommandAddress(u)]
      <4>1. from \in Int
        BY <1>2
      <4> HIDE DEF from, status
      <4> QED
        BY <1>2, <3>1, <4>1, StatusMovesOn DEF new
    <3> QED
      BY <2>2, <3>2 DEF Follows, ReadyOK
  <2>4. PlayerStatus'[p][q] = "ingame"
    BY <1>5, <2>1, <2>2 DEF Follows, Leaving
  <2>5. \A t \in 1 .. Len(applied'[p]) : applied'[p][t][q] = log[t][q]
    <3>1. CASE applied'[p] = applied[p]
      BY <2>2, <3>1 DEF Follows
    <3>2. CASE /\ playstate[p] = "playing" /\ Len(applied'[p]) = Len(applied[p]) + 1
               /\ applied'[p][Len(applied[p]) + 1] = tic
               /\ \A t \in 1 .. Len(applied[p]) : applied'[p][t] = applied[p][t]
      <4> SUFFICES ASSUME NEW t \in 1 .. Len(applied[p]) + 1
                   PROVE  applied'[p][t][q] = log[t][q]
        BY <3>2
      <4>1. CASE t \in 1 .. Len(applied[p])
        BY <2>2, <3>2, <4>1 DEF Follows
      <4>2. CASE t = Len(applied[p]) + 1
        <5>1. t = from + 1
          BY <2>2, <3>2, <4>2 DEF Paced
        <5> QED
          BY <1>4, <2>1, <3>2, <4>2, <5>1
      <4> QED
        BY <1>7, <4>1, <4>2
    <3> QED
      BY <1>6, <3>1, <3>2
  <2> QED
    BY <1>1, <1>5, <2>3, <2>4, <2>5 DEF Follows
<1> QED
  BY <1>1, <1>5, <1>8, <1>9, SyncStep

\* Closing a tic: what was simulated before is still in the log.
LEMMA SendFullServerPacketSync ==
    ASSUME NoOverrun, IInv, OrderInv, FreshInv, LogInv, SyncInv, SendFullServerPacket
    PROVE  SyncInv'
<1>1. /\ \A q \in Player : InGame(q)' => InGame(q)
      /\ UNCHANGED <<oldpolltime, playstate, ServerCommandStatus, PlayerCmds, PlayerStatus, applied>>
  BY DEF SendFullServerPacket, InGame, clientVars
<1>2. \A t \in 1 .. Len(log) : log'[t] = log[t]
  <2>1. PICK tic \in [Player -> Command \cup {Absent}] : log' = Append(log, tic)
    <3>1. CommandAddress(serverupdatetime) \in Slot
      BY AddressInRing DEF IInv, TypeOK
    <3>2. \A p \in Player : Collected(p) \in Command
      BY <3>1 DEF Collected, IInv, TypeOK
    <3>3. [p \in Player |-> IF InGame(p) THEN Collected(p) ELSE Absent]
            \in [Player -> Command \cup {Absent}]
      BY <3>2
    <3> QED
      BY <3>3 DEF SendFullServerPacket
  <2> QED
    BY <2>1, AppendProperties DEF LogInv
<1>3. ASSUME NEW p \in Player, InGame(p), NEW q \in Player, InGame(q) PROVE Follows(p, q)'
  <2>1. Follows(p, q) /\ Paced(p)
    BY <1>3 DEF SyncInv
  <2>2. \A t \in 1 .. Len(applied[p]) : t \in 1 .. Len(log)
    <3>1. Len(applied[p]) \in Nat
      BY LenProperties DEF IInv, SimulatedOK
    <3>2. Len(applied[p]) <= serverupdatetime
      BY <1>3, <2>1, <3>1, Chain DEF Paced
    <3>3. Len(log) = serverupdatetime /\ serverupdatetime \in Nat
      BY DEF LogInv, IInv, TypeOK
    <3> QED
      BY <3>1, <3>2, <3>3
  <2> QED
    BY <1>1, <1>2, <2>1, <2>2 DEF Follows
<1> QED
  BY <1>1, <1>3 DEF SyncInv, Paced

LEMMA NextSync ==
    ASSUME NoOverrun, IInv, OrderInv, FreshInv, ClosedInv, LogInv, SyncInv, [Next]_vars
    PROVE  SyncInv'
<1> DEFINE Kept ==
           /\ UNCHANGED <<ServerPlayerStatus, log, oldpolltime, PlayerCmds, PlayerStatus, applied,
                          ServerCommandStatus>>
           /\ \A p \in Player : playstate'[p] = "playing" => playstate[p] = "playing"
<1>1. Kept => SyncInv'
  BY SyncKept
<1>2. ASSUME NEW p \in Player, PrepareLocalPacket(p) \/ ResendLocalPackets(p) \/ LeaveGame(p)
      PROVE  Kept
  BY <1>2 DEF PrepareLocalPacket, ResendLocalPackets, LeaveGame, serverVars, history, IInv, TypeOK
<1>3. ASSUME NEW p \in Player, AddPacket(p) \/ IgnorePacket(p) \/ ServerFixupPacket(p)
                   \/ ResendServerPackets(p) \/ ServerBadPacket(p)
                   \/ LoseToServer(p) \/ LoseToClient(p)
      PROVE  Kept
  BY <1>3 DEF AddPacket, IgnorePacket, ServerFixupPacket, ResendServerPackets, ServerBadPacket,
     LoseToServer, LoseToClient, clientVars, serverVars, history
<1>4. ASSUME AreClientsReady \/ ServerTimeout PROVE Kept
  BY <1>4 DEF AreClientsReady, ServerTimeout, clientVars, history
<1>5. ASSUME GameOver \/ UNCHANGED vars PROVE Kept
  <2>1. UNCHANGED <<clientVars, serverVars, history>>
    BY <1>5 DEF GameOver, vars
  <2> QED
    BY <2>1 DEF clientVars, serverVars, history
<1> HIDE DEF Kept
<1>6. ASSUME NEW p \in Player, Client(p) PROVE SyncInv'
  BY <1>1, <1>2, <1>6, AddServerPacketSync, ClientFixupPacketSync, RequestSync, SimulateTicSync
     DEF Client
<1>7. CASE Server
  BY <1>1, <1>3, <1>4, <1>7, SendFullServerPacketSync DEF Server
<1> QED
  BY <1>1, <1>3, <1>5, <1>6, <1>7 DEF Next, Network

\* Before anybody has left, nobody's tic ends the battle.
LEMMA NextPlaying ==
    ASSUME NoOverrun, IInv, OrderInv, FreshInv, LogInv, SyncInv, PlayingInv, [Next]_vars
    PROVE  PlayingInv'
<1> SUFFICES ASSUME NobodyLeft', NEW r \in Player PROVE playstate'[r] \in {"playing", "quit"}
  BY DEF PlayingInv
<1>1. NobodyLeft
  <2>1. UNCHANGED ServerPlayerStatus \/ SendFullServerPacket
    <3>1. ASSUME NEW p \in Player, Client(p) \/ LoseToServer(p) \/ LoseToClient(p)
          PROVE  UNCHANGED ServerPlayerStatus
      BY <3>1 DEF Client, PrepareLocalPacket, AddServerPacket, ClientFixupPacket, ResendLocalPackets,
         ClientBadPacket, ClientTimeout, SimulateTic, LeaveGame, LoseToServer, LoseToClient, serverVars
    <3>2. ASSUME NEW p \in Player, AddPacket(p) \/ IgnorePacket(p) \/ ServerFixupPacket(p)
                                   \/ ResendServerPackets(p) \/ ServerBadPacket(p)
          PROVE  UNCHANGED ServerPlayerStatus
      BY <3>2 DEF AddPacket, IgnorePacket, ServerFixupPacket, ResendServerPackets,
         ServerBadPacket, serverVars
    <3>3. AreClientsReady \/ ServerTimeout => UNCHANGED ServerPlayerStatus
      BY DEF AreClientsReady, ServerTimeout
    <3>4. GameOver \/ UNCHANGED vars => UNCHANGED ServerPlayerStatus
      BY DEF GameOver, vars, serverVars
    <3> QED
      BY <3>1, <3>2, <3>3, <3>4 DEF Next, Server, Network
  <2>2. SendFullServerPacket => \A p \in Player : InGame(p)' => InGame(p)
    BY DEF SendFullServerPacket, InGame
  <2> QED
    BY <2>1, <2>2 DEF NobodyLeft, InGame
<1>2. playstate[r] \in {"playing", "quit"} /\ playstate \in [Player -> {"playing", "battledone", "left", "quit", "fatal"}]
  BY <1>1 DEF PlayingInv, IInv, TypeOK
<1>3. ASSUME NEW p \in Player, Client(p) PROVE playstate'[r] \in {"playing", "quit"}
  <2>1. CASE SimulateTic(p)
    <3>1. \A q \in Player : Polled(p, q).kind \notin Leaving
      BY <1>1, <2>1, ReadyIsClosed DEF SimulateTic, NobodyLeft
    <3>2. {q \in Polling(p) : Polled(p, q).kind = "endgame"} = {}
      BY <3>1 DEF Leaving, Polling
    <3>3. \E s \in {playstate[p], "quit"} : playstate' = [playstate EXCEPT ![p] = s]
      BY <2>1, <3>2 DEF SimulateTic
    <3> QED
      BY <1>2, <3>3
  <2>2. CASE LeaveGame(p)
    <3>1. playstate[p] \in {"playing", "quit"}
      BY <1>1 DEF PlayingInv
    <3> QED
      BY <2>2, <3>1 DEF LeaveGame
  <2>3. CASE ResendLocalPackets(p)
    <3>1. playstate'[r] \in {playstate[r], "fatal"}
      BY <1>2, <2>3 DEF ResendLocalPackets
    <3>2. FreshInv'
      BY <2>3, ResendLocalPacketsFresh
    <3>3. playstate'[r] # "fatal"
      BY <3>2 DEF FreshInv, ClientFresh
    <3> QED
      BY <1>2, <3>1, <3>3
  <2> QED
    BY <1>2, <1>3, <2>1, <2>2, <2>3 DEF Client, PrepareLocalPacket, AddServerPacket,
       ClientFixupPacket, ClientBadPacket, ClientTimeout
<1>4. ASSUME UNCHANGED clientVars PROVE playstate'[r] \in {"playing", "quit"}
  BY <1>2, <1>4 DEF clientVars
<1>5. ASSUME NEW p \in Player, LoseToServer(p) \/ LoseToClient(p) PROVE UNCHANGED clientVars
  BY <1>5 DEF LoseToServer, LoseToClient
<1>6. ASSUME NEW p \in Player, AddPacket(p) \/ IgnorePacket(p) \/ ServerFixupPacket(p)
                               \/ ResendServerPackets(p) \/ ServerBadPacket(p)
      PROVE  UNCHANGED clientVars
  BY <1>6 DEF AddPacket, IgnorePacket, ServerFixupPacket, ResendServerPackets, ServerBadPacket
<1>7. AreClientsReady \/ SendFullServerPacket \/ ServerTimeout => UNCHANGED clientVars
  BY DEF AreClientsReady, SendFullServerPacket, ServerTimeout
<1>8. GameOver \/ UNCHANGED vars => UNCHANGED clientVars
  BY DEF GameOver, vars
<1> QED
  BY <1>3, <1>4, <1>5, <1>6, <1>7, <1>8 DEF Next, Server, Network

-----------------------------------------------------------------------------
(* All of it, initially and in every step                                  *)

LEMMA InitLockstep == Init => LockstepInv
<1> SUFFICES ASSUME Init PROVE LockstepInv
  OBVIOUS
<1>1. ClosedInv
  <2>1. EmptyPacket \in ClosedPacket
    <3>1. EmptyPacket \in ServerPacket /\ EmptyPacket.time \notin Nat
      BY FillIsCommand DEF EmptyPacket, ServerPacket
    <3> QED
      BY <3>1 DEF ClosedPacket
  <2>2. <<>> \in Seq(DownClosed)
    BY EmptySeq
  <2> QED
    BY <2>1, <2>2 DEF Init, ClosedInv
<1>2. NobodyLeft /\ log = <<>> /\ serverupdatetime = 0
  BY DEF Init, NobodyLeft, InGame
<1>3. LogInv
  BY <1>2, EmptySeq DEF LogInv, NobodyLeft
<1>4. SyncInv
  <2> SUFFICES ASSUME NEW p \in Player PROVE Paced(p) /\ \A q \in Player : Follows(p, q)
    BY DEF SyncInv
  <2>1. Len(applied[p]) = 0 /\ oldpolltime[p] = 0
    BY DEF Init
  <2>2. \A u \in Window(0) : ServerCommandStatus[p][CommandAddress(u)] = "notarrived"
    <3>1. \A u \in Window(0) : CommandAddress(u) \in Slot
      BY RottNetAssumption, AddressInRing DEF Window
    <3> QED
      BY <3>1 DEF Init
  <2>3. ASSUME NEW q \in Player PROVE Follows(p, q)
    <3>1. ReadyOK(ServerCommandStatus[p], PlayerCmds[p][q], oldpolltime[p])
      BY <2>1, <2>2 DEF ReadyOK
    <3> QED
      BY <2>1, <3>1 DEF Follows, Init
  <2> QED
    BY <2>1, <2>3 DEF Paced
<1>5. PlayingInv
  BY DEF Init, PlayingInv
<1> QED
  BY <1>1, <1>3, <1>4, <1>5 DEF LockstepInv

LEMMA NextLockstep ==
    ASSUME NoOverrun, IInv, OrderInv, FreshInv, CheckedStaysReady, LockstepInv, [Next]_vars
    PROVE  LockstepInv'
<1>1. ClosedInv /\ LogInv /\ SyncInv /\ PlayingInv
  BY DEF LockstepInv
<1>2. ClosedInv'
  BY <1>1, OtherStepsClosed, SendFullServerPacketClosed
<1>3. LogInv' /\ SyncInv' /\ PlayingInv'
  BY <1>1, NextLog, NextSync, NextPlaying
<1> QED
  BY <1>2, <1>3 DEF LockstepInv

-----------------------------------------------------------------------------
(* The steps of the lock step                                              *)

\* Without a player that has left, everybody of the log is in the game.
LEMMA PresentInGame ==
    ASSUME LogInv
    PROVE  Abstract!Present = {p \in Player : InGame(p)}
<1>1. DOMAIN log = 1 .. Len(log)
  BY LenProperties DEF LogInv
<1>2. ASSUME NEW p \in Player
      PROVE  InGame(p) <=> \A t \in DOMAIN log : log[t][p].kind \notin Leaving
  BY <1>1 DEF LogInv
<1> QED
  BY <1>2 DEF Abstract!Present, Abstract!Leaving, Leaving

LEMMA PrepareLocalPacketSubmits ==
    ASSUME IInv, NEW p \in Player, PrepareLocalPacket(p)
    PROVE  Abstract!Submit(p)
<1>1. PICK k \in Kind : submitted' =
          [submitted EXCEPT ![p] = Append(@, [time |-> controlupdatetime[p], kind |-> k])]
  BY DEF PrepareLocalPacket
<1>2. Len(submitted[p]) = controlupdatetime[p]
  BY DEF IInv, SubmittedOK
<1>3. UNCHANGED <<log, applied>>
  BY DEF PrepareLocalPacket
<1> QED
  BY <1>1, <1>2, <1>3 DEF Abstract!Submit

\* The server closes a tic with the commands of the players present for it.
LEMMA SendFullServerPacketCloses ==
    ASSUME IInv, LogInv, CheckedStaysReady, SendFullServerPacket
    PROVE  Abstract!Close
<1>1. /\ clientsready
      /\ log' = Append(log, [p \in Player |-> IF InGame(p) THEN Collected(p) ELSE Absent])
      /\ UNCHANGED <<submitted, applied>>
  BY DEF SendFullServerPacket
<1>2. serverupdatetime \in Nat /\ CommandAddress(serverupdatetime) \in Slot
      /\ Len(log) = serverupdatetime
  BY AddressInRing DEF IInv, TypeOK, LogInv
<1>3. ASSUME NEW p \in Player, InGame(p)
      PROVE  /\ Len(log) < Len(submitted[p])
             /\ Collected(p) = submitted[p][Len(log) + 1]
  <2>1. Collected(p) \in Made(p)
    BY <1>2 DEF Collected, IInv, ServerRingsOK
  <2>2. Collected(p).time = serverupdatetime
    BY <1>1, <1>3 DEF CheckedStaysReady
  <2>3. serverupdatetime + 1 \in 1 .. Len(submitted[p]) /\ Collected(p) = submitted[p][serverupdatetime + 1]
    BY <1>2, <2>1, <2>2, MadeFor DEF IInv
  <2>4. Len(submitted[p]) \in Nat
    BY LenProperties DEF IInv, SubmittedOK
  <2> QED
    BY <1>2, <2>3, <2>4
<1>4. [p \in Player |-> IF InGame(p) THEN Collected(p) ELSE Absent]
      = [p \in Player |-> IF p \in Abstract!Present THEN submitted[p][Len(log) + 1] ELSE Abstract!Absent]
  BY <1>3, PresentInGame DEF Absent, Abstract!Absent
<1> QED
  BY <1>1, <1>3, <1>4, PresentInGame DEF Abstract!Close

\* A client applies the next closed tic, when nobody has left.
LEMMA SimulateTicApplies ==
    ASSUME NoOverrun, IInv, OrderInv, FreshInv, LockstepInv, NobodyLeft,
           NEW p \in Player, SimulateTic(p)
    PROVE  Abstract!Apply(p)
<1> DEFINE tic == [q \in Player |-> IF q \in Polling(p) THEN Polled(p, q) ELSE Absent]
           from == oldpolltime[p]
<1>1. /\ TicReady(p) /\ playstate[p] \in {"playing", "battledone"}
      /\ applied' = IF playstate[p] = "battledone" THEN applied
                    ELSE [applied EXCEPT ![p] = Append(@, tic)]
      /\ UNCHANGED <<submitted, log>>
  BY DEF SimulateTic, Controlling
<1>2. playstate[p] = "playing"
  BY <1>1 DEF LockstepInv, PlayingInv
<1>3. /\ from < serverupdatetime
      /\ \A q \in Player : tic[q] = log[from + 1][q]
  BY <1>1, ReadyIsClosed DEF NobodyLeft, LockstepInv
<1>4. Len(log) = serverupdatetime /\ from \in Nat /\ Len(applied[p]) = from
  BY <1>2 DEF LockstepInv, LogInv, SyncInv, Paced, NobodyLeft, IInv, TypeOK
<1>5. log[from + 1] \in [Player -> Command \cup {Absent}]
  <2>1. from + 1 \in 1 .. Len(log)
    BY <1>3, <1>4 DEF IInv, TypeOK
  <2> QED
    BY <2>1, ElementOfSeq DEF LockstepInv, LogInv
<1>6. tic = [q \in Player |-> log[from + 1][q]]
  BY <1>3
<1>7. tic = log[from + 1]
  BY <1>5, <1>6
<1> HIDE DEF tic
<1>8. applied' = [applied EXCEPT ![p] = Append(@, log[Len(@) + 1])]
  BY <1>1, <1>2, <1>4, <1>7
<1> QED
  BY <1>1, <1>3, <1>4, <1>8 DEF Abstract!Apply

\* Every other step leaves the lock step alone.
LEMMA StepRefines ==
    ASSUME NoOverrun, IInv, OrderInv, FreshInv, CheckedStaysReady, LockstepInv, [Next]_vars
    PROVE  /\ log' = log \/ Abstract!Close
           /\ NobodyLeft => Abstract!Next \/ UNCHANGED history
<1>0. LogInv
  BY DEF LockstepInv
<1>1. ASSUME NEW p \in Player, PrepareLocalPacket(p)
      PROVE  log' = log /\ Abstract!Next
  BY <1>1, PrepareLocalPacketSubmits DEF Abstract!Next, Abstract!Submit
<1>2. ASSUME NEW p \in Player, SimulateTic(p)
      PROVE  log' = log /\ (NobodyLeft => Abstract!Next)
  BY <1>2, SimulateTicApplies DEF Abstract!Next, SimulateTic
<1>3. ASSUME SendFullServerPacket PROVE Abstract!Close /\ Abstract!Next
  BY <1>0, <1>3, SendFullServerPacketCloses DEF Abstract!Next
<1>4. ASSUME NEW p \in Player, AddServerPacket(p) \/ ClientFixupPacket(p) \/ ResendLocalPackets(p)
                   \/ ClientBadPacket(p) \/ ClientTimeout(p) \/ LeaveGame(p)
      PROVE  UNCHANGED history
  BY <1>4 DEF AddServerPacket, ClientFixupPacket, ResendLocalPackets, ClientBadPacket,
     ClientTimeout, LeaveGame
<1>5. ASSUME NEW p \in Player, AddPacket(p) \/ IgnorePacket(p) \/ ServerFixupPacket(p)
                   \/ ResendServerPackets(p) \/ ServerBadPacket(p)
                   \/ LoseToServer(p) \/ LoseToClient(p)
      PROVE  UNCHANGED history
  BY <1>5 DEF AddPacket, IgnorePacket, ServerFixupPacket, ResendServerPackets, ServerBadPacket,
     LoseToServer, LoseToClient
<1>6. ASSUME AreClientsReady \/ ServerTimeout \/ GameOver \/ UNCHANGED vars PROVE UNCHANGED history
  BY <1>6 DEF AreClientsReady, ServerTimeout, GameOver, vars
<1>7. UNCHANGED history => log' = log
  BY DEF history
<1>8. ASSUME NEW p \in Player, Client(p)
      PROVE  log' = log /\ (NobodyLeft => Abstract!Next \/ UNCHANGED history)
  BY <1>1, <1>2, <1>4, <1>7, <1>8 DEF Client
<1>9. ASSUME Server
      PROVE  (log' = log \/ Abstract!Close) /\ (NobodyLeft => Abstract!Next \/ UNCHANGED history)
  BY <1>3, <1>5, <1>6, <1>7, <1>9 DEF Server
<1> QED
  BY <1>5, <1>6, <1>7, <1>8, <1>9 DEF Next, Network

-----------------------------------------------------------------------------
(* The theorems                                                            *)

\* LockstepInv is an invariant of the network game: closed tics, the log and
\* what the clients of the players in the game hold and have simulated agree.
THEOREM InStep == ASSUME NoOverrun PROVE Spec => []LockstepInv
<1>1. Init => LockstepInv
  BY InitLockstep
<1>2. IInv /\ OrderInv /\ FreshInv /\ CheckedStaysReady /\ LockstepInv /\ [Next]_vars => LockstepInv'
  BY NextLockstep
<1> QED
  BY <1>1, <1>2, Inductive, Ordered, Fresh, StaysReady, PTL DEF Spec

\* Whoever has left: a client in the game simulates only closed tics, and of
\* the players in the game only what the server closed (ControlPlayerObj).
THEOREM StayersFollow == ASSUME NoOverrun PROVE Spec => []StayersTicIsClosed
<1>1. IInv /\ OrderInv /\ FreshInv /\ LockstepInv => StayersTicIsClosed
  BY ReadyIsClosed DEF StayersTicIsClosed, LockstepInv
<1> QED
  BY <1>1, Inductive, Ordered, Fresh, InStep, PTL

\* Whoever has left: the clients in the game have simulated the same commands
\* of the players in the game, tic by tic.
THEOREM StayersAgree == ASSUME NoOverrun PROVE Spec => []StayersInSync
<1>1. IInv /\ LockstepInv => StayersInSync
  <2> SUFFICES ASSUME IInv, LockstepInv, NEW p \in Player, NEW r \in Player, InGame(p), InGame(r),
                      NEW t \in DOMAIN applied[p] \cap DOMAIN applied[r], NEW q \in Player, InGame(q)
               PROVE  applied[p][t][q] = applied[r][t][q]
    BY DEF StayersInSync
  <2>1. t \in 1 .. Len(applied[p]) /\ t \in 1 .. Len(applied[r])
    BY LenProperties DEF IInv, SimulatedOK
  <2> QED
    BY <2>1 DEF LockstepInv, SyncInv, Follows
<1> QED
  BY <1>1, Inductive, InStep, PTL

\* Until the tic of somebody's QUIT or ENDGAME is closed, what a client is
\* about to simulate is the closed tic, for all players.
THEOREM NextTicClosed == ASSUME NoOverrun PROVE Spec => [](NobodyLeft => NextTicIsClosedTic)
<1>1. StayersTicIsClosed => (NobodyLeft => NextTicIsClosedTic)
  BY DEF StayersTicIsClosed, NobodyLeft, NextTicIsClosedTic, Polling
<1> QED
  BY <1>1, StayersFollow, PTL

\* No client in the game takes a player out of it before the server has closed
\* the tic of that player's QUIT, whoever else has left (SimulateTic).
THEOREM NobodyRemoved == ASSUME NoOverrun PROVE Spec => []StayersStay
<1>1. LockstepInv => StayersStay
  BY DEF LockstepInv, SyncInv, Follows, StayersStay
<1> QED
  BY <1>1, InStep, PTL

\* Until somebody has left no two clients are "unsynced": the commands they have
\* simulated are the same for all players, tic by tic.
THEOREM InSync == ASSUME NoOverrun PROVE Spec => [](NobodyLeft => ClientsInSync)
<1>1. IInv /\ StayersInSync => (NobodyLeft => ClientsInSync)
  <2> SUFFICES ASSUME IInv, StayersInSync, NobodyLeft, NEW p \in Player, NEW r \in Player,
                      NEW t \in DOMAIN applied[p] \cap DOMAIN applied[r]
               PROVE  applied[p][t] = applied[r][t]
    BY DEF ClientsInSync
  <2>1. \A q \in Player : applied[p][t][q] = applied[r][t][q]
    BY DEF StayersInSync, NobodyLeft
  <2>2. /\ applied[p][t] \in [Player -> Command \cup {Absent}]
        /\ applied[r][t] \in [Player -> Command \cup {Absent}]
    <3>1. t \in 1 .. Len(applied[p]) /\ t \in 1 .. Len(applied[r])
      BY LenProperties DEF IInv, SimulatedOK
    <3> QED
      BY <3>1, ElementOfSeq DEF IInv, SimulatedOK
  <2> QED
    BY <2>1, <2>2
<1> QED
  BY <1>1, Inductive, StayersAgree, PTL

\* SendFullServerPacket implements Close of the lock step, and nothing else
\* touches what is closed: every tic is closed once, with the command every
\* player still in the game made for it, also when players leave or have left.
THEOREM ClosedInStep == ASSUME NoOverrun PROVE Spec => ClosesInLockstep
<1>1. IInv /\ OrderInv /\ FreshInv /\ CheckedStaysReady /\ LockstepInv /\ [Next]_vars
      => [log' = log \/ Abstract!Close]_vars
  BY StepRefines
<1>2. Spec => [][log' = log \/ Abstract!Close]_vars
  BY <1>1, Inductive, Ordered, Fresh, StaysReady, InStep, PTL DEF Spec
<1> QED
  BY <1>2 DEF ClosesInLockstep

\* Until somebody has left, the game's steps are those of the lock step.
THEOREM PlayedInStep == ASSUME NoOverrun PROVE Spec => PlaysInLockstep
<1>1. IInv /\ OrderInv /\ FreshInv /\ CheckedStaysReady /\ LockstepInv /\ [Next]_vars
      => [NobodyLeft => Abstract!Next \/ UNCHANGED history]_vars
  BY StepRefines
<1>2. Spec => [][NobodyLeft => Abstract!Next \/ UNCHANGED history]_vars
  BY <1>1, Inductive, Ordered, Fresh, StaysReady, InStep, PTL DEF Spec
<1> QED
  BY <1>2 DEF PlaysInLockstep

\* A game nobody leaves by a command the server acts on implements the lock step.
THEOREM Refinement ==
    ASSUME NoOverrun, Kind \cap Leaving = {}
    PROVE  Spec => LockstepSpec
<1>1. Init => Abstract!Init
  BY DEF Init, Abstract!Init
<1>2. IInv /\ LockstepInv => NobodyLeft
  <2> SUFFICES ASSUME IInv, LockstepInv, NEW p \in Player, ~InGame(p) PROVE FALSE
    BY DEF NobodyLeft
  <2>1. PICK t \in 1 .. Len(log) : log[t][p].kind \in Leaving
    BY DEF LockstepInv, LogInv
  <2>2. log[t] \in [Player -> Command \cup {Absent}]
    BY ElementOfSeq DEF LockstepInv, LogInv
  <2>3. log[t][p] \in Command \cup {Absent}
    BY <2>2
  <2> QED
    BY <2>1, <2>3 DEF Command, Absent, Leaving
<1>3. IInv /\ OrderInv /\ FreshInv /\ CheckedStaysReady /\ LockstepInv /\ [Next]_vars
      => [Abstract!Next]_(Abstract!vars)
  BY <1>2, StepRefines DEF Abstract!vars, history
<1>4. Spec => Abstract!Init /\ [][Abstract!Next]_(Abstract!vars)
  BY <1>1, <1>3, Inductive, Ordered, Fresh, StaysReady, InStep, PTL DEF Spec
<1> QED
  BY <1>4 DEF LockstepSpec, Abstract!Spec
=============================================================================
