------------------------------ MODULE RottNetInv ------------------------------
(***************************************************************************)
(* An inductive invariant of RottNet: every command of a player, wherever  *)
(* it is (a ring, a queue, the history), is one the player made; what is   *)
(* in a ring or a queue has the right shape; and the server is not ahead   *)
(* of a player, also between its check and the closing of the tic.         *)
(***************************************************************************)
EXTENDS RottNet

\* The commands p has made, and the fill of an unused slot.
Made(p) == {Fill} \cup {submitted[p][i] : i \in DOMAIN submitted[p]}

\* Closed tics and packets that carry made commands only.
MadePacket == {pkt \in ServerPacket : \A q \in Player : pkt.cmds[q] \in Made(q)}
RequestPacket == [type : {"request"}, time : Int, numpackets : Nat]
UpPacket(p) ==
    [type : {"command"}, cmd : Made(p)] \cup RequestPacket
        \cup [type : {"fixup"}, time : Int, subs : Seq(Made(p))]
DownPacket ==
    [type : {"server"}, pkt : MadePacket] \cup RequestPacket
        \cup [type : {"fixup"}, time : Int, subs : Seq(MadePacket)]

\* The commands of a player are numbered by their tics.
SubmittedOK ==
    /\ submitted \in [Player -> Seq(Command)]
    /\ \A p \in Player : /\ Len(submitted[p]) = controlupdatetime[p]
                         /\ \A i \in 1 .. Len(submitted[p]) : submitted[p][i].time = i - 1

\* The rings of the clients and of the server hold made commands.
ClientRingsOK ==
    /\ \A p \in Player : \A a \in Slot : LocalCmds[p][a] \in Made(p)
    /\ \A p, q \in Player : \A a \in Slot : PlayerCmds[p][q][a] \in Made(q)
ServerRingsOK ==
    /\ \A p \in Player : \A a \in Slot : ClientCmds[p][a] \in Made(p)
    /\ \A a \in Slot : ServerCmds[a] \in MadePacket

\* So do the packets on their way.
QueuesOK ==
    /\ toServer = [p \in Player |-> toServer[p]]
    /\ toClient = [p \in Player |-> toClient[p]]
    /\ \A p \in Player : toServer[p] \in Seq(UpPacket(p)) /\ toClient[p] \in Seq(DownPacket)

\* And the simulated tics.
SimulatedOK ==
    /\ applied \in [Player -> Seq([Player -> Command \cup {Absent}])]
    /\ \A p \in Player : \A t \in 1 .. Len(applied[p]) : \A q \in Player :
          applied[p][t][q] \in Made(q) \cup {Absent}

\* The server waits for every player of the game.
AheadOK ==
    /\ ServerNeverAhead
    /\ clientsready => \A p \in Player : InGame(p) => serverupdatetime < controlupdatetime[p]

IInv == /\ TypeOK
        /\ SubmittedOK
        /\ ClientRingsOK
        /\ ServerRingsOK
        /\ QueuesOK
        /\ SimulatedOK
        /\ AheadOK
=============================================================================
