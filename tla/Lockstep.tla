------------------------------ MODULE Lockstep ------------------------------
(***************************************************************************)
(* What the packet server of rt_net.c promises to the simulation, without  *)
(* rings, statuses, requests or losses.  Every player submits one command  *)
(* per tic.  A tic is closed once, when every player still in the game has *)
(* submitted its command for it, and what it holds never changes           *)
(* afterwards.  Every client applies the closed tics in order, without a   *)
(* gap and without a repetition.  A player whose QUIT or ENDGAME command   *)
(* is in a closed tic takes no part in the following ones.                 *)
(***************************************************************************)
EXTENDS Naturals, Sequences

CONSTANTS Player,      \* the players of the game
          Kind         \* the kinds of commands (COM_DELTA, COM_QUIT, ...)

VARIABLES submitted,   \* submitted[p]: the commands p made, in order
          log,         \* the closed tics, each a command (or Absent) per player
          applied      \* applied[p]: the tics the client of p has simulated

vars == <<submitted, log, applied>>

\* A player that is out of the game has no command in a tic.
Absent == [time |-> 0, kind |-> "absent"]

\* The commands after which the server no longer waits for a player.
Leaving == {"quit", "endgame"}

Command == [time : Nat, kind : Kind]
Tic == [Player -> Command \cup {Absent}]

TypeOK ==
    /\ submitted \in [Player -> Seq(Command)]
    /\ log \in Seq(Tic)
    /\ applied \in [Player -> Seq(Tic)]

\* The players whose leaving command is not in the log yet.
Present == {p \in Player : \A t \in DOMAIN log : log[t][p].kind \notin Leaving}

Init ==
    /\ submitted = [p \in Player |-> <<>>]
    /\ log = <<>>
    /\ applied = [p \in Player |-> <<>>]

\* A player makes its command for the next tic of its own clock.
Submit(p) ==
    /\ \E k \in Kind :
          submitted' = [submitted EXCEPT ![p] = Append(@, [time |-> Len(@), kind |-> k])]
    /\ UNCHANGED <<log, applied>>

\* The next tic is closed with the commands of the players still present.
Close ==
    /\ \A p \in Present : Len(log) < Len(submitted[p])
    /\ log' = Append(log, [p \in Player |->
                IF p \in Present THEN submitted[p][Len(log) + 1] ELSE Absent])
    /\ UNCHANGED <<submitted, applied>>

\* A client simulates the next closed tic.
Apply(p) ==
    /\ Len(applied[p]) < Len(log)
    /\ applied' = [applied EXCEPT ![p] = Append(@, log[Len(@) + 1])]
    /\ UNCHANGED <<submitted, log>>

Next == Close \/ \E p \in Player : Submit(p) \/ Apply(p)

Spec == Init /\ [][Next]_vars
=============================================================================
