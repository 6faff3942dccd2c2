-------------------------- MODULE RottNetFreshProofs --------------------------
(***************************************************************************)
(* Theorems about the rings of RottNet, for clients whose clock runs less  *)
(* than a ring ahead of their simulation: no ready slot is taken for       *)
(* another tic, and what an end may still ask for is held by the other.    *)
(***************************************************************************)
EXTENDS RottNetProofs

-----------------------------------------------------------------------------
(* The statuses of a ring                                                  *)

\* A packet in sequence, or after a gap, arrives.
LEMMA StatusArrives ==
    ASSUME NEW from \in Int, NEW lct \in Int, NEW t \in Int, NEW status \in [Slot -> Status],
           from <= lct + 1, lct < t, t < from + MAXCMDS, StatusOK(status, from, lct),
           NEW marked, marked = status \/ marked = MarkFixing(status, lct + 1, t - (lct + 1))
    PROVE  LET new == [marked EXCEPT ![CommandAddress(t)] = "ready"] IN
           /\ StatusOK(new, from, t)
           /\ status[CommandAddress(from)] = "ready" => new[CommandAddress(from)] = "ready"
           /\ \A u \in Window(from) : new[CommandAddress(u)] = "ready" /\ u # t =>
                 /\ status[CommandAddress(u)] = "ready"
                 /\ CommandAddress(u) # CommandAddress(t)
<1> DEFINE new == [marked EXCEPT ![CommandAddress(t)] = "ready"]
<1>0. MAXCMDS \in Nat \ {0} /\ t \in Window(from) /\ from \in Window(from) /\ CommandAddress(t) \in Slot
  BY RottNetAssumption, AddressInRing DEF Window
<1>1. marked \in [Slot -> Status]
  BY StatusType
<1>2. \A a \in Slot : new[a] = IF a = CommandAddress(t) THEN "ready" ELSE marked[a]
  BY <1>1
<1> HIDE DEF new
<1>3. ASSUME NEW u \in Window(from)
      PROVE  /\ CommandAddress(u) \in Slot
             /\ CommandAddress(u) = CommandAddress(t) => u = t
             /\ CommandAddress(u) # CommandAddress(t) =>
                    \/ new[CommandAddress(u)] = status[CommandAddress(u)]
                    \/ new[CommandAddress(u)] = "fixing" /\ lct < u /\ u < t
  <2>1. u \in Int /\ from <= u /\ u < from + MAXCMDS
    BY <1>0 DEF Window
  <2>2. CommandAddress(u) \in Slot
    BY <2>1, AddressInRing
  <2>3. CommandAddress(u) = CommandAddress(t) => u = t
    BY <1>0, <2>1, SameSlot
  <2>4. ASSUME NEW i \in 0 .. t - (lct + 1) - 1, CommandAddress(lct + 1 + i) = CommandAddress(u)
        PROVE  lct < u /\ u < t
    <3>1. lct + 1 + i \in Int /\ from <= lct + 1 + i /\ lct + 1 + i < t /\ lct < lct + 1 + i
      OBVIOUS
    <3>2. lct + 1 + i = u
      BY <1>0, <2>1, <2>4, <3>1, SameSlot
    <3> QED
      BY <3>1, <3>2
  <2>5. marked[CommandAddress(u)] = status[CommandAddress(u)]
        \/ (marked[CommandAddress(u)] = "fixing" /\ lct < u /\ u < t)
    <3>1. CASE marked = status
      BY <3>1
    <3>2. CASE marked = MarkFixing(status, lct + 1, t - (lct + 1))
      BY <2>2, <2>4, <3>2 DEF MarkFixing
    <3> QED
      BY <3>1, <3>2
  <2> QED
    BY <1>2, <2>2, <2>3, <2>5
<1>4. \A u \in Window(from) : /\ u \in Int
                              /\ status[CommandAddress(u)] = "ready" => u <= lct
                              /\ status[CommandAddress(u)] = "fixing" => u <= lct + 1
  BY <1>0 DEF StatusOK, Window
<1>5. \A u \in Window(from) : new[CommandAddress(u)] = "ready" /\ u # t =>
                 /\ status[CommandAddress(u)] = "ready"
                 /\ CommandAddress(u) # CommandAddress(t)
  BY <1>3
<1>6. status[CommandAddress(from)] = "ready" => new[CommandAddress(from)] = "ready"
  <2>1. CASE CommandAddress(from) = CommandAddress(t)
    BY <1>0, <1>2, <2>1
  <2>2. CASE CommandAddress(from) # CommandAddress(t)
    BY <1>0, <1>3, <1>4, <2>2
  <2> QED
    BY <2>1, <2>2
<1>7. StatusOK(new, from, t)
  <2> SUFFICES ASSUME NEW u \in Window(from)
               PROVE  /\ new[CommandAddress(u)] = "ready" => u <= t
                      /\ new[CommandAddress(u)] = "fixing" => u <= t + 1
    BY DEF StatusOK
  <2>1. CASE CommandAddress(u) = CommandAddress(t)
    BY <1>3, <1>4, <2>1
  <2>2. CASE CommandAddress(u) # CommandAddress(t)
    BY <1>3, <1>4, <2>2
  <2> QED
    BY <2>1, <2>2
<1> QED
  BY <1>5, <1>6, <1>7 DEF new

\* A packet that is not beyond the next is waited for.
LEMMA StatusMarked ==
    ASSUME NEW from \in Int, NEW lct \in Int, NEW t \in Int, NEW status \in [Slot -> Status],
           from <= t, t <= lct + 1, t < from + MAXCMDS, StatusOK(status, from, lct)
    PROVE  LET new == MarkFixing(status, t, 1) IN
           /\ StatusOK(new, from, lct)
           /\ \A u \in Window(from) :
                 (new[CommandAddress(u)] = "ready") <=> (status[CommandAddress(u)] = "ready" /\ u # t)
<1> DEFINE new == MarkFixing(status, t, 1)
<1>0. MAXCMDS \in Nat \ {0} /\ CommandAddress(t) \in Slot
  BY RottNetAssumption, AddressInRing
<1>1. \A a \in Slot : new[a] = IF CommandAddress(t) = a THEN "fixing" ELSE status[a]
  BY DEF MarkFixing
<1> HIDE DEF new
<1>2. ASSUME NEW u \in Window(from)
      PROVE  /\ u \in Int /\ CommandAddress(u) \in Slot
             /\ CommandAddress(u) = CommandAddress(t) <=> u = t
  <2>1. u \in Int /\ from <= u /\ u < from + MAXCMDS
    BY <1>0 DEF Window
  <2> QED
    BY <1>0, <2>1, AddressInRing, SameSlot
<1>3. ASSUME NEW u \in Window(from)
      PROVE  new[CommandAddress(u)] = IF u = t THEN "fixing" ELSE status[CommandAddress(u)]
  BY <1>1, <1>2
<1>4. StatusOK(new, from, lct)
  BY <1>3 DEF StatusOK
<1>5. \A u \in Window(from) :
          (new[CommandAddress(u)] = "ready") <=> (status[CommandAddress(u)] = "ready" /\ u # t)
  BY <1>3
<1> QED
  BY <1>4, <1>5 DEF new

\* The end goes on to its next tic.
LEMMA StatusMovesOn ==
    ASSUME NEW from \in Int, NEW lct \in Int, NEW status \in [Slot -> Status],
           StatusOK(status, from, lct)
    PROVE  LET new == NotArrived(status, from) IN
           /\ StatusOK(new, from + 1, lct)
           /\ \A u \in Window(from + 1) : new[CommandAddress(u)] # "notarrived" =>
                 u \in Window(from) /\ new[CommandAddress(u)] = status[CommandAddress(u)]
<1> DEFINE new == NotArrived(status, from)
<1>0. MAXCMDS \in Nat \ {0} /\ CommandAddress(from) \in Slot
  BY RottNetAssumption, AddressInRing
<1>1. \A a \in Slot : new[a] = IF a = CommandAddress(from) THEN "notarrived" ELSE status[a]
  BY DEF NotArrived
<1> HIDE DEF new
<1>2. ASSUME NEW u \in Window(from + 1), new[CommandAddress(u)] # "notarrived"
      PROVE  u \in Window(from) /\ new[CommandAddress(u)] = status[CommandAddress(u)]
  <2>1. u \in Int /\ from + 1 <= u /\ u <= from + MAXCMDS
    BY <1>0 DEF Window
  <2>2. CommandAddress(u) \in Slot
    BY <2>1, AddressInRing
  <2>3. CommandAddress(u) # CommandAddress(from)
    BY <1>1, <1>2, <2>2
  <2>4. u # from + MAXCMDS
    BY <2>3, NextRound
  <2> QED
    BY <1>0, <1>1, <2>1, <2>2, <2>3, <2>4 DEF Window
<1>3. StatusOK(new, from + 1, lct)
  BY <1>2 DEF StatusOK
<1> QED
  BY <1>2, <1>3 DEF new

\* A fixup changes only slots it has a packet for, and each gets its own.
FillsOwnSlots(status, fix, from) ==
    /\ \A u \in Window(from) :
          /\ Landing(fix, Accepted(status, fix), CommandAddress(u)) = {} =>
                 FixedStatus(status, fix)[CommandAddress(u)] = status[CommandAddress(u)]
          /\ \A i \in Landing(fix, Accepted(status, fix), CommandAddress(u)) :
                 fix.subs[i].time = u
    /\ \A a \in Slot : status[a] = "ready" => FixedStatus(status, fix)[a] = "ready"

\* A fixup fills the slots that wait for its packets, and no other.
LEMMA StatusFixed ==
    ASSUME NEW from \in Int, NEW lct \in Int, NEW status \in [Slot -> Status],
           StatusOK(status, from, lct),
           NEW fix, NEW S, fix.type = "fixup", fix.subs \in Seq(S), Consecutive(fix),
           lct + 1 < fix.time + MAXCMDS, LastTime(fix) < from + MAXCMDS
    PROVE  /\ StatusOK(FixedStatus(status, fix), from, FixedTime(lct, fix))
           /\ FillsOwnSlots(status, fix, from)
<1> DEFINE new == FixedStatus(status, fix)
           Lands(a) == Landing(fix, Accepted(status, fix), a)
           t == fix.time
           n == Len(fix.subs)
<1>0. /\ MAXCMDS \in Nat \ {0} /\ t \in Nat /\ n \in Nat /\ DOMAIN fix.subs = 1 .. n
      /\ LastTime(fix) = t + n - 1
  BY RottNetAssumption, LenProperties DEF Consecutive, LastTime
<1>1. \A a \in Slot : new[a] = IF Lands(a) # {} THEN "ready" ELSE status[a]
  BY DEF FixedStatus
<1>2. ASSUME NEW u \in Window(from), NEW i \in Lands(CommandAddress(u))
      PROVE  /\ i \in 1 .. n /\ fix.subs[i].time = t + i - 1 /\ t + i - 1 = u
             /\ status[CommandAddress(u)] = "fixing"
  <2>1. /\ i \in 1 .. n /\ fix.subs[i].time = t + i - 1
        /\ CommandAddress(t + i - 1) = CommandAddress(u)
        /\ status[CommandAddress(t + i - 1)] = "fixing"
    BY <1>0 DEF Landing, Accepted, Consecutive
  <2>2. u \in Int /\ from <= u /\ u < from + MAXCMDS
    BY <1>0 DEF Window
  <2>3. u <= lct + 1
    BY <2>1 DEF StatusOK
  <2> HIDE DEF t, n
  <2>4. t + i - 1 = u
    <3>1. t + i - 1 \in Int /\ (t + i - 1) - u < MAXCMDS /\ u - (t + i - 1) < MAXCMDS
      BY <1>0, <2>1, <2>2, <2>3 DEF t
    <3> QED
      BY <2>1, <2>2, <3>1, SameSlot
  <2> QED
    BY <2>1, <2>4
<1> HIDE DEF new, Lands
<1>3. StatusOK(new, from, FixedTime(lct, fix))
  <2> SUFFICES ASSUME NEW u \in Window(from)
               PROVE  /\ new[CommandAddress(u)] = "ready" => u <= FixedTime(lct, fix)
                      /\ new[CommandAddress(u)] = "fixing" => u <= FixedTime(lct, fix) + 1
    BY DEF StatusOK
  <2>1. u \in Int /\ CommandAddress(u) \in Slot
    BY AddressInRing DEF Window
  <2>2. /\ status[CommandAddress(u)] = "ready" => u <= lct
        /\ status[CommandAddress(u)] = "fixing" => u <= lct + 1
    BY DEF StatusOK
  <2>3. FixedTime(lct, fix) = IF lct + 1 \in t .. t + n - 1 THEN t + n - 1 ELSE lct
    BY DEF FixedTime, Expected
  <2>4. CASE Lands(CommandAddress(u)) # {}
    <3>1. PICK i \in Lands(CommandAddress(u)) : TRUE
      BY <2>4
    <3>2. i \in 1 .. n /\ t + i - 1 = u /\ u <= lct + 1
      BY <1>2, <2>2
    <3> HIDE DEF t, n
    <3>3. u <= FixedTime(lct, fix)
      BY <1>0, <2>1, <2>3, <3>2
    <3>4. new[CommandAddress(u)] = "ready"
      BY <1>1, <2>1, <2>4
    <3> QED
      BY <3>3, <3>4
  <2>5. CASE Lands(CommandAddress(u)) = {}
    <3>1. new[CommandAddress(u)] = status[CommandAddress(u)]
      BY <1>1, <2>1, <2>5
    <3>2. FixedTime(lct, fix) \in Int /\ lct <= FixedTime(lct, fix)
      BY <1>0, FixedTimeMoves
    <3> QED
      BY <2>1, <2>2, <3>1, <3>2
  <2> QED
    BY <2>4, <2>5
<1>4. ASSUME NEW u \in Window(from)
      PROVE  /\ Lands(CommandAddress(u)) = {} => new[CommandAddress(u)] = status[CommandAddress(u)]
             /\ \A i \in Lands(CommandAddress(u)) : fix.subs[i].time = u
  <2>1. u \in Int /\ CommandAddress(u) \in Slot
    BY AddressInRing DEF Window
  <2> QED
    BY <1>1, <1>2, <2>1
<1>5. \A a \in Slot : status[a] = "ready" => new[a] = "ready"
  BY <1>1
<1> QED
  BY <1>3, <1>4, <1>5 DEF new, Lands, FillsOwnSlots

-----------------------------------------------------------------------------
(* The requests and fixups of a queue                                      *)

\* What a packet read from a queue leaves of Recent and Unclosed.
LEMMA RecentRead ==
    ASSUME NEW S, Timed(S), NEW queue \in Seq(S), queue # <<>>, NEW lct \in Int, NEW all \in BOOLEAN,
           NEW new, new = lct \/ new = LastTime(Head(queue)), Recent(queue, lct, all)
    PROVE  Recent(Tail(queue), new, all)
<1>1. /\ DOMAIN queue = 1 .. Len(queue) /\ Len(queue) \in Nat \ {0}
      /\ Head(queue) = queue[1] /\ queue[1] \in S
      /\ DOMAIN Tail(queue) = 1 .. Len(queue) - 1
      /\ \A i \in 1 .. Len(queue) - 1 : Tail(queue)[i] = queue[i + 1]
  BY TailAt
<1> SUFFICES ASSUME NEW i \in DOMAIN Tail(queue), Tail(queue)[i].type \in {"fixup", "request"},
                    all \/ \E k \in DOMAIN Tail(queue) : i <= k /\ Tail(queue)[k].type = "request"
             PROVE  /\ new + 1 < Tail(queue)[i].time + MAXCMDS
                    /\ \A j \in 1 .. i - 1 : LastTime(Tail(queue)[j]) + 1 < Tail(queue)[i].time + MAXCMDS
  BY DEF Recent
<1>2. i \in 1 .. Len(queue) - 1 /\ i + 1 \in DOMAIN queue /\ Tail(queue)[i] = queue[i + 1]
  BY <1>1
<1>3. all \/ \E k \in DOMAIN queue : i + 1 <= k /\ queue[k].type = "request"
  <2>1. CASE all
    BY <2>1
  <2>2. CASE \E k \in DOMAIN Tail(queue) : i <= k /\ Tail(queue)[k].type = "request"
    <3>1. PICK k \in DOMAIN Tail(queue) : i <= k /\ Tail(queue)[k].type = "request"
      BY <2>2
    <3>2. k + 1 \in DOMAIN queue /\ i + 1 <= k + 1 /\ queue[k + 1].type = "request"
      BY <1>1, <1>2, <3>1
    <3> QED
      BY <3>2
  <2> QED
    BY <2>1, <2>2
<1>4. /\ lct + 1 < queue[i + 1].time + MAXCMDS
      /\ \A j \in 1 .. (i + 1) - 1 : LastTime(queue[j]) + 1 < queue[i + 1].time + MAXCMDS
  BY <1>2, <1>3 DEF Recent
<1>5. new + 1 < queue[i + 1].time + MAXCMDS
  <2>1. 1 \in 1 .. (i + 1) - 1
    BY <1>1, <1>2
  <2> QED
    BY <1>1, <1>4, <2>1
<1>6. \A j \in 1 .. i - 1 : Tail(queue)[j] = queue[j + 1] /\ j + 1 \in 1 .. (i + 1) - 1
  <2>1. i \in Int /\ Len(queue) \in Int /\ i <= Len(queue) - 1
    BY <1>1, <1>2
  <2>2. \A j \in 1 .. i - 1 : j \in 1 .. Len(queue) - 1 /\ j + 1 \in 1 .. (i + 1) - 1
    BY <2>1
  <2> QED
    BY <1>1, <2>2
<1> QED
  BY <1>2, <1>4, <1>5, <1>6

LEMMA UnclosedRead ==
    ASSUME NEW S, NEW queue \in Seq(S), queue # <<>>, NEW lct, NEW end,
           NEW new, new = lct \/ new = LastTime(Head(queue)), Unclosed(queue, lct, end)
    PROVE  Unclosed(Tail(queue), new, end)
<1>1. /\ DOMAIN queue = 1 .. Len(queue) /\ Len(queue) \in Nat \ {0}
      /\ Head(queue) = queue[1] /\ queue[1] \in S
      /\ DOMAIN Tail(queue) = 1 .. Len(queue) - 1
      /\ \A i \in 1 .. Len(queue) - 1 : Tail(queue)[i] = queue[i + 1]
  BY TailAt
<1> SUFFICES ASSUME NEW i \in DOMAIN Tail(queue), Tail(queue)[i].type = "request"
             PROVE  /\ new < Tail(queue)[i].time /\ Tail(queue)[i].time <= end
                    /\ \A j \in 1 .. i - 1 : LastTime(Tail(queue)[j]) < Tail(queue)[i].time
  BY DEF Unclosed
<1>2. i \in 1 .. Len(queue) - 1 /\ i + 1 \in DOMAIN queue /\ Tail(queue)[i] = queue[i + 1]
  BY <1>1
<1>3. /\ lct < queue[i + 1].time /\ queue[i + 1].time <= end
      /\ \A j \in 1 .. (i + 1) - 1 : LastTime(queue[j]) < queue[i + 1].time
  BY <1>2 DEF Unclosed
<1>4. new < queue[i + 1].time
  <2>1. 1 \in 1 .. (i + 1) - 1
    BY <1>1, <1>2
  <2> QED
    BY <1>1, <1>3, <2>1
<1>5. \A j \in 1 .. i - 1 : Tail(queue)[j] = queue[j + 1] /\ j + 1 \in 1 .. (i + 1) - 1
  <2>1. i \in Int /\ Len(queue) \in Int /\ i <= Len(queue) - 1
    BY <1>1, <1>2
  <2>2. \A j \in 1 .. i - 1 : j \in 1 .. Len(queue) - 1 /\ j + 1 \in 1 .. (i + 1) - 1
    BY <2>1
  <2> QED
    BY <1>1, <2>2
<1> QED
  BY <1>2, <1>3, <1>4, <1>5

\* A request that is still in a queue after the head was read was there before.
LEMMA HoldsRead ==
    ASSUME NEW S, NEW queue \in Seq(S), queue # <<>>, Holds(Tail(queue), {"request"})
    PROVE  \E i \in DOMAIN queue : i # 1 /\ queue[i].type = "request"
<1>1. /\ DOMAIN queue = 1 .. Len(queue) /\ Len(queue) \in Nat \ {0}
      /\ DOMAIN Tail(queue) = 1 .. Len(queue) - 1
      /\ \A i \in 1 .. Len(queue) - 1 : Tail(queue)[i] = queue[i + 1]
  BY TailAt
<1>2. PICK i \in DOMAIN Tail(queue) : Tail(queue)[i].type = "request"
  BY DEF Holds
<1>3. i + 1 \in DOMAIN queue /\ i + 1 # 1 /\ queue[i + 1].type = "request"
  BY <1>1, <1>2
<1> QED
  BY <1>3

\* What a packet written to a queue leaves of them.
LEMMA RecentWrite ==
    ASSUME NEW S, NEW queue \in Seq(S), NEW m \in S, NEW lct, NEW all \in BOOLEAN,
           Recent(queue, lct, all), m.type = "request" => all,
           m.type \in {"fixup", "request"} /\ all =>
               /\ lct + 1 < m.time + MAXCMDS
               /\ \A i \in DOMAIN queue : LastTime(queue[i]) + 1 < m.time + MAXCMDS
    PROVE  Recent(Queued(queue, m), lct, all)
<1> DEFINE after == Queued(queue, m)
<1>1. Written(queue, m, after)
  BY QueuedAt
<1>2. DOMAIN queue = 1 .. Len(queue) /\ Len(queue) \in Nat
  BY LenProperties
<1>3. after \in Seq(S) /\ DOMAIN after = 1 .. Len(after) /\ Len(after) \in Nat
  BY QueuedType, LenProperties
<1> HIDE DEF after
<1>4. Recent(after, lct, all)
  <2> SUFFICES ASSUME NEW i \in DOMAIN after, after[i].type \in {"fixup", "request"},
                      all \/ \E k \in DOMAIN after : i <= k /\ after[k].type = "request"
               PROVE  /\ lct + 1 < after[i].time + MAXCMDS
                      /\ \A j \in 1 .. i - 1 : LastTime(after[j]) + 1 < after[i].time + MAXCMDS
    BY DEF Recent
  <2>1. \A j \in 1 .. i - 1 : j \in DOMAIN queue /\ after[j] = queue[j]
    BY <1>1 DEF Written
  <2>2. CASE i \in DOMAIN queue /\ after[i] = queue[i]
    <3>1. all \/ \E k \in DOMAIN queue : i <= k /\ queue[k].type = "request"
      <4>1. SUFFICES ASSUME ~all PROVE \E k \in DOMAIN queue : i <= k /\ queue[k].type = "request"
        OBVIOUS
      <4>2. PICK k \in DOMAIN after : i <= k /\ after[k].type = "request"
        BY <4>1
      <4>3. k \in DOMAIN queue /\ after[k] = queue[k]
        BY <1>1, <4>1, <4>2 DEF Written
      <4> QED
        BY <4>2, <4>3
    <3> QED
      BY <2>1, <2>2, <3>1 DEF Recent
  <2>3. CASE i = Len(queue) + 1 /\ after[i] = m
    <3>1. all
      <4>1. SUFFICES ASSUME ~all PROVE FALSE
        OBVIOUS
      <4>2. PICK k \in DOMAIN after : i <= k /\ after[k].type = "request"
        BY <4>1
      <4>3. k \in DOMAIN queue
        BY <1>1, <4>1, <4>2 DEF Written
      <4> QED
        BY <1>2, <2>3, <4>2, <4>3
    <3> QED
      BY <2>1, <2>3, <3>1
  <2> QED
    BY <1>1, <2>2, <2>3 DEF Written
<1> QED
  BY <1>4 DEF after

LEMMA UnclosedWrite ==
    ASSUME NEW S, NEW queue \in Seq(S), NEW m \in S, NEW lct, NEW end, Unclosed(queue, lct, end),
           m.type = "request" => /\ lct < m.time /\ m.time <= end
                                 /\ \A i \in DOMAIN queue : LastTime(queue[i]) < m.time
    PROVE  Unclosed(Queued(queue, m), lct, end)
<1> DEFINE after == Queued(queue, m)
<1>1. Written(queue, m, after)
  BY QueuedAt
<1> HIDE DEF after
<1>2. Unclosed(after, lct, end)
  <2> SUFFICES ASSUME NEW i \in DOMAIN after, after[i].type = "request"
               PROVE  /\ lct < after[i].time /\ after[i].time <= end
                      /\ \A j \in 1 .. i - 1 : LastTime(after[j]) < after[i].time
    BY DEF Unclosed
  <2>1. \A j \in 1 .. i - 1 : j \in DOMAIN queue /\ after[j] = queue[j]
    BY <1>1 DEF Written
  <2>2. CASE i \in DOMAIN queue /\ after[i] = queue[i]
    BY <2>1, <2>2 DEF Unclosed
  <2>3. CASE after[i] = m
    BY <2>1, <2>3
  <2> QED
    BY <1>1, <2>2, <2>3 DEF Written
<1> QED
  BY <1>2 DEF after

\* A request that is in a queue after another packet was written was there before.
LEMMA HoldsWrite ==
    ASSUME NEW S, NEW queue \in Seq(S), NEW m \in S, m.type # "request",
           Holds(Queued(queue, m), {"request"})
    PROVE  Holds(queue, {"request"})
<1> DEFINE after == Queued(queue, m)
<1>1. Written(queue, m, after)
  BY QueuedAt
<1>2. PICK i \in DOMAIN after : after[i].type = "request"
  BY DEF Holds
<1> HIDE DEF after
<1> QED
  BY <1>1, <1>2 DEF Written, Holds

-----------------------------------------------------------------------------
(* How far the times of a player are apart                                 *)

\* Who is ahead of whom: simulated, closed, arrived, made; and that is less
\* than a ring.
LEMMA Chain ==
    ASSUME NoOverrun, IInv, OrderInv, FreshInv, NEW p \in Player
    PROVE  /\ MAXCMDS \in Nat \ {0}
           /\ controlupdatetime[p] \in Nat /\ oldpolltime[p] \in Nat /\ serverupdatetime \in Nat
           /\ LastCommandTime[p] \in Int /\ ServerLastCommandTime[p] \in Int
           /\ -1 <= LastCommandTime[p] /\ LastCommandTime[p] < serverupdatetime
           /\ -1 <= ServerLastCommandTime[p] /\ ServerLastCommandTime[p] < controlupdatetime[p]
           /\ controlupdatetime[p] < oldpolltime[p] + MAXCMDS
           /\ InGame(p) =>
               /\ oldpolltime[p] <= LastCommandTime[p] + 1
               /\ oldpolltime[p] <= serverupdatetime
               /\ serverupdatetime <= ServerLastCommandTime[p] + 1
               /\ serverupdatetime <= controlupdatetime[p]
<1>1. /\ controlupdatetime[p] \in Nat /\ oldpolltime[p] \in Nat /\ serverupdatetime \in Nat
      /\ LastCommandTime[p] \in Int /\ ServerLastCommandTime[p] \in Int
  BY DEF IInv, TypeOK
<1>2. MAXCMDS \in Nat \ {0} /\ MaxLead \in Nat /\ MaxLead < MAXCMDS
  BY RottNetAssumption DEF NoOverrun
<1>3. /\ -1 <= LastCommandTime[p] /\ LastCommandTime[p] < serverupdatetime
      /\ -1 <= ServerLastCommandTime[p] /\ ServerLastCommandTime[p] < controlupdatetime[p]
  BY DEF OrderInv, UpInOrder, DownInOrder, InOrder
<1>4. controlupdatetime[p] - oldpolltime[p] <= MaxLead
  BY DEF FreshInv, ClientFresh
<1>5. InGame(p) => /\ oldpolltime[p] <= LastCommandTime[p] + 1
                   /\ serverupdatetime <= ServerLastCommandTime[p] + 1
  BY DEF FreshInv, ClientFresh, ServerFresh, Followed
<1> QED
  BY <1>1, <1>2, <1>3, <1>4, <1>5

\* The packets of a queue, and its head, are where their order says.
LEMMA UpQueue ==
    ASSUME IInv, OrderInv, NEW p \in Player
    PROVE  /\ toServer[p] \in Seq(UpPacket(p)) /\ Timed(UpPacket(p))
           /\ \A i \in DOMAIN toServer[p] : /\ LastTime(toServer[p][i]) \in Int
                                            /\ LastTime(toServer[p][i]) < controlupdatetime[p]
<1>1. toServer[p] \in Seq(UpPacket(p)) /\ Timed(UpPacket(p))
  BY PacketsTimed DEF IInv, QueuesOK
<1>2. \A i \in DOMAIN toServer[p] : toServer[p][i] \in UpPacket(p)
  BY <1>1, LenProperties, ElementOfSeq
<1>3. \A i \in DOMAIN toServer[p] : LastTime(toServer[p][i]) < controlupdatetime[p]
  BY DEF OrderInv, UpInOrder, InOrder
<1> QED
  BY <1>1, <1>2, <1>3 DEF Timed

LEMMA DownQueue ==
    ASSUME IInv, OrderInv, NEW p \in Player
    PROVE  /\ toClient[p] \in Seq(DownPacket) /\ Timed(DownPacket)
           /\ \A i \in DOMAIN toClient[p] : /\ LastTime(toClient[p][i]) \in Int
                                            /\ LastTime(toClient[p][i]) < serverupdatetime
<1>1. toClient[p] \in Seq(DownPacket) /\ Timed(DownPacket)
  BY PacketsTimed DEF IInv, QueuesOK
<1>2. \A i \in DOMAIN toClient[p] : toClient[p][i] \in DownPacket
  BY <1>1, LenProperties, ElementOfSeq
<1>3. \A i \in DOMAIN toClient[p] : LastTime(toClient[p][i]) < serverupdatetime
  BY DEF OrderInv, DownInOrder, InOrder
<1> QED
  BY <1>1, <1>2, <1>3 DEF Timed

\* What a client reads while the server waits for it, or has asked it.
LEMMA DownHead ==
    ASSUME NoOverrun, IInv, OrderInv, FreshInv, NEW p \in Player, toClient[p] # <<>>,
           InGame(p) \/ Holds(Tail(toClient[p]), {"request"})
    PROVE  LET m == Head(toClient[p]) IN
           /\ Followed(p)
           /\ LastTime(m) < oldpolltime[p] + MAXCMDS
           /\ LastCommandTime[p] + 1 < oldpolltime[p] + MAXCMDS
           /\ m.type = "fixup" => LastCommandTime[p] + 1 < m.time + MAXCMDS
<1> DEFINE queue == toClient[p]
           m == Head(queue)
           c == controlupdatetime[p]
<1>1. /\ queue \in Seq(DownPacket) /\ queue # <<>>
      /\ \A i \in DOMAIN queue : LastTime(queue[i]) \in Int /\ LastTime(queue[i]) < serverupdatetime
  BY DownQueue
<1>2. /\ Unclosed(queue, LastCommandTime[p], c)
      /\ Recent(queue, LastCommandTime[p], InGame(p))
  BY DEF FreshInv, ClientFresh
<1> HIDE DEF queue
<1>3. 1 \in DOMAIN queue /\ m = queue[1] /\ DOMAIN queue = 1 .. Len(queue)
  BY <1>1, TailAt
<1>4. CASE InGame(p)
  <2>1. LastTime(m) < c
    BY <1>1, <1>3, <1>4, Chain
  <2>2. m.type = "fixup" => LastCommandTime[p] + 1 < m.time + MAXCMDS
    BY <1>2, <1>3, <1>4 DEF Recent
  <2> QED
    BY <1>1, <1>3, <1>4, <2>1, <2>2, Chain DEF Followed, queue
<1>5. CASE Holds(Tail(queue), {"request"})
  <2>1. PICK i \in DOMAIN queue : i # 1 /\ queue[i].type = "request"
    BY <1>1, <1>5, HoldsRead
  <2>2. 1 \in 1 .. i - 1 /\ 1 <= i
    BY <1>3, <2>1
  <2>3. /\ LastCommandTime[p] < queue[i].time /\ queue[i].time <= c
        /\ LastTime(queue[1]) < queue[i].time
    BY <1>2, <2>1, <2>2 DEF Unclosed
  <2>4. queue[i].time \in Int
    <3>1. queue[i] \in DownPacket
      BY <1>1, <2>1, LenProperties, ElementOfSeq
    <3> QED
      BY <2>1, <3>1, DownFields
  <2>5. m.type = "fixup" => LastCommandTime[p] + 1 < m.time + MAXCMDS
    BY <1>2, <1>3, <2>1, <2>2 DEF Recent
  <2>6. Followed(p)
    BY <2>1 DEF Followed, Holds, queue
  <2>7. LastTime(m) < oldpolltime[p] + MAXCMDS
    BY <1>1, <1>3, <2>3, <2>4, Chain
  <2>8. LastCommandTime[p] + 1 < oldpolltime[p] + MAXCMDS
    BY <2>3, <2>4, Chain
  <2> QED
    BY <2>5, <2>6, <2>7, <2>8 DEF queue
<1> QED
  BY <1>4, <1>5 DEF queue

\* What a player in the game asks for or sends again is no ring behind.
LEMMA UpRecent ==
    ASSUME NoOverrun, IInv, OrderInv, FreshInv, NEW p \in Player, InGame(p),
           NEW m \in UpPacket(p), m.type \in {"fixup", "request"} =>
                                       m.time \in Int /\ oldpolltime[p] <= m.time
    PROVE  Recent(Queued(toServer[p], m), ServerLastCommandTime[p], TRUE)
<1>1. /\ toServer[p] \in Seq(UpPacket(p))
      /\ \A i \in DOMAIN toServer[p] : /\ LastTime(toServer[p][i]) \in Int
                                       /\ LastTime(toServer[p][i]) < controlupdatetime[p]
  BY UpQueue
<1>2. Recent(toServer[p], ServerLastCommandTime[p], TRUE)
  BY DEF FreshInv, ServerFresh
<1>3. ASSUME m.type \in {"fixup", "request"}
      PROVE  /\ ServerLastCommandTime[p] + 1 < m.time + MAXCMDS
             /\ \A i \in DOMAIN toServer[p] : LastTime(toServer[p][i]) + 1 < m.time + MAXCMDS
  <2>1. /\ MAXCMDS \in Nat /\ oldpolltime[p] \in Nat /\ controlupdatetime[p] \in Nat
        /\ ServerLastCommandTime[p] \in Int /\ ServerLastCommandTime[p] < controlupdatetime[p]
        /\ controlupdatetime[p] < oldpolltime[p] + MAXCMDS
    BY Chain
  <2>2. m.time \in Int /\ oldpolltime[p] <= m.time
    BY <1>3
  <2>3. controlupdatetime[p] < m.time + MAXCMDS
    BY <2>1, <2>2
  <2> QED
    BY <1>1, <2>1, <2>2, <2>3
<1> QED
  BY <1>1, <1>2, <1>3, RecentWrite

\* What the server asks a player in the game for.
LEMMA DownRequested ==
    ASSUME NoOverrun, IInv, OrderInv, FreshInv, NEW p \in Player, InGame(p),
           NEW t \in Int, NEW n \in Int, serverupdatetime <= t, t <= controlupdatetime[p]
    PROVE  /\ Recent(Queued(toClient[p], Request(t, n)), LastCommandTime[p], TRUE)
           /\ Unclosed(Queued(toClient[p], Request(t, n)), LastCommandTime[p], controlupdatetime[p])
<1> DEFINE m == Request(t, n)
<1>1. m \in DownPacket /\ m.type = "request" /\ m.time = t
  BY RequestIsPacket DEF DownPacket, Request
<1> HIDE DEF m
<1>2. /\ toClient[p] \in Seq(DownPacket)
      /\ \A i \in DOMAIN toClient[p] : /\ LastTime(toClient[p][i]) \in Int
                                       /\ LastTime(toClient[p][i]) < serverupdatetime
  BY DownQueue
<1>3. /\ Recent(toClient[p], LastCommandTime[p], TRUE)
      /\ Unclosed(toClient[p], LastCommandTime[p], controlupdatetime[p])
  <2>1. InGame(p) = TRUE
    BY DEF InGame
  <2> QED
    BY <2>1 DEF FreshInv, ClientFresh
<1>4. /\ LastCommandTime[p] < t /\ LastCommandTime[p] + 1 < t + MAXCMDS
      /\ \A i \in DOMAIN toClient[p] : /\ LastTime(toClient[p][i]) < t
                                       /\ LastTime(toClient[p][i]) + 1 < t + MAXCMDS
  BY <1>2, Chain
<1>5. Recent(Queued(toClient[p], m), LastCommandTime[p], TRUE)
  BY <1>1, <1>2, <1>3, <1>4, RecentWrite
<1>6. Unclosed(Queued(toClient[p], m), LastCommandTime[p], controlupdatetime[p])
  BY <1>1, <1>2, <1>3, <1>4, UnclosedWrite
<1> QED
  BY <1>5, <1>6 DEF m

-----------------------------------------------------------------------------
(* The steps of the clients                                                *)

\* A step of a client concerns that client, its queues, and nothing else.
LEMMA ClientStep ==
    ASSUME FreshInv, NEW p \in Player, UNCHANGED serverVars,
           \A q \in Player : q # p =>
               /\ toServer'[q] = toServer[q] /\ toClient'[q] = toClient[q]
               /\ controlupdatetime'[q] = controlupdatetime[q] /\ oldpolltime'[q] = oldpolltime[q]
               /\ playstate'[q] = playstate[q] /\ LastCommandTime'[q] = LastCommandTime[q]
               /\ ServerCommandStatus'[q] = ServerCommandStatus[q],
           ClientFresh(p)', InGame(p) => Recent(toServer'[p], ServerLastCommandTime[p], TRUE)
    PROVE  FreshInv'
<1>1. /\ UNCHANGED <<serverupdatetime, ClientCmds, ClientCommandStatus, ServerLastCommandTime,
                     ServerPlayerStatus, clientsready>>
  BY DEF serverVars
<1>2. CheckedFresh'
  BY <1>1 DEF FreshInv, CheckedFresh, InGame, Collecting
<1>3. ASSUME NEW q \in Player PROVE ClientFresh(q)'
  BY <1>1 DEF FreshInv, ClientFresh, Followed, InGame
<1>4. ASSUME NEW q \in Player PROVE ServerFresh(q)'
  <2>1. ServerFresh(q)
    BY DEF FreshInv
  <2>2. toServer'[q] = toServer[q] \/ q = p
    OBVIOUS
  <2> QED
    BY <1>1, <2>1, <2>2 DEF ServerFresh, InGame
<1> QED
  BY <1>2, <1>3, <1>4 DEF FreshInv

LEMMA PrepareLocalPacketFresh ==
    ASSUME NoOverrun, IInv, OrderInv, FreshInv, NEW p \in Player, PrepareLocalPacket(p)
    PROVE  FreshInv'
<1>1. PICK k \in Kind :
          WriteToServer(p, CommandPacket([time |-> controlupdatetime[p], kind |-> k]))
  BY DEF PrepareLocalPacket
<1> DEFINE m == CommandPacket([time |-> controlupdatetime[p], kind |-> k])
<1>2. /\ toServer' = [toServer EXCEPT ![p] = Queued(@, m)] /\ m.type = "command"
      /\ toServer = [q \in Player |-> toServer[q]]
  BY <1>1 DEF WriteToServer, IInv, QueuesOK, CommandPacket
<1>3. /\ controlupdatetime[p] - oldpolltime[p] < MaxLead
      /\ controlupdatetime' = [controlupdatetime EXCEPT ![p] = @ + 1]
      /\ UNCHANGED <<oldpolltime, playstate, LastCommandTime, ServerCommandStatus, toClient,
                     serverVars>>
  BY DEF PrepareLocalPacket
<1>4. controlupdatetime \in [Player -> Nat] /\ oldpolltime[p] \in Nat /\ MaxLead \in Nat
  BY RottNetAssumption DEF IInv, TypeOK
<1> HIDE DEF m
<1>5. ClientFresh(p)'
  <2>1. controlupdatetime'[p] = controlupdatetime[p] + 1
    BY <1>3, <1>4
  <2>2. controlupdatetime'[p] - oldpolltime[p] <= MaxLead
    BY <1>3, <1>4, <2>1
  <2>3. Unclosed(toClient[p], LastCommandTime[p], controlupdatetime'[p])
    <3>1. \A i \in DOMAIN toClient[p] : toClient[p][i].type = "request" => toClient[p][i].time \in Int
      <4>1. \A i \in DOMAIN toClient[p] : toClient[p][i] \in DownPacket
        BY DownQueue, LenProperties, ElementOfSeq
      <4> QED
        BY <4>1, DownFields
    <3> QED
      BY <1>4, <2>1, <3>1 DEF FreshInv, ClientFresh, Unclosed
  <2> QED
    BY <1>3, <2>2, <2>3 DEF FreshInv, ClientFresh, Followed, InGame, serverVars
<1>6. ASSUME InGame(p) PROVE Recent(toServer'[p], ServerLastCommandTime[p], TRUE)
  <2>1. toServer'[p] = Queued(toServer[p], m)
    BY <1>2
  <2>2. Recent(toServer[p], ServerLastCommandTime[p], TRUE)
    BY <1>6 DEF FreshInv, ServerFresh
  <2>3. toServer[p] \in Seq(UpPacket(p) \cup {m})
    BY SeqMonotonic DEF IInv, QueuesOK
  <2> QED
    BY <1>2, <2>1, <2>2, <2>3, RecentWrite
<1> QED
  BY <1>2, <1>3, <1>4, <1>5, <1>6, ClientStep

LEMMA AddServerPacketFresh ==
    ASSUME NoOverrun, IInv, OrderInv, FreshInv, NEW p \in Player, AddServerPacket(p)
    PROVE  FreshInv'
<1> DEFINE m == Head(toClient[p])
           t == m.pkt.time
           lct == LastCommandTime[p]
           gap == t - (lct + 1)
           status == ServerCommandStatus[p]
           ask == MustRequest(status, lct + 1, gap)
           marked == IF ask THEN MarkFixing(status, lct + 1, gap) ELSE status
           new == [marked EXCEPT ![CommandAddress(t)] = "ready"]
<1>1. /\ toClient[p] # <<>> /\ m.type = "server"
      /\ toClient' = [toClient EXCEPT ![p] = Tail(@)]
      /\ LastCommandTime' = [LastCommandTime EXCEPT ![p] = t]
      /\ ServerCommandStatus' = [ServerCommandStatus EXCEPT ![p] = new]
      /\ toServer' = [toServer EXCEPT ![p] = Queued(@, Request(lct + 1, gap))] \/ UNCHANGED toServer
      /\ UNCHANGED <<controlupdatetime, oldpolltime, playstate, serverVars>>
  BY DEF AddServerPacket, Arrived, Expected, WriteToServer
<1>2. /\ LastCommandTime \in [Player -> Int] /\ lct \in Int /\ status \in [Slot -> Status]
      /\ ServerCommandStatus \in [Player -> [Slot -> Status]]
      /\ toClient = [q \in Player |-> toClient[q]] /\ toServer = [q \in Player |-> toServer[q]]
  BY DEF IInv, TypeOK, QueuesOK
<1>3. /\ toClient[p] \in Seq(DownPacket) /\ Timed(DownPacket)
      /\ 1 \in DOMAIN toClient[p] /\ m = toClient[p][1] /\ LastTime(m) = t /\ t \in Int /\ lct < t
  <2>1. /\ toClient[p] \in Seq(DownPacket) /\ Timed(DownPacket)
        /\ 1 \in DOMAIN toClient[p] /\ m = toClient[p][1]
    BY <1>1, DownQueue, TailAt
  <2>2. LastTime(m) = t /\ LastTime(m) \in Int
    BY <1>1, <2>1, DownQueue DEF LastTime
  <2>3. lct < LastTime(m)
    BY <1>1, <2>1 DEF OrderInv, DownInOrder, InOrder
  <2> QED
    BY <2>1, <2>2, <2>3
<1>4. ClientFresh(p)'
  <2>1. /\ toClient'[p] = Tail(toClient[p]) /\ LastCommandTime'[p] = t
        /\ ServerCommandStatus'[p] = new
    BY <1>1, <1>2
  <2>2. /\ Unclosed(toClient[p], lct, controlupdatetime[p]) /\ Recent(toClient[p], lct, InGame(p))
        /\ controlupdatetime[p] - oldpolltime[p] <= MaxLead /\ playstate[p] # "fatal"
    BY DEF FreshInv, ClientFresh
  <2>3. Unclosed(Tail(toClient[p]), t, controlupdatetime[p])
    BY <1>1, <1>3, <2>2, UnclosedRead
  <2>4. Recent(Tail(toClient[p]), t, InGame(p))
    <3>1. InGame(p) \in BOOLEAN
      BY DEF InGame
    <3> QED
      BY <1>1, <1>2, <1>3, <2>2, <3>1, RecentRead
  <2>5. ASSUME InGame(p) \/ Holds(Tail(toClient[p]), {"request"})
        PROVE  oldpolltime[p] <= t + 1 /\ StatusOK(new, oldpolltime[p], t)
    <3>1. Followed(p) /\ t < oldpolltime[p] + MAXCMDS
      BY <1>1, <1>3, <2>5, DownHead
    <3>2. /\ oldpolltime[p] <= lct + 1 /\ StatusOK(status, oldpolltime[p], lct)
          /\ oldpolltime[p] \in Int
      BY <3>1, Chain DEF FreshInv, ClientFresh
    <3>3. marked = status \/ marked = MarkFixing(status, lct + 1, t - (lct + 1))
      OBVIOUS
    <3> HIDE DEF marked, t, lct, status
    <3>4. StatusOK(new, oldpolltime[p], t)
      BY <1>2, <1>3, <3>1, <3>2, <3>3, StatusArrives
    <3> QED
      BY <1>2, <1>3, <3>2, <3>4
  <2> HIDE DEF new
  <2> QED
    BY <1>1, <2>1, <2>2, <2>3, <2>4, <2>5 DEF ClientFresh, Followed, InGame, serverVars
<1>5. ASSUME InGame(p) PROVE Recent(toServer'[p], ServerLastCommandTime[p], TRUE)
  <2>1. Recent(toServer[p], ServerLastCommandTime[p], TRUE)
    BY <1>5 DEF FreshInv, ServerFresh
  <2>2. /\ Request(lct + 1, gap) \in UpPacket(p)
        /\ Request(lct + 1, gap).time = lct + 1 /\ lct + 1 \in Int
    <3>1. lct + 1 \in Int /\ gap \in Int
      BY <1>2, <1>3
    <3> HIDE DEF lct, gap
    <3>2. Request(lct + 1, gap) \in RequestPacket
      BY <3>1, RequestIsPacket
    <3> QED
      BY <3>1, <3>2 DEF UpPacket, Request
  <2>3. oldpolltime[p] <= lct + 1
    BY <1>5, Chain
  <2>4. Recent(Queued(toServer[p], Request(lct + 1, gap)), ServerLastCommandTime[p], TRUE)
    <3> HIDE DEF lct, gap
    <3> QED
      BY <1>5, <2>2, <2>3, UpRecent
  <2> QED
    BY <1>1, <1>2, <2>1, <2>4
<1> HIDE DEF new, t
<1> QED
  BY <1>1, <1>2, <1>4, <1>5, ClientStep

LEMMA ClientFixupPacketFresh ==
    ASSUME NoOverrun, IInv, OrderInv, FreshInv, NEW p \in Player, ClientFixupPacket(p)
    PROVE  FreshInv'
<1> DEFINE fix == Head(toClient[p])
           lct == LastCommandTime[p]
           t == FixedTime(lct, fix)
           status == ServerCommandStatus[p]
           new == FixedStatus(status, fix)
<1>1. /\ toClient[p] # <<>> /\ fix.type = "fixup"
      /\ toClient' = [toClient EXCEPT ![p] = Tail(@)]
      /\ LastCommandTime' = [LastCommandTime EXCEPT ![p] = t]
      /\ ServerCommandStatus' = [ServerCommandStatus EXCEPT ![p] = new]
      /\ UNCHANGED <<controlupdatetime, oldpolltime, playstate, serverVars, toServer>>
  BY DEF ClientFixupPacket, Arrived
<1>2. /\ LastCommandTime \in [Player -> Int] /\ lct \in Int /\ status \in [Slot -> Status]
      /\ ServerCommandStatus \in [Player -> [Slot -> Status]]
      /\ toClient = [q \in Player |-> toClient[q]]
  BY DEF IInv, TypeOK, QueuesOK
<1>3. /\ toClient[p] \in Seq(DownPacket) /\ Timed(DownPacket)
      /\ 1 \in DOMAIN toClient[p] /\ fix = toClient[p][1] /\ fix \in DownPacket
  BY <1>1, DownQueue, TailAt
<1>4. /\ fix.time \in Int /\ fix.subs \in Seq(MadePacket) /\ Consecutive(fix)
      /\ t \in Int /\ lct <= t /\ (t = lct \/ t = LastTime(fix))
  <2>1. fix.time \in Int /\ fix.subs \in Seq(MadePacket)
    BY <1>1, <1>3, DownFields
  <2>2. Consecutive(fix)
    BY <1>1, <1>3 DEF OrderInv, DownInOrder, InOrder
  <2> QED
    BY <1>1, <1>2, <2>1, <2>2, FixedTimeMoves
<1> HIDE DEF t, new
<1>5. ClientFresh(p)'
  <2>1. /\ toClient'[p] = Tail(toClient[p]) /\ LastCommandTime'[p] = t
        /\ ServerCommandStatus'[p] = new
    BY <1>1, <1>2
  <2>2. /\ Unclosed(toClient[p], lct, controlupdatetime[p]) /\ Recent(toClient[p], lct, InGame(p))
        /\ controlupdatetime[p] - oldpolltime[p] <= MaxLead /\ playstate[p] # "fatal"
    BY DEF FreshInv, ClientFresh
  <2>3. Unclosed(Tail(toClient[p]), t, controlupdatetime[p])
    BY <1>1, <1>3, <1>4, <2>2, UnclosedRead
  <2>4. Recent(Tail(toClient[p]), t, InGame(p))
    <3>1. InGame(p) \in BOOLEAN
      BY DEF InGame
    <3> QED
      BY <1>1, <1>2, <1>3, <1>4, <2>2, <3>1, RecentRead
  <2>5. ASSUME InGame(p) \/ Holds(Tail(toClient[p]), {"request"})
        PROVE  oldpolltime[p] <= t + 1 /\ StatusOK(new, oldpolltime[p], t)
    <3>1. /\ Followed(p) /\ LastTime(fix) < oldpolltime[p] + MAXCMDS
          /\ lct + 1 < fix.time + MAXCMDS
      BY <1>1, <2>5, DownHead
    <3>2. /\ oldpolltime[p] <= lct + 1 /\ StatusOK(status, oldpolltime[p], lct)
          /\ oldpolltime[p] \in Int
      BY <3>1, Chain DEF FreshInv, ClientFresh
    <3> HIDE DEF lct, status, fix
    <3>3. StatusOK(new, oldpolltime[p], t)
      BY <1>1, <1>2, <1>4, <3>1, <3>2, StatusFixed DEF new, t
    <3> QED
      BY <1>2, <1>4, <3>2, <3>3
  <2> QED
    BY <1>1, <2>1, <2>2, <2>3, <2>4, <2>5 DEF ClientFresh, Followed, InGame, serverVars
<1>6. ASSUME InGame(p) PROVE Recent(toServer'[p], ServerLastCommandTime[p], TRUE)
  BY <1>1, <1>6 DEF FreshInv, ServerFresh
<1> QED
  BY <1>1, <1>2, <1>5, <1>6, ClientStep

LEMMA ResendLocalPacketsFresh ==
    ASSUME NoOverrun, IInv, OrderInv, FreshInv, NEW p \in Player, ResendLocalPackets(p)
    PROVE  FreshInv'
<1> DEFINE request == Head(toClient[p])
           t == request.time
           c == controlupdatetime[p]
           lct == LastCommandTime[p]
           held == LocalCmds[p][CommandAddress(t)].time = t
           fix == Fixup(LocalCmds[p], t, request.numpackets)
<1>1. /\ toClient[p] # <<>> /\ request.type = "request"
      /\ toClient' = [toClient EXCEPT ![p] = Tail(@)]
      /\ toServer' = [toServer EXCEPT ![p] = Queued(@, fix)] \/ UNCHANGED toServer
      /\ playstate' = [playstate EXCEPT ![p] = IF t < c /\ ~held THEN "fatal" ELSE @]
      /\ UNCHANGED <<controlupdatetime, oldpolltime, LastCommandTime, ServerCommandStatus, serverVars>>
  BY DEF ResendLocalPackets, Arrived, WriteToServer
<1>2. /\ lct \in Int /\ c \in Nat
      /\ playstate \in [Player -> {"playing", "battledone", "left", "quit", "fatal"}]
      /\ toClient = [q \in Player |-> toClient[q]] /\ toServer = [q \in Player |-> toServer[q]]
  BY DEF IInv, TypeOK, QueuesOK
<1>3. /\ toClient[p] \in Seq(DownPacket) /\ Timed(DownPacket)
      /\ 1 \in DOMAIN toClient[p] /\ request = toClient[p][1] /\ request \in DownPacket
  BY <1>1, DownQueue, TailAt
<1>4. t \in Nat /\ request.numpackets \in Nat
  BY <1>1, <1>3, DownFields DEF OrderInv, DownInOrder, InOrder, Answerable
<1>5. /\ Unclosed(toClient[p], lct, c) /\ Recent(toClient[p], lct, InGame(p))
      /\ c - oldpolltime[p] <= MaxLead /\ playstate[p] # "fatal"
  BY DEF FreshInv, ClientFresh
<1>6. /\ oldpolltime[p] <= lct + 1 /\ oldpolltime[p] \in Nat /\ oldpolltime[p] <= t
      /\ StatusOK(ServerCommandStatus[p], oldpolltime[p], lct)
  <2>1. Followed(p)
    BY <1>1, <1>3 DEF Followed, Holds
  <2>2. lct < t
    BY <1>1, <1>3, <1>5 DEF Unclosed
  <2>3. /\ oldpolltime[p] <= lct + 1 /\ oldpolltime[p] \in Nat
        /\ StatusOK(ServerCommandStatus[p], oldpolltime[p], lct)
    BY <2>1, Chain DEF FreshInv, ClientFresh
  <2> QED
    BY <1>2, <1>4, <2>2, <2>3
<1> HIDE DEF request
<1>7. t < c => held
  <2> SUFFICES ASSUME t < c PROVE held
    OBVIOUS
  <2>1. RingHolds(LocalCmds[p], c)
    BY DEF OrderInv
  <2>2. c - MAXCMDS <= t
    BY <1>2, <1>4, <1>6, Chain
  <2> QED
    BY <1>4, <2>1, <2>2 DEF RingHolds
<1> HIDE DEF held, fix
<1>8. ClientFresh(p)'
  <2>1. /\ toClient'[p] = Tail(toClient[p]) /\ playstate'[p] = playstate[p]
    BY <1>1, <1>2, <1>7
  <2>2. Unclosed(Tail(toClient[p]), lct, c)
    BY <1>1, <1>3, <1>5, UnclosedRead
  <2>3. Recent(Tail(toClient[p]), lct, InGame(p))
    <3>1. InGame(p) \in BOOLEAN
      BY DEF InGame
    <3> QED
      BY <1>1, <1>2, <1>3, <1>5, <3>1, RecentRead
  <2> QED
    BY <1>1, <1>5, <1>6, <2>1, <2>2, <2>3 DEF ClientFresh, InGame, serverVars
<1>9. ASSUME InGame(p) PROVE Recent(toServer'[p], ServerLastCommandTime[p], TRUE)
  <2>1. Recent(toServer[p], ServerLastCommandTime[p], TRUE)
    BY <1>9 DEF FreshInv, ServerFresh
  <2>2. fix \in UpPacket(p) /\ fix.time = t
    <3>1. LocalCmds[p] \in [Slot -> Made(p)] /\ t \in Int
      BY <1>4 DEF IInv, TypeOK, ClientRingsOK
    <3> HIDE DEF t
    <3> QED
      BY <1>4, <3>1, FixupSubs DEF fix, Fixup, UpPacket
  <2>3. Recent(Queued(toServer[p], fix), ServerLastCommandTime[p], TRUE)
    <3>1. fix.time \in Int /\ oldpolltime[p] <= fix.time
      BY <1>4, <1>6, <2>2
    <3> QED
      BY <1>9, <2>2, <3>1, UpRecent
  <2> QED
    BY <1>1, <1>2, <2>1, <2>3
<1> QED
  BY <1>1, <1>2, <1>8, <1>9, ClientStep

\* A client asks for a packet that is not beyond the next.
LEMMA RequestFromServerFresh ==
    ASSUME NoOverrun, IInv, OrderInv, FreshInv, NEW p \in Player, NEW t \in Int,
           RequestFromServer(p, t, 1), oldpolltime[p] <= t,
           \/ UNCHANGED toClient
           \/ toClient[p] # <<>> /\ toClient' = [toClient EXCEPT ![p] = Tail(@)],
           InGame(p) \/ Holds(toClient'[p], {"request"}) =>
               t <= LastCommandTime[p] + 1 /\ t < oldpolltime[p] + MAXCMDS,
           UNCHANGED <<controlupdatetime, oldpolltime, LastCommandTime, playstate, serverVars>>
    PROVE  FreshInv'
<1> DEFINE lct == LastCommandTime[p]
           status == ServerCommandStatus[p]
           m == Request(t, 1)
<1>1. /\ ServerCommandStatus' = [ServerCommandStatus EXCEPT ![p] = MarkFixing(status, t, 1)]
      /\ toServer' = [toServer EXCEPT ![p] = Queued(@, m)]
  BY DEF RequestFromServer, WriteToServer
<1>2. /\ lct \in Int /\ status \in [Slot -> Status] /\ oldpolltime[p] \in Int
      /\ ServerCommandStatus \in [Player -> [Slot -> Status]]
      /\ toClient = [q \in Player |-> toClient[q]] /\ toServer = [q \in Player |-> toServer[q]]
  BY DEF IInv, TypeOK, QueuesOK
<1>3. toClient[p] \in Seq(DownPacket) /\ Timed(DownPacket)
  BY DownQueue
<1>4. /\ Unclosed(toClient[p], lct, controlupdatetime[p]) /\ Recent(toClient[p], lct, InGame(p))
      /\ controlupdatetime[p] - oldpolltime[p] <= MaxLead /\ playstate[p] # "fatal"
      /\ Followed(p) => oldpolltime[p] <= lct + 1 /\ StatusOK(status, oldpolltime[p], lct)
  BY DEF FreshInv, ClientFresh
<1>5. toClient'[p] = toClient[p] \/ (toClient[p] # <<>> /\ toClient'[p] = Tail(toClient[p]))
  <2>1. CASE UNCHANGED toClient
    BY <2>1
  <2>2. CASE toClient[p] # <<>> /\ toClient' = [toClient EXCEPT ![p] = Tail(@)]
    BY <1>2, <2>2
  <2> QED
    BY <2>1, <2>2
<1>6. Unclosed(toClient'[p], lct, controlupdatetime[p])
  BY <1>3, <1>4, <1>5, UnclosedRead
<1>7. Recent(toClient'[p], lct, InGame(p))
  <2>1. InGame(p) \in BOOLEAN
    BY DEF InGame
  <2>2. CASE toClient'[p] = toClient[p]
    BY <1>4, <2>2
  <2>3. CASE toClient[p] # <<>> /\ toClient'[p] = Tail(toClient[p])
    <3>1. Recent(Tail(toClient[p]), lct, InGame(p))
      <4> HIDE DEF lct
      <4> QED
        BY <1>2, <1>3, <1>4, <2>1, <2>3, RecentRead
    <3> QED
      BY <2>3, <3>1
  <2> QED
    BY <1>5, <2>2, <2>3
<1>8. ASSUME InGame(p) \/ Holds(toClient'[p], {"request"})
      PROVE  oldpolltime[p] <= lct + 1 /\ StatusOK(MarkFixing(status, t, 1), oldpolltime[p], lct)
  <2>1. Followed(p)
    <3>1. CASE InGame(p)
      BY <3>1 DEF Followed
    <3>2. CASE Holds(toClient'[p], {"request"})
      BY <1>3, <1>5, <3>2, HoldsRead DEF Followed, Holds
    <3> QED
      BY <1>8, <3>1, <3>2
  <2> HIDE DEF lct, status
  <2>2. StatusOK(MarkFixing(status, t, 1), oldpolltime[p], lct)
    BY <1>2, <1>4, <1>8, <2>1, StatusMarked DEF lct
  <2> QED
    BY <1>4, <2>1, <2>2
<1>9. ClientFresh(p)'
  <2>1. ServerCommandStatus'[p] = MarkFixing(status, t, 1)
    BY <1>1, <1>2
  <2> QED
    BY <1>4, <1>6, <1>7, <1>8, <2>1 DEF ClientFresh, Followed, InGame, serverVars
<1>10. ASSUME InGame(p) PROVE Recent(toServer'[p], ServerLastCommandTime[p], TRUE)
  <2>1. m \in UpPacket(p) /\ m.time = t
    BY RequestIsPacket DEF UpPacket, Request
  <2> HIDE DEF m
  <2>2. Recent(Queued(toServer[p], m), ServerLastCommandTime[p], TRUE)
    BY <1>10, <2>1, UpRecent
  <2> QED
    BY <1>1, <1>2, <2>2
<1> QED
  BY <1>1, <1>2, <1>9, <1>10, ClientStep

LEMMA ClientBadPacketFresh ==
    ASSUME NoOverrun, IInv, OrderInv, FreshInv, NEW p \in Player, ClientBadPacket(p)
    PROVE  FreshInv'
<1> DEFINE t == LastCommandTime[p] + 1
<1>1. /\ toClient[p] # <<>> /\ toClient' = [toClient EXCEPT ![p] = Tail(@)]
      /\ RequestFromServer(p, t, 1)
      /\ UNCHANGED <<controlupdatetime, oldpolltime, LastCommandTime, playstate, serverVars>>
  BY DEF ClientBadPacket, Expected
<1>2. toClient'[p] = Tail(toClient[p]) /\ t \in Int
  BY <1>1 DEF IInv, TypeOK, QueuesOK
<1>3. ASSUME InGame(p) \/ Holds(toClient'[p], {"request"})
      PROVE  oldpolltime[p] <= t /\ t < oldpolltime[p] + MAXCMDS
  <2>1. Followed(p) /\ t < oldpolltime[p] + MAXCMDS
    BY <1>1, <1>2, <1>3, DownHead
  <2> QED
    BY <2>1 DEF FreshInv, ClientFresh
<1>4. CASE InGame(p) \/ Holds(toClient'[p], {"request"})
  <2> HIDE DEF t
  <2>1. t <= LastCommandTime[p] + 1
    BY <1>2 DEF t
  <2> QED
    BY <1>1, <1>2, <1>3, <1>4, <2>1, RequestFromServerFresh
<1>5. CASE ~ (InGame(p) \/ Holds(toClient'[p], {"request"}))
  <2>1. /\ \A q \in Player : q # p => /\ toServer'[q] = toServer[q] /\ toClient'[q] = toClient[q]
                                      /\ ServerCommandStatus'[q] = ServerCommandStatus[q]
    BY <1>1 DEF RequestFromServer, WriteToServer, IInv, TypeOK, QueuesOK
  <2>2. /\ Unclosed(toClient[p], LastCommandTime[p], controlupdatetime[p])
        /\ Recent(toClient[p], LastCommandTime[p], InGame(p))
        /\ controlupdatetime[p] - oldpolltime[p] <= MaxLead /\ playstate[p] # "fatal"
    BY DEF FreshInv, ClientFresh
  <2>3. Unclosed(Tail(toClient[p]), LastCommandTime[p], controlupdatetime[p])
    BY <1>1, <2>2, DownQueue, UnclosedRead
  <2>4. Recent(Tail(toClient[p]), LastCommandTime[p], InGame(p))
    <3>1. InGame(p) \in BOOLEAN /\ LastCommandTime[p] \in Int
      BY DEF InGame, IInv, TypeOK
    <3> QED
      BY <1>1, <2>2, <3>1, DownQueue, RecentRead
  <2>5. ClientFresh(p)'
    BY <1>1, <1>2, <1>5, <2>2, <2>3, <2>4 DEF ClientFresh, Followed, InGame, serverVars
  <2> QED
    BY <1>1, <1>5, <2>1, <2>5, ClientStep
<1> QED
  BY <1>4, <1>5

LEMMA ClientTimeoutFresh ==
    ASSUME NoOverrun, IInv, OrderInv, FreshInv, NEW p \in Player, ClientTimeout(p)
    PROVE  FreshInv'
<1> DEFINE t == oldpolltime[p]
<1>1. /\ RequestFromServer(p, t, 1)
      /\ UNCHANGED <<controlupdatetime, oldpolltime, LastCommandTime, playstate, serverVars, toClient>>
  BY DEF ClientTimeout
<1>2. t \in Int /\ t <= t /\ t < oldpolltime[p] + MAXCMDS
  BY Chain
<1>3. InGame(p) \/ Holds(toClient'[p], {"request"}) => t <= LastCommandTime[p] + 1
  BY <1>1 DEF FreshInv, ClientFresh, Followed
<1> QED
  BY <1>1, <1>2, <1>3, RequestFromServerFresh

LEMMA SimulateTicFresh ==
    ASSUME NoOverrun, IInv, OrderInv, FreshInv, NEW p \in Player, SimulateTic(p)
    PROVE  FreshInv'
<1> DEFINE from == oldpolltime[p]
           lct == LastCommandTime[p]
           status == ServerCommandStatus[p]
<1>1. /\ status[CommandAddress(from)] = "ready"
      /\ \E s \in {playstate[p], "quit", "battledone"} : playstate' = [playstate EXCEPT ![p] = s]
      /\ ServerCommandStatus' = [ServerCommandStatus EXCEPT ![p] = NotArrived(status, from)]
      /\ oldpolltime' = [oldpolltime EXCEPT ![p] = from + 1]
      /\ UNCHANGED <<controlupdatetime, LastCommandTime, serverVars, toServer, toClient>>
  BY DEF SimulateTic, TicReady
<1>2. /\ MAXCMDS \in Nat \ {0} /\ from \in Nat /\ lct \in Int /\ controlupdatetime[p] \in Nat
      /\ MaxLead \in Nat
      /\ status \in [Slot -> Status] /\ ServerCommandStatus \in [Player -> [Slot -> Status]]
      /\ oldpolltime \in [Player -> Nat]
      /\ playstate \in [Player -> {"playing", "battledone", "left", "quit", "fatal"}]
  BY RottNetAssumption DEF IInv, TypeOK
<1>3. /\ oldpolltime'[p] = from + 1 /\ ServerCommandStatus'[p] = NotArrived(status, from)
      /\ playstate'[p] \in {playstate[p], "quit", "battledone"}
      /\ \A q \in Player : q # p => /\ oldpolltime'[q] = oldpolltime[q]
                                    /\ ServerCommandStatus'[q] = ServerCommandStatus[q]
                                    /\ playstate'[q] = playstate[q]
  BY <1>1, <1>2
<1>4. /\ Unclosed(toClient[p], lct, controlupdatetime[p]) /\ Recent(toClient[p], lct, InGame(p))
      /\ controlupdatetime[p] - from <= MaxLead /\ playstate[p] # "fatal"
      /\ Followed(p) => StatusOK(status, from, lct)
  BY DEF FreshInv, ClientFresh
<1>5. ASSUME Followed(p)
      PROVE  from + 1 <= lct + 1 /\ StatusOK(NotArrived(status, from), from + 1, lct)
  <2>1. from \in Window(from)
    BY <1>2 DEF Window
  <2>2. from <= lct
    BY <1>1, <1>4, <1>5, <2>1 DEF StatusOK
  <2>3. from \in Int
    BY <1>2
  <2> HIDE DEF from, lct, status
  <2>4. StatusOK(NotArrived(status, from), from + 1, lct)
    BY <1>2, <1>4, <1>5, <2>3, StatusMovesOn
  <2> QED
    BY <1>2, <2>2, <2>4
<1>6. ClientFresh(p)'
  <2>1. controlupdatetime[p] - (from + 1) <= MaxLead /\ playstate'[p] # "fatal"
    BY <1>2, <1>3, <1>4
  <2> QED
    BY <1>1, <1>3, <1>4, <1>5, <2>1 DEF ClientFresh, Followed, InGame, serverVars
<1>7. InGame(p) => Recent(toServer'[p], ServerLastCommandTime[p], TRUE)
  BY <1>1 DEF FreshInv, ServerFresh
<1> QED
  BY <1>1, <1>3, <1>6, <1>7, ClientStep

LEMMA LeaveGameFresh ==
    ASSUME NoOverrun, IInv, OrderInv, FreshInv, NEW p \in Player, LeaveGame(p)
    PROVE  FreshInv'
<1>1. /\ playstate' = [playstate EXCEPT ![p] = "left"]
      /\ playstate \in [Player -> {"playing", "battledone", "left", "quit", "fatal"}]
      /\ UNCHANGED <<controlupdatetime, oldpolltime, LastCommandTime, ServerCommandStatus,
                     serverVars, toServer, toClient>>
  BY DEF LeaveGame, IInv, TypeOK
<1>2. playstate'[p] # "fatal" /\ \A q \in Player : q # p => playstate'[q] = playstate[q]
  BY <1>1
<1>3. ClientFresh(p)'
  BY <1>1, <1>2 DEF FreshInv, ClientFresh, Followed, InGame, serverVars
<1>4. InGame(p) => Recent(toServer'[p], ServerLastCommandTime[p], TRUE)
  BY <1>1 DEF FreshInv, ServerFresh
<1> QED
  BY <1>1, <1>2, <1>3, <1>4, ClientStep

-----------------------------------------------------------------------------
(* The steps of the server                                                 *)

\* A step with which the server reads a queue concerns that player, and what
\* it has seen of a command stays there.
LEMMA ServerStep ==
    ASSUME FreshInv, NEW p \in Player,
           UNCHANGED <<clientVars, serverupdatetime, ServerPlayerStatus, clientsready>>,
           \A q \in Player : q # p =>
               /\ toServer'[q] = toServer[q] /\ toClient'[q] = toClient[q]
               /\ ServerLastCommandTime'[q] = ServerLastCommandTime[q]
               /\ ClientCommandStatus'[q] = ClientCommandStatus[q]
               /\ ClientCmds'[q] = ClientCmds[q],
           ClientFresh(p)', ServerFresh(p)',
           InGame(p) /\ Collecting(p) = "ready" => Collecting(p)' = "ready"
    PROVE  FreshInv'
<1>1. /\ UNCHANGED <<controlupdatetime, oldpolltime, playstate, LastCommandTime, ServerCommandStatus>>
  BY DEF clientVars
<1>2. CheckedFresh'
  <2> SUFFICES ASSUME clientsready, NEW q \in Player, InGame(q) PROVE Collecting(q)' = "ready"
    BY DEF CheckedFresh, InGame
  <2>1. Collecting(q) = "ready"
    BY DEF FreshInv, CheckedFresh
  <2>2. CASE q # p
    BY <2>1, <2>2 DEF Collecting
  <2> QED
    BY <2>1, <2>2
<1>3. ASSUME NEW q \in Player PROVE ClientFresh(q)'
  BY <1>1 DEF FreshInv, ClientFresh, Followed, InGame
<1>4. ASSUME NEW q \in Player PROVE ServerFresh(q)'
  <2>1. CASE q # p
    BY <2>1 DEF FreshInv, ServerFresh, InGame
  <2> QED
    BY <2>1
<1> QED
  BY <1>2, <1>3, <1>4 DEF FreshInv

\* The client's side of such a step: nothing is written, a request for a tic
\* that is not closed, or a fixup that is no ring behind.
LEMMA ClientSide ==
    ASSUME NoOverrun, IInv, OrderInv, FreshInv, NEW p \in Player,
           UNCHANGED <<clientVars, ServerPlayerStatus>>,
           \/ toClient'[p] = toClient[p]
           \/ /\ InGame(p)
              /\ \E t \in Int, n \in Int : /\ serverupdatetime <= t /\ t <= controlupdatetime[p]
                                           /\ toClient'[p] = Queued(toClient[p], Request(t, n))
           \/ \E m \in DownPacket :
                 /\ toClient'[p] = Queued(toClient[p], m) /\ m.type = "fixup"
                 /\ InGame(p) => serverupdatetime < m.time + MAXCMDS
    PROVE  ClientFresh(p)'
<1>1. /\ UNCHANGED <<controlupdatetime, oldpolltime, playstate, LastCommandTime, ServerCommandStatus>>
  BY DEF clientVars
<1>2. /\ Unclosed(toClient[p], LastCommandTime[p], controlupdatetime[p])
      /\ Recent(toClient[p], LastCommandTime[p], InGame(p))
      /\ controlupdatetime[p] - oldpolltime[p] <= MaxLead /\ playstate[p] # "fatal"
      /\ Followed(p) =>
            /\ oldpolltime[p] <= LastCommandTime[p] + 1
            /\ StatusOK(ServerCommandStatus[p], oldpolltime[p], LastCommandTime[p])
  BY DEF FreshInv, ClientFresh
<1>3. /\ toClient[p] \in Seq(DownPacket)
      /\ \A i \in DOMAIN toClient[p] : /\ LastTime(toClient[p][i]) \in Int
                                       /\ LastTime(toClient[p][i]) < serverupdatetime
  BY DownQueue
<1>4. CASE toClient'[p] = toClient[p]
  BY <1>1, <1>2, <1>4 DEF ClientFresh, Followed, InGame
<1>5. ASSUME InGame(p), NEW t \in Int, NEW n \in Int, serverupdatetime <= t,
             t <= controlupdatetime[p], toClient'[p] = Queued(toClient[p], Request(t, n))
      PROVE  ClientFresh(p)'
  <2>1. /\ Recent(toClient'[p], LastCommandTime[p], InGame(p))
        /\ Unclosed(toClient'[p], LastCommandTime[p], controlupdatetime[p])
    <3>1. InGame(p) = TRUE
      BY <1>5 DEF InGame
    <3> QED
      BY <1>5, <3>1, DownRequested
  <2>2. Followed(p)
    BY <1>5 DEF Followed
  <2> QED
    BY <1>1, <1>2, <2>1, <2>2 DEF ClientFresh, InGame
<1>6. ASSUME NEW m \in DownPacket, toClient'[p] = Queued(toClient[p], m), m.type = "fixup",
             InGame(p) => serverupdatetime < m.time + MAXCMDS
      PROVE  ClientFresh(p)'
  <2>1. InGame(p) \in BOOLEAN /\ m.time \in Int
    BY <1>6, DownFields DEF InGame
  <2>2. ASSUME InGame(p)
        PROVE  /\ LastCommandTime[p] + 1 < m.time + MAXCMDS
               /\ \A i \in DOMAIN toClient[p] : LastTime(toClient[p][i]) + 1 < m.time + MAXCMDS
    <3>1. /\ serverupdatetime < m.time + MAXCMDS /\ LastCommandTime[p] < serverupdatetime
          /\ LastCommandTime[p] \in Int /\ serverupdatetime \in Int /\ MAXCMDS \in Int
      BY <1>6, <2>2, Chain
    <3> QED
      BY <1>3, <2>1, <3>1
  <2>3. Recent(toClient'[p], LastCommandTime[p], InGame(p))
    BY <1>2, <1>3, <1>6, <2>1, <2>2, RecentWrite
  <2>4. Unclosed(toClient'[p], LastCommandTime[p], controlupdatetime[p])
    BY <1>2, <1>3, <1>6, UnclosedWrite
  <2>5. InGame(p) \/ Holds(toClient'[p], {"request"}) => Followed(p)
    BY <1>3, <1>6, HoldsWrite DEF Followed
  <2> QED
    BY <1>1, <1>2, <2>3, <2>4, <2>5 DEF ClientFresh, Followed, InGame
<1> QED
  BY <1>4, <1>5, <1>6

LEMMA AddPacketFresh ==
    ASSUME NoOverrun, IInv, OrderInv, FreshInv, NEW p \in Player, AddPacket(p)
    PROVE  FreshInv'
<1> DEFINE m == Head(toServer[p])
           t == m.cmd.time
           from == serverupdatetime
           lct == ServerLastCommandTime[p]
           gap == t - (lct + 1)
           status == ClientCommandStatus[p]
           ask == MustRequest(status, lct + 1, gap)
           marked == IF ask THEN MarkFixing(status, lct + 1, gap) ELSE status
           new == [marked EXCEPT ![CommandAddress(t)] = "ready"]
           ring == [ClientCmds[p] EXCEPT ![CommandAddress(t)] = m.cmd]
<1>1. /\ toServer[p] # <<>> /\ m.type = "command" /\ InGame(p)
      /\ toServer' = [toServer EXCEPT ![p] = Tail(@)]
      /\ ServerLastCommandTime' = [ServerLastCommandTime EXCEPT ![p] = t]
      /\ ClientCommandStatus' = [ClientCommandStatus EXCEPT ![p] = new]
      /\ ClientCmds' = [ClientCmds EXCEPT ![p][CommandAddress(t)] = m.cmd]
      /\ WriteToClient(p, Request(lct + 1, gap)) \/ UNCHANGED toClient
      /\ UNCHANGED <<clientVars, serverupdatetime, ServerPlayerStatus, clientsready>>
  BY DEF AddPacket, Received, Expected
<1>2. /\ ServerLastCommandTime \in [Player -> Int] /\ lct \in Int /\ status \in [Slot -> Status]
      /\ ClientCommandStatus \in [Player -> [Slot -> Status]]
      /\ ClientCmds \in [Player -> [Slot -> Command]] /\ ClientCmds[p] \in [Slot -> Command]
      /\ toClient = [q \in Player |-> toClient[q]] /\ toServer = [q \in Player |-> toServer[q]]
  BY DEF IInv, TypeOK, QueuesOK
<1>3. /\ toServer[p] \in Seq(UpPacket(p)) /\ Timed(UpPacket(p))
      /\ LastTime(m) = t /\ t \in Int /\ lct < t /\ t < controlupdatetime[p]
  <2>1. /\ toServer[p] \in Seq(UpPacket(p)) /\ Timed(UpPacket(p))
        /\ 1 \in DOMAIN toServer[p] /\ m = toServer[p][1]
    BY <1>1, UpQueue, TailAt
  <2>2. LastTime(m) = t /\ LastTime(m) \in Int /\ LastTime(m) < controlupdatetime[p]
    BY <1>1, <2>1, UpQueue DEF LastTime
  <2>3. lct < LastTime(m)
    BY <1>1, <2>1 DEF OrderInv, UpInOrder, InOrder
  <2> QED
    BY <2>1, <2>2, <2>3
<1>4. /\ from \in Nat /\ from \in Int /\ from <= lct + 1 /\ t < from + MAXCMDS
      /\ lct + 1 <= controlupdatetime[p]
  BY <1>1, <1>3, Chain
<1>5. /\ Recent(toServer[p], lct, TRUE) /\ StatusOK(status, from, lct)
      /\ ReadyOK(status, ClientCmds[p], from)
  BY <1>1 DEF FreshInv, ServerFresh
<1>6. /\ toServer'[p] = Tail(toServer[p]) /\ ServerLastCommandTime'[p] = t
      /\ ClientCommandStatus'[p] = new /\ ClientCmds'[p] = ring
      /\ \A q \in Player : q # p =>
            /\ toServer'[q] = toServer[q] /\ ServerLastCommandTime'[q] = ServerLastCommandTime[q]
            /\ ClientCommandStatus'[q] = ClientCommandStatus[q] /\ ClientCmds'[q] = ClientCmds[q]
  BY <1>1, <1>2
<1>7. marked = status \/ marked = MarkFixing(status, lct + 1, t - (lct + 1))
  OBVIOUS
<1>8. /\ StatusOK(new, from, t)
      /\ status[CommandAddress(from)] = "ready" => new[CommandAddress(from)] = "ready"
      /\ \A u \in Window(from) : new[CommandAddress(u)] = "ready" /\ u # t =>
            /\ status[CommandAddress(u)] = "ready"
            /\ CommandAddress(u) # CommandAddress(t)
  <2> HIDE DEF marked, t, lct, status, from
  <2> QED
    BY <1>2, <1>3, <1>4, <1>5, <1>7, StatusArrives
<1> HIDE DEF new
<1>9. ReadyOK(new, ring, from)
  <2> SUFFICES ASSUME NEW u \in Window(from), new[CommandAddress(u)] = "ready"
               PROVE  ring[CommandAddress(u)].time = u
    BY DEF ReadyOK
  <2>1. u \in Int /\ CommandAddress(u) \in Slot
    BY <1>4, AddressInRing DEF Window
  <2>2. CASE u = t
    BY <1>2, <2>1, <2>2
  <2>3. CASE u # t
    BY <1>2, <1>5, <1>8, <2>1, <2>3 DEF ReadyOK
  <2> QED
    BY <2>2, <2>3
<1>10. Recent(Tail(toServer[p]), t, TRUE)
  BY <1>1, <1>2, <1>3, <1>5, RecentRead
<1> HIDE DEF ring
<1>11. ServerFresh(p)'
  <2>1. from <= t + 1
    BY <1>2, <1>3, <1>4
  <2> QED
    BY <1>1, <1>6, <1>8, <1>9, <1>10, <2>1 DEF ServerFresh, InGame
<1>12. ClientFresh(p)'
  <2>1. CASE UNCHANGED toClient
    BY <1>1, <2>1, ClientSide
  <2>2. CASE WriteToClient(p, Request(lct + 1, gap))
    <3>1. toClient'[p] = toClient[p] \/ toClient'[p] = Queued(toClient[p], Request(lct + 1, gap))
      BY <1>2, <2>2 DEF WriteToClient
    <3>2. lct + 1 \in Int /\ gap \in Int
      BY <1>2, <1>3
    <3> HIDE DEF lct, gap
    <3> QED
      BY <1>1, <1>4, <3>1, <3>2, ClientSide
  <2> QED
    BY <1>1, <2>1, <2>2
<1>13. \A q \in Player : q # p => toClient'[q] = toClient[q]
  BY <1>1, <1>2 DEF WriteToClient
<1>14. Collecting(p) = "ready" => Collecting(p)' = "ready"
  BY <1>1, <1>6, <1>8 DEF Collecting
<1> QED
  BY <1>1, <1>6, <1>11, <1>12, <1>13, <1>14, ServerStep

LEMMA ServerFixupPacketFresh ==
    ASSUME NoOverrun, IInv, OrderInv, FreshInv, NEW p \in Player, ServerFixupPacket(p)
    PROVE  FreshInv'
<1> DEFINE fix == Head(toServer[p])
           from == serverupdatetime
           lct == ServerLastCommandTime[p]
           t == FixedTime(lct, fix)
           status == ClientCommandStatus[p]
           S == Accepted(status, fix)
           new == FixedStatus(status, fix)
           ring == [a \in Slot |-> IF Landing(fix, S, a) # {}
                                   THEN fix.subs[Latest(Landing(fix, S, a))] ELSE ClientCmds[p][a]]
<1>1. /\ toServer[p] # <<>> /\ fix.type = "fixup"
      /\ toServer' = [toServer EXCEPT ![p] = Tail(@)]
      /\ ServerLastCommandTime' = [ServerLastCommandTime EXCEPT ![p] = t]
      /\ ClientCommandStatus' = [ClientCommandStatus EXCEPT ![p] = new]
      /\ ClientCmds' = [ClientCmds EXCEPT ![p] = ring]
      /\ UNCHANGED <<clientVars, serverupdatetime, ServerPlayerStatus, clientsready, toClient>>
  BY DEF ServerFixupPacket, Received
<1>2. /\ ServerLastCommandTime \in [Player -> Int] /\ lct \in Int /\ status \in [Slot -> Status]
      /\ ClientCommandStatus \in [Player -> [Slot -> Status]]
      /\ ClientCmds \in [Player -> [Slot -> Command]]
      /\ toServer = [q \in Player |-> toServer[q]]
  BY DEF IInv, TypeOK, QueuesOK
<1>3. /\ toServer[p] \in Seq(UpPacket(p)) /\ Timed(UpPacket(p))
      /\ 1 \in DOMAIN toServer[p] /\ fix = toServer[p][1] /\ fix \in UpPacket(p)
  BY <1>1, UpQueue, TailAt
<1>4. /\ fix.time \in Int /\ fix.subs \in Seq(Made(p)) /\ Consecutive(fix)
      /\ t \in Int /\ lct <= t /\ (t = lct \/ t = LastTime(fix))
      /\ LastTime(fix) \in Int /\ LastTime(fix) < controlupdatetime[p]
  <2>1. fix.time \in Int /\ fix.subs \in Seq(Made(p))
    BY <1>1, <1>3, UpFields
  <2>2. Consecutive(fix)
    BY <1>1, <1>3 DEF OrderInv, UpInOrder, InOrder
  <2>3. LastTime(fix) \in Int /\ LastTime(fix) < controlupdatetime[p]
    BY <1>3, UpQueue
  <2> QED
    BY <1>1, <1>2, <2>1, <2>2, <2>3, FixedTimeMoves
<1> HIDE DEF t
<1>5. /\ toServer'[p] = Tail(toServer[p]) /\ ServerLastCommandTime'[p] = t
      /\ ClientCommandStatus'[p] = new /\ ClientCmds'[p] = ring
      /\ \A q \in Player : q # p =>
            /\ toServer'[q] = toServer[q] /\ ServerLastCommandTime'[q] = ServerLastCommandTime[q]
            /\ ClientCommandStatus'[q] = ClientCommandStatus[q] /\ ClientCmds'[q] = ClientCmds[q]
  BY <1>1, <1>2
<1>6. ClientFresh(p)'
  BY <1>1, ClientSide
<1>7. CASE ~InGame(p)
  BY <1>1, <1>5, <1>6, <1>7, ServerStep DEF ServerFresh, InGame
<1>8. CASE InGame(p)
  <2>1. /\ from \in Nat /\ from \in Int /\ from <= lct + 1 /\ LastTime(fix) < from + MAXCMDS
    BY <1>4, <1>8, Chain
  <2>2. /\ Recent(toServer[p], lct, TRUE) /\ StatusOK(status, from, lct)
        /\ ReadyOK(status, ClientCmds[p], from)
    BY <1>8 DEF FreshInv, ServerFresh
  <2>3. lct + 1 < fix.time + MAXCMDS
    BY <1>1, <1>3, <2>2 DEF Recent
  <2>4. StatusOK(new, from, t) /\ FillsOwnSlots(status, fix, from)
    <3>1. /\ fix.type = "fixup" /\ fix.subs \in Seq(Made(p)) /\ Consecutive(fix)
          /\ from \in Int /\ lct \in Int /\ status \in [Slot -> Status]
          /\ StatusOK(status, from, lct)
          /\ lct + 1 < fix.time + MAXCMDS /\ LastTime(fix) < from + MAXCMDS
      BY <1>1, <1>2, <1>4, <2>1, <2>2, <2>3
    <3> HIDE DEF lct, status, fix, from
    <3> QED
      BY <3>1, StatusFixed DEF t
  <2>5. /\ \A u \in Window(from) :
              /\ Landing(fix, S, CommandAddress(u)) = {} =>
                     new[CommandAddress(u)] = status[CommandAddress(u)]
              /\ \A i \in Landing(fix, S, CommandAddress(u)) : fix.subs[i].time = u
        /\ \A a \in Slot : status[a] = "ready" => new[a] = "ready"
    BY <2>4 DEF FillsOwnSlots
  <2> HIDE DEF new
  <2>6. ReadyOK(new, ring, from)
    <3> SUFFICES ASSUME NEW u \in Window(from), new[CommandAddress(u)] = "ready"
                 PROVE  ring[CommandAddress(u)].time = u
      BY DEF ReadyOK
    <3> DEFINE L == Landing(fix, S, CommandAddress(u))
    <3>1. CommandAddress(u) \in Slot
      BY <2>1, AddressInRing DEF Window
    <3>2. CASE L # {}
      <4>1. Latest(L) \in L
        <5>1. L \subseteq 1 .. Len(fix.subs) /\ Len(fix.subs) \in Nat
          BY <1>4, LenProperties DEF Landing, Accepted
        <5> HIDE DEF L
        <5> QED
          BY <3>2, <5>1, LatestExists
      <4>2. ring[CommandAddress(u)] = fix.subs[Latest(L)]
        BY <3>1, <3>2
      <4> QED
        BY <2>5, <4>1, <4>2
    <3>3. CASE L = {}
      <4>1. ring[CommandAddress(u)] = ClientCmds[p][CommandAddress(u)]
        BY <3>1, <3>3
      <4> QED
        BY <2>2, <2>5, <3>3, <4>1 DEF ReadyOK
    <3> QED
      BY <3>2, <3>3
  <2>7. Recent(Tail(toServer[p]), t, TRUE)
    BY <1>1, <1>2, <1>3, <1>4, <2>2, RecentRead
  <2> HIDE DEF ring
  <2>8. ServerFresh(p)'
    <3>1. from <= t + 1
      BY <1>2, <1>4, <2>1
    <3> QED
      BY <1>1, <1>5, <2>4, <2>6, <2>7, <3>1 DEF ServerFresh, InGame
  <2>9. Collecting(p) = "ready" => Collecting(p)' = "ready"
    <3>1. CommandAddress(from) \in Slot
      BY <2>1, AddressInRing
    <3> QED
      BY <1>1, <1>5, <2>5, <3>1 DEF Collecting
  <2> QED
    BY <1>1, <1>5, <1>6, <2>8, <2>9, ServerStep
<1> QED
  BY <1>7, <1>8

\* The server takes a packet and changes nothing of what it knows of the player.
LEMMA ServerTaken ==
    ASSUME NoOverrun, IInv, OrderInv, FreshInv, NEW p \in Player, toServer[p] # <<>>,
           toServer' = [toServer EXCEPT ![p] = Tail(@)],
           UNCHANGED <<clientVars, serverVars>>,
           \A q \in Player : q # p => toClient'[q] = toClient[q],
           ClientFresh(p)'
    PROVE  FreshInv'
<1>1. UNCHANGED <<serverupdatetime, ServerPlayerStatus, clientsready, ServerLastCommandTime,
                  ClientCommandStatus, ClientCmds>>
  BY DEF serverVars
<1>2. /\ toServer'[p] = Tail(toServer[p])
      /\ \A q \in Player : q # p => toServer'[q] = toServer[q]
  BY DEF IInv, QueuesOK
<1>3. ServerFresh(p)'
  <2> SUFFICES ASSUME InGame(p)
               PROVE  Recent(Tail(toServer[p]), ServerLastCommandTime[p], TRUE)
    BY <1>1, <1>2 DEF FreshInv, ServerFresh, InGame
  <2>1. Recent(toServer[p], ServerLastCommandTime[p], TRUE) /\ ServerLastCommandTime[p] \in Int
    BY DEF FreshInv, ServerFresh, IInv, TypeOK
  <2> QED
    BY <2>1, UpQueue, RecentRead
<1> QED
  BY <1>1, <1>2, <1>3, ServerStep DEF Collecting

LEMMA IgnorePacketFresh ==
    ASSUME NoOverrun, IInv, OrderInv, FreshInv, NEW p \in Player, IgnorePacket(p)
    PROVE  FreshInv'
<1>1. /\ toServer[p] # <<>> /\ toServer' = [toServer EXCEPT ![p] = Tail(@)]
      /\ UNCHANGED <<clientVars, serverVars, toClient>>
  BY DEF IgnorePacket, Received
<1>2. ClientFresh(p)'
  BY <1>1, ClientSide DEF serverVars
<1> QED
  BY <1>1, <1>2, ServerTaken

LEMMA ResendServerPacketsFresh ==
    ASSUME NoOverrun, IInv, OrderInv, FreshInv, NEW p \in Player, ResendServerPackets(p)
    PROVE  FreshInv'
<1> DEFINE request == Head(toServer[p])
           fix == Fixup(ServerCmds, request.time, request.numpackets)
<1>1. /\ toServer[p] # <<>> /\ request.type = "request"
      /\ toServer' = [toServer EXCEPT ![p] = Tail(@)]
      /\ WriteToClient(p, fix) \/ UNCHANGED toClient
      /\ UNCHANGED <<clientVars, serverVars>>
  BY DEF ResendServerPackets, Received
<1>2. /\ toServer[p] \in Seq(UpPacket(p)) /\ 1 \in DOMAIN toServer[p]
      /\ request = toServer[p][1] /\ request \in UpPacket(p)
  BY <1>1, UpQueue, TailAt
<1>3. request.time \in Int /\ request.numpackets \in Nat
  BY <1>1, <1>2, UpFields
<1>4. fix \in DownPacket /\ fix.type = "fixup" /\ fix.time = request.time
  <2>1. ServerCmds \in [Slot -> MadePacket]
    BY DEF IInv, TypeOK, ServerRingsOK
  <2> HIDE DEF request
  <2> QED
    BY <1>3, <2>1, FixupSubs DEF Fixup, DownPacket
<1>5. InGame(p) => serverupdatetime < fix.time + MAXCMDS
  <2> SUFFICES ASSUME InGame(p) PROVE serverupdatetime < request.time + MAXCMDS
    BY <1>4
  <2>1. ServerLastCommandTime[p] + 1 < request.time + MAXCMDS
    BY <1>1, <1>2 DEF FreshInv, ServerFresh, Recent
  <2>2. /\ serverupdatetime <= ServerLastCommandTime[p] + 1
        /\ serverupdatetime \in Int /\ ServerLastCommandTime[p] \in Int /\ MAXCMDS \in Int
    BY Chain
  <2> HIDE DEF request
  <2> QED
    BY <1>3, <2>1, <2>2
<1> HIDE DEF fix, request
<1>6. /\ toClient'[p] = toClient[p] \/ toClient'[p] = Queued(toClient[p], fix)
      /\ \A q \in Player : q # p => toClient'[q] = toClient[q]
  BY <1>1 DEF WriteToClient, IInv, QueuesOK
<1>7. ClientFresh(p)'
  BY <1>1, <1>4, <1>5, <1>6, ClientSide DEF serverVars
<1> QED
  BY <1>1, <1>6, <1>7, ServerTaken

LEMMA ServerBadPacketFresh ==
    ASSUME NoOverrun, IInv, OrderInv, FreshInv, NEW p \in Player, ServerBadPacket(p)
    PROVE  FreshInv'
<1> DEFINE lct == ServerLastCommandTime[p]
           t == lct + 1
           from == serverupdatetime
           status == ClientCommandStatus[p]
           new == MarkFixing(status, t, 1)
<1>1. /\ toServer[p] # <<>> /\ toServer' = [toServer EXCEPT ![p] = Tail(@)]
      /\ IF InGame(p)
         THEN /\ ClientCommandStatus' = [ClientCommandStatus EXCEPT ![p] = new]
              /\ WriteToClient(p, Request(t, 1))
         ELSE UNCHANGED <<ClientCommandStatus, toClient>>
      /\ UNCHANGED <<clientVars, serverupdatetime, ServerCmds, ClientCmds,
                     ServerLastCommandTime, ServerPlayerStatus, clientsready>>
  BY DEF ServerBadPacket, Expected
<1>2. CASE ~InGame(p)
  <2>1. UNCHANGED <<clientVars, serverVars, toClient>>
    BY <1>1, <1>2 DEF serverVars
  <2>2. ClientFresh(p)'
    BY <2>1, ClientSide DEF serverVars
  <2> QED
    BY <1>1, <2>1, <2>2, ServerTaken
<1>3. CASE InGame(p)
  <2>1. /\ lct \in Int /\ t \in Int /\ status \in [Slot -> Status]
        /\ ClientCommandStatus \in [Player -> [Slot -> Status]]
        /\ toClient = [q \in Player |-> toClient[q]] /\ toServer = [q \in Player |-> toServer[q]]
    BY DEF IInv, TypeOK, QueuesOK
  <2>2. /\ from \in Int /\ from <= t /\ t <= lct + 1 /\ t <= controlupdatetime[p]
        /\ t < from + MAXCMDS /\ from \in Window(from)
    BY <1>3, Chain DEF Window
  <2>3. /\ Recent(toServer[p], lct, TRUE) /\ StatusOK(status, from, lct)
        /\ ReadyOK(status, ClientCmds[p], from) /\ from <= lct + 1
    BY <1>3 DEF FreshInv, ServerFresh
  <2>4. /\ toServer'[p] = Tail(toServer[p]) /\ ClientCommandStatus'[p] = new
        /\ toClient'[p] = toClient[p] \/ toClient'[p] = Queued(toClient[p], Request(t, 1))
        /\ \A q \in Player : q # p => /\ toServer'[q] = toServer[q] /\ toClient'[q] = toClient[q]
                                      /\ ClientCommandStatus'[q] = ClientCommandStatus[q]
    BY <1>1, <1>3, <2>1 DEF WriteToClient
  <2>5. /\ StatusOK(new, from, lct)
        /\ \A u \in Window(from) : (new[CommandAddress(u)] = "ready")
                                       <=> (status[CommandAddress(u)] = "ready" /\ u # t)
    <3>1. /\ from \in Int /\ lct \in Int /\ t \in Int /\ status \in [Slot -> Status]
          /\ from <= t /\ t <= lct + 1 /\ t < from + MAXCMDS /\ StatusOK(status, from, lct)
      BY <2>1, <2>2, <2>3
    <3> HIDE DEF t, lct, status, from
    <3> QED
      BY <3>1, StatusMarked
  <2> HIDE DEF new
  <2>6. ServerFresh(p)'
    <3>1. ReadyOK(new, ClientCmds[p], from)
      BY <2>3, <2>5 DEF ReadyOK
    <3>2. Recent(Tail(toServer[p]), lct, TRUE)
      BY <1>1, <2>1, <2>3, UpQueue, RecentRead
    <3> QED
      BY <1>1, <2>3, <2>4, <2>5, <3>1, <3>2 DEF ServerFresh, InGame
  <2>7. ClientFresh(p)'
    <3> HIDE DEF t
    <3> QED
      BY <1>1, <1>3, <2>1, <2>2, <2>4, ClientSide
  <2>8. Collecting(p) = "ready" => Collecting(p)' = "ready"
    <3> SUFFICES ASSUME Collecting(p) = "ready" PROVE new[CommandAddress(from)] = "ready"
      BY <1>1, <2>4 DEF Collecting
    <3>1. status[CommandAddress(from)] = "ready"
      BY DEF Collecting
    <3>2. from <= lct
      BY <2>2, <2>3, <3>1 DEF StatusOK
    <3> QED
      BY <2>1, <2>2, <2>5, <3>1, <3>2
  <2> QED
    BY <1>1, <2>4, <2>6, <2>7, <2>8, ServerStep
<1> QED
  BY <1>2, <1>3

LEMMA AreClientsReadyFresh ==
    ASSUME FreshInv, AreClientsReady
    PROVE  FreshInv'
<1>1. /\ \A p \in Player : InGame(p) => ClientReady(p)
      /\ UNCHANGED <<controlupdatetime, oldpolltime, playstate, LastCommandTime,
                     ServerCommandStatus, serverupdatetime, ClientCmds, ClientCommandStatus,
                     ServerLastCommandTime, ServerPlayerStatus, toServer, toClient>>
  BY DEF AreClientsReady, clientVars
<1>2. CheckedFresh'
  BY <1>1 DEF CheckedFresh, ClientReady, Collecting, InGame
<1> QED
  BY <1>1, <1>2 DEF FreshInv, ClientFresh, ServerFresh, Followed, InGame

LEMMA SendFullServerPacketFresh ==
    ASSUME NoOverrun, IInv, OrderInv, FreshInv, SendFullServerPacket
    PROVE  FreshInv'
<1> DEFINE from == serverupdatetime
           pkt == [time |-> serverupdatetime, cmds |-> [p \in Player |-> Collected(p)]]
           m == TicPacket(pkt)
           leaving == {p \in Player : Collected(p).kind \in Leaving}
<1>1. /\ clientsready
      /\ ClientCommandStatus' = [p \in Player |-> NotArrived(ClientCommandStatus[p], from)]
      /\ toClient' = [p \in Player |->
            IF InGame(p) /\ Controlling(p) THEN Queued(toClient[p], m) ELSE toClient[p]]
      /\ ClientCmds' = [p \in Player |->
            IF p \in leaving THEN [a \in Slot |-> Fill] ELSE ClientCmds[p]]
      /\ ServerPlayerStatus' = [p \in Player |->
            IF p \notin leaving THEN ServerPlayerStatus[p]
            ELSE IF Collected(p).kind = "quit" THEN "quitgame" ELSE "leftgame"]
      /\ serverupdatetime' = from + 1 /\ clientsready' = FALSE
      /\ UNCHANGED <<clientVars, ServerLastCommandTime, toServer>>
  BY DEF SendFullServerPacket
<1>2. /\ UNCHANGED <<controlupdatetime, oldpolltime, playstate, LastCommandTime, ServerCommandStatus>>
  BY <1>1 DEF clientVars
<1>3. m \in DownPacket /\ m.type = "server"
  <2>1. from \in Nat /\ CommandAddress(from) \in Slot
    BY AddressInRing DEF IInv, TypeOK
  <2>2. \A p \in Player : Collected(p) \in Made(p) /\ Collected(p) \in Command
    BY <2>1 DEF Collected, IInv, TypeOK, ServerRingsOK
  <2> QED
    BY <2>1, <2>2 DEF TicPacket, DownPacket, MadePacket, ServerPacket
<1> HIDE DEF m, pkt, leaving
<1>4. CheckedFresh'
  BY <1>1 DEF CheckedFresh
<1>5. ASSUME NEW p \in Player PROVE ClientFresh(p)'
  <2>1. /\ Unclosed(toClient[p], LastCommandTime[p], controlupdatetime[p])
        /\ Recent(toClient[p], LastCommandTime[p], InGame(p))
        /\ controlupdatetime[p] - oldpolltime[p] <= MaxLead /\ playstate[p] # "fatal"
        /\ Followed(p) =>
              /\ oldpolltime[p] <= LastCommandTime[p] + 1
              /\ StatusOK(ServerCommandStatus[p], oldpolltime[p], LastCommandTime[p])
    BY DEF FreshInv, ClientFresh
  <2>2. toClient[p] \in Seq(DownPacket)
    BY DownQueue
  <2>3. toClient'[p] = toClient[p] \/ toClient'[p] = Queued(toClient[p], m)
    BY <1>1
  <2>4. InGame(p)' => InGame(p)
    BY <1>1 DEF InGame
  <2>5. Unclosed(toClient'[p], LastCommandTime[p], controlupdatetime[p])
    BY <1>3, <2>1, <2>2, <2>3, UnclosedWrite
  <2>6. Recent(toClient'[p], LastCommandTime[p], InGame(p))
    <3>1. InGame(p) \in BOOLEAN
      BY DEF InGame
    <3> QED
      BY <1>3, <2>1, <2>2, <2>3, <3>1, RecentWrite
  <2>7. Recent(toClient'[p], LastCommandTime[p], InGame(p)')
    BY <2>4, <2>6 DEF Recent
  <2>8. Followed(p)' => Followed(p)
    BY <1>3, <2>2, <2>3, <2>4, HoldsWrite DEF Followed
  <2> QED
    BY <1>2, <2>1, <2>5, <2>7, <2>8 DEF ClientFresh
<1>6. ASSUME NEW p \in Player PROVE ServerFresh(p)'
  <2> SUFFICES ASSUME InGame(p)' PROVE ServerFresh(p)'
    BY DEF ServerFresh
  <2> DEFINE lct == ServerLastCommandTime[p]
             status == ClientCommandStatus[p]
             new == NotArrived(status, from)
  <2>1. /\ InGame(p) /\ p \notin leaving
    BY <1>1 DEF InGame
  <2>2. /\ Recent(toServer[p], lct, TRUE) /\ StatusOK(status, from, lct)
        /\ ReadyOK(status, ClientCmds[p], from)
    BY <2>1 DEF FreshInv, ServerFresh
  <2>3. /\ from \in Int /\ lct \in Int /\ status \in [Slot -> Status] /\ from \in Window(from)
    BY Chain DEF IInv, TypeOK, Window
  <2>4. status[CommandAddress(from)] = "ready"
    BY <1>1, <2>1 DEF FreshInv, CheckedFresh, Collecting
  <2>5. from <= lct
    BY <2>2, <2>3, <2>4 DEF StatusOK
  <2>6. /\ StatusOK(new, from + 1, lct)
        /\ \A u \in Window(from + 1) : new[CommandAddress(u)] # "notarrived" =>
              u \in Window(from) /\ new[CommandAddress(u)] = status[CommandAddress(u)]
    <3> HIDE DEF lct, status, from
    <3> QED
      BY <2>2, <2>3, StatusMovesOn
  <2>7. ClientCommandStatus'[p] = new /\ ClientCmds'[p] = ClientCmds[p]
    BY <1>1, <2>1
  <2> HIDE DEF new
  <2>8. ReadyOK(new, ClientCmds[p], from + 1)
    BY <2>2, <2>6 DEF ReadyOK
  <2>9. from + 1 <= lct + 1
    BY <2>3, <2>5
  <2> QED
    BY <1>1, <2>2, <2>6, <2>7, <2>8, <2>9 DEF ServerFresh
<1> QED
  BY <1>4, <1>5, <1>6 DEF FreshInv

LEMMA ServerTimeoutFresh ==
    ASSUME NoOverrun, IInv, OrderInv, FreshInv, ServerTimeout
    PROVE  FreshInv'
<1> DEFINE from == serverupdatetime
           missing == {p \in Player : InGame(p) /\ Collecting(p) # "ready"}
<1>1. /\ missing # {}
      /\ ClientCommandStatus' = [p \in Player |->
            IF p \in missing THEN MarkFixing(ClientCommandStatus[p], from, 1)
                             ELSE ClientCommandStatus[p]]
      /\ toClient' = [p \in Player |->
            IF p \in missing /\ Controlling(p)
            THEN Queued(toClient[p], Request(from, 1)) ELSE toClient[p]]
      /\ UNCHANGED <<clientVars, serverupdatetime, ClientCmds, ServerLastCommandTime,
                     ServerPlayerStatus, clientsready, toServer>>
  BY DEF ServerTimeout
<1>2. CheckedFresh'
  BY <1>1 DEF FreshInv, CheckedFresh
<1>3. ASSUME NEW p \in Player PROVE ClientFresh(p)'
  <2>1. toClient'[p] = toClient[p]
        \/ (InGame(p) /\ toClient'[p] = Queued(toClient[p], Request(from, 1)))
    BY <1>1
  <2>2. /\ from \in Int /\ 1 \in Int /\ from <= from
        /\ InGame(p) => from <= controlupdatetime[p]
    BY Chain
  <2> QED
    BY <1>1, <2>1, <2>2, ClientSide
<1>4. ASSUME NEW p \in Player PROVE ServerFresh(p)'
  <2> SUFFICES ASSUME InGame(p) PROVE ServerFresh(p)'
    BY <1>1 DEF ServerFresh, InGame
  <2> DEFINE lct == ServerLastCommandTime[p]
             status == ClientCommandStatus[p]
             new == MarkFixing(status, from, 1)
  <2>1. /\ from <= lct + 1 /\ Recent(toServer[p], lct, TRUE) /\ StatusOK(status, from, lct)
        /\ ReadyOK(status, ClientCmds[p], from)
    BY DEF FreshInv, ServerFresh
  <2>2. /\ from \in Int /\ lct \in Int /\ status \in [Slot -> Status]
        /\ from <= from /\ from < from + MAXCMDS
    BY Chain DEF IInv, TypeOK
  <2>3. /\ StatusOK(new, from, lct)
        /\ \A u \in Window(from) : (new[CommandAddress(u)] = "ready")
                                       <=> (status[CommandAddress(u)] = "ready" /\ u # from)
    <3> HIDE DEF lct, status, from
    <3> QED
      BY <2>1, <2>2, StatusMarked
  <2>4. ClientCommandStatus'[p] = new \/ ClientCommandStatus'[p] = status
    BY <1>1
  <2> HIDE DEF new
  <2>5. ReadyOK(new, ClientCmds[p], from)
    BY <2>1, <2>3 DEF ReadyOK
  <2> QED
    BY <1>1, <2>1, <2>3, <2>4, <2>5 DEF ServerFresh
<1> QED
  BY <1>2, <1>3, <1>4 DEF FreshInv

-----------------------------------------------------------------------------
(* Losses, and all steps                                                   *)

LEMMA NetworkFresh ==
    ASSUME NoOverrun, IInv, OrderInv, FreshInv, Network
    PROVE  FreshInv'
<1>1. ASSUME NEW p \in Player, LoseToServer(p) PROVE FreshInv'
  <2>1. /\ toServer[p] # <<>> /\ toServer' = [toServer EXCEPT ![p] = Tail(@)]
        /\ UNCHANGED <<clientVars, serverVars, toClient>>
    BY <1>1 DEF LoseToServer
  <2>2. ClientFresh(p)'
    BY <2>1, ClientSide DEF serverVars
  <2> QED
    BY <2>1, <2>2, ServerTaken
<1>2. ASSUME NEW p \in Player, LoseToClient(p) PROVE FreshInv'
  <2>1. /\ toClient[p] # <<>> /\ toClient' = [toClient EXCEPT ![p] = Tail(@)]
        /\ UNCHANGED <<controlupdatetime, oldpolltime, playstate, LastCommandTime,
                       ServerCommandStatus, serverVars, toServer>>
    BY <1>2 DEF LoseToClient, clientVars
  <2>2. /\ toClient'[p] = Tail(toClient[p])
        /\ \A q \in Player : q # p => toClient'[q] = toClient[q]
    BY <2>1 DEF IInv, QueuesOK
  <2>3. /\ Unclosed(toClient[p], LastCommandTime[p], controlupdatetime[p])
        /\ Recent(toClient[p], LastCommandTime[p], InGame(p))
        /\ controlupdatetime[p] - oldpolltime[p] <= MaxLead /\ playstate[p] # "fatal"
        /\ Followed(p) =>
              /\ oldpolltime[p] <= LastCommandTime[p] + 1
              /\ StatusOK(ServerCommandStatus[p], oldpolltime[p], LastCommandTime[p])
    BY DEF FreshInv, ClientFresh
  <2>4. Unclosed(Tail(toClient[p]), LastCommandTime[p], controlupdatetime[p])
    BY <2>1, <2>3, DownQueue, UnclosedRead
  <2>5. Recent(Tail(toClient[p]), LastCommandTime[p], InGame(p))
    <3>1. InGame(p) \in BOOLEAN /\ LastCommandTime[p] \in Int
      BY DEF InGame, IInv, TypeOK
    <3> QED
      BY <2>1, <2>3, <3>1, DownQueue, RecentRead
  <2>6. Holds(Tail(toClient[p]), {"request"}) => Followed(p)
    BY <2>1, DownQueue, HoldsRead DEF Followed, Holds
  <2>7. Followed(p)' => Followed(p)
    BY <2>1, <2>2, <2>6 DEF Followed, InGame, serverVars
  <2>8. ClientFresh(p)'
    BY <2>1, <2>2, <2>3, <2>4, <2>5, <2>7 DEF ClientFresh, InGame, serverVars
  <2>9. InGame(p) => Recent(toServer'[p], ServerLastCommandTime[p], TRUE)
    BY <2>1 DEF FreshInv, ServerFresh
  <2> QED
    BY <2>1, <2>2, <2>8, <2>9, ClientStep
<1> QED
  BY <1>1, <1>2 DEF Network

LEMMA StutterFresh ==
    ASSUME FreshInv, UNCHANGED vars
    PROVE  FreshInv'
<1>1. UNCHANGED <<controlupdatetime, oldpolltime, playstate, LastCommandTime,
                  ServerCommandStatus, serverupdatetime, ClientCmds, ClientCommandStatus,
                  ServerLastCommandTime, ServerPlayerStatus, clientsready, toServer, toClient>>
  BY DEF vars, clientVars, serverVars
<1> QED
  BY <1>1 DEF FreshInv, CheckedFresh, ClientFresh, ServerFresh, Followed, InGame, Collecting

LEMMA NextFresh ==
    ASSUME NoOverrun, IInv, OrderInv, FreshInv, [Next]_vars
    PROVE  FreshInv'
<1>1. ASSUME NEW p \in Player, Client(p) PROVE FreshInv'
  BY <1>1, PrepareLocalPacketFresh, AddServerPacketFresh, ClientFixupPacketFresh,
     ResendLocalPacketsFresh, ClientBadPacketFresh, ClientTimeoutFresh, SimulateTicFresh,
     LeaveGameFresh DEF Client
<1>2. CASE Server
  BY <1>2, AddPacketFresh, IgnorePacketFresh, ServerFixupPacketFresh, ResendServerPacketsFresh,
     ServerBadPacketFresh, AreClientsReadyFresh, SendFullServerPacketFresh, ServerTimeoutFresh
     DEF Server
<1>3. CASE Network
  BY <1>3, NetworkFresh
<1>4. CASE GameOver \/ UNCHANGED vars
  BY <1>4, StutterFresh DEF GameOver
<1> QED
  BY <1>1, <1>2, <1>3, <1>4 DEF Next

LEMMA InitFresh == Init => FreshInv
<1> SUFFICES ASSUME Init PROVE FreshInv
  OBVIOUS
<1>1. CheckedFresh
  BY DEF Init, CheckedFresh
<1>2. ASSUME NEW p \in Player PROVE ClientFresh(p) /\ ServerFresh(p)
  <2>1. /\ controlupdatetime[p] = 0 /\ oldpolltime[p] = 0 /\ playstate[p] = "playing"
        /\ LastCommandTime[p] = -1 /\ serverupdatetime = 0 /\ ServerLastCommandTime[p] = -1
        /\ toServer[p] = <<>> /\ toClient[p] = <<>>
        /\ ServerCommandStatus[p] = [a \in Slot |-> "notarrived"]
        /\ ClientCommandStatus[p] = [a \in Slot |-> "notarrived"]
    BY DEF Init
  <2>2. MaxLead \in Nat /\ MAXCMDS \in Nat
    BY RottNetAssumption
  <2>3. \A u \in Window(0) : [a \in Slot |-> "notarrived"][CommandAddress(u)] = "notarrived"
    <3>1. \A u \in Window(0) : CommandAddress(u) \in Slot
      BY <2>2, AddressInRing DEF Window
    <3> QED
      BY <3>1
  <2>4. /\ StatusOK([a \in Slot |-> "notarrived"], 0, -1)
        /\ ReadyOK([a \in Slot |-> "notarrived"], ClientCmds[p], 0)
    BY <2>3 DEF StatusOK, ReadyOK
  <2>5. /\ \A all : Recent(<<>>, -1, all)
        /\ Unclosed(<<>>, -1, 0)
    BY DEF Recent, Unclosed
  <2>6. ClientFresh(p)
    <3>1. controlupdatetime[p] - oldpolltime[p] <= MaxLead /\ oldpolltime[p] <= LastCommandTime[p] + 1
      BY <2>1, <2>2
    <3>2. StatusOK(ServerCommandStatus[p], oldpolltime[p], LastCommandTime[p])
      BY <2>1, <2>4
    <3>3. /\ Recent(toClient[p], LastCommandTime[p], InGame(p))
          /\ Unclosed(toClient[p], LastCommandTime[p], controlupdatetime[p])
      BY <2>1, <2>5
    <3> QED
      BY <2>1, <3>1, <3>2, <3>3 DEF ClientFresh
  <2>7. ServerFresh(p)
    <3>1. serverupdatetime <= ServerLastCommandTime[p] + 1
      BY <2>1
    <3>2. /\ StatusOK(ClientCommandStatus[p], serverupdatetime, ServerLastCommandTime[p])
          /\ ReadyOK(ClientCommandStatus[p], ClientCmds[p], serverupdatetime)
      BY <2>1, <2>4
    <3>3. Recent(toServer[p], ServerLastCommandTime[p], TRUE)
      BY <2>1, <2>5
    <3> QED
      BY <3>1, <3>2, <3>3 DEF ServerFresh
  <2> QED
    BY <2>6, <2>7
<1> QED
  BY <1>1, <1>2 DEF FreshInv

-----------------------------------------------------------------------------
(* The theorems                                                            *)

\* FreshInv is an invariant of the network game when no client's clock runs a
\* ring ahead of its simulation: a status stands for the tic its slot is used
\* for next, on the server and on every client the server still waits for.
THEOREM Fresh == ASSUME NoOverrun PROVE Spec => []FreshInv
<1>1. Init => FreshInv
  BY InitFresh
<1>2. IInv /\ OrderInv /\ FreshInv /\ [Next]_vars => FreshInv'
  BY NextFresh
<1> QED
  BY <1>1, <1>2, Inductive, Ordered, PTL DEF Spec

\* A command marked ready in the slot the server waits on is the command of
\* that tic, so AreClientsReady can come true: it is not stuck on an older or
\* newer command for which the timeout of ProcessServer asks no more.
THEOREM Current == ASSUME NoOverrun PROVE Spec => []CollectedIsCurrent
<1>1. IInv /\ FreshInv => CollectedIsCurrent
  <2> SUFFICES ASSUME IInv, FreshInv, NEW p \in Player, InGame(p), Collecting(p) = "ready"
               PROVE  Collected(p).time = serverupdatetime
    BY DEF CollectedIsCurrent
  <2>1. serverupdatetime \in Window(serverupdatetime)
    BY RottNetAssumption DEF Window, IInv, TypeOK
  <2> QED
    BY <2>1 DEF FreshInv, ServerFresh, ReadyOK, Collecting, Collected
<1> QED
  BY <1>1, Inductive, Fresh, PTL

\* What AreClientsReady saw is still so when SendFullServerPacket closes the
\* tic, although ProcessServer reads packets in between.
THEOREM StaysReady == ASSUME NoOverrun PROVE Spec => []CheckedStaysReady
<1>1. FreshInv /\ CollectedIsCurrent => CheckedStaysReady
  BY DEF FreshInv, CheckedFresh, CollectedIsCurrent, CheckedStaysReady
<1> QED
  BY <1>1, Current, Fresh, PTL

\* The Error of ResendLocalPackets is never reached: the client still holds
\* every command the server asks it for, also the ones it asked for before.
THEOREM NoError == ASSUME NoOverrun PROVE Spec => []NoFatalError
<1>1. FreshInv => NoFatalError
  BY DEF FreshInv, ClientFresh, NoFatalError
<1> QED
  BY <1>1, Fresh, PTL

\* The server still holds every closed tic a client in the game has not
\* simulated: ResendPacket can answer each of its requests.
THEOREM TicsHeld == ASSUME NoOverrun PROVE Spec => []NeededTicsHeld
<1>1. IInv /\ OrderInv /\ FreshInv => NeededTicsHeld
  <2> SUFFICES ASSUME IInv, OrderInv, FreshInv, NEW p \in Player, InGame(p),
                      NEW t \in oldpolltime[p] .. serverupdatetime - 1
               PROVE  ServerCmds[CommandAddress(t)].time = t
    BY DEF NeededTicsHeld
  <2>1. /\ MAXCMDS \in Nat /\ controlupdatetime[p] \in Nat /\ oldpolltime[p] \in Nat
        /\ serverupdatetime \in Nat
        /\ controlupdatetime[p] < oldpolltime[p] + MAXCMDS /\ serverupdatetime <= controlupdatetime[p]
    BY Chain
  <2>2. t \in Nat /\ serverupdatetime - MAXCMDS <= t /\ t < serverupdatetime
    BY <2>1
  <2> QED
    BY <2>2 DEF OrderInv, RingHolds
<1> QED
  BY <1>1, Inductive, Ordered, Fresh, PTL
=============================================================================
