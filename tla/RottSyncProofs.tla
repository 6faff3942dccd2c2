--------------------------- MODULE RottSyncProofs ---------------------------
(***************************************************************************)
(* Theorems about RottSync, for every number of clients, every transit and *)
(* every number of faults, under the assumptions about the network that    *)
(* RottSyncInv names: the clocks agree, no answer is mistaken for another, *)
(* only a client whose SYNC_PHASE5 was lost is left behind, no other one   *)
(* misses the start of the game, and it comes in bounded time.             *)
(***************************************************************************)
EXTENDS RottSyncInv, SequenceTheorems, TLAPS

-----------------------------------------------------------------------------
(* Round trips and their average                                           *)

\* The average of the round trips of the phases so far (deltatime) is not
\* longer than the longest of them.  The fold is unrolled: there are five
\* phases at most.
LEMMA AverageInRange ==
    ASSUME NEW B \in Nat, NEW trips \in [0 .. NUMSYNCPHASES - 1 -> 0 .. B],
           NEW phase \in 0 .. NUMSYNCPHASES - 1
    PROVE  Average(trips, phase) \in 0 .. B
<1> DEFINE S == 0 .. phase
           pick(s) == CHOOSE x \in s : TRUE
           Sums(g) == [s \in SUBSET S |-> IF s = {} THEN 0 ELSE trips[pick(s)] + g[s \ {pick(s)}]]
           iter == CHOOSE g : g = Sums(g)
           term(s, i) == IF i \in s THEN trips[i] ELSE 0
           sum == [s \in SUBSET S |-> term(s, 0) + term(s, 1) + term(s, 2) + term(s, 3) + term(s, 4)]
<1>1. FoldFunctionOnSet(+, 0, trips, S) = iter[S]
  BY DEF FoldFunctionOnSet, MapThenFoldSet
<1>2. /\ \A i \in 0 .. 4 : trips[i] \in 0 .. B
      /\ phase \in 0 .. 4
      /\ \A s \in SUBSET S : s \subseteq 0 .. 4
  BY DEF NUMSYNCPHASES
<1>3. \A s \in SUBSET S : s # {} => pick(s) \in s /\ s \ {pick(s)} \in SUBSET S
  OBVIOUS
<1>4. \A s \in SUBSET S, x \in 0 .. 4 : x \in s => sum[s] = trips[x] + sum[s \ {x}]
  <2> SUFFICES ASSUME NEW s \in SUBSET S, NEW x \in 0 .. 4, x \in s
               PROVE  sum[s] = trips[x] + sum[s \ {x}]
    OBVIOUS
  <2> DEFINE r == s \ {x}
  <2>1. /\ sum[s] = term(s, 0) + term(s, 1) + term(s, 2) + term(s, 3) + term(s, 4)
        /\ sum[r] = term(r, 0) + term(r, 1) + term(r, 2) + term(r, 3) + term(r, 4)
    OBVIOUS
  <2>2. \A i \in 0 .. 4 : i # x => term(r, i) = term(s, i)
    OBVIOUS
  <2>3. term(s, x) = trips[x] /\ term(r, x) = 0
    OBVIOUS
  <2>4. \A i \in 0 .. 4 : term(s, i) \in Int /\ term(r, i) \in Int
    BY <1>2
  <2>5. x = 0 \/ x = 1 \/ x = 2 \/ x = 3 \/ x = 4
    OBVIOUS
  <2>6. trips[x] \in Int
    BY <1>2
  <2> HIDE DEF sum, term, r, S
  <2>7. sum[s] = trips[x] + sum[r]
    <3>1. CASE x = 0
      BY <2>1, <2>2, <2>3, <2>4, <2>6, <3>1
    <3>2. CASE x = 1
      BY <2>1, <2>2, <2>3, <2>4, <2>6, <3>2
    <3>3. CASE x = 2
      BY <2>1, <2>2, <2>3, <2>4, <2>6, <3>3
    <3>4. CASE x = 3
      BY <2>1, <2>2, <2>3, <2>4, <2>6, <3>4
    <3>5. CASE x = 4
      BY <2>1, <2>2, <2>3, <2>4, <2>6, <3>5
    <3> QED
      BY <2>5, <3>1, <3>2, <3>3, <3>4, <3>5
  <2> QED
    BY <2>7 DEF r
<1>5. sum = Sums(sum)
  <2>1. sum[{}] = 0
    OBVIOUS
  <2> HIDE DEF sum, pick, S
  <2>2. ASSUME NEW s \in SUBSET S
        PROVE  sum[s] = Sums(sum)[s]
    <3>1. CASE s = {}
      BY <2>1, <3>1
    <3>2. CASE s # {}
      <4>1. pick(s) \in s /\ pick(s) \in 0 .. 4
        BY <1>2, <1>3, <3>2
      <4>2. sum[s] = trips[pick(s)] + sum[s \ {pick(s)}]
        BY <1>4, <4>1
      <4> QED
        BY <3>2, <4>2
    <3> QED
      BY <3>1, <3>2
  <2> QED
    BY <2>2 DEF sum
<1>6. iter = Sums(iter)
  BY <1>5
<1>7. ASSUME NEW s \in SUBSET S, iter[s] # sum[s]
      PROVE  s # {} /\ pick(s) \in s /\ iter[s \ {pick(s)}] # sum[s \ {pick(s)}]
  <2> HIDE DEF iter, sum, Sums, S, pick
  <2>1. iter[s] = Sums(iter)[s] /\ sum[s] = Sums(sum)[s]
    BY <1>5, <1>6
  <2> QED
    BY <1>3, <1>7, <2>1 DEF Sums
<1>8. iter[S] = sum[S]
  <2> DEFINE T(s) == s \ {pick(s)}
  <2> HIDE DEF iter, sum, Sums, pick, S
  <2> SUFFICES ASSUME iter[S] # sum[S]
               PROVE  FALSE
    OBVIOUS
  <2>1. ASSUME NEW s \in SUBSET S, iter[s] # sum[s]
        PROVE  pick(s) \in s /\ T(s) \in SUBSET S /\ iter[T(s)] # sum[T(s)]
    BY <1>7, <2>1
  <2> DEFINE s1 == T(S)
             s2 == T(s1)
             s3 == T(s2)
             s4 == T(s3)
             s5 == T(s4)
  <2>2. \A s : T(s) = s \ {pick(s)}
    OBVIOUS
  <2>3. S \in SUBSET S
    OBVIOUS
  <2> HIDE DEF T
  <2>4. pick(S) \in S /\ s1 \in SUBSET S /\ iter[s1] # sum[s1]
    BY <2>1, <2>3
  <2>5. pick(s1) \in s1 /\ s2 \in SUBSET S /\ iter[s2] # sum[s2]
    BY <2>1, <2>4
  <2>6. pick(s2) \in s2 /\ s3 \in SUBSET S /\ iter[s3] # sum[s3]
    BY <2>1, <2>5
  <2>7. pick(s3) \in s3 /\ s4 \in SUBSET S /\ iter[s4] # sum[s4]
    BY <2>1, <2>6
  <2>8. pick(s4) \in s4 /\ s5 \in SUBSET S /\ iter[s5] # sum[s5]
    BY <2>1, <2>7
  <2>9. pick(s5) \in s5
    BY <2>1, <2>8
  <2> QED
    BY <1>2, <2>2, <2>4, <2>5, <2>6, <2>7, <2>8, <2>9
<1>9. sum[S] \in 0 .. (phase + 1) * B
  <2> DEFINE t(i) == term(S, i)
  <2>1. sum[S] = t(0) + t(1) + t(2) + t(3) + t(4)
    OBVIOUS
  <2>2. \A i \in 0 .. 4 : t(i) \in (IF i <= phase THEN 0 .. B ELSE {0})
    BY <1>2
  <2> HIDE DEF sum, t, S
  <2>3. CASE phase = 0
    BY <2>1, <2>2, <2>3
  <2>4. CASE phase = 1
    BY <2>1, <2>2, <2>4
  <2>5. CASE phase = 2
    BY <2>1, <2>2, <2>5
  <2>6. CASE phase = 3
    BY <2>1, <2>2, <2>6
  <2>7. CASE phase = 4
    BY <2>1, <2>2, <2>7
  <2> QED
    BY <1>2, <2>3, <2>4, <2>5, <2>6, <2>7
<1>10. Average(trips, phase) = iter[S] \div (phase + 1)
  <2> HIDE DEF iter
  <2> QED
    BY <1>1 DEF Average
<1> HIDE DEF sum, iter, S
<1> QED
  <2> DEFINE n == sum[S]
  <2>1. n \in Int /\ 0 <= n /\ n <= (phase + 1) * B
    BY <1>2, <1>9
  <2>2. Average(trips, phase) = n \div (phase + 1)
    BY <1>8, <1>10
  <2> HIDE DEF n
  <2>3. n \div (phase + 1) \in 0 .. B
    <3>1. CASE phase = 0
      BY <2>1, <3>1
    <3>2. CASE phase = 1
      BY <2>1, <3>2
    <3>3. CASE phase = 2
      BY <2>1, <3>3
    <3>4. CASE phase = 3
      BY <2>1, <3>4
    <3>5. CASE phase = 4
      BY <2>1, <3>5
    <3> QED
      BY <1>2, <3>1, <3>2, <3>3, <3>4, <3>5
  <2> QED
    BY <2>2, <2>3

\* MaxTransit is the longest transit, and SYNCTIME is more than two of them.
LEMMA TransitFacts ==
    ASSUME Prompt
    PROVE  /\ MaxTransit \in Transit /\ MaxTransit \in Nat
           /\ \A t \in Transit : t \in Nat /\ t <= MaxTransit
           /\ 2 * MaxTransit < SYNCTIME
           /\ SYNCTIME \in Nat
BY RottSyncAssumption DEF Prompt, MaxTransit

\* What is in a queue.
Msg(P) == [pkt : P, due : Nat]
-----------------------------------------------------------------------------
(* Packets on their way                                                    *)

\* What is on its way is a packet and the tic in which it comes.
LEMMA DueIsTime ==
    ASSUME NEW P, NEW queue \in Seq(Msg(P)), NEW i \in 1 .. Len(queue)
    PROVE  queue[i] \in Msg(P) /\ queue[i].pkt \in P /\ queue[i].due \in Nat
<1>1. queue[i] \in Msg(P)
  BY ElementOfSeq
<1> QED
  BY <1>1 DEF Msg

\* A packet that is sent comes last: not before those sent before it.
LEMMA SentLast ==
    ASSUME NEW P, NEW queue \in Seq(Msg(P)), NEW p \in P, NEW travel \in Nat,
           now \in Nat, InTimeOrder(queue),
           NEW r, r = Arriving(queue, p, travel)
    PROVE  /\ r \in Seq(Msg(P)) /\ Len(r) = Len(queue) + 1
           /\ \A i \in 1 .. Len(queue) : r[i] = queue[i]
           /\ r[Len(r)].pkt = p
           /\ r[Len(r)].due >= now + travel
           /\ \/ r[Len(r)].due = now + travel
              \/ Len(queue) > 0 /\ r[Len(r)].due = queue[Len(queue)].due
           /\ queue = <<>> => r[Len(r)].due = now + travel
           /\ InTimeOrder(r)
<1> DEFINE due == IF queue # <<>> /\ queue[Len(queue)].due > now + travel
                  THEN queue[Len(queue)].due ELSE now + travel
           m == [pkt |-> p, due |-> due]
<1>1. r = Append(queue, m)
  BY DEF Arriving
<1>2. queue # <<>> => Len(queue) \in 1 .. Len(queue) /\ queue[Len(queue)] \in Msg(P)
  BY EmptySeq, LenProperties, ElementOfSeq
<1>3. due \in Nat /\ m \in Msg(P)
  BY <1>2 DEF Msg
<1>4. /\ r \in Seq(Msg(P)) /\ Len(r) = Len(queue) + 1 /\ Len(queue) \in Nat
      /\ \A i \in 1 .. Len(queue) : r[i] = queue[i]
      /\ r[Len(r)] = m
  BY <1>1, <1>3, AppendProperties, LenProperties
<1>5. /\ due >= now + travel
      /\ due = now + travel \/ (Len(queue) > 0 /\ due = queue[Len(queue)].due)
      /\ queue = <<>> => due = now + travel
      /\ queue # <<>> => due >= queue[Len(queue)].due
  BY <1>2, LenProperties DEF Msg
<1>6. m.pkt = p /\ m.due = due
  OBVIOUS
<1> HIDE DEF m, due
<1>7. \A i \in 1 .. Len(queue) : queue[i].due \in Nat
  BY DueIsTime
<1>8. ASSUME NEW i \in 1 .. Len(r), NEW j \in 1 .. Len(r), i <= j
      PROVE  r[i].due <= r[j].due
  <2>1. CASE j <= Len(queue)
    <3>1. i \in 1 .. Len(queue) /\ j \in 1 .. Len(queue)
      BY <1>4, <1>8, <2>1
    <3> QED
      BY <1>4, <1>8, <3>1 DEF InTimeOrder
  <2>2. CASE j > Len(queue) /\ i <= Len(queue)
    <3>1. i \in 1 .. Len(queue) /\ Len(queue) \in 1 .. Len(queue) /\ j = Len(r)
      BY <1>4, <2>2
    <3>2. queue[i].due <= queue[Len(queue)].due
      BY <3>1 DEF InTimeOrder
    <3>3. due >= queue[Len(queue)].due
      BY <1>5, <3>1
    <3> QED
      BY <1>3, <1>4, <1>6, <1>7, <3>1, <3>2, <3>3
  <2>3. CASE i > Len(queue)
    BY <1>3, <1>4, <1>6, <1>8, <2>3
  <2> QED
    BY <1>4, <2>1, <2>2, <2>3
<1> QED
  BY <1>4, <1>5, <1>6, <1>8 DEF InTimeOrder

\* The first packet is read; the others keep their order.
LEMMA ReadFirst ==
    ASSUME NEW P, NEW queue \in Seq(Msg(P)), queue # <<>>,
           InTimeOrder(queue)
    PROVE  /\ Tail(queue) \in Seq(Msg(P)) /\ Len(Tail(queue)) = Len(queue) - 1 /\ Len(queue) >= 1
           /\ \A i \in 1 .. Len(Tail(queue)) : i + 1 \in 1 .. Len(queue) /\ Tail(queue)[i] = queue[i + 1]
           /\ Head(queue) = queue[1] /\ queue[1] \in Msg(P) /\ 1 \in 1 .. Len(queue)
           /\ InTimeOrder(Tail(queue))
<1>1. /\ Tail(queue) \in Seq(Msg(P)) /\ Len(Tail(queue)) = Len(queue) - 1
      /\ \A i \in 1 .. Len(Tail(queue)) : Tail(queue)[i] = queue[i + 1]
      /\ Head(queue) = queue[1]
  BY HeadTailProperties
<1>2. Len(queue) \in Nat /\ Len(queue) >= 1
  BY EmptySeq, LenProperties
<1>3. queue[1] \in Msg(P)
  BY <1>2, ElementOfSeq
<1>4. \A i \in 1 .. Len(Tail(queue)) : i + 1 \in 1 .. Len(queue)
  BY <1>1, <1>2
<1>5. InTimeOrder(Tail(queue))
  BY <1>1, <1>2, <1>4 DEF InTimeOrder
<1> QED
  BY <1>1, <1>2, <1>3, <1>4, <1>5

\* Who reads in time reads a packet in the tic in which it comes.
LEMMA ReadInTime ==
    ASSUME NEW P, NEW queue \in Seq(Msg(P)), now \in Nat, Waiting(queue), DueFrom(queue, now)
    PROVE  queue # <<>> /\ queue[1].due = now
<1>1. queue # <<>> /\ Head(queue).due <= now /\ Head(queue) = queue[1]
  BY HeadTailProperties DEF Waiting
<1>2. 1 \in 1 .. Len(queue)
  BY <1>1, EmptySeq, LenProperties
<1>3. queue[1].due >= now /\ queue[1].due \in Nat
  BY <1>2, DueIsTime DEF DueFrom
<1> QED
  BY <1>1, <1>3

\* When there is nothing to read, a tic passes before the next packet comes.
LEMMA NothingWaits ==
    ASSUME NEW P, NEW queue \in Seq(Msg(P)), now \in Nat, ~Waiting(queue), InTimeOrder(queue)
    PROVE  DueFrom(queue, now + 1)
<1> SUFFICES ASSUME NEW i \in 1 .. Len(queue)
             PROVE  queue[i].due >= now + 1
  BY DEF DueFrom
<1>1. queue # <<>> /\ 1 \in 1 .. Len(queue) /\ 1 <= i
  BY LenProperties, EmptySeq
<1>2. Head(queue) = queue[1]
  BY <1>1, HeadTailProperties
<1>3. queue[1].due \in Nat /\ queue[i].due \in Nat
  BY <1>1, DueIsTime
<1>4. queue[1].due > now
  BY <1>1, <1>2, <1>3 DEF Waiting
<1>5. queue[1].due <= queue[i].due
  BY <1>1 DEF InTimeOrder
<1> QED
  BY <1>3, <1>4, <1>5

\* Queue r is the queue with one more packet, which comes within `travel' tics
\* unless one before it takes longer.
Extends(r, queue, p, travel) ==
    /\ Len(r) = Len(queue) + 1
    /\ \A i \in 1 .. Len(queue) : r[i] = queue[i]
    /\ r[Len(r)].pkt = p
    /\ r[Len(r)].due >= now
    /\ \/ r[Len(r)].due <= now + travel
       \/ Len(queue) > 0 /\ r[Len(r)].due = queue[Len(queue)].due
    /\ queue = <<>> => r[Len(r)].due <= now + travel

\* A packet that travels no longer than `most' extends the queue by one.
LEMMA ArrivingExtends ==
    ASSUME NEW P, NEW queue \in Seq(Msg(P)), NEW p \in P, NEW travel \in Nat, NEW most \in Nat,
           travel <= most, now \in Nat, InTimeOrder(queue),
           NEW r, r = Arriving(queue, p, travel)
    PROVE  r \in Seq(Msg(P)) /\ InTimeOrder(r) /\ Extends(r, queue, p, most)
<1>1. /\ r \in Seq(Msg(P)) /\ Len(r) = Len(queue) + 1
      /\ \A i \in 1 .. Len(queue) : r[i] = queue[i]
      /\ r[Len(r)].pkt = p
      /\ r[Len(r)].due >= now + travel
      /\ \/ r[Len(r)].due = now + travel
         \/ Len(queue) > 0 /\ r[Len(r)].due = queue[Len(queue)].due
      /\ queue = <<>> => r[Len(r)].due = now + travel
      /\ InTimeOrder(r)
  BY SentLast
<1>2. Len(r) \in 1 .. Len(r)
  BY <1>1, LenProperties
<1>3. r[Len(r)].due \in Nat
  BY <1>1, <1>2, DueIsTime
<1> QED
  BY <1>1, <1>3 DEF Extends

\* What becomes of a packet that is sent.
LEMMA Travels ==
    ASSUME NEW P, NEW queue \in Seq(Msg(P)), NEW p \in P, now \in Nat, InTimeOrder(queue), Prompt,
           NEW t \in Transit, NEW s, s = [queue |-> Arriving(queue, p, t), faults |-> faults]
    PROVE  /\ s.queue \in Seq(Msg(P)) /\ InTimeOrder(s.queue)
           /\ Extends(s.queue, queue, p, MaxTransit) /\ s.faults = faults
<1>1. t \in Nat /\ t <= MaxTransit /\ MaxTransit \in Nat
  BY TransitFacts
<1>2. s.queue = Arriving(queue, p, t) /\ s.faults = faults
  OBVIOUS
<1> QED
  BY <1>1, <1>2, ArrivingExtends

\* A packet that is late.
LEMMA IsLate ==
    ASSUME NEW P, NEW queue \in Seq(Msg(P)), NEW p \in P, now \in Nat, InTimeOrder(queue),
           NEW s, s = [queue |-> Arriving(queue, p, Late), faults |-> faults + 1]
    PROVE  /\ s.queue \in Seq(Msg(P)) /\ InTimeOrder(s.queue)
           /\ Extends(s.queue, queue, p, Late) /\ s.faults = faults + 1
<1>1. Late \in Nat
  BY RottSyncAssumption
<1>2. s.queue = Arriving(queue, p, Late) /\ s.faults = faults + 1
  OBVIOUS
<1> QED
  BY <1>1, <1>2, ArrivingExtends

\* A queue that got one more packet.
LEMMA ExtendsFacts ==
    ASSUME NEW P, NEW queue \in Seq(Msg(P)), NEW r \in Seq(Msg(P)), NEW p, NEW travel \in Nat,
           now \in Nat, Extends(r, queue, p, travel)
    PROVE  /\ \A t \in Int : DueFrom(queue, t) /\ t <= now => DueFrom(r, t)
           /\ \A t \in Int : DueBy(queue, t) /\ now + travel <= t => DueBy(r, t)
           /\ \A i \in 1 .. Len(r) : \/ i \in 1 .. Len(queue) /\ r[i] = queue[i]
                                     \/ i = Len(queue) + 1 /\ r[i].pkt = p
           /\ r # <<>>
           /\ queue = <<>> => /\ Len(r) = 1 /\ r[1].pkt = p
                              /\ now <= r[1].due /\ r[1].due <= now + travel
<1>1. /\ Len(queue) \in Nat /\ Len(r) \in Nat
      /\ \A i \in 1 .. Len(r) : r[i].due \in Nat
      /\ \A i \in 1 .. Len(queue) : queue[i].due \in Nat
  BY LenProperties, DueIsTime
<1>2. \A i \in 1 .. Len(r) : \/ i \in 1 .. Len(queue) /\ r[i] = queue[i]
                             \/ i = Len(queue) + 1 /\ r[i].pkt = p
  BY <1>1 DEF Extends
<1>3. ASSUME NEW t \in Int, DueFrom(queue, t), t <= now
      PROVE  DueFrom(r, t)
  BY <1>1, <1>2, <1>3 DEF DueFrom, Extends
<1>4. ASSUME NEW t \in Int, DueBy(queue, t), now + travel <= t
      PROVE  DueBy(r, t)
  BY <1>1, <1>2, <1>4 DEF DueBy, Extends
<1>5. r # <<>>
  BY <1>1, EmptySeq DEF Extends
<1>6. queue = <<>> => Len(queue) = 0
  BY EmptySeq
<1> QED
  BY <1>1, <1>2, <1>3, <1>4, <1>5, <1>6 DEF Extends
-----------------------------------------------------------------------------
(* What a step of the master leaves alone                                  *)

\* What the steps need of the type invariant.
LEMMA TypeFacts ==
    ASSUME TypeOK
    PROVE  /\ now \in Nat /\ faults \in Nat /\ client \in Client
           /\ toMaster \in Seq(Msg(SyncPacket))
           /\ \A c \in Client : toSlave[c] \in Seq(Msg(SyncPacket \cup StartPacket))
           /\ \A c \in Client : c \in Int
           /\ \A c \in Client : offset[c] \in Int /\ ssince[c] \in Int /\ ssendtime[c] \in Int
<1>1. \A c \in Client : c \in Int
  BY RottSyncAssumption DEF Client
<1>2. faults \in Nat
  BY RottSyncAssumption DEF TypeOK
<1>3. /\ toMaster \in Seq(Msg(SyncPacket))
      /\ \A c \in Client : toSlave[c] \in Seq(Msg(SyncPacket \cup StartPacket))
  BY DEF TypeOK, Msg
<1> QED
  BY <1>1, <1>2, <1>3 DEF TypeOK

\* A step that leaves a client, its packets and the master alone.
LEMMA SameClient ==
    ASSUME NEW c \in Client, ClientOK(c), now' = now, UNCHANGED masterVars,
           sstate'[c] = sstate[c], offset'[c] = offset[c], ssince'[c] = ssince[c],
           ssendtime'[c] = ssendtime[c], sdone'[c] = sdone[c], toSlave'[c] = toSlave[c],
           Current(c) => toMaster' = toMaster /\ faults' = faults
    PROVE  ClientOK(c)'
<1> USE DEF masterVars
<1>1. QueueOK(c)'
  BY DEF ClientOK, QueueOK, InTimeOrder, DueBy, DueFrom
<1>2. DrainOK(c)'
  BY DEF ClientOK, DrainOK, Answered, DueFrom
<1>3. Later(c)' => LaterOK(c)'
  BY DEF ClientOK, Later, LaterOK, Memos, IsMemo, IsSync, Starting
<1>4. Earlier(c)' => EarlierOK(c)'
  BY DEF ClientOK, Earlier, EarlierOK, Starts, IsStart, Starting, StartSent, Synchronised, Near, StartPkt
<1>5. Current(c)' => CurrentOK(c)'
  <2> SUFFICES ASSUME Current(c)
               PROVE  CurrentOK(c)'
    BY DEF Current, Starting
  <2>1. toMaster' = toMaster /\ faults' = faults
    OBVIOUS
  <2>2. HelloOK(c)' <=> HelloOK(c)
    BY <2>1 DEF HelloOK, Hellos, IsHello, IsSync, MemosThenHellos, IsMemo, LateLeft, FirstAnswer, DueBy,
                Answered, AnswersClose
  <2>3. MasterDrainOK(c)' <=> MasterDrainOK(c)
    BY <2>1 DEF MasterDrainOK, Hellos, IsHello, IsSync, LateLeft, DueBy, Answered
  <2>4. RestOK(c)' <=> RestOK(c)
    BY <2>1 DEF RestOK, Answered
  <2>5. LeavingOK(c)' <=> LeavingOK(c)
    BY <2>1 DEF LeavingOK, OutboundOK, Near
  <2>6. PingPongOK(c)' <=> PingPongOK(c)
    BY <2>1 DEF PingPongOK, OutboundOK, InboundOK, IsSync
  <2>7. CurrentOK(c)
    BY DEF ClientOK
  <2>8. /\ mstate' = mstate /\ pkt' = pkt /\ done' = done /\ sendtime' = sendtime
        /\ FreshPkt' = FreshPkt
    BY DEF FreshPkt
  <2>9. CurrentOK(c)' <=> CurrentOK(c)
    BY <2>2, <2>3, <2>4, <2>5, <2>6, <2>8 DEF CurrentOK
  <2> QED
    BY <2>7, <2>9
<1> QED
  BY <1>1, <1>2, <1>3, <1>4, <1>5 DEF ClientOK

\* A step of the master in the turn of another client.
LEMMA OtherClient ==
    ASSUME NEW c \in Client, ClientOK(c), now' = now,
           sstate'[c] = sstate[c], offset'[c] = offset[c], ssince'[c] = ssince[c],
           ssendtime'[c] = ssendtime[c], sdone'[c] = sdone[c], toSlave'[c] = toSlave[c],
           ~Current(c)', Later(c)' => Later(c), Earlier(c)' => Earlier(c),
           (StartSent' <=> StartSent), controlsynctime' = controlsynctime
    PROVE  ClientOK(c)'
<1>1. QueueOK(c)'
  BY DEF ClientOK, QueueOK, InTimeOrder, DueBy, DueFrom
<1>2. DrainOK(c)'
  BY DEF ClientOK, DrainOK, Answered, DueFrom
<1>3. Later(c)' => LaterOK(c)'
  <2>1. LaterOK(c)' <=> LaterOK(c)
    BY DEF LaterOK, Memos, IsMemo, IsSync
  <2> QED
    BY <2>1 DEF ClientOK
<1>4. Earlier(c)' => EarlierOK(c)'
  <2>1. EarlierOK(c)' <=> EarlierOK(c)
    BY DEF EarlierOK, Starts, IsStart, Synchronised, Near, StartPkt
  <2> QED
    BY <2>1 DEF ClientOK
<1> QED
  BY <1>1, <1>2, <1>3, <1>4 DEF ClientOK

\* The stages of the turn of one client.
Turn == {"hello", "drain", "rest", "phases", "settle"}

\* A step of the master within the turn of a client: what is to be shown.
LEMMA TurnStep ==
    ASSUME SyncInv, now' = now, UNCHANGED <<slaveVars, client, controlsynctime>>,
           mstate \in Turn, mstate' \in Turn,
           \A c \in Client : c # client => toSlave'[c] = toSlave[c],
           TypeOK', TimesOK',
           InTimeOrder(toMaster)', DueFrom(toMaster, now)',
           QueueOK(client)', DrainOK(client)', CurrentOK(client)'
    PROVE  SyncInv'
<1>0. client \in Client /\ \A c \in Client : c \in Int
  BY TypeFacts DEF SyncInv
<1>1. ~Starting /\ ~Starting' /\ ~StartSent /\ ~StartSent' /\ mstate' # "begin" /\ mstate # "begin"
  BY DEF Turn, Starting, StartSent
<1>2. MasterOK'
  BY <1>1 DEF MasterOK
<1>3. ASSUME NEW c \in Client
      PROVE  ClientOK(c)'
  <2>1. CASE c = client
    <3>1. ~Later(c)' /\ ~Earlier(c)'
      BY <1>0, <1>1, <2>1 DEF Later, Earlier
    <3>2. QueueOK(c)' /\ DrainOK(c)' /\ CurrentOK(c)'
      BY <2>1
    <3> QED
      BY <3>1, <3>2 DEF ClientOK
  <2>2. CASE c # client
    <3>1. ~Current(c)' /\ (Later(c)' => Later(c)) /\ (Earlier(c)' => Earlier(c))
      BY <1>1, <2>2 DEF Current, Later, Earlier
    <3>2. /\ sstate'[c] = sstate[c] /\ offset'[c] = offset[c] /\ ssince'[c] = ssince[c]
          /\ ssendtime'[c] = ssendtime[c] /\ sdone'[c] = sdone[c] /\ toSlave'[c] = toSlave[c]
          /\ controlsynctime' = controlsynctime
      BY <2>2 DEF slaveVars
    <3>3. ClientOK(c) /\ (StartSent' <=> StartSent)
      BY <1>1 DEF SyncInv
    <3> QED
      BY <3>1, <3>2, <3>3, OtherClient
  <2> QED
    BY <2>1, <2>2
<1> QED
  BY <1>2, <1>3 DEF SyncInv

\* What holds in the turn of a client.
LEMMA InTurn ==
    ASSUME SyncInv, mstate \in Turn
    PROVE  /\ client \in Client /\ CurrentOK(client) /\ QueueOK(client) /\ DrainOK(client)
           /\ InTimeOrder(toMaster) /\ DueFrom(toMaster, now)
           /\ toMaster \in Seq(Msg(SyncPacket)) /\ now \in Nat /\ faults \in Nat
           /\ toSlave[client] \in Seq(Msg(SyncPacket \cup StartPacket))
           /\ offset[client] \in Int /\ ssince[client] \in Int
<1>1. client \in Client
  BY TypeFacts DEF SyncInv
<1>2. Current(client)
  BY DEF Current, Turn, Starting
<1> QED
  BY <1>1, <1>2, TypeFacts DEF SyncInv, ClientOK, MasterOK
-----------------------------------------------------------------------------
(* The hello: steps of the master                                          *)

\* A fresh packet is a hello.
LEMMA FreshPktType == FreshPkt \in SyncPacket /\ IsHello(FreshPkt) /\ FreshPkt.phase = SYNC_PHASE0 /\ FreshPkt.type = "sync"
BY DEF FreshPkt, SyncPacket, IsHello, IsSync, SYNC_PHASE0

\* A sending to the slave: what the queue and the number of faults become.
LEMMA ToSlaveFacts ==
    ASSUME TypeOK, Prompt, InTimeOrder(toSlave[client]), NEW p \in SyncPacket, SendToSlave(p)
    PROVE  /\ sendtime' = now /\ faults' \in 0 .. MaxFaults
           /\ toSlave' \in [Client -> Seq(Msg(SyncPacket \cup StartPacket))]
           /\ \A c \in Client : c # client => toSlave'[c] = toSlave[c]
           /\ InTimeOrder(toSlave'[client])
           /\ \/ toSlave'[client] = toSlave[client] /\ faults' = faults + 1 /\ p.phase \in Lossy
              \/ Extends(toSlave'[client], toSlave[client], p, MaxTransit) /\ faults' = faults
<1> DEFINE Q == Seq(Msg(SyncPacket \cup StartPacket))
<1>1. client \in Client /\ toSlave \in [Client -> Q] /\ now \in Nat /\ faults \in 0 .. MaxFaults
  BY DEF TypeOK, Msg
<1>2. PICK s \in Sent(toSlave[client], p, FALSE) :
         toSlave' = [toSlave EXCEPT ![client] = s.queue] /\ faults' = s.faults
  BY DEF SendToSlave
<1>3. p \in SyncPacket \cup StartPacket /\ toSlave[client] \in Q
  BY <1>1
<1>4. /\ s.queue \in Q /\ InTimeOrder(s.queue)
      /\ \/ s.queue = toSlave[client] /\ s.faults = faults + 1 /\ faults < MaxFaults /\ p.phase \in Lossy
         \/ Extends(s.queue, toSlave[client], p, MaxTransit) /\ s.faults = faults
  <2>1. CASE s \in {[queue |-> Arriving(toSlave[client], p, t), faults |-> faults] : t \in Transit}
    <3> PICK t \in Transit : s = [queue |-> Arriving(toSlave[client], p, t), faults |-> faults]
      BY <2>1
    <3> QED
      BY <1>1, <1>3, Travels
  <2>2. CASE s = [queue |-> toSlave[client], faults |-> faults + 1] /\ faults < MaxFaults /\ p.phase \in Lossy
    BY <1>3, <2>2
  <2> QED
    BY <1>2, <2>1, <2>2 DEF Sent
<1>5. toSlave'[client] = s.queue /\ toSlave' \in [Client -> Q]
      /\ \A c \in Client : c # client => toSlave'[c] = toSlave[c]
  BY <1>1, <1>2, <1>4
<1>6. faults' \in 0 .. MaxFaults
  BY <1>1, <1>2, <1>4, RottSyncAssumption
<1> QED
  BY <1>2, <1>4, <1>5, <1>6 DEF SendToSlave

\* A lost SYNC_PHASE5 is noted, and nothing that was noted is forgotten.
LEMMA MissedFacts ==
    ASSUME TypeOK, NEW p, SendToSlave(p)
    PROVE  /\ missed \subseteq missed' /\ missed' \in SUBSET Client
           /\ p.phase = SYNC_PHASE5 /\ faults' > faults => client \in missed'
<1>1. missed \in SUBSET Client /\ client \in Client
  BY DEF TypeOK
<1>2. missed' = missed \cup {c \in {client} : p.phase = SYNC_PHASE5 /\ faults' > faults}
  BY DEF SendToSlave
<1> QED
  BY <1>1, <1>2

\* The hello is sent, or sent again after SYNCTIME: the one before it has come.
LEMMA SendHelloKeeps == ASSUME SyncInv, NetworkAssumption, SendHello PROVE SyncInv'
<1> DEFINE c == client
           q == toSlave[c]
           r == toSlave'[c]
<1>1. /\ mstate = "hello" /\ mstate' = "hello" /\ now' = now /\ SendToSlave(pkt) /\ mstate \in Turn
      /\ UNCHANGED <<now, mstate, client, pkt, since, dtime, deltatime, done, transittimes,
                     controlsynctime, slaveVars, toMaster>>
  BY DEF SendHello, MasterAt, Turn
<1>2. /\ c \in Client /\ HelloOK(c) /\ pkt = FreshPkt /\ QueueOK(c) /\ DrainOK(c)
      /\ InTimeOrder(toMaster) /\ DueFrom(toMaster, now)
      /\ toMaster \in Seq(Msg(SyncPacket)) /\ now \in Nat /\ faults \in Nat
      /\ q \in Seq(Msg(SyncPacket \cup StartPacket))
      /\ offset[c] \in Int /\ ssince[c] \in Int
  BY <1>1, InTurn DEF CurrentOK
<1>3. /\ sendtime' = now /\ faults' \in 0 .. MaxFaults
      /\ toSlave' \in [Client -> Seq(Msg(SyncPacket \cup StartPacket))]
      /\ \A d \in Client : d # client => toSlave'[d] = toSlave[d]
      /\ InTimeOrder(r)
      /\ \/ r = q /\ faults' = faults + 1
         \/ Extends(r, q, pkt, MaxTransit) /\ faults' = faults
  BY <1>1, <1>2, FreshPktType, ToSlaveFacts DEF SyncInv, QueueOK, NetworkAssumption
<1>4. r \in Seq(Msg(SyncPacket \cup StartPacket)) /\ MaxTransit \in Nat /\ MaxFaults \in Nat
  BY <1>2, <1>3, TransitFacts, RottSyncAssumption DEF NetworkAssumption
<1>5. /\ \A t \in Int : DueFrom(q, t) /\ t <= now => DueFrom(r, t)
      /\ \A t \in Int : DueBy(q, t) /\ now + MaxTransit <= t => DueBy(r, t)
      /\ \A i \in 1 .. Len(r) : \/ i \in 1 .. Len(q) /\ r[i] = q[i]
                                \/ i = Len(q) + 1 /\ r[i].pkt = pkt
      /\ Len(q) \in Nat /\ Len(r) \in Nat
  <2>1. CASE r = q
    BY <1>2, <2>1, LenProperties
  <2>2. CASE Extends(r, q, pkt, MaxTransit)
    BY <1>2, <1>4, <2>2, ExtendsFacts, LenProperties
  <2> QED
    BY <1>3, <2>1, <2>2
<1>6. IsHello(pkt) /\ ~IsMemo(pkt)
  BY <1>2, FreshPktType DEF IsMemo, IsSync, SYNC_PHASE0, SYNC_MEMO
<1> HIDE DEF q, r
<1>7. TypeOK'
  <2>1. toSlave' \in [Client -> Seq([pkt : SyncPacket \cup StartPacket, due : Nat])]
    BY <1>3 DEF Msg
  <2>2. TypeOK
    BY DEF SyncInv
  <2>3. sendtime' \in Int /\ faults' \in 0 .. MaxFaults /\ missed' \in SUBSET Client
    BY <1>1, <1>2, <1>3, <2>2, MissedFacts
  <2>4. UNCHANGED <<now, mstate, client, pkt, since, dtime, deltatime, done, transittimes,
                    controlsynctime, sstate, offset, ssince, ssendtime, sdone, scontrolsynctime, toMaster>>
    BY <1>1 DEF slaveVars
  <2> QED
    BY <2>1, <2>2, <2>3, <2>4 DEF TypeOK
<1>8. TimesOK'
  BY <1>1 DEF SyncInv, TimesOK
<1>9. QueueOK(c)'
  BY <1>1, <1>2, <1>3, <1>4, <1>5 DEF QueueOK, slaveVars, q, r
<1>10. DrainOK(c)'
  BY <1>1, <1>2, <1>3, <1>4, <1>5 DEF DrainOK, slaveVars, q, r, Answered
<1>11. CurrentOK(c)'
  <2>1. HelloOK(c)'
    <3>1. sstate[c] \in {"loading", "hello"} => MemosThenHellos(r)
      BY <1>2, <1>5, <1>6 DEF HelloOK, MemosThenHellos, q
    <3>2. sstate[c] \in {"drain", "phases"} => Hellos(r)
      BY <1>2, <1>5, <1>6 DEF HelloOK, Hellos, q
    <3>3. LateLeft' => LateLeft
      BY <1>2, <1>3, <1>4 DEF LateLeft, NetworkAssumption, LateOnce
    <3> QED
      BY <1>1, <1>2, <3>1, <3>2, <3>3 DEF HelloOK, slaveVars, r, FirstAnswer, Answered, AnswersClose
  <2> QED
    BY <1>1, <1>2, <1>3, <2>1 DEF CurrentOK, FreshPkt
<1> QED
  BY <1>1, <1>2, <1>3, <1>7, <1>8, <1>9, <1>10, <1>11, TurnStep

\* When the master reads, it reads a packet of this tic.
LEMMA MasterReadFacts ==
    ASSUME SyncInv, MasterReceives
    PROVE  /\ toMaster # <<>> /\ toMaster' = Tail(toMaster) /\ Head(toMaster) = toMaster[1]
           /\ toMaster \in Seq(Msg(SyncPacket)) /\ Tail(toMaster) \in Seq(Msg(SyncPacket))
           /\ toMaster[1].due = now /\ toMaster[1].pkt \in SyncPacket
           /\ Len(toMaster) \in Nat /\ Len(toMaster) >= 1 /\ 1 \in 1 .. Len(toMaster)
           /\ Len(Tail(toMaster)) = Len(toMaster) - 1
           /\ \A i \in 1 .. Len(Tail(toMaster)) : /\ i + 1 \in 1 .. Len(toMaster)
                                                  /\ Tail(toMaster)[i] = toMaster[i + 1]
           /\ InTimeOrder(Tail(toMaster)) /\ DueFrom(Tail(toMaster), now)
<1> DEFINE q == toMaster
<1>1. q \in Seq(Msg(SyncPacket)) /\ InTimeOrder(q) /\ DueFrom(q, now) /\ Waiting(q) /\ now \in Nat
      /\ toMaster' = Tail(q)
  BY TypeFacts DEF SyncInv, MasterOK, MasterReceives
<1> HIDE DEF q
<1>2. q # <<>> /\ q[1].due = now
  BY <1>1, ReadInTime
<1>3. /\ Tail(q) \in Seq(Msg(SyncPacket)) /\ Len(Tail(q)) = Len(q) - 1 /\ Len(q) >= 1
      /\ \A i \in 1 .. Len(Tail(q)) : i + 1 \in 1 .. Len(q) /\ Tail(q)[i] = q[i + 1]
      /\ Head(q) = q[1] /\ 1 \in 1 .. Len(q)
      /\ InTimeOrder(Tail(q))
  BY <1>1, <1>2, ReadFirst
<1>4. q[1].pkt \in SyncPacket /\ Len(q) \in Nat
  BY <1>1, <1>3, DueIsTime, LenProperties
<1>5. DueFrom(Tail(q), now)
  BY <1>1, <1>3 DEF DueFrom
<1> QED
  BY <1>1, <1>2, <1>3, <1>4, <1>5 DEF q

\* The first answer ends the master's wait: the other answers come within
\* less than SYNCTIME, while it throws packets away.
LEMMA HelloAnsweredKeeps == ASSUME SyncInv, NetworkAssumption, HelloAnswered PROVE SyncInv'
<1> DEFINE c == client
           q == toMaster
<1>1. /\ mstate = "hello" /\ now' = now /\ MasterReceives /\ mstate \in Turn
      /\ UNCHANGED <<now, client, pkt, sendtime, dtime, deltatime, done, transittimes,
                     controlsynctime, missed, slaveVars, toSlave, faults>>
      /\ LET answer == Head(toMaster).pkt IN
         IF answer.phase = SYNC_PHASE0
         THEN mstate' = "drain" /\ since' = now ELSE UNCHANGED <<mstate, since>>
  BY DEF HelloAnswered, Turn
<1>2. /\ c \in Client /\ HelloOK(c) /\ pkt = FreshPkt /\ QueueOK(c) /\ DrainOK(c)
      /\ now \in Nat /\ faults \in Nat
      /\ offset[c] \in Int /\ ssince[c] \in Int
  BY <1>1, InTurn DEF CurrentOK
<1>3. /\ q # <<>> /\ toMaster' = Tail(q) /\ Head(q) = q[1]
      /\ q \in Seq(Msg(SyncPacket)) /\ Tail(q) \in Seq(Msg(SyncPacket))
      /\ q[1].due = now
      /\ Len(q) \in Nat /\ Len(q) >= 1 /\ 1 \in 1 .. Len(q)
      /\ Len(Tail(q)) = Len(q) - 1
      /\ \A i \in 1 .. Len(Tail(q)) : i + 1 \in 1 .. Len(q) /\ Tail(q)[i] = q[i + 1]
      /\ InTimeOrder(Tail(q)) /\ DueFrom(Tail(q), now)
  BY <1>1, MasterReadFacts
<1>4. MaxTransit \in Nat /\ SYNCTIME \in Nat /\ 2 * MaxTransit < SYNCTIME
  BY TransitFacts DEF NetworkAssumption
<1>5. mstate' = "drain" /\ since' = now
  BY <1>1, <1>2, <1>3 DEF HelloOK, Hellos, IsHello, IsSync
<1>6. TypeOK'
  <2>1. TypeOK /\ toMaster' \in Seq([pkt : SyncPacket, due : Nat])
    BY <1>3 DEF SyncInv, Msg
  <2>2. UNCHANGED <<now, client, pkt, sendtime, dtime, deltatime, done, transittimes,
                    controlsynctime, missed, sstate, offset, ssince, ssendtime, sdone, scontrolsynctime,
                    toSlave, faults>>
    BY <1>1 DEF slaveVars
  <2> QED
    BY <1>2, <1>5, <2>1, <2>2 DEF TypeOK
<1>7. TimesOK'
  BY <1>1 DEF SyncInv, TimesOK
<1>8. QueueOK(c)'
  BY <1>1, <1>2 DEF QueueOK, slaveVars, InTimeOrder, DueBy, DueFrom
<1>9. DrainOK(c)'
  BY <1>1, <1>2 DEF DrainOK, slaveVars, Answered, DueFrom
<1>10. \A i \in 1 .. Len(q) : q[i].due \in Nat
  BY <1>3, DueIsTime
<1> HIDE DEF q
<1>11. CurrentOK(c)'
  <2>1. sstate[c] \in {"drain", "phases"} /\ ~sdone[c] /\ Hellos(toSlave[c])
    BY <1>2, <1>3 DEF HelloOK, q
  <2>2. Hellos(Tail(q))
    BY <1>2, <1>3 DEF HelloOK, Hellos, q
  <2>3. DueBy(Tail(q), now + SYNCTIME - 1)
    <3>1. CASE Late + MaxTransit < SYNCTIME
      BY <1>2, <1>3, <3>1 DEF HelloOK, AnswersClose, DueBy, q
    <3>2. CASE ~(Late + MaxTransit < SYNCTIME)
      <4>1. \A i \in 1 .. Len(q) : q[i].due <= q[1].due + MaxTransit \/ q[i].due <= now + MaxTransit
        BY <1>2, <3>2 DEF HelloOK, AnswersClose, q
      <4> QED
        BY <1>2, <1>3, <1>4, <1>10, <4>1 DEF DueBy
    <3> QED
      BY <3>1, <3>2
  <2>4. DueBy(toSlave[c], now + MaxTransit)
    BY <1>2 DEF QueueOK
  <2>5. LateLeft => sstate[c] = "drain" /\ now <= Answered(c) + MaxTransit
    BY <1>2, <1>3, <2>1 DEF HelloOK, FirstAnswer, DueBy, q
  <2>6. sstate[c] = "drain" => Answered(c) <= now
    BY <1>2 DEF DrainOK
  <2>7. MasterDrainOK(c)'
    BY <1>1, <1>2, <1>3, <1>4, <1>5, <2>1, <2>2, <2>3, <2>4, <2>5, <2>6
       DEF MasterDrainOK, slaveVars, Answered, LateLeft
  <2> QED
    BY <1>1, <1>2, <1>5, <2>7 DEF CurrentOK, FreshPkt
<1>12. mstate' \in Turn /\ InTimeOrder(toMaster)' /\ DueFrom(toMaster, now)'
  BY <1>1, <1>3, <1>5 DEF Turn
<1> QED
  BY <1>1, <1>6, <1>7, <1>8, <1>9, <1>11, <1>12, TurnStep

\* The master throws a packet away.
LEMMA MasterDiscardsKeeps == ASSUME SyncInv, NetworkAssumption, MasterDiscards PROVE SyncInv'
<1> DEFINE c == client
           q == toMaster
<1>1. /\ MasterReceives
      /\ UNCHANGED <<now, masterVars, slaveVars, toSlave, faults>>
      /\ mstate \in {"drain", "flush"}
  BY DEF MasterDiscards
<1>2. /\ q # <<>> /\ toMaster' = Tail(q)
      /\ q \in Seq(Msg(SyncPacket)) /\ Tail(q) \in Seq(Msg(SyncPacket))
      /\ Len(q) \in Nat /\ Len(q) >= 1
      /\ Len(Tail(q)) = Len(q) - 1
      /\ \A i \in 1 .. Len(Tail(q)) : i + 1 \in 1 .. Len(q) /\ Tail(q)[i] = q[i + 1]
      /\ InTimeOrder(Tail(q)) /\ DueFrom(Tail(q), now)
  BY <1>1, MasterReadFacts
<1>3. mstate = "drain" /\ mstate \in Turn
  BY <1>1, <1>2 DEF SyncInv, MasterOK, Starting, Turn
<1>4. /\ c \in Client /\ MasterDrainOK(c) /\ pkt = FreshPkt /\ QueueOK(c) /\ DrainOK(c) /\ now \in Nat
  BY <1>3, InTurn DEF CurrentOK
<1>5. UNCHANGED <<now, mstate, client, pkt, sendtime, since, dtime, deltatime, done, transittimes,
                  controlsynctime, missed, sstate, offset, ssince, ssendtime, sdone, scontrolsynctime,
                  toSlave, faults>>
  BY <1>1 DEF masterVars, slaveVars
<1>6. TypeOK'
  <2>1. TypeOK /\ toMaster' \in Seq([pkt : SyncPacket, due : Nat])
    BY <1>2 DEF SyncInv, Msg
  <2> QED
    BY <1>5, <2>1 DEF TypeOK
<1>7. TimesOK'
  BY <1>5 DEF SyncInv, TimesOK
<1>8. QueueOK(c)'
  BY <1>5, <1>4 DEF QueueOK, InTimeOrder, DueBy, DueFrom
<1>9. DrainOK(c)'
  BY <1>5, <1>4 DEF DrainOK, Answered, DueFrom
<1> HIDE DEF q
<1>10. CurrentOK(c)'
  <2>1. Hellos(Tail(q)) /\ DueBy(Tail(q), since + SYNCTIME - 1)
    BY <1>2, <1>4 DEF MasterDrainOK, Hellos, DueBy, q
  <2>2. MasterDrainOK(c)'
    BY <1>5, <1>2, <1>4, <2>1 DEF MasterDrainOK, Answered, LateLeft
  <2> QED
    BY <1>3, <1>4, <1>5, <2>2 DEF CurrentOK, FreshPkt
<1>11. InTimeOrder(toMaster)' /\ DueFrom(toMaster, now)'
  BY <1>2, <1>5
<1> QED
  BY <1>1, <1>3, <1>5, <1>6, <1>7, <1>8, <1>9, <1>10, <1>11, TurnStep

\* The slave's packets and its pause when nothing of them changes.
LEMMA SlaveKept ==
    ASSUME NEW c \in Client, QueueOK(c), DrainOK(c), UNCHANGED <<now, slaveVars, toSlave>>
    PROVE  QueueOK(c)' /\ DrainOK(c)'
BY DEF QueueOK, DrainOK, slaveVars, InTimeOrder, DueBy, DueFrom, Answered

\* A queue whose packets would have had to be read by now is empty.
LEMMA NothingLeft ==
    ASSUME NEW P, NEW queue \in Seq(Msg(P)), NEW t \in Int, NEW u \in Int, t < u,
           DueBy(queue, t), DueFrom(queue, u)
    PROVE  queue = <<>>
<1> SUFFICES ASSUME queue # <<>>
             PROVE  FALSE
  OBVIOUS
<1>1. 1 \in 1 .. Len(queue)
  BY EmptySeq, LenProperties
<1>2. queue[1].due \in Nat
  BY <1>1, DueIsTime
<1> QED
  BY <1>1, <1>2 DEF DueBy, DueFrom

\* When the master stops throwing packets away nothing is on its way.
LEMMA EndDrainKeeps == ASSUME SyncInv, NetworkAssumption, EndDrain PROVE SyncInv'
<1> DEFINE c == client
           q == toSlave[c]
<1>1. /\ mstate = "drain" /\ mstate' = "rest" /\ since' = now /\ mstate \in Turn /\ mstate' \in Turn
      /\ now >= since + SYNCTIME
      /\ UNCHANGED <<now, client, pkt, sendtime, dtime, deltatime, done, transittimes,
                     controlsynctime, missed, slaveVars, network>>
  BY DEF EndDrain, MasterAt, MasterDeadline, Turn
<1>2. /\ c \in Client /\ MasterDrainOK(c) /\ pkt = FreshPkt /\ QueueOK(c) /\ DrainOK(c)
      /\ now \in Nat /\ offset[c] \in Int /\ ssince[c] \in Int /\ since \in Nat
      /\ toMaster \in Seq(Msg(SyncPacket)) /\ DueFrom(toMaster, now) /\ InTimeOrder(toMaster)
      /\ q \in Seq(Msg(SyncPacket \cup StartPacket))
  BY <1>1, InTurn DEF CurrentOK, SyncInv, TypeOK
<1>3. MaxTransit \in Nat /\ SYNCTIME \in Nat /\ 2 * MaxTransit < SYNCTIME
  BY TransitFacts DEF NetworkAssumption
<1>4. toMaster = <<>>
  BY <1>1, <1>2, <1>3, NothingLeft DEF MasterDrainOK
<1>5. DueFrom(q, now)
  <2>1. CASE sstate[c] = "phases"
    BY <1>2, <2>1 DEF QueueOK
  <2>2. CASE sstate[c] = "drain"
    <3>1. Answered(c) \in Int /\ Answered(c) <= since
      BY <1>2, <2>2 DEF MasterDrainOK, Answered
    <3>2. now > Answered(c)
      BY <1>1, <1>2, <1>3, <3>1
    <3> QED
      BY <1>2, <2>2, <3>2 DEF DrainOK
  <2> QED
    BY <1>2, <2>1, <2>2 DEF MasterDrainOK
<1>6. DueBy(q, since + MaxTransit) /\ since + MaxTransit < now
  BY <1>1, <1>2, <1>3 DEF MasterDrainOK
<1>7. q = <<>>
  BY <1>2, <1>3, <1>5, <1>6, NothingLeft
<1> HIDE DEF q
<1>8. CurrentOK(c)'
  <2>1. /\ sstate[c] \in {"drain", "phases"} /\ ~sdone[c]
        /\ sstate[c] = "drain" => ssince[c] - offset[c] + SYNCTIME <= now
    BY <1>1, <1>2, <1>3 DEF MasterDrainOK, Answered
  <2>2. UNCHANGED <<now, client, sstate, sdone, ssince, offset, toMaster, toSlave>>
    BY <1>1 DEF slaveVars, network
  <2>3. RestOK(c)'
    BY <1>1, <1>2, <1>3, <1>4, <1>7, <2>1, <2>2 DEF RestOK, Answered, q
  <2> QED
    BY <1>1, <1>2, <2>3 DEF CurrentOK, FreshPkt
<1>9. TypeOK'
  <2>1. TypeOK
    BY DEF SyncInv
  <2>2. UNCHANGED <<now, client, pkt, sendtime, dtime, deltatime, done, transittimes,
                    controlsynctime, missed, sstate, offset, ssince, ssendtime, sdone, scontrolsynctime,
                    toMaster, toSlave, faults>>
    BY <1>1 DEF slaveVars, network
  <2> QED
    BY <1>1, <1>2, <2>1, <2>2 DEF TypeOK
<1>10. TimesOK'
  BY <1>1 DEF SyncInv, TimesOK
<1>11. UNCHANGED <<now, slaveVars, toSlave, toMaster>>
  BY <1>1 DEF network
<1>12. QueueOK(c)' /\ DrainOK(c)'
  BY <1>1, <1>2, <1>11, SlaveKept
<1>13. InTimeOrder(toMaster)' /\ DueFrom(toMaster, now)'
  BY <1>2, <1>11 DEF InTimeOrder, DueFrom
<1> QED
  BY <1>1, <1>8, <1>9, <1>10, <1>11, <1>12, <1>13, TurnStep

\* The master enters the phases, and so has the slave.
LEMMA EndRestKeeps == ASSUME SyncInv, NetworkAssumption, EndRest PROVE SyncInv'
<1> DEFINE c == client
<1>1. /\ mstate = "rest" /\ mstate' = "phases" /\ mstate \in Turn /\ mstate' \in Turn
      /\ now >= since + SYNCTIME /\ done' = FALSE /\ sendtime' = now - SYNCTIME
      /\ pkt' = [pkt EXCEPT !.phase = SYNC_PHASE1]
      /\ UNCHANGED <<now, client, since, dtime, deltatime, transittimes, controlsynctime,
                     missed, slaveVars, network>>
  BY DEF EndRest, MasterAt, MasterDeadline, Turn
<1>2. /\ c \in Client /\ RestOK(c) /\ pkt = FreshPkt /\ QueueOK(c) /\ DrainOK(c)
      /\ now \in Nat /\ offset[c] \in Int /\ ssince[c] \in Int /\ since \in Nat
      /\ DueFrom(toMaster, now) /\ InTimeOrder(toMaster)
  BY <1>1, InTurn DEF CurrentOK, SyncInv, TypeOK
<1>3. SYNCTIME \in Nat /\ SYNCTIME > 0
  BY RottSyncAssumption
<1>4. sstate[c] = "phases" /\ ~sdone[c] /\ toMaster = <<>> /\ toSlave[c] = <<>>
  BY <1>1, <1>2, <1>3 DEF RestOK, DrainOK, Answered
<1>5. pkt' \in SyncPacket /\ pkt'.phase = SYNC_PHASE1
  BY <1>1, <1>2 DEF FreshPkt, SyncPacket, SYNC_PHASE1
<1>6. CurrentOK(c)'
  <2>1. PingPongOK(c)'
    BY <1>1, <1>2, <1>3, <1>4, <1>5 DEF PingPongOK, slaveVars, network, SYNC_PHASE1, SYNC_PHASE4
  <2> QED
    BY <1>1, <2>1 DEF CurrentOK
<1>7. TypeOK'
  <2>1. TypeOK
    BY DEF SyncInv
  <2>2. UNCHANGED <<now, client, since, dtime, deltatime, transittimes,
                    controlsynctime, missed, sstate, offset, ssince, ssendtime, sdone, scontrolsynctime,
                    toMaster, toSlave, faults>>
    BY <1>1 DEF slaveVars, network
  <2>3. mstate' = "phases" /\ done' = FALSE /\ sendtime' \in Int /\ pkt' \in SyncPacket
    BY <1>1, <1>2, <1>3, <1>5
  <2> QED
    BY <2>1, <2>2, <2>3 DEF TypeOK
<1>8. TimesOK'
  BY <1>1 DEF SyncInv, TimesOK
<1>9. UNCHANGED <<now, slaveVars, toSlave, toMaster>>
  BY <1>1 DEF network
<1>10. QueueOK(c)' /\ DrainOK(c)'
  BY <1>1, <1>2, <1>9, SlaveKept
<1>11. InTimeOrder(toMaster)' /\ DueFrom(toMaster, now)'
  BY <1>2, <1>9 DEF InTimeOrder, DueFrom
<1> QED
  BY <1>1, <1>6, <1>7, <1>8, <1>9, <1>10, <1>11, TurnStep

\* The master leaves the phases with SYNC_PHASE5 sent.
LEMMA LeaveSyncKeeps == ASSUME SyncInv, NetworkAssumption, LeaveSync PROVE SyncInv'
<1> DEFINE c == client
<1>1. /\ mstate = "phases" /\ done /\ mstate' = "settle" /\ mstate \in Turn /\ mstate' \in Turn
      /\ UNCHANGED <<now, client, pkt, sendtime, since, dtime, deltatime, done, transittimes,
                     controlsynctime, missed, slaveVars, network>>
  BY DEF LeaveSync, MasterAt, Turn
<1>2. /\ c \in Client /\ LeavingOK(c) /\ QueueOK(c) /\ DrainOK(c)
      /\ DueFrom(toMaster, now) /\ InTimeOrder(toMaster)
  BY <1>1, InTurn DEF CurrentOK
<1>3. UNCHANGED <<now, client, pkt, sendtime, since, dtime, deltatime, done, transittimes,
                  controlsynctime, missed, sstate, offset, ssince, ssendtime, sdone, scontrolsynctime,
                  toMaster, toSlave, faults>>
  BY <1>1 DEF slaveVars, network
<1>4. LeavingOK(c)'
  BY <1>2, <1>3 DEF LeavingOK, OutboundOK, Near
<1>5. CurrentOK(c)'
  BY <1>1, <1>4 DEF CurrentOK
<1>6. TypeOK'
  BY <1>1, <1>3 DEF SyncInv, TypeOK
<1>7. TimesOK'
  BY <1>3 DEF SyncInv, TimesOK
<1>8. QueueOK(c)' /\ DrainOK(c)'
  BY <1>1, <1>2, <1>3, SlaveKept
<1>9. InTimeOrder(toMaster)' /\ DueFrom(toMaster, now)'
  BY <1>2, <1>3 DEF InTimeOrder, DueFrom
<1> QED
  BY <1>1, <1>3, <1>5, <1>6, <1>7, <1>8, <1>9, TurnStep
-----------------------------------------------------------------------------
(* The phases: steps of the master                                         *)

\* When the master sends again neither the packet nor its answer is on its way.
LEMMA NothingOnItsWay ==
    ASSUME SyncInv, NetworkAssumption, mstate = "phases", ~done, now >= sendtime + SYNCTIME
    PROVE  toMaster = <<>> /\ toSlave[client] = <<>> /\ now = sendtime + SYNCTIME
<1> DEFINE c == client
           q == toSlave[c]
<1>1. /\ c \in Client /\ PingPongOK(c) /\ QueueOK(c)
      /\ now \in Nat /\ sendtime \in Int
      /\ toMaster \in Seq(Msg(SyncPacket)) /\ DueFrom(toMaster, now)
      /\ q \in Seq(Msg(SyncPacket \cup StartPacket))
  BY InTurn DEF CurrentOK, SyncInv, TypeOK, Turn
<1>2. MaxTransit \in Nat /\ SYNCTIME \in Nat /\ 2 * MaxTransit < SYNCTIME
  BY TransitFacts DEF NetworkAssumption
<1>3. DueFrom(q, now) /\ now <= sendtime + SYNCTIME
  BY <1>1 DEF PingPongOK, QueueOK
<1>4. ~OutboundOK(c)
  <2> SUFFICES ASSUME OutboundOK(c)
               PROVE  FALSE
    OBVIOUS
  <2>1. 1 \in 1 .. Len(q) /\ q[1].due <= sendtime + MaxTransit
    BY DEF OutboundOK
  <2>2. q[1].due \in Nat /\ q[1].due >= now
    BY <1>1, <1>3, <2>1, DueIsTime DEF DueFrom
  <2> QED
    BY <1>1, <1>2, <2>1, <2>2
<1>5. ~InboundOK(c)
  <2> SUFFICES ASSUME InboundOK(c)
               PROVE  FALSE
    OBVIOUS
  <2>1. 1 \in 1 .. Len(toMaster) /\ toMaster[1].due <= sendtime + 2 * MaxTransit
    BY DEF InboundOK
  <2>2. toMaster[1].due \in Nat /\ toMaster[1].due >= now
    BY <1>1, <2>1, DueIsTime DEF DueFrom
  <2> QED
    BY <1>1, <1>2, <2>1, <2>2
<1> QED
  BY <1>1, <1>2, <1>3, <1>4, <1>5 DEF PingPongOK

\* A packet is sent again only when neither it nor its answer is on its way.
LEMMA SendPhaseKeeps == ASSUME SyncInv, NetworkAssumption, SendPhase PROVE SyncInv'
<1> DEFINE c == client
           q == toSlave[c]
           r == toSlave'[c]
           P == SyncPacket \cup StartPacket
<1>1. /\ mstate = "phases" /\ mstate' = "phases" /\ mstate \in Turn /\ ~done
      /\ now >= sendtime + SYNCTIME /\ SendToSlave(pkt)
      /\ UNCHANGED <<now, mstate, client, pkt, since, dtime, deltatime, done, transittimes,
                     controlsynctime, slaveVars, toMaster>>
  BY DEF SendPhase, MasterAt, MasterDeadline, Turn
<1>2. /\ c \in Client /\ PingPongOK(c) /\ QueueOK(c) /\ DrainOK(c)
      /\ now \in Nat /\ faults \in Nat /\ sendtime \in Int /\ pkt \in SyncPacket
      /\ toMaster \in Seq(Msg(SyncPacket)) /\ DueFrom(toMaster, now) /\ InTimeOrder(toMaster)
      /\ q \in Seq(Msg(P))
  BY <1>1, InTurn DEF CurrentOK, SyncInv, TypeOK
<1>3. MaxTransit \in Nat /\ SYNCTIME \in Nat /\ 2 * MaxTransit < SYNCTIME
  BY TransitFacts DEF NetworkAssumption
<1>4. sstate[c] = "phases" /\ ~sdone[c] /\ DueFrom(q, now) /\ pkt.phase \in SYNC_PHASE1 .. SYNC_PHASE4
  BY <1>2 DEF PingPongOK, QueueOK
<1>5. toMaster = <<>> /\ q = <<>>
  BY <1>1, NothingOnItsWay
<1>6. /\ sendtime' = now /\ faults' \in 0 .. MaxFaults
      /\ toSlave' \in [Client -> Seq(Msg(P))]
      /\ \A d \in Client : d # client => toSlave'[d] = toSlave[d]
      /\ InTimeOrder(r)
      /\ \/ r = q /\ faults' = faults + 1
         \/ Extends(r, q, pkt, MaxTransit) /\ faults' = faults
  BY <1>1, <1>2, ToSlaveFacts DEF SyncInv, QueueOK, NetworkAssumption
<1>7. r \in Seq(Msg(P))
  BY <1>2, <1>6
<1>8. r = <<>> \/ (Len(r) = 1 /\ r[1].pkt = pkt /\ now <= r[1].due /\ r[1].due <= now + MaxTransit)
  <2>1. CASE r = q
    BY <1>5, <2>1
  <2>2. CASE Extends(r, q, pkt, MaxTransit)
    <3> HIDE DEF q, r, P
    <3>1. q = <<>> => Len(r) = 1 /\ r[1].pkt = pkt /\ now <= r[1].due /\ r[1].due <= now + MaxTransit
      BY <1>2, <1>3, <1>7, <2>2, ExtendsFacts
    <3> QED
      BY <1>5, <3>1
  <2> QED
    BY <1>6, <2>1, <2>2
<1>9. DueFrom(r, now) /\ DueBy(r, now + MaxTransit)
  <2>1. CASE r = <<>>
    BY <2>1, EmptySeq DEF DueFrom, DueBy
  <2>2. CASE r # <<>>
    BY <1>8, <2>2 DEF DueFrom, DueBy
  <2> QED
    BY <2>1, <2>2
<1> HIDE DEF q, r
<1>10. CurrentOK(c)'
  <2>1. PingPongOK(c)'
    BY <1>1, <1>2, <1>3, <1>4, <1>5, <1>6, <1>8 DEF PingPongOK, OutboundOK, slaveVars, r
  <2> QED
    BY <1>1, <2>1 DEF CurrentOK
<1>11. TypeOK'
  <2>1. TypeOK
    BY DEF SyncInv
  <2>2. toSlave' \in [Client -> Seq([pkt : SyncPacket \cup StartPacket, due : Nat])]
    BY <1>6 DEF Msg
  <2>3. sendtime' \in Int /\ faults' \in 0 .. MaxFaults /\ missed' \in SUBSET Client
    BY <1>1, <1>2, <1>6, <2>1, MissedFacts
  <2>4. UNCHANGED <<now, mstate, client, pkt, since, dtime, deltatime, done, transittimes,
                    controlsynctime, sstate, offset, ssince, ssendtime, sdone, scontrolsynctime, toMaster>>
    BY <1>1 DEF slaveVars
  <2> QED
    BY <2>1, <2>2, <2>4, <2>3 DEF TypeOK
<1>12. TimesOK'
  BY <1>1 DEF SyncInv, TimesOK
<1>13. QueueOK(c)' /\ DrainOK(c)'
  BY <1>1, <1>2, <1>4, <1>6, <1>9 DEF QueueOK, DrainOK, slaveVars, r
<1>14. InTimeOrder(toMaster)' /\ DueFrom(toMaster, now)'
  BY <1>1, <1>2 DEF InTimeOrder, DueFrom
<1> QED
  BY <1>1, <1>6, <1>10, <1>11, <1>12, <1>13, <1>14, TurnStep

\* What the master sends after an answer in a phase.
LEMMA NextPacket ==
    ASSUME TypeOK, NEW answer \in SyncPacket, answer.type = "sync",
           answer.phase \in SYNC_PHASE1 .. SYNC_PHASE4, NEW average \in Nat,
           NEW next, next = MasterPhaseHandler(answer, average)
    PROVE  /\ next \in SyncPacket /\ next.type = "sync" /\ next.phase = answer.phase + 1
           /\ answer.phase = SYNC_PHASE4 =>
                 /\ next.delta = answer.clocktime - now + average \div 2
                 /\ next.clocktime = now + SYNCTIME
<1> USE DEF SYNC_PHASE1, SYNC_PHASE2, SYNC_PHASE3, SYNC_PHASE4, SYNC_PHASE5
<1> DEFINE h == average \div 2
           a == answer.clocktime
           d == answer.delta
<1>1. now \in Nat /\ SYNCTIME \in Nat /\ h \in Nat /\ a \in Int /\ d \in Int
  BY RottSyncAssumption DEF TypeOK, SyncPacket
<1>2. answer = [type |-> "sync", phase |-> answer.phase, clocktime |-> a, delta |-> d]
  BY DEF SyncPacket
<1>3. answer.phase \in {0, 1, 2, 3}
  OBVIOUS
<1>4. /\ \A f, t : [answer EXCEPT !.phase = f, !.clocktime = t]
                   = [type |-> "sync", phase |-> f, clocktime |-> t, delta |-> d]
      /\ \A f, e : [answer EXCEPT !.phase = f, !.delta = e]
                   = [type |-> "sync", phase |-> f, clocktime |-> a, delta |-> e]
  <2> DEFINE g == answer.phase
  <2>1. answer = [type |-> "sync", phase |-> g, clocktime |-> a, delta |-> d]
    BY <1>2
  <2> HIDE DEF g, a, d
  <2>2. \A f : [answer EXCEPT !.phase = f]
                 = [type |-> "sync", phase |-> f, clocktime |-> a, delta |-> d]
    BY <2>1
  <2>3. ASSUME NEW f, NEW t
        PROVE  [answer EXCEPT !.phase = f, !.clocktime = t]
                  = [type |-> "sync", phase |-> f, clocktime |-> t, delta |-> d]
    <3> DEFINE b == [answer EXCEPT !.phase = f]
    <3>1. [answer EXCEPT !.phase = f, !.clocktime = t] = [b EXCEPT !.clocktime = t]
      OBVIOUS
    <3>2. b = [type |-> "sync", phase |-> f, clocktime |-> a, delta |-> d]
      BY <2>2
    <3> HIDE DEF b
    <3> QED
      BY <3>1, <3>2
  <2>4. ASSUME NEW f, NEW e
        PROVE  [answer EXCEPT !.phase = f, !.delta = e]
                  = [type |-> "sync", phase |-> f, clocktime |-> a, delta |-> e]
    <3> DEFINE b == [answer EXCEPT !.phase = f]
    <3>1. [answer EXCEPT !.phase = f, !.delta = e] = [b EXCEPT !.delta = e]
      OBVIOUS
    <3>2. b = [type |-> "sync", phase |-> f, clocktime |-> a, delta |-> d]
      BY <2>2
    <3> HIDE DEF b
    <3> QED
      BY <3>1, <3>2
  <2> QED
    BY <2>3, <2>4
<1>5. \A f \in 0 .. 4, t, e \in Int :
         [type |-> "sync", phase |-> f, clocktime |-> t, delta |-> e] \in SyncPacket
  BY DEF SyncPacket
<1>6. /\ answer.phase = 0 => next = [answer EXCEPT !.phase = 1, !.clocktime = now + h]
      /\ answer.phase = 1 => next = [answer EXCEPT !.phase = 2]
      /\ answer.phase = 2 => next = [answer EXCEPT !.phase = 3, !.delta = a - now + h]
      /\ answer.phase = 3 => next = [answer EXCEPT !.phase = 4, !.delta = a - now + h,
                                                   !.clocktime = now + SYNCTIME]
  BY DEF MasterPhaseHandler, Delta
<1> HIDE DEF h, a, d
<1>7. CASE answer.phase = 0
  <2>1. next = [type |-> "sync", phase |-> 1, clocktime |-> now + h, delta |-> d]
    BY <1>6, <1>7, <1>4
  <2> QED
    BY <1>1, <1>5, <1>7, <2>1
<1>8. CASE answer.phase = 1
  <2>1. next = [type |-> "sync", phase |-> 2, clocktime |-> a, delta |-> d]
    BY <1>2, <1>6, <1>8
  <2> QED
    BY <1>1, <1>5, <1>8, <2>1
<1>9. CASE answer.phase = 2
  <2>1. next = [type |-> "sync", phase |-> 3, clocktime |-> a, delta |-> a - now + h]
    BY <1>6, <1>9, <1>4
  <2> QED
    BY <1>1, <1>5, <1>9, <2>1
<1>10. CASE answer.phase = 3
  <2>1. next = [type |-> "sync", phase |-> 4, clocktime |-> now + SYNCTIME, delta |-> a - now + h]
    BY <1>2, <1>6, <1>10
  <2> QED
    BY <1>1, <1>5, <1>10, <2>1 DEF a, h
<1> QED
  BY <1>3, <1>7, <1>8, <1>9, <1>10

\* A round trip within twice the longest transit keeps the times in bounds.
LEMMA TripsInRange ==
    ASSUME NEW B \in Nat, NEW f \in 0 .. 4, NEW t \in 0 .. B,
           NEW times \in [0 .. NUMSYNCPHASES - 1 -> 0 .. B],
           NEW trips, trips = [times EXCEPT ![f] = t]
    PROVE  trips \in [0 .. NUMSYNCPHASES - 1 -> 0 .. B] /\ Average(trips, f) \in 0 .. B
<1>1. trips \in [0 .. NUMSYNCPHASES - 1 -> 0 .. B]
  OBVIOUS
<1>2. f \in 0 .. NUMSYNCPHASES - 1
  BY DEF NUMSYNCPHASES
<1> QED
  BY <1>1, <1>2, AverageInRange

\* The answer the master reads in a phase, and what it sends then.
LEMMA AnswerRead ==
    ASSUME SyncInv, NetworkAssumption, PhaseAnswered, NEW answer, answer = Head(toMaster).pkt
    PROVE  /\ mstate = "phases" /\ ~done /\ InboundOK(client) /\ sstate[client] = "phases" /\ ~sdone[client]
           /\ toSlave[client] = <<>> /\ toMaster' = <<>>
           /\ answer \in SyncPacket /\ answer.phase = pkt.phase
           /\ answer.phase \in SYNC_PHASE1 .. SYNC_PHASE4
           /\ now - sendtime \in 0 .. 2 * MaxTransit
           /\ answer.phase = SYNC_PHASE4 => now - (answer.clocktime - offset[client]) \in 0 .. MaxTransit
           /\ dtime' \in [0 .. NUMSYNCPHASES - 1 -> 0 .. 2 * MaxTransit]
           /\ deltatime' \in Nat /\ deltatime' <= 2 * MaxTransit /\ deltatime' \div 2 \in 0 .. MaxTransit
           /\ pkt' \in SyncPacket /\ pkt'.phase = answer.phase + 1
           /\ answer.phase = SYNC_PHASE4 =>
                 /\ pkt'.delta = answer.clocktime - now + deltatime' \div 2
                 /\ pkt'.clocktime = now + SYNCTIME
           /\ (done' <=> answer.phase = SYNC_PHASE4) /\ done' \in BOOLEAN
           /\ sendtime' = now /\ faults' \in 0 .. MaxFaults
           /\ toSlave' \in [Client -> Seq(Msg(SyncPacket \cup StartPacket))]
           /\ \A d \in Client : d # client => toSlave'[d] = toSlave[d]
           /\ InTimeOrder(toSlave'[client])
           /\ \/ toSlave'[client] = <<>> /\ faults' = faults + 1 /\ pkt'.phase \in Lossy
              \/ /\ Len(toSlave'[client]) = 1 /\ toSlave'[client][1].pkt = pkt' /\ faults' = faults
                 /\ now <= toSlave'[client][1].due /\ toSlave'[client][1].due <= now + MaxTransit
<1> DEFINE c == client
           q == toSlave[c]
           r == toSlave'[c]
           trips == [dtime EXCEPT ![answer.phase] = now - sendtime]
           average == Average(trips, answer.phase)
           next == MasterPhaseHandler(answer, average)
<1>1. /\ mstate = "phases" /\ mstate' = "phases" /\ mstate \in Turn /\ MasterReceives
      /\ dtime' = trips /\ deltatime' = average /\ pkt' = next
      /\ (done' <=> answer.phase = LastAnswered) /\ done' \in BOOLEAN
      /\ SendToSlave(next)
      /\ UNCHANGED <<now, mstate, client, since, transittimes, controlsynctime, slaveVars>>
  BY DEF PhaseAnswered, Turn
<1>2. /\ c \in Client /\ QueueOK(c) /\ DrainOK(c) /\ CurrentOK(c)
      /\ now \in Nat /\ faults \in Nat /\ sendtime \in Int /\ pkt \in SyncPacket
      /\ dtime \in [0 .. NUMSYNCPHASES - 1 -> 0 .. 2 * MaxTransit]
      /\ q \in Seq(Msg(SyncPacket \cup StartPacket)) /\ offset[c] \in Int
  BY <1>1, InTurn DEF SyncInv, TypeOK, TimesOK
<1>3. MaxTransit \in Nat /\ SYNCTIME \in Nat /\ 2 * MaxTransit < SYNCTIME
  BY TransitFacts DEF NetworkAssumption
<1>4. /\ toMaster # <<>> /\ toMaster' = Tail(toMaster) /\ answer = toMaster[1].pkt
      /\ Tail(toMaster) \in Seq(Msg(SyncPacket))
      /\ toMaster[1].due = now /\ answer \in SyncPacket
      /\ Len(Tail(toMaster)) = Len(toMaster) - 1
      /\ InTimeOrder(Tail(toMaster)) /\ DueFrom(Tail(toMaster), now)
  BY <1>1, MasterReadFacts
<1>5. ~done
  BY <1>1, <1>2, <1>4 DEF CurrentOK, LeavingOK
<1>6. PingPongOK(c) /\ InboundOK(c)
  <2>1. PingPongOK(c)
    BY <1>1, <1>2, <1>5 DEF CurrentOK
  <2> QED
    BY <1>4, <2>1 DEF PingPongOK, OutboundOK
<1>7. /\ sstate[c] = "phases" /\ ~sdone[c] /\ q = <<>> /\ Tail(toMaster) = <<>>
      /\ answer.type = "sync" /\ answer.phase = pkt.phase
      /\ answer.phase \in SYNC_PHASE1 .. SYNC_PHASE4
      /\ now - sendtime \in 0 .. 2 * MaxTransit
      /\ answer.phase = SYNC_PHASE4 => now - (answer.clocktime - offset[c]) \in 0 .. MaxTransit
  <2>1. Len(Tail(toMaster)) = 0
    BY <1>4, <1>6 DEF InboundOK
  <2>2. Tail(toMaster) = <<>>
    BY <1>4, <2>1, EmptySeq
  <2> QED
    BY <1>2, <1>3, <1>4, <1>6, <2>2 DEF PingPongOK, InboundOK, IsSync
<1> HIDE DEF q, r
<1>8. trips \in [0 .. NUMSYNCPHASES - 1 -> 0 .. 2 * MaxTransit] /\ average \in 0 .. 2 * MaxTransit
  <2>1. 2 * MaxTransit \in Nat /\ answer.phase \in 0 .. 4
    BY <1>3, <1>7 DEF SYNC_PHASE1, SYNC_PHASE4
  <2> QED
    BY <1>2, <1>7, <2>1, TripsInRange
<1> HIDE DEF trips, average
<1>9. average \in Nat /\ average \div 2 \in 0 .. MaxTransit
  BY <1>3, <1>8
<1>10. /\ next \in SyncPacket /\ next.type = "sync" /\ next.phase = answer.phase + 1
       /\ answer.phase = SYNC_PHASE4 =>
             /\ next.delta = answer.clocktime - now + average \div 2
             /\ next.clocktime = now + SYNCTIME
  BY <1>4, <1>7, <1>9, NextPacket DEF SyncInv
<1> HIDE DEF next
<1>11. /\ sendtime' = now /\ faults' \in 0 .. MaxFaults
       /\ toSlave' \in [Client -> Seq(Msg(SyncPacket \cup StartPacket))]
       /\ \A d \in Client : d # client => toSlave'[d] = toSlave[d]
       /\ InTimeOrder(r)
       /\ \/ r = q /\ faults' = faults + 1 /\ next.phase \in Lossy
          \/ Extends(r, q, next, MaxTransit) /\ faults' = faults
  BY <1>1, <1>2, <1>10, ToSlaveFacts DEF SyncInv, QueueOK, NetworkAssumption, q, r
<1>12. r \in Seq(Msg(SyncPacket \cup StartPacket))
  BY <1>2, <1>11 DEF r
<1>13. \/ r = <<>> /\ faults' = faults + 1 /\ next.phase \in Lossy
       \/ /\ Len(r) = 1 /\ r[1].pkt = next /\ faults' = faults
          /\ now <= r[1].due /\ r[1].due <= now + MaxTransit
  <2>1. CASE r = q /\ faults' = faults + 1 /\ next.phase \in Lossy
    BY <1>7, <2>1
  <2>2. CASE Extends(r, q, next, MaxTransit) /\ faults' = faults
    <3>1. q = <<>> => Len(r) = 1 /\ r[1].pkt = next /\ now <= r[1].due /\ r[1].due <= now + MaxTransit
      BY <1>2, <1>3, <1>12, <2>2, ExtendsFacts
    <3> QED
      BY <1>7, <2>2, <3>1
  <2> QED
    BY <1>11, <2>1, <2>2
<1>14. done' <=> answer.phase = SYNC_PHASE4
  BY <1>1 DEF LastAnswered
<1>15. /\ pkt' \in SyncPacket /\ pkt'.phase = answer.phase + 1
       /\ answer.phase = SYNC_PHASE4 =>
             /\ pkt'.delta = answer.clocktime - now + deltatime' \div 2
             /\ pkt'.clocktime = now + SYNCTIME
  BY <1>1, <1>10
<1>16. /\ dtime' \in [0 .. NUMSYNCPHASES - 1 -> 0 .. 2 * MaxTransit]
       /\ deltatime' \in Nat /\ deltatime' <= 2 * MaxTransit /\ deltatime' \div 2 \in 0 .. MaxTransit
  BY <1>1, <1>3, <1>8, <1>9
<1>17. \/ toSlave'[client] = <<>> /\ faults' = faults + 1 /\ pkt'.phase \in Lossy
       \/ /\ Len(toSlave'[client]) = 1 /\ toSlave'[client][1].pkt = pkt' /\ faults' = faults
          /\ now <= toSlave'[client][1].due /\ toSlave'[client][1].due <= now + MaxTransit
  BY <1>1, <1>13 DEF r
<1>18. InTimeOrder(toSlave'[client]) /\ toSlave[client] = <<>> /\ toMaster' = <<>>
  BY <1>4, <1>7, <1>11 DEF q, r
<1> QED
  BY <1>1, <1>4, <1>5, <1>6, <1>7, <1>11, <1>14, <1>15, <1>16, <1>17, <1>18

\* The answer to the last packet: the round trip is at most twice the longest
\* transit, and the delta of SYNC_PHASE5 off by one transit at most.
LEMMA PhaseAnsweredKeeps == ASSUME SyncInv, NetworkAssumption, PhaseAnswered PROVE SyncInv'
<1> DEFINE c == client
           r == toSlave'[c]
           answer == Head(toMaster).pkt
<1>1. /\ mstate = "phases" /\ mstate' = "phases" /\ mstate \in Turn
      /\ UNCHANGED <<now, mstate, client, since, transittimes, controlsynctime,
                     sstate, offset, ssince, ssendtime, sdone, scontrolsynctime>>
  BY DEF PhaseAnswered, Turn, slaveVars
<1>2. /\ c \in Client /\ QueueOK(c) /\ DrainOK(c) /\ now \in Nat /\ offset[c] \in Int
  BY <1>1, InTurn
<1>3. MaxTransit \in Nat /\ SYNCTIME \in Nat /\ 2 * MaxTransit < SYNCTIME
  BY TransitFacts DEF NetworkAssumption
<1>4. /\ sstate[c] = "phases" /\ ~sdone[c] /\ toMaster' = <<>>
      /\ answer \in SyncPacket /\ answer.phase \in SYNC_PHASE1 .. SYNC_PHASE4
      /\ answer.phase = SYNC_PHASE4 => now - (answer.clocktime - offset[c]) \in 0 .. MaxTransit
      /\ dtime' \in [0 .. NUMSYNCPHASES - 1 -> 0 .. 2 * MaxTransit]
      /\ deltatime' \in Nat /\ deltatime' <= 2 * MaxTransit /\ deltatime' \div 2 \in 0 .. MaxTransit
      /\ pkt' \in SyncPacket /\ pkt'.phase = answer.phase + 1
      /\ answer.phase = SYNC_PHASE4 =>
            /\ pkt'.delta = answer.clocktime - now + deltatime' \div 2
            /\ pkt'.clocktime = now + SYNCTIME
      /\ (done' <=> answer.phase = SYNC_PHASE4) /\ done' \in BOOLEAN
      /\ sendtime' = now /\ faults' \in 0 .. MaxFaults
      /\ toSlave' \in [Client -> Seq(Msg(SyncPacket \cup StartPacket))]
      /\ \A d \in Client : d # client => toSlave'[d] = toSlave[d]
      /\ InTimeOrder(r)
      /\ \/ r = <<>> /\ pkt'.phase \in Lossy
         \/ Len(r) = 1 /\ r[1].pkt = pkt' /\ now <= r[1].due /\ r[1].due <= now + MaxTransit
  BY AnswerRead
<1> HIDE DEF r, answer
<1>5. DueFrom(r, now) /\ DueBy(r, now + MaxTransit)
  <2>1. CASE r = <<>>
    BY <2>1, EmptySeq DEF DueFrom, DueBy
  <2>2. CASE r # <<>>
    BY <1>4, <2>2 DEF DueFrom, DueBy
  <2> QED
    BY <2>1, <2>2
<1>6. CurrentOK(c)'
  <2>1. CASE answer.phase # SYNC_PHASE4
    <3>1. ~done' /\ pkt'.phase \in SYNC_PHASE1 .. SYNC_PHASE4
      BY <1>4, <2>1 DEF SYNC_PHASE1, SYNC_PHASE4
    <3>2. PingPongOK(c)'
      BY <1>1, <1>2, <1>3, <1>4, <3>1 DEF PingPongOK, OutboundOK, r
    <3> QED
      BY <1>1, <3>1, <3>2 DEF CurrentOK
  <2>2. CASE answer.phase = SYNC_PHASE4
    <3>1. done' /\ pkt'.phase = SYNC_PHASE5
      BY <1>4, <2>2 DEF SYNC_PHASE4, SYNC_PHASE5
    <3>2. answer.clocktime \in Int
      BY <1>4 DEF SyncPacket
    <3>3. Near(offset[c] - pkt'.delta)
      <4> DEFINE h == deltatime' \div 2
                 a == answer.clocktime
                 e == pkt'.delta
      <4>1. h \in Int /\ 0 <= h /\ h <= MaxTransit /\ a \in Int
        <5>1. h \in 0 .. MaxTransit
          BY <1>4
        <5> QED
          BY <1>3, <3>2, <5>1
      <4>2. now - (a - offset[c]) \in 0 .. MaxTransit /\ e = a - now + h
        BY <1>4, <2>2
      <4> HIDE DEF h, a, e
      <4>3. Near(offset[c] - e)
        BY <1>2, <1>3, <4>1, <4>2 DEF Near
      <4> QED
        BY <4>3 DEF e
    <3>4. \/ Len(r) = 1 /\ r[1].pkt = pkt' /\ r[1].due <= now + MaxTransit
          \/ r = <<>> /\ SYNC_PHASE5 \in Lossy
      BY <1>4, <3>1
    <3>5. LeavingOK(c)'
      <4>1. toMaster' = <<>> /\ sendtime' = now /\ now' = now
            /\ toSlave'[c'] = r /\ c' = c /\ pkt'.clocktime = now + SYNCTIME
        BY <1>1, <1>4, <2>2 DEF r
      <4>2. sstate'[c] = "phases" /\ ~sdone'[c] /\ offset'[c] = offset[c]
        BY <1>1, <1>4
      <4> HIDE DEF c
      <4> QED
        BY <1>2, <1>3, <3>1, <3>3, <3>4, <4>1, <4>2 DEF LeavingOK, OutboundOK, Near
    <3> QED
      BY <1>1, <1>4, <3>1, <3>5 DEF CurrentOK
  <2> QED
    BY <2>1, <2>2
<1>7. TypeOK'
  <2>1. TypeOK
    BY DEF SyncInv
  <2>2. toSlave' \in [Client -> Seq([pkt : SyncPacket \cup StartPacket, due : Nat])]
    BY <1>4 DEF Msg
  <2>3. toMaster' \in Seq([pkt : SyncPacket, due : Nat])
    BY <1>4, EmptySeq
  <2>4. sendtime' \in Int /\ faults' \in 0 .. MaxFaults /\ pkt' \in SyncPacket
    BY <1>2, <1>4
  <2>5. dtime' \in [0 .. NUMSYNCPHASES - 1 -> Nat] /\ deltatime' \in Nat /\ done' \in BOOLEAN
    BY <1>4
  <2>6. missed' \in SUBSET Client
    BY <2>1, MissedFacts DEF PhaseAnswered
  <2> QED
    BY <1>1, <2>1, <2>2, <2>3, <2>4, <2>5, <2>6 DEF TypeOK
<1>8. TimesOK'
  <2>1. \A d \in Client : transittimes'[d] <= MaxTransit
    BY <1>1 DEF SyncInv, TimesOK
  <2>2. deltatime' \in 0 .. 2 * MaxTransit
    BY <1>3, <1>4
  <2> QED
    BY <1>4, <2>1, <2>2 DEF TimesOK
<1>9. QueueOK(c)' /\ DrainOK(c)'
  BY <1>1, <1>4, <1>5 DEF QueueOK, DrainOK, r
<1>10. InTimeOrder(toMaster)' /\ DueFrom(toMaster, now)'
  BY <1>4, EmptySeq DEF InTimeOrder, DueFrom
<1>11. UNCHANGED <<now, slaveVars, client, controlsynctime>>
  BY <1>1 DEF slaveVars
<1> QED
  BY <1>1, <1>4, <1>6, <1>7, <1>8, <1>9, <1>10, <1>11, TurnStep
-----------------------------------------------------------------------------
(* From one client to the next, and the start: steps of the master         *)

\* A packet to several clients: what becomes of their queues.
LEMMA BroadcastFacts ==
    ASSUME TypeOK, Prompt, NEW p \in SyncPacket \cup StartPacket, NEW C \in SUBSET Client,
           \A c \in C : InTimeOrder(toSlave[c]), Broadcast(p, C)
    PROVE  /\ toSlave' \in [Client -> Seq(Msg(SyncPacket \cup StartPacket))]
           /\ \A c \in Client : c \notin C => toSlave'[c] = toSlave[c]
           /\ \A c \in C : /\ InTimeOrder(toSlave'[c])
                           /\ Extends(toSlave'[c], toSlave[c], p, MaxTransit)
<1> DEFINE P == SyncPacket \cup StartPacket
<1>1. PICK travel \in [C -> Transit] :
         toSlave' = [c \in Client |-> IF c \in C THEN Arriving(toSlave[c], p, travel[c])
                                                 ELSE toSlave[c]]
  BY DEF Broadcast
<1>2. now \in Nat /\ (\A c \in Client : toSlave[c] \in Seq(Msg(P)))
      /\ MaxTransit \in Nat /\ p \in P
  BY TypeFacts, TransitFacts
<1> HIDE DEF P
<1>3. ASSUME NEW c \in C
      PROVE  /\ toSlave'[c] \in Seq(Msg(P)) /\ InTimeOrder(toSlave'[c])
             /\ Extends(toSlave'[c], toSlave[c], p, MaxTransit)
  <2>1. travel[c] \in Nat /\ travel[c] <= MaxTransit
    BY <1>1, TransitFacts
  <2>2. c \in Client /\ toSlave'[c] = Arriving(toSlave[c], p, travel[c])
    BY <1>1
  <2>3. toSlave[c] \in Seq(Msg(P)) /\ InTimeOrder(toSlave[c])
    BY <1>2, <2>2
  <2> QED
    BY <1>2, <2>1, <2>2, <2>3, ArrivingExtends
<1>4. \A c \in Client : c \notin C => toSlave'[c] = toSlave[c]
  BY <1>1
<1>5. \A c \in Client : toSlave'[c] \in Seq(Msg(P))
  BY <1>2, <1>3, <1>4
<1>6. toSlave' \in [Client -> Seq(Msg(P))]
  BY <1>1, <1>5
<1> QED
  BY <1>3, <1>4, <1>6 DEF P

\* The queue of a client that got a packet in this tic.
LEMMA QueueAfter ==
    ASSUME NEW c \in Client, QueueOK(c), now \in Nat, MaxTransit \in Nat, NEW p,
           toSlave[c] \in Seq(Msg(SyncPacket \cup StartPacket)),
           toSlave'[c] \in Seq(Msg(SyncPacket \cup StartPacket)),
           InTimeOrder(toSlave'[c]), Extends(toSlave'[c], toSlave[c], p, MaxTransit),
           now' = now, sstate'[c] = sstate[c]
    PROVE  /\ QueueOK(c)'
           /\ \A i \in 1 .. Len(toSlave'[c]) :
                 \/ i \in 1 .. Len(toSlave[c]) /\ toSlave'[c][i] = toSlave[c][i]
                 \/ toSlave'[c][i].pkt = p
<1> DEFINE q == toSlave[c]
           r == toSlave'[c]
<1>1. /\ \A t \in Int : DueFrom(q, t) /\ t <= now => DueFrom(r, t)
      /\ \A t \in Int : DueBy(q, t) /\ now + MaxTransit <= t => DueBy(r, t)
      /\ \A i \in 1 .. Len(r) : \/ i \in 1 .. Len(q) /\ r[i] = q[i]
                                \/ i = Len(q) + 1 /\ r[i].pkt = p
  BY ExtendsFacts
<1>2. DueBy(r, now + MaxTransit) /\ (sstate[c] = "phases" => DueFrom(r, now)) /\ InTimeOrder(r)
  BY <1>1 DEF QueueOK
<1>3. QueueOK(c)'
  BY <1>2 DEF QueueOK
<1> QED
  BY <1>1, <1>3

\* The turn of a client begins with a message to those that come later.
LEMMA BeginSyncKeeps == ASSUME SyncInv, NetworkAssumption, BeginSync PROVE SyncInv'
<1> DEFINE memo == [type |-> "sync", phase |-> SYNC_MEMO, clocktime |-> client, delta |-> 0]
           C == {c \in Client : c > client}
<1>1. /\ mstate = "begin" /\ mstate' = "hello" /\ Broadcast(memo, C) /\ sendtime' = now - SYNCTIME
      /\ UNCHANGED <<now, client, pkt, since, dtime, deltatime, done, transittimes,
                     controlsynctime, missed, sstate, offset, ssince, ssendtime, sdone, scontrolsynctime,
                     toMaster, faults>>
  BY DEF BeginSync, MasterAt, slaveVars
<1>2. /\ client \in Client /\ now \in Nat /\ TypeOK
      /\ \A c \in Client : c \in Int /\ toSlave[c] \in Seq(Msg(SyncPacket \cup StartPacket))
      /\ SYNCTIME \in Nat /\ MaxTransit \in Nat /\ Prompt
  BY TypeFacts, TransitFacts DEF SyncInv, NetworkAssumption
<1>3. memo \in SyncPacket \cup StartPacket /\ IsMemo(memo)
  BY <1>2 DEF SyncPacket, IsMemo, IsSync
<1>4. \A c \in Client : ClientOK(c) /\ QueueOK(c) /\ InTimeOrder(toSlave[c])
  BY DEF SyncInv, ClientOK, QueueOK
<1> HIDE DEF memo
<1>5. /\ toSlave' \in [Client -> Seq(Msg(SyncPacket \cup StartPacket))]
      /\ \A c \in Client : ~(c > client) => toSlave'[c] = toSlave[c]
      /\ \A c \in Client : c > client =>
            InTimeOrder(toSlave'[c]) /\ Extends(toSlave'[c], toSlave[c], memo, MaxTransit)
  <2>1. C \in SUBSET Client /\ (\A c \in C : InTimeOrder(toSlave[c]))
        /\ (\A c \in Client : c \in C <=> c > client)
    BY <1>4
  <2> HIDE DEF C
  <2>2. /\ toSlave' \in [Client -> Seq(Msg(SyncPacket \cup StartPacket))]
        /\ \A c \in Client : c \notin C => toSlave'[c] = toSlave[c]
        /\ \A c \in C : /\ InTimeOrder(toSlave'[c])
                        /\ Extends(toSlave'[c], toSlave[c], memo, MaxTransit)
    BY <1>1, <1>2, <1>3, <2>1, BroadcastFacts
  <2> QED
    BY <2>1, <2>2
<1> HIDE DEF C
<1>6. toMaster = <<>> /\ pkt = FreshPkt
  BY <1>1 DEF SyncInv, MasterOK
<1>7. ~Starting /\ ~Starting' /\ ~StartSent /\ ~StartSent'
  BY <1>1 DEF Starting, StartSent
<1>8. MasterOK'
  BY <1>1, <1>6, <1>7, EmptySeq DEF MasterOK, InTimeOrder, DueFrom
<1>9. ASSUME NEW c \in Client
      PROVE  ClientOK(c)'
  <2>1. CASE c > client
    <3>1. Later(c) /\ LaterOK(c)
      BY <1>4, <1>7, <2>1 DEF Later, ClientOK
    <3>2. ~Current(c)' /\ ~Earlier(c)'
      BY <1>1, <1>2, <1>7, <2>1 DEF Current, Earlier
    <3>3. toSlave'[c] \in Seq(Msg(SyncPacket \cup StartPacket))
      BY <1>5
    <3>4. /\ QueueOK(c)'
          /\ \A i \in 1 .. Len(toSlave'[c]) :
                \/ i \in 1 .. Len(toSlave[c]) /\ toSlave'[c][i] = toSlave[c][i]
                \/ toSlave'[c][i].pkt = memo
      BY <1>1, <1>2, <1>4, <1>5, <2>1, <3>3, QueueAfter
    <3>5. Memos(toSlave'[c])
      BY <1>3, <3>1, <3>4 DEF LaterOK, Memos
    <3>6. DrainOK(c)' /\ LaterOK(c)'
      BY <1>1, <3>1, <3>5 DEF DrainOK, LaterOK, Memos, IsMemo, IsSync
    <3> QED
      BY <3>2, <3>4, <3>6 DEF ClientOK
  <2>2. CASE c = client
    <3>1. Later(c) /\ LaterOK(c)
      BY <1>1, <1>4, <1>7, <2>2 DEF Later, ClientOK
    <3>2. ~Later(c)' /\ ~Earlier(c)'
      BY <1>1, <1>2, <1>7, <2>2 DEF Later, Earlier
    <3>3. toSlave'[c] = toSlave[c]
      BY <1>2, <1>5, <2>2
    <3>4. QueueOK(c)' /\ DrainOK(c)'
      BY <1>1, <1>4, <3>1, <3>3 DEF QueueOK, DrainOK, LaterOK, InTimeOrder, DueBy, DueFrom
    <3>5. MemosThenHellos(toSlave[c])
      BY <3>1 DEF LaterOK, Memos, MemosThenHellos
    <3>6. HelloOK(c)'
      <4>1. toMaster' = <<>> /\ toSlave'[c] = toSlave[c] /\ sstate'[c] \in {"loading", "hello"} /\ ~sdone'[c]
        BY <1>1, <1>6, <3>1, <3>3 DEF LaterOK
      <4>2. Hellos(toMaster)' /\ DueBy(toMaster, now + SYNCTIME - 1)'
            /\ AnswersClose'
        BY <4>1, EmptySeq DEF Hellos, DueBy, AnswersClose
      <4>3. MemosThenHellos(toSlave[c])'
        BY <3>5, <4>1 DEF MemosThenHellos, IsMemo, IsHello, IsSync
      <4> QED
        BY <4>1, <4>2, <4>3 DEF HelloOK
    <3>7. CurrentOK(c)'
      <4>1. pkt' = FreshPkt' /\ sendtime' <= now' /\ mstate' = "hello"
        BY <1>1, <1>2, <1>6 DEF FreshPkt
      <4> QED
        BY <3>6, <4>1 DEF CurrentOK
    <3> QED
      BY <3>2, <3>4, <3>7 DEF ClientOK
  <2>3. CASE c < client
    <3>1. ~Current(c)' /\ ~Later(c)' /\ Earlier(c)
      BY <1>1, <1>2, <2>3 DEF Current, Later, Earlier
    <3>2. toSlave'[c] = toSlave[c]
      BY <1>2, <1>5, <2>3
    <3> QED
      BY <1>1, <1>4, <1>7, <3>1, <3>2, OtherClient
  <2> QED
    BY <1>2, <2>1, <2>2, <2>3
<1>10. TypeOK'
  <2>1. toSlave' \in [Client -> Seq([pkt : SyncPacket \cup StartPacket, due : Nat])]
    BY <1>5 DEF Msg
  <2>2. sendtime' \in Int
    BY <1>1, <1>2
  <2> QED
    BY <1>1, <1>2, <2>1, <2>2 DEF TypeOK
<1>11. TimesOK'
  BY <1>1 DEF SyncInv, TimesOK
<1> QED
  BY <1>8, <1>9, <1>10, <1>11 DEF SyncInv

\* The pause after a turn is long enough for SYNC_PHASE5 to come.
LEMMA EndSettleKeeps == ASSUME SyncInv, NetworkAssumption, EndSettle PROVE SyncInv'
<1> DEFINE c == client
<1>1. /\ mstate = "settle" /\ mstate \in Turn /\ now >= sendtime + SYNCTIME
      /\ transittimes' = [transittimes EXCEPT ![client] = deltatime \div 2]
      /\ \/ MoreClients /\ mstate' = "begin" /\ client' = client + 1
         \/ ~MoreClients /\ mstate' = "start" /\ client' = client
      /\ pkt' = FreshPkt /\ dtime' = FreshTimes /\ deltatime' = 0
      /\ sendtime' = 0 /\ since' = 0
      /\ UNCHANGED <<now, done, controlsynctime, missed, sstate, offset, ssince, ssendtime, sdone,
                     scontrolsynctime, toMaster, toSlave, faults>>
  BY DEF EndSettle, MasterAt, MasterDeadline, slaveVars, network, Turn
<1>2. /\ c \in Client /\ QueueOK(c) /\ DrainOK(c) /\ LeavingOK(c)
      /\ now \in Nat /\ sendtime \in Int
      /\ toSlave[c] \in Seq(Msg(SyncPacket \cup StartPacket)) /\ offset[c] \in Int
      /\ TypeOK /\ TimesOK /\ \A d \in Client : d \in Int
  BY <1>1, InTurn, TypeFacts DEF SyncInv, TypeOK, CurrentOK
<1>3. MaxTransit \in Nat /\ SYNCTIME \in Nat /\ 2 * MaxTransit < SYNCTIME /\ numplayers \in Nat
  BY TransitFacts, RottSyncAssumption DEF NetworkAssumption
<1>4. /\ toMaster = <<>> /\ toSlave[c] = <<>>
      /\ \/ sstate[c] = "phases" /\ ~sdone[c] /\ SYNC_PHASE5 \in Lossy
         \/ sstate[c] = "settle" /\ Near(offset[c])
  <2>1. ~(sstate[c] = "phases" /\ OutboundOK(c))
    <3> SUFFICES ASSUME sstate[c] = "phases", OutboundOK(c)
                 PROVE  FALSE
      OBVIOUS
    <3>1. 1 \in 1 .. Len(toSlave[c]) /\ toSlave[c][1].due <= sendtime + MaxTransit
      BY DEF OutboundOK
    <3>2. toSlave[c][1].due \in Nat /\ toSlave[c][1].due >= now
      BY <1>2, <3>1, DueIsTime DEF QueueOK, DueFrom
    <3> QED
      BY <1>1, <1>2, <1>3, <3>1, <3>2
  <2>2. ~(now <= sendtime + MaxTransit)
    BY <1>1, <1>2, <1>3
  <2> QED
    BY <1>2, <2>1, <2>2 DEF LeavingOK
<1>5. ~Starting /\ ~StartSent /\ ~StartSent'
  BY <1>1 DEF Starting, StartSent
<1>6. \A d \in Client : ~Current(d)'
  BY <1>1 DEF Current, Starting
<1>7. ASSUME NEW d \in Client, d # client
      PROVE  (Later(d)' => Later(d)) /\ (Earlier(d)' => Earlier(d))
  <2>1. CASE MoreClients /\ mstate' = "begin" /\ client' = client + 1
    <3>1. ~Starting'
      BY <2>1 DEF Starting
    <3> QED
      BY <1>2, <1>5, <1>7, <2>1, <3>1 DEF Later, Earlier
  <2>2. CASE ~MoreClients /\ mstate' = "start" /\ client' = client
    <3>1. Starting'
      BY <2>2 DEF Starting
    <3>2. d < client
      BY <1>2, <1>3, <1>7, <2>2 DEF MoreClients, Client
    <3> QED
      BY <3>1, <3>2 DEF Later, Earlier
  <2> QED
    BY <1>1, <2>1, <2>2
<1>8. MasterOK'
  BY <1>1, <1>4, EmptySeq DEF MasterOK, InTimeOrder, DueFrom, FreshPkt
<1>9. ASSUME NEW d \in Client
      PROVE  ClientOK(d)'
  <2>1. CASE d = client
    <3>1. /\ \/ sstate'[d] = "phases" /\ ~sdone'[d] /\ SYNC_PHASE5 \in Lossy
             \/ sstate'[d] = "settle" /\ Near(offset'[d])
          /\ toSlave'[d] = <<>>
      BY <1>1, <1>4, <2>1
    <3>2. EarlierOK(d)'
      BY <1>5, <3>1 DEF EarlierOK, Synchronised, Near
    <3>3. QueueOK(d)' /\ DrainOK(d)'
      BY <1>1, <1>2, <1>4, <2>1 DEF QueueOK, DrainOK, InTimeOrder, DueBy, DueFrom
    <3>4. ~Later(d)'
      BY <1>1, <1>2, <2>1 DEF Later, Starting
    <3> QED
      BY <1>6, <3>2, <3>3, <3>4 DEF ClientOK
  <2>2. CASE d # client
    <3>1. ClientOK(d)
      BY DEF SyncInv
    <3>2. StartSent' <=> StartSent
      BY <1>5
    <3> QED
      BY <1>1, <1>6, <1>7, <2>2, <3>1, <3>2, OtherClient
  <2> QED
    BY <2>1, <2>2
<1>10. deltatime \in 0 .. 2 * MaxTransit /\ deltatime \div 2 \in 0 .. MaxTransit
  BY <1>2, <1>3 DEF TimesOK
<1>11. TypeOK'
  <2>1. client' \in Client
    BY <1>1, <1>2, <1>3 DEF MoreClients, Client
  <2>2. transittimes' \in [Client -> Nat]
    BY <1>1, <1>2, <1>3, <1>10 DEF TypeOK
  <2>3. pkt' \in SyncPacket /\ dtime' \in [0 .. NUMSYNCPHASES - 1 -> Nat]
    BY <1>1, FreshPktType DEF FreshTimes
  <2>4. /\ mstate' \in {"begin", "hello", "drain", "rest", "phases", "settle", "start",
                        "startagain", "flush", "started"}
        /\ sendtime' \in Int /\ since' \in Nat /\ deltatime' \in Nat
    BY <1>1
  <2>5. UNCHANGED <<now, done, controlsynctime, missed, sstate, offset, ssince, ssendtime, sdone,
                    scontrolsynctime, toMaster, toSlave, faults>>
    BY <1>1
  <2>6. TypeOK
    BY <1>2
  <2> QED
    BY <2>1, <2>2, <2>3, <2>4, <2>5, <2>6 DEF TypeOK
<1>12. TimesOK'
  <2>1. \A d \in Client : transittimes'[d] <= MaxTransit
    BY <1>1, <1>2, <1>3, <1>10 DEF TimesOK, TypeOK
  <2>2. dtime' \in [0 .. NUMSYNCPHASES - 1 -> 0 .. 2 * MaxTransit] /\ deltatime' \in 0 .. 2 * MaxTransit
    BY <1>1, <1>3 DEF FreshTimes
  <2> QED
    BY <2>1, <2>2 DEF TimesOK
<1> QED
  BY <1>8, <1>9, <1>11, <1>12 DEF SyncInv

\* Once the master starts the game all turns are over.
LEMMA AllOver ==
    ASSUME SyncInv, Starting
    PROVE  /\ toMaster = <<>> /\ TypeOK /\ now \in Nat
           /\ \A c \in Client : /\ EarlierOK(c) /\ QueueOK(c) /\ InTimeOrder(toSlave[c])
                                /\ sstate[c] \notin {"loading", "hello", "drain"}
                                /\ toSlave[c] \in Seq(Msg(SyncPacket \cup StartPacket))
                                /\ ~Later(c) /\ ~Current(c)
<1>1. \A c \in Client : ClientOK(c) /\ Earlier(c) /\ ~Later(c) /\ ~Current(c)
  BY DEF SyncInv, Earlier, Later, Current
<1>2. toMaster = <<>>
  BY DEF SyncInv, MasterOK
<1>3. \A c \in Client : EarlierOK(c) /\ QueueOK(c)
  BY <1>1 DEF ClientOK
<1>4. \A c \in Client : sstate[c] \notin {"loading", "hello", "drain"}
  BY <1>3 DEF EarlierOK, Synchronised
<1> QED
  BY <1>1, <1>2, <1>3, <1>4, TypeFacts DEF SyncInv, QueueOK

\* COM_START, for the first or the second time.
LEMMA StartKeeps ==
    ASSUME SyncInv, NetworkAssumption, Starting, Starting', StartSent',
           NEW time \in Nat, Broadcast(StartPkt(time), Client), controlsynctime' = time,
           StartSent => time = controlsynctime, mstate' \in {"startagain", "flush"},
           UNCHANGED <<now, client, pkt, sendtime, since, dtime, deltatime, done, transittimes,
                       missed, slaveVars, toMaster, faults>>
    PROVE  SyncInv'
<1> DEFINE p == StartPkt(time)
<1>1. /\ toMaster = <<>> /\ TypeOK /\ now \in Nat /\ Prompt /\ MaxTransit \in Nat
      /\ \A c \in Client : /\ EarlierOK(c) /\ QueueOK(c) /\ InTimeOrder(toSlave[c])
                           /\ sstate[c] \notin {"loading", "hello", "drain"}
                           /\ toSlave[c] \in Seq(Msg(SyncPacket \cup StartPacket))
  BY AllOver, TransitFacts DEF NetworkAssumption
<1>2. p \in StartPacket /\ p \in SyncPacket \cup StartPacket
  BY DEF StartPkt, StartPacket
<1>3. Broadcast(p, Client) /\ Client \in SUBSET Client
  OBVIOUS
<1> HIDE DEF p
<1>4. /\ toSlave' \in [Client -> Seq(Msg(SyncPacket \cup StartPacket))]
      /\ \A c \in Client : /\ InTimeOrder(toSlave'[c])
                           /\ Extends(toSlave'[c], toSlave[c], p, MaxTransit)
  BY <1>1, <1>2, <1>3, BroadcastFacts
<1>5. MasterOK'
  BY <1>1, EmptySeq DEF MasterOK, InTimeOrder, DueFrom
<1>6. ASSUME NEW c \in Client
      PROVE  ClientOK(c)'
  <2>1. sstate'[c] = sstate[c] /\ sdone'[c] = sdone[c] /\ offset'[c] = offset[c] /\ now' = now
    BY DEF slaveVars
  <2>2. toSlave'[c] \in Seq(Msg(SyncPacket \cup StartPacket))
    BY <1>4
  <2>3. /\ QueueOK(c)'
        /\ \A i \in 1 .. Len(toSlave'[c]) :
              \/ i \in 1 .. Len(toSlave[c]) /\ toSlave'[c][i] = toSlave[c][i]
              \/ toSlave'[c][i].pkt = p
    BY <1>1, <1>4, <2>1, <2>2, QueueAfter
  <2>4. DrainOK(c)'
    BY <1>1, <2>1 DEF DrainOK
  <2>5. ~Later(c)' /\ ~Current(c)'
    BY DEF Later, Current
  <2>6. Starts(toSlave[c])'
    <3> SUFFICES ASSUME NEW i \in 1 .. Len(toSlave'[c])
                 PROVE  toSlave'[c][i].pkt = StartPkt(time)
      BY DEF Starts, IsStart, StartPkt
    <3>1. CASE toSlave'[c][i].pkt = p
      BY <3>1 DEF p
    <3>2. CASE i \in 1 .. Len(toSlave[c]) /\ toSlave'[c][i] = toSlave[c][i]
      <4>1. toSlave[c] # <<>>
        BY <3>2, EmptySeq
      <4>2. StartSent /\ Starts(toSlave[c])
        BY <1>1, <4>1 DEF EarlierOK
      <4> QED
        BY <3>2, <4>2 DEF Starts, IsStart
    <3> QED
      BY <2>3, <3>1, <3>2
  <2>7. EarlierOK(c)'
    BY <1>1, <2>1, <2>6 DEF EarlierOK, Synchronised, Near
  <2> QED
    BY <2>3, <2>4, <2>5, <2>7 DEF ClientOK
<1>7. TypeOK'
  <2>1. toSlave' \in [Client -> Seq([pkt : SyncPacket \cup StartPacket, due : Nat])]
    BY <1>4 DEF Msg
  <2>2. mstate' \in {"begin", "hello", "drain", "rest", "phases", "settle", "start",
                     "startagain", "flush", "started"} /\ controlsynctime' \in Nat
    OBVIOUS
  <2>3. UNCHANGED <<now, client, pkt, sendtime, since, dtime, deltatime, done, transittimes,
                    missed, sstate, offset, ssince, ssendtime, sdone, scontrolsynctime, toMaster, faults>>
    BY DEF slaveVars
  <2> QED
    BY <1>1, <2>1, <2>2, <2>3 DEF TypeOK
<1>8. TimesOK'
  BY DEF SyncInv, TimesOK
<1> QED
  BY <1>5, <1>6, <1>7, <1>8 DEF SyncInv

\* The first COM_START.
LEMMA SendStartKeeps == ASSUME SyncInv, NetworkAssumption, SendStart PROVE SyncInv'
<1>1. Starting /\ Starting' /\ StartSent' /\ ~StartSent
  BY DEF SendStart, MasterAt, Starting, StartSent
<1>2. now \in Nat
  BY TypeFacts DEF SyncInv
<1> QED
  BY <1>1, <1>2, StartKeeps DEF SendStart

\* The second COM_START tells the same time.
LEMMA SendStartAgainKeeps == ASSUME SyncInv, NetworkAssumption, SendStartAgain PROVE SyncInv'
<1>1. Starting /\ Starting' /\ StartSent'
  BY DEF SendStartAgain, MasterAt, Starting, StartSent
<1>2. controlsynctime \in Nat
  BY DEF SyncInv, TypeOK
<1>3. /\ Broadcast(StartPkt(controlsynctime), Client) /\ controlsynctime' = controlsynctime
      /\ mstate' \in {"startagain", "flush"}
      /\ UNCHANGED <<now, client, pkt, sendtime, since, dtime, deltatime, done, transittimes,
                     missed, slaveVars, toMaster, faults>>
  BY DEF SendStartAgain
<1> QED
  BY <1>1, <1>2, <1>3, StartKeeps

\* The master starts the game.
LEMMA MasterStartedKeeps == ASSUME SyncInv, NetworkAssumption, MasterStarted PROVE SyncInv'
<1>1. /\ mstate = "flush" /\ mstate' = "started"
      /\ UNCHANGED <<now, client, pkt, sendtime, since, dtime, deltatime, done, transittimes,
                     controlsynctime, missed, sstate, offset, ssince, ssendtime, sdone, scontrolsynctime,
                     toMaster, toSlave, faults>>
  BY DEF MasterStarted, MasterAt, slaveVars, network
<1>2. Starting /\ Starting' /\ StartSent /\ StartSent'
  BY <1>1 DEF Starting, StartSent
<1>3. toMaster = <<>>
  BY <1>2 DEF SyncInv, MasterOK
<1>4. MasterOK'
  BY <1>1, <1>3, EmptySeq DEF MasterOK, InTimeOrder, DueFrom
<1>5. ASSUME NEW c \in Client
      PROVE  ClientOK(c)'
  <2>1. ClientOK(c) /\ ~Current(c)' /\ ~Later(c)' /\ Earlier(c)
    BY <1>2 DEF SyncInv, Current, Later, Earlier
  <2> QED
    BY <1>1, <1>2, <2>1, OtherClient
<1>6. TypeOK'
  BY <1>1 DEF SyncInv, TypeOK
<1>7. TimesOK'
  BY <1>1 DEF SyncInv, TimesOK
<1> QED
  BY <1>4, <1>5, <1>6, <1>7 DEF SyncInv
-----------------------------------------------------------------------------
(* Steps of a slave outside the hello and the phases                       *)

\* Where client c is: before, in or after its turn.
LEMMA Stages ==
    ASSUME SyncInv, NEW c \in Client
    PROVE  /\ QueueOK(c) /\ DrainOK(c) /\ TypeOK
           /\ \/ Later(c) /\ LaterOK(c) /\ ~Current(c) /\ ~Earlier(c)
              \/ Current(c) /\ CurrentOK(c) /\ ~Later(c) /\ ~Earlier(c) /\ c = client /\ mstate \in Turn
              \/ Earlier(c) /\ EarlierOK(c) /\ ~Later(c) /\ ~Current(c)
<1>1. c \in Int /\ client \in Int
  BY TypeFacts DEF SyncInv
<1>2. ClientOK(c) /\ TypeOK
  BY DEF SyncInv
<1>3. \/ Later(c) /\ ~Current(c) /\ ~Earlier(c)
      \/ Current(c) /\ ~Later(c) /\ ~Earlier(c) /\ c = client
      \/ Earlier(c) /\ ~Later(c) /\ ~Current(c)
  BY <1>1 DEF Later, Current, Earlier
<1>4. Current(c) => mstate \in Turn
  BY <1>2 DEF Current, Starting, Turn, TypeOK
<1> QED
  BY <1>2, <1>3, <1>4 DEF ClientOK

\* A step that leaves the master alone ends no client's turn.
LEMMA SameStage ==
    ASSUME NEW c, UNCHANGED masterVars
    PROVE  (Later(c)' <=> Later(c)) /\ (Current(c)' <=> Current(c)) /\ (Earlier(c)' <=> Earlier(c))
           /\ (StartSent' <=> StartSent) /\ (Starting' <=> Starting)
BY DEF masterVars, Later, Current, Earlier, Starting, StartSent

\* A step of slave c: what is to be shown.
LEMMA SlaveStep ==
    ASSUME SyncInv, NEW c \in Client, now' = now, UNCHANGED masterVars,
           \A d \in Client : d # c =>
              /\ sstate'[d] = sstate[d] /\ offset'[d] = offset[d] /\ ssince'[d] = ssince[d]
              /\ ssendtime'[d] = ssendtime[d] /\ sdone'[d] = sdone[d] /\ toSlave'[d] = toSlave[d],
           Current(c) \/ (toMaster' = toMaster /\ faults' = faults),
           TypeOK', ClientOK(c)', InTimeOrder(toMaster)', DueFrom(toMaster, now)'
    PROVE  SyncInv'
<1>1. ASSUME NEW d \in Client
      PROVE  ClientOK(d)'
  <2>1. CASE d = c
    BY <2>1
  <2>2. CASE d # c
    <3>1. ClientOK(d)
      BY DEF SyncInv
    <3>2. Current(d) => toMaster' = toMaster /\ faults' = faults
      BY <2>2 DEF Current
    <3> QED
      BY <2>2, <3>1, <3>2, SameClient
  <2> QED
    BY <2>1, <2>2
<1>2. MasterOK'
  <2>1. mstate' = mstate /\ pkt' = pkt /\ FreshPkt' = FreshPkt /\ (Starting' <=> Starting)
    BY DEF masterVars, FreshPkt, Starting
  <2>2. mstate = "begin" \/ Starting => toMaster' = <<>>
    BY DEF SyncInv, MasterOK, Current
  <2> QED
    BY <2>1, <2>2 DEF SyncInv, MasterOK
<1>3. TimesOK'
  BY DEF SyncInv, TimesOK, masterVars
<1> QED
  BY <1>1, <1>2, <1>3 DEF SyncInv

\* What a slave that reads finds.
LEMMA SlaveReadFacts ==
    ASSUME SyncInv, NEW c \in Client, SlaveReceives(c)
    PROVE  /\ toSlave[c] # <<>> /\ toSlave'[c] = Tail(toSlave[c]) /\ Head(toSlave[c]) = toSlave[c][1]
           /\ \A d \in Client : d # c => toSlave'[d] = toSlave[d]
           /\ toSlave' \in [Client -> Seq(Msg(SyncPacket \cup StartPacket))]
           /\ toSlave[c] \in Seq(Msg(SyncPacket \cup StartPacket))
           /\ Tail(toSlave[c]) \in Seq(Msg(SyncPacket \cup StartPacket))
           /\ toSlave[c][1].due \in Nat /\ toSlave[c][1].due <= now
           /\ toSlave[c][1].pkt \in SyncPacket \cup StartPacket
           /\ Len(toSlave[c]) \in Nat /\ Len(toSlave[c]) >= 1 /\ 1 \in 1 .. Len(toSlave[c])
           /\ Len(Tail(toSlave[c])) = Len(toSlave[c]) - 1
           /\ \A i \in 1 .. Len(Tail(toSlave[c])) : /\ i + 1 \in 1 .. Len(toSlave[c])
                                                    /\ Tail(toSlave[c])[i] = toSlave[c][i + 1]
           /\ InTimeOrder(Tail(toSlave[c]))
<1> DEFINE q == toSlave[c]
           Q == Seq(Msg(SyncPacket \cup StartPacket))
<1>1. toSlave \in [Client -> Q] /\ q \in Q /\ InTimeOrder(q)
  BY Stages DEF TypeOK, Msg, QueueOK
<1>2. q # <<>> /\ Head(q).due <= now /\ toSlave' = [toSlave EXCEPT ![c] = Tail(q)]
  BY DEF SlaveReceives, Waiting
<1> HIDE DEF q
<1>3. /\ Tail(q) \in Q /\ Len(Tail(q)) = Len(q) - 1 /\ Len(q) >= 1
      /\ \A i \in 1 .. Len(Tail(q)) : i + 1 \in 1 .. Len(q) /\ Tail(q)[i] = q[i + 1]
      /\ Head(q) = q[1] /\ 1 \in 1 .. Len(q)
      /\ InTimeOrder(Tail(q))
  BY <1>1, <1>2, ReadFirst
<1>4. q[1].due \in Nat /\ q[1].pkt \in SyncPacket \cup StartPacket /\ Len(q) \in Nat
  BY <1>1, <1>3, DueIsTime, LenProperties
<1>5. toSlave' \in [Client -> Q] /\ toSlave'[c] = Tail(q) /\ \A d \in Client : d # c => toSlave'[d] = toSlave[d]
  BY <1>1, <1>2, <1>3
<1> QED
  BY <1>1, <1>2, <1>3, <1>4, <1>5 DEF q

\* The queue after reading.
LEMMA QueueRead ==
    ASSUME SyncInv, NEW c \in Client, SlaveReceives(c), now' = now,
           sstate'[c] = "phases" => sstate[c] = "phases"
    PROVE  QueueOK(c)' /\ DueBy(toSlave'[c], now + MaxTransit)
           /\ \A t \in Int : /\ DueBy(toSlave[c], t) => DueBy(toSlave'[c], t)
                             /\ DueFrom(toSlave[c], t) => DueFrom(toSlave'[c], t)
<1> DEFINE q == toSlave[c]
<1>1. /\ toSlave'[c] = Tail(q) /\ InTimeOrder(Tail(q))
      /\ \A i \in 1 .. Len(Tail(q)) : i + 1 \in 1 .. Len(q) /\ Tail(q)[i] = q[i + 1]
  BY SlaveReadFacts
<1>2. QueueOK(c)
  BY Stages
<1> HIDE DEF q
<1>3. \A t \in Int : /\ DueBy(q, t) => DueBy(Tail(q), t)
                     /\ DueFrom(q, t) => DueFrom(Tail(q), t)
  BY <1>1 DEF DueBy, DueFrom
<1>4. /\ DueBy(q, now + MaxTransit) => DueBy(Tail(q), now + MaxTransit)
      /\ DueFrom(q, now) => DueFrom(Tail(q), now)
  BY <1>1 DEF DueBy, DueFrom
<1>5. DueBy(q, now + MaxTransit) /\ (sstate[c] = "phases" => DueFrom(q, now))
  BY <1>2 DEF QueueOK, q
<1>6. QueueOK(c)'
  BY <1>1, <1>4, <1>5 DEF QueueOK
<1> QED
  BY <1>1, <1>3, <1>4, <1>5, <1>6 DEF q

\* A client has loaded the level.
LEMMA EnterKeeps == ASSUME SyncInv, NetworkAssumption, NEW c \in Client, Enter(c) PROVE SyncInv'
<1>1. /\ sstate[c] = "loading" /\ sstate' = [sstate EXCEPT ![c] = "hello"]
      /\ UNCHANGED <<now, masterVars, offset, ssince, ssendtime, sdone, scontrolsynctime,
                     toMaster, toSlave, faults>>
  BY DEF Enter, network
<1>2. TypeOK /\ sstate'[c] = "hello" /\ \A d \in Client : d # c => sstate'[d] = sstate[d]
  BY <1>1 DEF SyncInv, TypeOK
<1>3. TypeOK'
  BY <1>1, <1>2 DEF TypeOK, masterVars
<1>4. QueueOK(c)' /\ DrainOK(c)'
  BY <1>1, <1>2, Stages DEF QueueOK, DrainOK, InTimeOrder, DueBy, DueFrom
<1>5. Later(c)' => LaterOK(c)'
  BY <1>1, <1>2, Stages, SameStage DEF LaterOK, Memos, IsMemo, IsSync
<1>6. ~Earlier(c)'
  BY <1>1, <1>2, Stages, SameStage DEF EarlierOK, Synchronised
<1>7. Current(c)' => CurrentOK(c)'
  <2> SUFFICES ASSUME Current(c)'
               PROVE  CurrentOK(c)'
    OBVIOUS
  <2>1. CurrentOK(c) /\ mstate \in Turn
    BY <1>1, Stages, SameStage
  <2>2. mstate = "hello"
    BY <1>1, <2>1 DEF CurrentOK, MasterDrainOK, RestOK, PingPongOK, LeavingOK, Turn
  <2>3. HelloOK(c) /\ pkt = FreshPkt /\ sendtime <= now
    BY <2>1, <2>2 DEF CurrentOK
  <2>4. HelloOK(c)'
    BY <1>1, <1>2, <2>3 DEF HelloOK, Hellos, IsHello, IsSync, MemosThenHellos, IsMemo, LateLeft,
                           FirstAnswer, AnswersClose, DueBy
  <2> QED
    BY <1>1, <2>2, <2>3, <2>4 DEF CurrentOK, FreshPkt, masterVars
<1>8. ClientOK(c)'
  BY <1>4, <1>5, <1>6, <1>7 DEF ClientOK
<1>9. InTimeOrder(toMaster)' /\ DueFrom(toMaster, now)'
  BY <1>1 DEF SyncInv, MasterOK, InTimeOrder, DueFrom
<1> QED
  BY <1>1, <1>2, <1>3, <1>8, <1>9, SlaveStep

\* A slave that has set its clock leaves the phases.
LEMMA SlaveLeaveSyncKeeps ==
    ASSUME SyncInv, NetworkAssumption, NEW c \in Client, SlaveLeaveSync(c) PROVE SyncInv'
<1>1. /\ sstate[c] = "phases" /\ sstate' = [sstate EXCEPT ![c] = "settle"]
      /\ Clock(c) >= SlaveDeadline(c)
      /\ UNCHANGED <<now, masterVars, offset, ssince, ssendtime, sdone, scontrolsynctime,
                     toMaster, toSlave, faults>>
  BY DEF SlaveLeaveSync, SlaveAt, network
<1>2. TypeOK /\ sstate'[c] = "settle" /\ \A d \in Client : d # c => sstate'[d] = sstate[d]
  BY <1>1 DEF SyncInv, TypeOK
<1>3. sdone[c]
  <2>1. Clock(c) \in Int
    BY TypeFacts DEF SyncInv, Clock
  <2> QED
    BY <1>1, <2>1 DEF SlaveDeadline
<1>4. TypeOK'
  BY <1>1, <1>2 DEF TypeOK, masterVars
<1>5. QueueOK(c)' /\ DrainOK(c)'
  BY <1>1, <1>2, Stages DEF QueueOK, DrainOK, InTimeOrder, DueBy, DueFrom
<1>6. ~Later(c)' /\ ~Earlier(c)'
  BY <1>1, <1>3, Stages, SameStage DEF LaterOK, EarlierOK, Synchronised
<1>7. CurrentOK(c) /\ mstate \in Turn
  BY <1>1, <1>6, Stages, SameStage
<1>8. LeavingOK(c) /\ (mstate = "settle" \/ (mstate = "phases" /\ done /\ now = sendtime))
  BY <1>1, <1>3, <1>7 DEF CurrentOK, HelloOK, MasterDrainOK, RestOK, PingPongOK, Turn
<1>9. LeavingOK(c)'
  BY <1>1, <1>2, <1>3, <1>8 DEF LeavingOK, Near, masterVars
<1>10. CurrentOK(c)'
  BY <1>1, <1>8, <1>9 DEF CurrentOK, masterVars
<1>11. ClientOK(c)'
  BY <1>5, <1>6, <1>10 DEF ClientOK
<1>12. InTimeOrder(toMaster)' /\ DueFrom(toMaster, now)'
  BY <1>1 DEF SyncInv, MasterOK, InTimeOrder, DueFrom
<1> QED
  BY <1>1, <1>2, <1>4, <1>11, <1>12, SlaveStep

\* The slave's pause ends.
LEMMA SlaveEndSettleKeeps ==
    ASSUME SyncInv, NetworkAssumption, NEW c \in Client, SlaveEndSettle(c) PROVE SyncInv'
<1>1. /\ sstate[c] = "settle" /\ sstate' = [sstate EXCEPT ![c] = "waitstart"]
      /\ Clock(c) >= ssendtime[c] + SYNCTIME
      /\ ssince' = [ssince EXCEPT ![c] = 0] /\ ssendtime' = [ssendtime EXCEPT ![c] = 0]
      /\ UNCHANGED <<now, masterVars, offset, sdone, scontrolsynctime, toMaster, toSlave, faults>>
  BY DEF SlaveEndSettle, SlaveAt, SlaveDeadline, network
<1>2. /\ TypeOK /\ sstate'[c] = "waitstart"
      /\ \A d \in Client : d # c => /\ sstate'[d] = sstate[d] /\ ssince'[d] = ssince[d]
                                    /\ ssendtime'[d] = ssendtime[d]
  BY <1>1 DEF SyncInv, TypeOK
<1>3. TypeOK'
  <2>1. /\ sstate' \in [Client -> {"loading", "hello", "drain", "phases", "settle", "waitstart",
                                   "flush", "started"}]
        /\ ssince' \in [Client -> Int] /\ ssendtime' \in [Client -> Int]
    BY <1>1, <1>2 DEF TypeOK
  <2> QED
    BY <1>1, <1>2, <2>1 DEF TypeOK, masterVars
<1>4. QueueOK(c)' /\ DrainOK(c)'
  BY <1>1, <1>2, Stages DEF QueueOK, DrainOK, InTimeOrder, DueBy, DueFrom
<1>5. ~Current(c)
  <2> SUFFICES ASSUME Current(c)
               PROVE  FALSE
    OBVIOUS
  <2>1. CurrentOK(c) /\ mstate \in Turn
    BY Stages
  <2>2. LeavingOK(c)
    BY <1>1, <2>1 DEF CurrentOK, HelloOK, MasterDrainOK, RestOK, PingPongOK, Turn
  <2>3. Near(offset[c]) /\ ssendtime[c] = sendtime + SYNCTIME /\ now <= sendtime + SYNCTIME
    BY <1>1, <2>2 DEF LeavingOK
  <2>4. /\ offset[c] \in Int /\ now \in Nat /\ sendtime \in Int /\ MaxTransit \in Nat
        /\ SYNCTIME \in Nat /\ 2 * MaxTransit < SYNCTIME
    BY TransitFacts, TypeFacts DEF SyncInv, NetworkAssumption, TypeOK
  <2> QED
    BY <1>1, <2>3, <2>4 DEF Near, Clock
<1>6. ~Later(c)' /\ ~Current(c)' /\ EarlierOK(c)
  BY <1>1, <1>5, Stages, SameStage DEF LaterOK
<1>7. EarlierOK(c)'
  <2>1. StartSent' <=> StartSent
    BY <1>1, SameStage
  <2>2. Near(offset[c]) /\ (IF StartSent THEN Starts(toSlave[c]) ELSE toSlave[c] = <<>>)
    BY <1>1, <1>6 DEF EarlierOK
  <2> QED
    BY <1>1, <1>2, <2>1, <2>2 DEF EarlierOK, Synchronised, Near, Starts, IsStart, StartPkt, masterVars
<1>8. ClientOK(c)'
  BY <1>4, <1>6, <1>7 DEF ClientOK
<1>9. InTimeOrder(toMaster)' /\ DueFrom(toMaster, now)'
  BY <1>1 DEF SyncInv, MasterOK, InTimeOrder, DueFrom
<1> QED
  BY <1>1, <1>2, <1>3, <1>8, <1>9, SlaveStep

\* COM_START ends the wait of a slave.
LEMMA SlaveHearsStartKeeps ==
    ASSUME SyncInv, NetworkAssumption, NEW c \in Client, SlaveHearsStart(c) PROVE SyncInv'
<1> DEFINE q == toSlave[c]
           p == Head(q).pkt
<1>1. /\ sstate[c] = "waitstart" /\ SlaveReceives(c)
      /\ IF p.type = "start"
         THEN /\ sstate' = [sstate EXCEPT ![c] = "flush"]
              /\ scontrolsynctime' = [scontrolsynctime EXCEPT ![c] = p.clocktime]
         ELSE UNCHANGED <<sstate, scontrolsynctime>>
      /\ UNCHANGED <<now, masterVars, offset, ssince, ssendtime, sdone, toMaster, faults>>
  BY DEF SlaveHearsStart
<1>2. /\ q # <<>> /\ toSlave'[c] = Tail(q) /\ p = q[1].pkt /\ 1 \in 1 .. Len(q)
      /\ \A d \in Client : d # c => toSlave'[d] = toSlave[d]
      /\ toSlave' \in [Client -> Seq(Msg(SyncPacket \cup StartPacket))]
      /\ \A i \in 1 .. Len(Tail(q)) : i + 1 \in 1 .. Len(q) /\ Tail(q)[i] = q[i + 1]
  BY <1>1, SlaveReadFacts
<1>3. Earlier(c) /\ EarlierOK(c) /\ TypeOK
  <2>1. ~Current(c)
    <3> SUFFICES ASSUME Current(c)
                 PROVE  FALSE
      OBVIOUS
    <3>1. CurrentOK(c) /\ mstate \in Turn
      BY Stages
    <3> QED
      BY <1>1, <3>1 DEF CurrentOK, HelloOK, MasterDrainOK, RestOK, PingPongOK, LeavingOK, Turn
  <2> QED
    BY <1>1, <2>1, Stages DEF LaterOK
<1> HIDE DEF q
<1>4. StartSent /\ Starts(q) /\ Near(offset[c])
  BY <1>1, <1>2, <1>3 DEF EarlierOK, q
<1>5. p = StartPkt(controlsynctime)
  BY <1>2, <1>4 DEF Starts, IsStart
<1>6. p.type = "start" /\ p.clocktime = controlsynctime /\ controlsynctime \in Nat
  BY <1>3, <1>5 DEF StartPkt, TypeOK
<1> HIDE DEF p
<1>7. /\ sstate' = [sstate EXCEPT ![c] = "flush"] /\ sstate'[c] = "flush"
      /\ scontrolsynctime' = [scontrolsynctime EXCEPT ![c] = controlsynctime]
      /\ \A d \in Client : d # c => sstate'[d] = sstate[d]
  BY <1>1, <1>3, <1>6 DEF TypeOK
<1>8. TypeOK'
  <2>1. toSlave' \in [Client -> Seq([pkt : SyncPacket \cup StartPacket, due : Nat])]
    BY <1>2 DEF Msg
  <2>2. /\ sstate' \in [Client -> {"loading", "hello", "drain", "phases", "settle", "waitstart",
                                   "flush", "started"}]
        /\ scontrolsynctime' \in [Client -> Nat]
    BY <1>3, <1>6, <1>7 DEF TypeOK
  <2> QED
    BY <1>1, <1>3, <2>1, <2>2 DEF TypeOK, masterVars
<1>9. QueueOK(c)' /\ DrainOK(c)'
  BY <1>1, <1>7, QueueRead DEF DrainOK
<1>10. Starts(Tail(q))
  BY <1>2, <1>4 DEF Starts
<1>11. EarlierOK(c)'
  <2>1. StartSent' /\ toSlave'[c] = Tail(q)
    BY <1>1, <1>2, <1>4, SameStage
  <2> QED
    BY <1>1, <1>4, <1>7, <1>10, <2>1 DEF EarlierOK, Synchronised, Near, Starts, IsStart, StartPkt, masterVars
<1>12. ~Later(c)' /\ ~Current(c)'
  BY <1>1, <1>3, Stages, SameStage
<1>13. ClientOK(c)'
  BY <1>9, <1>11, <1>12 DEF ClientOK
<1>14. InTimeOrder(toMaster)' /\ DueFrom(toMaster, now)'
  BY <1>1 DEF SyncInv, MasterOK, InTimeOrder, DueFrom
<1> QED
  BY <1>1, <1>2, <1>7, <1>8, <1>13, <1>14, SlaveStep

\* A slave starts the game.
LEMMA SlaveStartedKeeps ==
    ASSUME SyncInv, NetworkAssumption, NEW c \in Client, SlaveStarted(c) PROVE SyncInv'
<1>1. /\ sstate[c] = "flush" /\ sstate' = [sstate EXCEPT ![c] = "started"]
      /\ UNCHANGED <<now, masterVars, offset, ssince, ssendtime, sdone, scontrolsynctime,
                     toMaster, toSlave, faults>>
  BY DEF SlaveStarted, SlaveAt, network
<1>2. TypeOK /\ sstate'[c] = "started" /\ \A d \in Client : d # c => sstate'[d] = sstate[d]
  BY <1>1 DEF SyncInv, TypeOK
<1>3. TypeOK'
  BY <1>1, <1>2 DEF TypeOK, masterVars
<1>4. QueueOK(c)' /\ DrainOK(c)'
  BY <1>1, <1>2, Stages DEF QueueOK, DrainOK, InTimeOrder, DueBy, DueFrom
<1>5. ~Current(c)
  <2> SUFFICES ASSUME Current(c)
               PROVE  FALSE
    OBVIOUS
  <2>1. CurrentOK(c) /\ mstate \in Turn
    BY Stages
  <2> QED
    BY <1>1, <2>1 DEF CurrentOK, HelloOK, MasterDrainOK, RestOK, PingPongOK, LeavingOK, Turn
<1>6. ~Later(c)' /\ ~Current(c)' /\ EarlierOK(c)
  BY <1>1, <1>5, Stages, SameStage DEF LaterOK
<1>7. EarlierOK(c)'
  <2>1. StartSent' <=> StartSent
    BY <1>1, SameStage
  <2>2. Near(offset[c]) /\ StartSent /\ Starts(toSlave[c])
    BY <1>1, <1>6 DEF EarlierOK
  <2> QED
    BY <1>1, <1>2, <2>1, <2>2 DEF EarlierOK, Synchronised, Near, Starts, IsStart, StartPkt, masterVars
<1>8. ClientOK(c)'
  BY <1>4, <1>6, <1>7 DEF ClientOK
<1>9. InTimeOrder(toMaster)' /\ DueFrom(toMaster, now)'
  BY <1>1 DEF SyncInv, MasterOK, InTimeOrder, DueFrom
<1> QED
  BY <1>1, <1>2, <1>3, <1>8, <1>9, SlaveStep

\* A slave throws a packet away.
LEMMA SlaveDiscardsKeeps ==
    ASSUME SyncInv, NetworkAssumption, NEW c \in Client, SlaveDiscards(c) PROVE SyncInv'
<1> DEFINE q == toSlave[c]
<1>1. /\ sstate[c] \in {"drain", "flush", "settle"} /\ SlaveReceives(c)
      /\ UNCHANGED <<now, masterVars, sstate, offset, ssince, ssendtime, sdone, scontrolsynctime,
                     toMaster, faults>>
  BY DEF SlaveDiscards, SlaveDiscarding, slaveVars
<1>2. /\ q # <<>> /\ toSlave'[c] = Tail(q)
      /\ \A d \in Client : d # c => toSlave'[d] = toSlave[d]
      /\ toSlave' \in [Client -> Seq(Msg(SyncPacket \cup StartPacket))]
      /\ \A i \in 1 .. Len(Tail(q)) : i + 1 \in 1 .. Len(q) /\ Tail(q)[i] = q[i + 1]
  BY <1>1, SlaveReadFacts
<1>3. /\ QueueOK(c)'
      /\ \A t \in Int : /\ DueBy(q, t) => DueBy(Tail(q), t)
                        /\ DueFrom(q, t) => DueFrom(Tail(q), t)
  BY <1>1, <1>2, QueueRead
<1>4. /\ TypeOK /\ now \in Nat /\ since \in Nat /\ MaxTransit \in Nat
  BY TransitFacts DEF SyncInv, TypeOK, NetworkAssumption
<1>5. TypeOK'
  <2>1. toSlave' \in [Client -> Seq([pkt : SyncPacket \cup StartPacket, due : Nat])]
    BY <1>2 DEF Msg
  <2> QED
    BY <1>1, <1>4, <2>1 DEF TypeOK, masterVars
<1> HIDE DEF q
<1>6. DrainOK(c)'
  <2>1. DueFrom(q, now) => DueFrom(Tail(q), now)
    BY <1>3, <1>4
  <2>2. DrainOK(c)
    BY Stages
  <2> QED
    BY <1>1, <1>2, <2>1, <2>2 DEF DrainOK, Answered, q
<1>7. ~Later(c)'
  BY <1>1, Stages, SameStage DEF LaterOK
<1>8. ASSUME Earlier(c)'
      PROVE  EarlierOK(c)'
  <2>1. EarlierOK(c) /\ (StartSent' <=> StartSent)
    BY <1>1, <1>8, Stages, SameStage
  <2>2. StartSent /\ Starts(q)
    BY <1>2, <2>1 DEF EarlierOK, q
  <2>3. Starts(Tail(q))
    BY <1>2, <2>2 DEF Starts
  <2> QED
    BY <1>1, <1>2, <2>1, <2>2, <2>3 DEF EarlierOK, Synchronised, Near, Starts, IsStart, StartPkt, masterVars
<1>9. ASSUME Current(c)'
      PROVE  CurrentOK(c)'
  <2>1. CurrentOK(c) /\ mstate \in Turn
    BY <1>1, <1>9, Stages, SameStage
  <2>2. Hellos(q) => Hellos(Tail(q))
    BY <1>2 DEF Hellos
  <2>3. /\ mstate' = mstate /\ pkt' = pkt /\ FreshPkt' = FreshPkt /\ sendtime' = sendtime /\ since' = since
    BY <1>1 DEF masterVars, FreshPkt
  <2>4. CASE mstate = "hello"
    <3>1. HelloOK(c) /\ pkt = FreshPkt /\ sendtime <= now
      BY <2>1, <2>4 DEF CurrentOK
    <3>2. sstate[c] = "drain" /\ Hellos(Tail(q))
      BY <1>1, <2>2, <3>1 DEF HelloOK, q
    <3>3. HelloOK(c)'
      BY <1>1, <1>2, <3>1, <3>2 DEF HelloOK, Hellos, IsHello, IsSync, LateLeft, FirstAnswer, AnswersClose,
                                    DueBy, Answered
    <3> QED
      BY <1>1, <2>3, <2>4, <3>1, <3>3 DEF CurrentOK
  <2>5. CASE mstate = "drain"
    <3>1. MasterDrainOK(c) /\ pkt = FreshPkt
      BY <2>1, <2>5 DEF CurrentOK
    <3>2. sstate[c] = "drain" /\ Hellos(Tail(q)) /\ DueBy(Tail(q), since + MaxTransit)
      BY <1>1, <1>3, <1>4, <2>2, <3>1 DEF MasterDrainOK, q
    <3>3. MasterDrainOK(c)'
      BY <1>1, <1>2, <2>3, <3>1, <3>2 DEF MasterDrainOK, Hellos, IsHello, IsSync, LateLeft, DueBy, Answered
    <3> QED
      BY <2>3, <2>5, <3>1, <3>3 DEF CurrentOK
  <2>6. CASE mstate \in {"rest", "phases", "settle"}
    BY <1>1, <1>2, <2>1, <2>6 DEF CurrentOK, RestOK, PingPongOK, LeavingOK, q
  <2> QED
    BY <2>1, <2>4, <2>5, <2>6 DEF Turn
<1>10. ClientOK(c)'
  BY <1>3, <1>6, <1>7, <1>8, <1>9 DEF ClientOK
<1>11. InTimeOrder(toMaster)' /\ DueFrom(toMaster, now)'
  BY <1>1 DEF SyncInv, MasterOK, InTimeOrder, DueFrom
<1> QED
  BY <1>1, <1>2, <1>5, <1>10, <1>11, SlaveStep

\* When a slave enters the phases what comes from now on is read in time.
LEMMA SlaveEndDrainKeeps ==
    ASSUME SyncInv, NetworkAssumption, NEW c \in Client, SlaveEndDrain(c) PROVE SyncInv'
<1> DEFINE q == toSlave[c]
<1>1. /\ sstate[c] = "drain" /\ sstate' = [sstate EXCEPT ![c] = "phases"]
      /\ Clock(c) >= ssince[c] + SYNCTIME
      /\ UNCHANGED <<now, masterVars, offset, ssince, ssendtime, sdone, scontrolsynctime,
                     toMaster, toSlave, faults>>
  BY DEF SlaveEndDrain, SlaveAt, SlaveDeadline, network
<1>2. TypeOK /\ sstate'[c] = "phases" /\ \A d \in Client : d # c => sstate'[d] = sstate[d]
  BY <1>1 DEF SyncInv, TypeOK
<1>3. TypeOK'
  BY <1>1, <1>2 DEF TypeOK, masterVars
<1>4. /\ now \in Nat /\ offset[c] \in Int /\ ssince[c] \in Int /\ since \in Nat
      /\ MaxTransit \in Nat /\ SYNCTIME \in Nat /\ 2 * MaxTransit < SYNCTIME /\ SYNCTIME > 0
      /\ q \in Seq(Msg(SyncPacket \cup StartPacket)) /\ toMaster \in Seq(Msg(SyncPacket))
      /\ DueFrom(toMaster, now) /\ InTimeOrder(toMaster)
  <2>1. MaxTransit \in Nat /\ SYNCTIME \in Nat /\ 2 * MaxTransit < SYNCTIME
    BY TransitFacts DEF NetworkAssumption
  <2>2. SYNCTIME > 0
    BY <2>1
  <2>3. /\ now \in Nat /\ offset[c] \in Int /\ ssince[c] \in Int /\ since \in Nat
        /\ q \in Seq(Msg(SyncPacket \cup StartPacket)) /\ toMaster \in Seq(Msg(SyncPacket))
    BY <1>2, TypeFacts DEF TypeOK
  <2>4. DueFrom(toMaster, now) /\ InTimeOrder(toMaster)
    BY DEF SyncInv, MasterOK
  <2> QED
    BY <2>1, <2>2, <2>3, <2>4
<1>5. Answered(c) \in Int /\ now = Answered(c) + SYNCTIME /\ DueFrom(q, now)
  <2>1. Answered(c) \in Int /\ now >= Answered(c) + SYNCTIME
    BY <1>1, <1>4 DEF Answered, Clock
  <2>2. DrainOK(c)
    BY Stages
  <2>3. Answered(c) <= now /\ now <= Answered(c) + SYNCTIME /\ (now > Answered(c) => DueFrom(q, now))
    BY <1>1, <2>2 DEF DrainOK
  <2> HIDE DEF q
  <2> QED
    BY <1>4, <2>1, <2>3
<1>6. QueueOK(c)' /\ DrainOK(c)'
  BY <1>1, <1>2, <1>5, Stages DEF QueueOK, DrainOK, InTimeOrder, DueBy, DueFrom
<1>7. ~Later(c)' /\ ~Earlier(c)'
  BY <1>1, Stages, SameStage DEF LaterOK, EarlierOK, Synchronised
<1>8. CurrentOK(c) /\ mstate \in Turn
  BY <1>1, <1>7, Stages, SameStage
<1>9. /\ mstate' = mstate /\ pkt' = pkt /\ FreshPkt' = FreshPkt /\ sendtime' = sendtime /\ since' = since
  BY <1>1 DEF masterVars, FreshPkt
<1> HIDE DEF q
<1>10. CurrentOK(c)'
  <2>1. CASE mstate = "hello"
    <3>1. HelloOK(c) /\ pkt = FreshPkt /\ sendtime <= now
      BY <1>8, <2>1 DEF CurrentOK
    <3>2. ~LateLeft
      <4> SUFFICES ASSUME LateLeft
                   PROVE  FALSE
        OBVIOUS
      <4>1. toMaster # <<>> /\ DueBy(toMaster, Answered(c) + MaxTransit)
        BY <1>1, <3>1 DEF HelloOK, FirstAnswer
      <4>2. Answered(c) + MaxTransit < now
        BY <1>4, <1>5
      <4> QED
        BY <1>4, <1>5, <4>1, <4>2, NothingLeft
    <3>3. HelloOK(c)'
      BY <1>1, <1>2, <3>1, <3>2 DEF HelloOK, Hellos, IsHello, IsSync, LateLeft, AnswersClose, DueBy
    <3> QED
      BY <1>1, <1>9, <2>1, <3>1, <3>3 DEF CurrentOK
  <2>2. CASE mstate = "drain"
    <3>1. MasterDrainOK(c) /\ pkt = FreshPkt
      BY <1>8, <2>2 DEF CurrentOK
    <3>2. LateLeft => q = <<>>
      <4> SUFFICES ASSUME LateLeft
                   PROVE  q = <<>>
        OBVIOUS
      <4>1. since <= Answered(c) + MaxTransit /\ DueBy(q, since + MaxTransit)
        BY <1>1, <3>1 DEF MasterDrainOK, q
      <4>2. since + MaxTransit < now /\ since + MaxTransit \in Int /\ now \in Int
        BY <1>4, <1>5, <4>1
      <4> QED
        BY <1>4, <1>5, <4>1, <4>2, NothingLeft
    <3>3. MasterDrainOK(c)'
      BY <1>1, <1>2, <1>9, <3>1, <3>2 DEF MasterDrainOK, Hellos, IsHello, IsSync, LateLeft, DueBy, q
    <3> QED
      BY <1>9, <2>2, <3>1, <3>3 DEF CurrentOK
  <2>3. CASE mstate = "rest"
    <3>1. RestOK(c) /\ pkt = FreshPkt
      BY <1>8, <2>3 DEF CurrentOK
    <3>2. RestOK(c)'
      BY <1>1, <1>2, <1>9, <3>1 DEF RestOK
    <3> QED
      BY <1>9, <2>3, <3>1, <3>2 DEF CurrentOK
  <2>4. CASE mstate \in {"phases", "settle"}
    BY <1>1, <1>8, <2>4 DEF CurrentOK, PingPongOK, LeavingOK
  <2> QED
    BY <1>8, <2>1, <2>2, <2>3, <2>4 DEF Turn
<1>11. ClientOK(c)'
  BY <1>6, <1>7, <1>10 DEF ClientOK
<1>12. InTimeOrder(toMaster)' /\ DueFrom(toMaster, now)'
  BY <1>1 DEF SyncInv, MasterOK, InTimeOrder, DueFrom
<1> QED
  BY <1>1, <1>2, <1>3, <1>11, <1>12, SlaveStep
-----------------------------------------------------------------------------
(* The hello: steps of a slave                                             *)

\* A sending to the master: what the queue and the number of faults become.
LEMMA ToMasterFacts ==
    ASSUME TypeOK, Prompt, InTimeOrder(toMaster), DueFrom(toMaster, now),
           NEW p \in SyncPacket, SendToMaster(p)
    PROVE  /\ toMaster' \in Seq(Msg(SyncPacket)) /\ InTimeOrder(toMaster') /\ DueFrom(toMaster', now)
           /\ faults' \in 0 .. MaxFaults
           /\ \/ Extends(toMaster', toMaster, p, MaxTransit) /\ faults' = faults
              \/ toMaster' = toMaster /\ faults' = faults + 1 /\ faults < MaxFaults
              \/ /\ Extends(toMaster', toMaster, p, Late) /\ faults' = faults + 1 /\ faults < MaxFaults
                 /\ p.phase = SYNC_PHASE0
<1>1. /\ now \in Nat /\ faults \in 0 .. MaxFaults /\ MaxFaults \in Nat /\ Late \in Nat /\ MaxTransit \in Nat
      /\ toMaster \in Seq(Msg(SyncPacket))
  BY TransitFacts, RottSyncAssumption DEF TypeOK, Msg
<1>2. PICK s \in Sent(toMaster, p, TRUE) : toMaster' = s.queue /\ faults' = s.faults
  BY DEF SendToMaster
<1>3. /\ s.queue \in Seq(Msg(SyncPacket)) /\ InTimeOrder(s.queue)
      /\ \/ Extends(s.queue, toMaster, p, MaxTransit) /\ s.faults = faults
         \/ s.queue = toMaster /\ s.faults = faults + 1 /\ faults < MaxFaults
         \/ /\ Extends(s.queue, toMaster, p, Late) /\ s.faults = faults + 1 /\ faults < MaxFaults
            /\ p.phase = SYNC_PHASE0
  <2>1. CASE s \in {[queue |-> Arriving(toMaster, p, t), faults |-> faults] : t \in Transit}
    <3> PICK t \in Transit : s = [queue |-> Arriving(toMaster, p, t), faults |-> faults]
      BY <2>1
    <3> QED
      BY <1>1, Travels
  <2>2. CASE s = [queue |-> toMaster, faults |-> faults + 1] /\ faults < MaxFaults
    BY <1>1, <2>2
  <2>3. CASE /\ s = [queue |-> Arriving(toMaster, p, Late), faults |-> faults + 1]
             /\ faults < MaxFaults /\ p.phase = SYNC_PHASE0
    BY <1>1, <2>3, IsLate
  <2> QED
    BY <1>2, <2>1, <2>2, <2>3 DEF Sent
<1>4. faults' \in 0 .. MaxFaults
  BY <1>1, <1>2, <1>3
<1>5. DueFrom(toMaster', now)
  <2>1. CASE Extends(s.queue, toMaster, p, MaxTransit)
    BY <1>1, <1>2, <1>3, <2>1, ExtendsFacts
  <2>2. CASE Extends(s.queue, toMaster, p, Late)
    BY <1>1, <1>2, <1>3, <2>2, ExtendsFacts
  <2>3. CASE s.queue = toMaster
    BY <1>2, <2>3
  <2> QED
    BY <1>3, <2>1, <2>2, <2>3
<1> QED
  BY <1>2, <1>3, <1>4, <1>5

\* The first answers on their way stay close to each other: only the first is
\* late when a late one is longer on its way than the master waits.
LEMMA CloseAfter ==
    ASSUME NEW p, NEW q \in Seq(Msg(SyncPacket)), NEW r \in Seq(Msg(SyncPacket)), NEW travel \in Nat,
           now \in Nat, MaxTransit \in Nat, Extends(r, q, p, travel),
           \/ travel <= MaxTransit
           \/ q = <<>>,
           \A i \in 1 .. Len(q) : q[i].due <= q[1].due + MaxTransit \/ q[i].due <= now + MaxTransit
    PROVE  \A i \in 1 .. Len(r) : r[i].due <= r[1].due + MaxTransit \/ r[i].due <= now + MaxTransit
<1>1. /\ Len(q) \in Nat /\ Len(r) \in Nat
      /\ \A i \in 1 .. Len(r) : r[i].due \in Nat
      /\ \A i \in 1 .. Len(q) : q[i].due \in Nat
  BY LenProperties, DueIsTime
<1>2. /\ Len(r) = Len(q) + 1
      /\ \A i \in 1 .. Len(q) : r[i] = q[i]
      /\ \/ r[Len(r)].due <= now + travel
         \/ Len(q) > 0 /\ r[Len(r)].due = q[Len(q)].due
  BY DEF Extends
<1> SUFFICES ASSUME NEW i \in 1 .. Len(r)
             PROVE  r[i].due <= r[1].due + MaxTransit \/ r[i].due <= now + MaxTransit
  OBVIOUS
<1>3. CASE q = <<>>
  <2>1. Len(q) = 0
    BY <1>3, EmptySeq
  <2>2. i = 1
    BY <1>1, <1>2, <2>1
  <2> QED
    BY <1>1, <2>2
<1>4. CASE q # <<>>
  <2>1. Len(q) \in 1 .. Len(q) /\ 1 \in 1 .. Len(q) /\ travel <= MaxTransit
    BY <1>1, <1>4, EmptySeq
  <2>2. r[1] = q[1]
    BY <1>2, <2>1
  <2>3. CASE i \in 1 .. Len(q)
    BY <1>2, <2>2, <2>3
  <2>4. CASE i = Len(r)
    <3>1. q[Len(q)].due <= q[1].due + MaxTransit \/ q[Len(q)].due <= now + MaxTransit
      BY <2>1
    <3> QED
      BY <1>1, <1>2, <2>1, <2>2, <2>4, <3>1
  <2> QED
    BY <1>1, <1>2, <2>3, <2>4
<1> QED
  BY <1>3, <1>4

\* A slave answers a hello: the answers that are on their way to the master.
LEMMA HelloToMaster ==
    ASSUME TypeOK, NetworkAssumption, InTimeOrder(toMaster), DueFrom(toMaster, now),
           NEW p \in SyncPacket, p.phase = SYNC_PHASE0, SendToMaster(p), now' = now,
           Hellos(toMaster), LateLeft => toMaster = <<>>
    PROVE  /\ Hellos(toMaster)'
           /\ LateLeft' => LateLeft /\ Extends(toMaster', toMaster, p, MaxTransit)
           /\ AnswersClose => AnswersClose'
           /\ \A t \in Int :
                 (/\ DueBy(toMaster, t) /\ now + MaxTransit <= t
                  /\ Late + MaxTransit < SYNCTIME => now + Late <= t
                  /\ ~(Late + MaxTransit < SYNCTIME) => ~LateLeft)
                 => DueBy(toMaster', t)
<1> DEFINE q == toMaster
           r == toMaster'
<1>1. /\ r \in Seq(Msg(SyncPacket)) /\ q \in Seq(Msg(SyncPacket))
      /\ faults' \in 0 .. MaxFaults /\ faults \in 0 .. MaxFaults
      /\ \/ Extends(r, q, p, MaxTransit) /\ faults' = faults
         \/ r = q /\ faults' = faults + 1 /\ faults < MaxFaults
         \/ Extends(r, q, p, Late) /\ faults' = faults + 1 /\ faults < MaxFaults
  BY ToMasterFacts DEF NetworkAssumption, TypeOK, Msg
<1>2. /\ now \in Nat /\ MaxTransit \in Nat /\ Late \in Nat /\ MaxFaults \in Nat /\ SYNCTIME \in Nat
      /\ 2 * MaxTransit < SYNCTIME
  BY TransitFacts, RottSyncAssumption DEF NetworkAssumption, TypeOK
<1>3. IsHello(p) /\ (\A i \in 1 .. Len(q) : IsHello(q[i].pkt))
  BY DEF IsHello, IsSync, SyncPacket, Hellos
<1> HIDE DEF q, r
<1>4. \A i \in 1 .. Len(r) : \/ i \in 1 .. Len(q) /\ r[i] = q[i]
                             \/ r[i].pkt = p
  <2>1. CASE r = q
    BY <2>1
  <2>2. CASE Extends(r, q, p, MaxTransit)
    BY <1>1, <1>2, <2>2, ExtendsFacts
  <2>3. CASE Extends(r, q, p, Late)
    BY <1>1, <1>2, <2>3, ExtendsFacts
  <2> QED
    BY <1>1, <2>1, <2>2, <2>3
<1>5. Hellos(toMaster)'
  <2>1. \A i \in 1 .. Len(r) : IsHello(r[i].pkt)
    BY <1>3, <1>4
  <2> QED
    BY <2>1 DEF Hellos, IsHello, IsSync, r
<1>6. LateLeft' => LateLeft /\ Extends(r, q, p, MaxTransit)
  BY <1>1, <1>2 DEF LateLeft, NetworkAssumption, LateOnce
<1>7. ASSUME AnswersClose
      PROVE  AnswersClose'
  <2>1. CASE Late + MaxTransit < SYNCTIME
    <3> DEFINE t == now + SYNCTIME - 1
    <3>1. DueBy(q, t) /\ t \in Int /\ now + MaxTransit <= t /\ now + Late <= t
      BY <1>2, <1>7, <2>1 DEF AnswersClose, q
    <3> HIDE DEF t
    <3>2. DueBy(r, t)
      <4>1. CASE r = q
        BY <3>1, <4>1
      <4>2. CASE Extends(r, q, p, MaxTransit)
        BY <1>1, <1>2, <3>1, <4>2, ExtendsFacts
      <4>3. CASE Extends(r, q, p, Late)
        BY <1>1, <1>2, <3>1, <4>3, ExtendsFacts
      <4> QED
        BY <1>1, <4>1, <4>2, <4>3
    <3> QED
      BY <2>1, <3>2 DEF AnswersClose, DueBy, t, r
  <2>2. CASE ~(Late + MaxTransit < SYNCTIME)
    <3>1. \A i \in 1 .. Len(q) : q[i].due <= q[1].due + MaxTransit \/ q[i].due <= now + MaxTransit
      BY <1>7, <2>2 DEF AnswersClose, q
    <3>2. \A i \in 1 .. Len(r) : r[i].due <= r[1].due + MaxTransit \/ r[i].due <= now + MaxTransit
      <4>1. CASE r = q
        BY <3>1, <4>1
      <4>2. CASE Extends(r, q, p, MaxTransit)
        BY <1>1, <1>2, <3>1, <4>2, CloseAfter
      <4>3. CASE Extends(r, q, p, Late) /\ faults < MaxFaults
        <5>1. q = <<>>
          BY <2>2, <4>3 DEF LateLeft, q
        <5> QED
          BY <1>1, <1>2, <3>1, <4>3, <5>1, CloseAfter
      <4> QED
        BY <1>1, <4>1, <4>2, <4>3
    <3> QED
      BY <2>2, <3>2 DEF AnswersClose, r
  <2> QED
    BY <2>1, <2>2
<1>8. ASSUME NEW t \in Int, DueBy(q, t), now + MaxTransit <= t,
             Late + MaxTransit < SYNCTIME => now + Late <= t,
             ~(Late + MaxTransit < SYNCTIME) => ~LateLeft
      PROVE  DueBy(r, t)
  <2>1. CASE r = q
    BY <1>8, <2>1
  <2>2. CASE Extends(r, q, p, MaxTransit)
    BY <1>1, <1>2, <1>8, <2>2, ExtendsFacts
  <2>3. CASE Extends(r, q, p, Late) /\ faults < MaxFaults
    <3>1. now + Late <= t
      BY <1>8, <2>3 DEF LateLeft
    <3> QED
      BY <1>1, <1>2, <1>8, <2>3, <3>1, ExtendsFacts
  <2> QED
    BY <1>1, <2>1, <2>2, <2>3
<1> QED
  BY <1>5, <1>6, <1>7, <1>8 DEF q, r

\* A slave that waits for the hello reads a message for another time.
LEMMA MemoReadKeeps ==
    ASSUME SyncInv, NetworkAssumption, NEW c \in Client, sstate[c] = "hello", SlaveReceives(c),
           UNCHANGED <<now, masterVars, sstate, offset, ssince, ssendtime, sdone, scontrolsynctime,
                       toMaster, faults>>
    PROVE  SyncInv'
<1> DEFINE q == toSlave[c]
<1>1. /\ q # <<>> /\ toSlave'[c] = Tail(q) /\ \A d \in Client : d # c => toSlave'[d] = toSlave[d]
      /\ toSlave' \in [Client -> Seq(Msg(SyncPacket \cup StartPacket))]
      /\ \A i \in 1 .. Len(Tail(q)) : i + 1 \in 1 .. Len(q) /\ Tail(q)[i] = q[i + 1]
      /\ q \in Seq(Msg(SyncPacket \cup StartPacket)) /\ Tail(q) \in Seq(Msg(SyncPacket \cup StartPacket))
  BY SlaveReadFacts
<1>2. TypeOK'
  <2>1. toSlave' \in [Client -> Seq([pkt : SyncPacket \cup StartPacket, due : Nat])]
    BY <1>1 DEF Msg
  <2>2. TypeOK
    BY DEF SyncInv
  <2> QED
    BY <2>1, <2>2 DEF TypeOK, masterVars
<1>3. QueueOK(c)' /\ DrainOK(c)'
  BY QueueRead DEF DrainOK
<1>4. ~Earlier(c)'
  BY Stages, SameStage DEF EarlierOK, Synchronised
<1> HIDE DEF q
<1>5. ASSUME Later(c)'
      PROVE  LaterOK(c)'
  <2>1. LaterOK(c)
    BY <1>5, Stages, SameStage
  <2>2. \A i \in 1 .. Len(Tail(q)) : IsMemo(Tail(q)[i].pkt)
    BY <1>1, <2>1 DEF LaterOK, Memos, q
  <2> QED
    BY <1>1, <2>1, <2>2 DEF LaterOK, Memos, IsMemo, IsSync
<1>6. ASSUME Current(c)'
      PROVE  CurrentOK(c)'
  <2>1. CurrentOK(c) /\ mstate \in Turn
    BY <1>6, Stages, SameStage
  <2>2. mstate = "hello"
    BY <2>1 DEF CurrentOK, MasterDrainOK, RestOK, PingPongOK, LeavingOK, Turn
  <2>3. HelloOK(c) /\ pkt = FreshPkt /\ sendtime <= now
    BY <2>1, <2>2 DEF CurrentOK
  <2>4. Len(Tail(q)) \in Nat /\ Len(q) \in Nat
    BY <1>1, LenProperties
  <2>5. MemosThenHellos(q)
    BY <2>3 DEF HelloOK, q
  <2>6. MemosThenHellos(Tail(q))
    <3> SUFFICES ASSUME NEW i \in 1 .. Len(Tail(q)), NEW j \in 1 .. Len(Tail(q))
                 PROVE  /\ IsMemo(Tail(q)[i].pkt) \/ IsHello(Tail(q)[i].pkt)
                        /\ i <= j /\ IsMemo(Tail(q)[j].pkt) => IsMemo(Tail(q)[i].pkt)
      BY DEF MemosThenHellos
    <3>1. /\ i + 1 \in 1 .. Len(q) /\ Tail(q)[i] = q[i + 1]
          /\ j + 1 \in 1 .. Len(q) /\ Tail(q)[j] = q[j + 1]
      BY <1>1
    <3> QED
      BY <2>5, <3>1 DEF MemosThenHellos
  <2>7. HelloOK(c)'
    BY <1>1, <2>3, <2>6 DEF HelloOK, Hellos, IsHello, IsSync, MemosThenHellos, IsMemo, LateLeft, AnswersClose,
                           DueBy
  <2> QED
    BY <2>2, <2>3, <2>7 DEF CurrentOK, FreshPkt, masterVars
<1>7. ClientOK(c)'
  BY <1>3, <1>4, <1>5, <1>6 DEF ClientOK
<1>8. InTimeOrder(toMaster)' /\ DueFrom(toMaster, now)'
  BY DEF SyncInv, MasterOK, InTimeOrder, DueFrom
<1> QED
  BY <1>1, <1>2, <1>7, <1>8, SlaveStep

\* A slave answers the hello: the answer is in time, late or lost.
LEMMA GreetedKeeps == ASSUME SyncInv, NetworkAssumption, NEW c \in Client, Greeted(c) PROVE SyncInv'
<1> DEFINE q == toSlave[c]
           p == Head(q).pkt
<1>1. /\ sstate[c] = "hello" /\ SlaveReceives(c)
      /\ IF IsHello(p)
         THEN /\ SendToMaster(p) /\ sstate' = [sstate EXCEPT ![c] = "drain"]
              /\ ssince' = [ssince EXCEPT ![c] = Clock(c)]
         ELSE UNCHANGED <<sstate, ssince, toMaster, faults>>
      /\ UNCHANGED <<now, masterVars, offset, ssendtime, sdone, scontrolsynctime>>
  BY DEF Greeted, IsHello, IsSync
<1>2. CASE ~IsHello(p)
  BY <1>1, <1>2, MemoReadKeeps
<1>3. CASE IsHello(p)
  <2>1. /\ q # <<>> /\ toSlave'[c] = Tail(q) /\ p = q[1].pkt /\ 1 \in 1 .. Len(q)
        /\ q[1].pkt \in SyncPacket \cup StartPacket
        /\ \A d \in Client : d # c => toSlave'[d] = toSlave[d]
        /\ toSlave' \in [Client -> Seq(Msg(SyncPacket \cup StartPacket))]
        /\ \A i \in 1 .. Len(Tail(q)) : i + 1 \in 1 .. Len(q) /\ Tail(q)[i] = q[i + 1]
    BY <1>1, SlaveReadFacts
  <2>2. p.type = "sync" /\ p.phase = SYNC_PHASE0
    BY <1>3 DEF IsHello, IsSync
  <2>3. p \in SyncPacket
    BY <2>1, <2>2 DEF StartPacket
  <2>4. SendToMaster(p)
    BY <1>1, <1>3
  <2>5. /\ sstate' = [sstate EXCEPT ![c] = "drain"] /\ ssince' = [ssince EXCEPT ![c] = Clock(c)]
    BY <1>1, <1>3
  <2> HIDE DEF q, p
  <2>6. /\ TypeOK /\ now \in Nat /\ offset[c] \in Int /\ Clock(c) \in Int
        /\ MaxTransit \in Nat /\ SYNCTIME \in Nat /\ Prompt
        /\ InTimeOrder(toMaster) /\ DueFrom(toMaster, now)
    BY TypeFacts, TransitFacts DEF SyncInv, NetworkAssumption, MasterOK, Clock
  <2>7. /\ sstate'[c] = "drain" /\ ssince'[c] = Clock(c) /\ Answered(c)' = now
        /\ \A d \in Client : d # c => sstate'[d] = sstate[d] /\ ssince'[d] = ssince[d]
    <3>1. sstate'[c] = "drain" /\ ssince'[c] = Clock(c)
          /\ \A d \in Client : d # c => sstate'[d] = sstate[d] /\ ssince'[d] = ssince[d]
      BY <2>5, <2>6 DEF TypeOK
    <3>2. offset' = offset
      BY <1>1
    <3>3. Answered(c)' = Clock(c) - offset[c]
      BY <3>1, <3>2 DEF Answered
    <3> QED
      BY <2>6, <3>1, <3>3 DEF Clock
  <2>8. /\ toMaster' \in Seq(Msg(SyncPacket)) /\ InTimeOrder(toMaster') /\ DueFrom(toMaster', now)
        /\ faults' \in 0 .. MaxFaults
    BY <2>3, <2>4, <2>6, ToMasterFacts
  <2>9. Current(c) /\ CurrentOK(c) /\ mstate \in Turn /\ ~Later(c) /\ ~Earlier(c)
    <3>1. ~Earlier(c)
      BY <1>1, Stages DEF EarlierOK, Synchronised
    <3>2. ~(Later(c) /\ LaterOK(c))
      BY <2>1, <2>2 DEF LaterOK, Memos, IsMemo, IsSync, SYNC_PHASE0, SYNC_MEMO, q
    <3> QED
      BY <3>1, <3>2, Stages
  <2>10. mstate = "hello"
    BY <1>1, <2>9 DEF CurrentOK, MasterDrainOK, RestOK, PingPongOK, LeavingOK, Turn
  <2>11. HelloOK(c) /\ pkt = FreshPkt /\ sendtime <= now
    BY <2>9, <2>10 DEF CurrentOK
  <2>12. toMaster = <<>> /\ MemosThenHellos(q) /\ ~sdone[c] /\ Hellos(toMaster) /\ AnswersClose
    BY <1>1, <2>11 DEF HelloOK, q
  <2>13. Hellos(Tail(q))
    <3>1. ~IsMemo(q[1].pkt)
      BY <2>1, <2>2 DEF IsMemo, IsSync, SYNC_PHASE0, SYNC_MEMO
    <3>2. \A i \in 1 .. Len(q) : IsHello(q[i].pkt)
      BY <2>1, <2>12, <3>1 DEF MemosThenHellos
    <3> QED
      BY <2>1, <3>2 DEF Hellos
  <2>14. /\ Hellos(toMaster)' /\ AnswersClose'
         /\ LateLeft' => Extends(toMaster', toMaster, p, MaxTransit)
    BY <1>1, <2>2, <2>3, <2>4, <2>6, <2>12, HelloToMaster
  <2>15. LateLeft' => FirstAnswer(c)'
    <3> SUFFICES ASSUME LateLeft'
                 PROVE  FirstAnswer(c)'
      OBVIOUS
    <3>1. /\ Len(toMaster') = 1 /\ toMaster' # <<>> /\ toMaster'[1].due <= now + MaxTransit
      <4>1. toMaster \in Seq(Msg(SyncPacket))
        BY <2>6, TypeFacts
      <4>2. Extends(toMaster', toMaster, p, MaxTransit)
        BY <2>14
      <4>3. /\ toMaster' # <<>>
            /\ toMaster = <<>> => Len(toMaster') = 1 /\ toMaster'[1].due <= now + MaxTransit
        BY <2>6, <2>8, <4>1, <4>2, ExtendsFacts
      <4> QED
        BY <2>12, <4>3
    <3> QED
      BY <2>7, <3>1 DEF FirstAnswer, DueBy
  <2>16. CurrentOK(c)'
    <3>1. HelloOK(c)'
      <4>1. Hellos(toSlave[c])'
        BY <2>1, <2>13 DEF Hellos, IsHello, IsSync
      <4>2. ~sdone'[c] /\ sstate'[c] = "drain"
        BY <1>1, <2>7, <2>12
      <4> QED
        BY <2>14, <2>15, <4>1, <4>2 DEF HelloOK
    <3> QED
      BY <1>1, <2>10, <2>11, <3>1 DEF CurrentOK, FreshPkt, masterVars
  <2>17. ~Later(c)' /\ ~Earlier(c)'
    BY <1>1, <2>9, SameStage
  <2>18. DrainOK(c)'
    BY <1>1, <2>6, <2>7 DEF DrainOK
  <2>19. QueueOK(c)'
    BY <1>1, <2>7, QueueRead
  <2>20. ClientOK(c)'
    BY <2>16, <2>17, <2>18, <2>19 DEF ClientOK
  <2>21. TypeOK'
    <3>1. toSlave' \in [Client -> Seq([pkt : SyncPacket \cup StartPacket, due : Nat])]
      BY <2>1 DEF Msg
    <3>2. toMaster' \in Seq([pkt : SyncPacket, due : Nat]) /\ faults' \in 0 .. MaxFaults
      BY <2>8 DEF Msg
    <3>3. /\ sstate' \in [Client -> {"loading", "hello", "drain", "phases", "settle", "waitstart",
                                     "flush", "started"}]
          /\ ssince' \in [Client -> Int]
      BY <2>5, <2>6 DEF TypeOK
    <3> QED
      BY <1>1, <2>6, <3>1, <3>2, <3>3 DEF TypeOK, masterVars
  <2>22. InTimeOrder(toMaster)' /\ DueFrom(toMaster, now)'
    BY <1>1, <2>8
  <2> QED
    BY <1>1, <2>1, <2>7, <2>9, <2>20, <2>21, <2>22, SlaveStep
<1> QED
  BY <1>2, <1>3
-----------------------------------------------------------------------------
(* The phases: steps of a slave                                            *)

\* What a slave in the phases reads, in the tic in which it comes.
LEMMA PhaseRead ==
    ASSUME SyncInv, NetworkAssumption, NEW c \in Client, SlavePhase(c)
    PROVE  /\ sstate[c] = "phases" /\ toSlave[c] # <<>> /\ toSlave'[c] = Tail(toSlave[c])
           /\ Head(toSlave[c]) = toSlave[c][1] /\ 1 \in 1 .. Len(toSlave[c])
           /\ toSlave[c][1].due = now /\ toSlave[c][1].pkt \in SyncPacket \cup StartPacket
           /\ Len(toSlave[c]) \in Nat /\ Len(Tail(toSlave[c])) = Len(toSlave[c]) - 1
           /\ Tail(toSlave[c]) \in Seq(Msg(SyncPacket \cup StartPacket))
           /\ \A d \in Client : d # c => toSlave'[d] = toSlave[d]
           /\ toSlave' \in [Client -> Seq(Msg(SyncPacket \cup StartPacket))]
           /\ \A i \in 1 .. Len(Tail(toSlave[c])) : /\ i + 1 \in 1 .. Len(toSlave[c])
                                                    /\ Tail(toSlave[c])[i] = toSlave[c][i + 1]
           /\ UNCHANGED <<now, masterVars, sstate, ssince, scontrolsynctime>>
           /\ QueueOK(c)' /\ DrainOK(c)' /\ TypeOK
           /\ \A t \in Int : DueBy(toSlave[c], t) => DueBy(toSlave'[c], t)
           /\ now \in Nat /\ offset[c] \in Int /\ MaxTransit \in Nat /\ SYNCTIME \in Nat
           /\ 2 * MaxTransit < SYNCTIME /\ Prompt /\ sendtime \in Int /\ since \in Nat
           /\ InTimeOrder(toMaster) /\ DueFrom(toMaster, now) /\ toMaster \in Seq(Msg(SyncPacket))
<1>1. /\ sstate[c] = "phases" /\ SlaveReceives(c)
      /\ UNCHANGED <<now, masterVars, sstate, ssince, scontrolsynctime>>
  BY DEF SlavePhase
<1>2. /\ toSlave[c] # <<>> /\ toSlave'[c] = Tail(toSlave[c]) /\ Head(toSlave[c]) = toSlave[c][1]
      /\ \A d \in Client : d # c => toSlave'[d] = toSlave[d]
      /\ toSlave' \in [Client -> Seq(Msg(SyncPacket \cup StartPacket))]
      /\ Tail(toSlave[c]) \in Seq(Msg(SyncPacket \cup StartPacket))
      /\ toSlave[c][1].due \in Nat /\ toSlave[c][1].due <= now
      /\ toSlave[c][1].pkt \in SyncPacket \cup StartPacket
      /\ Len(toSlave[c]) \in Nat /\ 1 \in 1 .. Len(toSlave[c])
      /\ Len(Tail(toSlave[c])) = Len(toSlave[c]) - 1
      /\ \A i \in 1 .. Len(Tail(toSlave[c])) : /\ i + 1 \in 1 .. Len(toSlave[c])
                                               /\ Tail(toSlave[c])[i] = toSlave[c][i + 1]
  BY <1>1, SlaveReadFacts
<1>3. TypeOK /\ now \in Nat /\ offset[c] \in Int /\ sendtime \in Int /\ since \in Nat
      /\ toMaster \in Seq(Msg(SyncPacket))
  BY TypeFacts DEF SyncInv, TypeOK
<1>4. /\ MaxTransit \in Nat /\ SYNCTIME \in Nat /\ 2 * MaxTransit < SYNCTIME /\ Prompt
  BY TransitFacts DEF NetworkAssumption
<1>5. InTimeOrder(toMaster) /\ DueFrom(toMaster, now)
  BY DEF SyncInv, MasterOK
<1>6. QueueOK(c)
  BY Stages
<1>7. toSlave[c][1].due = now
  BY <1>1, <1>2, <1>3, <1>6 DEF QueueOK, DueFrom
<1>8. QueueOK(c)' /\ \A t \in Int : DueBy(toSlave[c], t) => DueBy(toSlave'[c], t)
  BY <1>1, QueueRead
<1>9. DrainOK(c)'
  BY <1>1 DEF DrainOK
<1> QED
  BY <1>1, <1>2, <1>3, <1>4, <1>5, <1>7, <1>8, <1>9

\* An answer of the slave in the phases.
LEMMA PhaseReply ==
    ASSUME SyncInv, NetworkAssumption, NEW c \in Client, SlavePhase(c),
           NEW p, p = toSlave[c][1].pkt, p.type = "sync"
    PROVE  /\ p \in SyncPacket /\ SetOffset(c, p) \in Int
           /\ offset' = [offset EXCEPT ![c] = SetOffset(c, p)] /\ offset'[c] = SetOffset(c, p)
           /\ sdone' = [sdone EXCEPT ![c] = (p.phase = SYNC_PHASE5)]
           /\ (sdone'[c] <=> p.phase = SYNC_PHASE5)
           /\ \A d \in Client : d # c => offset'[d] = offset[d] /\ sdone'[d] = sdone[d]
           /\ p.phase # SYNC_PHASE5 =>
                 /\ ssendtime' = ssendtime
                 /\ \E a \in SyncPacket : /\ SendToMaster(a) /\ a.type = "sync" /\ a.phase = p.phase
                                          /\ p.phase \in {SYNC_PHASE3, SYNC_PHASE4} =>
                                                a.clocktime = now + SetOffset(c, p)
           /\ p.phase = SYNC_PHASE5 =>
                 /\ ssendtime' = [ssendtime EXCEPT ![c] = p.clocktime] /\ ssendtime'[c] = p.clocktime
                 /\ \A d \in Client : d # c => ssendtime'[d] = ssendtime[d]
                 /\ UNCHANGED <<toMaster, faults>>
<1> DEFINE clock == now + SetOffset(c, p)
           b == IF p.phase \in {SYNC_PHASE3, SYNC_PHASE4} THEN [p EXCEPT !.clocktime = clock] ELSE p
<1>1. /\ p = Head(toSlave[c]).pkt /\ p \in SyncPacket \cup StartPacket
      /\ TypeOK /\ now \in Nat /\ offset[c] \in Int
  BY PhaseRead
<1>2. p \in SyncPacket
  BY <1>1 DEF StartPacket
<1>3. /\ offset' = [offset EXCEPT ![c] = SetOffset(c, p)]
      /\ sdone' = [sdone EXCEPT ![c] = p.phase = SYNC_PHASE5]
      /\ IF p.phase = SYNC_PHASE5
         THEN /\ ssendtime' = [ssendtime EXCEPT ![c] = p.clocktime]
              /\ UNCHANGED <<toMaster, faults>>
         ELSE SendToMaster(b) /\ UNCHANGED ssendtime
  BY <1>1 DEF SlavePhase
<1>4. p.clocktime \in Int /\ p.delta \in Int
  BY <1>2 DEF SyncPacket
<1>5. SetOffset(c, p) \in Int
  BY <1>1, <1>4 DEF SetOffset, SYNC_PHASE2, SYNC_PHASE4, SYNC_PHASE5
<1>6. clock \in Int
  BY <1>1, <1>5
<1> HIDE DEF clock
<1>7. b \in SyncPacket /\ b.type = "sync" /\ b.phase = p.phase
      /\ (p.phase \in {SYNC_PHASE3, SYNC_PHASE4} => b.clocktime = clock)
  BY <1>2, <1>6 DEF SyncPacket
<1>8. /\ offset'[c] = SetOffset(c, p) /\ (sdone'[c] <=> p.phase = SYNC_PHASE5)
      /\ \A d \in Client : d # c => offset'[d] = offset[d] /\ sdone'[d] = sdone[d]
  BY <1>1, <1>3 DEF TypeOK
<1>9. p.phase = SYNC_PHASE5 => /\ ssendtime'[c] = p.clocktime
                              /\ \A d \in Client : d # c => ssendtime'[d] = ssendtime[d]
  BY <1>1, <1>3 DEF TypeOK
<1> HIDE DEF b
<1> QED
  BY <1>2, <1>3, <1>5, <1>7, <1>8, <1>9 DEF clock

\* The types after the slave has answered.
LEMMA ReplyTypes ==
    ASSUME SyncInv, NetworkAssumption, NEW c \in Client, SlavePhase(c),
           NEW p, p = toSlave[c][1].pkt, p.type = "sync",
           toMaster' \in Seq(Msg(SyncPacket)), faults' \in 0 .. MaxFaults
    PROVE  TypeOK'
<1>1. /\ toSlave' \in [Client -> Seq(Msg(SyncPacket \cup StartPacket))] /\ TypeOK
      /\ UNCHANGED <<now, masterVars, sstate, ssince, scontrolsynctime>>
  BY PhaseRead
<1>2. /\ p \in SyncPacket /\ SetOffset(c, p) \in Int
      /\ offset' = [offset EXCEPT ![c] = SetOffset(c, p)]
      /\ sdone' = [sdone EXCEPT ![c] = (p.phase = SYNC_PHASE5)]
      /\ p.phase # SYNC_PHASE5 => ssendtime' = ssendtime
      /\ p.phase = SYNC_PHASE5 => ssendtime' = [ssendtime EXCEPT ![c] = p.clocktime]
  BY PhaseReply
<1>3. p.clocktime \in Int
  BY <1>2 DEF SyncPacket
<1>4. toSlave' \in [Client -> Seq([pkt : SyncPacket \cup StartPacket, due : Nat])]
      /\ toMaster' \in Seq([pkt : SyncPacket, due : Nat])
  BY <1>1 DEF Msg
<1>5. offset' \in [Client -> Int]
  BY <1>1, <1>2 DEF TypeOK
<1>6. ssendtime' \in [Client -> Int]
  BY <1>1, <1>2, <1>3 DEF TypeOK
<1>7. sdone' \in [Client -> BOOLEAN]
  <2>1. (p.phase = SYNC_PHASE5) \in BOOLEAN /\ sdone \in [Client -> BOOLEAN]
    BY <1>1 DEF TypeOK
  <2> QED
    BY <1>2, <2>1
<1>8. UNCHANGED <<now, mstate, client, pkt, sendtime, since, dtime, deltatime, done, transittimes,
                  controlsynctime, missed, sstate, ssince, scontrolsynctime>>
  BY <1>1 DEF masterVars
<1> QED
  BY <1>1, <1>4, <1>5, <1>6, <1>7, <1>8 DEF TypeOK

\* COM_START in the phases, when SYNC_PHASE5 was lost.
LEMMA PhaseStartKeeps ==
    ASSUME SyncInv, NetworkAssumption, NEW c \in Client, SlavePhase(c), Earlier(c) PROVE SyncInv'
<1> DEFINE q == toSlave[c]
           p == Head(q).pkt
<1>1. /\ sstate[c] = "phases" /\ q # <<>> /\ toSlave'[c] = Tail(q) /\ p = q[1].pkt /\ 1 \in 1 .. Len(q)
      /\ \A d \in Client : d # c => toSlave'[d] = toSlave[d]
      /\ toSlave' \in [Client -> Seq(Msg(SyncPacket \cup StartPacket))]
      /\ \A i \in 1 .. Len(Tail(q)) : i + 1 \in 1 .. Len(q) /\ Tail(q)[i] = q[i + 1]
      /\ UNCHANGED <<now, masterVars, sstate, ssince, scontrolsynctime>>
      /\ QueueOK(c)' /\ DrainOK(c)' /\ TypeOK
  BY PhaseRead
<1>2. EarlierOK(c) /\ ~Later(c) /\ ~Current(c)
  BY Stages
<1>3. StartSent /\ Starts(q) /\ ~sdone[c] /\ SYNC_PHASE5 \in Lossy
  BY <1>1, <1>2 DEF EarlierOK, Synchronised
<1>4. p.type = "start"
  BY <1>1, <1>3 DEF Starts, IsStart, StartPkt
<1>5. UNCHANGED <<offset, ssendtime, sdone, toMaster, faults>>
  BY <1>4 DEF SlavePhase
<1> HIDE DEF q, p
<1>6. Starts(Tail(q))
  BY <1>1, <1>3 DEF Starts
<1>7. EarlierOK(c)'
  <2>1. StartSent' /\ toSlave'[c] = Tail(q)
    BY <1>1, <1>3, SameStage
  <2> QED
    BY <1>1, <1>3, <1>5, <1>6, <2>1 DEF EarlierOK, Starts, IsStart, StartPkt, masterVars
<1>8. ~Later(c)' /\ ~Current(c)'
  BY <1>1, <1>2, SameStage
<1>9. ClientOK(c)'
  BY <1>1, <1>7, <1>8 DEF ClientOK
<1>10. TypeOK'
  <2>1. toSlave' \in [Client -> Seq([pkt : SyncPacket \cup StartPacket, due : Nat])]
    BY <1>1 DEF Msg
  <2> QED
    BY <1>1, <1>5, <2>1 DEF TypeOK, masterVars
<1>11. InTimeOrder(toMaster)' /\ DueFrom(toMaster, now)'
  BY <1>1, <1>5 DEF SyncInv, MasterOK, InTimeOrder, DueFrom
<1> QED
  BY <1>1, <1>5, <1>9, <1>10, <1>11, SlaveStep

\* A hello that was sent in vain, in the phases.
LEMMA PhaseHelloKeeps ==
    ASSUME SyncInv, NetworkAssumption, NEW c \in Client, SlavePhase(c), Current(c),
           mstate \in {"hello", "drain"}
    PROVE  SyncInv'
<1> DEFINE q == toSlave[c]
           p == q[1].pkt
<1>1. /\ sstate[c] = "phases" /\ q # <<>> /\ toSlave'[c] = Tail(q) /\ 1 \in 1 .. Len(q)
      /\ q[1].due = now
      /\ \A d \in Client : d # c => toSlave'[d] = toSlave[d]
      /\ \A i \in 1 .. Len(Tail(q)) : i + 1 \in 1 .. Len(q) /\ Tail(q)[i] = q[i + 1]
      /\ UNCHANGED <<now, masterVars, sstate, ssince, scontrolsynctime>>
      /\ QueueOK(c)' /\ DrainOK(c)' /\ TypeOK
      /\ \A t \in Int : DueBy(q, t) => DueBy(toSlave'[c], t)
      /\ now \in Nat /\ MaxTransit \in Nat /\ SYNCTIME \in Nat /\ since \in Nat
      /\ 2 * MaxTransit < SYNCTIME /\ Prompt
      /\ InTimeOrder(toMaster) /\ DueFrom(toMaster, now)
  BY PhaseRead
<1>2. CurrentOK(c) /\ ~Later(c) /\ ~Earlier(c) /\ pkt = FreshPkt
  BY Stages DEF CurrentOK
<1>3. /\ Hellos(q) /\ Hellos(toMaster) /\ ~sdone[c]
      /\ mstate = "hello" => HelloOK(c) /\ sendtime <= now
      /\ mstate = "drain" => MasterDrainOK(c)
  BY <1>1, <1>2 DEF CurrentOK, HelloOK, MasterDrainOK
<1>4. p.type = "sync" /\ p.phase = SYNC_PHASE0
  BY <1>1, <1>3 DEF Hellos, IsHello, IsSync
<1>5. ~LateLeft
  BY <1>1, <1>3 DEF HelloOK, MasterDrainOK, FirstAnswer
<1>6. /\ p \in SyncPacket /\ SetOffset(c, p) \in Int
      /\ (sdone'[c] <=> p.phase = SYNC_PHASE5)
      /\ \A d \in Client : d # c => offset'[d] = offset[d] /\ sdone'[d] = sdone[d]
      /\ p.phase # SYNC_PHASE5 =>
                 /\ ssendtime' = ssendtime
                 /\ \E a \in SyncPacket : SendToMaster(a) /\ a.type = "sync" /\ a.phase = p.phase
  BY <1>4, PhaseReply
<1>7. ~sdone'[c] /\ ssendtime' = ssendtime
  BY <1>4, <1>6 DEF SYNC_PHASE0, SYNC_PHASE5
<1>8. PICK a \in SyncPacket : SendToMaster(a) /\ a.type = "sync" /\ a.phase = SYNC_PHASE0
  BY <1>4, <1>6 DEF SYNC_PHASE0, SYNC_PHASE5
<1>9. /\ toMaster' \in Seq(Msg(SyncPacket)) /\ InTimeOrder(toMaster') /\ DueFrom(toMaster', now)
      /\ faults' \in 0 .. MaxFaults
  BY <1>1, <1>8, ToMasterFacts
<1>10. /\ Hellos(toMaster)' /\ (LateLeft' => LateLeft)
       /\ AnswersClose => AnswersClose'
       /\ \A t \in Int :
             (/\ DueBy(toMaster, t) /\ now + MaxTransit <= t
              /\ Late + MaxTransit < SYNCTIME => now + Late <= t
              /\ ~(Late + MaxTransit < SYNCTIME) => ~LateLeft)
             => DueBy(toMaster', t)
  BY <1>1, <1>3, <1>5, <1>8, HelloToMaster
<1>11. TypeOK'
  BY <1>4, <1>9, ReplyTypes
<1> HIDE DEF q, p
<1>12. Hellos(toSlave[c])'
  <2>1. Hellos(Tail(q))
    BY <1>1, <1>3 DEF Hellos
  <2> QED
    BY <1>1, <2>1 DEF Hellos, IsHello, IsSync
<1>13. CurrentOK(c)'
  <2>1. /\ mstate' = mstate /\ pkt' = FreshPkt' /\ sendtime' = sendtime /\ since' = since /\ now' = now
        /\ sstate'[c] = "phases"
    BY <1>1, <1>2 DEF masterVars, FreshPkt
  <2>2. CASE mstate = "hello"
    <3>1. HelloOK(c)'
      BY <1>3, <1>5, <1>7, <1>10, <1>12, <2>1, <2>2 DEF HelloOK
    <3> QED
      BY <1>3, <2>1, <2>2, <3>1 DEF CurrentOK
  <2>3. CASE mstate = "drain"
    <3>1. MasterDrainOK(c)
      BY <1>3, <2>3
    <3>2. DueBy(toMaster, since + SYNCTIME - 1) /\ DueBy(q, since + MaxTransit)
      BY <3>1 DEF MasterDrainOK, q
    <3>3. now <= since + MaxTransit
      BY <1>1, <3>2 DEF DueBy
    <3>4. DueBy(toMaster', since + SYNCTIME - 1)
      <4> DEFINE t == since + SYNCTIME - 1
      <4>1. t \in Int /\ now + MaxTransit <= t
        BY <1>1, <3>3
      <4>2. Late + MaxTransit < SYNCTIME => now + Late <= t
        BY <1>1, <3>3, RottSyncAssumption
      <4>3. DueBy(toMaster, t)
        BY <3>2
      <4> HIDE DEF t
      <4>4. DueBy(toMaster', t)
        BY <1>5, <1>10, <4>1, <4>2, <4>3
      <4> QED
        BY <4>4 DEF t
    <3>5. DueBy(toSlave'[c], since + MaxTransit)
      BY <1>1, <3>2 DEF q
    <3>6. MasterDrainOK(c)'
      BY <1>5, <1>7, <1>10, <1>12, <2>1, <3>1, <3>4, <3>5 DEF MasterDrainOK, DueBy
    <3> QED
      BY <2>1, <2>3, <3>6 DEF CurrentOK
  <2> QED
    BY <2>2, <2>3
<1>14. ~Later(c)' /\ ~Earlier(c)'
  BY <1>1, <1>2, SameStage
<1>15. ClientOK(c)'
  BY <1>1, <1>13, <1>14 DEF ClientOK
<1>16. InTimeOrder(toMaster)' /\ DueFrom(toMaster, now)'
  BY <1>1, <1>9
<1> QED
  BY <1>1, <1>6, <1>7, <1>11, <1>15, <1>16, SlaveStep

\* A packet of the phases 1 to 4.
LEMMA PhasePacketKeeps ==
    ASSUME SyncInv, NetworkAssumption, NEW c \in Client, SlavePhase(c), Current(c),
           mstate = "phases", ~done
    PROVE  SyncInv'
<1> DEFINE q == toSlave[c]
           p == q[1].pkt
<1>1. /\ sstate[c] = "phases" /\ q # <<>> /\ toSlave'[c] = Tail(q)
      /\ q[1].due = now /\ Len(Tail(q)) = Len(q) - 1
      /\ Tail(q) \in Seq(Msg(SyncPacket \cup StartPacket))
      /\ \A d \in Client : d # c => toSlave'[d] = toSlave[d]
      /\ UNCHANGED <<now, masterVars, sstate, ssince, scontrolsynctime>>
      /\ QueueOK(c)' /\ DrainOK(c)' /\ TypeOK
      /\ now \in Nat /\ MaxTransit \in Nat /\ SYNCTIME \in Nat /\ sendtime \in Int
      /\ 2 * MaxTransit < SYNCTIME /\ Prompt
      /\ InTimeOrder(toMaster) /\ DueFrom(toMaster, now) /\ toMaster \in Seq(Msg(SyncPacket))
  BY PhaseRead
<1>2. CurrentOK(c) /\ ~Later(c) /\ ~Earlier(c) /\ c = client
  BY Stages
<1>3. PingPongOK(c) /\ OutboundOK(c)
  BY <1>1, <1>2 DEF CurrentOK, PingPongOK, InboundOK
<1>4. /\ p = pkt /\ pkt.phase \in 0 .. 3 /\ toMaster = <<>> /\ Tail(q) = <<>> /\ ~sdone[c]
      /\ now <= sendtime + MaxTransit /\ sendtime <= now
  <2>1. Len(Tail(q)) = 0
    BY <1>1, <1>3 DEF OutboundOK
  <2>2. Tail(q) = <<>>
    BY <1>1, <2>1, EmptySeq
  <2> QED
    BY <1>1, <1>3, <2>2 DEF PingPongOK, OutboundOK, SYNC_PHASE1, SYNC_PHASE4
<1>5. p.type = "sync" /\ p.phase # SYNC_PHASE5 /\ p.phase # SYNC_PHASE0
  <2>1. pkt \in SyncPacket
    BY <1>1 DEF TypeOK
  <2>2. pkt.type = "sync"
    BY <2>1 DEF SyncPacket
  <2> HIDE DEF p
  <2> QED
    BY <1>4, <2>2 DEF SYNC_PHASE5, SYNC_PHASE0
<1>6. /\ p \in SyncPacket /\ SetOffset(c, p) \in Int /\ offset'[c] = SetOffset(c, p)
      /\ (sdone'[c] <=> p.phase = SYNC_PHASE5)
      /\ \A d \in Client : d # c => offset'[d] = offset[d] /\ sdone'[d] = sdone[d]
      /\ p.phase # SYNC_PHASE5 =>
            /\ ssendtime' = ssendtime
            /\ \E a \in SyncPacket : /\ SendToMaster(a) /\ a.type = "sync" /\ a.phase = p.phase
                                     /\ p.phase \in {SYNC_PHASE3, SYNC_PHASE4} =>
                                           a.clocktime = now + SetOffset(c, p)
  BY <1>5, PhaseReply
<1>7. PICK a \in SyncPacket : /\ SendToMaster(a) /\ a.type = "sync" /\ a.phase = p.phase
                              /\ p.phase \in {SYNC_PHASE3, SYNC_PHASE4} =>
                                    a.clocktime = now + SetOffset(c, p)
  BY <1>5, <1>6
<1>8. ~sdone'[c] /\ ssendtime' = ssendtime
  BY <1>5, <1>6
<1>9. /\ toMaster' \in Seq(Msg(SyncPacket)) /\ InTimeOrder(toMaster') /\ DueFrom(toMaster', now)
      /\ faults' \in 0 .. MaxFaults
      /\ \/ Extends(toMaster', toMaster, a, MaxTransit)
         \/ toMaster' = toMaster
  BY <1>1, <1>5, <1>7, ToMasterFacts
<1>10. TypeOK'
  BY <1>5, <1>9, ReplyTypes
<1> HIDE DEF q, p
<1>11. \/ toMaster' = <<>>
       \/ /\ Len(toMaster') = 1 /\ toMaster'[1].pkt = a
          /\ now <= toMaster'[1].due /\ toMaster'[1].due <= now + MaxTransit
          /\ toMaster'[1].due \in Nat
  <2>1. CASE toMaster' = toMaster
    BY <1>4, <2>1
  <2>2. CASE Extends(toMaster', toMaster, a, MaxTransit)
    <3>1. toMaster = <<>> => /\ Len(toMaster') = 1 /\ toMaster'[1].pkt = a
                             /\ now <= toMaster'[1].due /\ toMaster'[1].due <= now + MaxTransit
      BY <1>1, <1>9, <2>2, ExtendsFacts
    <3>2. toMaster' # <<>> => 1 \in 1 .. Len(toMaster')
      BY <1>4, <3>1
    <3> QED
      BY <1>4, <1>9, <3>1, <3>2, DueIsTime
  <2> QED
    BY <1>9, <2>1, <2>2
<1>12. toMaster' = <<>> \/ InboundOK(c)'
  <2> SUFFICES ASSUME toMaster' # <<>>
               PROVE  InboundOK(c)'
    OBVIOUS
  <2>1. toSlave'[c] = <<>> /\ pkt' = pkt /\ sendtime' = sendtime
    BY <1>1, <1>4 DEF masterVars
  <2>2. IsSync(toMaster'[1].pkt, pkt.phase) /\ toMaster'[1].due <= sendtime + 2 * MaxTransit
    BY <1>1, <1>4, <1>7, <1>11 DEF IsSync
  <2>3. pkt.phase = SYNC_PHASE4 =>
           toMaster'[1].due - (toMaster'[1].pkt.clocktime - offset'[c]) \in 0 .. MaxTransit
    <3> SUFFICES ASSUME pkt.phase = SYNC_PHASE4
                 PROVE  toMaster'[1].due - (toMaster'[1].pkt.clocktime - offset'[c]) \in 0 .. MaxTransit
      OBVIOUS
    <3>1. a.clocktime = now + offset'[c] /\ offset'[c] \in Int
      BY <1>4, <1>6, <1>7
    <3>2. toMaster'[1].pkt.clocktime = now + offset'[c]
      BY <1>11, <3>1
    <3> QED
      BY <1>1, <1>11, <3>1, <3>2
  <2> QED
    BY <1>11, <2>1, <2>2, <2>3 DEF InboundOK, IsSync
<1>13. CurrentOK(c)'
  <2>1. /\ mstate' = mstate /\ pkt' = pkt /\ sendtime' = sendtime /\ now' = now /\ (done' <=> done)
        /\ sstate'[c] = "phases" /\ toSlave'[c] = <<>>
    BY <1>1, <1>4 DEF masterVars
  <2>2. PingPongOK(c)'
    BY <1>3, <1>8, <1>12, <2>1 DEF PingPongOK
  <2> QED
    BY <2>1, <2>2 DEF CurrentOK
<1>14. ~Later(c)' /\ ~Earlier(c)'
  BY <1>1, <1>2, SameStage
<1>15. ClientOK(c)'
  BY <1>1, <1>13, <1>14 DEF ClientOK
<1>16. InTimeOrder(toMaster)' /\ DueFrom(toMaster, now)'
  BY <1>1, <1>9
<1> QED
  BY <1>1, <1>6, <1>8, <1>10, <1>15, <1>16, SlaveStep

\* SYNC_PHASE5: the clock is set.
LEMMA LastPhaseKeeps ==
    ASSUME SyncInv, NetworkAssumption, NEW c \in Client, SlavePhase(c), Current(c), LeavingOK(c),
           mstate = "settle" \/ (mstate = "phases" /\ done)
    PROVE  SyncInv'
<1> DEFINE q == toSlave[c]
           p == q[1].pkt
<1>1. /\ sstate[c] = "phases" /\ q # <<>> /\ toSlave'[c] = Tail(q)
      /\ q[1].due = now /\ Len(Tail(q)) = Len(q) - 1
      /\ Tail(q) \in Seq(Msg(SyncPacket \cup StartPacket))
      /\ \A d \in Client : d # c => toSlave'[d] = toSlave[d]
      /\ UNCHANGED <<now, masterVars, sstate, ssince, scontrolsynctime>>
      /\ QueueOK(c)' /\ DrainOK(c)' /\ TypeOK
      /\ now \in Nat /\ MaxTransit \in Nat /\ sendtime \in Int
      /\ InTimeOrder(toMaster) /\ DueFrom(toMaster, now) /\ toMaster \in Seq(Msg(SyncPacket))
  BY PhaseRead
<1>2. CurrentOK(c) /\ ~Later(c) /\ ~Earlier(c)
  BY Stages
<1>3. OutboundOK(c) /\ Near(offset[c] - pkt.delta) /\ toMaster = <<>> /\ pkt.phase = SYNC_PHASE5
      /\ sendtime <= now /\ now <= sendtime + SYNCTIME /\ pkt.clocktime = sendtime + SYNCTIME
  BY <1>1 DEF LeavingOK
<1>4. p = pkt /\ Tail(q) = <<>> /\ now <= sendtime + MaxTransit
  <2>1. Len(Tail(q)) = 0
    BY <1>1, <1>3 DEF OutboundOK
  <2>2. Tail(q) = <<>>
    BY <1>1, <2>1, EmptySeq
  <2> QED
    BY <1>1, <1>3, <2>2 DEF OutboundOK
<1>5. p.type = "sync" /\ p.phase = SYNC_PHASE5
  BY <1>1, <1>3, <1>4 DEF TypeOK, SyncPacket
<1>6. /\ p \in SyncPacket /\ offset'[c] = SetOffset(c, p)
      /\ (sdone'[c] <=> p.phase = SYNC_PHASE5)
      /\ \A d \in Client : d # c => offset'[d] = offset[d] /\ sdone'[d] = sdone[d]
      /\ p.phase = SYNC_PHASE5 =>
            /\ ssendtime'[c] = p.clocktime
            /\ \A d \in Client : d # c => ssendtime'[d] = ssendtime[d]
            /\ UNCHANGED <<toMaster, faults>>
  BY <1>5, PhaseReply
<1>7. toMaster' = toMaster /\ faults' = faults
  BY <1>5, <1>6
<1>8. TypeOK'
  <2>1. toMaster' \in Seq(Msg(SyncPacket)) /\ faults' \in 0 .. MaxFaults
    BY <1>1, <1>7 DEF TypeOK
  <2> QED
    BY <1>5, <2>1, ReplyTypes
<1> HIDE DEF q, p
<1>9. Near(offset'[c])
  BY <1>3, <1>4, <1>5, <1>6 DEF SetOffset, SYNC_PHASE2, SYNC_PHASE4, SYNC_PHASE5
<1>10. CurrentOK(c)'
  <2>1. /\ mstate' = mstate /\ pkt' = pkt /\ sendtime' = sendtime /\ now' = now /\ (done' <=> done)
        /\ sstate'[c] = "phases" /\ toSlave'[c] = <<>> /\ sdone'[c] /\ ssendtime'[c] = sendtime + SYNCTIME
    BY <1>1, <1>3, <1>4, <1>5, <1>6 DEF masterVars
  <2>2. LeavingOK(c)'
    BY <1>3, <1>4, <1>7, <1>9, <2>1 DEF LeavingOK, Near
  <2>3. mstate = "phases" => now = sendtime
    BY <1>2 DEF CurrentOK
  <2> QED
    BY <2>1, <2>2, <2>3 DEF CurrentOK
<1>11. ~Later(c)' /\ ~Earlier(c)'
  BY <1>1, <1>2, SameStage
<1>12. ClientOK(c)'
  BY <1>1, <1>10, <1>11 DEF ClientOK
<1>13. InTimeOrder(toMaster)' /\ DueFrom(toMaster, now)'
  BY <1>1, <1>7 DEF InTimeOrder, DueFrom
<1> QED
  BY <1>1, <1>5, <1>6, <1>7, <1>8, <1>12, <1>13, SlaveStep

\* Whatever a slave reads in the phases.
LEMMA SlavePhaseKeeps ==
    ASSUME SyncInv, NetworkAssumption, NEW c \in Client, SlavePhase(c) PROVE SyncInv'
<1>1. sstate[c] = "phases" /\ toSlave[c] # <<>>
  BY PhaseRead
<1>2. CASE Earlier(c)
  BY <1>2, PhaseStartKeeps
<1>3. CASE Current(c) /\ CurrentOK(c) /\ mstate \in Turn
  <2>1. CASE mstate \in {"hello", "drain"}
    BY <1>3, <2>1, PhaseHelloKeeps
  <2>2. CASE mstate = "rest"
    BY <1>1, <1>3, <2>2 DEF CurrentOK, RestOK
  <2>3. CASE mstate = "phases" /\ ~done
    BY <1>3, <2>3, PhasePacketKeeps
  <2>4. CASE mstate = "settle" \/ (mstate = "phases" /\ done)
    <3>1. LeavingOK(c)
      BY <1>3, <2>4 DEF CurrentOK
    <3> QED
      BY <1>3, <2>4, <3>1, LastPhaseKeeps
  <2> QED
    BY <1>3, <2>1, <2>2, <2>3, <2>4 DEF Turn
<1>4. ~(Later(c) /\ LaterOK(c))
  BY <1>1 DEF LaterOK
<1> QED
  BY <1>2, <1>3, <1>4, Stages
-----------------------------------------------------------------------------
(* Time, and the invariant                                                 *)

\* A tic passes: nobody has left a packet unread or a deadline unattended.
LEMMA TickKeeps == ASSUME SyncInv, NetworkAssumption, Tick PROVE SyncInv'
<1>1. /\ now' = now + 1 /\ now < MasterDeadline /\ ~(MasterReads /\ Waiting(toMaster))
      /\ \A c \in Client : Clock(c) < SlaveDeadline(c) /\ ~(SlaveReads(c) /\ Waiting(toSlave[c]))
      /\ UNCHANGED <<masterVars, slaveVars, toMaster, toSlave, faults>>
  BY DEF Tick, network
<1>2. UNCHANGED <<mstate, client, pkt, sendtime, since, dtime, deltatime, done, transittimes,
                  controlsynctime, missed, sstate, offset, ssince, ssendtime, sdone, scontrolsynctime,
                  toMaster, toSlave, faults>>
  BY <1>1 DEF masterVars, slaveVars
<1>3. /\ now \in Nat /\ TypeOK /\ toMaster \in Seq(Msg(SyncPacket)) /\ InTimeOrder(toMaster)
      /\ sendtime \in Int /\ since \in Nat /\ client \in Client
      /\ SYNCTIME \in Nat /\ MaxTransit \in Nat /\ 2 * MaxTransit < SYNCTIME
  BY TypeFacts, TransitFacts DEF SyncInv, MasterOK, TypeOK, NetworkAssumption
<1>4. TypeOK'
  <2>1. now' \in Nat
    BY <1>1, <1>3
  <2> QED
    BY <1>2, <1>3, <2>1 DEF TypeOK
<1>5. TimesOK'
  BY <1>2 DEF SyncInv, TimesOK
<1>6. mstate \in Turn => CurrentOK(client)
  BY InTurn
<1>7. toMaster = <<>> \/ ~Waiting(toMaster)
  <2>1. mstate \in {"hello", "phases", "drain"} => MasterReads
    BY <1>1 DEF MasterReads
  <2>2. mstate \in {"rest", "settle"} => toMaster = <<>>
    BY <1>6 DEF CurrentOK, RestOK, LeavingOK, Turn
  <2>3. mstate = "begin" \/ Starting => toMaster = <<>>
    BY DEF SyncInv, MasterOK
  <2> QED
    BY <1>1, <1>3, <2>1, <2>2, <2>3 DEF TypeOK, Starting
<1>8. DueFrom(toMaster, now + 1)
  <2>1. CASE toMaster = <<>>
    BY <2>1, EmptySeq DEF DueFrom
  <2>2. CASE ~Waiting(toMaster)
    BY <1>3, <2>2, NothingWaits
  <2> QED
    BY <1>7, <2>1, <2>2
<1>9. MasterOK'
  <2>1. InTimeOrder(toMaster)' /\ DueFrom(toMaster, now)'
    BY <1>1, <1>2, <1>3, <1>8 DEF InTimeOrder, DueFrom
  <2> QED
    BY <1>2, <2>1 DEF SyncInv, MasterOK, Starting, FreshPkt
<1>10. ASSUME NEW c \in Client
       PROVE  ClientOK(c)'
  <2> DEFINE q == toSlave[c]
  <2>1. /\ q \in Seq(Msg(SyncPacket \cup StartPacket)) /\ InTimeOrder(q)
        /\ offset[c] \in Int /\ ssince[c] \in Int /\ QueueOK(c) /\ DrainOK(c)
    BY <1>3, TypeFacts, Stages DEF QueueOK
  <2>2. Clock(c) < SlaveDeadline(c) /\ ~(SlaveReads(c) /\ Waiting(q))
    BY <1>1
  <2>3. sstate[c] \in {"phases", "drain"} => DueFrom(q, now + 1)
    <3>1. sstate[c] \in {"phases", "drain"} => SlaveReads(c)
      BY <2>2 DEF SlaveReads, SlaveDiscarding
    <3> QED
      BY <1>3, <2>1, <2>2, <3>1, NothingWaits
  <2>4. DueBy(q, now + 1 + MaxTransit)
    <3>1. DueBy(q, now + MaxTransit) /\ \A i \in 1 .. Len(q) : q[i].due \in Nat
      BY <2>1, DueIsTime DEF QueueOK
    <3> QED
      BY <1>3, <3>1 DEF DueBy
  <2>5. QueueOK(c)'
    <3>1. now' + MaxTransit = now + 1 + MaxTransit
      BY <1>1
    <3> QED
      BY <1>1, <1>2, <2>1, <2>3, <2>4, <3>1 DEF QueueOK, InTimeOrder, DueBy, DueFrom
  <2>6. DrainOK(c)'
    <3> SUFFICES ASSUME sstate[c] = "drain"
                 PROVE  DrainOK(c)'
      BY <1>2 DEF DrainOK
    <3>1. Answered(c) \in Int /\ now < Answered(c) + SYNCTIME
      BY <1>3, <2>1, <2>2 DEF Answered, Clock, SlaveDeadline
    <3>2. Answered(c) <= now
      BY <2>1 DEF DrainOK
    <3>3. Answered(c)' = Answered(c)
      BY <1>2 DEF Answered
    <3>4. Answered(c) <= now + 1 /\ now + 1 <= Answered(c) + SYNCTIME
      BY <1>3, <3>1, <3>2
    <3> QED
      BY <1>1, <1>2, <2>3, <3>3, <3>4 DEF DrainOK, DueFrom
  <2>7. (Later(c)' <=> Later(c)) /\ (Current(c)' <=> Current(c)) /\ (Earlier(c)' <=> Earlier(c))
        /\ (StartSent' <=> StartSent)
    BY <1>1, SameStage
  <2>8. Later(c) => LaterOK(c)'
    BY <1>2, Stages DEF LaterOK, Memos, IsMemo, IsSync
  <2>9. Earlier(c) => EarlierOK(c)'
    <3>1. EarlierOK(c)' <=> EarlierOK(c)
      BY <1>2, <2>7 DEF EarlierOK, Starts, IsStart, StartPkt, Synchronised, Near
    <3> QED
      BY <3>1, Stages
  <2>10. ASSUME Current(c)
         PROVE  CurrentOK(c)'
    <3>1. CurrentOK(c) /\ mstate \in Turn /\ c = client
      BY <2>10, Stages
    <3>2. FreshPkt' = FreshPkt
      BY DEF FreshPkt
    <3>3. CASE mstate = "hello"
      <4>1. HelloOK(c) /\ pkt = FreshPkt /\ sendtime <= now
        BY <3>1, <3>3 DEF CurrentOK
      <4>2. \A i \in 1 .. Len(toMaster) : toMaster[i].due \in Nat
        BY <1>3, DueIsTime
      <4>3. AnswersClose'
        <5>1. CASE Late + MaxTransit < SYNCTIME
          <6>1. \A i \in 1 .. Len(toMaster) : toMaster[i].due <= now + SYNCTIME - 1
            BY <4>1, <5>1 DEF HelloOK, AnswersClose, DueBy
          <6>2. \A i \in 1 .. Len(toMaster) : toMaster[i].due <= now + 1 + SYNCTIME - 1
            BY <1>3, <4>2, <6>1
          <6> QED
            BY <1>1, <1>2, <5>1, <6>2 DEF AnswersClose, DueBy
        <5>2. CASE ~(Late + MaxTransit < SYNCTIME)
          <6>1. \A i \in 1 .. Len(toMaster) :
                   toMaster[i].due <= toMaster[1].due + MaxTransit \/ toMaster[i].due <= now + MaxTransit
            BY <4>1, <5>2 DEF HelloOK, AnswersClose
          <6>2. \A i \in 1 .. Len(toMaster) :
                   toMaster[i].due <= toMaster[1].due + MaxTransit \/ toMaster[i].due <= now + 1 + MaxTransit
            BY <1>3, <4>2, <6>1
          <6> QED
            BY <1>1, <1>2, <5>2, <6>2 DEF AnswersClose
        <5> QED
          BY <5>1, <5>2
      <4>4. HelloOK(c)'
        BY <1>2, <4>1, <4>3 DEF HelloOK, Hellos, IsHello, IsSync, MemosThenHellos, IsMemo, LateLeft,
                               FirstAnswer, DueBy, Answered
      <4> QED
        BY <1>1, <1>2, <1>3, <3>2, <3>3, <4>1, <4>4 DEF CurrentOK
    <3>4. CASE mstate = "drain"
      <4>1. MasterDrainOK(c) /\ pkt = FreshPkt /\ now < since + SYNCTIME
        BY <1>1, <3>1, <3>4 DEF CurrentOK, MasterDeadline
      <4>2. since <= now + 1 /\ now + 1 <= since + SYNCTIME
        BY <1>3, <4>1 DEF MasterDrainOK
      <4>3. MasterDrainOK(c)'
        BY <1>1, <1>2, <4>1, <4>2 DEF MasterDrainOK, Hellos, IsHello, IsSync, LateLeft, DueBy, Answered
      <4> QED
        BY <1>2, <3>2, <3>4, <4>1, <4>3 DEF CurrentOK
    <3>5. CASE mstate = "rest"
      <4>1. RestOK(c) /\ pkt = FreshPkt /\ now < since + SYNCTIME
        BY <1>1, <3>1, <3>5 DEF CurrentOK, MasterDeadline
      <4>2. since <= now + 1 /\ now + 1 <= since + SYNCTIME
        BY <1>3, <4>1 DEF RestOK
      <4>3. RestOK(c)'
        BY <1>1, <1>2, <4>1, <4>2 DEF RestOK, Answered
      <4> QED
        BY <1>2, <3>2, <3>5, <4>1, <4>3 DEF CurrentOK
    <3>6. CASE mstate = "phases"
      <4>1. ~done
        BY <1>1, <1>3, <3>6 DEF MasterDeadline
      <4>2. PingPongOK(c) /\ now < sendtime + SYNCTIME
        BY <1>1, <3>1, <3>6, <4>1 DEF CurrentOK, MasterDeadline
      <4>3. sendtime <= now + 1 /\ now + 1 <= sendtime + SYNCTIME
        BY <1>3, <4>2 DEF PingPongOK
      <4>4. PingPongOK(c)'
        BY <1>1, <1>2, <4>2, <4>3 DEF PingPongOK, OutboundOK, InboundOK, IsSync
      <4> QED
        BY <1>2, <3>6, <4>1, <4>4 DEF CurrentOK
    <3>7. CASE mstate = "settle"
      <4>1. LeavingOK(c) /\ now < sendtime + SYNCTIME
        BY <1>1, <3>1, <3>7 DEF CurrentOK, MasterDeadline
      <4>2. sendtime <= now + 1 /\ now + 1 <= sendtime + SYNCTIME
        BY <1>3, <4>1 DEF LeavingOK
      <4>3. ~(sstate[c] = "phases" /\ sdone[c])
        <5>1. Clock(c) \in Int
          BY <1>3, <2>1 DEF Clock
        <5> QED
          BY <2>2, <5>1 DEF SlaveDeadline
      <4>4. LeavingOK(c)'
        BY <1>1, <1>2, <4>1, <4>2, <4>3 DEF LeavingOK, OutboundOK, Near
      <4> QED
        BY <1>2, <3>7, <4>4 DEF CurrentOK
    <3> QED
      BY <3>1, <3>3, <3>4, <3>5, <3>6, <3>7 DEF Turn
  <2> QED
    BY <2>5, <2>6, <2>7, <2>8, <2>9, <2>10 DEF ClientOK
<1> QED
  BY <1>4, <1>5, <1>9, <1>10 DEF SyncInv

\* A step in which nothing happens.
LEMMA StopKeeps == ASSUME SyncInv, UNCHANGED vars PROVE SyncInv'
<1>1. UNCHANGED <<now, masterVars, mstate, client, pkt, sendtime, since, dtime, deltatime, done, transittimes,
                  controlsynctime, missed, sstate, offset, ssince, ssendtime, sdone, scontrolsynctime,
                  toMaster, toSlave, faults>>
  BY DEF vars, masterVars, slaveVars, network
<1>2. TypeOK'
  BY <1>1 DEF SyncInv, TypeOK
<1>3. MasterOK'
  BY <1>1 DEF SyncInv, MasterOK, InTimeOrder, DueFrom, Starting, FreshPkt
<1>4. \A c \in Client : ClientOK(c)'
  BY <1>1, SameClient DEF SyncInv
<1>5. TimesOK'
  BY <1>1 DEF SyncInv, TimesOK
<1> QED
  BY <1>2, <1>3, <1>4, <1>5 DEF SyncInv

\* The invariant holds before the first hello.
LEMMA StartsInvariant == ASSUME Init, NetworkAssumption PROVE SyncInv
<1>1. /\ numplayers \in Nat \ {0} /\ SYNCTIME \in Nat /\ MaxTransit \in Nat /\ MaxFaults \in Nat
      /\ FirstOffset \subseteq Int
  BY RottSyncAssumption, TransitFacts DEF NetworkAssumption
<1>2. TypeOK
  <2>1. client \in Client /\ pkt \in SyncPacket /\ dtime \in [0 .. NUMSYNCPHASES - 1 -> Nat]
    BY <1>1, FreshPktType DEF Init, FreshTimes, Client
  <2>2. toMaster \in Seq([pkt : SyncPacket, due : Nat])
    BY EmptySeq DEF Init
  <2>3. toSlave \in [Client -> Seq([pkt : SyncPacket \cup StartPacket, due : Nat])]
    BY EmptySeq DEF Init
  <2>4. offset \in [Client -> Int]
    BY <1>1 DEF Init
  <2> QED
    BY <1>1, <2>1, <2>2, <2>3, <2>4 DEF Init, TypeOK
<1>3. MasterOK
  BY EmptySeq DEF Init, MasterOK, InTimeOrder, DueFrom
<1>4. TimesOK
  BY <1>1 DEF Init, TimesOK, FreshTimes
<1>5. ASSUME NEW c \in Client
      PROVE  ClientOK(c)
  <2>1. sstate[c] = "loading" /\ ~sdone[c] /\ toSlave[c] = <<>>
    BY DEF Init
  <2>2. QueueOK(c) /\ DrainOK(c) /\ LaterOK(c)
    BY <2>1, EmptySeq DEF QueueOK, DrainOK, LaterOK, InTimeOrder, DueBy, Memos
  <2>3. ~Current(c) /\ ~Earlier(c)
    BY <1>1 DEF Current, Earlier, Starting, Init, Client
  <2> QED
    BY <2>2, <2>3 DEF ClientOK
<1> QED
  BY <1>2, <1>3, <1>4, <1>5 DEF SyncInv

\* Every step keeps the invariant.
LEMMA StepKeeps == ASSUME SyncInv, NetworkAssumption, [Next]_vars PROVE SyncInv'
<1>1. CASE BeginSync
  BY <1>1, BeginSyncKeeps
<1>2. CASE SendHello
  BY <1>2, SendHelloKeeps
<1>3. CASE HelloAnswered
  BY <1>3, HelloAnsweredKeeps
<1>4. CASE MasterDiscards
  BY <1>4, MasterDiscardsKeeps
<1>5. CASE EndDrain
  BY <1>5, EndDrainKeeps
<1>6. CASE EndRest
  BY <1>6, EndRestKeeps
<1>7. CASE SendPhase
  BY <1>7, SendPhaseKeeps
<1>8. CASE PhaseAnswered
  BY <1>8, PhaseAnsweredKeeps
<1>9. CASE LeaveSync
  BY <1>9, LeaveSyncKeeps
<1>10. CASE EndSettle
  BY <1>10, EndSettleKeeps
<1>11. CASE SendStart
  BY <1>11, SendStartKeeps
<1>12. CASE SendStartAgain
  BY <1>12, SendStartAgainKeeps
<1>13. CASE MasterStarted
  BY <1>13, MasterStartedKeeps
<1>14. CASE Tick
  BY <1>14, TickKeeps
<1>15. CASE Stopped
  BY <1>15, StopKeeps DEF Stopped
<1>16. CASE UNCHANGED vars
  BY <1>16, StopKeeps
<1>17. ASSUME NEW c \in Client, Slave(c)
       PROVE  SyncInv'
  <2>1. CASE Enter(c)
    BY <2>1, EnterKeeps
  <2>2. CASE Greeted(c)
    BY <2>2, GreetedKeeps
  <2>3. CASE SlaveDiscards(c)
    BY <2>3, SlaveDiscardsKeeps
  <2>4. CASE SlaveEndDrain(c)
    BY <2>4, SlaveEndDrainKeeps
  <2>5. CASE SlavePhase(c)
    BY <2>5, SlavePhaseKeeps
  <2>6. CASE SlaveLeaveSync(c)
    BY <2>6, SlaveLeaveSyncKeeps
  <2>7. CASE SlaveEndSettle(c)
    BY <2>7, SlaveEndSettleKeeps
  <2>8. CASE SlaveHearsStart(c)
    BY <2>8, SlaveHearsStartKeeps
  <2>9. CASE SlaveStarted(c)
    BY <2>9, SlaveStartedKeeps
  <2> QED
    BY <1>17, <2>1, <2>2, <2>3, <2>4, <2>5, <2>6, <2>7, <2>8, <2>9 DEF Slave
<1> QED
  BY <1>1, <1>2, <1>3, <1>4, <1>5, <1>6, <1>7, <1>8, <1>9, <1>10, <1>11, <1>12, <1>13, <1>14,
     <1>15, <1>16, <1>17 DEF Next, Master

\* Whatever is lost, and however long packets travel, what is on its way belongs
\* to the stage of the turn, and a clock that is set is off by at most
\* one transit.
THEOREM SyncInvariant == ASSUME NetworkAssumption PROVE Spec => []SyncInv
<1>1. Init => SyncInv
  BY StartsInvariant
<1>2. SyncInv /\ [Next]_vars => SyncInv'
  BY StepKeeps
<1> QED
  BY <1>1, <1>2, PTL DEF Spec

\* The variables keep their types.
THEOREM SyncTypes == ASSUME NetworkAssumption PROVE Spec => []TypeOK
<1>1. SyncInv => TypeOK
  BY DEF SyncInv
<1> QED
  BY <1>1, SyncInvariant, PTL

\* What the invariant says about the clocks, the transit times and the answers.
LEMMA SyncImplies ==
    ASSUME SyncInv, NetworkAssumption
    PROVE  ClocksAgree /\ TransitIsMeasured /\ AnswersAreCurrent
<1>1. ClocksAgree
  <2> SUFFICES ASSUME NEW c \in Client, Synchronised(c)
               PROVE  offset[c] \in -MaxTransit .. MaxTransit
    BY DEF ClocksAgree
  <2>1. ~(Later(c) /\ LaterOK(c))
    BY DEF LaterOK, Synchronised
  <2>2. CASE Earlier(c) /\ EarlierOK(c)
    BY <2>2 DEF EarlierOK, Synchronised, Near
  <2>3. CASE Current(c) /\ CurrentOK(c) /\ mstate \in Turn
    BY <2>3 DEF CurrentOK, HelloOK, MasterDrainOK, RestOK, PingPongOK, LeavingOK, Synchronised, Near, Turn
  <2> QED
    BY <2>1, <2>2, <2>3, Stages
<1>2. TransitIsMeasured
  BY DEF SyncInv, TimesOK, TransitIsMeasured
<1>3. AnswersAreCurrent
  <2> SUFFICES ASSUME mstate = "phases", ~done, Waiting(toMaster)
               PROVE  Head(toMaster).pkt.phase = pkt.phase
    BY DEF AnswersAreCurrent
  <2>1. PingPongOK(client)
    BY InTurn DEF CurrentOK, Turn
  <2>2. toMaster # <<>> /\ toMaster \in Seq(Msg(SyncPacket))
    BY TypeFacts DEF Waiting, SyncInv
  <2>3. Head(toMaster) = toMaster[1]
    BY <2>2, HeadTailProperties
  <2>4. InboundOK(client)
    BY <2>1, <2>2 DEF PingPongOK, OutboundOK
  <2> QED
    BY <2>3, <2>4 DEF InboundOK, IsSync
<1> QED
  BY <1>1, <1>2, <1>3

\* After SyncTime the clock of a client is off by at most one transit from the
\* master's: two corrections by half of a round trip each suffice (SlavePhaseHandler).
THEOREM ClocksAgreeAlways == ASSUME NetworkAssumption PROVE Spec => []ClocksAgree
BY SyncInvariant, SyncImplies, PTL

\* The transit time SetTransitTime stores is at most the longest transit, also
\* when a packet was sent again: no answer is taken for that to a later packet.
THEOREM TransitMeasured == ASSUME NetworkAssumption PROVE Spec => []TransitIsMeasured
BY SyncInvariant, SyncImplies, PTL

\* An answer the master reads in SyncTime is that of the phase it is in: no
\* late answer to a hello gets there, and dtime is addressed within its bounds.
THEOREM AnswersCurrent == ASSUME NetworkAssumption PROVE Spec => []AnswersAreCurrent
BY SyncInvariant, SyncImplies, PTL
-----------------------------------------------------------------------------
(* Clients that are left behind                                            *)

\* A step after which nobody waits but who did before, or who is missed.
LEMMA NoneLeft ==
    ASSUME LeftInv, missed \subseteq missed',
           \A d \in Client : Behind(d)' => Behind(d) \/ d \in missed'
    PROVE  LeftInv'
<1>1. \A d \in Client : Behind(d) => d \in missed
  BY DEF LeftInv, Left
<1>2. \A d \in Client : Behind(d)' => d \in missed'
  BY <1>1
<1> QED
  BY <1>2 DEF LeftInv, Left

\* The end of the last pause: what the master has not heard of by then will not come.
LEMMA SettledBehind ==
    ASSUME SyncInv, NetworkAssumption, EndSettle, sstate[client] = "phases", ~sdone[client]
    PROVE  Behind(client)
<1>1. mstate = "settle" /\ mstate \in Turn /\ now >= sendtime + SYNCTIME
  BY DEF EndSettle, MasterAt, MasterDeadline, Turn
<1>2. /\ client \in Client /\ QueueOK(client) /\ LeavingOK(client)
      /\ now \in Nat /\ sendtime \in Int
      /\ toSlave[client] \in Seq(Msg(SyncPacket \cup StartPacket))
  BY <1>1, InTurn DEF SyncInv, TypeOK, CurrentOK
<1>3. MaxTransit \in Nat /\ SYNCTIME \in Nat /\ 2 * MaxTransit < SYNCTIME
  BY TransitFacts DEF NetworkAssumption
<1>4. ~OutboundOK(client)
  <2> SUFFICES ASSUME OutboundOK(client)
               PROVE  FALSE
    OBVIOUS
  <2>1. 1 \in 1 .. Len(toSlave[client]) /\ toSlave[client][1].due <= sendtime + MaxTransit
    BY DEF OutboundOK
  <2>2. toSlave[client][1].due \in Nat /\ toSlave[client][1].due >= now
    BY <1>2, <2>1, DueIsTime DEF QueueOK, DueFrom
  <2> QED
    BY <1>1, <1>2, <1>3, <2>1, <2>2
<1>5. toSlave[client] = <<>>
  BY <1>2, <1>4 DEF LeavingOK
<1> QED
  BY <1>1, <1>5 DEF Behind, TurnDone

\* The master leaves a client behind when SYNC_PHASE5 is lost, and only then.
LEMMA MasterLeft ==
    ASSUME SyncInv, LeftInv, NetworkAssumption, Master
    PROVE  LeftInv'
<1>1. TypeOK /\ client \in Client /\ \A d \in Client : d \in Int
  BY TypeFacts DEF SyncInv
<1>2. UNCHANGED <<sstate, sdone>>
  BY DEF Master, BeginSync, SendHello, HelloAnswered, MasterDiscards, EndDrain, EndRest, SendPhase,
         PhaseAnswered, LeaveSync, EndSettle, SendStart, SendStartAgain, MasterStarted, slaveVars
<1>3. missed \subseteq missed'
  <2>1. CASE SendHello \/ SendPhase \/ PhaseAnswered
    BY <1>1, <2>1, MissedFacts DEF SendHello, SendPhase, PhaseAnswered
  <2>2. CASE ~(SendHello \/ SendPhase \/ PhaseAnswered)
    <3>1. missed' = missed
      BY <2>2 DEF Master, BeginSync, HelloAnswered, MasterDiscards, EndDrain, EndRest,
         LeaveSync, EndSettle, SendStart, SendStartAgain, MasterStarted, masterVars
    <3> QED
      BY <3>1
  <2> QED
    BY <2>1, <2>2
<1>4. CASE BeginSync \/ HelloAnswered \/ EndDrain \/ EndRest
  <2>1. client' = client /\ ~TurnDone' /\ (Starting' => Starting)
    BY <1>4 DEF BeginSync, HelloAnswered, EndDrain, EndRest, MasterAt, TurnDone, Starting
  <2>2. \A d \in Client : Behind(d)' => Behind(d)
    BY <1>2, <2>1 DEF Behind, Earlier
  <2> QED
    BY <1>3, <2>2, NoneLeft
<1>5. CASE SendHello \/ SendPhase
  <2>1. client' = client /\ ~TurnDone' /\ (Starting' => Starting)
    BY <1>5 DEF SendHello, SendPhase, MasterAt, TurnDone, Starting
  <2>2. \A d \in Client : Behind(d)' => Behind(d)
    BY <1>2, <2>1 DEF Behind, Earlier
  <2> QED
    BY <1>3, <2>2, NoneLeft
<1>6. CASE LeaveSync \/ MasterDiscards
  <2>1. UNCHANGED <<client, toSlave>> /\ (TurnDone' => TurnDone) /\ (Starting' => Starting)
    BY <1>6 DEF LeaveSync, MasterDiscards, MasterAt, masterVars, network, TurnDone, Starting
  <2>2. \A d \in Client : Behind(d)' => Behind(d)
    BY <1>2, <2>1 DEF Behind, Earlier
  <2> QED
    BY <1>3, <2>2, NoneLeft
<1>7. CASE SendStart \/ SendStartAgain \/ MasterStarted
  <2>1. client' = client /\ ~TurnDone' /\ Starting
    BY <1>7 DEF SendStart, SendStartAgain, MasterStarted, MasterAt, TurnDone, Starting
  <2>2. \A d \in Client : Behind(d)' => Behind(d)
    BY <1>2, <2>1 DEF Behind, Earlier
  <2> QED
    BY <1>3, <2>2, NoneLeft
<1>8. CASE EndSettle
  <2>1. /\ ~TurnDone'
        /\ \/ MoreClients /\ mstate' = "begin" /\ client' = client + 1
           \/ ~MoreClients /\ mstate' = "start" /\ client' = client
    BY <1>8 DEF EndSettle, MasterAt, TurnDone
  <2>2. numplayers \in Nat
    BY RottSyncAssumption
  <2>3. ASSUME NEW d \in Client, Behind(d)'
        PROVE  Behind(d)
    <3>1. CASE d = client
      BY <1>2, <1>8, <2>3, <3>1, SettledBehind DEF Behind
    <3>2. CASE d # client
      <4>1. d < client'  \/ mstate' = "start"
        BY <2>1, <2>3 DEF Behind, Earlier, Starting
      <4>2. d < client
        BY <1>1, <2>1, <2>2, <3>2, <4>1 DEF MoreClients, Client
      <4> QED
        BY <1>2, <2>3, <4>2 DEF Behind, Earlier
    <3> QED
      BY <3>1, <3>2
  <2> QED
    BY <1>3, <2>3, NoneLeft
<1>9. CASE PhaseAnswered
  <2> DEFINE answer == Head(toMaster).pkt
             average == Average([dtime EXCEPT ![answer.phase] = now - sendtime], answer.phase)
             next == MasterPhaseHandler(answer, average)
  <2>1. /\ client' = client /\ mstate' = mstate /\ mstate = "phases" /\ faults \in Nat
        /\ \A d \in Client : d # client => toSlave'[d] = toSlave[d]
        /\ \/ toSlave'[client] = <<>> /\ faults' = faults + 1
           \/ Len(toSlave'[client]) = 1 /\ faults' = faults
    BY <1>1, <1>9, AnswerRead DEF PhaseAnswered, TypeOK
  <2>2. SendToSlave(next) /\ done' = (answer.phase = LastAnswered)
    BY <1>9 DEF PhaseAnswered
  <2>3. done' => next.phase = SYNC_PHASE5
    <3>1. answer \in SyncPacket
      BY <1>9, AnswerRead
    <3> QED
      BY <2>2, <3>1 DEF MasterPhaseHandler, LastAnswered, SYNC_PHASE1, SYNC_PHASE2, SYNC_PHASE3,
         SYNC_PHASE4, SYNC_PHASE5, SyncPacket
  <2>4. ASSUME done', toSlave'[client] = <<>>
        PROVE  client \in missed'
    <3>1. faults' = faults + 1
      BY <2>1, <2>4, EmptySeq
    <3> QED
      BY <1>1, <2>1, <2>2, <2>3, <2>4, <3>1, MissedFacts
  <2>5. ASSUME NEW d \in Client, Behind(d)'
        PROVE  Behind(d) \/ d \in missed'
    <3>1. CASE d # client
      BY <1>2, <2>1, <2>5, <3>1 DEF Behind, Earlier, Starting
    <3>2. CASE d = client
      BY <1>1, <1>2, <2>1, <2>4, <2>5, <3>2 DEF Behind, Earlier, Starting, TurnDone
    <3> QED
      BY <3>1, <3>2
  <2> QED
    BY <1>3, <2>5, NoneLeft
<1> QED
  BY <1>4, <1>5, <1>6, <1>7, <1>8, <1>9 DEF Master

\* A slave leaves nobody behind: SYNC_PHASE5, if it comes, is read.
LEMMA SlaveLeft ==
    ASSUME SyncInv, LeftInv, NetworkAssumption, NEW c \in Client, Slave(c)
    PROVE  LeftInv'
<1>1. TypeOK /\ \A d \in Client : d \in Int
  BY TypeFacts DEF SyncInv
<1>2. UNCHANGED masterVars
  BY DEF Slave, Enter, Greeted, SlaveDiscards, SlaveEndDrain, SlavePhase, SlaveLeaveSync,
         SlaveEndSettle, SlaveHearsStart, SlaveStarted
<1>3. \A d : (Earlier(d)' <=> Earlier(d)) /\ (TurnDone' <=> TurnDone) /\ client' = client
  BY <1>2 DEF masterVars, Earlier, Starting, TurnDone
<1>4. ASSUME NEW d \in Client, d # c
      PROVE  sstate'[d] = sstate[d] /\ sdone'[d] = sdone[d] /\ toSlave'[d] = toSlave[d]
  BY <1>1, <1>4 DEF TypeOK, Slave, Enter, Greeted, SlaveDiscards, SlaveEndDrain, SlavePhase, SlaveLeaveSync,
         SlaveEndSettle, SlaveHearsStart, SlaveStarted, SlaveReceives, slaveVars, network
<1>5. missed' = missed
  BY <1>2 DEF masterVars
<1>6. Behind(c)' => Behind(c)
  <2>1. CASE SlaveEndDrain(c)
    <3>1. sstate[c] = "drain"
      BY <2>1 DEF SlaveEndDrain, SlaveAt
    <3>2. ~Earlier(c) /\ (c = client => ~TurnDone)
      BY <3>1, Stages DEF EarlierOK, Synchronised, TurnDone, LaterOK, CurrentOK, LeavingOK, Turn
    <3> QED
      BY <1>3, <3>2 DEF Behind
  <2>2. CASE SlavePhase(c)
    <3>1. sstate[c] = "phases" /\ toSlave[c] # <<>>
      BY <2>2, PhaseRead
    <3>2. CASE Earlier(c)
      BY <3>1, <3>2, Stages DEF EarlierOK, Synchronised, Behind
    <3>3. CASE ~Earlier(c) /\ c = client /\ TurnDone
      <4>1. LeavingOK(c) /\ OutboundOK(c) /\ pkt.phase = SYNC_PHASE5 /\ pkt \in SyncPacket
        BY <1>1, <3>1, <3>3, Stages DEF CurrentOK, LeavingOK, TurnDone, LaterOK, TypeOK
      <4>2. Head(toSlave[c]).pkt = pkt
        BY <2>2, <4>1, SlaveReadFacts DEF OutboundOK, SlavePhase
      <4>3. sdone' = [sdone EXCEPT ![c] = pkt.phase = SYNC_PHASE5]
        BY <2>2, <4>1, <4>2 DEF SlavePhase, SyncPacket
      <4>4. sdone'[c]
        BY <1>1, <4>1, <4>3, Zenon DEF TypeOK
      <4> QED
        BY <4>4 DEF Behind
    <3> QED
      BY <1>3, <3>2, <3>3 DEF Behind
  <2>3. CASE ~SlaveEndDrain(c) /\ ~SlavePhase(c)
    <3>1. sstate'[c] # "phases"
      BY <1>1, <2>3 DEF TypeOK, Slave, Enter, Greeted, SlaveDiscards, SlaveDiscarding, SlaveLeaveSync,
         SlaveEndSettle, SlaveHearsStart, SlaveStarted, SlaveReceives, slaveVars
    <3> QED
      BY <3>1 DEF Behind
  <2> QED
    BY <2>1, <2>2, <2>3
<1>7. \A d \in Client : Behind(d)' => Behind(d)
  BY <1>3, <1>4, <1>6 DEF Behind
<1> QED
  BY <1>5, <1>7, NoneLeft

\* However many packets are lost, who waits for a SYNC_PHASE5 that does not come
\* is one whose SYNC_PHASE5 was lost: the loss of anything else is made good.
THEOREM LeftInvariant == ASSUME NetworkAssumption PROVE Spec => []LeftInv
<1>1. Init => LeftInv
  BY DEF Init, Left, Behind, LeftInv
<1>2. SyncInv /\ LeftInv /\ [Next]_vars => LeftInv'
  <2> SUFFICES ASSUME SyncInv, LeftInv, [Next]_vars
               PROVE  LeftInv'
    OBVIOUS
  <2>1. CASE Tick \/ Stopped \/ UNCHANGED vars
    <3>1. UNCHANGED <<sstate, sdone, toSlave, mstate, client, done, missed>>
      BY <2>1 DEF Tick, Stopped, vars, masterVars, slaveVars, network
    <3>2. Left' = Left
      BY <3>1 DEF Left, Behind, Earlier, Starting, TurnDone
    <3> QED
      BY <3>1, <3>2 DEF LeftInv
  <2> QED
    BY <2>1, MasterLeft, SlaveLeft DEF Next
<1> QED
  BY <1>1, <1>2, SyncInvariant, PTL DEF Spec

\* When all turns are over a client that has not left SyncTime has missed SYNC_PHASE5.
LEMMA OthersSynchronised ==
    ASSUME SyncInv, LeftInv, Starting, NEW c \in Client \ missed
    PROVE  Synchronised(c)
<1>1. EarlierOK(c) /\ Earlier(c) /\ ~Behind(c)
  BY AllOver DEF Earlier, LeftInv, Left
<1> QED
  BY <1>1 DEF EarlierOK, Behind

\* When the first program has heard COM_START only clients whose SYNC_PHASE5 was
\* lost are still in SyncTime (ComSetTime, rt_com.c:557).
THEOREM OnlyMissed == ASSUME NetworkAssumption PROVE Spec => []OnlyMissedBehind
<1>1. SyncInv /\ LeftInv => OnlyMissedBehind
  <2> SUFFICES ASSUME SyncInv, LeftInv, NEW c \in Client, sstate[c] \in {"flush", "started"}
               PROVE  \A d \in Client \ missed : Synchronised(d)
    BY DEF OnlyMissedBehind
  <2>1. ~(Later(c) /\ LaterOK(c))
    BY DEF LaterOK
  <2>2. ~(Current(c) /\ CurrentOK(c) /\ mstate \in Turn)
    BY DEF CurrentOK, HelloOK, MasterDrainOK, RestOK, PingPongOK, LeavingOK, Turn
  <2>3. StartSent
    BY <2>1, <2>2, Stages DEF EarlierOK
  <2> QED
    BY <2>3, OthersSynchronised DEF StartSent, Starting
<1> QED
  BY <1>1, SyncInvariant, LeftInvariant, PTL
-----------------------------------------------------------------------------
(* The start of the game: steps of the master                              *)

\* What the steps need of the assumptions and of SyncInv.
LEMMA StartFacts ==
    ASSUME SyncInv, NetworkAssumption, StartsFit
    PROVE  /\ now \in Nat /\ controlsynctime \in Nat /\ MaxTransit \in Nat /\ SYNCTIME \in Nat
           /\ VBLCOUNTER \in Nat /\ VBLCOUNTER \div 4 \in Nat /\ VBLCOUNTER \div 4 <= VBLCOUNTER
           /\ MaxTransit <= VBLCOUNTER \div 4 /\ SYNCTIME + MaxTransit < VBLCOUNTER
           /\ VBLCOUNTER \div 4 + MaxTransit < VBLCOUNTER
           /\ \A c \in Client : offset[c] \in Int /\ ssendtime[c] \in Int
           /\ \A c \in Client : sstate[c] \in {"flush", "started"} => StartSent
           /\ \A c \in Client : Earlier(c) =>
                 IF Synchronised(c) THEN Near(offset[c]) ELSE sstate[c] = "phases" /\ ~sdone[c]
<1>1. /\ now \in Nat /\ controlsynctime \in Nat
      /\ \A c \in Client : offset[c] \in Int /\ ssendtime[c] \in Int
  BY TypeFacts DEF SyncInv, TypeOK
<1>2. /\ MaxTransit \in Nat /\ SYNCTIME \in Nat /\ VBLCOUNTER \in Nat
      /\ MaxTransit <= VBLCOUNTER \div 4 /\ SYNCTIME + MaxTransit < VBLCOUNTER
  BY TransitFacts, RottSyncAssumption DEF NetworkAssumption, StartsFit
<1>3. VBLCOUNTER \div 4 \in Nat /\ 4 * (VBLCOUNTER \div 4) <= VBLCOUNTER
  BY <1>2
<1>4. /\ VBLCOUNTER \div 4 <= VBLCOUNTER /\ VBLCOUNTER \div 4 + MaxTransit < VBLCOUNTER
  <2> DEFINE d == VBLCOUNTER \div 4
  <2>1. d \in Nat /\ 4 * d <= VBLCOUNTER /\ MaxTransit <= d /\ VBLCOUNTER > 0
    BY <1>2, <1>3
  <2> HIDE DEF d
  <2>2. d <= VBLCOUNTER /\ d + MaxTransit < VBLCOUNTER
    BY <1>2, <2>1
  <2> QED
    BY <2>2 DEF d
<1>5. ASSUME NEW c \in Client, Earlier(c)
      PROVE  IF Synchronised(c) THEN Near(offset[c]) ELSE sstate[c] = "phases" /\ ~sdone[c]
  <2>1. EarlierOK(c)
    BY <1>5, Stages
  <2> QED
    BY <2>1 DEF EarlierOK, Synchronised
<1>6. ASSUME NEW c \in Client, sstate[c] \in {"flush", "started"}
      PROVE  StartSent
  <2>1. ~(Later(c) /\ LaterOK(c))
    BY <1>6 DEF LaterOK
  <2>2. ~(Current(c) /\ CurrentOK(c) /\ mstate \in Turn)
    BY <1>6 DEF CurrentOK, HelloOK, MasterDrainOK, RestOK, PingPongOK, LeavingOK, Turn
  <2>3. Earlier(c) /\ EarlierOK(c)
    BY <2>1, <2>2, Stages
  <2> QED
    BY <1>6, <2>3 DEF EarlierOK
<1> QED
  BY <1>1, <1>2, <1>3, <1>4, <1>5, <1>6

\* Until COM_START is sent only the pauses matter.
LEMMA NotStarted ==
    ASSUME SyncInv, NetworkAssumption, StartsFit, ~StartSent, ~StartSent', sstate' = sstate,
           NEW c \in Client, SettleOK(c)'
    PROVE  StartOK(c)'
<1>1. sstate[c] \notin {"flush", "started"}
  BY StartFacts
<1>2. mstate' \notin {"flush", "started"}
  BY DEF StartSent
<1> QED
  BY <1>1, <1>2 DEF StartOK, WaiterOK, HearingOK

\* The master goes through the turn of a client.
LEMMA TurnStart ==
    ASSUME SyncInv, StartInv, NetworkAssumption, StartsFit, ~StartSent, ~StartSent',
           now' = now, UNCHANGED slaveVars,
           \A c \in Client : Earlier(c)' => Earlier(c)
    PROVE  StartInv'
<1>1. StartTimesOK'
  BY DEF StartTimesOK, StartSent
<1>2. ASSUME NEW c \in Client
      PROVE  SettleOK(c)'
  <2> SUFFICES ASSUME Earlier(c)', sstate[c] = "settle"
               PROVE  ssendtime[c] <= now /\ Clock(c) <= ssendtime[c] + SYNCTIME
    BY DEF SettleOK, slaveVars, Clock
  <2> QED
    BY DEF StartInv, StartOK, SettleOK
<1>3. sstate' = sstate
  BY DEF slaveVars
<1> QED
  BY <1>1, <1>2, <1>3, NotStarted DEF StartInv

\* The last pause of a client begins before COM_START is sent.
LEMMA EndSettleStart ==
    ASSUME SyncInv, StartInv, NetworkAssumption, StartsFit, EndSettle PROVE StartInv'
<1>1. /\ mstate = "settle" /\ mstate \in Turn /\ now >= sendtime + SYNCTIME
      /\ \/ MoreClients /\ mstate' = "begin" /\ client' = client + 1
         \/ ~MoreClients /\ mstate' = "start" /\ client' = client
      /\ now' = now /\ UNCHANGED <<sstate, offset, ssendtime>>
  BY DEF EndSettle, MasterAt, MasterDeadline, slaveVars, Turn
<1>2. ~StartSent /\ ~StartSent' /\ ~Starting
  BY <1>1 DEF StartSent, Starting
<1>3. StartTimesOK'
  BY <1>1 DEF StartTimesOK, StartSent
<1>4. /\ client \in Client /\ LeavingOK(client) /\ sendtime \in Int
      /\ \A d \in Client : d \in Int
  BY <1>1, InTurn, TypeFacts DEF SyncInv, TypeOK, CurrentOK
<1>5. ASSUME NEW c \in Client
      PROVE  SettleOK(c)'
  <2> SUFFICES ASSUME Earlier(c)', sstate[c] = "settle"
               PROVE  ssendtime[c] <= now /\ Clock(c) <= ssendtime[c] + SYNCTIME
    BY <1>1, <1>2 DEF SettleOK, Clock
  <2>1. CASE c = client
    <3>1. Near(offset[c]) /\ ssendtime[c] = sendtime + SYNCTIME /\ now <= sendtime + SYNCTIME
      BY <1>4, <2>1 DEF LeavingOK
    <3>2. MaxTransit <= SYNCTIME
      BY TransitFacts DEF NetworkAssumption
    <3> QED
      BY <1>1, <1>4, <3>1, <3>2, StartFacts DEF Near, Clock
  <2>2. CASE c # client
    <3>1. c < client
      <4>1. CASE MoreClients /\ mstate' = "begin" /\ client' = client + 1
        BY <1>4, <2>2, <4>1 DEF Earlier, Starting
      <4>2. CASE ~MoreClients
        BY <1>4, <2>2, <4>2, RottSyncAssumption DEF MoreClients, Client
      <4> QED
        BY <1>1, <4>1, <4>2
    <3>2. Earlier(c)
      BY <3>1 DEF Earlier
    <3> QED
      BY <1>2, <3>2 DEF StartInv, StartOK, SettleOK
  <2> QED
    BY <2>1, <2>2
<1> QED
  BY <1>1, <1>2, <1>3, <1>5, NotStarted DEF StartInv

\* The first COM_START.
LEMMA SendStartStart ==
    ASSUME SyncInv, StartInv, NetworkAssumption, StartsFit, SendStart PROVE StartInv'
<1>1. /\ mstate = "start" /\ mstate' = "startagain" /\ now' = now /\ controlsynctime' = now
      /\ UNCHANGED <<sstate, offset, ssendtime>>
  BY DEF SendStart, MasterAt, slaveVars
<1>2. ~StartSent /\ StartSent' /\ Starting /\ Starting'
  BY <1>1 DEF StartSent, Starting
<1>3. now \in Nat /\ VBLCOUNTER \div 4 \in Nat /\ SYNCTIME \in Nat /\ MaxTransit \in Nat
      /\ \A c \in Client : sstate[c] \notin {"flush", "started"}
  BY <1>2, StartFacts
<1>4. StartTimesOK'
  BY <1>1, <1>3 DEF StartTimesOK
<1>5. ASSUME NEW c \in Client
      PROVE  StartOK(c)'
  <2>1. SettleOK(c)'
    <3> SUFFICES ASSUME sstate[c] = "settle"
                 PROVE  ssendtime[c] <= now /\ Clock(c) <= ssendtime[c] + SYNCTIME
      BY <1>1, <1>2 DEF SettleOK, Clock
    <3> QED
      BY <1>2 DEF StartInv, StartOK, SettleOK, Earlier
  <2>2. WaiterOK(c)'
    BY <1>1, <1>3 DEF WaiterOK
  <2>3. HearingOK(c)'
    BY <1>1, <1>3 DEF HearingOK
  <2> QED
    BY <2>1, <2>2, <2>3 DEF StartOK
<1> QED
  BY <1>4, <1>5 DEF StartInv

\* The second COM_START reaches every client that has missed the first: all
\* pauses are over when it comes.
LEMMA SendStartAgainStart ==
    ASSUME SyncInv, StartInv, NetworkAssumption, StartsFit, SendStartAgain PROVE StartInv'
<1> DEFINE p == StartPkt(controlsynctime)
           cut == controlsynctime + VBLCOUNTER \div 4
<1>1. /\ mstate = "startagain" /\ mstate' = "flush" /\ now' = now /\ controlsynctime' = controlsynctime
      /\ now >= cut
      /\ UNCHANGED <<sstate, offset, ssendtime, scontrolsynctime>>
      /\ Broadcast(p, Client)
  BY DEF SendStartAgain, MasterAt, MasterDeadline, slaveVars
<1>2. StartSent /\ StartSent' /\ Starting /\ Starting'
  BY <1>1 DEF StartSent, Starting
<1>3. now \in Nat /\ cut \in Nat /\ MaxTransit \in Nat /\ cut <= controlsynctime + VBLCOUNTER
      /\ controlsynctime \in Nat /\ TypeOK /\ Prompt
      /\ \A c \in Client : /\ Synchronised(c) \/ sstate[c] = "phases"
                           /\ QueueOK(c) /\ InTimeOrder(toSlave[c])
                           /\ toSlave[c] \in Seq(Msg(SyncPacket \cup StartPacket))
  <2>1. \A c \in Client : Earlier(c)
    BY <1>2 DEF Earlier
  <2>2. now \in Nat /\ cut \in Nat /\ MaxTransit \in Nat /\ cut <= controlsynctime + VBLCOUNTER
        /\ controlsynctime \in Nat
    BY StartFacts
  <2>3. \A c \in Client : Synchronised(c) \/ sstate[c] = "phases"
    BY <2>1, StartFacts
  <2> QED
    BY <1>2, <2>2, <2>3, AllOver DEF NetworkAssumption
<1>4. now = cut /\ controlsynctime <= now
  BY <1>1, <1>2, <1>3 DEF StartInv, StartTimesOK
<1>5. StartTimesOK'
  BY <1>1, <1>3, <1>4 DEF StartTimesOK
<1>6. p \in SyncPacket \cup StartPacket /\ Client \in SUBSET Client
  BY <1>3 DEF StartPkt, StartPacket
<1> HIDE DEF p
<1>7. /\ toSlave' \in [Client -> Seq(Msg(SyncPacket \cup StartPacket))]
      /\ \A c \in Client : InTimeOrder(toSlave'[c]) /\ Extends(toSlave'[c], toSlave[c], p, MaxTransit)
  BY <1>1, <1>3, <1>6, BroadcastFacts
<1>8. ASSUME NEW c \in Client
      PROVE  StartOK(c)'
  <2> DEFINE q == toSlave[c]
             r == toSlave'[c]
  <2>1. StartOK(c)
    BY DEF StartInv
  <2>2. /\ q \in Seq(Msg(SyncPacket \cup StartPacket)) /\ r \in Seq(Msg(SyncPacket \cup StartPacket))
        /\ Extends(r, q, p, MaxTransit)
    BY <1>3, <1>7
  <2>3. DueBy(q, cut + MaxTransit)
    BY <1>3, <1>4 DEF QueueOK
  <2> HIDE DEF q, r, cut
  <2>4. (DueFrom(q, now) => DueFrom(r, now)) /\ DueBy(r, cut + MaxTransit) /\ r # <<>>
    BY <1>3, <1>4, <2>2, <2>3, ExtendsFacts
  <2>5. SettleOK(c)'
    BY <1>1, <1>2, <2>1 DEF StartOK, SettleOK, Clock, Earlier
  <2>6. WaiterOK(c)'
    BY <1>1, <1>2, <2>1, <2>4 DEF StartOK, WaiterOK, DueFrom, q, r
  <2>7. HearingOK(c)'
    <3>1. CASE sstate[c] \in {"flush", "started"}
      <4>1. Heard(c)
        BY <2>1, <3>1 DEF StartOK, HearingOK
      <4>2. Heard(c)'
        BY <1>1, <4>1 DEF Heard
      <4> QED
        BY <1>1, <4>2 DEF HearingOK
    <3>2. CASE sstate[c] \in {"settle", "waitstart"}
      <4>1. StillWaiting(c)'
        BY <1>1, <2>4, <3>2 DEF StillWaiting, DueBy, r, cut
      <4> QED
        BY <1>1, <3>2, <4>1 DEF HearingOK
    <3>3. CASE sstate[c] = "phases"
      BY <1>1, <3>3 DEF HearingOK, Synchronised
    <3> QED
      BY <1>3, <3>1, <3>2, <3>3 DEF Synchronised
  <2> QED
    BY <2>5, <2>6, <2>7 DEF StartOK
<1> QED
  BY <1>5, <1>8 DEF StartInv

\* When the master starts the game every client that has left SyncTime has heard
\* COM_START.
LEMMA MasterStartedStart ==
    ASSUME SyncInv, StartInv, NetworkAssumption, StartsFit, MasterStarted PROVE StartInv'
<1>1. /\ mstate = "flush" /\ mstate' = "started" /\ now' = now /\ controlsynctime' = controlsynctime
      /\ now >= controlsynctime + VBLCOUNTER
      /\ UNCHANGED <<sstate, offset, ssendtime, scontrolsynctime, toSlave>>
  BY DEF MasterStarted, MasterAt, MasterDeadline, slaveVars, network
<1>2. StartSent /\ StartSent' /\ Starting /\ Starting'
  BY <1>1 DEF StartSent, Starting
<1>3. StartTimesOK'
  BY <1>1, <1>2 DEF StartInv, StartTimesOK
<1>4. ASSUME NEW c \in Client
      PROVE  StartOK(c)'
  <2> DEFINE q == toSlave[c]
             quarter == VBLCOUNTER \div 4
  <2>1. StartOK(c) /\ Earlier(c)
    BY <1>2 DEF StartInv, Earlier
  <2>2. /\ now \in Nat /\ controlsynctime \in Nat /\ MaxTransit \in Nat /\ SYNCTIME \in Nat
        /\ VBLCOUNTER \in Nat /\ quarter \in Nat /\ SYNCTIME + MaxTransit < VBLCOUNTER
        /\ quarter + MaxTransit < VBLCOUNTER
        /\ offset[c] \in Int /\ ssendtime[c] \in Int
        /\ Synchronised(c) => Near(offset[c])
    BY <2>1, StartFacts
  <2>3. q \in Seq(Msg(SyncPacket \cup StartPacket))
    BY <1>2, AllOver
  <2> HIDE DEF q, quarter
  <2>4. now > controlsynctime + SYNCTIME + MaxTransit
    BY <1>1, <2>2
  <2>5. sstate[c] # "settle"
    <3> SUFFICES ASSUME sstate[c] = "settle"
                 PROVE  FALSE
      OBVIOUS
    <3>1. ssendtime[c] <= controlsynctime /\ now + offset[c] <= ssendtime[c] + SYNCTIME
      BY <1>2, <2>1 DEF StartOK, SettleOK, Clock
    <3>2. Near(offset[c])
      BY <2>2 DEF Synchronised
    <3> QED
      BY <2>2, <2>4, <3>1, <3>2 DEF Near
  <2>6. ~StillWaiting(c)
    <3> SUFFICES ASSUME StillWaiting(c)
                 PROVE  FALSE
      OBVIOUS
    <3>1. sstate[c] = "waitstart" /\ q # <<>> /\ DueBy(q, controlsynctime + quarter + MaxTransit)
      BY <2>5 DEF StillWaiting, q, quarter
    <3>2. DueFrom(q, now) \/ now <= controlsynctime + SYNCTIME + MaxTransit
      BY <1>2, <2>1, <3>1 DEF StartOK, WaiterOK, q
    <3>3. DueFrom(q, now)
      BY <2>2, <2>4, <3>2
    <3>4. controlsynctime + quarter + MaxTransit < now
      BY <1>1, <2>2
    <3> QED
      BY <2>2, <2>3, <3>1, <3>3, <3>4, NothingLeft
  <2>7. Synchronised(c) => Heard(c)
    BY <1>1, <2>1, <2>6 DEF StartOK, HearingOK
  <2>8. HearingOK(c)'
    <3>1. CASE Synchronised(c)
      <4>1. Heard(c)'
        BY <1>1, <2>7, <3>1 DEF Heard
      <4> QED
        BY <1>1, <4>1 DEF HearingOK
    <3>2. CASE ~Synchronised(c)
      BY <1>1, <3>2 DEF HearingOK, Synchronised
    <3> QED
      BY <3>1, <3>2
  <2>9. SettleOK(c)' /\ WaiterOK(c)'
    BY <1>1, <1>2, <2>1 DEF StartOK, SettleOK, WaiterOK, Clock, Earlier, DueFrom
  <2> QED
    BY <2>8, <2>9 DEF StartOK
<1> QED
  BY <1>3, <1>4 DEF StartInv
-----------------------------------------------------------------------------
(* The start of the game: steps of a slave                                 *)

\* A step of slave c: what is to be shown of the start.
LEMMA SlaveStart ==
    ASSUME StartInv, NEW c \in Client, now' = now, UNCHANGED masterVars,
           \A d \in Client : d # c =>
              /\ sstate'[d] = sstate[d] /\ offset'[d] = offset[d] /\ ssendtime'[d] = ssendtime[d]
              /\ toSlave'[d] = toSlave[d] /\ scontrolsynctime'[d] = scontrolsynctime[d],
           StartOK(c)'
    PROVE  StartInv'
<1>1. /\ (StartSent' <=> StartSent) /\ controlsynctime' = controlsynctime /\ mstate' = mstate
      /\ \A d : Earlier(d)' <=> Earlier(d)
  BY SameStage DEF masterVars
<1>2. StartTimesOK'
  BY <1>1 DEF StartInv, StartTimesOK
<1>3. ASSUME NEW d \in Client, d # c
      PROVE  StartOK(d)'
  <2>1. StartOK(d)
    BY DEF StartInv
  <2>2. SettleOK(d)'
    BY <1>1, <1>3, <2>1 DEF StartOK, SettleOK, Clock
  <2>3. WaiterOK(d)'
    BY <1>1, <1>3, <2>1 DEF StartOK, WaiterOK, DueFrom
  <2>4. HearingOK(d)'
    BY <1>1, <1>3, <2>1 DEF StartOK, HearingOK, Heard, StillWaiting, DueBy, Synchronised
  <2> QED
    BY <2>2, <2>3, <2>4 DEF StartOK
<1> QED
  BY <1>2, <1>3 DEF StartInv

\* A slave whose turn is not over.
LEMMA InTurnStart ==
    ASSUME SyncInv, StartInv, NetworkAssumption, StartsFit, NEW c \in Client,
           now' = now, UNCHANGED masterVars, ~Earlier(c),
           sstate'[c] \notin {"flush", "started"},
           \A d \in Client : d # c =>
              /\ sstate'[d] = sstate[d] /\ offset'[d] = offset[d] /\ ssendtime'[d] = ssendtime[d]
              /\ toSlave'[d] = toSlave[d] /\ scontrolsynctime'[d] = scontrolsynctime[d]
    PROVE  StartInv'
<1>1. /\ (StartSent' <=> StartSent) /\ mstate' = mstate /\ (Earlier(c)' <=> Earlier(c))
  BY SameStage DEF masterVars
<1>2. ~StartSent /\ mstate \notin {"flush", "started"}
  BY DEF Earlier, Starting, StartSent
<1>3. StartOK(c)'
  BY <1>1, <1>2 DEF StartOK, SettleOK, WaiterOK, HearingOK
<1> QED
  BY <1>3, SlaveStart

\* A client begins to read soon enough.
LEMMA SlaveEndSettleStart ==
    ASSUME SyncInv, StartInv, NetworkAssumption, StartsFit, NEW c \in Client, SlaveEndSettle(c)
    PROVE  StartInv'
<1>1. /\ sstate[c] = "settle" /\ sstate' = [sstate EXCEPT ![c] = "waitstart"]
      /\ ssendtime' = [ssendtime EXCEPT ![c] = 0]
      /\ now' = now /\ UNCHANGED masterVars
      /\ UNCHANGED <<offset, scontrolsynctime, toSlave>>
  BY DEF SlaveEndSettle, SlaveAt, network
<1>2. /\ sstate'[c] = "waitstart"
      /\ \A d \in Client : d # c => sstate'[d] = sstate[d] /\ ssendtime'[d] = ssendtime[d]
  BY <1>1 DEF SyncInv, TypeOK
<1>3. /\ (StartSent' <=> StartSent) /\ controlsynctime' = controlsynctime /\ mstate' = mstate
      /\ (Earlier(c)' <=> Earlier(c))
  BY <1>1, SameStage DEF masterVars
<1>4. StartOK(c)
  BY DEF StartInv
<1>5. SettleOK(c)'
  BY <1>2 DEF SettleOK
<1>6. WaiterOK(c)'
  <2> SUFFICES ASSUME StartSent
               PROVE  now <= controlsynctime + SYNCTIME + MaxTransit
    BY <1>1, <1>3 DEF WaiterOK
  <2>1. Earlier(c)
    BY DEF Earlier, StartSent, Starting
  <2>2. /\ now \in Nat /\ controlsynctime \in Nat /\ MaxTransit \in Nat /\ SYNCTIME \in Nat
        /\ offset[c] \in Int /\ ssendtime[c] \in Int /\ Near(offset[c])
    BY <1>1, <2>1, StartFacts DEF Synchronised
  <2>3. ssendtime[c] <= controlsynctime /\ now + offset[c] <= ssendtime[c] + SYNCTIME
    BY <1>1, <1>4, <2>1 DEF StartOK, SettleOK, Clock
  <2> QED
    BY <2>2, <2>3 DEF Near
<1>7. HearingOK(c)'
  <2>1. ~Heard(c)
    BY <1>1 DEF Heard
  <2>2. mstate = "flush" => StillWaiting(c)'
    BY <1>1, <1>2, <1>3, <1>4, <2>1 DEF StartOK, HearingOK, StillWaiting, DueBy, Synchronised
  <2>3. mstate # "started"
    BY <1>1, <1>4, <2>1 DEF StartOK, HearingOK, Synchronised
  <2> QED
    BY <1>2, <1>3, <2>2, <2>3 DEF HearingOK
<1> QED
  BY <1>1, <1>2, <1>5, <1>6, <1>7, SlaveStart DEF StartOK

\* A client hears COM_START.
LEMMA SlaveHearsStartStart ==
    ASSUME SyncInv, StartInv, NetworkAssumption, StartsFit, NEW c \in Client, SlaveHearsStart(c)
    PROVE  StartInv'
<1> DEFINE q == toSlave[c]
           p == Head(q).pkt
<1>1. /\ sstate[c] = "waitstart" /\ SlaveReceives(c)
      /\ p.type = "start" =>
            /\ sstate' = [sstate EXCEPT ![c] = "flush"]
            /\ scontrolsynctime' = [scontrolsynctime EXCEPT ![c] = p.clocktime]
      /\ now' = now /\ UNCHANGED masterVars /\ UNCHANGED <<offset, ssendtime>>
  BY DEF SlaveHearsStart
<1>2. /\ q # <<>> /\ p = q[1].pkt /\ 1 \in 1 .. Len(q)
      /\ \A d \in Client : d # c => toSlave'[d] = toSlave[d]
  BY <1>1, SlaveReadFacts
<1>3. Earlier(c) /\ EarlierOK(c)
  <2>1. ~(Current(c) /\ CurrentOK(c) /\ mstate \in Turn)
    BY <1>1 DEF CurrentOK, HelloOK, MasterDrainOK, RestOK, PingPongOK, LeavingOK, Turn
  <2> QED
    BY <1>1, <2>1, Stages DEF LaterOK
<1> HIDE DEF q
<1>4. Starts(q)
  BY <1>1, <1>2, <1>3 DEF EarlierOK, q
<1>5. p.type = "start" /\ p.clocktime = controlsynctime
  BY <1>2, <1>4 DEF Starts, IsStart, StartPkt
<1> HIDE DEF p
<1>6. /\ sstate'[c] = "flush" /\ scontrolsynctime'[c] = controlsynctime
      /\ \A d \in Client : d # c => sstate'[d] = sstate[d] /\ scontrolsynctime'[d] = scontrolsynctime[d]
  BY <1>1, <1>5 DEF SyncInv, TypeOK
<1>7. controlsynctime' = controlsynctime
  BY <1>1 DEF masterVars
<1>8. Heard(c)'
  BY <1>6, <1>7 DEF Heard
<1>9. StartOK(c)'
  BY <1>6, <1>8 DEF StartOK, SettleOK, WaiterOK, HearingOK
<1> QED
  BY <1>1, <1>2, <1>6, <1>9, SlaveStart

\* A client starts the game.
LEMMA SlaveStartedStart ==
    ASSUME SyncInv, StartInv, NetworkAssumption, StartsFit, NEW c \in Client, SlaveStarted(c)
    PROVE  StartInv'
<1>1. /\ sstate[c] = "flush" /\ sstate' = [sstate EXCEPT ![c] = "started"]
      /\ now' = now /\ UNCHANGED masterVars
      /\ UNCHANGED <<offset, ssendtime, scontrolsynctime, toSlave>>
  BY DEF SlaveStarted, SlaveAt, network
<1>2. sstate'[c] = "started" /\ \A d \in Client : d # c => sstate'[d] = sstate[d]
  BY <1>1 DEF SyncInv, TypeOK
<1>3. Heard(c)
  BY <1>1 DEF StartInv, StartOK, HearingOK
<1>4. Heard(c)'
  BY <1>1, <1>2, <1>3 DEF Heard, masterVars
<1>5. StartOK(c)'
  BY <1>2, <1>4 DEF StartOK, SettleOK, WaiterOK, HearingOK
<1> QED
  BY <1>1, <1>2, <1>5, SlaveStart

\* Packets thrown away: none of COM_START once it has been sent twice.
LEMMA SlaveDiscardsStart ==
    ASSUME SyncInv, StartInv, NetworkAssumption, StartsFit, NEW c \in Client, SlaveDiscards(c)
    PROVE  StartInv'
<1>1. /\ SlaveDiscarding(c) /\ sstate[c] \in {"drain", "flush", "settle"} /\ SlaveReceives(c)
      /\ now' = now /\ UNCHANGED masterVars
      /\ UNCHANGED <<sstate, offset, ssendtime, scontrolsynctime>>
  BY DEF SlaveDiscards, SlaveDiscarding, slaveVars
<1>2. \A d \in Client : d # c => toSlave'[d] = toSlave[d]
  BY <1>1, SlaveReadFacts
<1>3. /\ (StartSent' <=> StartSent) /\ controlsynctime' = controlsynctime /\ mstate' = mstate
      /\ (Earlier(c)' <=> Earlier(c))
  BY <1>1, SameStage DEF masterVars
<1>4. StartOK(c)
  BY DEF StartInv
<1>5. SettleOK(c)' /\ WaiterOK(c)'
  BY <1>1, <1>3, <1>4 DEF StartOK, SettleOK, WaiterOK, Clock
<1>6. CASE Heard(c)
  <2>1. Heard(c)'
    BY <1>1, <1>3, <1>6 DEF Heard
  <2>2. HearingOK(c)'
    BY <2>1 DEF HearingOK
  <2> QED
    BY <1>1, <1>2, <1>5, <2>2, SlaveStart DEF StartOK
<1>7. CASE ~Heard(c)
  <2>1. sstate[c] \notin {"flush", "started"}
    BY <1>4, <1>7 DEF StartOK, HearingOK
  <2>2. mstate \notin {"flush", "started"}
    <3> SUFFICES ASSUME mstate \in {"flush", "started"}
                 PROVE  FALSE
      OBVIOUS
    <3>1. Earlier(c) /\ StartSent
      BY DEF Earlier, Starting, StartSent
    <3>2. sstate[c] = "settle" /\ Synchronised(c)
      BY <1>1, <2>1, <3>1, StartFacts DEF Synchronised
    <3>3. mstate = "flush"
      BY <1>4, <1>7, <3>2 DEF StartOK, HearingOK
    <3>4. /\ now \in Nat /\ controlsynctime \in Nat /\ MaxTransit \in Nat
          /\ MaxTransit <= VBLCOUNTER \div 4 /\ VBLCOUNTER \div 4 \in Nat
          /\ offset[c] \in Int /\ ssendtime[c] \in Int /\ Near(offset[c])
      BY <3>1, <3>2, StartFacts
    <3>5. ssendtime[c] <= controlsynctime /\ now + offset[c] < ssendtime[c]
      BY <1>1, <1>4, <3>1, <3>2 DEF StartOK, SettleOK, SlaveDiscarding, Clock
    <3>6. controlsynctime + VBLCOUNTER \div 4 <= now
      BY <3>3 DEF StartInv, StartTimesOK
    <3> QED
      BY <3>4, <3>5, <3>6 DEF Near
  <2>3. HearingOK(c)'
    BY <1>1, <1>3, <2>1, <2>2 DEF HearingOK
  <2> QED
    BY <1>1, <1>2, <1>5, <2>3, SlaveStart DEF StartOK
<1> QED
  BY <1>6, <1>7
-----------------------------------------------------------------------------
(* The start of the game: time, and the invariant                          *)

\* A tic passes.
LEMMA TickStart == ASSUME SyncInv, StartInv, NetworkAssumption, StartsFit, Tick PROVE StartInv'
<1>1. /\ now' = now + 1 /\ now < MasterDeadline
      /\ \A c \in Client : Clock(c) < SlaveDeadline(c) /\ ~(SlaveReads(c) /\ Waiting(toSlave[c]))
      /\ UNCHANGED masterVars
      /\ UNCHANGED <<mstate, controlsynctime, sstate, offset, ssendtime, scontrolsynctime, toSlave>>
  BY DEF Tick, network, slaveVars, masterVars
<1>2. /\ now \in Nat /\ controlsynctime \in Nat /\ SYNCTIME \in Nat /\ MaxTransit \in Nat
      /\ VBLCOUNTER \div 4 \in Nat /\ VBLCOUNTER \in Nat
      /\ \A c \in Client : offset[c] \in Int /\ ssendtime[c] \in Int
  BY StartFacts
<1>3. StartTimesOK'
  <2>1. /\ StartSent => controlsynctime <= now
        /\ mstate = "startagain" => now < controlsynctime + VBLCOUNTER \div 4
        /\ mstate = "flush" => /\ controlsynctime + VBLCOUNTER \div 4 <= now
                               /\ now < controlsynctime + VBLCOUNTER
    BY <1>1 DEF StartInv, StartTimesOK, MasterDeadline
  <2> DEFINE quarter == VBLCOUNTER \div 4
  <2> HIDE DEF quarter
  <2>2. /\ StartSent => controlsynctime <= now + 1
        /\ mstate = "startagain" => now + 1 <= controlsynctime + quarter
        /\ mstate = "flush" => /\ controlsynctime + quarter <= now + 1
                               /\ now + 1 <= controlsynctime + VBLCOUNTER
    BY <1>2, <2>1 DEF quarter
  <2>3. StartSent' <=> StartSent
    BY <1>1 DEF StartSent
  <2> QED
    BY <1>1, <2>2, <2>3 DEF StartTimesOK, quarter
<1>4. ASSUME NEW c \in Client
      PROVE  StartOK(c)'
  <2>1. StartOK(c)
    BY DEF StartInv
  <2>2. (StartSent' <=> StartSent) /\ (Earlier(c)' <=> Earlier(c))
    BY <1>1, SameStage
  <2>3. SettleOK(c)'
    <3> SUFFICES ASSUME Earlier(c), sstate[c] = "settle"
                 PROVE  /\ ssendtime[c] <= (IF StartSent THEN controlsynctime ELSE now + 1)
                        /\ now + 1 + offset[c] <= ssendtime[c] + SYNCTIME
      BY <1>1, <2>2 DEF SettleOK, Clock
    <3>1. ssendtime[c] <= (IF StartSent THEN controlsynctime ELSE now)
      BY <2>1 DEF StartOK, SettleOK
    <3>2. now + offset[c] < ssendtime[c] + SYNCTIME
      BY <1>1 DEF Clock, SlaveDeadline
    <3> QED
      BY <1>2, <3>1, <3>2
  <2>4. WaiterOK(c)'
    <3> SUFFICES ASSUME sstate[c] = "waitstart"
                 PROVE  DueFrom(toSlave[c], now + 1)
      BY <1>1 DEF WaiterOK, DueFrom
    <3>1. ~Waiting(toSlave[c])
      BY <1>1 DEF SlaveReads
    <3>2. toSlave[c] \in Seq(Msg(SyncPacket \cup StartPacket)) /\ InTimeOrder(toSlave[c])
      BY TypeFacts, Stages DEF SyncInv, QueueOK
    <3> QED
      BY <1>2, <3>1, <3>2, NothingWaits
  <2>5. HearingOK(c)'
    BY <1>1, <2>1 DEF StartOK, HearingOK, Heard, StillWaiting, DueBy, Synchronised
  <2> QED
    BY <2>3, <2>4, <2>5 DEF StartOK
<1> QED
  BY <1>3, <1>4 DEF StartInv

\* Every step of a slave.
LEMMA SlaveStepStart ==
    ASSUME SyncInv, StartInv, NetworkAssumption, StartsFit, NEW c \in Client, Slave(c)
    PROVE  StartInv'
<1> DEFINE Others == \A d \in Client : d # c =>
              /\ sstate'[d] = sstate[d] /\ offset'[d] = offset[d] /\ ssendtime'[d] = ssendtime[d]
              /\ toSlave'[d] = toSlave[d] /\ scontrolsynctime'[d] = scontrolsynctime[d]
<1>0. TypeOK
  BY DEF SyncInv
<1>1. CASE Enter(c)
  <2>1. /\ sstate[c] = "loading" /\ sstate'[c] = "hello" /\ Others /\ now' = now /\ UNCHANGED masterVars
    BY <1>0, <1>1 DEF Enter, network, TypeOK
  <2>2. ~Earlier(c)
    BY <2>1, StartFacts DEF Synchronised
  <2> QED
    BY <2>1, <2>2, InTurnStart
<1>2. CASE Greeted(c)
  <2>1. sstate[c] = "hello" /\ SlaveReceives(c) /\ now' = now /\ UNCHANGED masterVars
    BY <1>2 DEF Greeted
  <2>2. \A d \in Client : d # c => toSlave'[d] = toSlave[d]
    BY <2>1, SlaveReadFacts
  <2>3. /\ \/ sstate' = [sstate EXCEPT ![c] = "drain"]
           \/ sstate' = sstate
        /\ UNCHANGED <<offset, ssendtime, scontrolsynctime>>
    BY <1>2 DEF Greeted
  <2>4. sstate'[c] \in {"drain", "hello"} /\ Others
    BY <1>0, <2>1, <2>2, <2>3 DEF TypeOK
  <2>5. ~Earlier(c)
    BY <2>1, StartFacts DEF Synchronised
  <2> QED
    BY <2>1, <2>4, <2>5, InTurnStart
<1>3. CASE SlaveDiscards(c)
  BY <1>3, SlaveDiscardsStart
<1>4. CASE SlaveEndDrain(c)
  <2>1. /\ sstate[c] = "drain" /\ sstate'[c] = "phases" /\ Others /\ now' = now /\ UNCHANGED masterVars
    BY <1>0, <1>4 DEF SlaveEndDrain, SlaveAt, network, TypeOK
  <2>2. ~Earlier(c)
    BY <2>1, StartFacts DEF Synchronised
  <2> QED
    BY <2>1, <2>2, InTurnStart
<1>5. CASE SlavePhase(c)
  <2>1. /\ sstate[c] = "phases" /\ now' = now /\ UNCHANGED masterVars
        /\ UNCHANGED <<sstate, scontrolsynctime>>
        /\ \A d \in Client : d # c => toSlave'[d] = toSlave[d]
    BY <1>5, PhaseRead
  <2>2. StartOK(c)'
    BY <2>1 DEF StartOK, SettleOK, WaiterOK, HearingOK, Synchronised
  <2>3. /\ \/ offset' = offset
           \/ \E o : offset' = [offset EXCEPT ![c] = o]
        /\ \/ ssendtime' = ssendtime
           \/ \E o : ssendtime' = [ssendtime EXCEPT ![c] = o]
    BY <1>5 DEF SlavePhase
  <2>4. Others
    BY <1>0, <2>1, <2>3 DEF TypeOK
  <2> QED
    BY <2>1, <2>2, <2>4, SlaveStart
<1>6. CASE SlaveLeaveSync(c)
  <2>1. /\ sstate[c] = "phases" /\ sstate'[c] = "settle" /\ Others /\ now' = now /\ UNCHANGED masterVars
    BY <1>0, <1>6 DEF SlaveLeaveSync, SlaveAt, network, TypeOK
  <2>2. sdone[c]
    BY <1>6, TypeFacts DEF SlaveLeaveSync, SlaveAt, SlaveDeadline, Clock, SyncInv, TypeOK
  <2>3. ~Earlier(c)
    BY <2>1, <2>2, StartFacts DEF Synchronised
  <2> QED
    BY <2>1, <2>3, InTurnStart
<1>7. CASE SlaveEndSettle(c)
  BY <1>7, SlaveEndSettleStart
<1>8. CASE SlaveHearsStart(c)
  BY <1>8, SlaveHearsStartStart
<1>9. CASE SlaveStarted(c)
  BY <1>9, SlaveStartedStart
<1> QED
  BY <1>1, <1>2, <1>3, <1>4, <1>5, <1>6, <1>7, <1>8, <1>9 DEF Slave

\* Every step of the master.
LEMMA MasterStepStart ==
    ASSUME SyncInv, StartInv, NetworkAssumption, StartsFit, Master
    PROVE  StartInv'
<1>1. CASE BeginSync \/ SendHello \/ HelloAnswered \/ EndDrain \/ EndRest \/ SendPhase
           \/ PhaseAnswered \/ LeaveSync
  <2>1. /\ mstate \in Turn \cup {"begin"} /\ mstate' \in Turn /\ client' = client
        /\ now' = now /\ UNCHANGED slaveVars
    BY <1>1 DEF BeginSync, SendHello, HelloAnswered, EndDrain, EndRest, SendPhase, PhaseAnswered,
                LeaveSync, MasterAt, Turn
  <2>2. ~StartSent /\ ~StartSent' /\ ~Starting /\ ~Starting'
    BY <2>1 DEF Turn, StartSent, Starting
  <2>3. \A c \in Client : Earlier(c)' => Earlier(c)
    BY <2>1, <2>2 DEF Earlier
  <2> QED
    BY <2>1, <2>2, <2>3, TurnStart
<1>2. CASE MasterDiscards
  <2>1. MasterReceives /\ mstate \in {"drain", "flush"}
        /\ UNCHANGED <<now, masterVars, slaveVars, toSlave>>
    BY <1>2 DEF MasterDiscards
  <2>2. mstate = "drain"
    BY <2>1, MasterReadFacts DEF SyncInv, MasterOK, Starting
  <2>3. ~StartSent /\ ~StartSent' /\ ~Starting /\ ~Starting'
    BY <2>1, <2>2 DEF StartSent, Starting, masterVars
  <2>4. \A c \in Client : Earlier(c)' => Earlier(c)
    BY <2>1, SameStage
  <2> QED
    BY <2>1, <2>3, <2>4, TurnStart
<1>3. CASE EndSettle
  BY <1>3, EndSettleStart
<1>4. CASE SendStart
  BY <1>4, SendStartStart
<1>5. CASE SendStartAgain
  BY <1>5, SendStartAgainStart
<1>6. CASE MasterStarted
  BY <1>6, MasterStartedStart
<1> QED
  BY <1>1, <1>2, <1>3, <1>4, <1>5, <1>6 DEF Master

\* A step in which nothing happens.
LEMMA StopStart == ASSUME StartInv, UNCHANGED vars PROVE StartInv'
<1>1. UNCHANGED masterVars /\ UNCHANGED slaveVars /\ now' = now /\ toSlave' = toSlave
  BY DEF vars, network
<1>2. UNCHANGED <<sstate, offset, ssendtime, scontrolsynctime>>
  BY <1>1 DEF slaveVars
<1>3. ASSUME NEW c \in Client
      PROVE  StartOK(c)'
  <2>1. StartOK(c)
    BY DEF StartInv
  <2>2. /\ (StartSent' <=> StartSent) /\ controlsynctime' = controlsynctime /\ mstate' = mstate
        /\ (Earlier(c)' <=> Earlier(c))
    BY <1>1, SameStage DEF masterVars
  <2> QED
    BY <1>1, <1>2, <2>1, <2>2 DEF StartOK, SettleOK, WaiterOK, HearingOK, Heard, StillWaiting, Clock,
                                  DueBy, DueFrom, Synchronised
<1>4. StartTimesOK'
  BY <1>1, SameStage DEF StartInv, StartTimesOK, masterVars, StartSent
<1> QED
  BY <1>3, <1>4 DEF StartInv

\* COM_START reaches every client in time.
THEOREM StartInvariant == ASSUME NetworkAssumption, StartsFit PROVE Spec => []StartInv
<1>1. Init => StartInv
  <2> SUFFICES ASSUME Init
               PROVE  StartInv
    OBVIOUS
  <2>1. mstate = "begin" /\ ~StartSent /\ \A c \in Client : sstate[c] = "loading"
    BY DEF Init, StartSent
  <2> QED
    BY <2>1 DEF StartInv, StartTimesOK, StartOK, SettleOK, WaiterOK, HearingOK
<1>2. SyncInv /\ StartInv /\ [Next]_vars => StartInv'
  <2> SUFFICES ASSUME SyncInv, StartInv, [Next]_vars
               PROVE  StartInv'
    OBVIOUS
  <2>1. CASE Master
    BY <2>1, MasterStepStart
  <2>2. CASE Tick
    BY <2>2, TickStart
  <2>3. CASE Stopped \/ UNCHANGED vars
    BY <2>3, StopStart DEF Stopped
  <2>4. CASE \E c \in Client : Slave(c)
    BY <2>4, SlaveStepStart
  <2> QED
    BY <2>1, <2>2, <2>3, <2>4 DEF Next
<1> QED
  BY <1>1, <1>2, SyncInvariant, PTL DEF Spec

\* Only a client whose SYNC_PHASE5 was lost is still waiting when the master starts
\* the game: of the two COM_START that ComSetTime sends, a quarter of a second apart,
\* the others always read one.
THEOREM NobodyIsLate == ASSUME NetworkAssumption, StartsFit PROVE Spec => []NobodyLate
<1>1. SyncInv /\ LeftInv /\ StartInv => NobodyLate
  <2> SUFFICES ASSUME SyncInv, LeftInv, StartInv, mstate = "started", NEW c \in Client \ missed
               PROVE  sstate[c] \in {"flush", "started"} /\ scontrolsynctime[c] = controlsynctime
    BY DEF NobodyLate
  <2>1. Synchronised(c)
    BY OthersSynchronised DEF Starting
  <2> QED
    BY <2>1 DEF StartInv, StartOK, HearingOK, Heard
<1> QED
  BY <1>1, SyncInvariant, LeftInvariant, StartInvariant, PTL
-----------------------------------------------------------------------------
(* How long it takes: steps of the master                                  *)

\* What the steps need of the times.
LEMMA PaceFacts ==
    ASSUME SyncInv, NetworkAssumption
    PROVE  /\ now \in Nat /\ sendtime \in Int /\ since \in Nat /\ controlsynctime \in Nat
           /\ client \in Client /\ faults \in Nat /\ faults <= MaxFaults
           /\ MaxTransit \in Nat /\ SYNCTIME \in Nat /\ 2 * MaxTransit < SYNCTIME
           /\ VBLCOUNTER \in Nat /\ LastEntry \in Nat /\ Late \in Nat
           /\ TurnTime \in Nat /\ TurnTime = 3 * SYNCTIME + 10 * MaxTransit
           /\ FaultTime \in Nat /\ FaultTime >= Late /\ FaultTime >= 2 * SYNCTIME + MaxTransit
           /\ TurnBegin \in Int /\ LastEntry <= TurnBegin
<1>1. /\ now \in Nat /\ sendtime \in Int /\ since \in Nat /\ controlsynctime \in Nat
      /\ client \in Client /\ faults \in 0 .. MaxFaults
  BY DEF SyncInv, TypeOK
<1>2. /\ MaxTransit \in Nat /\ SYNCTIME \in Nat /\ 2 * MaxTransit < SYNCTIME
      /\ VBLCOUNTER \in Nat /\ LastEntry \in Nat /\ Late \in Nat /\ MaxFaults \in Nat /\ numplayers \in Nat
  BY TransitFacts, RottSyncAssumption DEF NetworkAssumption
<1>3. /\ TurnTime \in Nat /\ TurnTime = 3 * SYNCTIME + 10 * MaxTransit
      /\ FaultTime \in Nat /\ FaultTime >= Late /\ FaultTime >= 2 * SYNCTIME + MaxTransit
  BY <1>2 DEF TurnTime, FaultTime
<1>4. client \in Nat /\ faults \in Nat /\ faults <= MaxFaults
  BY <1>1, <1>2 DEF Client
<1>5. \A a, b \in Nat : a * b \in Nat
  OBVIOUS
<1>6. client * TurnTime \in Nat /\ faults * FaultTime \in Nat
  BY <1>3, <1>4, <1>5
<1>7. TurnBegin \in Int /\ LastEntry <= TurnBegin
  BY <1>2, <1>6 DEF TurnBegin
<1> QED
  BY <1>1, <1>2, <1>3, <1>4, <1>7

\* A fault and the next client move the time when the turn begins at the latest.
LEMMA TurnBeginMoves ==
    ASSUME SyncInv, NetworkAssumption
    PROVE  /\ client' = client /\ faults' = faults => TurnBegin' = TurnBegin
           /\ client' = client /\ faults' = faults + 1 => TurnBegin' = TurnBegin + FaultTime
           /\ client' = client + 1 /\ faults' = faults => TurnBegin' = TurnBegin + TurnTime
<1>1. /\ client \in Nat /\ faults \in Nat /\ TurnTime \in Nat /\ FaultTime \in Nat /\ LastEntry \in Nat
      /\ client \in Int
  BY PaceFacts, RottSyncAssumption DEF Client
<1>2. \A a, b \in Nat : (a + 1) * b = a * b + b /\ a * b \in Nat
  OBVIOUS
<1>3. /\ (client + 1) * TurnTime = client * TurnTime + TurnTime /\ client * TurnTime \in Nat
      /\ (faults + 1) * FaultTime = faults * FaultTime + FaultTime /\ faults * FaultTime \in Nat
  BY <1>1, <1>2
<1>4. TurnBegin' = LastEntry + client' * TurnTime + faults' * FaultTime
  BY DEF TurnBegin
<1>5. CASE client' = client /\ faults' = faults
  <2>1. TurnBegin' = LastEntry + client * TurnTime + faults * FaultTime
    BY <1>4, <1>5
  <2> QED
    BY <1>1, <1>5, <2>1 DEF TurnBegin
<1>6. CASE client' = client /\ faults' = faults + 1
  <2>1. TurnBegin' = LastEntry + client * TurnTime + (faults + 1) * FaultTime
    BY <1>4, <1>6
  <2> QED
    BY <1>1, <1>3, <1>6, <2>1 DEF TurnBegin
<1>7. CASE client' = client + 1 /\ faults' = faults
  <2>1. TurnBegin' = LastEntry + (client + 1) * TurnTime + faults * FaultTime
    BY <1>4, <1>7
  <2> QED
    BY <1>1, <1>3, <1>7, <2>1 DEF TurnBegin
<1> QED
  BY <1>1, <1>5, <1>6, <1>7

\* A step of the master: no client changes what it does.
LEMMA MasterPace ==
    ASSUME SyncInv, NetworkAssumption, StartsFit, PaceInv, now' = now, UNCHANGED slaveVars,
           StartSent => controlsynctime' = controlsynctime, PaceOK'
    PROVE  PaceInv'
<1> SUFFICES ASSUME NEW c \in Client, sstate'[c] = "flush"
             PROVE  FlushPace(c)'
  BY DEF PaceInv, FlushPace
<1>1. sstate[c] = "flush"
  BY DEF slaveVars
<1>2. StartSent /\ FlushPace(c)
  BY <1>1, StartFacts DEF PaceInv
<1> QED
  BY <1>1, <1>2 DEF FlushPace

\* The first hello is sent at once.
LEMMA BeginSyncPace ==
    ASSUME SyncInv, PaceInv, NetworkAssumption, StartsFit, BeginSync PROVE PaceInv'
<1>1. /\ mstate = "begin" /\ mstate' = "hello" /\ sendtime' = now - SYNCTIME
      /\ UNCHANGED <<now, client, controlsynctime, slaveVars, sstate, offset, ssince, toMaster, faults>>
  BY DEF BeginSync, MasterAt, slaveVars
<1>2. Later(client) /\ client \in Client /\ toMaster = <<>>
  BY <1>1, PaceFacts DEF Later, Starting, SyncInv, MasterOK
<1>3. sstate[client] \in {"loading", "hello"}
  BY <1>2 DEF SyncInv, ClientOK, LaterOK
<1>4. TurnBegin' = TurnBegin /\ now <= TurnBegin
  BY <1>1, TurnBeginMoves DEF PaceInv, PaceOK
<1>5. now \in Nat /\ MaxTransit \in Nat /\ SYNCTIME \in Nat /\ TurnBegin \in Int
  BY PaceFacts
<1>6. HelloPace'
  BY <1>1, <1>2, <1>3, <1>4, <1>5 DEF HelloPace, HelloComes
<1>7. PaceOK'
  BY <1>1, <1>6 DEF PaceOK, StartSent
<1>8. ~StartSent
  BY <1>1 DEF StartSent
<1> QED
  BY <1>1, <1>7, <1>8, MasterPace

\* What is on its way to the master is in time, or nothing is and a hello comes
\* or is sent: only the last changes when the master or the network does something.
LEMMA HelloPaceKept ==
    ASSUME SyncInv, NetworkAssumption, HelloPace,
           UNCHANGED <<now, client, sstate, offset, ssince, toMaster>>,
           TurnBegin' >= TurnBegin, TurnBegin' \in Int, now <= sendtime' + SYNCTIME,
           HelloComes => HelloComes'
    PROVE  HelloPace'
<1>1. /\ now \in Nat /\ MaxTransit \in Nat /\ TurnBegin \in Int /\ FaultTime \in Nat /\ client \in Client
  BY PaceFacts
<1>2. toMaster # <<>> => toMaster[1].due \in Nat
  <2>1. toMaster # <<>> => 1 \in 1 .. Len(toMaster)
    BY TypeFacts, EmptySeq, LenProperties DEF SyncInv
  <2> QED
    BY <2>1, TypeFacts, DueIsTime DEF SyncInv
<1>3. offset[client] \in Int /\ ssince[client] \in Int
  BY <1>1, TypeFacts DEF SyncInv
<1> DEFINE d == ssince[client] - offset[client]
<1>4. Answered(client) = d /\ ssince'[client'] - offset'[client'] = d /\ d \in Int
  BY <1>3 DEF Answered
<1> HIDE DEF d
<1>5. toMaster' # <<>> => toMaster'[1].due <= TurnBegin' + 2 * MaxTransit
  BY <1>1, <1>2 DEF HelloPace
<1>6. ASSUME toMaster' = <<>>, sstate'[client'] = "drain"
      PROVE  (ssince'[client'] - offset'[client']) + FaultTime <= TurnBegin' + MaxTransit
  <2>1. d + FaultTime <= TurnBegin + MaxTransit
    BY <1>4, <1>6 DEF HelloPace
  <2> QED
    BY <1>1, <1>4, <2>1
<1>7. ASSUME toMaster' = <<>>, sstate'[client'] # "drain"
      PROVE  now' <= TurnBegin' + MaxTransit /\ HelloComes'
  <2>1. toMaster = <<>> /\ sstate[client] # "drain" /\ now' = now
    BY <1>7
  <2>2. now <= TurnBegin + MaxTransit /\ HelloComes
    BY <2>1 DEF HelloPace
  <2>3. now' <= TurnBegin' + MaxTransit
    <3>1. now' = now /\ now <= TurnBegin + MaxTransit
      BY <2>1, <2>2
    <3>2. TurnBegin <= TurnBegin' /\ TurnBegin' \in Int
      OBVIOUS
    <3> DEFINE a == now  b == TurnBegin  e == TurnBegin'
    <3>3. a \in Int /\ b \in Int /\ e \in Int /\ MaxTransit \in Int /\ a <= b + MaxTransit /\ b <= e
      BY <1>1, <3>1, <3>2
    <3> HIDE DEF a, b, e
    <3>4. a <= e + MaxTransit
      BY <3>3
    <3> QED
      BY <3>1, <3>4 DEF a, e
  <2>4. HelloComes'
    BY <2>2
  <2> QED
    BY <2>3, <2>4
<1> QED
  BY <1>5, <1>6, <1>7 DEF HelloPace, Answered

\* A hello is sent: when it is lost, what was to happen happens later by the
\* cost of a fault.
LEMMA SendHelloPace ==
    ASSUME SyncInv, PaceInv, NetworkAssumption, StartsFit, SendHello PROVE PaceInv'
<1> DEFINE c == client
           q == toSlave[c]
           r == toSlave'[c]
<1>1. /\ mstate = "hello" /\ mstate' = "hello" /\ mstate \in Turn
      /\ now >= sendtime + SYNCTIME /\ SendToSlave(pkt)
      /\ UNCHANGED <<now, client, controlsynctime, slaveVars, sstate, offset, ssince, toMaster>>
  BY DEF SendHello, MasterAt, MasterDeadline, Turn, slaveVars
<1>2. /\ c \in Client /\ pkt = FreshPkt /\ pkt \in SyncPacket /\ QueueOK(c) /\ TypeOK
      /\ q \in Seq(Msg(SyncPacket \cup StartPacket))
  BY <1>1, InTurn, FreshPktType DEF CurrentOK, SyncInv
<1>3. /\ now \in Nat /\ MaxTransit \in Nat /\ SYNCTIME \in Nat /\ TurnBegin \in Int /\ sendtime \in Int
      /\ FaultTime \in Nat /\ FaultTime >= 2 * SYNCTIME + MaxTransit
  BY PaceFacts
<1>4. /\ sendtime' = now /\ toSlave' \in [Client -> Seq(Msg(SyncPacket \cup StartPacket))]
      /\ \/ r = q /\ faults' = faults + 1
         \/ Extends(r, q, pkt, MaxTransit) /\ faults' = faults
  BY <1>1, <1>2, ToSlaveFacts DEF QueueOK, NetworkAssumption
<1>5. /\ faults' = faults => TurnBegin' = TurnBegin
      /\ faults' = faults + 1 => TurnBegin' = TurnBegin + FaultTime
  BY <1>1, TurnBeginMoves
<1>6. HelloPace /\ now = sendtime + SYNCTIME
  BY <1>1, <1>3 DEF PaceInv, PaceOK, HelloPace
<1>7. r \in Seq(Msg(SyncPacket \cup StartPacket)) /\ Len(q) \in Nat
  BY <1>2, <1>4, LenProperties
<1>8. \A i \in 1 .. Len(q) : q[i].due \in Nat
  BY <1>2, DueIsTime
<1>9. /\ HelloDue <=> \E i \in 1 .. Len(q) : IsHello(q[i].pkt) /\ q[i].due <= TurnBegin + MaxTransit
      /\ HelloDue' <=> \E i \in 1 .. Len(r) : IsHello(r[i].pkt) /\ r[i].due <= TurnBegin' + MaxTransit
  BY <1>1 DEF HelloDue, IsHello, IsSync
<1>10. TurnBegin' >= TurnBegin /\ TurnBegin' \in Int
  BY <1>3, <1>4, <1>5
<1> HIDE DEF q, r
<1>11. HelloDue => HelloDue'
  <2>1. Len(r) \in Nat /\ \A i \in 1 .. Len(q) : i \in 1 .. Len(r) /\ r[i] = q[i]
    BY <1>4, <1>7 DEF Extends
  <2> QED
    BY <1>3, <1>8, <1>9, <1>10, <2>1
<1>12. ASSUME r = q, faults' = faults + 1, sendtime + SYNCTIME <= TurnBegin
       PROVE  sendtime' + SYNCTIME <= TurnBegin'
  <2>1. TurnBegin' = TurnBegin + FaultTime
    BY <1>5, <1>12
  <2> QED
    BY <1>3, <1>4, <1>6, <1>12, <2>1
<1>13. ASSUME Extends(r, q, pkt, MaxTransit), faults' = faults, sendtime + SYNCTIME <= TurnBegin
       PROVE  HelloDue'
  <2>1. TurnBegin' = TurnBegin
    BY <1>5, <1>13
  <2>2. DueBy(q, now + MaxTransit)
    BY <1>2 DEF QueueOK, q
  <2>3. DueBy(r, now + MaxTransit)
    BY <1>2, <1>3, <1>7, <1>13, <2>2, ExtendsFacts
  <2>4. Len(r) \in 1 .. Len(r) /\ r[Len(r)].pkt = pkt
    BY <1>7, <1>13 DEF Extends
  <2>5. r[Len(r)].due <= now + MaxTransit /\ r[Len(r)].due \in Nat
    BY <1>7, <2>3, <2>4, DueIsTime DEF DueBy
  <2>6. IsHello(pkt)
    BY <1>2, FreshPktType
  <2> QED
    BY <1>3, <1>6, <1>9, <1>13, <2>1, <2>4, <2>5, <2>6
<1>14. HelloComes => HelloComes'
  BY <1>4, <1>11, <1>12, <1>13 DEF HelloComes
<1>15. HelloPace'
  BY <1>1, <1>3, <1>4, <1>6, <1>10, <1>14, HelloPaceKept
<1>16. PaceOK' /\ ~StartSent
  BY <1>1, <1>15 DEF PaceOK, StartSent
<1> QED
  BY <1>1, <1>16, MasterPace

\* The first answer has come.
LEMMA HelloAnsweredPace ==
    ASSUME SyncInv, PaceInv, NetworkAssumption, StartsFit, HelloAnswered PROVE PaceInv'
<1>1. /\ mstate = "hello" /\ MasterReceives /\ mstate \in Turn
      /\ UNCHANGED <<now, client, sendtime, controlsynctime, slaveVars, faults>>
      /\ LET answer == Head(toMaster).pkt IN
         IF answer.phase = SYNC_PHASE0
         THEN mstate' = "drain" /\ since' = now ELSE UNCHANGED <<mstate, since>>
  BY DEF HelloAnswered, Turn
<1>2. toMaster # <<>> /\ Head(toMaster) = toMaster[1] /\ toMaster[1].due = now /\ 1 \in 1 .. Len(toMaster)
  BY <1>1, MasterReadFacts
<1>3. HelloOK(client)
  BY <1>1, InTurn DEF CurrentOK
<1>4. mstate' = "drain" /\ since' = now
  BY <1>1, <1>2, <1>3 DEF HelloOK, Hellos, IsHello, IsSync
<1>5. now <= TurnBegin + 2 * MaxTransit
  BY <1>1, <1>2 DEF PaceInv, PaceOK, HelloPace
<1>6. TurnBegin' = TurnBegin
  BY <1>1, TurnBeginMoves
<1>7. PaceOK' /\ ~StartSent
  BY <1>1, <1>4, <1>5, <1>6 DEF PaceOK, StartSent
<1> QED
  BY <1>1, <1>7, MasterPace

\* The master throws a packet away.
LEMMA MasterDiscardsPace ==
    ASSUME SyncInv, PaceInv, NetworkAssumption, StartsFit, MasterDiscards PROVE PaceInv'
<1>1. /\ mstate \in {"drain", "flush"}
      /\ UNCHANGED <<now, masterVars, slaveVars, faults>>
  BY DEF MasterDiscards
<1>2. UNCHANGED <<mstate, client, since, sendtime, controlsynctime>>
  BY <1>1 DEF masterVars
<1>3. TurnBegin' = TurnBegin /\ PaceOK
  BY <1>1, <1>2, TurnBeginMoves DEF PaceInv
<1>4. PaceOK'
  BY <1>1, <1>2, <1>3 DEF PaceOK, StartSent
<1> QED
  BY <1>1, <1>2, <1>4, MasterPace

\* The master stops throwing packets away.
LEMMA EndDrainPace ==
    ASSUME SyncInv, PaceInv, NetworkAssumption, StartsFit, EndDrain PROVE PaceInv'
<1>1. /\ mstate = "drain" /\ mstate' = "rest" /\ mstate \in Turn /\ since' = now
      /\ UNCHANGED <<now, client, sendtime, controlsynctime, slaveVars, faults>>
  BY DEF EndDrain, MasterAt, Turn, network
<1>2. now <= since + SYNCTIME
  BY <1>1, InTurn DEF CurrentOK, MasterDrainOK
<1>3. TurnBegin' = TurnBegin /\ since <= TurnBegin + 2 * MaxTransit
  BY <1>1, TurnBeginMoves DEF PaceInv, PaceOK
<1>4. /\ now \in Nat /\ since \in Nat /\ SYNCTIME \in Nat /\ MaxTransit \in Nat /\ TurnBegin \in Int
  BY PaceFacts
<1>5. PaceOK' /\ ~StartSent
  BY <1>1, <1>2, <1>3, <1>4 DEF PaceOK, StartSent
<1> QED
  BY <1>1, <1>5, MasterPace

\* The master enters the phases.
LEMMA EndRestPace ==
    ASSUME SyncInv, PaceInv, NetworkAssumption, StartsFit, EndRest PROVE PaceInv'
<1>1. /\ mstate = "rest" /\ mstate' = "phases" /\ mstate \in Turn /\ ~done'
      /\ pkt' = [pkt EXCEPT !.phase = SYNC_PHASE1] /\ sendtime' = now - SYNCTIME
      /\ UNCHANGED <<now, client, controlsynctime, slaveVars, faults>>
  BY DEF EndRest, MasterAt, Turn, network
<1>2. now <= since + SYNCTIME /\ pkt = FreshPkt
  BY <1>1, InTurn DEF CurrentOK, RestOK
<1>3. TurnBegin' = TurnBegin /\ since <= TurnBegin + SYNCTIME + 2 * MaxTransit
  BY <1>1, TurnBeginMoves DEF PaceInv, PaceOK
<1>4. /\ now \in Nat /\ since \in Nat /\ SYNCTIME \in Nat /\ MaxTransit \in Nat /\ TurnBegin \in Int
  BY PaceFacts
<1>5. pkt'.phase = 0
  BY <1>1, <1>2 DEF FreshPkt, SYNC_PHASE1
<1>6. PhasePace'
  BY <1>1, <1>2, <1>3, <1>4, <1>5 DEF PhasePace, PhaseEnd
<1>7. PaceOK' /\ ~StartSent
  BY <1>1, <1>6 DEF PaceOK, StartSent
<1> QED
  BY <1>1, <1>7, MasterPace

\* A packet is sent again SYNCTIME later: it or its answer was lost.
LEMMA SendPhasePace ==
    ASSUME SyncInv, PaceInv, NetworkAssumption, StartsFit, SendPhase PROVE PaceInv'
<1>1. /\ mstate = "phases" /\ mstate' = "phases" /\ mstate \in Turn /\ ~done /\ ~done'
      /\ now >= sendtime + SYNCTIME /\ SendToSlave(pkt)
      /\ UNCHANGED <<now, client, controlsynctime, slaveVars, toMaster, pkt>>
  BY DEF SendPhase, MasterAt, MasterDeadline, Turn
<1>2. toMaster = <<>> /\ toSlave[client] = <<>> /\ now = sendtime + SYNCTIME
  BY <1>1, NothingOnItsWay
<1>3. pkt \in SyncPacket /\ QueueOK(client) /\ TypeOK
  BY <1>1, InTurn DEF SyncInv, TypeOK
<1>4. /\ sendtime' = now
      /\ \/ toSlave'[client] = toSlave[client] /\ faults' = faults + 1
         \/ Extends(toSlave'[client], toSlave[client], pkt, MaxTransit) /\ faults' = faults
  BY <1>1, <1>3, ToSlaveFacts DEF QueueOK, NetworkAssumption
<1>5. /\ faults' = faults => TurnBegin' = TurnBegin
      /\ faults' = faults + 1 => TurnBegin' = TurnBegin + FaultTime
  BY <1>1, TurnBeginMoves
<1>6. now <= PhaseEnd
  BY <1>1, <1>2 DEF PaceInv, PaceOK, PhasePace
<1>7. pkt.phase \in Int
  BY <1>1, InTurn DEF CurrentOK, PingPongOK, SYNC_PHASE1, SYNC_PHASE4
<1>8. /\ now \in Nat /\ MaxTransit \in Nat /\ SYNCTIME \in Nat /\ TurnBegin \in Int
      /\ FaultTime \in Nat /\ FaultTime >= 2 * SYNCTIME + MaxTransit
  BY PaceFacts
<1>9. /\ PhaseEnd \in Int
      /\ TurnBegin' = TurnBegin => PhaseEnd' = PhaseEnd
      /\ TurnBegin' = TurnBegin + FaultTime => PhaseEnd' = PhaseEnd + FaultTime
  <2> DEFINE k == (pkt.phase + 1) * 2 * MaxTransit
  <2>1. k \in Int
    BY <1>7, <1>8
  <2>2. PhaseEnd = TurnBegin + 2 * SYNCTIME + k /\ PhaseEnd' = TurnBegin' + 2 * SYNCTIME + k
    BY <1>1 DEF PhaseEnd
  <2> HIDE DEF k
  <2> QED
    BY <1>8, <2>1, <2>2
<1>10. ASSUME toSlave'[client] = toSlave[client], faults' = faults + 1
       PROVE  PhasePace'
  <2>1. sendtime' = now /\ PhaseEnd' = PhaseEnd + FaultTime
    BY <1>4, <1>5, <1>9, <1>10
  <2>2. sendtime' <= PhaseEnd' /\ sendtime' + SYNCTIME <= PhaseEnd'
    BY <1>6, <1>8, <1>9, <2>1
  <2> QED
    BY <2>2 DEF PhasePace
<1>11. ASSUME Extends(toSlave'[client], toSlave[client], pkt, MaxTransit), faults' = faults
       PROVE  PhasePace'
  <2>1. sendtime' <= PhaseEnd'
    BY <1>4, <1>5, <1>6, <1>9, <1>11
  <2>2. toSlave'[client'] # <<>>
    <3>1. Len(toSlave'[client]) = 1 /\ client' = client
      BY <1>1, <1>2, <1>11, EmptySeq DEF Extends
    <3> QED
      BY <3>1, EmptySeq
  <2> QED
    BY <2>1, <2>2 DEF PhasePace
<1>12. PhasePace'
  <2>1. \/ toSlave'[client] = toSlave[client] /\ faults' = faults + 1
        \/ Extends(toSlave'[client], toSlave[client], pkt, MaxTransit) /\ faults' = faults
    BY <1>4
  <2> QED
    BY <2>1, <1>10, <1>11
<1>13. PaceOK' /\ ~StartSent
  BY <1>1, <1>12 DEF PaceOK, StartSent
<1> QED
  BY <1>1, <1>13, MasterPace

\* A phase takes one round trip.
LEMMA PhaseAnsweredPace ==
    ASSUME SyncInv, PaceInv, NetworkAssumption, StartsFit, PhaseAnswered PROVE PaceInv'
<1> DEFINE answer == Head(toMaster).pkt
<1>1. UNCHANGED <<now, mstate, client, controlsynctime, slaveVars>>
  BY DEF PhaseAnswered
<1>2. /\ mstate = "phases" /\ ~done /\ InboundOK(client) /\ toMaster' = <<>>
      /\ answer.phase = pkt.phase /\ pkt.phase \in SYNC_PHASE1 .. SYNC_PHASE4
      /\ now - sendtime \in 0 .. 2 * MaxTransit
      /\ pkt'.phase = pkt.phase + 1 /\ (done' <=> pkt.phase = SYNC_PHASE4)
      /\ sendtime' = now
      /\ \/ toSlave'[client] = <<>> /\ faults' = faults + 1
         \/ Len(toSlave'[client]) = 1 /\ faults' = faults
  BY AnswerRead
<1> HIDE DEF answer
<1>3. /\ faults' = faults => TurnBegin' = TurnBegin
      /\ faults' = faults + 1 => TurnBegin' = TurnBegin + FaultTime
  BY <1>1, TurnBeginMoves
<1>4. sendtime <= PhaseEnd
  BY <1>2 DEF PaceInv, PaceOK, PhasePace
<1>5. /\ now \in Nat /\ MaxTransit \in Nat /\ SYNCTIME \in Nat /\ TurnBegin \in Int /\ sendtime \in Int
      /\ FaultTime \in Nat /\ FaultTime >= 2 * SYNCTIME + MaxTransit
  BY PaceFacts
<1>6. pkt.phase \in 0 .. 3 /\ pkt'.phase = pkt.phase + 1
  BY <1>2 DEF SYNC_PHASE1, SYNC_PHASE4
<1>7. /\ PhaseEnd \in Int
      /\ TurnBegin' = TurnBegin => PhaseEnd' = PhaseEnd + 2 * MaxTransit
      /\ TurnBegin' = TurnBegin + FaultTime => PhaseEnd' = PhaseEnd + 2 * MaxTransit + FaultTime
  <2> DEFINE k == (pkt.phase + 1) * 2 * MaxTransit
             l == (pkt'.phase + 1) * 2 * MaxTransit
  <2>1. k \in Int /\ l = k + 2 * MaxTransit
    BY <1>5, <1>6
  <2>2. PhaseEnd = TurnBegin + 2 * SYNCTIME + k /\ PhaseEnd' = TurnBegin' + 2 * SYNCTIME + l
    BY DEF PhaseEnd
  <2> HIDE DEF k, l
  <2> QED
    BY <1>5, <2>1, <2>2
<1>8. now <= PhaseEnd + 2 * MaxTransit
  <2>1. now - sendtime <= 2 * MaxTransit
    BY <1>2
  <2> QED
    BY <1>4, <1>5, <1>7, <2>1
<1>9. /\ sendtime' = now
      /\ \/ TurnBegin' = TurnBegin + FaultTime
         \/ TurnBegin' = TurnBegin /\ toSlave'[client'] # <<>>
  <2>1. ASSUME Len(toSlave'[client]) = 1 PROVE toSlave'[client'] # <<>>
    BY <1>1, <2>1, EmptySeq
  <2> QED
    BY <1>2, <1>3, <2>1
<1>10. PhasePace'
  <2>1. CASE TurnBegin' = TurnBegin + FaultTime
    <3>1. sendtime' <= PhaseEnd' /\ sendtime' + SYNCTIME <= PhaseEnd'
      BY <1>5, <1>7, <1>8, <1>9, <2>1
    <3> QED
      BY <3>1 DEF PhasePace
  <2>2. CASE TurnBegin' = TurnBegin /\ toSlave'[client'] # <<>>
    <3>1. sendtime' <= PhaseEnd'
      BY <1>5, <1>7, <1>8, <1>9, <2>2
    <3> QED
      BY <2>2, <3>1 DEF PhasePace
  <2> QED
    BY <1>9, <2>1, <2>2
<1>11. ASSUME done' PROVE sendtime' <= TurnBegin' + 2 * SYNCTIME + 10 * MaxTransit
  <2>1. pkt'.phase = 4
    BY <1>2, <1>11 DEF SYNC_PHASE4
  <2>2. sendtime' <= PhaseEnd'
    BY <1>10 DEF PhasePace
  <2>3. PhaseEnd' = TurnBegin' + 2 * SYNCTIME + (pkt'.phase + 1) * 2 * MaxTransit
    BY DEF PhaseEnd
  <2>4. (4 + 1) * 2 * MaxTransit = 10 * MaxTransit
    BY <1>5
  <2> QED
    BY <2>1, <2>2, <2>3, <2>4
<1>12. PaceOK' /\ ~StartSent
  BY <1>1, <1>2, <1>10, <1>11 DEF PaceOK, StartSent
<1> QED
  BY <1>1, <1>12, MasterPace

\* The master leaves the phases.
LEMMA LeaveSyncPace ==
    ASSUME SyncInv, PaceInv, NetworkAssumption, StartsFit, LeaveSync PROVE PaceInv'
<1>1. /\ mstate = "phases" /\ done /\ mstate' = "settle"
      /\ UNCHANGED <<now, client, sendtime, controlsynctime, slaveVars, faults>>
  BY DEF LeaveSync, MasterAt, network
<1>2. TurnBegin' = TurnBegin /\ sendtime <= TurnBegin + 2 * SYNCTIME + 10 * MaxTransit
  BY <1>1, TurnBeginMoves DEF PaceInv, PaceOK
<1>3. PaceOK' /\ ~StartSent
  BY <1>1, <1>2 DEF PaceOK, StartSent
<1> QED
  BY <1>1, <1>3, MasterPace

\* A turn is over, and the next one or the start begins.
LEMMA EndSettlePace ==
    ASSUME SyncInv, PaceInv, NetworkAssumption, StartsFit, EndSettle PROVE PaceInv'
<1>1. /\ mstate = "settle" /\ mstate \in Turn
      /\ \/ mstate' = "begin" /\ client' = client + 1
         \/ mstate' = "start" /\ client' = client
      /\ UNCHANGED <<now, controlsynctime, slaveVars, faults>>
  BY DEF EndSettle, MasterAt, Turn, network
<1>2. now <= sendtime + SYNCTIME
  BY <1>1, InTurn DEF CurrentOK, LeavingOK
<1>3. sendtime <= TurnBegin + 2 * SYNCTIME + 10 * MaxTransit
  BY <1>1 DEF PaceInv, PaceOK
<1>4. now \in Nat /\ MaxTransit \in Nat /\ SYNCTIME \in Nat /\ TurnBegin \in Int /\ sendtime \in Int
      /\ TurnTime = 3 * SYNCTIME + 10 * MaxTransit
  BY PaceFacts
<1>5. now <= TurnBegin + TurnTime
  BY <1>2, <1>3, <1>4
<1>6. /\ mstate' = "begin" => TurnBegin' = TurnBegin + TurnTime
      /\ mstate' = "start" => TurnBegin' = TurnBegin
  BY <1>1, TurnBeginMoves
<1>7. TurnTime' = TurnTime
  BY DEF TurnTime
<1>8. PaceOK' /\ ~StartSent
  BY <1>1, <1>5, <1>6, <1>7 DEF PaceOK, StartSent
<1> QED
  BY <1>1, <1>8, MasterPace

\* After the turns only the time of COM_START matters.
LEMMA StartedPace ==
    ASSUME SyncInv, PaceInv, NetworkAssumption, StartsFit,
           mstate \in {"start", "startagain", "flush"}, mstate' \in {"startagain", "flush", "started"},
           mstate = "start" => controlsynctime' = now,
           StartSent => controlsynctime' = controlsynctime,
           UNCHANGED <<now, client, slaveVars, faults>>
    PROVE  PaceInv'
<1>1. TurnBegin' = TurnBegin /\ TurnTime' = TurnTime
  BY TurnBeginMoves DEF TurnTime
<1>2. controlsynctime' <= TurnBegin + TurnTime
  BY DEF PaceInv, PaceOK, StartSent
<1>3. PaceOK'
  BY <1>1, <1>2 DEF PaceOK
<1> QED
  BY <1>3, MasterPace

\* Every step of the master.
LEMMA MasterStepPace ==
    ASSUME SyncInv, PaceInv, NetworkAssumption, StartsFit, Master
    PROVE  PaceInv'
<1>1. ASSUME SendStart PROVE PaceInv'
  BY <1>1, StartedPace DEF SendStart, MasterAt, StartSent
<1>2. ASSUME SendStartAgain PROVE PaceInv'
  BY <1>2, StartedPace DEF SendStartAgain, MasterAt
<1>3. ASSUME MasterStarted PROVE PaceInv'
  BY <1>3, StartedPace DEF MasterStarted, MasterAt, network
<1> QED
  BY <1>1, <1>2, <1>3, BeginSyncPace, SendHelloPace, HelloAnsweredPace, MasterDiscardsPace,
     EndDrainPace, EndRestPace, SendPhasePace, PhaseAnsweredPace, LeaveSyncPace, EndSettlePace DEF Master
-----------------------------------------------------------------------------
(* How long it takes: steps of a slave                                     *)

\* A step of slave c: what is to be shown.
LEMMA SlavePace ==
    ASSUME SyncInv, PaceInv, NetworkAssumption, NEW c \in Client, now' = now, UNCHANGED masterVars,
           faults' \in {faults, faults + 1},
           \A d \in Client : d # c => sstate'[d] = sstate[d],
           FlushPace(c)',
           mstate = "hello" => HelloPace',
           mstate = "phases" /\ ~done => PhasePace'
    PROVE  PaceInv'
<1>1. UNCHANGED <<mstate, client, since, sendtime, done, controlsynctime>>
  BY DEF masterVars
<1>2. /\ TurnBegin \in Int /\ TurnTime \in Nat /\ MaxTransit \in Nat /\ SYNCTIME \in Nat /\ FaultTime \in Nat
      /\ now \in Nat /\ since \in Nat /\ sendtime \in Int /\ controlsynctime \in Nat
  BY PaceFacts
<1>3. TurnBegin' \in Int /\ TurnBegin <= TurnBegin'
  BY <1>1, <1>2, TurnBeginMoves
<1>4. \A t \in Int, k \in Nat : t <= TurnBegin + k => t <= TurnBegin' + k
  <2> DEFINE b == TurnBegin  d == TurnBegin'
  <2>1. b \in Int /\ d \in Int /\ b <= d
    BY <1>2, <1>3
  <2> HIDE DEF b, d
  <2>2. \A t \in Int, k \in Nat : t <= b + k => t <= d + k
    BY <2>1
  <2> QED
    BY <2>2 DEF b, d
<1>5. /\ 2 * MaxTransit \in Nat /\ SYNCTIME + 2 * MaxTransit \in Nat
      /\ 2 * SYNCTIME + 10 * MaxTransit \in Nat
  BY <1>2
<1>6. TurnTime' = TurnTime
  BY DEF TurnTime
<1>7. PaceOK'
  <2>1. mstate' = "begin" => now' <= TurnBegin'
    BY <1>1, <1>2, <1>3 DEF PaceInv, PaceOK
  <2>2. mstate' = "drain" => since' <= TurnBegin' + 2 * MaxTransit
    <3>1. ASSUME mstate = "drain" PROVE since <= TurnBegin + 2 * MaxTransit
      BY <3>1 DEF PaceInv, PaceOK
    <3> QED
      BY <1>1, <1>2, <1>4, <1>5, <3>1
  <2>3. mstate' = "rest" => since' <= TurnBegin' + SYNCTIME + 2 * MaxTransit
    <3>1. ASSUME mstate = "rest" PROVE since <= TurnBegin + SYNCTIME + 2 * MaxTransit
      BY <3>1 DEF PaceInv, PaceOK
    <3> DEFINE k == SYNCTIME + 2 * MaxTransit
    <3>2. \A b \in Int : b + SYNCTIME + 2 * MaxTransit = b + k
      BY <1>2
    <3> HIDE DEF k
    <3>3. ASSUME mstate = "rest" PROVE since <= TurnBegin' + SYNCTIME + 2 * MaxTransit
      <4>1. since <= TurnBegin + SYNCTIME + 2 * MaxTransit
        BY <3>1, <3>3
      <4>2. since <= TurnBegin' + k
        BY <1>2, <1>4, <1>5, <3>2, <4>1 DEF k
      <4> QED
        BY <1>3, <3>2, <4>2
    <3> QED
      BY <1>1, <3>3
  <2>4. mstate' = "settle" \/ (mstate' = "phases" /\ done') =>
            sendtime' <= TurnBegin' + 2 * SYNCTIME + 10 * MaxTransit
    <3>1. ASSUME mstate = "settle" \/ (mstate = "phases" /\ done)
          PROVE  sendtime <= TurnBegin + 2 * SYNCTIME + 10 * MaxTransit
      BY <3>1 DEF PaceInv, PaceOK
    <3> DEFINE k == 2 * SYNCTIME + 10 * MaxTransit
    <3>2. \A b \in Int : b + 2 * SYNCTIME + 10 * MaxTransit = b + k
      BY <1>2
    <3> HIDE DEF k
    <3>3. ASSUME mstate = "settle" \/ (mstate = "phases" /\ done)
          PROVE  sendtime <= TurnBegin' + 2 * SYNCTIME + 10 * MaxTransit
      <4>1. sendtime <= TurnBegin + 2 * SYNCTIME + 10 * MaxTransit
        BY <3>1, <3>3
      <4>2. sendtime <= TurnBegin' + k
        BY <1>2, <1>4, <1>5, <3>2, <4>1 DEF k
      <4> QED
        BY <1>3, <3>2, <4>2
    <3> QED
      BY <1>1, <3>3
  <2>5. mstate' = "start" => now' <= TurnBegin' + TurnTime
    <3>1. ASSUME mstate = "start" PROVE now <= TurnBegin + TurnTime
      BY <3>1 DEF PaceInv, PaceOK
    <3> QED
      BY <1>1, <1>2, <1>4, <3>1
  <2>6. StartSent' => controlsynctime' <= TurnBegin' + TurnTime
    <3>1. ASSUME StartSent PROVE controlsynctime <= TurnBegin + TurnTime
      BY <3>1 DEF PaceInv, PaceOK
    <3>2. StartSent' => StartSent
      BY <1>1 DEF StartSent
    <3> QED
      BY <1>1, <1>2, <1>4, <3>1, <3>2
  <2>7. (mstate' = "hello" => HelloPace') /\ (mstate' = "phases" /\ ~done' => PhasePace')
    BY <1>1
  <2> QED
    BY <1>6, <2>1, <2>2, <2>3, <2>4, <2>5, <2>6, <2>7 DEF PaceOK
<1>8. ASSUME NEW d \in Client PROVE FlushPace(d)'
  BY <1>1, <1>8 DEF FlushPace, PaceInv
<1> QED
  BY <1>7, <1>8 DEF PaceInv

\* A client whose turn it is not answers nothing.
LEMMA OthersSilent ==
    ASSUME SyncInv, NetworkAssumption, NEW c \in Client, Slave(c), ~Current(c)
    PROVE  UNCHANGED <<now, masterVars, toMaster, faults>>
<1>1. \/ Later(c) /\ LaterOK(c)
      \/ Earlier(c) /\ EarlierOK(c)
  BY Stages
<1>2. CASE Greeted(c)
  <2>1. sstate[c] = "hello" /\ SlaveReceives(c)
    BY <1>2 DEF Greeted
  <2>2. Later(c) /\ LaterOK(c)
    BY <1>1, <2>1 DEF EarlierOK, Synchronised
  <2>3. Head(toSlave[c]).pkt.phase = SYNC_MEMO
    BY <2>1, <2>2, SlaveReadFacts DEF LaterOK, Memos, IsMemo, IsSync
  <2> QED
    BY <1>2, <2>3 DEF Greeted, SYNC_MEMO, SYNC_PHASE0
<1>3. CASE SlavePhase(c)
  <2>1. sstate[c] = "phases" /\ SlaveReceives(c)
    BY <1>3 DEF SlavePhase
  <2>2. EarlierOK(c)
    BY <1>1, <2>1 DEF LaterOK
  <2>3. toSlave[c] # <<>> /\ Head(toSlave[c]) = toSlave[c][1] /\ 1 \in 1 .. Len(toSlave[c])
    BY <2>1, SlaveReadFacts
  <2>4. Starts(toSlave[c])
    BY <2>2, <2>3 DEF EarlierOK
  <2>5. Head(toSlave[c]).pkt.type = "start"
    BY <2>3, <2>4 DEF Starts, IsStart, StartPkt
  <2> QED
    BY <1>3, <2>5 DEF SlavePhase
<1> QED
  BY <1>2, <1>3 DEF Slave, Enter, SlaveDiscards, SlaveEndDrain, SlaveLeaveSync, SlaveEndSettle,
     SlaveHearsStart, SlaveStarted, network

\* A step that changes nothing the pace depends on.
LEMMA Unhurried ==
    ASSUME SyncInv, NetworkAssumption,
           UNCHANGED <<now, client, sendtime, pkt, toMaster, faults>>, sstate'[client] = sstate[client],
           offset'[client] = offset[client], ssince'[client] = ssince[client],
           toSlave'[client] = toSlave[client]
    PROVE  (HelloPace' <=> HelloPace) /\ (PhasePace' <=> PhasePace)
<1>1. TurnBegin' = TurnBegin
  BY TurnBeginMoves
<1>2. HelloDue' <=> HelloDue
  BY <1>1 DEF HelloDue, IsHello, IsSync
<1>3. HelloComes' <=> HelloComes
  BY <1>1, <1>2 DEF HelloComes
<1>4. PhaseEnd' = PhaseEnd
  BY <1>1 DEF PhaseEnd
<1>5. Answered(client)' = Answered(client)
  BY DEF Answered
<1>6. HelloPace' <=> HelloPace
  BY <1>1, <1>3, <1>5 DEF HelloPace
<1>7. PhasePace' <=> PhasePace
  BY <1>4 DEF PhasePace
<1> QED
  BY <1>6, <1>7

\* Only COM_START brings a slave to its last wait.
LEMMA FlushKept ==
    ASSUME NEW c \in Client, FlushPace(c), now' = now, UNCHANGED masterVars,
           sstate'[c] = "flush" => sstate[c] = "flush"
    PROVE  FlushPace(c)'
BY DEF FlushPace, masterVars

\* The answer to a hello: prompt, late or lost.
LEMMA HelloAnswerPace ==
    ASSUME SyncInv, PaceInv, NetworkAssumption, NEW c \in Client, c = client, mstate = "hello",
           now' = now, UNCHANGED masterVars,
           NEW p \in SyncPacket, SendToMaster(p),
           toMaster = <<>> => now <= TurnBegin + MaxTransit,
           \/ sstate'[c] = "phases"
           \/ sstate'[c] = "drain" /\ ssince'[c] - offset'[c] = now
    PROVE  HelloPace' /\ faults' \in {faults, faults + 1}
<1>1. /\ now \in Nat /\ MaxTransit \in Nat /\ SYNCTIME \in Nat /\ TurnBegin \in Int /\ sendtime \in Int
      /\ FaultTime \in Nat /\ FaultTime >= 2 * SYNCTIME + MaxTransit /\ FaultTime >= Late /\ Late \in Nat
  BY PaceFacts
<1>2. /\ HelloPace /\ UNCHANGED <<mstate, client, sendtime>> /\ mstate \in Turn
  BY DEF PaceInv, PaceOK, masterVars, Turn
<1>3. /\ TypeOK /\ Prompt /\ InTimeOrder(toMaster) /\ DueFrom(toMaster, now)
      /\ toMaster \in Seq(Msg(SyncPacket)) /\ sendtime <= now
  BY <1>2, InTurn DEF SyncInv, NetworkAssumption, CurrentOK
<1>4. /\ toMaster' \in Seq(Msg(SyncPacket))
      /\ \/ Extends(toMaster', toMaster, p, MaxTransit) /\ faults' = faults
         \/ toMaster' = toMaster /\ faults' = faults + 1
         \/ Extends(toMaster', toMaster, p, Late) /\ faults' = faults + 1
  BY <1>3, ToMasterFacts
<1>5. /\ faults' = faults => TurnBegin' = TurnBegin
      /\ faults' = faults + 1 => TurnBegin' = TurnBegin + FaultTime
  BY <1>2, TurnBeginMoves
<1> DEFINE first == toMaster'[1].due
           b == TurnBegin
           d == TurnBegin'
           s == sendtime
<1>6. /\ b \in Int /\ d \in Int /\ b <= d /\ s \in Int /\ s <= now
      /\ faults' = faults + 1 => d = b + FaultTime
  BY <1>1, <1>3, <1>4, <1>5
<1>7. CASE toMaster # <<>>
  <2>1. /\ toMaster' # <<>> /\ toMaster'[1] = toMaster[1] /\ toMaster[1].due \in Nat
        /\ toMaster[1].due <= b + 2 * MaxTransit
    <3>1. Len(toMaster) \in Nat /\ Len(toMaster) >= 1 /\ 1 \in 1 .. Len(toMaster)
      BY <1>3, <1>7, EmptySeq, LenProperties
    <3>2. toMaster[1].due \in Nat
      BY <1>3, <3>1, DueIsTime
    <3>3. toMaster' # <<>> /\ toMaster'[1] = toMaster[1]
      BY <1>4, <1>7, <3>1, EmptySeq DEF Extends
    <3> QED
      BY <1>2, <1>7, <3>2, <3>3 DEF HelloPace
  <2> HIDE DEF b, d
  <2>2. toMaster[1].due <= d + 2 * MaxTransit
    BY <1>1, <1>6, <2>1
  <2>3. now' <= sendtime' + SYNCTIME
    BY <1>2 DEF HelloPace
  <2> QED
    BY <1>4, <2>1, <2>2, <2>3 DEF HelloPace, d
<1>8. ASSUME toMaster = <<>>, toMaster' # <<>> PROVE HelloPace'
  <2>1. \/ first <= now + MaxTransit /\ faults' = faults
        \/ first <= now + Late /\ faults' = faults + 1
    BY <1>1, <1>3, <1>4, <1>8, ExtendsFacts
  <2>2. first \in Nat
    <3>1. 1 \in 1 .. Len(toMaster')
      BY <1>4, <1>8, EmptySeq, LenProperties
    <3> QED
      BY <1>4, <3>1, DueIsTime
  <2>3. now <= b + MaxTransit
    BY <1>8
  <2>4. now' <= sendtime' + SYNCTIME
    BY <1>2 DEF HelloPace
  <2> HIDE DEF b, d, first
  <2>5. first <= d + 2 * MaxTransit
    BY <1>1, <1>6, <2>1, <2>2, <2>3
  <2> QED
    BY <1>8, <2>4, <2>5 DEF HelloPace, d, first
<1>9. ASSUME toMaster = <<>>, toMaster' = <<>> PROVE HelloPace'
  <2>1. faults' = faults + 1
    BY <1>4, <1>9, EmptySeq, LenProperties DEF Extends
  <2>2. now <= b + MaxTransit
    BY <1>9
  <2>3. now' <= sendtime' + SYNCTIME
    BY <1>2 DEF HelloPace
  <2> HIDE DEF b, d, s
  <2>4. now + FaultTime <= d + MaxTransit /\ now <= d + MaxTransit /\ s + SYNCTIME <= d
    BY <1>1, <1>6, <2>1, <2>2
  <2>5. HelloComes'
    <3>1. sendtime' + SYNCTIME <= TurnBegin'
      BY <1>2, <2>4 DEF s, d
    <3> QED
      BY <3>1 DEF HelloComes
  <2>6. now' <= TurnBegin' + MaxTransit
    BY <2>4 DEF d
  <2>7. ASSUME sstate'[client'] = "drain" PROVE Answered(client)' + FaultTime <= TurnBegin' + MaxTransit
    <3>1. Answered(client)' = now
      BY <1>2, <2>7 DEF Answered
    <3> QED
      BY <2>4, <3>1 DEF d
  <2> QED
    BY <1>9, <2>3, <2>5, <2>6, <2>7 DEF HelloPace
<1> QED
  BY <1>4, <1>7, <1>8, <1>9

\* A slave reads a message or a hello.
LEMMA GreetedPace ==
    ASSUME SyncInv, PaceInv, NetworkAssumption, NEW c \in Client, Greeted(c), c = client, mstate = "hello"
    PROVE  HelloPace' /\ faults' \in {faults, faults + 1}
<1> DEFINE q == toSlave[c]
           r == toSlave'[c]
<1>1. /\ sstate[c] = "hello" /\ SlaveReceives(c) /\ mstate \in Turn
      /\ UNCHANGED <<now, masterVars, offset>>
  BY DEF Greeted, Turn
<1>2. toMaster = <<>> /\ MemosThenHellos(q) /\ offset[c] \in Int
  BY <1>1, InTurn DEF CurrentOK, HelloOK
<1>3. /\ q # <<>> /\ r = Tail(q) /\ Head(q) = q[1] /\ 1 \in 1 .. Len(q) /\ Len(q) \in Nat
      /\ q \in Seq(Msg(SyncPacket \cup StartPacket))
      /\ Len(Tail(q)) = Len(q) - 1
      /\ \A i \in 1 .. Len(Tail(q)) : i + 1 \in 1 .. Len(q) /\ Tail(q)[i] = q[i + 1]
      /\ q[1].pkt \in SyncPacket \cup StartPacket
  BY <1>1, SlaveReadFacts
<1>4. HelloPace /\ UNCHANGED <<mstate, client, sendtime>> /\ now \in Nat /\ MaxTransit \in Nat
  BY <1>1, PaceFacts DEF PaceInv, PaceOK, masterVars
<1>5. now <= TurnBegin + MaxTransit /\ HelloComes
  BY <1>1, <1>2, <1>4 DEF HelloPace
<1> HIDE DEF q, r
<1>6. CASE Head(q).pkt.type = "sync" /\ Head(q).pkt.phase = SYNC_PHASE0
  <2>1. /\ SendToMaster(Head(q).pkt) /\ sstate'[c] = "drain" /\ ssince'[c] = Clock(c)
    BY <1>1, <1>6, TypeFacts DEF Greeted, q, SyncInv, TypeOK
  <2>2. Head(q).pkt \in SyncPacket
    BY <1>3, <1>6 DEF StartPacket
  <2>3. ssince'[c] - offset'[c] = now
    BY <1>1, <1>2, <1>4, <2>1 DEF Clock
  <2> QED
    BY <1>1, <1>5, <2>1, <2>2, <2>3, HelloAnswerPace
<1>7. CASE ~(Head(q).pkt.type = "sync" /\ Head(q).pkt.phase = SYNC_PHASE0)
  <2>1. UNCHANGED <<sstate, ssince, toMaster, faults>>
    BY <1>7 DEF Greeted, q
  <2>2. TurnBegin' = TurnBegin
    BY <1>4, <2>1, TurnBeginMoves
  <2>3. HelloDue => HelloDue'
    <3>1. SUFFICES ASSUME HelloDue PROVE HelloDue'
      OBVIOUS
    <3>2. PICK i \in 1 .. Len(q) : IsHello(q[i].pkt) /\ q[i].due <= TurnBegin + MaxTransit
      BY <3>1 DEF HelloDue, q
    <3>3. i # 1
      BY <1>3, <1>7, <3>2 DEF IsHello, IsSync
    <3>4. i - 1 \in 1 .. Len(r) /\ r[i - 1] = q[i]
      <4>1. i - 1 \in 1 .. Len(Tail(q)) /\ (i - 1) + 1 = i
        BY <1>3, <3>3
      <4> QED
        BY <1>3, <4>1
    <3>5. IsHello(r[i - 1].pkt) /\ r[i - 1].due <= TurnBegin' + MaxTransit
      BY <2>2, <3>2, <3>4
    <3>6. toSlave'[client'] = r
      BY <1>4 DEF r
    <3> QED
      BY <3>4, <3>5, <3>6 DEF HelloDue, IsHello, IsSync
  <2>4. HelloComes'
    BY <1>4, <1>5, <2>2, <2>3 DEF HelloComes
  <2>5. toMaster' = <<>> /\ sstate'[client'] # "drain"
    BY <1>1, <1>2, <1>4, <2>1
  <2>6. now' <= TurnBegin' + MaxTransit /\ now' <= sendtime' + SYNCTIME
    BY <1>1, <1>4, <1>5, <2>2 DEF HelloPace
  <2> QED
    BY <2>1, <2>4, <2>5, <2>6 DEF HelloPace
<1> QED
  BY <1>6, <1>7

\* A slave that lost its answer enters the phases: the next hello comes soon.
LEMMA EndDrainKeepsPace ==
    ASSUME SyncInv, PaceInv, NetworkAssumption, NEW c \in Client, SlaveEndDrain(c), c = client,
           mstate = "hello"
    PROVE  HelloPace' /\ faults' = faults
<1>1. /\ sstate[c] = "drain" /\ mstate \in Turn
      /\ UNCHANGED <<now, client, sendtime, offset, ssince, toMaster, toSlave, faults>>
      /\ sstate' = [sstate EXCEPT ![c] = "phases"]
  BY DEF SlaveEndDrain, SlaveAt, masterVars, network, Turn
<1>2. sstate'[client'] = "phases"
  BY <1>1, TypeFacts DEF SyncInv, TypeOK
<1>3. HelloPace /\ TurnBegin' = TurnBegin
  BY <1>1, TurnBeginMoves DEF PaceInv, PaceOK
<1>4. now <= Answered(c) + SYNCTIME /\ sendtime <= now /\ Answered(c) \in Int
  BY <1>1, InTurn DEF CurrentOK, DrainOK, Answered
<1>5. now \in Nat /\ MaxTransit \in Nat /\ SYNCTIME \in Nat /\ TurnBegin \in Int /\ sendtime \in Int
      /\ FaultTime \in Nat /\ FaultTime >= 2 * SYNCTIME + MaxTransit
  BY PaceFacts
<1>6. ASSUME toMaster = <<>> PROVE now <= TurnBegin + MaxTransit /\ sendtime + SYNCTIME <= TurnBegin
  <2>1. Answered(c) + FaultTime <= TurnBegin + MaxTransit
    BY <1>1, <1>3, <1>6 DEF HelloPace
  <2> QED
    BY <1>4, <1>5, <2>1
<1>7. HelloComes' <=> HelloDue' \/ sendtime + SYNCTIME <= TurnBegin
  BY <1>1, <1>3 DEF HelloComes
<1>8. ASSUME toMaster = <<>> PROVE now' <= TurnBegin' + MaxTransit /\ HelloComes'
  BY <1>1, <1>3, <1>6, <1>7, <1>8
<1>9. ASSUME toMaster # <<>> PROVE toMaster'[1].due <= TurnBegin' + 2 * MaxTransit
  BY <1>1, <1>3, <1>9 DEF HelloPace
<1>10. now' <= sendtime' + SYNCTIME
  BY <1>1, <1>3 DEF HelloPace
<1> QED
  BY <1>1, <1>2, <1>8, <1>9, <1>10 DEF HelloPace

\* A slave answers another hello.
LEMMA PhaseHelloPace ==
    ASSUME SyncInv, PaceInv, NetworkAssumption, NEW c \in Client, SlavePhase(c), c = client, mstate = "hello"
    PROVE  HelloPace' /\ faults' \in {faults, faults + 1}
<1> DEFINE p == toSlave[c][1].pkt
<1>1. /\ sstate[c] = "phases" /\ sstate' = sstate /\ 1 \in 1 .. Len(toSlave[c]) /\ p \in SyncPacket \cup StartPacket
      /\ UNCHANGED <<now, masterVars>> /\ mstate \in Turn
  BY PhaseRead DEF Turn
<1>2. IsHello(p)
  BY <1>1, InTurn DEF CurrentOK, HelloOK, Hellos
<1>3. p.phase # SYNC_PHASE5 /\ p.type = "sync"
  BY <1>2 DEF IsHello, IsSync, SYNC_PHASE0, SYNC_PHASE5
<1> HIDE DEF p
<1>4. PICK a \in SyncPacket : SendToMaster(a)
  BY <1>3, PhaseReply DEF p
<1>5. toMaster = <<>> => now <= TurnBegin + MaxTransit
  BY <1>1 DEF PaceInv, PaceOK, HelloPace
<1> QED
  BY <1>1, <1>4, <1>5, HelloAnswerPace

\* A slave answers a packet of the phases.
LEMMA PhasePacketPace ==
    ASSUME SyncInv, PaceInv, NetworkAssumption, NEW c \in Client, SlavePhase(c), c = client,
           mstate = "phases", ~done
    PROVE  PhasePace' /\ faults' \in {faults, faults + 1}
<1> DEFINE p == toSlave[c][1].pkt
<1>1. /\ toSlave[c] # <<>> /\ UNCHANGED <<now, masterVars>> /\ mstate \in Turn
      /\ InTimeOrder(toMaster) /\ DueFrom(toMaster, now) /\ TypeOK /\ Prompt
  BY PhaseRead DEF Turn
<1>2. PingPongOK(c)
  BY <1>1, InTurn DEF CurrentOK
<1>3. OutboundOK(c)
  BY <1>1, <1>2 DEF PingPongOK, InboundOK
<1>4. p = pkt /\ pkt.phase \in SYNC_PHASE1 .. SYNC_PHASE4 /\ toMaster = <<>> /\ pkt \in SyncPacket
  BY <1>1, <1>2, <1>3 DEF PingPongOK, OutboundOK, TypeOK
<1>5. p.type = "sync" /\ p.phase # SYNC_PHASE5 /\ p.phase # SYNC_PHASE0
  BY <1>4 DEF SyncPacket, SYNC_PHASE0, SYNC_PHASE1, SYNC_PHASE4, SYNC_PHASE5
<1> HIDE DEF p
<1>6. PICK a \in SyncPacket : SendToMaster(a) /\ a.phase = p.phase
  BY <1>5, PhaseReply DEF p
<1>7. \/ Extends(toMaster', toMaster, a, MaxTransit) /\ faults' = faults
      \/ toMaster' = toMaster /\ faults' = faults + 1
  BY <1>1, <1>5, <1>6, ToMasterFacts
<1>8. /\ UNCHANGED <<client, sendtime, pkt>> /\ PhasePace
  BY <1>1 DEF masterVars, PaceInv, PaceOK
<1>9. /\ faults' = faults => TurnBegin' = TurnBegin
      /\ faults' = faults + 1 => TurnBegin' = TurnBegin + FaultTime
  BY <1>1, <1>8, TurnBeginMoves
<1>10. /\ MaxTransit \in Nat /\ SYNCTIME \in Nat /\ TurnBegin \in Int /\ sendtime \in Int
       /\ FaultTime \in Nat /\ FaultTime >= 2 * SYNCTIME + MaxTransit
  BY PaceFacts
<1>11. pkt.phase \in Int
  BY <1>4 DEF SYNC_PHASE1, SYNC_PHASE4
<1>12. /\ PhaseEnd \in Int
       /\ TurnBegin' = TurnBegin => PhaseEnd' = PhaseEnd
       /\ TurnBegin' = TurnBegin + FaultTime => PhaseEnd' = PhaseEnd + FaultTime
  <2> DEFINE k == (pkt.phase + 1) * 2 * MaxTransit
  <2>1. k \in Int
    BY <1>10, <1>11
  <2>2. PhaseEnd = TurnBegin + 2 * SYNCTIME + k /\ PhaseEnd' = TurnBegin' + 2 * SYNCTIME + k
    BY <1>8 DEF PhaseEnd
  <2> HIDE DEF k
  <2> QED
    BY <1>10, <2>1, <2>2
<1>13. sendtime <= PhaseEnd
  BY <1>8 DEF PhasePace
<1>14. ASSUME Extends(toMaster', toMaster, a, MaxTransit), faults' = faults PROVE PhasePace'
  <2>1. sendtime' <= PhaseEnd'
    BY <1>8, <1>9, <1>12, <1>13, <1>14
  <2>2. toMaster' # <<>>
    <3>1. Len(toMaster') = 1
      BY <1>4, <1>14, EmptySeq DEF Extends
    <3> QED
      BY <3>1, EmptySeq
  <2> QED
    BY <2>1, <2>2 DEF PhasePace
<1>15. ASSUME faults' = faults + 1 PROVE PhasePace'
  <2>1. sendtime' = sendtime /\ PhaseEnd' = PhaseEnd + FaultTime
    BY <1>8, <1>9, <1>12, <1>15
  <2>2. sendtime' <= PhaseEnd' /\ sendtime' + SYNCTIME <= PhaseEnd'
    BY <1>10, <1>12, <1>13, <2>1
  <2> QED
    BY <2>2 DEF PhasePace
<1> QED
  BY <1>7, <1>14, <1>15

\* A slave that waits, throws away, or comes in: nothing it does matters.
LEMMA WaitingPace ==
    ASSUME SyncInv, PaceInv, NetworkAssumption, NEW c \in Client, c = client, mstate = "hello",
           Enter(c) \/ SlaveDiscards(c)
    PROVE  HelloPace' /\ faults' = faults
<1>1. /\ UNCHANGED <<now, client, sendtime, offset, ssince, toMaster, faults>>
      /\ mstate \in Turn
  BY DEF Enter, SlaveDiscards, masterVars, slaveVars, network, Turn
<1>2. HelloPace /\ TurnBegin' = TurnBegin
  BY <1>1, TurnBeginMoves DEF PaceInv, PaceOK
<1>3. HelloOK(c)
  BY <1>1, InTurn DEF CurrentOK
<1>4. now' <= sendtime' + SYNCTIME /\ (toMaster' # <<>> => toMaster'[1].due <= TurnBegin' + 2 * MaxTransit)
  BY <1>1, <1>2 DEF HelloPace
<1>5. CASE Enter(c)
  <2>1. sstate[c] = "loading" /\ sstate'[c] = "hello" /\ toSlave' = toSlave /\ toMaster = <<>>
    BY <1>3, <1>5, TypeFacts DEF Enter, network, HelloOK, SyncInv, TypeOK
  <2>2. now <= TurnBegin + MaxTransit /\ HelloComes
    BY <1>2, <2>1 DEF HelloPace
  <2>3. HelloComes'
    BY <1>1, <1>2, <2>1, <2>2 DEF HelloComes, HelloDue, IsHello, IsSync
  <2> QED
    BY <1>1, <1>2, <1>4, <2>1, <2>2, <2>3 DEF HelloPace
<1>6. CASE SlaveDiscards(c)
  <2>1. sstate[c] = "drain" /\ sstate' = sstate
    BY <1>3, <1>6 DEF SlaveDiscards, SlaveDiscarding, slaveVars, HelloOK
  <2>2. toMaster = <<>> => Answered(c) + FaultTime <= TurnBegin + MaxTransit
    BY <1>2, <2>1 DEF HelloPace
  <2>3. Answered(client)' = Answered(c)
    BY <1>1 DEF Answered
  <2>4. toMaster' = <<>> => Answered(client)' + FaultTime <= TurnBegin' + MaxTransit
    BY <1>1, <1>2, <2>2, <2>3
  <2> QED
    BY <1>1, <1>4, <2>1, <2>4 DEF HelloPace
<1> QED
  BY <1>5, <1>6

\* What a step of a slave leaves alone.
LEMMA SlaveFaults ==
    ASSUME SyncInv, NEW c \in Client, Slave(c)
    PROVE  faults' \in {faults, faults + 1} /\ UNCHANGED <<now, masterVars>>
           /\ \A d \in Client : d # c =>
                 /\ sstate'[d] = sstate[d] /\ offset'[d] = offset[d] /\ ssince'[d] = ssince[d]
                 /\ toSlave'[d] = toSlave[d]
<1> DEFINE Others == \A d \in Client : d # c =>
                        /\ sstate'[d] = sstate[d] /\ offset'[d] = offset[d] /\ ssince'[d] = ssince[d]
                        /\ toSlave'[d] = toSlave[d]
<1>1. ASSUME NEW p, SendToMaster(p) PROVE faults' \in {faults, faults + 1}
  BY <1>1 DEF SendToMaster, Sent
<1>2. /\ DOMAIN sstate = Client /\ DOMAIN offset = Client /\ DOMAIN ssince = Client /\ DOMAIN toSlave = Client
      /\ sstate = [d \in Client |-> sstate[d]] /\ offset = [d \in Client |-> offset[d]]
      /\ ssince = [d \in Client |-> ssince[d]] /\ toSlave = [d \in Client |-> toSlave[d]]
  BY DEF SyncInv, TypeOK
<1>3. ASSUME SlaveReceives(c) PROVE \A d \in Client : d # c => toSlave'[d] = toSlave[d]
  BY <1>2, <1>3 DEF SlaveReceives
<1>4. CASE Greeted(c)
  <2>1. faults' \in {faults, faults + 1}
    BY <1>1, <1>4 DEF Greeted
  <2>2. Others
    BY <1>2, <1>3, <1>4 DEF Greeted
  <2> QED
    BY <1>4, <2>1, <2>2 DEF Greeted
<1>5. CASE SlavePhase(c)
  <2>1. faults' \in {faults, faults + 1}
    BY <1>1, <1>5 DEF SlavePhase
  <2>2. Others
    <3>1. \A d \in Client : d # c => offset'[d] = offset[d]
      BY <1>2, <1>5 DEF SlavePhase
    <3> QED
      BY <1>3, <1>5, <3>1 DEF SlavePhase
  <2> QED
    BY <1>5, <2>1, <2>2 DEF SlavePhase
<1>6. CASE SlaveDiscards(c) \/ SlaveHearsStart(c)
  <2>1. Others
    BY <1>2, <1>3, <1>6 DEF SlaveDiscards, SlaveHearsStart, slaveVars
  <2> QED
    BY <1>6, <2>1 DEF SlaveDiscards, SlaveHearsStart
<1>7. CASE Enter(c) \/ SlaveEndDrain(c) \/ SlaveLeaveSync(c) \/ SlaveEndSettle(c) \/ SlaveStarted(c)
  <2>1. Others
    BY <1>2, <1>7 DEF Enter, SlaveEndDrain, SlaveLeaveSync, SlaveEndSettle, SlaveStarted, network
  <2> QED
    BY <1>7, <2>1 DEF Enter, SlaveEndDrain, SlaveLeaveSync, SlaveEndSettle, SlaveStarted, network
<1> QED
  BY <1>4, <1>5, <1>6, <1>7 DEF Slave

\* A slave hears COM_START before the game is begun.
LEMMA FlushPaceKept ==
    ASSUME SyncInv, StartInv, PaceInv, NetworkAssumption, StartsFit, NEW c \in Client, Slave(c)
    PROVE  FlushPace(c)'
<1>1. UNCHANGED <<now, masterVars>> /\ FlushPace(c)
  BY SlaveFaults DEF PaceInv
<1>2. CASE SlaveHearsStart(c)
  <2>1. sstate[c] = "waitstart" /\ SlaveReceives(c)
    BY <1>2 DEF SlaveHearsStart
  <2>2. EarlierOK(c) /\ toSlave[c] # <<>>
    BY <2>1, Stages, SlaveReadFacts DEF LaterOK, CurrentOK, HelloOK, MasterDrainOK, RestOK, PingPongOK,
       LeavingOK, Turn
  <2>3. StartSent
    BY <2>2 DEF EarlierOK
  <2>4. StartTimesOK /\ HearingOK(c)
    BY DEF StartInv, StartOK
  <2>5. mstate # "started"
    BY <2>1, <2>4 DEF HearingOK, Heard, Synchronised
  <2>6. now <= controlsynctime + VBLCOUNTER
    <3>1. /\ now \in Nat /\ controlsynctime \in Nat /\ VBLCOUNTER \in Nat
          /\ VBLCOUNTER \div 4 \in Nat /\ VBLCOUNTER \div 4 <= VBLCOUNTER
      BY StartFacts
    <3>2. CASE mstate = "startagain"
      <4>1. now <= controlsynctime + VBLCOUNTER \div 4
        BY <2>4, <3>2 DEF StartTimesOK
      <4> QED
        BY <3>1, <4>1
    <3>3. CASE mstate = "flush"
      BY <2>4, <3>3 DEF StartTimesOK
    <3> QED
      BY <2>3, <2>5, <3>2, <3>3 DEF StartSent
  <2>7. now <= controlsynctime + VBLCOUNTER + MaxTransit
    BY <2>6, PaceFacts
  <2> QED
    BY <1>1, <2>7 DEF FlushPace, masterVars
<1>3. CASE Greeted(c) \/ SlaveLeaveSync(c) \/ SlaveEndSettle(c) \/ SlaveStarted(c) \/ Enter(c)
           \/ SlaveEndDrain(c)
  <2>1. sstate'[c] # "flush" \/ sstate' = sstate
    BY <1>3, TypeFacts DEF Greeted, SlaveLeaveSync, SlaveEndSettle, SlaveStarted, Enter, SlaveEndDrain,
       SyncInv, TypeOK
  <2> QED
    BY <1>1, <2>1, FlushKept
<1>4. CASE SlaveDiscards(c) \/ SlavePhase(c)
  <2>1. sstate' = sstate
    BY <1>4 DEF SlaveDiscards, SlavePhase, slaveVars
  <2> QED
    BY <1>1, <2>1, FlushKept
<1> QED
  BY <1>2, <1>3, <1>4 DEF Slave

\* Every step of a slave.
LEMMA SlaveStepPace ==
    ASSUME SyncInv, StartInv, PaceInv, NetworkAssumption, StartsFit, NEW c \in Client, Slave(c)
    PROVE  PaceInv'
<1>1. /\ faults' \in {faults, faults + 1} /\ UNCHANGED <<now, masterVars>>
      /\ \A d \in Client : d # c =>
            /\ sstate'[d] = sstate[d] /\ offset'[d] = offset[d] /\ ssince'[d] = ssince[d]
            /\ toSlave'[d] = toSlave[d]
  BY SlaveFaults
<1>2. FlushPace(c)'
  BY FlushPaceKept
<1>3. client \in Client /\ UNCHANGED <<client, sendtime, pkt>>
  BY <1>1, PaceFacts DEF masterVars
<1>4. ASSUME c # client, mstate \in Turn
      PROVE  (HelloPace' <=> HelloPace) /\ (PhasePace' <=> PhasePace)
  <2>1. ~Current(c)
    BY <1>4 DEF Current
  <2>2. toMaster' = toMaster /\ faults' = faults
    BY <2>1, OthersSilent
  <2> QED
    BY <1>1, <1>3, <1>4, <2>2, Unhurried
<1>5. ASSUME mstate = "hello" PROVE HelloPace'
  <2>1. HelloPace /\ mstate \in Turn
    BY <1>5 DEF PaceInv, PaceOK, Turn
  <2>2. CASE c # client
    BY <1>4, <2>1, <2>2
  <2>3. CASE c = client
    <3>1. HelloOK(c)
      BY <1>5, <2>1, <2>3, InTurn DEF CurrentOK
    <3>2. sstate[c] \in {"loading", "hello", "drain", "phases"} /\ ~sdone[c]
      BY <3>1 DEF HelloOK
    <3>3. ~SlaveLeaveSync(c)
      <4>1. ASSUME sstate[c] = "phases" PROVE SlaveDeadline(c) = Clock(c) + 1
        BY <3>2, <4>1 DEF SlaveDeadline
      <4>2. Clock(c) \in Int
        BY TypeFacts DEF Clock, SyncInv
      <4> QED
        BY <4>1, <4>2 DEF SlaveLeaveSync, SlaveAt
    <3>4. ~SlaveEndSettle(c) /\ ~SlaveHearsStart(c) /\ ~SlaveStarted(c)
      BY <3>2 DEF SlaveEndSettle, SlaveHearsStart, SlaveStarted, SlaveAt
    <3> QED
      BY <1>5, <2>3, <3>3, <3>4, GreetedPace, EndDrainKeepsPace, PhaseHelloPace, WaitingPace DEF Slave
  <2> QED
    BY <2>2, <2>3
<1>6. ASSUME mstate = "phases", ~done PROVE PhasePace'
  <2>1. PhasePace /\ mstate \in Turn
    BY <1>6 DEF PaceInv, PaceOK, Turn
  <2>2. CASE c # client
    BY <1>4, <2>1, <2>2
  <2>3. CASE c = client
    <3>1. PingPongOK(c)
      BY <1>6, <2>1, <2>3, InTurn DEF CurrentOK
    <3>2. sstate[c] = "phases" /\ ~sdone[c]
      BY <3>1 DEF PingPongOK
    <3>3. ~SlaveLeaveSync(c)
      <4>1. SlaveDeadline(c) = Clock(c) + 1
        BY <3>2 DEF SlaveDeadline
      <4>2. Clock(c) \in Int
        BY TypeFacts DEF Clock, SyncInv
      <4> QED
        BY <4>1, <4>2 DEF SlaveLeaveSync, SlaveAt
    <3>4. SlavePhase(c)
      BY <3>2, <3>3 DEF Slave, Enter, Greeted, SlaveDiscards, SlaveDiscarding, SlaveEndDrain, SlaveAt,
         SlaveEndSettle, SlaveHearsStart, SlaveStarted
    <3> QED
      BY <1>6, <2>3, <3>4, PhasePacketPace
  <2> QED
    BY <2>2, <2>3
<1> QED
  BY <1>1, <1>2, <1>5, <1>6, SlavePace
-----------------------------------------------------------------------------
(* How long it takes: time, and the invariant                              *)

\* A tic passes: it does not when somebody's time is up.
LEMMA TickPace ==
    ASSUME SyncInv, StartInv, PaceInv, NetworkAssumption, StartsFit, Tick
    PROVE  PaceInv'
<1> DEFINE q == toSlave[client]
<1>1. /\ now' = now + 1 /\ UNCHANGED <<masterVars, slaveVars, network>> /\ now < MasterDeadline
      /\ \A c \in Client : Clock(c) < SlaveDeadline(c) /\ ~(SlaveReads(c) /\ Waiting(toSlave[c]))
  BY DEF Tick
<1>2. UNCHANGED <<mstate, client, since, sendtime, done, controlsynctime, pkt, sstate, offset, ssince,
                  toMaster, toSlave, faults>>
  BY <1>1 DEF masterVars, slaveVars, network
<1>3. /\ TurnBegin' = TurnBegin /\ TurnTime' = TurnTime /\ FaultTime' = FaultTime
  BY <1>2, TurnBeginMoves DEF TurnTime, FaultTime
<1>4. /\ now \in Nat /\ sendtime \in Int /\ MaxTransit \in Nat /\ SYNCTIME \in Nat /\ TurnBegin \in Int
      /\ LastEntry \in Nat /\ LastEntry <= TurnBegin /\ client \in Client /\ controlsynctime \in Nat
      /\ VBLCOUNTER \in Nat
  BY PaceFacts
<1>5. HelloComes' <=> HelloComes
  BY <1>2, <1>3 DEF HelloComes, HelloDue, IsHello, IsSync
<1>6. PhasePace' <=> PhasePace
  <2>1. PhaseEnd' = PhaseEnd
    BY <1>2, <1>3 DEF PhaseEnd
  <2> QED
    BY <1>2, <2>1 DEF PhasePace
<1>7. Answered(client)' = Answered(client)
  BY <1>2 DEF Answered
<1>8. ASSUME mstate = "hello" PROVE HelloPace'
  <2>1. HelloPace /\ mstate \in Turn
    BY <1>8 DEF PaceInv, PaceOK, Turn
  <2>2. now' <= sendtime' + SYNCTIME
    <3>1. MasterDeadline = sendtime + SYNCTIME
      BY <1>8 DEF MasterDeadline
    <3> QED
      BY <1>1, <1>2, <1>4, <3>1
  <2>3. ASSUME toMaster = <<>>, sstate[client] # "drain" PROVE now + 1 <= TurnBegin + MaxTransit
    <3>1. HelloComes
      BY <2>1, <2>3 DEF HelloPace
    <3>2. sstate[client] \in {"loading", "hello", "phases"} /\ offset[client] \in Int
          /\ InTimeOrder(q) /\ q \in Seq(Msg(SyncPacket \cup StartPacket))
      BY <1>8, <2>1, <2>3, InTurn DEF CurrentOK, HelloOK, QueueOK
    <3>3. CASE sstate[client] = "loading"
      <4>1. now + offset[client] < LastEntry + offset[client]
        BY <1>1, <1>4, <3>3 DEF Clock, SlaveDeadline
      <4> QED
        BY <1>4, <3>2, <4>1
    <3>4. CASE sstate[client] \in {"hello", "phases"}
      <4>1. DueFrom(q, now + 1)
        BY <1>1, <1>4, <3>2, <3>4, NothingWaits DEF SlaveReads
      <4>2. ASSUME HelloDue PROVE now + 1 <= TurnBegin + MaxTransit
        <5>1. PICK i \in 1 .. Len(q) : q[i].due <= TurnBegin + MaxTransit
          BY <4>2 DEF HelloDue
        <5>2. now + 1 <= q[i].due /\ q[i].due \in Nat
          BY <3>2, <4>1, <5>1, DueIsTime DEF DueFrom
        <5> QED
          BY <1>4, <5>1, <5>2
      <4>3. ASSUME sendtime + SYNCTIME <= TurnBegin PROVE now + 1 <= TurnBegin + MaxTransit
        <5>1. MasterDeadline = sendtime + SYNCTIME
          BY <1>8 DEF MasterDeadline
        <5> QED
          BY <1>1, <1>4, <4>3, <5>1
      <4> QED
        BY <3>1, <4>2, <4>3 DEF HelloComes
    <3> QED
      BY <3>2, <3>3, <3>4
  <2>4. toMaster' # <<>> => toMaster'[1].due <= TurnBegin' + 2 * MaxTransit
    BY <1>2, <1>3, <2>1 DEF HelloPace
  <2>5. ASSUME toMaster' = <<>>, sstate'[client'] = "drain"
        PROVE  Answered(client)' + FaultTime <= TurnBegin' + MaxTransit
    BY <1>2, <1>3, <1>7, <2>1, <2>5 DEF HelloPace
  <2>6. ASSUME toMaster' = <<>>, sstate'[client'] # "drain"
        PROVE  now' <= TurnBegin' + MaxTransit /\ HelloComes'
    <3>1. HelloComes
      BY <1>2, <2>1, <2>6 DEF HelloPace
    <3>2. now + 1 <= TurnBegin + MaxTransit
      BY <1>2, <2>3, <2>6
    <3>3. now' <= TurnBegin' + MaxTransit
      BY <1>1, <1>3, <3>2
    <3> QED
      BY <1>5, <3>1, <3>3
  <2> QED
    BY <2>2, <2>4, <2>5, <2>6 DEF HelloPace
<1>9. mstate # "begin" /\ mstate # "start"
  <2>1. mstate \in {"begin", "start"} => MasterDeadline = now
    BY DEF MasterDeadline
  <2> QED
    BY <1>1, <1>4, <2>1
<1>10. PaceOK'
  BY <1>2, <1>3, <1>6, <1>8, <1>9 DEF PaceInv, PaceOK, StartSent
<1>11. ASSUME NEW c \in Client PROVE FlushPace(c)'
  <2>1. SUFFICES ASSUME sstate[c] = "flush" PROVE now + 1 <= controlsynctime + VBLCOUNTER + MaxTransit
    BY <1>1, <1>2 DEF FlushPace
  <2>2. StartSent /\ offset[c] \in Int
    BY <2>1, StartFacts
  <2>3. Near(offset[c])
    BY <2>1, <2>2, StartFacts DEF Earlier, Starting, StartSent, Synchronised
  <2>4. scontrolsynctime[c] = controlsynctime
    BY <2>1 DEF StartInv, StartOK, HearingOK, Heard
  <2>5. now + offset[c] < controlsynctime + VBLCOUNTER
    BY <1>1, <2>1, <2>4 DEF Clock, SlaveDeadline
  <2>6. -MaxTransit <= offset[c]
    BY <1>4, <2>2, <2>3 DEF Near
  <2> QED
    BY <1>4, <2>2, <2>5, <2>6
<1> QED
  BY <1>10, <1>11 DEF PaceInv

\* A step in which nothing happens.
LEMMA StopPace == ASSUME PaceInv, UNCHANGED vars PROVE PaceInv'
<1>1. UNCHANGED <<now, mstate, client, since, sendtime, done, controlsynctime, pkt, sstate, offset, ssince,
                  toMaster, toSlave, faults>>
  BY DEF vars, masterVars, slaveVars, network
<1>2. /\ TurnBegin' = TurnBegin /\ TurnTime' = TurnTime /\ FaultTime' = FaultTime
  BY <1>1 DEF TurnBegin, TurnTime, FaultTime
<1>3. HelloPace' <=> HelloPace
  BY <1>1, <1>2 DEF HelloPace, HelloComes, HelloDue, IsHello, IsSync, Answered
<1>4. PhasePace' <=> PhasePace
  BY <1>1, <1>2 DEF PhasePace, PhaseEnd
<1>5. PaceOK'
  BY <1>1, <1>2, <1>3, <1>4 DEF PaceInv, PaceOK, StartSent
<1> QED
  BY <1>1, <1>5 DEF PaceInv, FlushPace

\* Every stage of ComSetTime ends in time: what goes wrong costs FaultTime
\* at most.
THEOREM PaceInvariant == ASSUME NetworkAssumption, StartsFit PROVE Spec => []PaceInv
<1>1. Init => PaceInv
  <2>1. SUFFICES ASSUME Init PROVE PaceInv
    OBVIOUS
  <2>2. SyncInv /\ mstate = "begin" /\ now = 0 /\ \A c \in Client : sstate[c] = "loading"
    BY <2>1, StartsInvariant DEF Init
  <2>3. now <= TurnBegin
    BY <2>2, PaceFacts
  <2> QED
    BY <2>2, <2>3 DEF PaceInv, PaceOK, FlushPace, StartSent
<1>2. SyncInv /\ StartInv /\ PaceInv /\ [Next]_vars => PaceInv'
  BY SlaveStepPace, MasterStepPace, TickPace, StopPace DEF Next, Stopped
<1> QED
  BY <1>1, <1>2, SyncInvariant, StartInvariant, PTL DEF Spec

\* The turns end in time.
LEMMA TurnsEnd ==
    ASSUME SyncInv, NetworkAssumption
    PROVE  TurnBegin + TurnTime + VBLCOUNTER + MaxTransit <= LastMoment /\ LastMoment \in Int
<1>1. /\ client \in Nat /\ client + 1 <= numplayers /\ numplayers \in Nat
      /\ faults \in Nat /\ faults <= MaxFaults /\ MaxFaults \in Nat
  BY PaceFacts, RottSyncAssumption DEF Client
<1>2. /\ TurnTime \in Nat /\ FaultTime \in Nat /\ LastEntry \in Nat /\ VBLCOUNTER \in Nat /\ MaxTransit \in Nat
  BY PaceFacts
<1>3. \A k, l, m \in Nat : k <= l => k * m <= l * m /\ k * m \in Nat /\ l * m \in Nat
  OBVIOUS
<1>4. \A k, m \in Nat : (k + 1) * m = k * m + m
  OBVIOUS
<1>5. /\ client * TurnTime + TurnTime <= numplayers * TurnTime
      /\ client * TurnTime \in Nat /\ numplayers * TurnTime \in Nat
  <2>1. (client + 1) * TurnTime <= numplayers * TurnTime /\ numplayers * TurnTime \in Nat
    BY <1>1, <1>2, <1>3
  <2>2. (client + 1) * TurnTime = client * TurnTime + TurnTime
    BY <1>1, <1>2, <1>4
  <2>3. client * TurnTime \in Nat
    BY <1>1, <1>2, <1>3
  <2> QED
    BY <2>1, <2>2, <2>3
<1>6. faults * FaultTime <= MaxFaults * FaultTime /\ faults * FaultTime \in Nat /\ MaxFaults * FaultTime \in Nat
  BY <1>1, <1>2, <1>3
<1> DEFINE a == client * TurnTime  b == numplayers * TurnTime  d == faults * FaultTime  e == MaxFaults * FaultTime
<1>7. TurnBegin = LastEntry + a + d /\ LastMoment = LastEntry + b + e + VBLCOUNTER + MaxTransit
  BY DEF TurnBegin, LastMoment
<1>8. a + TurnTime <= b /\ d <= e /\ a \in Nat /\ b \in Nat /\ d \in Nat /\ e \in Nat
  BY <1>5, <1>6
<1> HIDE DEF a, b, d, e
<1> QED
  BY <1>2, <1>7, <1>8

\* Before the last moment is over everybody has begun who is not left behind.
LEMMA InTime ==
    ASSUME SyncInv, LeftInv, StartInv, PaceInv, NetworkAssumption, StartsFit,
           ~(mstate = "started" /\ \A c \in Client \ missed : sstate[c] = "started")
    PROVE  now <= LastMoment
<1>1. /\ now \in Nat /\ sendtime \in Int /\ since \in Nat /\ controlsynctime \in Nat
      /\ client \in Client /\ MaxTransit \in Nat /\ SYNCTIME \in Nat /\ 2 * MaxTransit < SYNCTIME
      /\ VBLCOUNTER \in Nat /\ TurnTime \in Nat /\ TurnTime = 3 * SYNCTIME + 10 * MaxTransit
      /\ FaultTime \in Nat /\ FaultTime >= 2 * SYNCTIME + MaxTransit /\ TurnBegin \in Int
  BY PaceFacts
<1>2. TurnBegin + TurnTime + VBLCOUNTER + MaxTransit <= LastMoment /\ LastMoment \in Int
  BY TurnsEnd
<1>3. SUFFICES now <= TurnBegin + TurnTime + VBLCOUNTER + MaxTransit
  BY <1>1, <1>2
<1>4. CASE mstate = "begin"
  <2>1. now <= TurnBegin
    BY <1>4 DEF PaceInv, PaceOK
  <2> QED
    BY <1>1, <2>1
<1>5. CASE mstate = "hello"
  <2>1. HelloPace /\ mstate \in Turn
    BY <1>5 DEF PaceInv, PaceOK, Turn
  <2>2. CASE toMaster # <<>>
    <3>1. 1 \in 1 .. Len(toMaster) /\ toMaster[1].due \in Nat /\ DueFrom(toMaster, now)
      BY <2>1, <2>2, InTurn, DueIsTime, EmptySeq, LenProperties
    <3>2. now <= toMaster[1].due
      BY <3>1 DEF DueFrom
    <3>3. toMaster[1].due <= TurnBegin + 2 * MaxTransit
      BY <2>1, <2>2 DEF HelloPace
    <3> DEFINE first == toMaster[1].due
    <3>4. first \in Nat /\ now <= first /\ first <= TurnBegin + 2 * MaxTransit
      BY <3>1, <3>2, <3>3
    <3> HIDE DEF first
    <3> QED
      BY <1>1, <3>4
  <2>3. CASE toMaster = <<>> /\ sstate[client] = "drain"
    <3>1. Answered(client) + FaultTime <= TurnBegin + MaxTransit
      BY <2>1, <2>3 DEF HelloPace
    <3>2. now <= Answered(client) + SYNCTIME /\ Answered(client) \in Int
      BY <2>1, <2>3, InTurn DEF DrainOK, Answered
    <3> QED
      BY <1>1, <3>1, <3>2
  <2>4. CASE toMaster = <<>> /\ sstate[client] # "drain"
    <3>1. now <= TurnBegin + MaxTransit
      BY <2>1, <2>4 DEF HelloPace
    <3> QED
      BY <1>1, <3>1
  <2> QED
    BY <2>2, <2>3, <2>4
<1>6. CASE mstate = "drain"
  <2>1. now <= since + SYNCTIME
    BY <1>6, InTurn DEF CurrentOK, MasterDrainOK, Turn
  <2>2. since <= TurnBegin + 2 * MaxTransit
    BY <1>6 DEF PaceInv, PaceOK
  <2> QED
    BY <1>1, <2>1, <2>2
<1>7. CASE mstate = "rest"
  <2>1. now <= since + SYNCTIME
    BY <1>7, InTurn DEF CurrentOK, RestOK, Turn
  <2>2. since <= TurnBegin + SYNCTIME + 2 * MaxTransit
    BY <1>7 DEF PaceInv, PaceOK
  <2> QED
    BY <1>1, <2>1, <2>2
<1>8. CASE mstate = "phases" /\ ~done
  <2>1. PhasePace /\ mstate \in Turn
    BY <1>8 DEF PaceInv, PaceOK, Turn
  <2>2. PingPongOK(client)
    BY <1>8, <2>1, InTurn DEF CurrentOK
  <2>3. now <= sendtime + SYNCTIME /\ pkt.phase \in 0 .. 3
    BY <2>2 DEF PingPongOK, SYNC_PHASE1, SYNC_PHASE4
  <2>4. sendtime <= TurnBegin + 2 * SYNCTIME + (pkt.phase + 1) * 2 * MaxTransit
    BY <2>1 DEF PhasePace, PhaseEnd
  <2>5. (pkt.phase + 1) * 2 * MaxTransit <= 8 * MaxTransit /\ (pkt.phase + 1) * 2 * MaxTransit \in Nat
    <3>1. \A k \in 0 .. 3 : (k + 1) * 2 * MaxTransit <= 8 * MaxTransit /\ (k + 1) * 2 * MaxTransit \in Nat
      <4>1. SUFFICES ASSUME NEW k \in 0 .. 3
                     PROVE  (k + 1) * 2 * MaxTransit <= 8 * MaxTransit /\ (k + 1) * 2 * MaxTransit \in Nat
        OBVIOUS
      <4>2. k \in {0, 1, 2, 3}
        OBVIOUS
      <4> QED
        BY <1>1, <4>2
    <3> QED
      BY <2>3, <3>1
  <2> DEFINE e == (pkt.phase + 1) * 2 * MaxTransit
  <2>6. sendtime <= TurnBegin + 2 * SYNCTIME + e /\ e <= 8 * MaxTransit /\ e \in Nat
    BY <2>4, <2>5
  <2> HIDE DEF e
  <2>7. now <= sendtime + SYNCTIME
    BY <2>3
  <2> QED
    BY <1>1, <2>6, <2>7
<1>9. CASE mstate = "settle" \/ (mstate = "phases" /\ done)
  <2>1. LeavingOK(client)
    BY <1>9, InTurn DEF CurrentOK, Turn
  <2>2. now <= sendtime + SYNCTIME
    BY <2>1 DEF LeavingOK
  <2>3. sendtime <= TurnBegin + 2 * SYNCTIME + 10 * MaxTransit
    BY <1>9 DEF PaceInv, PaceOK
  <2> QED
    BY <1>1, <2>2, <2>3
<1>10. CASE mstate = "start"
  <2>1. now <= TurnBegin + TurnTime
    BY <1>10 DEF PaceInv, PaceOK
  <2> QED
    BY <1>1, <2>1
<1>11. CASE StartSent
  <2>1. controlsynctime <= TurnBegin + TurnTime
    BY <1>11 DEF PaceInv, PaceOK
  <2>2. now <= controlsynctime + VBLCOUNTER + MaxTransit
    <3>1. VBLCOUNTER \div 4 \in Nat /\ VBLCOUNTER \div 4 <= VBLCOUNTER
      BY StartFacts
    <3>2. CASE mstate = "startagain"
      <4>1. now <= controlsynctime + VBLCOUNTER \div 4
        BY <3>2 DEF StartInv, StartTimesOK
      <4> QED
        BY <1>1, <3>1, <4>1
    <3>3. CASE mstate = "flush"
      <4>1. now <= controlsynctime + VBLCOUNTER
        BY <3>3 DEF StartInv, StartTimesOK
      <4> QED
        BY <1>1, <4>1
    <3>4. CASE mstate = "started"
      <4>1. PICK c \in Client \ missed : sstate[c] # "started"
        BY <3>4
      <4>2. sstate[c] = "flush"
        BY <3>4, <4>1, OthersSynchronised DEF StartInv, StartOK, HearingOK, Heard, Starting
      <4> QED
        BY <4>2 DEF PaceInv, FlushPace
    <3> QED
      BY <1>11, <3>2, <3>3, <3>4 DEF StartSent
  <2> QED
    BY <1>1, <2>1, <2>2
<1> QED
  <2>1. mstate \in {"begin", "hello", "drain", "rest", "phases", "settle", "start",
                   "startagain", "flush", "started"}
    BY DEF SyncInv, TypeOK
  <2> QED
    BY <2>1, <1>4, <1>5, <1>6, <1>7, <1>8, <1>9, <1>10, <1>11 DEF StartSent

\* Whatever is lost, every program but a client whose SYNC_PHASE5 was lost gets from
\* ComSetTime to the game before LastMoment: what else is lost is sent again, and
\* nobody waits for the client that is left behind.
THEOREM AllStart ==
    ASSUME NetworkAssumption, StartsFit, TimeEnough PROVE Spec => []OthersStart
<1>1. SyncInv /\ LeftInv /\ StartInv /\ PaceInv => OthersStart
  <2>1. SUFFICES ASSUME SyncInv, LeftInv, StartInv, PaceInv, now = MaxTime,
                        ~(mstate = "started" /\ \A c \in Client \ missed : sstate[c] = "started")
                 PROVE FALSE
    BY DEF OthersStart
  <2>2. now <= LastMoment /\ LastMoment \in Int /\ MaxTime \in Nat
    BY <2>1, InTime, TurnsEnd, RottSyncAssumption
  <2>3. MaxTime > LastMoment
    BY DEF TimeEnough
  <2> QED
    BY <2>1, <2>2, <2>3
<1> QED
  BY <1>1, SyncInvariant, LeftInvariant, StartInvariant, PaceInvariant, PTL
=============================================================================
