------------------------- MODULE FixupBuffersProofs -------------------------
(***************************************************************************)
(* Theorems about FixupBuffers, for every size of ring, buffer and packet. *)
(***************************************************************************)
EXTENDS FixupBuffers, SequenceTheorems, TLAPS

-----------------------------------------------------------------------------
(* Remainders                                                              *)

LEMMA DivMod ==
    ASSUME NEW a \in Int, NEW M \in Nat \ {0}
    PROVE  a % M \in 0 .. M - 1 /\ a \div M \in Int /\ a = M * (a \div M) + (a % M)
BY SMT

LEMMA ModOf ==
    ASSUME NEW M \in Nat \ {0}, NEW q \in Int, NEW r \in 0 .. M - 1
    PROVE  (M * q + r) % M = r
BY SMT

\* The slot after that of a is that of a + 1.
LEMMA ModStep ==
    ASSUME NEW M \in Nat \ {0}, NEW a \in Nat
    PROVE  ((a % M) + 1) % M = (a + 1) % M
<1> DEFINE q == a \div M
           r == a % M
<1>1. q \in Int /\ r \in 0 .. M - 1 /\ a = M * q + r
  BY DivMod
<1> HIDE DEF q, r
<1>2. CASE r + 1 < M
  <2>1. a + 1 = M * q + (r + 1)
    BY <1>1
  <2>2. (a + 1) % M = r + 1
    BY <1>1, <1>2, <2>1, ModOf
  <2>3. (r + 1) % M = r + 1
    BY <1>1, <1>2
  <2> QED
    BY <2>2, <2>3 DEF r
<1>3. CASE r + 1 = M
  <2>1. a + 1 = M * (q + 1) + 0
    BY <1>1, <1>3, SMT
  <2>2. (a + 1) % M = 0
    BY <1>1, <2>1, ModOf
  <2>3. (r + 1) % M = 0
    BY <1>1, <1>3, SMT
  <2> QED
    BY <2>2, <2>3 DEF r
<1> QED
  BY <1>1, <1>2, <1>3

\* Times closer than M that have the same slot are equal.
LEMMA ModNear ==
    ASSUME NEW M \in Nat \ {0}, NEW a \in Int, NEW b \in Int,
           a - b < M, b - a < M, a % M = b % M
    PROVE  a = b
<1> DEFINE q == a \div M
           p == b \div M
<1>1. q \in Int /\ a = M * q + (a % M) /\ a % M \in Int
  BY DivMod
<1>2. p \in Int /\ b = M * p + (b % M)
  BY DivMod
<1> HIDE DEF q, p
<1>3. b - a = M * (p - q)
  BY <1>1, <1>2, SMT
<1>4. CASE p - q >= 1
  <2>1. M * (p - q) >= M
    BY <1>1, <1>2, <1>4, SMT
  <2> QED
    BY <1>3, <2>1
<1>5. CASE p - q <= -1
  <2>1. M * (p - q) <= -M
    BY <1>1, <1>2, <1>5, SMT
  <2> QED
    BY <1>3, <2>1
<1>6. CASE p = q
  BY <1>1, <1>2, <1>3, <1>6, SMT
<1> QED
  BY <1>1, <1>2, <1>4, <1>5, <1>6
-----------------------------------------------------------------------------
(* The invariant of the loop                                               *)

\* Where the buffers written so far end.
End == IF written = <<>> THEN 0
       ELSE written[Len(written)].first + written[Len(written)].numpackets

\* The slot the loop is at is that of the next packet, the ring holds the
\* requested packets, and the current buffer starts where the last one ended,
\* with a packet still to come unless nothing was requested.
IInv ==
    /\ TypeOK
    /\ cmd = CommandAddress(time + i)
    /\ \A j \in 0 .. MAXCMDS - 1 : ring[CommandAddress(time + j)] = time + j
    /\ state = "start" => i = End
    /\ state = "start" => i < numpackets \/ numpackets = 0
    /\ state = "copy" => fixup = [time |-> time + End, starti |-> End]
    /\ state = "copy" => End < numpackets \/ numpackets = 0
    /\ state = "copy" /\ i = End => tempptr = FixupHeader
    /\ state = "done" => End = numpackets /\ written # <<>>
    /\ PiecesInOrder
    /\ NoEmptyBuffer

LEMMA InitInv == Init => IInv
<1> SUFFICES ASSUME Init PROVE IInv
  OBVIOUS
<1>1. time \in Nat /\ MAXCMDS \in Nat \ {0} /\ ByteSize \in Nat
  BY FixupBuffersAssumption DEF Init
<1>2. TypeOK
  <2>1. CommandAddress(time) \in Slot
    BY <1>1, DivMod DEF CommandAddress, Slot
  <2>2. FixupHeader \in FixupHeader .. MAXCOMBUFFERSIZE
    BY FixupBuffersAssumption DEF Init
  <2>3. numpackets \in 0 .. ByteSize - 1 /\ i \in 0 .. numpackets
    BY <1>1 DEF Init
  <2>4. fixup \in [time : Nat, starti : 0 .. i]
    BY <1>1 DEF Init
  <2>5. written \in Seq([time : Nat, first : Nat, numpackets : Nat, len : Nat])
    BY EmptySeq DEF Init
  <2> QED
    BY <1>1, <2>1, <2>2, <2>3, <2>4, <2>5 DEF Init, TypeOK
<1>3. cmd = CommandAddress(time + i)
  BY <1>1 DEF Init
<1>4. ASSUME NEW j \in 0 .. MAXCMDS - 1
      PROVE  ring[CommandAddress(time + j)] = time + j
  <2> DEFINE a == CommandAddress(time + j)
  <2>1. a \in Slot
    BY <1>1, DivMod DEF CommandAddress, Slot
  <2>2. ring[a] = CHOOSE t \in time .. time + MAXCMDS - 1 : CommandAddress(t) = a
    BY <2>1 DEF Init
  <2>3. time + j \in time .. time + MAXCMDS - 1 /\ CommandAddress(time + j) = a
    BY <1>1
  <2> HIDE DEF a
  <2>4. ring[a] \in time .. time + MAXCMDS - 1 /\ CommandAddress(ring[a]) = a
    BY <2>2, <2>3
  <2>5. ring[a] \in Int /\ ring[a] - (time + j) < MAXCMDS /\ (time + j) - ring[a] < MAXCMDS
    BY <1>1, <2>4
  <2>6. ring[a] % MAXCMDS = (time + j) % MAXCMDS
    BY <2>3, <2>4 DEF CommandAddress
  <2>7. ring[a] = time + j
    <3> DEFINE held == ring[a]
               asked == time + j
    <3>1. /\ held \in Int /\ asked \in Int /\ MAXCMDS \in Nat \ {0}
          /\ held - asked < MAXCMDS /\ asked - held < MAXCMDS
      BY <1>1, <2>5
    <3>2. held % MAXCMDS = asked % MAXCMDS
      BY <2>6
    <3> HIDE DEF held, asked
    <3>3. held = asked
      BY <3>1, <3>2, ModNear
    <3> QED
      BY <3>3 DEF held, asked
  <2> QED
    BY <2>7 DEF a
<1>5. PiecesInOrder /\ NoEmptyBuffer
  BY DEF Init, PiecesInOrder, NoEmptyBuffer
<1>6. 0 < numpackets \/ numpackets = 0
  BY <1>2 DEF TypeOK
<1> QED
  BY <1>2, <1>3, <1>4, <1>5, <1>6 DEF Init, IInv, End

LEMMA StartBufferInv ==
    ASSUME IInv, StartBuffer
    PROVE  IInv'
<1> USE DEF IInv
<1>1. /\ state = "start"
      /\ fixup' = [time |-> ring[cmd], starti |-> i]
      /\ tempptr' = FixupHeader
      /\ state' = "copy"
      /\ UNCHANGED <<time, numpackets, ring, cmd, size, i, written>>
  BY DEF StartBuffer
<1>2. time \in Nat /\ i \in Nat /\ i \in 0 .. MAXCMDS - 1
  BY FixupBuffersAssumption DEF TypeOK
<1>3. ring[cmd] = time + i /\ i = End
  BY <1>1, <1>2
<1>4. TypeOK'
  BY <1>1, <1>2, <1>3, FixupBuffersAssumption DEF TypeOK
<1>5. PiecesInOrder' /\ NoEmptyBuffer' /\ End' = End
  BY <1>1 DEF PiecesInOrder, NoEmptyBuffer, End
<1> QED
  BY <1>1, <1>3, <1>4, <1>5 DEF CommandAddress

LEMMA CopyPacketInv ==
    ASSUME IInv, CopyPacket
    PROVE  IInv'
<1> USE DEF IInv
<1>1. /\ state = "copy" /\ i < numpackets
      /\ tempptr + size <= MAXCOMBUFFERSIZE
      /\ tempptr' = tempptr + size
      /\ i' = i + 1
      /\ cmd' = (cmd + 1) % MAXCMDS
      /\ size' \in PacketSize
      /\ UNCHANGED <<time, numpackets, ring, fixup, written, state>>
  BY DEF CopyPacket, Fits, NextSlot
<1>2. /\ time \in Nat /\ i \in Nat /\ numpackets \in Nat
      /\ MAXCMDS \in Nat \ {0} /\ size \in Nat /\ tempptr \in Nat
  BY FixupBuffersAssumption DEF TypeOK
<1>3. cmd' = CommandAddress(time + i')
  <2>1. cmd = (time + i) % MAXCMDS
    BY DEF CommandAddress
  <2>2. time + i \in Nat /\ (time + i) + 1 = time + (i + 1)
    BY <1>2
  <2>3. (((time + i) % MAXCMDS) + 1) % MAXCMDS = ((time + i) + 1) % MAXCMDS
    BY <1>2, <2>2, ModStep
  <2> QED
    BY <1>1, <2>1, <2>2, <2>3 DEF CommandAddress
<1>4. TypeOK'
  <2>1. cmd' \in Slot
    BY <1>2, <1>3, <1>1, DivMod DEF CommandAddress, Slot
  <2>2. i' \in 0 .. numpackets
    BY <1>1, <1>2
  <2>3. fixup \in [time : Nat, starti : 0 .. i']
    BY <1>1, <1>2 DEF TypeOK
  <2>4. tempptr' \in FixupHeader .. MAXCOMBUFFERSIZE
    BY <1>1, <1>2, FixupBuffersAssumption DEF TypeOK
  <2> QED
    BY <1>1, <2>1, <2>2, <2>3, <2>4 DEF TypeOK
<1>5. PiecesInOrder' /\ NoEmptyBuffer' /\ End' = End
  BY <1>1 DEF PiecesInOrder, NoEmptyBuffer, End
<1>6. i' # End'
  <2>1. End \in 0 .. i
    BY <1>1 DEF TypeOK
  <2> QED
    BY <1>1, <1>2, <1>5, <2>1
<1> QED
  BY <1>1, <1>3, <1>4, <1>5, <1>6 DEF CommandAddress

LEMMA WriteBufferInv ==
    ASSUME IInv, WriteBuffer
    PROVE  IInv'
<1> USE DEF IInv
<1> DEFINE Piece == [time : Nat, first : Nat, numpackets : Nat, len : Nat]
           new == [time |-> fixup.time, first |-> fixup.starti,
                   numpackets |-> i - fixup.starti, len |-> tempptr]
<1>1. /\ state = "copy"
      /\ written' = Append(written, new)
      /\ state' = IF tempptr > MAXCOMBUFFERSIZE - CrcSize THEN "error"
                  ELSE IF i = numpackets THEN "done" ELSE "start"
      /\ UNCHANGED <<time, numpackets, ring, cmd, size, i, fixup, tempptr>>
  BY DEF WriteBuffer, Count
<1>2. new \in Piece
  BY FixupBuffersAssumption DEF TypeOK
<1>3. /\ new.first = End /\ new.time = time + End
      /\ new.first + new.numpackets = i
  BY <1>1 DEF TypeOK
<1> HIDE DEF new
<1>4. /\ written' \in Seq(Piece)
      /\ Len(written') = Len(written) + 1
      /\ \A k \in 1 .. Len(written) : written'[k] = written[k]
      /\ written'[Len(written) + 1] = new
      /\ Len(written) \in Nat
  BY <1>1, <1>2, AppendProperties, LenProperties DEF TypeOK
<1>5. End' = i /\ written' # <<>>
  <2>1. written' # <<>>
    BY <1>4, EmptySeq
  <2> QED
    BY <1>3, <1>4, <2>1 DEF End
<1>6. PiecesInOrder'
  <2> HIDE DEF Piece
  <2>0. DOMAIN written' = 1 .. Len(written) + 1 /\ time' = time
    BY <1>1, <1>4, LenProperties
  <2> SUFFICES ASSUME NEW k \in 1 .. Len(written) + 1
               PROVE  /\ written'[k].first =
                            IF k = 1 THEN 0
                            ELSE written'[k - 1].first + written'[k - 1].numpackets
                      /\ written'[k].time = time + written'[k].first
    BY <2>0 DEF PiecesInOrder
  <2>1. DOMAIN written = 1 .. Len(written)
    BY LenProperties DEF TypeOK
  <2>2. CASE k \in 1 .. Len(written)
    <3>1. k # 1 => k - 1 \in 1 .. Len(written)
      BY <1>4, <2>2
    <3> QED
      BY <1>4, <2>1, <2>2, <3>1 DEF PiecesInOrder
  <2>3. CASE k = Len(written) + 1
    <3>1. CASE Len(written) = 0
      <4>1. written = <<>>
        BY <3>1, EmptySeq DEF TypeOK
      <4> QED
        BY <1>3, <1>4, <2>3, <3>1, <4>1 DEF End
    <3>2. CASE Len(written) # 0
      <4>1. written # <<>> /\ k # 1 /\ k - 1 = Len(written) /\ k - 1 \in 1 .. Len(written)
        BY <1>4, <2>3, <3>2, EmptySeq
      <4> QED
        BY <1>3, <1>4, <2>3, <4>1 DEF End
    <3> QED
      BY <3>1, <3>2
  <2> QED
    BY <1>4, <2>2, <2>3
<1>7. TypeOK'
  BY <1>1, <1>4 DEF TypeOK
<1>8. ASSUME numpackets # 0 PROVE new.numpackets > 0
  <2>1. /\ i \in Nat /\ numpackets \in Nat /\ End \in Nat /\ End <= i /\ i <= numpackets
        /\ End < numpackets
    BY <1>1, <1>8, FixupBuffersAssumption DEF TypeOK
  <2>2. i = numpackets \/ ~ Fits
    BY DEF WriteBuffer
  <2>3. i # End
    BY <1>1, <2>1, <2>2, FixupBuffersAssumption DEF TypeOK, Fits
  <2> QED
    BY <1>3, <2>1, <2>3, <1>2
<1>9. NoEmptyBuffer'
  <2> SUFFICES ASSUME numpackets # 0, NEW k \in DOMAIN written'
               PROVE  written'[k].numpackets > 0
    BY <1>1 DEF NoEmptyBuffer
  <2>1. k \in 1 .. Len(written) + 1 /\ DOMAIN written = 1 .. Len(written)
    BY <1>4, LenProperties DEF TypeOK
  <2>2. CASE k \in 1 .. Len(written)
    BY <1>4, <2>1, <2>2 DEF NoEmptyBuffer
  <2>3. CASE k = Len(written) + 1
    BY <1>4, <1>8, <2>3
  <2> QED
    BY <1>4, <2>1, <2>2, <2>3
<1>10. state' = "start" => i < numpackets
  BY <1>1 DEF TypeOK
<1> QED
  BY <1>1, <1>5, <1>6, <1>7, <1>9, <1>10 DEF CommandAddress

LEMMA NextInv ==
    ASSUME IInv, [Next]_vars
    PROVE  IInv'
<1>1. CASE Returned \/ UNCHANGED vars
  BY <1>1 DEF Returned, vars, IInv, TypeOK, PiecesInOrder, NoEmptyBuffer, End,
          CommandAddress
<1> QED
  BY <1>1, StartBufferInv, CopyPacketInv, WriteBufferInv DEF Next
-----------------------------------------------------------------------------
(* The theorems                                                            *)

LEMMA Inductive == Spec => []IInv
<1>1. Init => IInv
  BY InitInv
<1>2. IInv /\ [Next]_vars => IInv'
  BY NextInv
<1> QED
  BY <1>1, <1>2, PTL DEF Spec

\* What is copied stays inside the buffer of MAXCOMBUFFERSIZE bytes.
THEOREM TypeCorrect == Spec => []TypeOK
<1>1. IInv => TypeOK
  BY DEF IInv
<1> QED
  BY <1>1, Inductive, PTL

\* The buffers of a resend are consecutive and carry the right times, for every
\* request, ring, buffer and mix of packet sizes.
THEOREM InOrder == Spec => []PiecesInOrder
<1>1. IInv => PiecesInOrder
  BY DEF IInv
<1> QED
  BY <1>1, Inductive, PTL

\* The loop gets on: no buffer is empty, as every packet fits behind a header.
THEOREM GetsOn == Spec => []NoEmptyBuffer
<1>1. IInv => NoEmptyBuffer
  BY DEF IInv
<1> QED
  BY <1>1, Inductive, PTL

\* A resend that is done has sent every requested packet.
THEOREM Complete == Spec => []NothingLeftOut
<1>1. IInv => NothingLeftOut
  BY DEF IInv, NothingLeftOut, End
<1> QED
  BY <1>1, Inductive, PTL
=============================================================================
