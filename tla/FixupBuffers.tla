---------------------------- MODULE FixupBuffers ----------------------------
(***************************************************************************)
(* How a resend is cut into buffers: the loop of ResendServerPackets and   *)
(* ResendLocalPackets in rt_net.c.  It walks the ring from the slot of the *)
(* requested time, copies packets of different sizes behind a fixup header *)
(* as long as they fit into MAXCOMBUFFERSIZE bytes, writes the buffer with *)
(* the time of its first packet and the number of packets, and starts the  *)
(* next one.  WritePacket adds a CRC and ends the program when that does   *)
(* not fit.  RottNet takes the whole resend as one fixup.                  *)
(***************************************************************************)
EXTENDS Integers, Sequences

CONSTANTS
    MAXCMDS,           \* slots of the ring
    ByteSize,          \* values of the byte that holds a request's numpackets
    MAXCOMBUFFERSIZE,  \* bytes of a buffer
    FixupHeader,       \* bytes before the first packet in a fixup
    CrcSize,           \* sizeof(word), the CRC that WritePacket appends
    PacketSize,        \* the sizes of packets that occur
    RequestedTime      \* the times that may be requested

ASSUME FixupBuffersAssumption ==
    /\ MAXCMDS \in Nat \ {0}
    /\ ByteSize \in 1 .. MAXCMDS
    /\ MAXCOMBUFFERSIZE \in Nat
    /\ FixupHeader \in Nat
    /\ CrcSize \in Nat
    /\ PacketSize \subseteq Nat
    /\ RequestedTime \subseteq Nat
    /\ \A s \in PacketSize : FixupHeader + s <= MAXCOMBUFFERSIZE

VARIABLES
    time, numpackets,  \* the request
    ring,              \* the time of the packet in each slot
    cmd,               \* the slot the loop is at
    size,              \* the size of the packet in that slot
    i,                 \* packets copied so far
    fixup,             \* the header of the buffer: time, and starti
    tempptr,           \* bytes of the buffer in use
    written,           \* the buffers passed to WritePacket
    state              \* "start" of a buffer, "copy", "done", "error"

vars == <<time, numpackets, ring, cmd, size, i, fixup, tempptr, written, state>>
-----------------------------------------------------------------------------
Slot == 0 .. MAXCMDS - 1
CommandAddress(t) == t % MAXCMDS

\* The caller has checked that the ring holds the requested packet, and the
\* packets of the tics that follow are in the slots that follow.
Init ==
    /\ time \in RequestedTime
    /\ numpackets \in 0 .. ByteSize - 1
    /\ ring = [a \in Slot |-> CHOOSE t \in time .. time + MAXCMDS - 1 : CommandAddress(t) = a]
    /\ cmd = CommandAddress(time)
    /\ size \in PacketSize
    /\ i = 0
    /\ fixup = [time |-> time, starti |-> 0]
    /\ tempptr = FixupHeader
    /\ written = <<>>
    /\ state = "start"

NextSlotOfBuffer(a) == a                                 \* mutant of NextSlot
NextSlot(a) == (a + 1) % MAXCMDS

StartBuffer ==
    /\ state = "start"
    /\ fixup' = [time |-> ring[cmd], starti |-> i]
    /\ tempptr' = FixupHeader
    /\ state' = "copy"
    /\ UNCHANGED <<time, numpackets, ring, cmd, size, i, written>>

FitsWithoutHeader == tempptr + size <= MAXCOMBUFFERSIZE + FixupHeader \* mutants of Fits
FitsWithReserve == tempptr + size <= MAXCOMBUFFERSIZE - CrcSize - FixupHeader
Fits == tempptr + size <= MAXCOMBUFFERSIZE

CopyPacket ==
    /\ state = "copy"
    /\ i < numpackets
    /\ Fits
    /\ tempptr' = tempptr + size
    /\ i' = i + 1
    /\ cmd' = NextSlot(cmd)
    /\ size' \in PacketSize
    /\ UNCHANGED <<time, numpackets, ring, fixup, written, state>>

CountAll == i                                            \* mutant of Count
Count == i - fixup.starti

\* WritePacket ends the program when the buffer has no room for the CRC.
WriteBuffer ==
    /\ state = "copy"
    /\ i = numpackets \/ ~Fits
    /\ written' = Append(written, [time |-> fixup.time, first |-> fixup.starti,
                                   numpackets |-> Count, len |-> tempptr])
    /\ state' = IF tempptr > MAXCOMBUFFERSIZE - CrcSize THEN "error"
                ELSE IF i = numpackets THEN "done" ELSE "start"
    /\ UNCHANGED <<time, numpackets, ring, cmd, size, i, fixup, tempptr>>

Returned == state \in {"done", "error"} /\ UNCHANGED vars

Next == StartBuffer \/ CopyPacket \/ WriteBuffer \/ Returned

Spec == Init /\ [][Next]_vars
-----------------------------------------------------------------------------
\* The buffers are a sequence of records, and what fills them is in the buffer.
TypeOK ==
    /\ time \in Nat
    /\ numpackets \in 0 .. ByteSize - 1
    /\ cmd \in Slot
    /\ size \in PacketSize
    /\ i \in 0 .. numpackets
    /\ fixup \in [time : Nat, starti : 0 .. i]
    /\ tempptr \in FixupHeader .. MAXCOMBUFFERSIZE
    /\ written \in Seq([time : Nat, first : Nat, numpackets : Nat, len : Nat])
    /\ state \in {"start", "copy", "done", "error"}

\* FixupPacket counts the times from the one in the header on: the k-th buffer
\* starts where the one before ended, and its time is that of its first packet
\* in the request, although the slots wrap around and the buffers hold different
\* numbers of packets.
PiecesInOrder ==
    \A k \in DOMAIN written :
        /\ written[k].first = IF k = 1 THEN 0
                              ELSE written[k - 1].first + written[k - 1].numpackets
        /\ written[k].time = time + written[k].first

\* When the loop is done every requested packet is in a buffer.
NothingLeftOut ==
    state = "done" =>
        LET last == written[Len(written)] IN last.first + last.numpackets = numpackets

\* "WritePacket: Overflowed buffer" is not reached.
BuffersFit == state # "error"

\* The loop gets on: every buffer but that of an empty request takes at least
\* one packet, so that an empty one is not written again and again.
NoEmptyBuffer == numpackets # 0 => \A k \in DOMAIN written : written[k].numpackets > 0
=============================================================================
