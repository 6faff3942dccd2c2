-------------------------------- MODULE Zone --------------------------------
(* The zone allocator (rott/z_zone.c) under the lump cache (rott/w_wad.c).

   A zone is a doubly linked list of blocks that lie side by side, each behind
   its header.  Z_Malloc looks for room from the rover on and throws out the
   purgable blocks it passes; a block that is purged or freed is merged with
   the free blocks around it, and the variable of its owner is cleared.  One
   step is one turn of a loop.  Z_LevelMalloc is Z_Malloc on the other zone;
   the two zones have no block in common, so one zone is modelled.

   Sizes are in units of the alignment.  mem holds the headers by address; the
   header of a block that was merged stays in memory (gone) and Z_FreeTags may
   still read it.                                                             *)
EXTENDS Integers, FiniteSets

CONSTANTS
    ZoneSize,       \* zone->size, without the memzone_t
    HeaderSize,     \* sizeof(memblock_t)
    MINFRAGMENT,
    Lump,           \* lump numbers
    LumpSize,       \* W_LumpLength
    Holder,         \* pointers of callers that give no owner
    Tag, PU_PURGELEVEL,
    LevelTag,       \* the tags Z_FreeTags is called for
    UnownedTag      \* the tags callers without an owner use

Cap == 0            \* &zone->blocklist
First == 1
NULL == -1

Marks == {"free", "unowned", "zone"}

ASSUME ZoneAssumption ==
    /\ HeaderSize \in Nat \ {0} /\ MINFRAGMENT \in Nat /\ MINFRAGMENT >= HeaderSize
    /\ ZoneSize \in Nat /\ ZoneSize >= HeaderSize
    /\ LumpSize \in [Lump -> Nat] /\ Lump \cap Marks = {}
    /\ Tag \subseteq Int /\ LevelTag \subseteq Tag /\ UnownedTag \subseteq Tag
    /\ PU_PURGELEVEL \in Nat \ {0}
    /\ \A t \in UnownedTag \cup LevelTag : t < PU_PURGELEVEL

VARIABLES
    mem,            \* headers by address
    rover,          \* zone->rover
    lumpcache,      \* lumpcache[lump]
    held,           \* the pointers of the holders
    pc,             \* where the call is: idle, scan, found, sweep or fatal
    req,            \* size, tag and user of the Z_Malloc that is running
    base, scan, start,  \* base, rover and start of Z_Malloc
    block           \* block of Z_FreeTags

vars == <<mem, rover, lumpcache, held, pc, req, base, scan, start, block>>

Address == Cap .. ZoneSize
Header == [size : 0 .. ZoneSize, user : Marks \cup Lump, tag : Tag \cup {0},
           next : Address, prev : Address, gone : BOOLEAN]
NoHeader == [size |-> 0, user |-> "free", tag |-> 0, next |-> Cap, prev |-> Cap, gone |-> TRUE]

\* The addresses of the blocks of the list, and of those in use.
Listed(m) == {a \in Address \ {Cap} : ~m[a].gone}
Used(m) == {a \in Listed(m) : m[a].user # "free"}

NoRequest == [size |-> 0, tag |-> 0, user |-> "free", holder |-> NULL]

\* Z_ClearZone: one free block.
ClearZone ==
    [a \in Address |->
        IF a = Cap THEN [size |-> 0, user |-> "zone", tag |-> 0, next |-> First,
                         prev |-> First, gone |-> FALSE]
        ELSE IF a = First THEN [size |-> ZoneSize, user |-> "free", tag |-> 0, next |-> Cap,
                                prev |-> Cap, gone |-> FALSE]
        ELSE NoHeader]

Init ==
    /\ mem = ClearZone /\ rover = First
    /\ lumpcache = [l \in Lump |-> NULL] /\ held = [h \in Holder |-> NULL]
    /\ pc = "idle" /\ req = NoRequest
    /\ base = Cap /\ scan = Cap /\ start = Cap /\ block = Cap

------------------------------------------------------------------------------
\* Block b is merged onto the end of block a before it.
Absorb(z, a, b) ==
    [mem |-> [z.mem EXCEPT ![a].size = @ + z.mem[b].size, ![a].next = z.mem[b].next,
                           ![z.mem[b].next].prev = a, ![b].gone = TRUE],
     rover |-> IF z.rover = b THEN a ELSE z.rover]

FreedBehind(z, b) ==                                     \* mutant of Freed
    LET marked == [z EXCEPT !.mem[b].user = "free"]
        before == z.mem[b].prev
    IN IF z.mem[before].user = "free" THEN Absorb(marked, before, b) ELSE marked
\* Z_Free on headers and rover.
Freed(z, b) ==
    LET marked == [z EXCEPT !.mem[b].user = "free"]
        before == z.mem[b].prev
        back == IF z.mem[before].user = "free" THEN Absorb(marked, before, b) ELSE marked
        at == IF z.mem[before].user = "free" THEN before ELSE b
        after == back.mem[at].next
    IN IF back.mem[after].user = "free" THEN Absorb(back, at, after) ELSE back

ClearedNever(u) == lumpcache                             \* mutant of Cleared
\* *block->user = 0, when user is the address of a variable.
Cleared(u) == IF u \in Lump THEN [lumpcache EXCEPT ![u] = NULL] ELSE lumpcache

\* What a header that is not in the list holds matters only to Z_FreeTags.
Scrubbed(m) == [a \in Address |-> IF m[a].gone THEN NoHeader ELSE m[a]]

\* Z_Free, called in a loop or by the program.
Z_Free(b) ==
    LET z == Freed([mem |-> mem, rover |-> rover], b) IN
    /\ mem' = Scrubbed(z.mem) /\ rover' = z.rover
    /\ lumpcache' = Cleared(mem[b].user)

------------------------------------------------------------------------------
(* Z_Malloc *)

Z_MallocFromRover(size, tag, user, holder) ==            \* mutant of Z_Malloc
    /\ pc = "idle" /\ pc' = "scan"
    /\ req' = [size |-> size + HeaderSize, tag |-> tag, user |-> user, holder |-> holder]
    /\ base' = rover /\ scan' = rover /\ start' = mem[rover].prev
    /\ UNCHANGED <<mem, rover, lumpcache, held, block>>
\* Back up over a free block behind the rover and begin to scan.
Z_Malloc(size, tag, user, holder) ==
    LET prev == mem[rover].prev
        first == IF mem[prev].user = "free" THEN prev ELSE rover
    IN /\ pc = "idle" /\ pc' = "scan"
       /\ req' = [size |-> size + HeaderSize, tag |-> tag, user |-> user, holder |-> holder]
       /\ base' = first /\ scan' = first /\ start' = mem[first].prev
       /\ UNCHANGED <<mem, rover, lumpcache, held, block>>

AroundNever == FALSE                                     \* mutant of Around
\* scaned all the way around the list
Around == scan = start

Fits(m, b) == m[b].user = "free" /\ m[b].size >= req.size
Decide == pc' = IF Fits(mem', base') THEN "found" ELSE "scan"

\* Nothing was found: an Error.
ScanFails ==
    /\ pc = "scan" /\ Around
    /\ pc' = "fatal"
    /\ UNCHANGED <<mem, rover, lumpcache, held, req, base, scan, start, block>>

\* A block that cannot be purged: move base past it.
ScanKeeps ==
    /\ pc = "scan" /\ ~Around
    /\ mem[scan].user # "free" /\ mem[scan].tag < PU_PURGELEVEL
    /\ base' = mem[scan].next /\ scan' = mem[scan].next
    /\ UNCHANGED <<mem, rover, lumpcache, held, req, start, block>>
    /\ Decide

\* A purgable block is freed, which adds it to base or makes it the base.
ScanPurges ==
    /\ pc = "scan" /\ ~Around
    /\ mem[scan].user # "free" /\ mem[scan].tag >= PU_PURGELEVEL
    /\ Z_Free(scan)
    /\ base' = mem'[mem[base].prev].next
    /\ scan' = mem'[base'].next
    /\ UNCHANGED <<held, req, start, block>>
    /\ Decide

ScanPasses ==
    /\ pc = "scan" /\ ~Around
    /\ mem[scan].user = "free"
    /\ scan' = mem[scan].next
    /\ UNCHANGED <<mem, rover, lumpcache, held, req, base, start, block>>
    /\ Decide

SplitAlways(m, b, size) ==                               \* mutant of Split
    LET new == b + size IN
    [m EXCEPT ![new] = [size |-> m[b].size - size, user |-> "free", tag |-> 0,
                        next |-> m[b].next, prev |-> b, gone |-> FALSE],
              ![m[b].next].prev = new, ![b].next = new, ![b].size = size]
SplitKeepsSize(m, b, size) ==                            \* mutant of Split
    LET new == b + size IN
    IF m[b].size - size > MINFRAGMENT
    THEN [m EXCEPT ![new] = [size |-> m[b].size - size, user |-> "free", tag |-> 0,
                             next |-> m[b].next, prev |-> b, gone |-> FALSE],
                   ![m[b].next].prev = new, ![b].next = new]
    ELSE m
\* The rest of the block is a free block of its own, if it is large enough.
Split(m, b, size) ==
    LET new == b + size IN
    IF m[b].size - size > MINFRAGMENT
    THEN [m EXCEPT ![new] = [size |-> m[b].size - size, user |-> "free", tag |-> 0,
                             next |-> m[b].next, prev |-> b, gone |-> FALSE],
                   ![m[b].next].prev = new, ![b].next = new, ![b].size = size]
    ELSE m

Allocate ==
    LET m == Split(mem, base, req.size) IN
    /\ pc = "found" /\ pc' = "idle"
    /\ mem' = [m EXCEPT ![base].user = req.user, ![base].tag = req.tag]
    /\ rover' = m[base].next
    /\ lumpcache' = IF req.user \in Lump THEN [lumpcache EXCEPT ![req.user] = base] ELSE lumpcache
    /\ held' = IF req.user \in Lump THEN held ELSE [held EXCEPT ![req.holder] = base]
    /\ req' = NoRequest /\ base' = Cap /\ scan' = Cap /\ start' = Cap
    /\ UNCHANGED block

------------------------------------------------------------------------------
(* Z_FreeTags *)
BeginSweepAtRover ==                                     \* mutant of BeginSweep
    /\ pc = "idle" /\ pc' = "sweep"
    /\ block' = rover
    /\ UNCHANGED <<mem, rover, lumpcache, held, req, base, scan, start>>
BeginSweep ==
    /\ pc = "idle" /\ pc' = "sweep"
    /\ block' = mem[Cap].next
    /\ UNCHANGED <<mem, rover, lumpcache, held, req, base, scan, start>>

\* next is read before the block is freed.  A block that was merged into the
\* one freed before it is still met: it is free, and its next still holds.
Sweep ==
    /\ pc = "sweep" /\ block # Cap
    /\ IF mem[block].user # "free" /\ mem[block].tag \in LevelTag
       THEN LET z == Freed([mem |-> mem, rover |-> rover], block) IN
            mem' = z.mem /\ rover' = z.rover /\ lumpcache' = Cleared(mem[block].user)
       ELSE UNCHANGED <<mem, rover, lumpcache>>
    /\ block' = mem[block].next
    /\ UNCHANGED <<held, pc, req, base, scan, start>>

\* The callers forget what they held for the level.
EndSweep ==
    /\ pc = "sweep" /\ block = Cap /\ pc' = "idle"
    /\ held' = [h \in Holder |-> IF held[h] # NULL /\ held[h] \in Used(mem) THEN held[h] ELSE NULL]
    /\ mem' = Scrubbed(mem)
    /\ UNCHANGED <<rover, lumpcache, req, base, scan, start, block>>

------------------------------------------------------------------------------
(* The callers *)

\* W_CacheLumpNum: read the lump into a new block, or give its block the tag.
W_CacheLumpNum(l, tag) ==
    /\ pc = "idle"
    /\ IF lumpcache[l] = NULL
       THEN Z_Malloc(LumpSize[l], tag, l, NULL)
       ELSE /\ mem' = [mem EXCEPT ![lumpcache[l]].tag = tag]
            /\ UNCHANGED <<rover, lumpcache, held, pc, req, base, scan, start, block>>

\* SafeMalloc and the calls without an owner.
TakeUnowned(h, size, tag) == held[h] = NULL /\ Z_Malloc(size, tag, "unowned", h)

\* SafeFree, and Z_Free called by the program.
GiveBack(h) ==
    /\ pc = "idle"
    /\ held[h] # NULL
    /\ Z_Free(held[h])
    /\ held' = [held EXCEPT ![h] = NULL]
    /\ UNCHANGED <<pc, req, base, scan, start, block>>

Calls ==
    \/ \E l \in Lump, t \in Tag : W_CacheLumpNum(l, t)
    \/ \E h \in Holder, l \in Lump, t \in UnownedTag : TakeUnowned(h, LumpSize[l], t)
    \/ \E h \in Holder : GiveBack(h)
    \/ BeginSweep

Steps == ScanFails \/ ScanKeeps \/ ScanPurges \/ ScanPasses \/ Allocate \/ Sweep \/ EndSweep

Next == Calls \/ Steps

Spec == Init /\ [][Next]_vars

\* A call that has begun goes on.
FairSpec == Spec /\ WF_vars(Steps)

------------------------------------------------------------------------------
TypeOK ==
    /\ mem \in [Address -> Header]
    /\ rover \in Address
    /\ lumpcache \in [Lump -> Address \cup {NULL}]
    /\ held \in [Holder -> Address \cup {NULL}]
    /\ pc \in {"idle", "scan", "found", "sweep", "fatal"}
    /\ req.user \in Marks \cup Lump /\ req.tag \in Tag \cup {0} /\ req.size \in Nat
    /\ {base, scan, start, block} \subseteq Address

\* The headers of the list: the blocks fill the zone side by side, the links
\* agree, and two free blocks never follow each other.
BlocksTile ==
    \A a \in Listed(mem) \cup {Cap} :
        LET n == mem[a].next IN
        /\ n \in Listed(mem) \cup {Cap} /\ mem[n].prev = a
        /\ IF a = Cap THEN n = First
           ELSE n = IF a + mem[a].size = ZoneSize + 1 THEN Cap ELSE a + mem[a].size
        /\ mem[a].user = "free" => mem[n].user # "free"
        /\ a # Cap => mem[a].size >= HeaderSize

\* The rovers are blocks of the list, whatever was merged around them.
RoversAreListed ==
    /\ rover \in Listed(mem) \cup {Cap}
    /\ pc \in {"scan", "found"} => {base, scan, start} \subseteq Listed(mem) \cup {Cap}

\* Z_CheckHeap, at every step of a call, and for the rovers too: no link and no
\* rover leads to the header of a block that was merged away.
HeapIsSound == BlocksTile /\ RoversAreListed

\* "clear the user's mark": an owner's variable is the address of its block as
\* long as it has one, and NULL afterwards; the pointer of a caller without an
\* owner stays good until the caller, or Z_FreeTags, frees it.
OwnersAreTold ==
    /\ \A l \in Lump :
           /\ lumpcache[l] # NULL => lumpcache[l] \in Used(mem) /\ mem[lumpcache[l]].user = l
           /\ \A a \in Used(mem) : mem[a].user = l => lumpcache[l] = a
    /\ pc # "sweep" => \A h \in Holder :
           held[h] # NULL => held[h] \in Used(mem) /\ mem[held[h]].user = "unowned"

\* When Z_FreeTags is through, no block with one of its tags is left.
SweepIsComplete ==
    pc = "sweep" /\ block = Cap => \A a \in Used(mem) : mem[a].tag \notin LevelTag

\* Z_Malloc gives up only when there is no room and nothing to throw out but
\* the block the scan started behind.
FailureIsReal ==
    pc = "fatal" => \A a \in Listed(mem) :
        /\ ~Fits(mem, a)
        /\ mem[a].user # "free" /\ mem[a].tag >= PU_PURGELEVEL => a = start

\* "It will get overwritten automatically if needed": Z_Malloc does not give up
\* while a cachable block is left.
CachableIsOverwritten ==
    pc = "fatal" => \A a \in Used(mem) : mem[a].tag < PU_PURGELEVEL

\* Every call comes to an end.
CallsEnd == pc # "idle" ~> pc \in {"idle", "fatal"}

\* The zone keeps its promise.
Promise == INSTANCE Heap WITH
    live <- {[owner |-> mem[a].user, at |-> a, size |-> mem[a].size, tag |-> mem[a].tag] :
                a \in Used(mem)}
HeapSpec == Promise!Spec
=============================================================================
