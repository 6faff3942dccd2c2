----------------------------- MODULE ZoneProofs -----------------------------
(***************************************************************************)
(* Theorems about Zone, for every size of zone and header, every set of    *)
(* lumps and holders and all their sizes and tags.                         *)
(***************************************************************************)
EXTENDS Zone, TLAPS

(* What is true of the headers at every step.  The blocks of the list, with
   the cap, are linked both ways, lie side by side and do not overlap; a header
   that was merged away is free.                                            *)
HeadersOK(m) ==
    /\ m \in [Address -> Header]
    /\ m[Cap].user = "zone" /\ ~m[Cap].gone /\ m[Cap].tag < PU_PURGELEVEL
    /\ m[Cap].next = First
    /\ \A a \in Address : m[a].gone => m[a].user = "free"
    /\ \A a \in Address : a # Cap /\ ~m[a].gone =>
           m[a].size >= HeaderSize /\ a + m[a].size <= ZoneSize + 1

LinksOK(m) ==
    \A a \in Address : ~m[a].gone =>
        /\ ~m[m[a].next].gone /\ m[m[a].next].prev = a
        /\ ~m[m[a].prev].gone /\ m[m[a].prev].next = a
        /\ a # Cap => m[a].next = IF a + m[a].size = ZoneSize + 1 THEN Cap ELSE a + m[a].size

DisjointOK(m) ==
    \A a, b \in Address :
        a # Cap /\ a < b /\ ~m[a].gone /\ ~m[b].gone => a + m[a].size <= b

Sound(m) == HeadersOK(m) /\ LinksOK(m) /\ DisjointOK(m)

\* Two free blocks never follow each other.
Coalesced(m) ==
    \A a \in Address : ~m[a].gone /\ m[a].user = "free" => m[m[a].next].user # "free"

\* n is m after the block b was freed: all others in use are what they were, and
\* so is the size of the other free blocks.
FreedOnly(m, n, b) ==
    /\ \A a \in Address : n[a].user = IF a = b THEN "free" ELSE m[a].user
    /\ \A a \in Address : n[a].user # "free" => n[a].size = m[a].size /\ n[a].tag = m[a].tag
    /\ \A a \in Address : ~n[a].gone =>
           ~m[a].gone /\ (a # b /\ a # m[b].prev => n[a].size = m[a].size)

-----------------------------------------------------------------------------
(* Absorb                                                                  *)

\* The headers after block b was merged onto the end of block a.
Joined(m, a, b) ==
    [m EXCEPT ![a].size = @ + m[b].size, ![a].next = m[b].next,
              ![m[b].next].prev = a, ![b].gone = TRUE]

LEMMA JoinedAt ==
    ASSUME NEW m \in [Address -> Header], NEW a \in Address, NEW b \in Address, a # b,
           m[b].next \in Address, m[a].size + m[b].size \in 0 .. ZoneSize
    PROVE  LET n == Joined(m, a, b) IN
           /\ n \in [Address -> Header]
           /\ \A x \in Address :
                /\ n[x].user = m[x].user /\ n[x].tag = m[x].tag
                /\ n[x].size = IF x = a THEN m[a].size + m[b].size ELSE m[x].size
                /\ n[x].next = IF x = a THEN m[b].next ELSE m[x].next
                /\ n[x].prev = IF x = m[b].next THEN a ELSE m[x].prev
                /\ n[x].gone <=> (m[x].gone \/ x = b)
<1> DEFINE w1 == [m EXCEPT ![a].size = m[a].size + m[b].size]
           w2 == [w1 EXCEPT ![a].next = m[b].next]
           w3 == [w2 EXCEPT ![m[b].next].prev = a]
           w4 == [w3 EXCEPT ![b].gone = TRUE]
<1>1. w1 \in [Address -> Header]
  BY DEF Header
<1>2. \A x \in Address :
         /\ w1[x].user = m[x].user /\ w1[x].tag = m[x].tag /\ w1[x].next = m[x].next
         /\ w1[x].prev = m[x].prev /\ w1[x].gone = m[x].gone
         /\ w1[x].size = IF x = a THEN m[a].size + m[b].size ELSE m[x].size
  BY DEF Header
<1> HIDE DEF w1
<1>3. w2 \in [Address -> Header]
  BY <1>1 DEF Header
<1>4. \A x \in Address :
         /\ w2[x].user = w1[x].user /\ w2[x].tag = w1[x].tag /\ w2[x].size = w1[x].size
         /\ w2[x].prev = w1[x].prev /\ w2[x].gone = w1[x].gone
         /\ w2[x].next = IF x = a THEN m[b].next ELSE w1[x].next
  BY <1>1 DEF Header
<1> HIDE DEF w2
<1>5. w3 \in [Address -> Header]
  BY <1>3 DEF Header
<1>6. \A x \in Address :
         /\ w3[x].user = w2[x].user /\ w3[x].tag = w2[x].tag /\ w3[x].size = w2[x].size
         /\ w3[x].next = w2[x].next /\ w3[x].gone = w2[x].gone
         /\ w3[x].prev = IF x = m[b].next THEN a ELSE w2[x].prev
  BY <1>3 DEF Header
<1> HIDE DEF w3
<1>7. w4 \in [Address -> Header]
  BY <1>5 DEF Header
<1>8. \A x \in Address :
         /\ w4[x].user = w3[x].user /\ w4[x].tag = w3[x].tag /\ w4[x].size = w3[x].size
         /\ w4[x].next = w3[x].next /\ w4[x].prev = w3[x].prev
         /\ w4[x].gone = IF x = b THEN TRUE ELSE w3[x].gone
  BY <1>5 DEF Header
<1>9. Joined(m, a, b) = w4
  BY DEF Joined, w1, w2, w3
<1> HIDE DEF w4
<1>10. \A x \in Address : m[x].gone \in BOOLEAN
  BY DEF Header
<1>11. ASSUME NEW x \in Address
       PROVE  /\ w4[x].user = m[x].user /\ w4[x].tag = m[x].tag
              /\ w4[x].size = IF x = a THEN m[a].size + m[b].size ELSE m[x].size
              /\ w4[x].next = IF x = a THEN m[b].next ELSE m[x].next
              /\ w4[x].prev = IF x = m[b].next THEN a ELSE m[x].prev
  <2>1. /\ w2[x].user = m[x].user /\ w2[x].tag = m[x].tag /\ w2[x].prev = m[x].prev
        /\ w2[x].size = IF x = a THEN m[a].size + m[b].size ELSE m[x].size
        /\ w2[x].next = IF x = a THEN m[b].next ELSE m[x].next
    BY <1>2, <1>4
  <2>2. /\ w3[x].user = w2[x].user /\ w3[x].tag = w2[x].tag /\ w3[x].size = w2[x].size
        /\ w3[x].next = w2[x].next
        /\ w3[x].prev = IF x = m[b].next THEN a ELSE w2[x].prev
    BY <1>6
  <2>3. /\ w4[x].user = w3[x].user /\ w4[x].tag = w3[x].tag /\ w4[x].size = w3[x].size
        /\ w4[x].next = w3[x].next /\ w4[x].prev = w3[x].prev
    BY <1>8
  <2> QED
    BY <2>1, <2>2, <2>3
<1>12. ASSUME NEW x \in Address
       PROVE  w4[x].gone <=> (m[x].gone \/ x = b)
  <2>1. w3[x].gone = m[x].gone
    BY <1>2, <1>4, <1>6
  <2> QED
    BY <1>8, <1>10, <2>1
<1> QED
  BY <1>7, <1>9, <1>11, <1>12

\* Merging a free block with the free block after it keeps the list sound.
LEMMA JoinedSound ==
    ASSUME NEW m, Sound(m), NEW a \in Address, ~m[a].gone, m[a].user = "free",
           NEW b, b = m[a].next, m[b].user = "free"
    PROVE  LET n == Joined(m, a, b) IN
              /\ Sound(n) /\ b \in Address /\ b # Cap /\ b # a /\ ~m[b].gone
              /\ \A x \in Address :
                    /\ n[x].user = m[x].user /\ n[x].tag = m[x].tag
                    /\ x # a => n[x].size = m[x].size /\ n[x].next = m[x].next
                    /\ x # m[b].next => n[x].prev = m[x].prev
                    /\ n[x].gone <=> (m[x].gone \/ x = b)
              /\ n[a].next = m[b].next /\ m[b].next # a
<1> DEFINE n == Joined(m, a, b)
<1>1. m \in [Address -> Header] /\ Cap \in Address /\ a # Cap
  BY ZoneAssumption DEF Sound, HeadersOK, Address, Cap
<1>2. b \in Address /\ b # Cap /\ ~m[b].gone /\ m[b].prev = a
  BY <1>1 DEF Sound, HeadersOK, LinksOK, Header
<1>3. b = a + m[a].size /\ m[a].size \in Nat /\ m[b].size \in Nat /\ m[a].size >= HeaderSize
      /\ m[b].size >= HeaderSize /\ b + m[b].size <= ZoneSize + 1
  BY <1>1, <1>2 DEF Sound, HeadersOK, LinksOK, Header
<1>4. b # a /\ b > a /\ a \in Nat /\ a >= 1 /\ m[a].size + m[b].size \in 0 .. ZoneSize
  <2>1. a \in Nat /\ a >= 1
    BY <1>1, ZoneAssumption DEF Address, Cap
  <2>2. HeaderSize \in Nat /\ HeaderSize >= 1 /\ ZoneSize \in Nat
    BY ZoneAssumption
  <2>3. b > a
    BY <1>3, <2>1, <2>2
  <2>4. m[a].size + m[b].size <= ZoneSize
    BY <1>3, <2>1, <2>2
  <2> QED
    BY <1>3, <2>1, <2>2, <2>3, <2>4
<1>5. m[b].next \in Address /\ ~m[m[b].next].gone /\ m[m[b].next].prev = b
      /\ m[b].next = IF b + m[b].size = ZoneSize + 1 THEN Cap ELSE b + m[b].size
  BY <1>1, <1>2 DEF Sound, LinksOK, Header
<1>6. m[b].next # a /\ m[b].next # b
  BY <1>1, <1>3, <1>4, <1>5, ZoneAssumption DEF Address, Cap
<1>7. /\ n \in [Address -> Header]
      /\ \A x \in Address :
            /\ n[x].user = m[x].user /\ n[x].tag = m[x].tag
            /\ n[x].size = IF x = a THEN m[a].size + m[b].size ELSE m[x].size
            /\ n[x].next = IF x = a THEN m[b].next ELSE m[x].next
            /\ n[x].prev = IF x = m[b].next THEN a ELSE m[x].prev
            /\ n[x].gone <=> (m[x].gone \/ x = b)
  <2>1. /\ m \in [Address -> Header] /\ a \in Address /\ b \in Address /\ a # b
        /\ m[b].next \in Address /\ m[a].size + m[b].size \in 0 .. ZoneSize
    BY <1>1, <1>2, <1>4, <1>5
  <2> HIDE DEF n
  <2> QED
    BY <2>1, JoinedAt DEF n
<1> HIDE DEF n
<1>8. HeadersOK(n)
  <2>1. n[Cap].user = "zone" /\ ~n[Cap].gone /\ n[Cap].tag < PU_PURGELEVEL /\ n[Cap].next = First
    BY <1>1, <1>2, <1>7 DEF Sound, HeadersOK
  <2>2. \A x \in Address : n[x].gone => n[x].user = "free"
    BY <1>7 DEF Sound, HeadersOK
  <2>3. ASSUME NEW x \in Address, x # Cap, ~n[x].gone
        PROVE  n[x].size >= HeaderSize /\ x + n[x].size <= ZoneSize + 1
    <3>1. m[x].size >= HeaderSize /\ x + m[x].size <= ZoneSize + 1
      BY <1>7, <2>3 DEF Sound, HeadersOK
    <3>2. CASE x = a
      <4>1. n[x].size = m[a].size + m[b].size
        BY <1>7, <3>2
      <4> QED
        BY <1>3, <1>4, <3>2, <4>1, ZoneAssumption
    <3>3. CASE x # a
      BY <1>7, <3>1, <3>3
    <3> QED
      BY <3>2, <3>3
  <2> QED
    BY <1>7, <2>1, <2>2, <2>3 DEF HeadersOK
<1>9. LinksOK(n)
  <2> SUFFICES ASSUME NEW x \in Address, ~n[x].gone
               PROVE  /\ ~n[n[x].next].gone /\ n[n[x].next].prev = x
                      /\ ~n[n[x].prev].gone /\ n[n[x].prev].next = x
                      /\ x # Cap => n[x].next = IF x + n[x].size = ZoneSize + 1 THEN Cap
                                                ELSE x + n[x].size
    BY DEF LinksOK
  <2>1. x # b /\ ~m[x].gone
    BY <1>7
  <2>2. /\ ~m[m[x].next].gone /\ m[m[x].next].prev = x
        /\ ~m[m[x].prev].gone /\ m[m[x].prev].next = x
        /\ x # Cap => m[x].next = IF x + m[x].size = ZoneSize + 1 THEN Cap ELSE x + m[x].size
        /\ m[x].next \in Address /\ m[x].prev \in Address
    BY <1>1, <2>1 DEF Sound, LinksOK, Header
  <2>3. ~n[n[x].next].gone /\ n[n[x].next].prev = x
    <3>1. CASE x = a
      <4>1. n[x].next = m[b].next
        BY <1>7, <3>1
      <4> QED
        BY <1>5, <1>6, <1>7, <3>1, <4>1
    <3>2. CASE x # a
      <4>1. n[x].next = m[x].next
        BY <1>7, <3>2
      <4>2. m[x].next # b /\ m[x].next # m[b].next
        BY <1>2, <1>5, <2>1, <2>2, <3>2
      <4> QED
        BY <1>7, <2>2, <4>1, <4>2
    <3> QED
      BY <3>1, <3>2
  <2>4. ~n[n[x].prev].gone /\ n[n[x].prev].next = x
    <3>1. CASE x = m[b].next
      BY <1>4, <1>7, <3>1
    <3>2. CASE x # m[b].next
      <4>1. n[x].prev = m[x].prev /\ m[x].prev # b /\ m[x].prev # a
        BY <1>7, <2>1, <2>2, <3>2
      <4> QED
        BY <1>7, <2>2, <4>1
    <3> QED
      BY <3>1, <3>2
  <2>5. x # Cap => n[x].next = IF x + n[x].size = ZoneSize + 1 THEN Cap ELSE x + n[x].size
    <3>1. CASE x = a
      <4>1. n[x].next = m[b].next /\ n[x].size = m[a].size + m[b].size
        BY <1>7, <3>1
      <4>2. x + n[x].size = b + m[b].size
        BY <1>3, <1>4, <3>1, <4>1
      <4> QED
        BY <1>5, <4>1, <4>2
    <3>2. CASE x # a
      BY <1>7, <2>2, <3>2
    <3> QED
      BY <3>1, <3>2
  <2> QED
    BY <2>3, <2>4, <2>5
<1>10. DisjointOK(n)
  <2> SUFFICES ASSUME NEW x \in Address, NEW y \in Address, x # Cap, x < y,
                      ~n[x].gone, ~n[y].gone
               PROVE  x + n[x].size <= y
    BY DEF DisjointOK
  <2>1. x # b /\ y # b /\ ~m[x].gone /\ ~m[y].gone
    BY <1>7
  <2>2. x + m[x].size <= y
    BY <2>1 DEF Sound, DisjointOK
  <2>3. CASE x = a
    <3>1. y > b
      BY <1>3, <2>1, <2>2, <2>3, <1>4 DEF Address
    <3>2. b + m[b].size <= y
      BY <1>2, <2>1, <3>1 DEF Sound, DisjointOK
    <3> QED
      BY <1>3, <1>4, <1>7, <2>3, <3>2 DEF Address
  <2> QED
    BY <1>7, <2>2, <2>3
<1> QED
  BY <1>2, <1>4, <1>6, <1>7, <1>8, <1>9, <1>10 DEF Sound, n
-----------------------------------------------------------------------------
(* Z_Free                                                                  *)

\* Marking a block as free keeps the list sound.
LEMMA MarkedSound ==
    ASSUME NEW m, Sound(m), NEW b \in Address, b # Cap
    PROVE  LET n == [m EXCEPT ![b].user = "free"] IN
           /\ Sound(n)
           /\ \A x \in Address :
                /\ n[x].user = IF x = b THEN "free" ELSE m[x].user
                /\ n[x].tag = m[x].tag /\ n[x].size = m[x].size /\ n[x].gone = m[x].gone
                /\ n[x].next = m[x].next /\ n[x].prev = m[x].prev
<1> DEFINE n == [m EXCEPT ![b].user = "free"]
<1>1. m \in [Address -> Header]
  BY DEF Sound, HeadersOK
<1>2. n \in [Address -> Header]
  BY <1>1 DEF Header, Marks
<1>3. \A x \in Address :
        /\ n[x].user = IF x = b THEN "free" ELSE m[x].user
        /\ n[x].tag = m[x].tag /\ n[x].size = m[x].size /\ n[x].gone = m[x].gone
        /\ n[x].next = m[x].next /\ n[x].prev = m[x].prev
  BY <1>1 DEF Header
<1> HIDE DEF n
<1>4. \A x \in Address : m[x].next \in Address /\ m[x].prev \in Address
  BY <1>1 DEF Header
<1>5. Cap \in Address
  BY ZoneAssumption DEF Address, Cap
<1>6. HeadersOK(n)
  BY <1>2, <1>3, <1>5 DEF Sound, HeadersOK
<1>7. LinksOK(n)
  BY <1>3, <1>4 DEF Sound, LinksOK
<1>8. DisjointOK(n)
  BY <1>3 DEF Sound, DisjointOK
<1> QED
  BY <1>3, <1>6, <1>7, <1>8 DEF Sound, n

\* No block is its own neighbour.
LEMMA Apart ==
    ASSUME NEW m, Sound(m), NEW b \in Address, ~m[b].gone, b # Cap
    PROVE  m[b].next # b /\ m[b].prev # b
<1>1. b \in Nat /\ m[b] \in Header /\ m[b].size >= HeaderSize
  BY ZoneAssumption DEF Sound, HeadersOK, Address, Cap
<1>2. m[b].size \in Nat /\ m[b].size >= 1
  BY <1>1, ZoneAssumption DEF Header
<1>3. m[b].next # b
  BY <1>1, <1>2 DEF Sound, LinksOK
<1> QED
  BY <1>3 DEF Sound, LinksOK

\* The second half of Z_Free: merge the block after e, if it is free.
MergeNext(c, e) == IF c[c[e].next].user = "free" THEN Joined(c, e, c[e].next) ELSE c

LEMMA MergeNextSound ==
    ASSUME NEW c, Sound(c), NEW e \in Address, ~c[e].gone, c[e].user = "free",
           c[c[e].prev].user # "free",
           \A x \in Address : x # e /\ ~c[x].gone /\ c[x].user = "free" =>
                c[c[x].next].user # "free"
    PROVE  LET d == MergeNext(c, e) IN
           /\ Sound(d) /\ Coalesced(d)
           /\ \A x \in Address :
                /\ d[x].user = c[x].user /\ d[x].tag = c[x].tag
                /\ x # e => d[x].size = c[x].size /\ d[x].next = c[x].next
                /\ c[x].gone => d[x].gone
                /\ d[x].gone => c[x].gone \/ (x = c[e].next /\ c[x].user = "free")
           /\ d[c[e].prev].next = e /\ ~d[e].gone
<1> DEFINE q == c[e].next
           d == MergeNext(c, e)
<1>1. /\ \A x \in Address : c[x].next \in Address /\ c[x].prev \in Address
      /\ e # Cap /\ c[c[e].prev].next = e /\ c[e].prev # e
  BY DEF Sound, HeadersOK, LinksOK, Header
<1>2. CASE c[q].user # "free"
  <2>1. d = c
    BY <1>2 DEF MergeNext
  <2>2. Coalesced(c)
    BY <1>2 DEF Coalesced
  <2> HIDE DEF d
  <2> QED
    BY <1>1, <2>1, <2>2 DEF d
<1>3. CASE c[q].user = "free"
  <2>1. d = Joined(c, e, q)
    BY <1>3 DEF MergeNext
  <2> HIDE DEF d
  <2>2. /\ Sound(d) /\ q \in Address /\ q # e /\ ~c[q].gone
        /\ \A x \in Address :
              /\ d[x].user = c[x].user /\ d[x].tag = c[x].tag
              /\ x # e => d[x].size = c[x].size /\ d[x].next = c[x].next
              /\ d[x].gone <=> (c[x].gone \/ x = q)
        /\ d[e].next = c[q].next
    BY <1>3, <2>1, JoinedSound
  <2>3. Coalesced(d)
    <3> SUFFICES ASSUME NEW x \in Address, ~d[x].gone, d[x].user = "free"
                 PROVE  d[d[x].next].user # "free"
      BY DEF Coalesced
    <3>1. x # q /\ ~c[x].gone /\ c[x].user = "free"
      BY <2>2
    <3>2. CASE x = e
      BY <1>1, <1>3, <2>2, <3>2
    <3>3. CASE x # e
      BY <1>1, <2>2, <3>1, <3>3
    <3> QED
      BY <3>2, <3>3
  <2>4. d[c[e].prev].next = e /\ ~d[e].gone
    BY <1>1, <2>2
  <2> QED
    BY <1>3, <2>2, <2>3, <2>4 DEF d
<1> QED
  BY <1>2, <1>3

\* Z_Free with its merges as two joins in sequence.
FreedAs(m, r, b) ==
    LET k == [m EXCEPT ![b].user = "free"]
        p == m[b].prev
        c == IF m[p].user = "free" THEN Joined(k, p, b) ELSE k
        e == IF m[p].user = "free" THEN p ELSE b
        s == IF m[p].user = "free" /\ r = b THEN p ELSE r
    IN [mem |-> MergeNext(c, e),
        rover |-> IF c[c[e].next].user = "free" /\ s = c[e].next THEN e ELSE s]

LEMMA FreedIsMerged ==
    ASSUME NEW z, z = [mem |-> z.mem, rover |-> z.rover], NEW b
    PROVE  Freed(z, b) = FreedAs(z.mem, z.rover, b)
<1> DEFINE m == z.mem
           r == z.rover
           k == [m EXCEPT ![b].user = "free"]
           p == m[b].prev
           c == IF m[p].user = "free" THEN Joined(k, p, b) ELSE k
           e == IF m[p].user = "free" THEN p ELSE b
           s == IF m[p].user = "free" /\ r = b THEN p ELSE r
           marked == [z EXCEPT !.mem[b].user = "free"]
           back == IF m[p].user = "free" THEN Absorb(marked, p, b) ELSE marked
           done == IF back.mem[back.mem[e].next].user = "free"
                   THEN Absorb(back, e, back.mem[e].next) ELSE back
<1>1. marked = [mem |-> k, rover |-> r]
  OBVIOUS
<1>2. ASSUME NEW w, NEW x, NEW y
      PROVE  Absorb(w, x, y) =
        [mem |-> Joined(w.mem, x, y), rover |-> IF w.rover = y THEN x ELSE w.rover]
  BY DEF Absorb, Joined
<1> HIDE DEF marked, m, r, k, p, c, e, s
<1>3. marked.mem = k /\ marked.rover = r
  BY <1>1
<1>4. Absorb(marked, p, b) = [mem |-> Joined(k, p, b), rover |-> IF r = b THEN p ELSE r]
  BY <1>2, <1>3
<1>5. back = [mem |-> c, rover |-> s]
  BY <1>1, <1>4 DEF c, s
<1>6. Freed(z, b) = done
  BY DEF Freed, marked, m, p, e
<1> HIDE DEF back
<1>7. back.mem = c /\ back.rover = s
  BY <1>5
<1>8. done = IF c[c[e].next].user = "free" THEN Absorb(back, e, c[e].next) ELSE back
  BY <1>7
<1>9. Absorb(back, e, c[e].next) =
        [mem |-> Joined(c, e, c[e].next), rover |-> IF s = c[e].next THEN e ELSE s]
  BY <1>2, <1>7
<1> QED
  BY <1>5, <1>6, <1>8, <1>9 DEF FreedAs, MergeNext, m, r, k, p, c, e, s

\* What freeing a block does to the headers and to the rover, and what a scan
\* that goes on behind the block finds there.
LEMMA FreedSound ==
    ASSUME NEW m, Sound(m), Coalesced(m), NEW r \in Address, ~m[r].gone,
           NEW y, y = [mem |-> m, rover |-> r],
           NEW b \in Address, b # Cap, ~m[b].gone, m[b].user # "free"
    PROVE  LET z == Freed(y, b)
               p == m[b].prev
           IN /\ Sound(z.mem) /\ Coalesced(z.mem) /\ FreedOnly(m, z.mem, b)
              /\ z.rover \in Address /\ ~z.mem[z.rover].gone
              /\ m[p].user = "free" =>
                    ~z.mem[m[p].prev].gone /\ z.mem[m[p].prev].next = p
              /\ m[p].user # "free" => ~z.mem[p].gone /\ z.mem[p].next = b
              /\ z.mem[m[b].next].next = m[m[b].next].next
<1> DEFINE z == Freed(y, b)
           p == m[b].prev
           q == m[b].next
           k == [m EXCEPT ![b].user = "free"]
<1>0. z = FreedAs(m, r, b)
  BY FreedIsMerged
<1> HIDE DEF z
<1>1. /\ \A x \in Address : m[x].next \in Address /\ m[x].prev \in Address
      /\ p \in Address /\ q \in Address /\ ~m[p].gone /\ ~m[q].gone
      /\ m[p].next = b /\ m[q].prev = b /\ p # b /\ q # b
  BY Apart DEF Sound, HeadersOK, LinksOK, Header
<1>2. /\ Sound(k)
      /\ \A x \in Address :
            /\ k[x].user = IF x = b THEN "free" ELSE m[x].user
            /\ k[x].tag = m[x].tag /\ k[x].size = m[x].size /\ k[x].gone = m[x].gone
            /\ k[x].next = m[x].next /\ k[x].prev = m[x].prev
  BY MarkedSound
<1> HIDE DEF p, q, k
<1>3. CASE m[p].user # "free"
  <2>1. z = [mem |-> MergeNext(k, b),
             rover |-> IF k[q].user = "free" /\ r = q THEN b ELSE r]
    <3>1. k[b].next = q
      BY <1>2 DEF q
    <3> QED
      BY <1>0, <1>3, <3>1 DEF FreedAs, p, k
  <2>2. k[k[b].prev].user # "free"
    BY <1>1, <1>2, <1>3 DEF p
  <2>3. ASSUME NEW x \in Address, x # b, ~k[x].gone, k[x].user = "free"
        PROVE  k[k[x].next].user # "free"
    <3>1. m[m[x].next].user # "free"
      BY <1>2, <2>3 DEF Coalesced
    <3>2. m[x].next # b
      BY <1>2, <1>3, <2>3 DEF Sound, LinksOK, p
    <3> QED
      BY <1>1, <1>2, <3>1, <3>2
  <2>4. LET d == MergeNext(k, b) IN
        /\ Sound(d) /\ Coalesced(d)
        /\ \A x \in Address :
              /\ d[x].user = k[x].user /\ d[x].tag = k[x].tag
              /\ x # b => d[x].size = k[x].size /\ d[x].next = k[x].next
              /\ k[x].gone => d[x].gone
              /\ d[x].gone => k[x].gone \/ (x = k[b].next /\ k[x].user = "free")
        /\ d[k[b].prev].next = b /\ ~d[b].gone
    BY <1>2, <2>2, <2>3, MergeNextSound
  <2>5. FreedOnly(m, z.mem, b)
    <3>1. \A x \in Address : z.mem[x].user = IF x = b THEN "free" ELSE m[x].user
      BY <1>2, <2>1, <2>4
    <3>2. ASSUME NEW x \in Address, z.mem[x].user # "free"
          PROVE  z.mem[x].size = m[x].size /\ z.mem[x].tag = m[x].tag
      BY <1>2, <2>1, <2>4, <3>1, <3>2
    <3>3. ASSUME NEW x \in Address, ~z.mem[x].gone
          PROVE  ~m[x].gone /\ (x # b => z.mem[x].size = m[x].size)
      BY <1>2, <2>1, <2>4, <3>3
    <3> QED
      BY <3>1, <3>2, <3>3 DEF FreedOnly
  <2>6. z.rover \in Address /\ ~z.mem[z.rover].gone
    BY <1>1, <1>2, <2>1, <2>4 DEF q
  <2>7. z.mem[q].next = m[q].next
    BY <1>1, <1>2, <2>1, <2>4
  <2> QED
    BY <1>1, <1>2, <1>3, <2>1, <2>4, <2>5, <2>6, <2>7 DEF z, p, q
<1>4. CASE m[p].user = "free"
  <2> DEFINE j == Joined(k, p, b)
             s == IF r = b THEN p ELSE r
  <2>1. /\ Sound(j)
        /\ \A x \in Address :
              /\ j[x].user = k[x].user /\ j[x].tag = k[x].tag
              /\ x # p => j[x].size = k[x].size /\ j[x].next = k[x].next
              /\ x # q => j[x].prev = k[x].prev
              /\ j[x].gone <=> (k[x].gone \/ x = b)
        /\ j[p].next = q /\ q # p
    <3>1. ~k[p].gone /\ k[p].user = "free" /\ k[p].next = b /\ k[b].user = "free" /\ k[b].next = q
      BY <1>1, <1>2, <1>4 DEF q
    <3> HIDE DEF j
    <3> QED
      BY <1>1, <1>2, <3>1, JoinedSound DEF j
  <2>2. z = [mem |-> MergeNext(j, p),
             rover |-> IF j[q].user = "free" /\ s = q THEN p ELSE s]
    <3> HIDE DEF j, s
    <3> QED
      BY <1>0, <1>4, <2>1 DEF FreedAs, p, k, j, s
  <2> HIDE DEF j
  <2>3. ~j[p].gone /\ j[p].user = "free" /\ j[p].prev = m[p].prev
    BY <1>1, <1>2, <1>4, <2>1
  <2>4. /\ m[p].prev \in Address /\ ~m[m[p].prev].gone /\ m[m[p].prev].next = p
        /\ m[m[p].prev].user # "free" /\ m[p].prev # b
    BY <1>1, <1>4, <2>1 DEF Sound, LinksOK, Coalesced, q
  <2>5. j[j[p].prev].user # "free"
    BY <1>2, <2>1, <2>3, <2>4
  <2>6. ASSUME NEW x \in Address, x # p, ~j[x].gone, j[x].user = "free"
        PROVE  j[j[x].next].user # "free"
    <3>1. x # b /\ ~m[x].gone /\ m[x].user = "free" /\ j[x].next = m[x].next
      BY <1>2, <2>1, <2>6
    <3>2. m[m[x].next].user # "free"
      BY <3>1 DEF Coalesced
    <3>3. m[x].next # b
      BY <2>6, <3>1 DEF Sound, LinksOK, p
    <3> QED
      BY <1>1, <1>2, <2>1, <3>1, <3>2, <3>3
  <2>7. LET d == MergeNext(j, p) IN
        /\ Sound(d) /\ Coalesced(d)
        /\ \A x \in Address :
              /\ d[x].user = j[x].user /\ d[x].tag = j[x].tag
              /\ x # p => d[x].size = j[x].size /\ d[x].next = j[x].next
              /\ j[x].gone => d[x].gone
              /\ d[x].gone => j[x].gone \/ (x = j[p].next /\ j[x].user = "free")
        /\ d[j[p].prev].next = p /\ ~d[p].gone
    BY <1>1, <2>1, <2>3, <2>5, <2>6, MergeNextSound
  <2>8. FreedOnly(m, z.mem, b)
    <3>1. \A x \in Address : z.mem[x].user = IF x = b THEN "free" ELSE m[x].user
      BY <1>2, <2>1, <2>2, <2>7
    <3>2. ASSUME NEW x \in Address, z.mem[x].user # "free"
          PROVE  z.mem[x].size = m[x].size /\ z.mem[x].tag = m[x].tag
      BY <1>2, <1>4, <2>1, <2>2, <2>7, <3>1, <3>2
    <3>3. ASSUME NEW x \in Address, ~z.mem[x].gone
          PROVE  ~m[x].gone /\ (x # b /\ x # p => z.mem[x].size = m[x].size)
      BY <1>2, <2>1, <2>2, <2>7, <3>3
    <3> QED
      BY <3>1, <3>2, <3>3 DEF FreedOnly, p
  <2>9. z.rover \in Address /\ ~z.mem[z.rover].gone
    BY <1>1, <1>2, <2>1, <2>2, <2>7
  <2>10. ~z.mem[m[p].prev].gone
    BY <2>2, <2>4, <2>7, <2>8 DEF FreedOnly, Sound, HeadersOK
  <2>11. z.mem[q].next = m[q].next
    BY <1>1, <1>2, <2>1, <2>2, <2>7
  <2> QED
    BY <1>4, <2>2, <2>3, <2>7, <2>8, <2>9, <2>10, <2>11 DEF z, p, q
<1> QED
  BY <1>3, <1>4

\* Forgetting what the headers outside the list held changes nothing in it.
LEMMA ScrubbedSound ==
    ASSUME NEW m, Sound(m)
    PROVE  LET n == Scrubbed(m) IN
           /\ Sound(n) /\ (Coalesced(m) => Coalesced(n))
           /\ \A x \in Address :
                /\ n[x].user = m[x].user /\ (n[x].gone <=> m[x].gone)
                /\ ~m[x].gone => n[x] = m[x]
<1> DEFINE n == Scrubbed(m)
<1>1. m \in [Address -> Header] /\ Cap \in Address
  BY ZoneAssumption DEF Sound, HeadersOK, Address, Cap
<1>2. NoHeader \in Header
  BY ZoneAssumption DEF NoHeader, Header, Marks, Address, Cap
<1>3. n \in [Address -> Header]
  BY <1>1, <1>2 DEF Scrubbed
<1>4. \A x \in Address : n[x] = IF m[x].gone THEN NoHeader ELSE m[x]
  BY DEF Scrubbed
<1> HIDE DEF n
<1>5. \A x \in Address : n[x].user = m[x].user /\ (n[x].gone <=> m[x].gone)
  BY <1>1, <1>4 DEF NoHeader, Sound, HeadersOK, Header
<1>6. \A x \in Address : m[x].next \in Address /\ m[x].prev \in Address
  BY <1>1 DEF Header
<1>7. HeadersOK(n)
  BY <1>1, <1>3, <1>4, <1>5 DEF Sound, HeadersOK
<1>8. LinksOK(n)
  BY <1>4, <1>5, <1>6 DEF Sound, LinksOK
<1>9. DisjointOK(n)
  BY <1>4, <1>5 DEF Sound, DisjointOK
<1>10. ASSUME Coalesced(m) PROVE Coalesced(n)
  BY <1>4, <1>5, <1>6, <1>10 DEF Coalesced
<1> QED
  BY <1>4, <1>5, <1>7, <1>8, <1>9, <1>10 DEF Sound, n

-----------------------------------------------------------------------------
(* The inductive invariant                                                 *)

\* The headers are sound and the rover is a block of the list.
HeapInv ==
    /\ Sound(mem) /\ Coalesced(mem)
    /\ rover \in Address /\ ~mem[rover].gone

\* lumpcache and the blocks of lumps point at each other.
LumpsTold(m, cache) ==
    /\ cache \in [Lump -> Address \cup {NULL}]
    /\ \A l \in Lump : cache[l] # NULL => m[cache[l]].user = l
    /\ \A a \in Address, l \in Lump : m[a].user = l => cache[l] = a

\* A block without an owner belongs to one holder and is not purgable.  While
\* Z_FreeTags runs, what a holder holds may have been freed already.
HoldersTold ==
    /\ held \in [Holder -> Address \cup {NULL}]
    /\ \A h \in Holder : held[h] # NULL =>
           \/ mem[held[h]].user = "unowned"
           \/ pc = "sweep" /\ mem[held[h]].user = "free"
    /\ \A h, g \in Holder : held[h] # NULL /\ held[h] = held[g] => h = g
    /\ \A a \in Address : mem[a].user = "unowned" => mem[a].tag \in UnownedTag

\* Who asks for a block has none yet.
RequestInv ==
    /\ req.size \in Nat /\ req.tag \in Tag \cup {0} /\ req.user \in Marks \cup Lump
    /\ pc \in {"scan", "found"} =>
        /\ req.size >= HeaderSize /\ req.tag \in Tag
        /\ \/ req.user \in Lump /\ lumpcache[req.user] = NULL
           \/ /\ req.user = "unowned" /\ req.tag \in UnownedTag
              /\ req.holder \in Holder /\ held[req.holder] = NULL

\* base is where the scan is, with a block in use behind it, or the free block
\* behind the scan.
ScanInv ==
    /\ pc \in {"idle", "scan", "found", "sweep", "fatal"}
    /\ base \in Address /\ scan \in Address /\ start \in Address /\ block \in Address
    /\ pc \in {"scan", "found"} =>
        /\ ~mem[base].gone /\ ~mem[scan].gone /\ mem[start].user # "free"
        /\ \/ base = scan /\ mem[mem[base].prev].user # "free"
           \/ mem[base].user = "free" /\ scan = mem[base].next
    /\ pc = "found" => mem[base].user = "free" /\ mem[base].size >= req.size

IInv == HeapInv /\ LumpsTold(mem, lumpcache) /\ HoldersTold /\ RequestInv /\ ScanInv

-----------------------------------------------------------------------------
(* Freeing a block                                                         *)

\* FreedOnly, and what the scan finds where it goes on.
FreedAt(n, b) ==
    /\ Sound(n) /\ Coalesced(n) /\ FreedOnly(mem, n, b)
    /\ mem[mem[b].prev].user = "free" =>
           ~n[mem[mem[b].prev].prev].gone /\ n[mem[mem[b].prev].prev].next = mem[b].prev
    /\ mem[mem[b].prev].user # "free" => ~n[mem[b].prev].gone /\ n[mem[b].prev].next = b

LEMMA FreedStep ==
    ASSUME HeapInv, NEW b \in Address, b # Cap, mem[b].user # "free"
    PROVE  LET z == Freed([mem |-> mem, rover |-> rover], b) IN
           /\ FreedAt(z.mem, b) /\ FreedAt(Scrubbed(z.mem), b)
           /\ z.rover \in Address /\ ~z.mem[z.rover].gone /\ ~Scrubbed(z.mem)[z.rover].gone
           /\ z.mem[mem[b].next].next = mem[mem[b].next].next
<1> DEFINE y == [mem |-> mem, rover |-> rover]
           z == Freed(y, b)
           p == mem[b].prev
<1>1. ~mem[b].gone
  BY DEF HeapInv, Sound, HeadersOK
<1>2. /\ Sound(z.mem) /\ Coalesced(z.mem) /\ FreedOnly(mem, z.mem, b)
      /\ z.rover \in Address /\ ~z.mem[z.rover].gone
      /\ mem[p].user = "free" => ~z.mem[mem[p].prev].gone /\ z.mem[mem[p].prev].next = p
      /\ mem[p].user # "free" => ~z.mem[p].gone /\ z.mem[p].next = b
      /\ z.mem[mem[b].next].next = mem[mem[b].next].next
  <2> HIDE DEF y
  <2> QED
    BY <1>1, FreedSound DEF HeapInv, y
<1>3. p \in Address /\ mem[p].prev \in Address
  BY DEF HeapInv, Sound, HeadersOK, Header
<1> HIDE DEF z, p
<1> DEFINE n == Scrubbed(z.mem)
<1>4. /\ Sound(n) /\ Coalesced(n)
      /\ \A x \in Address :
            /\ n[x].user = z.mem[x].user /\ (n[x].gone <=> z.mem[x].gone)
            /\ ~z.mem[x].gone => n[x] = z.mem[x]
  BY <1>2, ScrubbedSound
<1> HIDE DEF n
<1>5. FreedOnly(mem, n, b)
  <2>1. \A x \in Address : z.mem[x].user # "free" => ~z.mem[x].gone
    BY <1>2 DEF Sound, HeadersOK
  <2> QED
    BY <1>2, <1>4, <2>1 DEF FreedOnly
<1> QED
  BY <1>2, <1>3, <1>4, <1>5 DEF FreedAt, n, z, p

LEMMA ClearedTold ==
    ASSUME LumpsTold(mem, lumpcache), NEW b \in Address, NEW n, FreedOnly(mem, n, b)
    PROVE  LumpsTold(n, Cleared(mem[b].user))
<1> DEFINE c == Cleared(mem[b].user)
<1>1. /\ c \in [Lump -> Address \cup {NULL}]
      /\ \A l \in Lump : c[l] = IF l = mem[b].user THEN NULL ELSE lumpcache[l]
  BY DEF LumpsTold, Cleared
<1>2. "free" \notin Lump /\ NULL \notin Address
  BY ZoneAssumption DEF Marks, NULL, Address, Cap
<1> HIDE DEF c
<1>3. ASSUME NEW l \in Lump, c[l] # NULL
      PROVE  n[c[l]].user = l
  <2>1. l # mem[b].user /\ c[l] = lumpcache[l] /\ lumpcache[l] \in Address
        /\ mem[lumpcache[l]].user = l
    BY <1>1, <1>3 DEF LumpsTold
  <2> QED
    BY <2>1 DEF FreedOnly
<1>4. ASSUME NEW a \in Address, NEW l \in Lump, n[a].user = l
      PROVE  c[l] = a
  <2>1. a # b /\ mem[a].user = l
    BY <1>2, <1>4 DEF FreedOnly
  <2>2. l # mem[b].user
    BY <2>1 DEF LumpsTold
  <2> QED
    BY <1>1, <2>1, <2>2 DEF LumpsTold
<1> QED
  BY <1>1, <1>3, <1>4 DEF LumpsTold, c

-----------------------------------------------------------------------------
(* Taking a block                                                          *)

LEMMA SplitAt ==
    ASSUME NEW m \in [Address -> Header], NEW b \in Address, NEW size \in 0 .. ZoneSize,
           m[b].size - size > MINFRAGMENT, NEW new \in Address, new = b + size,
           NEW q \in Address, q = m[b].next, new # b, new # q, b # q
    PROVE  LET n == Split(m, b, size) IN
           /\ n \in [Address -> Header]
           /\ \A x \in Address :
                /\ n[x].user = IF x = new THEN "free" ELSE m[x].user
                /\ n[x].tag = IF x = new THEN 0 ELSE m[x].tag
                /\ n[x].size = IF x = new THEN m[b].size - size ELSE IF x = b THEN size ELSE m[x].size
                /\ n[x].next = IF x = new THEN q ELSE IF x = b THEN new ELSE m[x].next
                /\ n[x].prev = IF x = new THEN b ELSE IF x = q THEN new ELSE m[x].prev
                /\ n[x].gone <=> (m[x].gone /\ x # new)
<1> DEFINE rest == [size |-> m[b].size - size, user |-> "free", tag |-> 0,
                    next |-> q, prev |-> b, gone |-> FALSE]
           w1 == [m EXCEPT ![new] = rest]
           w2 == [w1 EXCEPT ![q].prev = new]
           w3 == [w2 EXCEPT ![b].next = new]
           w4 == [w3 EXCEPT ![b].size = size]
<1>1. rest \in Header
  <2>1. m[b] \in Header
    OBVIOUS
  <2>2. m[b].size - size \in 0 .. ZoneSize
    BY <2>1, ZoneAssumption DEF Header
  <2> QED
    BY <2>2 DEF Header, Marks
<1>2. w1 \in [Address -> Header] /\ \A x \in Address : w1[x] = IF x = new THEN rest ELSE m[x]
  BY <1>1
<1>3. \A x \in Address :
         /\ w1[x].user = IF x = new THEN "free" ELSE m[x].user
         /\ w1[x].tag = IF x = new THEN 0 ELSE m[x].tag
         /\ w1[x].size = IF x = new THEN m[b].size - size ELSE m[x].size
         /\ w1[x].next = IF x = new THEN q ELSE m[x].next
         /\ w1[x].prev = IF x = new THEN b ELSE m[x].prev
         /\ w1[x].gone <=> (m[x].gone /\ x # new)
  BY <1>2 DEF Header
<1>4. w1 \in [Address -> Header]
  BY <1>2
<1> HIDE DEF w1, rest
<1>5. w2 \in [Address -> Header]
  BY <1>4 DEF Header
<1>6. \A x \in Address :
         /\ w2[x].user = w1[x].user /\ w2[x].tag = w1[x].tag /\ w2[x].size = w1[x].size
         /\ w2[x].next = w1[x].next /\ w2[x].gone = w1[x].gone
         /\ w2[x].prev = IF x = q THEN new ELSE w1[x].prev
  BY <1>4 DEF Header
<1> HIDE DEF w2
<1>7. w3 \in [Address -> Header]
  BY <1>5 DEF Header
<1>8. \A x \in Address :
         /\ w3[x].user = w2[x].user /\ w3[x].tag = w2[x].tag /\ w3[x].size = w2[x].size
         /\ w3[x].prev = w2[x].prev /\ w3[x].gone = w2[x].gone
         /\ w3[x].next = IF x = b THEN new ELSE w2[x].next
  BY <1>5 DEF Header
<1> HIDE DEF w3
<1>9. w4 \in [Address -> Header]
  BY <1>7 DEF Header
<1>10. \A x \in Address :
         /\ w4[x].user = w3[x].user /\ w4[x].tag = w3[x].tag /\ w4[x].next = w3[x].next
         /\ w4[x].prev = w3[x].prev /\ w4[x].gone = w3[x].gone
         /\ w4[x].size = IF x = b THEN size ELSE w3[x].size
  BY <1>7 DEF Header
<1>11. Split(m, b, size) = w4
  BY DEF Split, rest, w1, w2, w3
<1> HIDE DEF w4
<1>12. ASSUME NEW x \in Address
       PROVE  /\ w4[x].user = w1[x].user /\ w4[x].tag = w1[x].tag /\ w4[x].gone = w1[x].gone
              /\ w4[x].size = IF x = b THEN size ELSE w1[x].size
              /\ w4[x].next = IF x = b THEN new ELSE w1[x].next
              /\ w4[x].prev = IF x = q THEN new ELSE w1[x].prev
  <2>1. /\ w3[x].user = w1[x].user /\ w3[x].tag = w1[x].tag /\ w3[x].gone = w1[x].gone
        /\ w3[x].size = w1[x].size
        /\ w3[x].next = IF x = b THEN new ELSE w1[x].next
        /\ w3[x].prev = IF x = q THEN new ELSE w1[x].prev
    BY <1>6, <1>8
  <2>2. /\ w4[x].user = w3[x].user /\ w4[x].tag = w3[x].tag /\ w4[x].gone = w3[x].gone
        /\ w4[x].size = IF x = b THEN size ELSE w3[x].size
        /\ w4[x].next = w3[x].next /\ w4[x].prev = w3[x].prev
    BY <1>10
  <2> QED
    BY <2>1, <2>2
<1> QED
  BY <1>3, <1>9, <1>11, <1>12

\* Splitting a free block keeps the list sound, and only the rest of the block
\* may now follow a free block: the block itself.
LEMMA SplitSound ==
    ASSUME NEW m, Sound(m), Coalesced(m),
           NEW b \in Address, ~m[b].gone, m[b].user = "free",
           NEW size \in Nat, size >= HeaderSize, size <= m[b].size
    PROVE  LET n == Split(m, b, size) IN
           /\ Sound(n) /\ ~n[b].gone
           /\ \A x \in Address :
                /\ n[x].user = m[x].user
                /\ m[x].user # "free" => n[x].tag = m[x].tag /\ n[x].size = m[x].size
                /\ x # b /\ ~n[x].gone /\ n[x].user = "free" =>
                        n[x].next # b /\ n[n[x].next].user # "free"
<1> DEFINE n == Split(m, b, size)
           new == b + size
           q == m[b].next
<1>1. /\ m \in [Address -> Header] /\ b # Cap /\ Cap \in Address
      /\ \A x \in Address : m[x].next \in Address /\ m[x].prev \in Address
  <2>1. m \in [Address -> Header] /\ b # Cap /\ Cap \in Address
    BY ZoneAssumption DEF Sound, HeadersOK, Address, Cap
  <2> QED
    BY <2>1 DEF Header
<1>2. m[b].size \in 0 .. ZoneSize /\ b + m[b].size <= ZoneSize + 1 /\ b \in Nat /\ b >= 1
  <2>1. m[b].size \in 0 .. ZoneSize
    BY <1>1 DEF Header
  <2>2. b + m[b].size <= ZoneSize + 1
    BY <1>1 DEF Sound, HeadersOK
  <2>3. b \in Nat /\ b >= 1
    BY <1>1, ZoneAssumption DEF Address, Cap
  <2> QED
    BY <2>1, <2>2, <2>3
<1>3. /\ q \in Address /\ ~m[q].gone /\ m[q].prev = b /\ q # b
      /\ q = IF b + m[b].size = ZoneSize + 1 THEN Cap ELSE b + m[b].size
  BY <1>1, Apart DEF Sound, LinksOK
<1>4. ASSUME NEW x \in Address, x # b, ~m[x].gone, m[x].user = "free"
      PROVE  m[x].next # b /\ m[m[x].next].user # "free"
  BY <1>1, <1>4 DEF Coalesced
<1>5. CASE ~(m[b].size - size > MINFRAGMENT)
  <2>1. n = m
    BY <1>5 DEF Split
  <2> HIDE DEF n
  <2> QED
    BY <1>4, <2>1 DEF n
<1>6. CASE m[b].size - size > MINFRAGMENT
  <2>1. /\ new \in Address /\ new # b /\ new # Cap /\ new # q /\ size \in 0 .. ZoneSize
        /\ b < new /\ new < b + m[b].size
    BY <1>2, <1>3, <1>6, ZoneAssumption DEF Address, Cap
  <2>2. m[new].gone /\ m[new].user = "free"
    BY <1>1, <2>1, <1>2 DEF Sound, DisjointOK, HeadersOK
  <2>3. /\ n \in [Address -> Header]
        /\ \A x \in Address :
             /\ n[x].user = IF x = new THEN "free" ELSE m[x].user
             /\ n[x].tag = IF x = new THEN 0 ELSE m[x].tag
             /\ n[x].size = IF x = new THEN m[b].size - size ELSE IF x = b THEN size ELSE m[x].size
             /\ n[x].next = IF x = new THEN q ELSE IF x = b THEN new ELSE m[x].next
             /\ n[x].prev = IF x = new THEN b ELSE IF x = q THEN new ELSE m[x].prev
             /\ n[x].gone <=> (m[x].gone /\ x # new)
    <3> HIDE DEF n, new, q
    <3> QED
      BY <1>1, <1>3, <1>6, <2>1, SplitAt DEF n, new, q
  <2> HIDE DEF n, q
  <2>4. HeadersOK(n)
    <3>1. n[Cap].user = "zone" /\ ~n[Cap].gone /\ n[Cap].tag < PU_PURGELEVEL /\ n[Cap].next = First
      BY <1>1, <2>1, <2>3 DEF Sound, HeadersOK
    <3>2. \A x \in Address : n[x].gone => n[x].user = "free"
      BY <2>3 DEF Sound, HeadersOK
    <3>3. ASSUME NEW x \in Address, x # Cap, ~n[x].gone
          PROVE  n[x].size >= HeaderSize /\ x + n[x].size <= ZoneSize + 1
      <4>1. CASE x = new
        BY <1>2, <1>6, <2>3, <4>1, ZoneAssumption
      <4>2. CASE x = b
        <5>1. n[x].size = size
          BY <2>1, <2>3, <4>2
        <5> QED
          BY <1>2, <4>2, <5>1, ZoneAssumption
      <4>3. CASE x # new /\ x # b
        BY <2>3, <3>3, <4>3 DEF Sound, HeadersOK
      <4> QED
        BY <4>1, <4>2, <4>3
    <3> QED
      BY <2>3, <3>1, <3>2, <3>3 DEF HeadersOK
  <2>5. LinksOK(n)
    <3> SUFFICES ASSUME NEW x \in Address, ~n[x].gone
                 PROVE  /\ ~n[n[x].next].gone /\ n[n[x].next].prev = x
                        /\ ~n[n[x].prev].gone /\ n[n[x].prev].next = x
                        /\ x # Cap => n[x].next = IF x + n[x].size = ZoneSize + 1 THEN Cap
                                                  ELSE x + n[x].size
      BY DEF LinksOK
    <3>1. CASE x = new
      <4>1. n[x].next = q /\ n[x].prev = b /\ n[x].size = m[b].size - size
        BY <2>3, <3>1
      <4>2. x + n[x].size = b + m[b].size
        BY <1>2, <3>1, <4>1
      <4> QED
        BY <1>3, <2>1, <2>3, <3>1, <4>1, <4>2
    <3>2. CASE x = b
      <4>1. n[x].next = new /\ n[x].prev = m[b].prev /\ n[x].size = size
        BY <1>3, <2>1, <2>3, <3>2
      <4>2. m[b].prev # b /\ m[b].prev # new /\ ~m[m[b].prev].gone /\ m[m[b].prev].next = b
        BY <1>1, <2>2, Apart DEF Sound, LinksOK
      <4> QED
        <5>1. n[new].prev = b /\ ~n[new].gone
          BY <2>1, <2>3
        <5>2. ~n[m[b].prev].gone /\ n[m[b].prev].next = b
          BY <1>1, <2>3, <4>2
        <5>3. new # ZoneSize + 1
          BY <1>2, <2>1, ZoneAssumption DEF Address, Cap
        <5> QED
          BY <3>2, <4>1, <5>1, <5>2, <5>3
    <3>3. CASE x # new /\ x # b
      <4>1. /\ ~m[x].gone /\ ~m[m[x].next].gone /\ m[m[x].next].prev = x
            /\ ~m[m[x].prev].gone /\ m[m[x].prev].next = x
            /\ x # Cap => m[x].next = IF x + m[x].size = ZoneSize + 1 THEN Cap ELSE x + m[x].size
        BY <2>3, <3>3 DEF Sound, LinksOK
      <4>2. m[x].next # new /\ m[x].next # q /\ m[x].prev # new
        BY <1>3, <2>2, <3>3, <4>1
      <4>3. n[x].next = m[x].next /\ n[x].size = m[x].size
        BY <2>3, <3>3
      <4>4. ~n[n[x].next].gone /\ n[n[x].next].prev = x
        BY <1>1, <2>3, <4>1, <4>2, <4>3
      <4>5. ~n[n[x].prev].gone /\ n[n[x].prev].next = x
        <5>1. CASE x = q
          BY <2>1, <2>3, <3>3, <5>1
        <5>2. CASE x # q
          <6>1. n[x].prev = m[x].prev /\ m[x].prev # b
            BY <2>3, <3>3, <4>1, <5>2 DEF q
          <6> QED
            BY <1>1, <2>3, <4>1, <4>2, <6>1
        <5> QED
          BY <5>1, <5>2
      <4> QED
        BY <4>1, <4>3, <4>4, <4>5
    <3> QED
      BY <3>1, <3>2, <3>3
  <2>6. DisjointOK(n)
    <3> SUFFICES ASSUME NEW x \in Address, NEW y \in Address, x # Cap, x < y,
                        ~n[x].gone, ~n[y].gone
                 PROVE  x + n[x].size <= y
      BY DEF DisjointOK
    <3>1. x \in Int /\ y \in Int
      BY DEF Address, Cap
    <3>2. CASE x = new
      <4>1. ~m[y].gone /\ b < y
        BY <1>2, <2>1, <2>3, <3>1, <3>2
      <4>2. b + m[b].size <= y
        BY <1>1, <4>1 DEF Sound, DisjointOK
      <4> QED
        BY <1>2, <2>3, <3>1, <3>2, <4>2
    <3>3. CASE x # new /\ y = new
      <4>1. CASE x = b
        BY <2>1, <2>3, <3>3, <4>1
      <4>2. CASE x # b
        <5>1. ~m[x].gone
          BY <2>3, <3>3
        <5>2. ~(b < x)
          <6>1. b < x => b + m[b].size <= x
            BY <1>1, <5>1 DEF Sound, DisjointOK
          <6> QED
            BY <1>2, <2>1, <3>1, <3>3, <6>1
        <5>3. x + m[x].size <= b
          BY <1>2, <3>1, <4>2, <5>1, <5>2 DEF Sound, DisjointOK
        <5>4. n[x].size = m[x].size /\ m[x].size \in Int
          BY <1>1, <2>3, <3>3, <4>2 DEF Header
        <5> QED
          BY <1>2, <2>1, <3>1, <3>3, <5>3, <5>4
      <4> QED
        BY <4>1, <4>2
    <3>4. CASE x # new /\ y # new
      <4>1. x + m[x].size <= y
        BY <2>3, <3>4 DEF Sound, DisjointOK
      <4>2. CASE x = b
        BY <1>2, <2>1, <2>3, <3>1, <3>4, <4>1, <4>2
      <4>3. CASE x # b
        BY <2>3, <3>4, <4>1, <4>3
      <4> QED
        BY <4>2, <4>3
    <3> QED
      BY <3>2, <3>3, <3>4
  <2>7. ASSUME NEW x \in Address, x # b, ~n[x].gone, n[x].user = "free"
        PROVE  n[x].next # b /\ n[n[x].next].user # "free"
    <3>1. CASE x = new
      <4>1. m[q].user # "free"
        BY DEF Coalesced, q
      <4> QED
        BY <1>3, <2>1, <2>3, <3>1, <4>1
    <3>2. CASE x # new
      <4>1. ~m[x].gone /\ m[x].user = "free" /\ n[x].next = m[x].next
        BY <2>3, <2>7, <3>2
      <4>2. m[x].next # b /\ m[m[x].next].user # "free"
        BY <1>4, <2>7, <4>1
      <4> QED
        BY <1>1, <2>2, <2>3, <4>1, <4>2
    <3> QED
      BY <3>1, <3>2
  <2> QED
    BY <2>1, <2>2, <2>3, <2>4, <2>5, <2>6, <2>7 DEF Sound, n
<1> QED
  BY <1>5, <1>6

\* Another owner or tag for a block in the list keeps the list sound.
LEMMA SameListSound ==
    ASSUME NEW m, Sound(m), NEW n \in [Address -> Header],
           \A x \in Address : /\ n[x].size = m[x].size /\ n[x].gone = m[x].gone
                              /\ n[x].next = m[x].next /\ n[x].prev = m[x].prev,
           \A x \in Address : n[x].gone => n[x].user = "free",
           n[Cap].user = m[Cap].user, n[Cap].tag = m[Cap].tag
    PROVE  Sound(n)
<1>1. /\ m \in [Address -> Header] /\ Cap \in Address
      /\ \A x \in Address : m[x].next \in Address /\ m[x].prev \in Address
  <2>1. m \in [Address -> Header] /\ Cap \in Address
    BY ZoneAssumption DEF Sound, HeadersOK, Address, Cap
  <2> QED
    BY <2>1 DEF Header
<1>2. HeadersOK(n)
  BY <1>1 DEF Sound, HeadersOK
<1>3. LinksOK(n)
  BY <1>1 DEF Sound, LinksOK
<1>4. DisjointOK(n)
  BY DEF Sound, DisjointOK
<1> QED
  BY <1>2, <1>3, <1>4 DEF Sound

\* The headers when block b is given to u with tag t.
Given(m, b, u, t) == [m EXCEPT ![b].user = u, ![b].tag = t]

LEMMA GivenSound ==
    ASSUME NEW m, Sound(m), NEW b \in Address, b # Cap, ~m[b].gone,
           NEW u \in Marks \cup Lump, u # "free", NEW t \in Tag \cup {0}
    PROVE  LET n == Given(m, b, u, t) IN
           /\ Sound(n)
           /\ \A x \in Address :
                /\ n[x].size = m[x].size /\ n[x].gone = m[x].gone /\ n[x].next = m[x].next
                /\ n[x].user = IF x = b THEN u ELSE m[x].user
                /\ n[x].tag = IF x = b THEN t ELSE m[x].tag
<1> DEFINE w == [m EXCEPT ![b].user = u]
           n == [w EXCEPT ![b].tag = t]
<1>1. m \in [Address -> Header] /\ Cap \in Address
  BY ZoneAssumption DEF Sound, HeadersOK, Address, Cap
<1>2. w \in [Address -> Header]
  BY <1>1 DEF Header
<1>3. \A x \in Address :
        /\ w[x].size = m[x].size /\ w[x].gone = m[x].gone /\ w[x].next = m[x].next
        /\ w[x].prev = m[x].prev /\ w[x].tag = m[x].tag
        /\ w[x].user = IF x = b THEN u ELSE m[x].user
  BY <1>1 DEF Header
<1> HIDE DEF w
<1>4. n \in [Address -> Header]
  BY <1>2 DEF Header
<1>5. \A x \in Address :
        /\ n[x].size = w[x].size /\ n[x].gone = w[x].gone /\ n[x].next = w[x].next
        /\ n[x].prev = w[x].prev /\ n[x].user = w[x].user
        /\ n[x].tag = IF x = b THEN t ELSE w[x].tag
  BY <1>2 DEF Header
<1>6. n = Given(m, b, u, t)
  BY DEF w, Given
<1> HIDE DEF n
<1>7. ASSUME NEW x \in Address
      PROVE  /\ n[x].size = m[x].size /\ n[x].gone = m[x].gone
             /\ n[x].next = m[x].next /\ n[x].prev = m[x].prev
             /\ n[x].user = IF x = b THEN u ELSE m[x].user
             /\ n[x].tag = IF x = b THEN t ELSE m[x].tag
  BY <1>3, <1>5
<1>8. \A x \in Address : n[x].gone => n[x].user = "free"
  BY <1>7 DEF Sound, HeadersOK
<1>9. Sound(n)
  BY <1>1, <1>4, <1>7, <1>8, SameListSound
<1> QED
  BY <1>6, <1>7, <1>9

-----------------------------------------------------------------------------
(* Every step preserves the invariant                                      *)

LEMMA InitInv ==
    ASSUME Init
    PROVE  IInv
<1>1. /\ Cap \in Address /\ First \in Address /\ Cap # First
      /\ ZoneSize \in Nat /\ ZoneSize >= 1 /\ HeaderSize <= ZoneSize
  BY ZoneAssumption DEF Address, Cap, First
<1>2. \A a \in Address :
        mem[a] = IF a = Cap THEN [size |-> 0, user |-> "zone", tag |-> 0, next |-> First,
                                  prev |-> First, gone |-> FALSE]
                 ELSE IF a = First
                 THEN [size |-> ZoneSize, user |-> "free", tag |-> 0, next |-> Cap,
                       prev |-> Cap, gone |-> FALSE]
                 ELSE NoHeader
  BY DEF Init, ClearZone
<1>3. mem \in [Address -> Header]
  <2>1. \A s \in 0 .. ZoneSize, u \in Marks, n \in Address, g \in BOOLEAN :
           [size |-> s, user |-> u, tag |-> 0, next |-> n, prev |-> n, gone |-> g] \in Header
    BY DEF Header
  <2>2. ASSUME NEW a \in Address
        PROVE  mem[a] \in Header
    <3>1. 0 \in 0 .. ZoneSize /\ ZoneSize \in 0 .. ZoneSize /\ "free" \in Marks /\ "zone" \in Marks
      BY <1>1 DEF Marks
    <3>2. CASE a = Cap
      BY <1>1, <1>2, <2>1, <3>1, <3>2
    <3>3. CASE a = First
      BY <1>1, <1>2, <2>1, <3>1, <3>3
    <3>4. CASE a # Cap /\ a # First
      BY <1>1, <1>2, <2>1, <3>1, <3>4 DEF NoHeader
    <3> QED
      BY <3>2, <3>3, <3>4
  <2> QED
    BY <2>2 DEF Init, ClearZone
<1>4. /\ ~mem[Cap].gone /\ ~mem[First].gone
      /\ \A a \in Address : a # Cap /\ a # First => mem[a].gone
      /\ \A a \in Address : a # Cap => mem[a].user = "free"
      /\ mem[Cap].user = "zone" /\ mem[Cap].tag = 0 /\ mem[First].size = ZoneSize
      /\ mem[Cap].next = First /\ mem[Cap].prev = First
      /\ mem[First].next = Cap /\ mem[First].prev = Cap
  BY <1>1, <1>2 DEF NoHeader
<1>5. HeadersOK(mem)
  BY <1>1, <1>3, <1>4, ZoneAssumption DEF HeadersOK, First
<1>6. LinksOK(mem)
  BY <1>1, <1>4 DEF LinksOK, First
<1>7. DisjointOK(mem)
  BY <1>1, <1>4 DEF DisjointOK, Cap, First
<1>8. Coalesced(mem)
  BY <1>1, <1>4 DEF Coalesced
<1>9. HeapInv
  BY <1>1, <1>4, <1>5, <1>6, <1>7, <1>8 DEF HeapInv, Sound, Init
<1>10. LumpsTold(mem, lumpcache)
  <2>1. lumpcache = [l \in Lump |-> NULL]
    BY DEF Init
  <2>2. "zone" \notin Lump /\ "free" \notin Lump
    BY ZoneAssumption DEF Marks
  <2> QED
    BY <1>4, <2>1, <2>2 DEF LumpsTold
<1>11. HoldersTold
  BY <1>4 DEF HoldersTold, Init
<1>12. RequestInv
  BY DEF RequestInv, Init, NoRequest, Marks
<1>13. ScanInv
  BY <1>1 DEF ScanInv, Init
<1> QED
  BY <1>9, <1>10, <1>11, <1>12, <1>13 DEF IInv

LEMMA MallocInv ==
    ASSUME IInv, NEW size \in Nat, NEW tag \in Tag, NEW user, NEW holder,
           \/ user \in Lump /\ lumpcache[user] = NULL
           \/ user = "unowned" /\ tag \in UnownedTag /\ holder \in Holder /\ held[holder] = NULL,
           Z_Malloc(size, tag, user, holder)
    PROVE  IInv'
<1> DEFINE prev == mem[rover].prev
           first == IF mem[prev].user = "free" THEN prev ELSE rover
<1>1. /\ pc = "idle" /\ pc' = "scan"
      /\ req' = [size |-> size + HeaderSize, tag |-> tag, user |-> user, holder |-> holder]
      /\ base' = first /\ scan' = first /\ start' = mem[first].prev
      /\ mem' = mem /\ rover' = rover /\ lumpcache' = lumpcache /\ held' = held /\ block' = block
  BY DEF Z_Malloc
<1>2. /\ prev \in Address /\ ~mem[prev].gone /\ mem[prev].next = rover
      /\ mem[prev].prev \in Address /\ ~mem[mem[prev].prev].gone
      /\ mem[mem[prev].prev].next = prev
  BY DEF IInv, HeapInv, Sound, HeadersOK, LinksOK, Header
<1>3. HeapInv' /\ LumpsTold(mem, lumpcache)' /\ HoldersTold'
  BY <1>1 DEF IInv, HeapInv, HoldersTold
<1>4. RequestInv'
  BY <1>1, ZoneAssumption DEF RequestInv, Marks
<1>5. /\ first \in Address /\ ~mem[first].gone /\ mem[first].prev \in Address
      /\ mem[mem[first].prev].user # "free"
  <2>1. CASE mem[prev].user = "free"
    BY <1>2, <2>1 DEF IInv, HeapInv, Coalesced
  <2>2. CASE mem[prev].user # "free"
    BY <1>2, <2>2 DEF IInv, HeapInv
  <2> QED
    BY <2>1, <2>2
<1> HIDE DEF first, prev
<1>6. ScanInv'
  BY <1>1, <1>5 DEF IInv, ScanInv
<1> QED
  BY <1>3, <1>4, <1>6 DEF IInv

LEMMA ScanFailsInv ==
    ASSUME IInv, ScanFails
    PROVE  IInv'
<1>1. /\ pc = "scan" /\ pc' = "fatal"
      /\ UNCHANGED <<mem, rover, lumpcache, held, req, base, scan, start, block>>
  BY DEF ScanFails
<1> QED
  BY <1>1 DEF IInv, HeapInv, HoldersTold, RequestInv, ScanInv

\* The scan moves over a block and keeps the headers.
LEMMA ScanMovesInv ==
    ASSUME IInv, ScanKeeps \/ ScanPasses
    PROVE  IInv'
<1>1. /\ pc = "scan" /\ pc' = IF Fits(mem', base') THEN "found" ELSE "scan"
      /\ UNCHANGED <<mem, rover, lumpcache, held, req, start, block>>
      /\ scan' = mem[scan].next
      /\ \/ mem[scan].user # "free" /\ base' = mem[scan].next
         \/ mem[scan].user = "free" /\ base' = base
  BY DEF ScanKeeps, ScanPasses, Decide
<1>2. /\ base \in Address /\ scan \in Address /\ ~mem[base].gone /\ ~mem[scan].gone
      /\ mem[start].user # "free"
      /\ \/ base = scan /\ mem[mem[base].prev].user # "free"
         \/ mem[base].user = "free" /\ scan = mem[base].next
  BY <1>1 DEF IInv, ScanInv
<1>3. /\ mem[scan].next \in Address /\ ~mem[mem[scan].next].gone
      /\ mem[mem[scan].next].prev = scan
  BY <1>2 DEF IInv, HeapInv, Sound, HeadersOK, LinksOK, Header
<1>4. HeapInv' /\ LumpsTold(mem, lumpcache)' /\ HoldersTold' /\ RequestInv'
  BY <1>1 DEF IInv, HeapInv, HoldersTold, RequestInv
<1>5. /\ base' \in Address /\ ~mem[base'].gone
      /\ \/ base' = scan' /\ mem[mem[base'].prev].user # "free"
         \/ mem[base'].user = "free" /\ scan' = mem[base'].next
  <2>1. CASE mem[scan].user # "free"
    BY <1>1, <1>2, <1>3, <2>1
  <2>2. CASE mem[scan].user = "free"
    <3>1. base = scan
      BY <1>2, <2>2 DEF IInv, HeapInv, Coalesced
    <3> QED
      BY <1>1, <1>2, <2>2, <3>1
  <2> QED
    BY <2>1, <2>2
<1>6. pc' = "found" => mem[base'].user = "free" /\ mem[base'].size >= req.size
  BY <1>1 DEF Fits
<1>7. ScanInv'
  BY <1>1, <1>2, <1>3, <1>5, <1>6 DEF IInv, ScanInv
<1> QED
  BY <1>4, <1>7 DEF IInv

\* What a free leaves of the pointers of the holders.
LEMMA FreedHolders ==
    ASSUME HoldersTold, NEW b \in Address, NEW n, FreedOnly(mem, n, b)
    PROVE  /\ \A h \in Holder : held[h] # NULL =>
                \/ n[held[h]].user = "unowned"
                \/ pc = "sweep" /\ n[held[h]].user = "free"
                \/ held[h] = b /\ mem[b].user = "unowned"
                \/ held[h] = b /\ pc = "sweep"
           /\ \A a \in Address : n[a].user = "unowned" => n[a].tag \in UnownedTag
<1>1. ASSUME NEW h \in Holder, held[h] # NULL
      PROVE  \/ n[held[h]].user = "unowned"
             \/ pc = "sweep" /\ n[held[h]].user = "free"
             \/ held[h] = b /\ mem[b].user = "unowned"
             \/ held[h] = b /\ pc = "sweep"
  <2>1. held[h] \in Address
    BY <1>1 DEF HoldersTold
  <2> QED
    BY <1>1, <2>1 DEF HoldersTold, FreedOnly
<1>2. ASSUME NEW a \in Address, n[a].user = "unowned"
      PROVE  n[a].tag \in UnownedTag
  <2>1. mem[a].user = "unowned" /\ n[a].tag = mem[a].tag
    BY <1>2 DEF FreedOnly
  <2> QED
    BY <2>1 DEF HoldersTold
<1> QED
  BY <1>1, <1>2

LEMMA TagsAreIntegers == Tag \cup {0} \subseteq Int
  BY ZoneAssumption

\* What the scan purges is a block, never the cap.
LEMMA ScanFrees ==
    ASSUME IInv, ScanPurges
    PROVE  /\ scan \in Address /\ scan # Cap /\ mem[scan].user # "free"
           /\ FreedAt(mem', scan) /\ rover' \in Address /\ ~mem'[rover'].gone
<1> DEFINE z == Freed([mem |-> mem, rover |-> rover], scan)
<1>1. /\ pc = "scan" /\ mem[scan].user # "free" /\ mem[scan].tag >= PU_PURGELEVEL
      /\ mem' = Scrubbed(z.mem) /\ rover' = z.rover
  BY DEF ScanPurges, Z_Free
<1> HIDE DEF z
<1>2. scan \in Address
  BY DEF IInv, ScanInv
<1>3. scan # Cap
  <2>1. mem[Cap] \in Header /\ mem[Cap].tag < PU_PURGELEVEL
    BY ZoneAssumption DEF IInv, HeapInv, Sound, HeadersOK, Address, Cap
  <2>2. mem[Cap].tag \in Int
    <3>1. mem[Cap].tag \in Tag \cup {0}
      BY <2>1 DEF Header
    <3> QED
      BY <3>1, TagsAreIntegers
  <2> QED
    BY <1>1, <2>1, <2>2, ZoneAssumption
<1> QED
  BY <1>1, <1>2, <1>3, FreedStep DEF IInv, z

LEMMA ScanPurgesInv ==
    ASSUME IInv, ScanPurges
    PROVE  IInv'
<1> DEFINE z == Freed([mem |-> mem, rover |-> rover], scan)
<1>1. /\ pc = "scan" /\ pc' = IF Fits(mem', base') THEN "found" ELSE "scan"
      /\ scan # start /\ mem[scan].user # "free" /\ mem[scan].tag >= PU_PURGELEVEL
      /\ mem' = Scrubbed(z.mem) /\ rover' = z.rover /\ lumpcache' = Cleared(mem[scan].user)
      /\ base' = mem'[mem[base].prev].next /\ scan' = mem'[base'].next
      /\ UNCHANGED <<held, req, start, block>>
  BY DEF ScanPurges, Z_Free, Decide, Around
<1> HIDE DEF z
<1>2. /\ base \in Address /\ scan \in Address /\ start \in Address
      /\ ~mem[base].gone /\ ~mem[scan].gone
      /\ mem[start].user # "free"
      /\ \/ base = scan /\ mem[mem[base].prev].user # "free"
         \/ mem[base].user = "free" /\ scan = mem[base].next
  BY <1>1 DEF IInv, ScanInv
<1>4. FreedAt(mem', scan) /\ rover' \in Address /\ ~mem'[rover'].gone
  BY ScanFrees
<1>5. HeapInv'
  BY <1>4 DEF HeapInv, FreedAt
<1>6. LumpsTold(mem', lumpcache')
  BY <1>1, <1>2, <1>4, ClearedTold DEF IInv, FreedAt
<1>7. HoldersTold'
  <2>1. ASSUME mem[scan].user = "unowned"
        PROVE  FALSE
    <3>1. mem[scan].tag \in UnownedTag
      BY <1>2, <2>1 DEF IInv, HoldersTold
    <3>2. mem[scan].tag \in Int /\ mem[scan].tag < PU_PURGELEVEL
      BY <3>1, ZoneAssumption
    <3> QED
      BY <1>1, <3>2, ZoneAssumption
  <2>2. pc' # "sweep" /\ pc # "sweep"
    BY <1>1
  <2>3. /\ \A h \in Holder : held[h] # NULL => mem'[held[h]].user = "unowned"
        /\ \A a \in Address : mem'[a].user = "unowned" => mem'[a].tag \in UnownedTag
    BY <1>2, <1>4, <2>1, <2>2, FreedHolders DEF IInv, FreedAt
  <2> QED
    BY <1>1, <2>3 DEF IInv, HoldersTold
<1>8. RequestInv'
  <2>1. "unowned" \notin Lump
    BY ZoneAssumption DEF Marks
  <2>2. \A l \in Lump : lumpcache[l] = NULL => lumpcache'[l] = NULL
    BY <1>1 DEF Cleared, IInv, LumpsTold
  <2>3. pc' \in {"scan", "found"}
    BY <1>1
  <2> QED
    BY <1>1, <2>1, <2>2, <2>3 DEF IInv, RequestInv
<1>9. /\ base' \in Address /\ ~mem'[base'].gone /\ mem'[base'].user = "free"
      /\ scan' \in Address /\ ~mem'[scan'].gone
  <2>1. /\ mem[scan].prev \in Address /\ mem[mem[scan].prev].next = scan
        /\ mem[mem[scan].prev].prev \in Address
        /\ mem[mem[mem[scan].prev].prev].next = mem[scan].prev
        /\ mem[mem[base].next].prev = base
    BY <1>2 DEF IInv, HeapInv, Sound, HeadersOK, LinksOK, Header
  <2>2. /\ base' \in Address /\ mem'[base'].user = "free"
        /\ mem[base].prev \in Address /\ ~mem'[mem[base].prev].gone
    <3>1. CASE base = scan /\ mem[mem[base].prev].user # "free"
      BY <1>1, <1>2, <1>4, <2>1, <3>1 DEF FreedAt, FreedOnly
    <3>2. CASE mem[base].user = "free" /\ scan = mem[base].next
      <4>1. mem[scan].prev = base
        BY <2>1, <3>2
      <4> QED
        BY <1>1, <1>2, <1>4, <2>1, <3>2, <4>1 DEF FreedAt, FreedOnly
    <3> QED
      BY <1>2, <3>1, <3>2
  <2> QED
    <3>1. ~mem'[base'].gone
      BY <1>1, <1>4, <2>2 DEF FreedAt, Sound, LinksOK
    <3>2. mem' \in [Address -> Header]
      BY <1>4 DEF FreedAt, Sound, HeadersOK
    <3>3. scan' \in Address
      BY <1>1, <2>2, <3>2 DEF Header
    <3>4. ~mem'[scan'].gone
      BY <1>1, <1>4, <2>2, <3>1 DEF FreedAt, Sound, LinksOK
    <3> QED
      BY <2>2, <3>1, <3>3, <3>4
<1>10. mem'[start].user # "free"
  BY <1>1, <1>2, <1>4 DEF FreedAt, FreedOnly
<1>11. pc' = "found" => mem'[base'].user = "free" /\ mem'[base'].size >= req'.size
  BY <1>1 DEF Fits
<1>12. ScanInv'
  <2>1. block \in Address
    BY DEF IInv, ScanInv
  <2> QED
    BY <1>1, <1>2, <1>9, <1>10, <1>11, <2>1 DEF ScanInv
<1> QED
  BY <1>5, <1>6, <1>7, <1>8, <1>12 DEF IInv

LEMMA AllocateInv ==
    ASSUME IInv, Allocate
    PROVE  IInv'
<1> DEFINE n == Split(mem, base, req.size)
<1>1. /\ pc = "found" /\ pc' = "idle"
      /\ mem' = Given(n, base, req.user, req.tag)
      /\ rover' = n[base].next
      /\ lumpcache' = IF req.user \in Lump THEN [lumpcache EXCEPT ![req.user] = base] ELSE lumpcache
      /\ held' = IF req.user \in Lump THEN held ELSE [held EXCEPT ![req.holder] = base]
      /\ req' = NoRequest /\ base' = Cap /\ scan' = Cap /\ start' = Cap /\ block' = block
  BY DEF Allocate, Given
<1>2. /\ base \in Address /\ ~mem[base].gone /\ mem[base].user = "free"
      /\ mem[base].size >= req.size /\ base # Cap
  BY <1>1 DEF IInv, ScanInv, HeapInv, Sound, HeadersOK
<1>3. /\ req.size \in Nat /\ req.size >= HeaderSize /\ req.tag \in Tag
      /\ req.user \in Marks \cup Lump
      /\ \/ req.user \in Lump /\ lumpcache[req.user] = NULL
         \/ /\ req.user = "unowned" /\ req.tag \in UnownedTag
            /\ req.holder \in Holder /\ held[req.holder] = NULL
  BY <1>1 DEF IInv, RequestInv
<1>4. "free" \notin Lump /\ "unowned" \notin Lump /\ Cap \in Address /\ NULL \notin Address
  BY ZoneAssumption DEF Marks, Address, Cap, NULL
<1>5. /\ Sound(n) /\ ~n[base].gone
      /\ \A x \in Address :
           /\ n[x].user = mem[x].user
           /\ mem[x].user # "free" => n[x].tag = mem[x].tag /\ n[x].size = mem[x].size
           /\ x # base /\ ~n[x].gone /\ n[x].user = "free" =>
                   n[x].next # base /\ n[n[x].next].user # "free"
  <2>1. Sound(mem) /\ Coalesced(mem)
    BY DEF IInv, HeapInv
  <2> QED
    BY <1>2, <1>3, <2>1, SplitSound
<1> HIDE DEF n
<1>6. /\ Sound(mem')
      /\ \A x \in Address :
           /\ mem'[x].size = n[x].size /\ mem'[x].gone = n[x].gone /\ mem'[x].next = n[x].next
           /\ mem'[x].user = IF x = base THEN req.user ELSE n[x].user
           /\ mem'[x].tag = IF x = base THEN req.tag ELSE n[x].tag
  <2>1. req.tag \in Tag \cup {0} /\ Sound(n) /\ ~n[base].gone
    BY <1>3, <1>5
  <2>2. req.user # "free"
    BY <1>3, <1>4
  <2> QED
    BY <1>1, <1>2, <1>3, <2>1, <2>2, GivenSound
<1>7. HeapInv'
  <2>1. n \in [Address -> Header]
    BY <1>5 DEF Sound, HeadersOK
  <2>2. \A x \in Address : n[x].next \in Address
    BY <2>1 DEF Header
  <2>3. ASSUME NEW x \in Address, ~mem'[x].gone, mem'[x].user = "free"
        PROVE  mem'[mem'[x].next].user # "free"
    BY <1>3, <1>4, <1>5, <1>6, <2>2, <2>3
  <2>4. rover' \in Address /\ ~mem'[rover'].gone
    BY <1>1, <1>2, <1>5, <1>6, <2>2 DEF Sound, LinksOK
  <2> QED
    BY <1>6, <2>3, <2>4 DEF HeapInv, Coalesced
<1>8. /\ \A x \in Address : mem'[x].user = IF x = base THEN req.user ELSE mem[x].user
      /\ \A x \in Address : mem[x].user # "free" => mem'[x].tag = mem[x].tag
  BY <1>2, <1>5, <1>6
<1>9. LumpsTold(mem', lumpcache')
  <2>1. CASE req.user \in Lump
    <3>1. /\ lumpcache' \in [Lump -> Address \cup {NULL}]
          /\ \A l \in Lump : lumpcache'[l] = IF l = req.user THEN base ELSE lumpcache[l]
      BY <1>1, <1>2, <2>1 DEF IInv, LumpsTold
    <3>2. ASSUME NEW l \in Lump, lumpcache'[l] # NULL
          PROVE  mem'[lumpcache'[l]].user = l
      BY <1>2, <1>4, <1>8, <3>1, <3>2 DEF IInv, LumpsTold
    <3>3. ASSUME NEW a \in Address, NEW l \in Lump, mem'[a].user = l
          PROVE  lumpcache'[l] = a
      BY <1>3, <1>4, <1>8, <2>1, <3>1, <3>3 DEF IInv, LumpsTold
    <3> QED
      BY <3>1, <3>2, <3>3 DEF LumpsTold
  <2>2. CASE req.user \notin Lump
    <3>1. lumpcache' = lumpcache
      BY <1>1, <2>2
    <3>2. ASSUME NEW l \in Lump, lumpcache[l] # NULL
          PROVE  mem'[lumpcache[l]].user = l
      BY <1>2, <1>4, <1>8, <3>2 DEF IInv, LumpsTold
    <3>3. ASSUME NEW a \in Address, NEW l \in Lump, mem'[a].user = l
          PROVE  lumpcache[l] = a
      BY <1>4, <1>8, <2>2, <3>3 DEF IInv, LumpsTold
    <3> QED
      BY <3>1, <3>2, <3>3 DEF IInv, LumpsTold
  <2> QED
    BY <2>1, <2>2
<1>10. HoldersTold'
  <2>1. \A h \in Holder : held[h] # NULL =>
           held[h] \in Address /\ mem[held[h]].user = "unowned" /\ held[h] # base
    BY <1>1, <1>2 DEF IInv, HoldersTold
  <2>2. /\ held' \in [Holder -> Address \cup {NULL}]
        /\ \A h \in Holder : held'[h] = IF req.user \notin Lump /\ h = req.holder
                                        THEN base ELSE held[h]
    BY <1>1, <1>2, <1>3 DEF IInv, HoldersTold
  <2>3. ASSUME NEW h \in Holder, held'[h] # NULL
        PROVE  mem'[held'[h]].user = "unowned"
    BY <1>2, <1>3, <1>8, <2>1, <2>2, <2>3
  <2>4. ASSUME NEW h \in Holder, NEW g \in Holder, held'[h] # NULL, held'[h] = held'[g]
        PROVE  h = g
    BY <2>1, <2>2, <2>4 DEF IInv, HoldersTold
  <2>5. ASSUME NEW a \in Address, mem'[a].user = "unowned"
        PROVE  mem'[a].tag \in UnownedTag
    <3>1. CASE a = base
      BY <1>3, <1>4, <1>6, <1>8, <2>5, <3>1
    <3>2. CASE a # base
      BY <1>8, <2>5, <3>2 DEF IInv, HoldersTold
    <3> QED
      BY <3>1, <3>2
  <2> QED
    BY <2>2, <2>3, <2>4, <2>5 DEF HoldersTold
<1>11. RequestInv'
  BY <1>1 DEF RequestInv, NoRequest, Marks
<1>12. ScanInv'
  BY <1>1, <1>4 DEF IInv, ScanInv
<1> QED
  BY <1>7, <1>9, <1>10, <1>11, <1>12 DEF IInv

LEMMA BeginSweepInv ==
    ASSUME IInv, BeginSweep
    PROVE  IInv'
<1>1. /\ pc = "idle" /\ pc' = "sweep" /\ block' = mem[Cap].next
      /\ UNCHANGED <<mem, rover, lumpcache, held, req, base, scan, start>>
  BY DEF BeginSweep
<1>2. mem[Cap].next \in Address
  BY ZoneAssumption DEF IInv, HeapInv, Sound, HeadersOK, Address, Cap, First
<1> QED
  BY <1>1, <1>2 DEF IInv, HeapInv, HoldersTold, RequestInv, ScanInv

LEMMA SweepInv ==
    ASSUME IInv, Sweep
    PROVE  IInv'
<1> DEFINE z == Freed([mem |-> mem, rover |-> rover], block)
<1>1. /\ pc = "sweep" /\ block # Cap /\ block' = mem[block].next
      /\ UNCHANGED <<held, pc, req, base, scan, start>>
      /\ \/ /\ mem[block].user # "free"
            /\ mem' = z.mem /\ rover' = z.rover /\ lumpcache' = Cleared(mem[block].user)
         \/ UNCHANGED <<mem, rover, lumpcache>>
  BY DEF Sweep
<1> HIDE DEF z
<1>2. block \in Address
  BY DEF IInv, ScanInv
<1>3. mem[block].next \in Address
  BY <1>2 DEF IInv, HeapInv, Sound, HeadersOK, Header
<1>4. RequestInv' /\ ScanInv'
  BY <1>1, <1>3 DEF IInv, RequestInv, ScanInv
<1>5. CASE UNCHANGED <<mem, rover, lumpcache>>
  BY <1>1, <1>4, <1>5 DEF IInv, HeapInv, HoldersTold
<1>6. CASE /\ mem[block].user # "free"
           /\ mem' = z.mem /\ rover' = z.rover /\ lumpcache' = Cleared(mem[block].user)
  <2>1. FreedAt(mem', block) /\ rover' \in Address /\ ~mem'[rover'].gone
    BY <1>1, <1>2, <1>6, FreedStep DEF IInv, z
  <2>2. HeapInv'
    BY <2>1 DEF HeapInv, FreedAt
  <2>3. LumpsTold(mem', lumpcache')
    BY <1>2, <1>6, <2>1, ClearedTold DEF IInv, FreedAt
  <2>4. HoldersTold'
    <3>1. mem'[block].user = "free"
      BY <1>2, <2>1 DEF FreedAt, FreedOnly
    <3>2. /\ \A h \in Holder : held[h] # NULL =>
                mem'[held[h]].user = "unowned" \/ mem'[held[h]].user = "free"
          /\ \A a \in Address : mem'[a].user = "unowned" => mem'[a].tag \in UnownedTag
      BY <1>2, <2>1, <3>1, FreedHolders DEF IInv, FreedAt
    <3> QED
      BY <1>1, <3>2 DEF IInv, HoldersTold
  <2> QED
    BY <1>4, <2>2, <2>3, <2>4 DEF IInv
<1> QED
  BY <1>1, <1>5, <1>6

LEMMA EndSweepInv ==
    ASSUME IInv, EndSweep
    PROVE  IInv'
<1>1. /\ pc = "sweep" /\ pc' = "idle"
      /\ held' = [h \in Holder |-> IF held[h] # NULL /\ held[h] \in Used(mem) THEN held[h] ELSE NULL]
      /\ mem' = Scrubbed(mem)
      /\ UNCHANGED <<rover, lumpcache, req, base, scan, start, block>>
  BY DEF EndSweep
<1>2. /\ Sound(mem') /\ Coalesced(mem')
      /\ \A x \in Address :
           /\ mem'[x].user = mem[x].user /\ (mem'[x].gone <=> mem[x].gone)
           /\ ~mem[x].gone => mem'[x] = mem[x]
  BY <1>1, ScrubbedSound DEF IInv, HeapInv
<1>3. HeapInv'
  BY <1>1, <1>2 DEF IInv, HeapInv
<1>4. LumpsTold(mem', lumpcache')
  BY <1>1, <1>2 DEF IInv, LumpsTold
<1>5. HoldersTold'
  <2>1. /\ held' \in [Holder -> Address \cup {NULL}]
        /\ \A h \in Holder : held'[h] # NULL =>
              held'[h] = held[h] /\ held[h] \in Address /\ mem[held[h]].user # "free"
    BY <1>1 DEF IInv, HoldersTold, Used, Listed
  <2>2. \A a \in Address : mem'[a].user = "unowned" => mem'[a].tag \in UnownedTag
    BY <1>2 DEF IInv, HoldersTold, HeapInv, Sound, HeadersOK
  <2>3. \A h \in Holder : held'[h] # NULL => mem'[held'[h]].user = "unowned"
    BY <1>2, <2>1 DEF IInv, HoldersTold
  <2> QED
    BY <2>1, <2>2, <2>3 DEF IInv, HoldersTold
<1>6. RequestInv' /\ ScanInv'
  BY <1>1 DEF IInv, RequestInv, ScanInv
<1> QED
  BY <1>3, <1>4, <1>5, <1>6 DEF IInv

\* A cached lump only gets the tag.
LEMMA CacheInv ==
    ASSUME IInv, NEW l \in Lump, NEW t \in Tag, W_CacheLumpNum(l, t)
    PROVE  IInv'
<1> DEFINE b == lumpcache[l]
<1>1. CASE lumpcache[l] = NULL
  <2>1. LumpSize[l] \in Nat
    BY ZoneAssumption
  <2>2. Z_Malloc(LumpSize[l], t, l, NULL)
    BY <1>1 DEF W_CacheLumpNum
  <2> QED
    BY <1>1, <2>1, <2>2, MallocInv
<1>2. CASE lumpcache[l] # NULL
  <2>1. /\ pc = "idle" /\ mem' = [mem EXCEPT ![b].tag = t]
        /\ UNCHANGED <<rover, lumpcache, held, pc, req, base, scan, start, block>>
    BY <1>2 DEF W_CacheLumpNum
  <2>2. /\ b \in Address /\ mem[b].user = l /\ b # Cap /\ l # "unowned"
        /\ mem \in [Address -> Header]
    BY <1>2, ZoneAssumption DEF IInv, LumpsTold, HeapInv, Sound, HeadersOK, Marks
  <2> HIDE DEF b
  <2>3. mem' \in [Address -> Header]
    BY <2>1, <2>2 DEF Header
  <2>4. \A x \in Address :
           /\ mem'[x].size = mem[x].size /\ mem'[x].gone = mem[x].gone
           /\ mem'[x].next = mem[x].next /\ mem'[x].prev = mem[x].prev
           /\ mem'[x].user = mem[x].user
           /\ mem'[x].tag = IF x = b THEN t ELSE mem[x].tag
    BY <2>1, <2>2 DEF Header
  <2>5. Sound(mem')
    <3>1. Sound(mem) /\ Cap \in Address /\ \A x \in Address : mem[x].gone => mem[x].user = "free"
      BY ZoneAssumption DEF IInv, HeapInv, Sound, HeadersOK, Address, Cap
    <3> QED
      BY <2>2, <2>3, <2>4, <3>1, SameListSound
  <2>6. \A x \in Address : mem[x].next \in Address /\ mem[x].prev \in Address
    BY <2>2 DEF Header
  <2>7. HeapInv'
    BY <2>1, <2>4, <2>5, <2>6 DEF IInv, HeapInv, Coalesced
  <2>8. LumpsTold(mem', lumpcache')
    BY <2>1, <2>4, <2>6 DEF IInv, LumpsTold
  <2>9. HoldersTold'
    <3>1. \A h \in Holder : held[h] # NULL =>
             held[h] \in Address /\ mem'[held[h]].user = "unowned"
      BY <2>1, <2>4 DEF IInv, HoldersTold
    <3>2. \A x \in Address : mem'[x].user = "unowned" => mem'[x].tag \in UnownedTag
      BY <2>2, <2>4 DEF IInv, HoldersTold
    <3> QED
      BY <2>1, <3>1, <3>2 DEF IInv, HoldersTold
  <2>10. RequestInv' /\ ScanInv'
    BY <2>1 DEF IInv, RequestInv, ScanInv
  <2> QED
    BY <2>7, <2>8, <2>9, <2>10 DEF IInv
<1> QED
  BY <1>1, <1>2

LEMMA TakeInv ==
    ASSUME IInv, NEW h \in Holder, NEW l \in Lump, NEW t \in UnownedTag,
           TakeUnowned(h, LumpSize[l], t)
    PROVE  IInv'
<1>1. LumpSize[l] \in Nat /\ t \in Tag
  BY ZoneAssumption
<1>2. held[h] = NULL /\ Z_Malloc(LumpSize[l], t, "unowned", h)
  BY DEF TakeUnowned
<1> QED
  BY <1>1, <1>2, MallocInv

LEMMA GiveBackInv ==
    ASSUME IInv, NEW h \in Holder, GiveBack(h)
    PROVE  IInv'
<1> DEFINE b == held[h]
           z == Freed([mem |-> mem, rover |-> rover], b)
<1>1. /\ pc = "idle" /\ b # NULL
      /\ mem' = Scrubbed(z.mem) /\ rover' = z.rover /\ lumpcache' = Cleared(mem[b].user)
      /\ held' = [held EXCEPT ![h] = NULL]
      /\ UNCHANGED <<pc, req, base, scan, start, block>>
  BY DEF GiveBack, Z_Free
<1>2. b \in Address /\ mem[b].user = "unowned" /\ b # Cap
  BY <1>1 DEF IInv, HoldersTold, HeapInv, Sound, HeadersOK
<1> HIDE DEF z
<1>3. FreedAt(mem', b) /\ rover' \in Address /\ ~mem'[rover'].gone
  BY <1>1, <1>2, FreedStep DEF IInv, z
<1>4. HeapInv'
  BY <1>3 DEF HeapInv, FreedAt
<1>5. LumpsTold(mem', lumpcache')
  BY <1>1, <1>2, <1>3, ClearedTold DEF IInv, FreedAt
<1>6. HoldersTold'
  <2>1. /\ \A g \in Holder : held[g] # NULL =>
             mem'[held[g]].user = "unowned" \/ held[g] = b
        /\ \A a \in Address : mem'[a].user = "unowned" => mem'[a].tag \in UnownedTag
    BY <1>1, <1>2, <1>3, FreedHolders DEF IInv, FreedAt
  <2>2. /\ held' \in [Holder -> Address \cup {NULL}]
        /\ \A g \in Holder : held'[g] = IF g = h THEN NULL ELSE held[g]
    BY <1>1 DEF IInv, HoldersTold
  <2>3. \A g \in Holder : held[g] = b => g = h
    BY <1>1 DEF IInv, HoldersTold
  <2>4. \A g \in Holder : held'[g] # NULL => mem'[held'[g]].user = "unowned"
    BY <2>1, <2>2, <2>3
  <2>5. \A g, f \in Holder : held'[g] # NULL /\ held'[g] = held'[f] => g = f
    BY <2>2 DEF IInv, HoldersTold
  <2> QED
    BY <2>1, <2>2, <2>4, <2>5 DEF HoldersTold
<1>7. RequestInv' /\ ScanInv'
  BY <1>1 DEF IInv, RequestInv, ScanInv
<1> QED
  BY <1>4, <1>5, <1>6, <1>7 DEF IInv

LEMMA NextInv ==
    ASSUME IInv, [Next]_vars
    PROVE  IInv'
<1>1. CASE Calls
  BY <1>1, CacheInv, TakeInv, GiveBackInv, BeginSweepInv DEF Calls
<1>2. CASE Steps
  BY <1>2, ScanFailsInv, ScanMovesInv, ScanPurgesInv, AllocateInv, SweepInv, EndSweepInv DEF Steps
<1>3. CASE UNCHANGED vars
  BY <1>3 DEF vars, IInv, HeapInv, HoldersTold, RequestInv, ScanInv
<1> QED
  BY <1>1, <1>2, <1>3 DEF Next

-----------------------------------------------------------------------------
(* The theorems                                                            *)

\* IInv is an invariant of the zone: the list, the owners, the request and the
\* place of the scan fit together at every turn of every loop.
THEOREM Inductive == Spec => []IInv
<1>1. Init => IInv
  BY InitInv
<1>2. IInv /\ [Next]_vars => IInv'
  BY NextInv
<1> QED
  BY <1>1, <1>2, PTL DEF Spec

\* Every variable keeps its type: no link, rover or owner's variable ever leaves
\* the zone, whatever Z_Free merges and Z_Malloc splits.
THEOREM TypeCorrect == Spec => []TypeOK
<1>1. IInv => TypeOK
  BY DEF IInv, HeapInv, Sound, HeadersOK, LumpsTold, HoldersTold, RequestInv, ScanInv, TypeOK
<1> QED
  BY <1>1, Inductive, PTL

\* Z_Free and Z_Malloc keep the list whole at every step: the blocks fill the
\* zone side by side, the links agree, no two free blocks are neighbours, and
\* no rover is left in a header that was merged away.
THEOREM SoundHeap == Spec => []HeapIsSound
<1>1. ASSUME IInv PROVE BlocksTile
  <2> SUFFICES ASSUME NEW a \in Listed(mem) \cup {Cap}
               PROVE  LET n == mem[a].next IN
                      /\ n \in Listed(mem) \cup {Cap} /\ mem[n].prev = a
                      /\ IF a = Cap THEN n = First
                         ELSE n = IF a + mem[a].size = ZoneSize + 1 THEN Cap ELSE a + mem[a].size
                      /\ mem[a].user = "free" => mem[n].user # "free"
                      /\ a # Cap => mem[a].size >= HeaderSize
    BY DEF BlocksTile
  <2>1. a \in Address /\ ~mem[a].gone
    BY <1>1, ZoneAssumption DEF IInv, HeapInv, Sound, HeadersOK, Listed, Address, Cap
  <2>2. mem[a].next \in Address
    BY <1>1, <2>1 DEF IInv, HeapInv, Sound, HeadersOK, Header
  <2> QED
    BY <1>1, <2>1, <2>2 DEF IInv, HeapInv, Sound, HeadersOK, LinksOK, Coalesced, Listed
<1>2. ASSUME IInv PROVE RoversAreListed
  BY <1>2 DEF IInv, HeapInv, Sound, HeadersOK, ScanInv, RoversAreListed, Listed
<1>3. IInv => HeapIsSound
  BY <1>1, <1>2 DEF HeapIsSound
<1> QED
  BY <1>3, Inductive, PTL

\* An owner's variable and its block point at each other until the block is
\* freed or purged, and the variable is NULL from then on; a caller without an
\* owner keeps its block until it, or Z_FreeTags, frees it.
THEOREM Told == Spec => []OwnersAreTold
<1>1. ASSUME IInv PROVE OwnersAreTold
  <2>1. /\ "zone" \notin Lump /\ "free" \notin Lump /\ mem[Cap].user = "zone"
        /\ \A a \in Address : mem[a].gone => mem[a].user = "free"
    BY <1>1, ZoneAssumption DEF Marks, IInv, HeapInv, Sound, HeadersOK
  <2>2. ASSUME NEW l \in Lump
        PROVE  /\ lumpcache[l] # NULL => lumpcache[l] \in Used(mem) /\ mem[lumpcache[l]].user = l
               /\ \A a \in Used(mem) : mem[a].user = l => lumpcache[l] = a
    BY <1>1, <2>1 DEF IInv, LumpsTold, Used, Listed
  <2>3. ASSUME pc # "sweep", NEW h \in Holder, held[h] # NULL
        PROVE  held[h] \in Used(mem) /\ mem[held[h]].user = "unowned"
    BY <1>1, <2>1, <2>3 DEF IInv, HoldersTold, Used, Listed
  <2> QED
    BY <2>2, <2>3 DEF OwnersAreTold
<1> QED
  BY <1>1, Inductive, PTL

-----------------------------------------------------------------------------
(* What a scan has passed and what a sweep has left behind                 *)

\* No block of the list lies between a block and the next one.
LEMMA AfterNext ==
    ASSUME NEW m, Sound(m), NEW x \in Address, ~m[x].gone, NEW a \in Address, ~m[a].gone, a > x
    PROVE  m[x].next # Cap /\ a >= m[x].next
<1>1. x \in Nat /\ a \in Nat /\ a <= ZoneSize /\ ZoneSize \in Nat /\ Cap = 0 /\ First = 1
  BY ZoneAssumption DEF Address, Cap, First
<1>2. CASE x = Cap
  BY <1>1, <1>2 DEF Sound, HeadersOK
<1>3. CASE x # Cap
  <2>1. x + m[x].size <= a
    BY <1>3 DEF Sound, DisjointOK
  <2>2. m[x].next = IF x + m[x].size = ZoneSize + 1 THEN Cap ELSE x + m[x].size
    BY <1>3 DEF Sound, LinksOK
  <2>3. m[x].size \in Nat /\ m[x].size >= 1
    <3>1. m[x] \in Header /\ m[x].size >= HeaderSize
      BY <1>3 DEF Sound, HeadersOK
    <3> QED
      BY <3>1, ZoneAssumption DEF Header
  <2>4. x + m[x].size # ZoneSize + 1
    BY <1>1, <2>1
  <2> QED
    BY <1>1, <2>1, <2>2, <2>3, <2>4
<1> QED
  BY <1>2, <1>3

\* a is behind s and before b on the way round the list.
Between(s, a, b) == IF s < b THEN s < a /\ a < b ELSE a > s \/ a < b

LEMMA NothingBetween ==
    ASSUME NEW m, Sound(m), NEW s \in Address, ~m[s].gone, NEW a \in Address, ~m[a].gone,
           m[s].next # s
    PROVE  ~Between(s, a, m[s].next)
<1>1. s \in Nat /\ a \in Nat /\ Cap = 0 /\ m[s].next \in Address /\ ~m[m[s].next].gone
  <2>1. m[s] \in Header /\ ~m[m[s].next].gone
    BY DEF Sound, HeadersOK, LinksOK
  <2>2. m[s].next \in Address
    BY <2>1 DEF Header
  <2> QED
    BY <2>1, <2>2, ZoneAssumption DEF Address, Cap
<1>2. m[s].next \in Nat
  BY <1>1, ZoneAssumption DEF Address
<1>3. a > s => m[s].next # Cap /\ a >= m[s].next
  BY AfterNext
<1>4. CASE s < m[s].next
  BY <1>1, <1>2, <1>3, <1>4 DEF Between
<1>5. CASE ~(s < m[s].next)
  <2>1. m[s].next = Cap
    <3>1. CASE s = Cap
      BY <1>1, <1>2, <1>5, <3>1
    <3>2. CASE s # Cap
      <4>1. m[s].size \in Nat /\ m[s].size >= 1
        <5>1. m[s] \in Header /\ m[s].size >= HeaderSize
          BY <3>2 DEF Sound, HeadersOK
        <5> QED
          BY <5>1, ZoneAssumption DEF Header
      <4>2. m[s].next = IF s + m[s].size = ZoneSize + 1 THEN Cap ELSE s + m[s].size
        BY <3>2 DEF Sound, LinksOK
      <4> QED
        BY <1>1, <1>5, <4>1, <4>2
    <3> QED
      BY <3>1, <3>2
  <2> QED
    BY <1>1, <1>3, <1>5, <2>1 DEF Between
<1> QED
  BY <1>4, <1>5

\* A turn further, one more block lies behind.
LEMMA BetweenNext ==
    ASSUME NEW m, Sound(m), NEW s \in Address, NEW x \in Address, ~m[x].gone, x # s,
           NEW a \in Address, ~m[a].gone, Between(s, a, m[x].next), a # x
    PROVE  Between(s, a, x)
<1>1. s \in Nat /\ a \in Nat /\ x \in Nat /\ Cap = 0
      /\ m[x].next \in Address
  BY ZoneAssumption DEF Address, Cap, Sound, HeadersOK, Header
<1>2. m[x].next \in Nat
  BY <1>1, ZoneAssumption DEF Address
<1>3. a > x => m[x].next # Cap /\ a >= m[x].next
  BY AfterNext
<1>4. m[x].next > x \/ m[x].next = Cap
  <2>1. CASE x = Cap
    BY <1>1, <1>2, <2>1
  <2>2. CASE x # Cap
    <3>1. m[x].size \in Nat /\ m[x].size >= 1
      <4>1. m[x] \in Header /\ m[x].size >= HeaderSize
        BY <2>2 DEF Sound, HeadersOK
      <4> QED
        BY <4>1, ZoneAssumption DEF Header
    <3>2. m[x].next = IF x + m[x].size = ZoneSize + 1 THEN Cap ELSE x + m[x].size
      BY <2>2 DEF Sound, LinksOK
    <3> QED
      BY <1>1, <3>1, <3>2
  <2> QED
    BY <2>1, <2>2
<1>5. CASE a > x
  BY <1>1, <1>2, <1>3, <1>4, <1>5 DEF Between
<1>6. CASE a < x
  BY <1>1, <1>2, <1>4, <1>6 DEF Between
<1> QED
  BY <1>1, <1>5, <1>6

\* A block the scan had to leave where it is.
Kept(m, a) == ~Fits(m, a) /\ (m[a].user # "free" => m[a].tag < PU_PURGELEVEL)

\* What lies between start and base was left, and so was base when the scan has
\* moved on from it; when Z_Malloc gives up, this is all of the list but start.
PassedInv ==
    /\ pc = "scan" =>
        /\ \A a \in Address : ~mem[a].gone /\ Between(start, a, base) => Kept(mem, a)
        /\ base # scan => ~Fits(mem, base)
        /\ start \in Address /\ ~mem[start].gone
    /\ FailureIsReal

\* No block with a tag of the level lies behind the sweep.  If the header it is
\* at was merged away, it goes on from there to a block of the list.
SweptInv ==
    pc = "sweep" =>
        /\ \A a \in Address : ~mem[a].gone /\ mem[a].user # "free" /\ mem[a].tag \in LevelTag =>
               a = Cap \/ (block # Cap /\ a >= block)
        /\ block # Cap /\ mem[block].gone =>
               LET q == mem[block].next IN
               /\ ~mem[q].gone
               /\ \A a \in Address : ~mem[a].gone /\ mem[a].user # "free" /\ a >= block =>
                      q # Cap /\ a >= q

LEMMA PassedAtMalloc ==
    ASSUME IInv, NEW size, NEW tag, NEW user, NEW holder, Z_Malloc(size, tag, user, holder)
    PROVE  PassedInv'
<1> DEFINE prev == mem[rover].prev
           first == IF mem[prev].user = "free" THEN prev ELSE rover
<1>1. /\ pc' = "scan" /\ base' = first /\ scan' = first /\ start' = mem[first].prev /\ mem' = mem
  BY DEF Z_Malloc
<1>2. /\ first \in Address /\ ~mem[first].gone /\ Sound(mem)
  <2>1. rover \in Address /\ ~mem[rover].gone /\ Sound(mem)
    BY DEF IInv, HeapInv
  <2>2. prev \in Address /\ ~mem[prev].gone
    BY <2>1 DEF Sound, HeadersOK, LinksOK, Header
  <2> QED
    BY <2>1, <2>2
<1> HIDE DEF first
<1>3. LET s == mem[first].prev IN s \in Address /\ ~mem[s].gone /\ mem[s].next = first
  BY <1>2 DEF Sound, HeadersOK, LinksOK, Header
<1>4. mem[first].prev # first
  <2>1. CASE first = Cap
    <3>1. mem[Cap].next = First /\ First # Cap
      BY <1>2 DEF Sound, HeadersOK, First, Cap
    <3> QED
      BY <1>2, <1>3, <2>1, <3>1
  <2>2. CASE first # Cap
    BY <1>2, <2>2, Apart
  <2> QED
    BY <2>1, <2>2
<1>5. \A a \in Address : ~mem[a].gone => ~Between(mem[first].prev, a, first)
  BY <1>2, <1>3, <1>4, NothingBetween
<1>6. pc' # "fatal"
  BY <1>1
<1> QED
  BY <1>1, <1>3, <1>5, <1>6 DEF PassedInv, FailureIsReal

LEMMA PassedAtKeep ==
    ASSUME IInv, PassedInv, ScanKeeps
    PROVE  PassedInv'
<1>1. /\ pc = "scan" /\ scan # start /\ mem[scan].user # "free" /\ mem[scan].tag < PU_PURGELEVEL
      /\ base' = mem[scan].next /\ scan' = mem[scan].next /\ mem' = mem /\ start' = start
      /\ req' = req /\ pc' # "fatal"
  BY DEF ScanKeeps, Around, Decide
<1>2. /\ Sound(mem) /\ base \in Address /\ scan \in Address /\ start \in Address
      /\ ~mem[base].gone /\ ~mem[scan].gone /\ mem[start].user # "free"
      /\ base = scan \/ (mem[base].user = "free" /\ scan = mem[base].next)
  BY <1>1 DEF IInv, HeapInv, ScanInv
<1>3. ASSUME NEW a \in Address, ~mem[a].gone, Between(start, a, mem[scan].next)
      PROVE  Kept(mem, a)
  <2>1. CASE a = scan
    BY <1>1, <2>1 DEF Kept, Fits
  <2>2. CASE a # scan
    <3>1. Between(start, a, scan)
      BY <1>1, <1>2, <1>3, <2>2, BetweenNext
    <3>2. CASE base = scan
      BY <1>1, <1>3, <3>1, <3>2 DEF PassedInv
    <3>3. CASE base # scan
      <4>1. mem[base].user = "free" /\ scan = mem[base].next /\ base # start /\ ~Fits(mem, base)
        BY <1>1, <1>2, <3>3 DEF PassedInv
      <4>2. CASE a = base
        BY <4>1, <4>2 DEF Kept
      <4>3. CASE a # base
        <5>1. Between(start, a, base)
          BY <1>2, <1>3, <3>1, <4>1, <4>3, BetweenNext
        <5> QED
          BY <1>1, <1>3, <5>1 DEF PassedInv
      <4> QED
        BY <4>2, <4>3
    <3> QED
      BY <3>2, <3>3
  <2> QED
    BY <2>1, <2>2
<1>4. \A a \in Address : Kept(mem, a) => Kept(mem, a)'
  BY <1>1 DEF Kept, Fits
<1>5. start' \in Address /\ ~mem'[start'].gone /\ base' = scan'
  BY <1>1 DEF PassedInv
<1> QED
  BY <1>1, <1>3, <1>4, <1>5 DEF PassedInv, FailureIsReal

LEMMA PassedAtPass ==
    ASSUME IInv, PassedInv, ScanPasses
    PROVE  PassedInv'
<1>1. /\ pc = "scan" /\ mem' = mem /\ start' = start /\ req' = req /\ base' = base
      /\ pc' = IF Fits(mem', base') THEN "found" ELSE "scan"
  BY DEF ScanPasses, Decide
<1>2. ~Fits(mem, base)' \/ pc' # "scan"
  BY <1>1 DEF Fits
<1>3. \A a \in Address : Kept(mem, a) => Kept(mem, a)'
  BY <1>1 DEF Kept, Fits
<1>4. pc' # "fatal"
  BY <1>1
<1>5. /\ \A a \in Address : ~mem'[a].gone /\ Between(start', a, base') => Kept(mem, a)'
      /\ start' \in Address /\ ~mem'[start'].gone
  BY <1>1, <1>3 DEF PassedInv
<1> QED
  BY <1>2, <1>4, <1>5 DEF PassedInv, FailureIsReal

LEMMA PassedAtPurge ==
    ASSUME IInv, PassedInv, ScanPurges
    PROVE  PassedInv'
<1>1. /\ pc = "scan" /\ mem[scan].user # "free" /\ mem[scan].tag >= PU_PURGELEVEL
      /\ base' = mem'[mem[base].prev].next
      /\ pc' = IF Fits(mem', base') THEN "found" ELSE "scan"
      /\ req' = req /\ start' = start
  BY DEF ScanPurges, Decide
<1>2. /\ Sound(mem) /\ base \in Address /\ scan \in Address
      /\ ~mem[base].gone /\ ~mem[scan].gone /\ mem[start].user # "free"
      /\ \/ base = scan /\ mem[mem[base].prev].user # "free"
         \/ mem[base].user = "free" /\ scan = mem[base].next /\ mem[scan].prev = base
  BY <1>1 DEF IInv, HeapInv, ScanInv, Sound, LinksOK
<1>3. FreedAt(mem', scan) /\ scan # Cap
  BY ScanFrees
<1>4. base' = base
  <2>1. CASE base = scan /\ mem[mem[base].prev].user # "free"
    BY <1>1, <1>3, <2>1 DEF FreedAt
  <2>2. CASE mem[base].user = "free" /\ scan = mem[base].next /\ mem[scan].prev = base
    BY <1>1, <1>3, <2>2 DEF FreedAt
  <2> QED
    BY <1>2, <2>1, <2>2
<1>5. ASSUME NEW a \in Address, ~mem'[a].gone, Between(start, a, base)
      PROVE  Kept(mem, a)'
  <2>1. ~mem[a].gone /\ Kept(mem, a)
    BY <1>1, <1>3, <1>5 DEF FreedAt, FreedOnly, PassedInv
  <2>2. a # scan
    <3>1. mem[scan].tag \in Int
      <4>1. mem[scan].tag \in Tag \cup {0}
        BY <1>2 DEF Sound, HeadersOK, Header
      <4> QED
        BY <4>1, TagsAreIntegers
    <3> QED
      BY <1>1, <2>1, <3>1, ZoneAssumption DEF Kept
  <2>3. mem'[a].user = mem[a].user
    BY <1>3, <2>2 DEF FreedAt, FreedOnly
  <2>4. CASE mem[a].user # "free"
    BY <1>3, <2>1, <2>3, <2>4 DEF Kept, Fits, FreedAt, FreedOnly
  <2>5. CASE mem[a].user = "free"
    <3>1. a # mem[scan].prev
      <4>1. a # base
        <5>1. base \in Int /\ start \in Int
          BY <1>1, <1>2, ZoneAssumption DEF PassedInv, Address, Cap
        <5> QED
          BY <1>5, <5>1 DEF Between
      <4> QED
        BY <1>2, <2>5, <4>1
    <3>2. mem'[a].size = mem[a].size
      BY <1>3, <1>5, <2>2, <3>1 DEF FreedAt, FreedOnly
    <3> QED
      BY <1>1, <2>1, <2>3, <2>5, <3>2 DEF Kept, Fits
  <2> QED
    BY <2>4, <2>5
<1>6. start' \in Address /\ ~mem'[start'].gone
  <2>1. start \in Address /\ mem'[start].user # "free"
    <3>1. start # scan /\ start \in Address
      BY <1>1 DEF PassedInv, ScanPurges, Around
    <3> QED
      BY <1>2, <1>3, <3>1 DEF FreedAt, FreedOnly
  <2> QED
    BY <1>1, <1>3, <2>1 DEF FreedAt, Sound, HeadersOK
<1>7. pc' # "fatal" /\ (pc' = "scan" => ~Fits(mem, base)')
  BY <1>1 DEF Fits
<1> QED
  BY <1>1, <1>4, <1>5, <1>6, <1>7 DEF PassedInv, FailureIsReal

LEMMA PassedAtFail ==
    ASSUME IInv, PassedInv, ScanFails
    PROVE  PassedInv'
<1>1. /\ pc = "scan" /\ pc' = "fatal" /\ scan = start
      /\ mem' = mem /\ start' = start /\ req' = req
  BY DEF ScanFails, Around
<1>2. /\ Sound(mem) /\ base \in Address /\ start \in Address
      /\ ~mem[base].gone /\ mem[start].user # "free"
      /\ base = scan \/ (mem[base].user = "free" /\ scan = mem[base].next)
  BY <1>1 DEF IInv, HeapInv, ScanInv
<1>3. ASSUME NEW a \in Address, ~mem[a].gone, a # start
      PROVE  Kept(mem, a)
  <2>1. Between(start, a, start)
    <3>1. a \in Int /\ start \in Int
      BY <1>2, ZoneAssumption DEF Address, Cap
    <3> QED
      BY <1>3, <3>1 DEF Between
  <2>2. CASE base = scan
    BY <1>1, <1>3, <2>1, <2>2 DEF PassedInv
  <2>3. CASE base # scan
    <3>1. mem[base].user = "free" /\ start = mem[base].next /\ base # start /\ ~Fits(mem, base)
      BY <1>1, <1>2, <2>3 DEF PassedInv
    <3>2. CASE a = base
      BY <3>1, <3>2 DEF Kept
    <3>3. CASE a # base
      <4>1. Between(start, a, base)
        BY <1>2, <1>3, <2>1, <3>1, <3>3, BetweenNext
      <4> QED
        BY <1>1, <1>3, <4>1 DEF PassedInv
    <3> QED
      BY <3>2, <3>3
  <2> QED
    BY <2>2, <2>3
<1>4. ~Fits(mem, start)
  BY <1>2 DEF Fits
<1>5. ASSUME NEW a \in Listed(mem)
      PROVE  /\ ~Fits(mem, a)
             /\ mem[a].user # "free" /\ mem[a].tag >= PU_PURGELEVEL => a = start
  <2>1. a \in Address /\ ~mem[a].gone /\ mem[a].tag \in Int
    <3>1. a \in Address /\ ~mem[a].gone
      BY DEF Listed
    <3>2. mem[a].tag \in Tag \cup {0}
      BY <1>2, <3>1 DEF Sound, HeadersOK, Header
    <3> QED
      BY <3>1, <3>2, TagsAreIntegers
  <2>2. CASE a = start
    BY <1>4, <2>2
  <2>3. CASE a # start
    <3>1. Kept(mem, a)
      BY <1>3, <2>1, <2>3
    <3> QED
      BY <2>1, <3>1, ZoneAssumption DEF Kept
  <2> QED
    BY <2>2, <2>3
<1> QED
  BY <1>1, <1>5 DEF PassedInv, FailureIsReal, Fits, Listed

\* The other steps neither scan nor change the headers of a scan that failed.
LEMMA PassedInvStep ==
    ASSUME IInv, PassedInv, [Next]_vars
    PROVE  PassedInv'
<1>1. ASSUME pc' \notin {"scan", "fatal"}
      PROVE  PassedInv'
  BY <1>1 DEF PassedInv, FailureIsReal
<1>2. CASE UNCHANGED vars
  BY <1>2 DEF vars, PassedInv, FailureIsReal, Kept, Fits, Listed
<1>3. ASSUME NEW l \in Lump, NEW t \in Tag, W_CacheLumpNum(l, t)
      PROVE  PassedInv'
  BY <1>1, <1>3, PassedAtMalloc DEF W_CacheLumpNum
<1>4. ASSUME NEW h \in Holder, NEW l \in Lump, NEW t \in UnownedTag,
             TakeUnowned(h, LumpSize[l], t)
      PROVE  PassedInv'
  BY <1>4, PassedAtMalloc DEF TakeUnowned
<1>5. ASSUME NEW h \in Holder, GiveBack(h)
      PROVE  PassedInv'
  BY <1>1, <1>5 DEF GiveBack
<1>6. CASE BeginSweep \/ Sweep \/ EndSweep \/ Allocate
  BY <1>1, <1>6 DEF BeginSweep, Sweep, EndSweep, Allocate
<1> QED
  BY <1>2, <1>3, <1>4, <1>5, <1>6, PassedAtKeep, PassedAtPass, PassedAtPurge, PassedAtFail
  DEF Next, Calls, Steps

LEMMA SweptAtBegin ==
    ASSUME IInv, BeginSweep
    PROVE  SweptInv'
<1>1. mem' = mem /\ block' = mem[Cap].next
  BY DEF BeginSweep
<1>2. Sound(mem) /\ Cap \in Address /\ block' = First /\ First # Cap
  BY <1>1, ZoneAssumption DEF IInv, HeapInv, Sound, HeadersOK, Address, Cap, First
<1>3. ~mem'[block'].gone
  BY <1>1, <1>2 DEF Sound, HeadersOK, LinksOK
<1>4. \A a \in Address : a = Cap \/ a >= First
  BY ZoneAssumption DEF Address, Cap, First
<1> QED
  BY <1>1, <1>2, <1>3, <1>4 DEF SweptInv

LEMMA SweptAtSweep ==
    ASSUME IInv, SweptInv, Sweep
    PROVE  SweptInv'
<1> DEFINE q == mem[block].next
<1>1. /\ pc = "sweep" /\ block # Cap /\ block' = q /\ pc' = pc
      /\ \/ mem' = mem /\ ~(mem[block].user # "free" /\ mem[block].tag \in LevelTag)
         \/ /\ mem[block].user # "free"
            /\ mem' = Freed([mem |-> mem, rover |-> rover], block).mem
  BY DEF Sweep
<1>2. /\ Sound(mem) /\ Coalesced(mem) /\ block \in Address /\ q \in Address /\ mem[Cap].user = "zone"
  <2>1. Sound(mem) /\ Coalesced(mem) /\ block \in Address
    BY DEF IInv, HeapInv, ScanInv
  <2>2. mem[block] \in Header /\ mem[Cap].user = "zone"
    BY <2>1 DEF Sound, HeadersOK
  <2> QED
    BY <2>1, <2>2 DEF Header
<1> HIDE DEF q
<1>3. CASE mem[block].gone
  <2>1. mem' = mem /\ ~mem[q].gone
    BY <1>1, <1>2, <1>3 DEF SweptInv, Sound, HeadersOK, q
  <2>2. ASSUME NEW a \in Address, ~mem[a].gone, mem[a].user # "free", mem[a].tag \in LevelTag,
               a # Cap
        PROVE  q # Cap /\ a >= q
    BY <1>1, <1>3, <2>2 DEF SweptInv, q
  <2> QED
    BY <1>1, <2>1, <2>2 DEF SweptInv
<1>4. CASE ~mem[block].gone
  <2>1. ASSUME NEW a \in Address, ~mem[a].gone, mem[a].user # "free", mem[a].tag \in LevelTag,
               a # Cap, a # block
        PROVE  q # Cap /\ a >= q
    <3>1. a >= block
      BY <1>1, <2>1 DEF SweptInv
    <3>2. a > block
      BY <1>2, <2>1, <3>1, ZoneAssumption DEF Address, Cap
    <3> QED
      BY <1>2, <1>4, <2>1, <3>2, AfterNext DEF q
  <2>2. ~mem[q].gone /\ mem[q].prev = block
    BY <1>2, <1>4 DEF Sound, LinksOK, q
  <2>3. CASE mem' = mem /\ ~(mem[block].user # "free" /\ mem[block].tag \in LevelTag)
    BY <1>1, <2>1, <2>2, <2>3 DEF SweptInv
  <2>4. CASE mem[block].user # "free" /\ mem' = Freed([mem |-> mem, rover |-> rover], block).mem
    <3>1. FreedAt(mem', block) /\ mem'[q].next = mem[q].next
      BY <1>1, <1>2, <2>4, FreedStep DEF IInv, q
    <3>2. /\ \A a \in Address : mem'[a].user = IF a = block THEN "free" ELSE mem[a].user
          /\ \A a \in Address : mem'[a].user # "free" => mem'[a].tag = mem[a].tag
          /\ \A a \in Address : ~mem'[a].gone => ~mem[a].gone
          /\ \A a \in Address : mem'[a].gone => mem'[a].user = "free"
      BY <3>1 DEF FreedAt, FreedOnly, Sound, HeadersOK
    <3>3. ASSUME NEW a \in Address, ~mem'[a].gone, mem'[a].user # "free", mem'[a].tag \in LevelTag,
                 a # Cap
          PROVE  q # Cap /\ a >= q
      BY <2>1, <3>2, <3>3
    <3>4. ASSUME q # Cap, mem'[q].gone
          PROVE  /\ ~mem'[mem'[q].next].gone
                 /\ \A a \in Address : ~mem'[a].gone /\ mem'[a].user # "free" /\ a >= q =>
                        mem'[q].next # Cap /\ a >= mem'[q].next
      <4> DEFINE r == mem[q].next
      <4>1. q # block
        BY <1>1, <1>2, <1>4, Apart DEF q
      <4>2. mem[q].user = "free"
        BY <1>2, <3>2, <3>4, <4>1
      <4>3. r \in Address /\ ~mem[r].gone /\ mem[r].user # "free"
        <5>1. mem[q] \in Header
          BY <1>2 DEF Sound, HeadersOK
        <5> QED
          BY <1>2, <2>2, <4>2, <5>1 DEF Sound, LinksOK, Coalesced, Header
      <4>4. r # block
        <5>1. CASE mem[q].next = block
          <6>1. mem[block].prev = q /\ q > block
            <7>1. mem[block].prev = q
              BY <1>2, <2>2, <5>1 DEF Sound, LinksOK
            <7>2. q = block + mem[block].size
              BY <1>1, <1>2, <1>4, <3>4 DEF Sound, LinksOK, q
            <7>3. mem[block].size \in Nat /\ mem[block].size >= 1
              <8>1. mem[block] \in Header /\ mem[block].size >= HeaderSize
                BY <1>1, <1>2, <1>4 DEF Sound, HeadersOK
              <8> QED
                BY <8>1, ZoneAssumption DEF Header
            <7> QED
              BY <1>2, <7>1, <7>2, <7>3, ZoneAssumption DEF Address, Cap
          <6>2. block = q + mem[q].size
            BY <1>1, <1>2, <2>2, <3>4, <5>1 DEF Sound, LinksOK
          <6>3. mem[q].size \in Nat
            BY <1>2 DEF Sound, HeadersOK, Header
          <6> QED
            BY <1>2, <6>1, <6>2, <6>3, ZoneAssumption DEF Address, Cap
        <5> QED
          BY <5>1
      <4>5. ~mem'[r].gone
        BY <3>2, <4>3, <4>4
      <4>6. ASSUME NEW a \in Address, ~mem'[a].gone, mem'[a].user # "free", a >= q
            PROVE  r # Cap /\ a >= r
        <5>1. ~mem[a].gone /\ a # q
          BY <3>2, <3>4, <4>6
        <5>2. a > q
          BY <1>2, <4>6, <5>1, ZoneAssumption DEF Address, Cap
        <5> QED
          BY <1>2, <2>2, <5>1, <5>2, AfterNext
      <4> QED
        BY <3>1, <4>5, <4>6
    <3> QED
      BY <1>1, <3>3, <3>4 DEF SweptInv
  <2> QED
    BY <1>1, <2>3, <2>4
<1> QED
  BY <1>3, <1>4

LEMMA SweptInvStep ==
    ASSUME IInv, SweptInv, [Next]_vars
    PROVE  SweptInv'
<1>1. ASSUME pc' # "sweep"
      PROVE  SweptInv'
  BY <1>1 DEF SweptInv
<1>2. CASE UNCHANGED vars
  BY <1>2 DEF vars, SweptInv
<1>3. ASSUME NEW l \in Lump, NEW t \in Tag, W_CacheLumpNum(l, t)
      PROVE  SweptInv'
  BY <1>1, <1>3 DEF W_CacheLumpNum, Z_Malloc
<1>4. ASSUME NEW h \in Holder, NEW l \in Lump, NEW t \in UnownedTag,
             TakeUnowned(h, LumpSize[l], t)
      PROVE  SweptInv'
  BY <1>1, <1>4 DEF TakeUnowned, Z_Malloc
<1>5. ASSUME NEW h \in Holder, GiveBack(h)
      PROVE  SweptInv'
  BY <1>1, <1>5 DEF GiveBack
<1>6. CASE ScanFails \/ ScanKeeps \/ ScanPurges \/ ScanPasses \/ Allocate \/ EndSweep
  BY <1>1, <1>6 DEF ScanFails, ScanKeeps, ScanPurges, ScanPasses, Allocate, EndSweep, Decide
<1> QED
  BY <1>2, <1>3, <1>4, <1>5, <1>6, SweptAtBegin, SweptAtSweep DEF Next, Calls, Steps

\* Z_Malloc gives up only when no free block is large enough and nothing can be
\* thrown out but the block the scan started behind, whatever the scan purged
\* and merged on its way round.
THEOREM RealFailure == Spec => []FailureIsReal
<1>1. Init => PassedInv
  BY DEF Init, PassedInv, FailureIsReal
<1>2. IInv /\ PassedInv /\ [Next]_vars => PassedInv'
  BY PassedInvStep
<1>3. PassedInv => FailureIsReal
  BY DEF PassedInv
<1> QED
  BY <1>1, <1>2, <1>3, Inductive, PTL DEF Spec

\* Z_FreeTags leaves no block with one of its tags, although the block it is to
\* look at next may be merged away by the free before.
THEOREM CompleteSweep == Spec => []SweepIsComplete
<1>1. Init => SweptInv
  BY DEF Init, SweptInv
<1>2. IInv /\ SweptInv /\ [Next]_vars => SweptInv'
  BY SweptInvStep
<1>3. SweptInv => SweepIsComplete
  <2> SUFFICES ASSUME SweptInv, pc = "sweep", block = Cap, NEW a \in Used(mem)
               PROVE  mem[a].tag \notin LevelTag
    BY DEF SweepIsComplete
  <2>1. a \in Address /\ a # Cap /\ ~mem[a].gone /\ mem[a].user # "free"
    BY DEF Used, Listed
  <2> QED
    BY <2>1 DEF SweptInv
<1> QED
  BY <1>1, <1>2, <1>3, Inductive, PTL DEF Spec

-----------------------------------------------------------------------------
(* The zone implements Heap                                                *)

\* The block at address a, as Heap sees it, and all the blocks in use.
BlockAt(m, a) == [owner |-> m[a].user, at |-> a, size |-> m[a].size, tag |-> m[a].tag]
LiveIn(m) == {BlockAt(m, a) : a \in Used(m)}

LEMMA UsedIs ==
    ASSUME NEW m, Sound(m)
    PROVE  Used(m) = {a \in Address : a # Cap /\ m[a].user # "free"}
  BY DEF Sound, HeadersOK, Used, Listed

LEMMA BlocksDiffer ==
    ASSUME NEW m, NEW n, NEW a, NEW b, BlockAt(m, a) = BlockAt(n, b)
    PROVE  a = b
<1>1. BlockAt(m, a).at = a /\ BlockAt(n, b).at = b
  BY DEF BlockAt
<1> QED
  BY <1>1

\* A free takes one block away.
LEMMA FreedReleases ==
    ASSUME Sound(mem), NEW n, Sound(n), NEW b \in Address, b # Cap, mem[b].user # "free",
           FreedOnly(mem, n, b)
    PROVE  /\ BlockAt(mem, b) \in LiveIn(mem)
           /\ LiveIn(n) = LiveIn(mem) \ {BlockAt(mem, b)}
<1>1. /\ Used(mem) = {a \in Address : a # Cap /\ mem[a].user # "free"}
      /\ Used(n) = {a \in Address : a # Cap /\ n[a].user # "free"}
  BY UsedIs
<1>2. b \in Used(mem) /\ Used(n) = Used(mem) \ {b}
  BY <1>1 DEF FreedOnly
<1>3. ASSUME NEW a \in Used(n)
      PROVE  BlockAt(n, a) = BlockAt(mem, a)
  BY <1>1, <1>2, <1>3 DEF FreedOnly, BlockAt
<1>4. ASSUME NEW r \in LiveIn(n)
      PROVE  r \in LiveIn(mem) \ {BlockAt(mem, b)}
  <2>1. PICK a \in Used(n) : r = BlockAt(n, a)
    BY <1>4 DEF LiveIn
  <2>2. a \in Used(mem) /\ a # b /\ r = BlockAt(mem, a)
    BY <1>2, <1>3, <2>1
  <2> QED
    BY <2>2, BlocksDiffer DEF LiveIn
<1>5. ASSUME NEW r \in LiveIn(mem) \ {BlockAt(mem, b)}
      PROVE  r \in LiveIn(n)
  <2>1. PICK a \in Used(mem) : r = BlockAt(mem, a)
    BY <1>5 DEF LiveIn
  <2>2. a \in Used(n) /\ r = BlockAt(n, a)
    BY <1>2, <1>3, <1>5, <2>1
  <2> QED
    BY <2>2 DEF LiveIn
<1> QED
  BY <1>2, <1>4, <1>5 DEF LiveIn

\* A block that is handed out lies in the zone beside all others.
LEMMA AllocateAdds ==
    ASSUME IInv, IInv', Allocate
    PROVE  \E r \in LiveIn(mem') \cap Promise!Block :
              /\ r.at + r.size <= ZoneSize + 1
              /\ \A s \in LiveIn(mem) : Promise!Apart(r, s)
              /\ r.owner = "unowned" => r.tag < PU_PURGELEVEL
              /\ r.owner \in Lump => \A s \in LiveIn(mem) : s.owner # r.owner
              /\ LiveIn(mem') = LiveIn(mem) \cup {r}
<1> DEFINE n == Split(mem, base, req.size)
           r == BlockAt(mem', base)
<1>1. /\ pc = "found" /\ base \in Address /\ ~mem[base].gone /\ mem[base].user = "free"
      /\ mem[base].size >= req.size /\ base # Cap
      /\ mem' = Given(n, base, req.user, req.tag)
      /\ req.size \in Nat /\ req.size >= HeaderSize /\ req.tag \in Tag
      /\ req.user \in Marks \cup Lump
      /\ \/ req.user \in Lump /\ lumpcache[req.user] = NULL
         \/ req.user = "unowned" /\ req.tag \in UnownedTag
      /\ Sound(mem) /\ Coalesced(mem) /\ Sound(mem')
  BY DEF Allocate, Given, IInv, ScanInv, HeapInv, Sound, HeadersOK, RequestInv
<1>2. /\ "free" \notin Lump /\ "unowned" \notin Lump /\ NULL \notin Address
      /\ base \in Nat /\ base >= 1 /\ base <= ZoneSize
      /\ Tag \subseteq Int /\ PU_PURGELEVEL \in Int /\ \A t \in UnownedTag : t < PU_PURGELEVEL
      /\ ZoneSize \in Nat /\ HeaderSize \in Nat /\ HeaderSize >= 1
  BY <1>1, ZoneAssumption DEF Marks, Address, Cap, NULL
<1>3. /\ Sound(n) /\ ~n[base].gone
      /\ \A x \in Address :
           /\ n[x].user = mem[x].user
           /\ mem[x].user # "free" => n[x].tag = mem[x].tag /\ n[x].size = mem[x].size
  BY <1>1, SplitSound
<1> HIDE DEF n
<1>4. \A x \in Address :
        /\ mem'[x].size = n[x].size /\ mem'[x].gone = n[x].gone
        /\ mem'[x].user = IF x = base THEN req.user ELSE n[x].user
        /\ mem'[x].tag = IF x = base THEN req.tag ELSE n[x].tag
  <2>1. req.user # "free" /\ req.tag \in Tag \cup {0}
    BY <1>1, <1>2
  <2> QED
    BY <1>1, <1>3, <2>1, GivenSound
<1>5. /\ mem'[base].user = req.user /\ mem'[base].tag = req.tag /\ ~mem'[base].gone
      /\ \A x \in Address : x # base => mem'[x].user = mem[x].user
      /\ \A x \in Address : x # base /\ mem[x].user # "free" =>
             mem'[x].size = mem[x].size /\ mem'[x].tag = mem[x].tag
  BY <1>1, <1>3, <1>4
<1>6. req.user # "free"
  BY <1>1, <1>2
<1>7. /\ Used(mem) = {a \in Address : a # Cap /\ mem[a].user # "free"}
      /\ Used(mem') = Used(mem) \cup {base}
  BY <1>1, <1>5, <1>6, UsedIs
<1>8. mem'[base].size >= HeaderSize /\ base + mem'[base].size <= ZoneSize + 1
      /\ mem'[base].size \in 0 .. ZoneSize
  <2>1. mem'[base] \in Header
    BY <1>1 DEF Sound, HeadersOK
  <2> QED
    BY <1>1, <1>5, <2>1 DEF Sound, HeadersOK, Header
<1>9. r.owner = req.user /\ r.at = base /\ r.size = mem'[base].size /\ r.tag = req.tag
      /\ r = [owner |-> req.user, at |-> base, size |-> mem'[base].size, tag |-> req.tag]
  BY <1>5 DEF BlockAt
<1>10. r \in LiveIn(mem')
  BY <1>7 DEF LiveIn
<1>11. r \in Promise!Block
  BY <1>1, <1>2, <1>8, <1>9 DEF Promise!Block
<1>12. ASSUME NEW a \in Used(mem)
       PROVE  /\ BlockAt(mem', a) = BlockAt(mem, a) /\ a # base /\ a \in Address
              /\ BlockAt(mem, a).at = a /\ BlockAt(mem, a).owner = mem[a].user
              /\ BlockAt(mem, a).size = mem'[a].size
  BY <1>1, <1>5, <1>7, <1>12 DEF BlockAt
<1>13. ASSUME NEW s \in LiveIn(mem)
       PROVE  Promise!Apart(r, s)
  <2>1. PICK a \in Used(mem) : s = BlockAt(mem, a)
    BY <1>13 DEF LiveIn
  <2>2. /\ a \in Address /\ a # Cap /\ a # base /\ ~mem'[a].gone
        /\ s.at = a /\ s.size = mem'[a].size
    BY <1>1, <1>5, <1>7, <1>12, <2>1 DEF Sound, HeadersOK
  <2>3. base < a \/ a < base
    BY <1>2, <2>2 DEF Address, Cap
  <2>4. base + mem'[base].size <= a \/ a + mem'[a].size <= base
    BY <1>1, <1>5, <2>2, <2>3 DEF Sound, DisjointOK
  <2> QED
    BY <1>9, <2>2, <2>4 DEF Promise!Apart
<1>14. r.owner = "unowned" => r.tag < PU_PURGELEVEL
  BY <1>1, <1>2, <1>9
<1>15. ASSUME r.owner \in Lump, NEW s \in LiveIn(mem), s.owner = r.owner
       PROVE  FALSE
  <2>1. PICK a \in Used(mem) : s = BlockAt(mem, a)
    BY <1>15 DEF LiveIn
  <2>2. a \in Address /\ mem[a].user = req.user /\ req.user \in Lump
    BY <1>9, <1>12, <1>15, <2>1
  <2>3. lumpcache[req.user] = a
    BY <2>2 DEF IInv, LumpsTold
  <2> QED
    BY <1>1, <1>2, <2>2, <2>3
<1>16. LiveIn(mem') = LiveIn(mem) \cup {r}
  BY <1>7, <1>12 DEF LiveIn
<1> HIDE DEF r
<1> QED
  BY <1>8, <1>9, <1>10, <1>11, <1>13, <1>14, <1>15, <1>16

\* A lump that is cached gets another tag.
LEMMA CacheRetags ==
    ASSUME IInv, IInv', NEW l \in Lump, NEW t \in Tag, lumpcache[l] # NULL,
           W_CacheLumpNum(l, t)
    PROVE  \E r \in LiveIn(mem) :
              r.owner \in Lump /\ LiveIn(mem') = (LiveIn(mem) \ {r}) \cup {[r EXCEPT !.tag = t]}
<1> DEFINE b == lumpcache[l]
           r == BlockAt(mem, b)
<1>1. /\ b \in Address /\ mem[b].user = l /\ b # Cap /\ l # "free"
      /\ mem' = [mem EXCEPT ![b].tag = t] /\ mem \in [Address -> Header]
      /\ Sound(mem) /\ Sound(mem')
  BY ZoneAssumption DEF W_CacheLumpNum, IInv, LumpsTold, HeapInv, Sound, HeadersOK, Marks
<1> HIDE DEF b
<1>2. \A x \in Address : /\ mem'[x].size = mem[x].size /\ mem'[x].user = mem[x].user
                         /\ mem'[x].tag = IF x = b THEN t ELSE mem[x].tag
  BY <1>1 DEF Header
<1>3. /\ Used(mem) = {a \in Address : a # Cap /\ mem[a].user # "free"}
      /\ Used(mem') = Used(mem)
  <2>1. /\ Used(mem) = {a \in Address : a # Cap /\ mem[a].user # "free"}
        /\ Used(mem') = {a \in Address : a # Cap /\ mem'[a].user # "free"}
    BY <1>1, UsedIs
  <2> QED
    BY <1>2, <2>1
<1>4. b \in Used(mem) /\ r \in LiveIn(mem) /\ r.owner \in Lump
  BY <1>1, <1>3 DEF LiveIn, BlockAt
<1>5. BlockAt(mem', b) = [r EXCEPT !.tag = t]
  BY <1>1, <1>2 DEF BlockAt
<1>6. ASSUME NEW a \in Used(mem), a # b
      PROVE  BlockAt(mem', a) = BlockAt(mem, a)
  BY <1>2, <1>3, <1>6 DEF BlockAt
<1> DEFINE s == [r EXCEPT !.tag = t]
<1> HIDE DEF s
<1>7. ASSUME NEW w \in LiveIn(mem')
      PROVE  w \in (LiveIn(mem) \ {r}) \cup {s}
  <2>1. PICK a \in Used(mem) : w = BlockAt(mem', a)
    BY <1>3, <1>7 DEF LiveIn
  <2> QED
    BY <1>5, <1>6, <2>1, BlocksDiffer DEF LiveIn, s
<1>8. ASSUME NEW w \in (LiveIn(mem) \ {r}) \cup {s}
      PROVE  w \in LiveIn(mem')
  <2>1. CASE w = s
    BY <1>3, <1>4, <1>5, <2>1 DEF LiveIn, s
  <2>2. CASE w \in LiveIn(mem) \ {r}
    <3>1. PICK a \in Used(mem) : w = BlockAt(mem, a) /\ a # b
      BY <2>2 DEF LiveIn
    <3> QED
      BY <1>3, <1>6, <3>1 DEF LiveIn
  <2> QED
    BY <1>8, <2>1, <2>2
<1> QED
  BY <1>4, <1>7, <1>8 DEF s

\* Removing what is merged away from the headers changes no block in use.
LEMMA EndSweepKeeps ==
    ASSUME IInv, IInv', EndSweep
    PROVE  LiveIn(mem') = LiveIn(mem)
<1>1. /\ Sound(mem) /\ Sound(mem')
      /\ \A x \in Address :
           /\ mem'[x].user = mem[x].user
           /\ ~mem[x].gone => mem'[x] = mem[x]
           /\ mem[x].user # "free" => ~mem[x].gone
  BY ScrubbedSound DEF IInv, HeapInv, EndSweep, Sound, HeadersOK
<1>2. Used(mem') = Used(mem) /\ \A a \in Used(mem) : a \in Address /\ mem'[a] = mem[a]
  BY <1>1, UsedIs
<1> QED
  BY <1>2 DEF LiveIn, BlockAt

\* A step of the zone is a step of Heap, or leaves the blocks in use alone.
LEMMA StepPromised ==
    ASSUME IInv, IInv', [Next]_vars
    PROVE  Promise!Next \/ LiveIn(mem') = LiveIn(mem)
<1>1. Sound(mem) /\ Sound(mem')
  BY DEF IInv, HeapInv
<1>2. ASSUME NEW r \in LiveIn(mem), LiveIn(mem') = LiveIn(mem) \ {r}
      PROVE  Promise!Next
  BY <1>2 DEF Promise!Next, Promise!Release, LiveIn, BlockAt
<1>3. ASSUME NEW b \in Address, b # Cap, mem[b].user # "free", FreedAt(mem', b)
      PROVE  Promise!Next
  <2>1. FreedOnly(mem, mem', b)
    BY <1>3 DEF FreedAt
  <2> QED
    BY <1>1, <1>2, <1>3, <2>1, FreedReleases
<1>4. CASE mem' = mem
  BY <1>4
<1>5. ASSUME NEW l \in Lump, NEW t \in Tag, W_CacheLumpNum(l, t), lumpcache[l] # NULL
      PROVE  Promise!Next
  <2>1. PICK r \in LiveIn(mem) :
            r.owner \in Lump /\ LiveIn(mem') = (LiveIn(mem) \ {r}) \cup {[r EXCEPT !.tag = t]}
    BY <1>5, CacheRetags
  <2> QED
    BY <2>1 DEF Promise!Next, Promise!Retag, LiveIn, BlockAt
<1>6. ASSUME NEW l \in Lump, NEW t \in Tag, W_CacheLumpNum(l, t), lumpcache[l] = NULL
      PROVE  mem' = mem
  BY <1>6 DEF W_CacheLumpNum, Z_Malloc
<1>7. ASSUME NEW h \in Holder, GiveBack(h)
      PROVE  Promise!Next
  <2> DEFINE b == held[h]
  <2>1. /\ mem' = Scrubbed(Freed([mem |-> mem, rover |-> rover], b).mem)
        /\ b \in Address /\ mem[b].user = "unowned" /\ b # Cap
    BY <1>7 DEF GiveBack, Z_Free, IInv, HoldersTold, HeapInv, Sound, HeadersOK
  <2>2. FreedAt(mem', b)
    BY <2>1, FreedStep DEF IInv
  <2> QED
    BY <1>3, <2>1, <2>2
<1>8. CASE ScanPurges
  <2>1. FreedAt(mem', scan) /\ scan \in Address /\ scan # Cap /\ mem[scan].user # "free"
    BY <1>8, ScanFrees
  <2> QED
    BY <1>3, <2>1
<1>9. CASE Allocate
  BY <1>9, AllocateAdds DEF Promise!Next, Promise!Allocate, LiveIn, BlockAt
<1>10. CASE Sweep
  <2>1. CASE mem' = mem
    BY <1>4, <2>1
  <2>2. CASE mem' # mem
    <3>1. /\ mem' = Freed([mem |-> mem, rover |-> rover], block).mem
          /\ block \in Address /\ block # Cap /\ mem[block].user # "free"
      BY <1>10, <2>2 DEF Sweep, IInv, ScanInv
    <3>2. FreedAt(mem', block)
      BY <3>1, FreedStep DEF IInv
    <3> QED
      BY <1>3, <3>1, <3>2
  <2> QED
    BY <2>1, <2>2
<1>11. CASE EndSweep
  BY <1>11, EndSweepKeeps
<1>12. CASE Calls
  BY <1>4, <1>5, <1>6, <1>7, <1>12 DEF Calls, BeginSweep, TakeUnowned, Z_Malloc
<1>13. CASE Steps
  BY <1>4, <1>8, <1>9, <1>10, <1>11, <1>13 DEF Steps, ScanFails, ScanKeeps, ScanPasses
<1>14. CASE UNCHANGED vars
  BY <1>4, <1>14 DEF vars
<1> QED
  BY <1>12, <1>13, <1>14 DEF Next

\* The zone implements Heap: blocks in use lie in the zone, never overlap and
\* never move, an owner has one block at a time, a purgable block has an owner,
\* and only a call takes a block away.
THEOREM Implements == Spec => HeapSpec
<1>1. Init => Promise!Init
  <2> SUFFICES ASSUME Init PROVE Promise!Init
    OBVIOUS
  <2>1. Used(mem) = {}
    BY DEF Init, ClearZone, Used, Listed, NoHeader
  <2> QED
    BY <2>1 DEF Promise!Init
<1>2. IInv /\ IInv' /\ [Next]_vars => [Promise!Next]_(
          {[owner |-> mem[a].user, at |-> a, size |-> mem[a].size, tag |-> mem[a].tag] :
               a \in Used(mem)})
  BY StepPromised DEF LiveIn, BlockAt
<1> QED
  BY <1>1, <1>2, Inductive, PTL DEF Spec, HeapSpec, Promise!Spec

=============================================================================
