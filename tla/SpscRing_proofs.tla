--------------------------- MODULE SpscRing_proofs ---------------------------
(***************************************************************************)
(* Theorems about SpscRing for every ring size, batch size and set of      *)
(* ticks.                                                                  *)
(***************************************************************************)
EXTENDS SpscRing, SequenceTheorems, TLAPS

\* Moving a pointer keeps it inside the ring buffer.
LEMMA SuccType == \A p \in Slots : Succ(p) \in Slots
  BY NAssumption DEF Slots, Succ

\* Every variable keeps its type; in particular no position leaves the
\* ring and a fetch never copies more than the caller's buffer holds.
THEOREM TypeCorrect == Spec => []TypeOK
<1>1. Init => TypeOK
  BY NAssumption, BatchAssumption DEF Init, TypeOK, Slots
<1>2. TypeOK /\ [Next]_vars => TypeOK'
  <2> SUFFICES ASSUME TypeOK, [Next]_vars
               PROVE  TypeOK'
    OBVIOUS
  <2> USE SuccType DEF TypeOK
  <2>1. ASSUME NEW t \in Tick, WriteBegin(t)
        PROVE  TypeOK'
    BY <2>1 DEF WriteBegin, readerVars
  <2>2. CASE WriteReload
    BY <2>2 DEF WriteReload, readerVars
  <2>3. CASE WriteSlot
    BY <2>3 DEF WriteSlot, readerVars
  <2>4. CASE WritePublish
    BY <2>4 DEF WritePublish, readerVars
  <2>5. CASE ReadBegin
    BY <2>5, BatchAssumption DEF ReadBegin, writerVars
  <2>6. CASE ReadReload
    BY <2>6 DEF ReadReload, writerVars
  <2>7. CASE ReadSlot
    <3>1. ring_buffer[read_pos_local] \in Tick \cup {NoTick}
      OBVIOUS
    <3>2. /\ buf' \in Seq(Tick \cup {NoTick})
          /\ Len(buf') = Len(buf) + 1
      BY <2>7, <3>1 DEF ReadSlot
    <3>3. Len(buf') <= Batch
      BY <2>7, <3>2, BatchAssumption DEF ReadSlot
    <3> QED
      BY <2>7, <3>2, <3>3 DEF ReadSlot, writerVars
  <2>8. CASE ReadRelease
    BY <2>8 DEF ReadRelease, writerVars
  <2>9. CASE UNCHANGED vars
    BY <2>9 DEF vars, writerVars, readerVars
  <2> QED
    BY <2>1, <2>2, <2>3, <2>4, <2>5, <2>6, <2>7, <2>8, <2>9 DEF Next, Write, Read
<1> QED
  BY <1>1, <1>2, PTL DEF Spec

-----------------------------------------------------------------------------
(***************************************************************************)
(* Walking around the ring.  The proofs need Dist and Succ only through    *)
(* these facts.                                                            *)
(***************************************************************************)
\* The walk between two slots is shorter than the ring.
LEMMA DistType == \A p, q \in Slots : Dist(p, q) \in Slots
  BY NAssumption DEF Slots, Dist

\* Only a slot itself is at distance 0.
LEMMA DistZero == \A p, q \in Slots : Dist(p, q) = 0 <=> p = q
  BY NAssumption DEF Slots, Dist

\* The distance from one slot tells all slots apart.
LEMMA DistInjective ==
  \A p, q, r \in Slots : Dist(p, q) = Dist(p, r) => q = r
  BY NAssumption DEF Slots, Dist

\* One step further from p, unless the step closes the circle.
LEMMA DistSucc ==
  \A p, q \in Slots : Succ(q) # p => Dist(p, Succ(q)) = Dist(p, q) + 1
  BY NAssumption DEF Slots, Dist, Succ

\* The walk that one more step would close is the longest one.
LEMMA DistFull ==
  \A p, q \in Slots : Succ(q) = p <=> Dist(p, q) = N - 1
  BY NAssumption DEF Slots, Dist, Succ

\* Positions in order as seen from p are in the same order as seen from
\* the first of them.
LEMMA DistRebase ==
  \A p, a, q \in Slots :
    Dist(p, a) <= Dist(p, q) => Dist(a, q) = Dist(p, q) - Dist(p, a)
  BY NAssumption DEF Slots, Dist

\* Whatever the two threads do, the positions keep their order around the
\* ring: what a thread believes of the other is out of date on the safe side.
THEOREM PositionsOrdered == Spec => []PositionOrder
<1>1. Init => PositionOrder
  BY NAssumption DEF Init, PositionOrder, Dist
<1>2. TypeOK /\ PositionOrder /\ [Next]_vars => PositionOrder'
  <2> SUFFICES ASSUME TypeOK, PositionOrder, [Next]_vars
               PROVE  PositionOrder'
    OBVIOUS
  <2> USE DEF PositionOrder
  <2> USE SuccType, DistType
  <2>t. /\ {write_pos, read_pos, write_pos_local, read_pos_local} \subseteq Slots
        /\ {read_pos_cached, write_pos_cached} \subseteq Slots
    BY DEF TypeOK
  <2>d. /\ Dist(read_pos_cached, read_pos) \in Nat
        /\ Dist(read_pos_cached, read_pos_local) \in Nat
        /\ Dist(read_pos_cached, write_pos_cached) \in Nat
        /\ Dist(read_pos_cached, write_pos) \in Nat
    BY <2>t, NAssumption DEF Slots, Dist
  <2>1. ASSUME NEW t \in Tick, WriteBegin(t)
        PROVE  PositionOrder'
    BY <2>1 DEF WriteBegin, readerVars
  <2>2. CASE WriteReload
    <3>1. /\ Dist(read_pos, read_pos) <= Dist(read_pos, read_pos_local)
          /\ Dist(read_pos, read_pos_local) <= Dist(read_pos, write_pos_cached)
          /\ Dist(read_pos, write_pos_cached) <= Dist(read_pos, write_pos)
      BY <2>t, NAssumption DEF Dist, Slots
    <3> QED
      BY <2>2, <3>1 DEF WriteReload, readerVars
  <2>3. CASE WriteSlot
    BY <2>3 DEF WriteSlot, readerVars
  <2>4. CASE WritePublish
    <3>1. Dist(read_pos_cached, Succ(write_pos_local))
            = Dist(read_pos_cached, write_pos_local) + 1
      BY <2>4, <2>t, DistSucc DEF WritePublish
    <3>2. Dist(read_pos_cached, write_pos_cached)
            <= Dist(read_pos_cached, Succ(write_pos_local))
      BY <3>1, <2>d
    <3> QED
      BY <2>4, <3>2 DEF WritePublish, readerVars
  <2>5. CASE ReadBegin
    BY <2>5 DEF ReadBegin, writerVars
  <2>6. CASE ReadReload
    <3>1. /\ Dist(read_pos_cached, read_pos_local) <= Dist(read_pos_cached, write_pos)
          /\ Dist(read_pos_cached, write_pos) <= Dist(read_pos_cached, write_pos)
      BY <2>d
    <3> QED
      BY <2>6, <3>1 DEF ReadReload, writerVars
  <2>7. CASE ReadSlot
    <3>1. Dist(read_pos_cached, read_pos_local) < Dist(read_pos_cached, write_pos_cached)
      BY <2>7, <2>t, <2>d, DistInjective DEF ReadSlot
    <3>2. Succ(read_pos_local) # read_pos_cached
      BY <3>1, <2>t, NAssumption DEF Slots, Succ, Dist
    <3>3. Dist(read_pos_cached, Succ(read_pos_local))
            = Dist(read_pos_cached, read_pos_local) + 1
      BY <3>2, <2>t, DistSucc
    <3>4. /\ Dist(read_pos_cached, read_pos)
               <= Dist(read_pos_cached, Succ(read_pos_local))
          /\ Dist(read_pos_cached, Succ(read_pos_local))
               <= Dist(read_pos_cached, write_pos_cached)
      BY <3>1, <3>3, <2>d
    <3> QED
      BY <2>7, <3>4 DEF ReadSlot, writerVars
  <2>8. CASE ReadRelease
    <3>1. Dist(read_pos_cached, read_pos_local) <= Dist(read_pos_cached, read_pos_local)
      BY <2>d
    <3> QED
      BY <2>8, <3>1 DEF ReadRelease, writerVars
  <2>9. CASE UNCHANGED vars
    BY <2>9 DEF vars, writerVars, readerVars
  <2> QED
    BY <2>1, <2>2, <2>3, <2>4, <2>5, <2>6, <2>7, <2>8, <2>9 DEF Next, Write, Read
<1> QED
  BY <1>1, <1>2, TypeCorrect, PTL DEF Spec

\* The two threads never access one slot at the same time unless both read.
THEOREM RaceFree == Spec => []NoSlotRace
<1>1. TypeOK /\ PositionOrder => NoSlotRace
  <2> SUFFICES ASSUME TypeOK, PositionOrder,
                      NEW p \in Slots, WritingSlot(p), ReadingSlot(p)
               PROVE  FALSE
    BY DEF NoSlotRace
  <2>1. /\ write_pos = read_pos_local
        /\ read_pos_local # write_pos_cached
    BY DEF WritingSlot, ReadingSlot, PositionOrder
  <2>2. /\ Dist(read_pos_cached, write_pos_cached) \in Nat
        /\ Dist(read_pos_cached, write_pos) \in Nat
    <3>1. {read_pos_cached, write_pos_cached, write_pos} \subseteq Slots
      BY DEF TypeOK
    <3> QED
      BY <3>1, NAssumption DEF Slots, Dist
  <2>3. Dist(read_pos_cached, write_pos_cached) = Dist(read_pos_cached, write_pos)
    BY <2>1, <2>2 DEF PositionOrder
  <2> QED
    BY <2>1, <2>3, DistInjective DEF TypeOK
<1> QED
  BY <1>1, TypeCorrect, PositionsOrdered, PTL

-----------------------------------------------------------------------------
(***************************************************************************)
(* The slots between two positions, as a sequence.                         *)
(***************************************************************************)
\* Walking the distance from p to q ends at q and meets it no earlier.
LEMMA PlusFacts ==
  \A p, q \in Slots :
    /\ Plus(p, Dist(p, q)) = q
    /\ \A k \in 1 .. Dist(p, q) : /\ Plus(p, k - 1) \in Slots
                                  /\ Plus(p, k - 1) # q
  BY NAssumption DEF Slots, Dist, Plus

\* s lists the slots of b from p up to q, each of them a member of S.
Lists(s, S, b, p, q) ==
  /\ s \in Seq(S)
  /\ Len(s) = Dist(p, q)
  /\ \A k \in 1 .. Dist(p, q) : s[k] = b[Plus(p, k - 1)]

\* Contents is a sequence of the slots it should hold.
LEMMA ContentsSeq ==
  ASSUME NEW S, NEW b \in [Slots -> S], NEW p \in Slots, NEW q \in Slots
  PROVE  Lists(Contents(b, p, q), S, b, p, q)
<1>1. Dist(p, q) \in Nat
  BY NAssumption DEF Slots, Dist
<1>2. Contents(b, p, q) \in [1 .. Dist(p, q) -> S]
  <2>1. \A k \in 1 .. Dist(p, q) : b[Plus(p, k - 1)] \in S
    BY PlusFacts
  <2> QED
    BY <2>1 DEF Contents
<1>3. Contents(b, p, q) \in Seq(S)
  BY <1>1, <1>2, SeqDef
<1>4. DOMAIN Contents(b, p, q) = 1 .. Dist(p, q)
  BY <1>2
<1>5. Len(Contents(b, p, q)) = Dist(p, q)
  BY <1>1, <1>3, <1>4
<1> QED
  BY <1>3, <1>5 DEF Contents, Lists

\* Publishing the slot q appends what it holds.
LEMMA ContentsPublish ==
  ASSUME NEW S, NEW b \in [Slots -> S], NEW p \in Slots, NEW q \in Slots,
         Succ(q) # p
  PROVE  Contents(b, p, Succ(q)) = Append(Contents(b, p, q), b[q])
<1> DEFINE old == Contents(b, p, q)
           new == Contents(b, p, Succ(q))
<1> HIDE DEF old, new
<1>1. Dist(p, q) \in Nat /\ Dist(p, Succ(q)) = Dist(p, q) + 1
  BY DistSucc, NAssumption DEF Slots, Dist
<1>2. /\ old \in Seq(S) /\ Len(old) = Dist(p, q)
      /\ \A k \in 1 .. Dist(p, q) : old[k] = b[Plus(p, k - 1)]
  <2>1. Lists(old, S, b, p, q)
    BY ContentsSeq, Zenon DEF old
  <2> QED
    BY <2>1 DEF Lists
<1>3. /\ new \in Seq(S) /\ Len(new) = Dist(p, q) + 1
      /\ \A k \in 1 .. Dist(p, q) + 1 : new[k] = b[Plus(p, k - 1)]
  <2>1. Succ(q) \in Slots
    BY SuccType
  <2>2. Lists(new, S, b, p, Succ(q))
    BY <2>1, ContentsSeq, Zenon DEF new
  <2> QED
    BY <1>1, <2>2 DEF Lists
<1>4. b[q] \in S /\ b[Plus(p, (Dist(p, q) + 1) - 1)] = b[q]
  <2>1. (Dist(p, q) + 1) - 1 = Dist(p, q)
    BY <1>1
  <2> QED
    BY PlusFacts, <2>1
<1>5. /\ Append(old, b[q]) \in Seq(S)
      /\ Len(Append(old, b[q])) = Len(new)
  BY <1>1, <1>2, <1>3, <1>4
<1>6. ASSUME NEW k \in 1 .. Len(new)
      PROVE  new[k] = Append(old, b[q])[k]
  <2>1. CASE k = Dist(p, q) + 1
    BY <2>1, <1>1, <1>2, <1>3, <1>4
  <2>2. CASE k \in 1 .. Dist(p, q)
    BY <2>2, <1>1, <1>2, <1>3, <1>4
  <2>3. k = Dist(p, q) + 1 \/ k \in 1 .. Dist(p, q)
    BY <1>1, <1>3
  <2> QED
    BY <2>1, <2>2, <2>3
<1>7. new = Append(old, b[q])
  BY <1>3, <1>5, <1>6, SeqEqual
<1> QED
  BY <1>7 DEF old, new

\* A sequence without its first d elements.
LEMMA DropFront ==
  ASSUME NEW S, NEW s \in Seq(S), NEW d \in Nat, d <= Len(s)
  PROVE  /\ SubSeq(s, d + 1, Len(s)) \in Seq(S)
         /\ Len(SubSeq(s, d + 1, Len(s))) = Len(s) - d
         /\ \A k \in 1 .. Len(s) - d : SubSeq(s, d + 1, Len(s))[k] = s[d + k]
<1>1. Len(s) \in Nat /\ \A i \in d + 1 .. Len(s) : s[i] \in S
  OBVIOUS
<1> DEFINE rest == SubSeq(s, d + 1, Len(s))
<1>2. /\ rest \in Seq(S)
      /\ Len(rest) = IF d + 1 <= Len(s) THEN Len(s) - (d + 1) + 1 ELSE 0
      /\ \A k \in 1 .. Len(s) - (d + 1) + 1 : rest[k] = s[d + 1 + k - 1]
  BY <1>1, SubSeqProperties
<1> HIDE DEF rest
<1>3. Len(rest) = Len(s) - d
  BY <1>1, <1>2
<1>4. \A k \in 1 .. Len(s) - d : rest[k] = s[d + k]
  <2> TAKE k \in 1 .. Len(s) - d
  <2>1. k \in 1 .. Len(s) - (d + 1) + 1 /\ d + 1 + k - 1 = d + k
    BY <1>1
  <2>2. rest[k] = s[d + 1 + k - 1]
    BY <1>2, <2>1, Zenon
  <2> QED
    BY <2>1, <2>2, Zenon
<1> QED
  BY <1>2, <1>3, <1>4 DEF rest

\* Releasing up to the position a drops the oldest Dist(p, a) ticks.
LEMMA ContentsRelease ==
  ASSUME NEW S, NEW b \in [Slots -> S],
         NEW p \in Slots, NEW a \in Slots, NEW q \in Slots,
         Dist(p, a) <= Dist(p, q)
  PROVE  Contents(b, a, q)
           = SubSeq(Contents(b, p, q), Dist(p, a) + 1, Len(Contents(b, p, q)))
<1> DEFINE old == Contents(b, p, q)
           new == Contents(b, a, q)
           sub == SubSeq(old, Dist(p, a) + 1, Len(old))
<1> HIDE DEF old, new
<1>1. /\ Dist(p, q) \in Nat /\ Dist(p, a) \in Nat
      /\ Dist(a, q) = Dist(p, q) - Dist(p, a)
  BY DistRebase, NAssumption DEF Slots, Dist
<1>2. /\ old \in Seq(S) /\ Len(old) = Dist(p, q)
      /\ \A k \in 1 .. Dist(p, q) : old[k] = b[Plus(p, k - 1)]
  <2>1. Lists(old, S, b, p, q)
    BY ContentsSeq, Zenon DEF old
  <2> QED
    BY <2>1 DEF Lists
<1>3. /\ new \in Seq(S) /\ Len(new) = Dist(a, q)
      /\ \A k \in 1 .. Dist(a, q) : new[k] = b[Plus(a, k - 1)]
  <2>1. Lists(new, S, b, a, q)
    BY ContentsSeq, Zenon DEF new
  <2> QED
    BY <2>1 DEF Lists
<1>4. \A k \in 1 .. Dist(a, q) : Plus(a, k - 1) = Plus(p, (Dist(p, a) + k) - 1)
  BY <1>1, NAssumption DEF Slots, Dist, Plus
<1>5. /\ sub \in Seq(S)
      /\ Len(sub) = Dist(a, q)
      /\ \A k \in 1 .. Dist(a, q) : sub[k] = old[Dist(p, a) + k]
  <2>1. Dist(p, a) <= Len(old) /\ Dist(a, q) = Len(old) - Dist(p, a)
    BY <1>1, <1>2
  <2>2. /\ sub \in Seq(S)
        /\ Len(sub) = Len(old) - Dist(p, a)
        /\ \A k \in 1 .. Len(old) - Dist(p, a) : sub[k] = old[Dist(p, a) + k]
    BY <1>1, <1>2, <2>1, DropFront
  <2> HIDE DEF sub
  <2> QED
    BY <2>1, <2>2
<1>6. \A k \in 1 .. Dist(a, q) : new[k] = sub[k]
  <2> TAKE k \in 1 .. Dist(a, q)
  <2>1. Dist(p, a) + k \in 1 .. Dist(p, q)
    BY <1>1
  <2>2. sub[k] = old[Dist(p, a) + k]
    BY <1>5
  <2>3. old[Dist(p, a) + k] = b[Plus(p, (Dist(p, a) + k) - 1)]
    BY <1>2, <2>1, Zenon
  <2>4. new[k] = b[Plus(a, k - 1)]
    BY <1>3
  <2>5. Plus(a, k - 1) = Plus(p, (Dist(p, a) + k) - 1)
    BY <1>4, Zenon
  <2> HIDE DEF sub
  <2> QED
    BY <2>2, <2>3, <2>4, <2>5, Zenon
<1>7. new = sub
  BY <1>3, <1>5, <1>6, SeqEqual
<1> QED
  BY <1>7 DEF old, new

\* What a fetch that has copied up to the position a copies next.
LEMMA ContentsNext ==
  ASSUME NEW b,
         NEW p \in Slots, NEW a \in Slots, NEW q \in Slots,
         Dist(p, a) < Dist(p, q)
  PROVE  Contents(b, p, q)[Dist(p, a) + 1] = b[a]
<1>1. Dist(p, a) \in Nat /\ Dist(p, q) \in Nat
  BY NAssumption DEF Slots, Dist
<1>2. Dist(p, a) + 1 \in 1 .. Dist(p, q)
  BY <1>1
<1>3. Contents(b, p, q)[Dist(p, a) + 1] = b[Plus(p, (Dist(p, a) + 1) - 1)]
  BY <1>2 DEF Contents
<1> QED
  BY <1>1, <1>3, PlusFacts

-----------------------------------------------------------------------------
(***************************************************************************)
(* The positions as the owner of read_pos sees them.                       *)
(***************************************************************************)
\* The order of the positions that starts at read_pos.
LEMMA FromReadPos ==
  ASSUME TypeOK, PositionOrder
  PROVE  /\ Dist(read_pos, read_pos_local) <= Dist(read_pos, write_pos_cached)
         /\ Dist(read_pos, write_pos_cached) <= Dist(read_pos, write_pos)
         /\ Succ(read_pos_local) = read_pos => read_pos_local = write_pos_cached
         /\ wpc \in {"store", "publish"} => Succ(write_pos) # read_pos
<1> DEFINE c == read_pos_cached
           r == read_pos
           a == read_pos_local
           w == write_pos_cached
           q == write_pos
<1>1. {c, r, a, w, q} \subseteq Slots
  BY DEF TypeOK
<1>2. /\ Dist(c, r) <= Dist(c, a) /\ Dist(c, a) <= Dist(c, w)
      /\ Dist(c, w) <= Dist(c, q)
      /\ q = write_pos_local
      /\ wpc \in {"store", "publish"} => Succ(write_pos_local) # c
  BY DEF PositionOrder
<1> HIDE DEF c, r, a, w, q
<1>3. /\ Dist(r, a) <= Dist(r, w)
      /\ Dist(r, w) <= Dist(r, q)
  BY <1>1, <1>2, NAssumption DEF Slots, Dist
<1>4. Succ(a) = r => a = w
  BY <1>1, <1>3, NAssumption DEF Slots, Dist, Succ
<1>5. wpc \in {"store", "publish"} => Succ(q) # r
  <2>1. Succ(q) # c => Succ(q) # r
    BY <1>1, <1>2, NAssumption DEF Slots, Dist, Succ
  <2> QED
    BY <1>2, <2>1
<1> QED
  BY <1>3, <1>4, <1>5 DEF r, a, w, q

\* A push in progress and the ring agree on the tick it stores, and a fetch
\* has copied exactly the slots between the position it will release and
\* its own.
THEOREM CallsAgree == Spec => []CallsConsistent
<1>1. Init => CallsConsistent
  BY NAssumption DEF Init, CallsConsistent, Dist
<1>2. TypeOK /\ PositionOrder /\ CallsConsistent /\ [Next]_vars => CallsConsistent'
  <2> SUFFICES ASSUME TypeOK, PositionOrder, CallsConsistent, [Next]_vars
               PROVE  CallsConsistent'
    OBVIOUS
  <2>1. ASSUME NEW t \in Tick, WriteBegin(t)
        PROVE  CallsConsistent'
    BY <2>1, NoTickAssumption DEF WriteBegin, CallsConsistent, readerVars
  <2>2. CASE WriteReload
    BY <2>2 DEF WriteReload, CallsConsistent, readerVars
  <2>3. CASE WriteSlot
    BY <2>3 DEF WriteSlot, CallsConsistent, readerVars, TypeOK
  <2>4. CASE WritePublish
    BY <2>4 DEF WritePublish, CallsConsistent, readerVars
  <2>5. CASE ReadBegin
    <3>1. Dist(read_pos, read_pos_local) = 0
      BY <2>5, DistZero DEF ReadBegin, CallsConsistent, TypeOK
    <3> QED
      BY <2>5, <3>1, BatchAssumption DEF ReadBegin, CallsConsistent, writerVars
  <2>6. CASE ReadReload
    BY <2>6 DEF ReadReload, CallsConsistent, writerVars
  <2>7. CASE ReadSlot
    <3>1. Succ(read_pos_local) # read_pos
      BY <2>7, FromReadPos DEF ReadSlot
    <3>2. Dist(read_pos, Succ(read_pos_local)) = Dist(read_pos, read_pos_local) + 1
      BY <3>1, DistSucc DEF TypeOK
    <3>3. Len(buf') = Len(buf) + 1
      BY <2>7 DEF ReadSlot, TypeOK
    <3> QED
      BY <2>7, <3>2, <3>3 DEF ReadSlot, CallsConsistent, writerVars
  <2>8. CASE ReadRelease
    BY <2>8 DEF ReadRelease, CallsConsistent, writerVars
  <2>9. CASE UNCHANGED vars
    BY <2>9 DEF vars, writerVars, readerVars, CallsConsistent
  <2> QED
    BY <2>1, <2>2, <2>3, <2>4, <2>5, <2>6, <2>7, <2>8, <2>9 DEF Next, Write, Read
<1> QED
  BY <1>1, <1>2, TypeCorrect, PositionsOrdered, PTL DEF Spec

-----------------------------------------------------------------------------
(***************************************************************************)
(* The ring implements the bounded FIFO: one step of the ring is one step  *)
(* of the FIFO or leaves everything the FIFO has unchanged.                *)
(***************************************************************************)
RingInv == TypeOK /\ PositionOrder /\ CallsConsistent

\* The FIFO's elements, as the proof of each step needs them.
LEMMA HeldFacts ==
  ASSUME RingInv
  PROVE  /\ ring_buffer \in [Slots -> Tick \cup {NoTick}]
         /\ {read_pos, read_pos_local, write_pos, write_pos_cached} \subseteq Slots
         /\ Contents(ring_buffer, read_pos, write_pos) \in Seq(Tick \cup {NoTick})
         /\ Len(Contents(ring_buffer, read_pos, write_pos)) = Dist(read_pos, write_pos)
<1>1. /\ ring_buffer \in [Slots -> Tick \cup {NoTick}]
      /\ {read_pos, read_pos_local, write_pos, write_pos_cached} \subseteq Slots
  BY DEF RingInv, TypeOK
<1>2. Lists(Contents(ring_buffer, read_pos, write_pos),
            Tick \cup {NoTick}, ring_buffer, read_pos, write_pos)
  BY <1>1, ContentsSeq
<1> QED
  BY <1>1, <1>2 DEF Lists

\* No push or fetch loses, duplicates, reorders or overwrites a tick, a
\* push fails only when the ring is full and a fetch is short only when it
\* is empty, for every ring and batch size.
THEOREM RingRefinesFifo == Spec => ImplementsFifo
<1> USE DEF Fifo!vars
<1>1. Init => Fifo!Init
  <2> SUFFICES ASSUME Init PROVE Fifo!Init
    OBVIOUS
  <2>1. Dist(0, 0) = 0
    BY DEF Dist
  <2>2. Contents(ring_buffer, read_pos, write_pos) = <<>>
    BY <2>1 DEF Init, Contents
  <2> QED
    BY <2>2 DEF Init, Fifo!Init
<1>2. RingInv /\ [Next]_vars => [Fifo!Next]_(Fifo!vars)
  <2> SUFFICES ASSUME RingInv, [Next]_vars
               PROVE  [Fifo!Next]_(Fifo!vars)
    OBVIOUS
  <2> DEFINE held == Contents(ring_buffer, read_pos, write_pos)
  <2>r. TypeOK /\ PositionOrder /\ CallsConsistent
    BY DEF RingInv
  <2>h. /\ held \in Seq(Tick \cup {NoTick})
        /\ Len(held) = Dist(read_pos, write_pos)
    BY HeldFacts
  <2>1. ASSUME NEW t \in Tick, WriteBegin(t)
        PROVE  Fifo!Offer(t)
    BY <2>1, <2>r DEF WriteBegin, readerVars, CallsConsistent, Fifo!Offer
  <2>2. CASE WriteReload
    <3>1. CASE Succ(write_pos_local) = read_pos
      <4>1. Dist(read_pos, write_pos) = N - 1
        BY <2>r, <3>1, HeldFacts, DistFull DEF PositionOrder
      <4>2. /\ value # NoTick /\ value' = NoTick
            /\ UNCHANGED <<write_pos, readerVars, ring_buffer>>
        BY <2>2, <2>r, <3>1 DEF WriteReload, CallsConsistent, PositionOrder
      <4> QED
        BY <2>h, <4>1, <4>2 DEF Fifo!Next, Fifo!Refuse, readerVars
    <3>2. CASE Succ(write_pos_local) # read_pos
      BY <2>2, <3>2 DEF WriteReload, readerVars
    <3> QED
      BY <3>1, <3>2
  <2>3. CASE WriteSlot
    <3>1. /\ value \in Tick \cup {NoTick}
          /\ ring_buffer' = [ring_buffer EXCEPT ![write_pos] = value]
          /\ UNCHANGED <<write_pos, value, readerVars>>
      BY <2>3, <2>r DEF WriteSlot, TypeOK, PositionOrder
    <3>2. Contents([ring_buffer EXCEPT ![write_pos] = value], read_pos, write_pos)
            = Contents(ring_buffer, read_pos, write_pos)
      <4>1. read_pos \in Slots /\ write_pos \in Slots
        BY HeldFacts
      <4> QED
        BY <3>1, <4>1, HeldFacts, PlusFacts DEF Contents
    <3> QED
      BY <3>1, <3>2 DEF readerVars
  <2>4. CASE WritePublish
    <3>1. /\ value # NoTick
          /\ ring_buffer[write_pos] = value
          /\ write_pos' = Succ(write_pos)
          /\ value' = NoTick
          /\ UNCHANGED <<readerVars, ring_buffer>>
      BY <2>4, <2>r DEF WritePublish, CallsConsistent, PositionOrder
    <3>2. Succ(write_pos) # read_pos
      BY <2>4, <2>r, FromReadPos DEF WritePublish
    <3>3. Contents(ring_buffer, read_pos, Succ(write_pos))
            = Append(held, ring_buffer[write_pos])
      BY <3>2, HeldFacts, ContentsPublish
    <3>4. Dist(read_pos, write_pos) < N - 1
      <4>1. Dist(read_pos, write_pos) \in 0 .. N - 1
        BY HeldFacts, DistType DEF Slots
      <4> QED
        BY <4>1, <3>2, HeldFacts, DistFull, NAssumption
    <3>5. held' = Append(held, value)
      BY <3>1, <3>3 DEF readerVars
    <3> QED
      BY <2>h, <3>1, <3>4, <3>5 DEF Fifo!Next, Fifo!Accept, readerVars
  <2>5. CASE ReadBegin
    BY <2>5 DEF ReadBegin, writerVars, Fifo!Next, Fifo!Fetch
  <2>6. CASE ReadReload
    <3>1. CASE read_pos_local = write_pos
      BY <2>6, <2>r, <2>h, <3>1
         DEF ReadReload, CallsConsistent, writerVars, Fifo!Next, Fifo!SeeDrained
    <3>2. CASE read_pos_local # write_pos
      BY <2>6, <3>2 DEF ReadReload, writerVars
    <3> QED
      BY <3>1, <3>2
  <2>7. CASE ReadSlot
    <3>1. /\ Dist(read_pos, read_pos_local) < Dist(read_pos, write_pos)
          /\ Dist(read_pos, read_pos_local) = Len(buf)
      <4>1. Dist(read_pos, read_pos_local) # Dist(read_pos, write_pos_cached)
        BY <2>7, HeldFacts, DistInjective DEF ReadSlot
      <4>2. /\ Dist(read_pos, read_pos_local) \in Nat
            /\ Dist(read_pos, write_pos_cached) \in Nat
            /\ Dist(read_pos, write_pos) \in Nat
        BY HeldFacts, DistType DEF Slots
      <4> QED
        BY <2>7, <2>r, <4>1, <4>2, FromReadPos DEF ReadSlot, CallsConsistent
    <3>2. held[Len(buf) + 1] = ring_buffer[read_pos_local]
      <4>1. /\ read_pos \in Slots /\ write_pos \in Slots
            /\ read_pos_local \in Slots
            /\ ring_buffer \in [Slots -> Tick \cup {NoTick}]
        BY HeldFacts
      <4>2. held[Dist(read_pos, read_pos_local) + 1] = ring_buffer[read_pos_local]
        <5>1. Dist(read_pos, read_pos_local) < Dist(read_pos, write_pos)
          BY <3>1
        <5> HIDE DEF held
        <5>2. Contents(ring_buffer, read_pos, write_pos)[Dist(read_pos, read_pos_local) + 1]
                = ring_buffer[read_pos_local]
          BY <4>1, <5>1, ContentsNext, SMT
        <5> QED
          BY <5>2, Zenon DEF held
      <4> HIDE DEF held
      <4>3. Dist(read_pos, read_pos_local) = Len(buf)
        BY <3>1, Zenon
      <4> QED
        BY <4>2, <4>3, Zenon
    <3>3. /\ buf' = Append(buf, held[Len(buf) + 1])
          /\ rpc = "loop" /\ Len(buf) < Batch
          /\ UNCHANGED <<writerVars, read_pos, ring_buffer, rpc>>
      BY <2>7, <3>2 DEF ReadSlot
    <3> QED
      BY <2>h, <3>1, <3>3 DEF Fifo!Next, Fifo!Copy, writerVars
  <2>8. CASE ReadRelease
    <3>1. Dist(read_pos, read_pos_local) <= Dist(read_pos, write_pos)
      <4>1. /\ Dist(read_pos, read_pos_local) \in Nat
            /\ Dist(read_pos, write_pos_cached) \in Nat
            /\ Dist(read_pos, write_pos) \in Nat
        BY HeldFacts, DistType DEF Slots
      <4> QED
        BY <2>r, <4>1, FromReadPos
    <3>2. Contents(ring_buffer, read_pos_local, write_pos)
            = SubSeq(held, Dist(read_pos, read_pos_local) + 1, Len(held))
      <4>1. /\ read_pos \in Slots /\ write_pos \in Slots
            /\ read_pos_local \in Slots
            /\ ring_buffer \in [Slots -> Tick \cup {NoTick}]
        BY HeldFacts
      <4> QED
        BY <3>1, <4>1, ContentsRelease, Zenon
    <3>3. /\ rpc # "idle" /\ rpc' = "idle"
          /\ rpc = "break" \/ Len(buf) = Batch
          /\ Dist(read_pos, read_pos_local) = Len(buf)
          /\ read_pos' = read_pos_local
          /\ UNCHANGED <<writerVars, buf, ring_buffer>>
      BY <2>8, <2>r DEF ReadRelease, CallsConsistent
    <3>4. held' = SubSeq(held, Len(buf) + 1, Len(held))
      BY <3>2, <3>3 DEF writerVars
    <3> QED
      BY <3>3, <3>4 DEF Fifo!Next, Fifo!Return, writerVars
  <2>9. CASE UNCHANGED vars
    BY <2>9 DEF vars, writerVars, readerVars
  <2> QED
    BY <2>1, <2>2, <2>3, <2>4, <2>5, <2>6, <2>7, <2>8, <2>9
       DEF Next, Write, Read, Fifo!Next
<1>3. Spec => []RingInv
  BY TypeCorrect, PositionsOrdered, CallsAgree, PTL DEF RingInv
<1> QED
  BY <1>1, <1>2, <1>3, PTL DEF Spec, ImplementsFifo, Fifo!Spec
=============================================================================
