-------------------------- MODULE UdpReceive_proofs ---------------------------
(***************************************************************************)
(* Theorems about UdpReceive for a ring, batches and polls of any size: no *)
(* buffer is lost, the ring is never dry for good, and the messages are    *)
(* handled once each in their order.                                       *)
(***************************************************************************)
EXTENDS UdpReceive, SequenceTheorems, FiniteSetTheorems, TLAPS

-----------------------------------------------------------------------------
\* The buffers of the events in s.
Bufs(s) == {e.buf : e \in Range(s)}

(***************************************************************************)
(* The invariant.  The lengths of the four places add up, and together     *)
(* they hold every buffer, so none is held twice.  Between two polls the   *)
(* card always has a buffer or owes an event: the refill after a poll      *)
(* leaves fewer than a batch on the free list or posts a batch, and a      *)
(* batch is less than the ring.                                            *)
(***************************************************************************)
TypeInv ==
  /\ free \in Seq(Buffer) /\ posted \in Seq(Buffer)
  /\ events \in Seq(Event) /\ evs \in Seq(Event)
  /\ worker \in {"binding", "polling", "handling", "ended", "crashed"}

LengthsAdd == Len(free) + Len(posted) + Len(events) + Len(evs) = Capacity

AllHeld == Range(free) \cup Range(posted) \cup Bufs(events) \cup Bufs(evs) = Buffer

Wet == worker # "handling" => evs = <<>> /\ Len(posted) + Len(events) > 0

RingInv == TypeInv /\ LengthsAdd /\ AllHeld /\ Wet

-----------------------------------------------------------------------------
(***************************************************************************)
(* What sequences hold.                                                    *)
(***************************************************************************)
LEMMA RangeCut ==
  ASSUME NEW S, NEW s \in Seq(S), NEW k \in 0 .. Len(s)
  PROVE  /\ SubSeq(s, 1, k) \in Seq(S) /\ Len(SubSeq(s, 1, k)) = k
         /\ SubSeq(s, k + 1, Len(s)) \in Seq(S) /\ Len(SubSeq(s, k + 1, Len(s))) = Len(s) - k
         /\ Range(SubSeq(s, 1, k)) \cup Range(SubSeq(s, k + 1, Len(s))) = Range(s)
<1> DEFINE a == SubSeq(s, 1, k)
           b == SubSeq(s, k + 1, Len(s))
<1>1. a \in Seq(S) /\ Len(a) = k
  BY SubSeqProperties, ElementOfSeq, LenProperties
<1>2. b \in Seq(S) /\ Len(b) = Len(s) - k
  BY SubSeqProperties, ElementOfSeq, LenProperties
<1>3. a \o b = s
  <2>1. 1 \in 1 .. Len(s) + 1 /\ k \in 1 - 1 .. Len(s) /\ Len(s) \in k .. Len(s)
    BY LenProperties
  <2>2. a \o b = SubSeq(s, 1, Len(s))
    BY <2>1, ConcatAdjacentSubSeq, Zenon
  <2> QED
    BY <2>2, SubSeqFull
<1> HIDE DEF a, b
<1>4. Range(a \o b) = Range(a) \cup Range(b)
  <2>1. a \in Seq(S) /\ b \in Seq(S)
    BY <1>1, <1>2
  <2> QED
    BY <2>1, RangeConcatenation, SMTT(30)
<1> QED
  BY <1>1, <1>2, <1>3, <1>4 DEF a, b

\* What a sequence holds is its head and what its tail holds.
LEMMA RangeHead ==
  ASSUME NEW S, NEW s \in Seq(S), s # <<>>
  PROVE  Range(s) = {Head(s)} \cup Range(Tail(s))
<1>1. /\ Tail(s) \in Seq(S) /\ Len(Tail(s)) = Len(s) - 1 /\ Len(s) \in Nat \ {0}
      /\ \A i \in 1 .. Len(Tail(s)) : Tail(s)[i] = s[i + 1]
      /\ Head(s) = s[1]
  BY HeadTailProperties, EmptySeq
<1>2. ASSUME NEW x \in Range(s) PROVE x \in {Head(s)} \cup Range(Tail(s))
  <2>1. PICK i \in 1 .. Len(s) : x = s[i]
    BY LenProperties DEF Range
  <2>2. CASE i > 1
    <3>1. i - 1 \in 1 .. Len(Tail(s)) /\ Tail(s)[i - 1] = s[i]
      BY <2>2, <1>1
    <3> QED
      BY <3>1, <2>1, <1>1, LenProperties DEF Range
  <2> QED
    BY <2>1, <2>2, <1>1
<1>3. ASSUME NEW x \in {Head(s)} \cup Range(Tail(s)) PROVE x \in Range(s)
  BY <1>3, <1>1, LenProperties DEF Range
<1> QED
  BY <1>2, <1>3

\* What two sequences hold together.
LEMMA RangeJoin ==
  ASSUME NEW S, NEW s \in Seq(S), NEW t \in Seq(S)
  PROVE  /\ s \o t \in Seq(S) /\ Len(s \o t) = Len(s) + Len(t)
         /\ Range(s \o t) = Range(s) \cup Range(t)
<1>1. s \o t \in Seq(S) /\ Len(s \o t) = Len(s) + Len(t)
  BY ConcatProperties, Zenon
<1>2. Range(s \o t) = Range(s) \cup Range(t)
  BY RangeConcatenation
<1> QED
  BY <1>1, <1>2

\* A sequence of one.
LEMMA Singleton ==
  ASSUME NEW S, NEW e \in S
  PROVE  <<e>> \in Seq(S) /\ Len(<<e>>) = 1 /\ Range(<<e>>) = {e}
BY DEF Range

\* Putting a buffer at the end.
LEMMA RangeAppend ==
  ASSUME NEW S, NEW s \in Seq(S), NEW e \in S
  PROVE  /\ Append(s, e) \in Seq(S) /\ Len(Append(s, e)) = Len(s) + 1
         /\ Range(Append(s, e)) = Range(s) \cup {e}
<1> DEFINE x == <<e>>
<1>1. x \in Seq(S) /\ Len(x) = 1 /\ Range(x) = {e} /\ Append(s, e) = s \o x
  BY Singleton, AppendIsConcat
<1> HIDE DEF x
<1>2. /\ s \o x \in Seq(S) /\ Len(s \o x) = Len(s) + Len(x)
      /\ Range(s \o x) = Range(s) \cup Range(x)
  <2>1. x \in Seq(S)
    BY <1>1
  <2> QED
    BY <2>1, RangeJoin, SMTT(30)
<1> QED
  BY <1>1, <1>2

\* Putting a buffer on the top.
LEMMA RangePush ==
  ASSUME NEW S, NEW s \in Seq(S), NEW e \in S
  PROVE  /\ <<e>> \o s \in Seq(S) /\ Len(<<e>> \o s) = Len(s) + 1
         /\ Range(<<e>> \o s) = {e} \cup Range(s)
<1> DEFINE x == <<e>>
<1>1. x \in Seq(S) /\ Len(x) = 1 /\ Range(x) = {e}
  BY Singleton
<1> HIDE DEF x
<1>2. /\ x \o s \in Seq(S) /\ Len(x \o s) = Len(x) + Len(s)
      /\ Range(x \o s) = Range(x) \cup Range(s)
  <2>1. x \in Seq(S)
    BY <1>1
  <2> QED
    BY <2>1, RangeJoin, SMTT(30)
<1>3. /\ x \o s \in Seq(S) /\ Len(x \o s) = Len(s) + 1
      /\ Range(x \o s) = {e} \cup Range(s)
  BY <1>1, <1>2, LenProperties
<1> QED
  BY <1>3 DEF x

\* The empty sequence.
LEMMA RangeEmpty == ASSUME NEW S PROVE Range(<<>>) = {} /\ <<>> \in Seq(S) /\ Len(<<>>) = 0
BY EmptySeq DEF Range

\* The buffers of events are the range of BufOf.
LEMMA BufOfRange ==
  ASSUME NEW s \in Seq(Event)
  PROVE  BufOf(s) \in Seq(Buffer) /\ Len(BufOf(s)) = Len(s) /\ Range(BufOf(s)) = Bufs(s)
<1>1. \A i \in 1 .. Len(s) : s[i].buf \in Buffer
  <2>1. \A i \in 1 .. Len(s) : s[i] \in Event
    BY ElementOfSeq
  <2> QED
    BY <2>1 DEF Event
<1>2. BufOf(s) \in Seq(Buffer) /\ Len(BufOf(s)) = Len(s)
      /\ \A i \in 1 .. Len(s) : BufOf(s)[i] = s[i].buf
  BY <1>1, LenProperties DEF BufOf
<1>3. Range(s) = {s[i] : i \in 1 .. Len(s)}
  BY RangeEquality
<1>4. Range(BufOf(s)) = {BufOf(s)[i] : i \in 1 .. Len(s)}
  BY <1>2, RangeEquality
<1> QED
  BY <1>2, <1>3, <1>4 DEF Bufs

-----------------------------------------------------------------------------
(***************************************************************************)
(* The invariant holds.                                                    *)
(***************************************************************************)
LEMMA InitRing == Init => RingInv
<1> SUFFICES ASSUME Init PROVE RingInv
  OBVIOUS
<1> DEFINE all == [i \in 1 .. Capacity |-> Capacity - i]
           filled == ((Capacity - 1) \div Batch) * Batch
<1>1. Capacity \in Nat /\ Batch \in Nat \ {0} /\ Capacity > Batch
  BY SizeAssumption
<1>2. filled \in Nat /\ filled > 0 /\ filled <= Capacity
  <2> DEFINE k == (Capacity - 1) \div Batch
  <2>1. k \in Nat /\ k * Batch <= Capacity - 1 /\ k >= 1
    BY <1>1
  <2> QED
    BY <2>1, <1>1
<1>3. all \in Seq(Buffer) /\ Len(all) = Capacity
  BY <1>1 DEF Buffer
<1>4. Range(all) = Buffer
  <2>1. ASSUME NEW b \in Buffer PROVE b \in Range(all)
    <3>1. Capacity - b \in 1 .. Capacity /\ all[Capacity - b] = b
      BY <1>1 DEF Buffer
    <3> QED
      BY <3>1 DEF Range
  <2> QED
    BY <2>1, <1>3, RangeOfSeq
<1> HIDE DEF all, filled
<1>5. posted = SubSeq(all, 1, filled) /\ free = SubSeq(all, filled + 1, Len(all))
  BY <1>3 DEF Init, all, filled
<1>6. /\ posted \in Seq(Buffer) /\ Len(posted) = filled
      /\ free \in Seq(Buffer) /\ Len(free) = Capacity - filled
      /\ Range(posted) \cup Range(free) = Buffer
  BY <1>2, <1>3, <1>4, <1>5, RangeCut
<1>7. events = <<>> /\ evs = <<>> /\ worker = "binding"
  BY DEF Init
<1>8. Bufs(events) = {} /\ Bufs(evs) = {} /\ Len(events) = 0 /\ Len(evs) = 0
      /\ events \in Seq(Event) /\ evs \in Seq(Event)
  BY <1>7, RangeEmpty DEF Bufs
<1> QED
  BY <1>1, <1>2, <1>6, <1>7, <1>8 DEF RingInv, TypeInv, LengthsAdd, AllHeld, Wet

\* Every step keeps the invariant.
LEMMA StepRing == RingInv /\ [Next]_vars => RingInv'
<1> SUFFICES ASSUME RingInv, [Next]_vars PROVE RingInv'
  OBVIOUS
<1>0. /\ TypeInv /\ LengthsAdd /\ AllHeld /\ Wet
      /\ Capacity \in Nat /\ Batch \in Nat \ {0} /\ Capacity > Batch
      /\ PollMax \in Nat \ {0}
      /\ Len(free) \in Nat /\ Len(posted) \in Nat /\ Len(events) \in Nat /\ Len(evs) \in Nat
  BY SizeAssumption, PollAssumption, LenProperties DEF RingInv, TypeInv
<1>1. ASSUME NEW len \in Lengths, NEW kind \in {"rx", "discard"}, Arrive(len, kind)
      PROVE  RingInv'
  <2> DEFINE b == Head(posted)
             e == [buf |-> b, kind |-> kind]
  <2>1. /\ b \in Buffer /\ Tail(posted) \in Seq(Buffer) /\ Len(Tail(posted)) = Len(posted) - 1
        /\ Range(posted) = {b} \cup Range(Tail(posted))
    BY <1>0, <1>1, HeadTailProperties, RangeHead DEF Arrive, TypeInv
  <2>2. e \in Event /\ e.buf = b
    BY <2>1 DEF Event
  <2>3. /\ Append(events, e) \in Seq(Event) /\ Len(Append(events, e)) = Len(events) + 1
        /\ Range(Append(events, e)) = Range(events) \cup {e}
    BY <1>0, <2>2, RangeAppend DEF TypeInv
  <2>4. /\ posted' = Tail(posted) /\ events' = Append(events, e)
        /\ UNCHANGED <<free, evs, worker>>
    BY <1>1 DEF Arrive
  <2> HIDE DEF b, e
  <2>5. /\ posted' \in Seq(Buffer) /\ Len(posted') = Len(posted) - 1
        /\ events' \in Seq(Event) /\ Len(events') = Len(events) + 1
    BY <2>1, <2>3, <2>4
  <2>6. Bufs(events') = Bufs(events) \cup {b}
    BY <2>2, <2>3, <2>4 DEF Bufs
  <2>7. AllHeld'
    BY <1>0, <2>1, <2>4, <2>6 DEF AllHeld
  <2>8. UNCHANGED <<free, evs, worker>>
    BY <2>4
  <2>9. TypeInv' /\ LengthsAdd' /\ Wet'
    <3>1. TypeInv'
      BY <1>0, <2>5, <2>8 DEF TypeInv
    <3>2. LengthsAdd'
      BY <1>0, <2>5, <2>8 DEF LengthsAdd
    <3>3. Wet'
      BY <1>0, <2>5, <2>8 DEF Wet
    <3> QED
      BY <3>1, <3>2, <3>3
  <2> QED
    BY <2>7, <2>9 DEF RingInv
<1>2. ASSUME Bind
      PROVE  RingInv'
  BY <1>0, <1>2 DEF Bind, card, RingInv, TypeInv, LengthsAdd, AllHeld, Wet
<1>3. ASSUME Poll
      PROVE  RingInv'
  <2>1. PICK k \in 1 .. PollMax :
          /\ k <= Len(events)
          /\ evs' = SubSeq(events, 1, k)
          /\ events' = SubSeq(events, k + 1, Len(events))
    BY <1>3 DEF Poll
  <2>2. k \in 0 .. Len(events)
    BY <1>0, <2>1
  <2>3. /\ evs' \in Seq(Event) /\ Len(evs') = k
        /\ events' \in Seq(Event) /\ Len(events') = Len(events) - k
        /\ Range(evs') \cup Range(events') = Range(events)
    BY <1>0, <2>1, <2>2, RangeCut DEF TypeInv
  <2>4. evs = <<>> /\ worker' = "handling" /\ UNCHANGED <<free, posted>>
    BY <1>0, <1>3 DEF Poll, Wet
  <2>5. Len(evs) = 0 /\ Bufs(evs) = {}
    BY <2>4, RangeEmpty DEF Bufs
  <2>6. TypeInv' /\ LengthsAdd' /\ Wet'
    BY <1>0, <2>2, <2>3, <2>4, <2>5 DEF TypeInv, LengthsAdd, Wet
  <2>7. Bufs(evs') \cup Bufs(events') = Bufs(events)
    BY <2>3 DEF Bufs
  <2>8. AllHeld'
    BY <1>0, <2>4, <2>5, <2>7 DEF AllHeld
  <2> QED
    BY <2>6, <2>8 DEF RingInv
<1>4. ASSUME Handle
      PROVE  RingInv'
  <2> DEFINE b == Head(evs).buf
  <2>1. /\ Head(evs) \in Event /\ Tail(evs) \in Seq(Event) /\ Len(Tail(evs)) = Len(evs) - 1
        /\ Range(evs) = {Head(evs)} \cup Range(Tail(evs))
    BY <1>0, <1>4, HeadTailProperties, RangeHead DEF Handle, TypeInv
  <2>2. b \in Buffer
    BY <2>1 DEF Event
  <2>3. /\ <<b>> \o free \in Seq(Buffer) /\ Len(<<b>> \o free) = Len(free) + 1
        /\ Range(<<b>> \o free) = {b} \cup Range(free)
    BY <1>0, <2>2, RangePush DEF TypeInv
  <2>4. Bufs(evs) = {b} \cup Bufs(Tail(evs))
    BY <2>1 DEF Bufs
  <2>5. /\ free' = <<b>> \o free /\ evs' = Tail(evs) /\ worker = "handling"
        /\ UNCHANGED <<worker, posted, events>>
    BY <1>4 DEF Handle, card
  <2> HIDE DEF b
  <2>6. /\ free' \in Seq(Buffer) /\ Len(free') = Len(free) + 1
        /\ evs' \in Seq(Event) /\ Len(evs') = Len(evs) - 1
    BY <2>1, <2>3, <2>5
  <2>7. AllHeld'
    BY <1>0, <2>3, <2>4, <2>5 DEF AllHeld
  <2>8. worker = "handling" /\ UNCHANGED <<worker, posted, events>>
    BY <2>5
  <2>9. TypeInv' /\ LengthsAdd' /\ Wet'
    <3>1. TypeInv'
      BY <1>0, <2>6, <2>8 DEF TypeInv
    <3>2. LengthsAdd'
      BY <1>0, <2>6, <2>8 DEF LengthsAdd
    <3>3. Wet'
      BY <1>0, <2>6, <2>8 DEF Wet
    <3> QED
      BY <3>1, <3>2, <3>3
  <2> QED
    BY <2>7, <2>9 DEF RingInv
<1>5. ASSUME Refill
      PROVE  RingInv'
  <2>1. /\ worker' = "polling" /\ evs = <<>> /\ Len(evs) = 0 /\ UNCHANGED <<events, evs>>
        /\ Space = Len(free)
    <3>1. worker' = "polling" /\ evs = <<>> /\ UNCHANGED <<events, evs>>
      BY <1>5 DEF Refill
    <3>2. Len(evs) = 0
      BY <3>1, RangeEmpty
    <3> QED
      BY <1>0, <3>1, <3>2 DEF Space, LengthsAdd
  <2>2. CASE Len(free) >= Batch
    <3> DEFINE x == SubSeq(free, 1, Batch)
               y == SubSeq(free, Batch + 1, Len(free))
    <3>1. posted' = posted \o x /\ free' = y
      BY <1>5, <2>1, <2>2 DEF Refill, MayRefill
    <3>2. Batch \in 0 .. Len(free)
      BY <1>0, <2>2
    <3>3. /\ x \in Seq(Buffer) /\ Len(x) = Batch
          /\ y \in Seq(Buffer) /\ Len(y) = Len(free) - Batch
          /\ Range(x) \cup Range(y) = Range(free)
      BY <1>0, <3>2, RangeCut DEF TypeInv
    <3> HIDE DEF x, y
    <3>4. posted \in Seq(Buffer) /\ x \in Seq(Buffer)
      BY <1>0, <3>3 DEF TypeInv
    <3>5. /\ posted \o x \in Seq(Buffer) /\ Len(posted \o x) = Len(posted) + Len(x)
          /\ Range(posted \o x) = Range(posted) \cup Range(x)
      BY <3>4, RangeJoin
    <3>6. /\ posted' \in Seq(Buffer) /\ Len(posted') = Len(posted) + Batch
          /\ free' \in Seq(Buffer) /\ Len(free') = Len(free) - Batch
      BY <3>1, <3>3, <3>5
    <3>7. AllHeld'
      BY <1>0, <2>1, <3>1, <3>3, <3>5 DEF AllHeld
    <3>8. TypeInv' /\ LengthsAdd' /\ Wet'
      <4>1. TypeInv'
        BY <1>0, <2>1, <3>6 DEF TypeInv
      <4>2. LengthsAdd'
        BY <1>0, <2>1, <3>6 DEF LengthsAdd
      <4>3. Wet'
        BY <1>0, <2>1, <3>6 DEF Wet
      <4> QED
        BY <4>1, <4>2, <4>3
    <3> QED
      BY <3>7, <3>8 DEF RingInv
  <2>3. CASE Len(free) < Batch
    <3>1. UNCHANGED <<posted, free>>
      BY <1>0, <1>5, <2>1, <2>3 DEF Refill, MayRefill
    <3>2. Len(posted) + Len(events) > 0
      BY <1>0, <2>1, <2>3 DEF LengthsAdd
    <3> QED
      BY <1>0, <2>1, <3>1, <3>2 DEF RingInv, TypeInv, LengthsAdd, AllHeld, Wet
  <2> QED
    BY <1>0, <2>2, <2>3
<1>6. ASSUME Quit
      PROVE  RingInv'
  BY <1>0, <1>6 DEF Quit, card, RingInv, TypeInv, LengthsAdd, AllHeld, Wet
<1>7. ASSUME StoreHandle \/ Close \/ Joined \/ UNCHANGED vars
      PROVE  RingInv'
  BY <1>0, <1>7
     DEF StoreHandle, Close, Joined, vars, card, RingInv, TypeInv, LengthsAdd, AllHeld, Wet
<1> QED
  BY <1>1, <1>2, <1>3, <1>4, <1>5, <1>6, <1>7 DEF Next, Worker

\* RingInv is an invariant.
LEMMA RingHolds == Spec => []RingInv
BY InitRing, StepRing, PTL DEF Spec

\* However packets, polls and the end of the program interleave, the card has
\* a buffer to write to whenever the thread polls an empty queue.
THEOREM NeverDryHolds == Spec => []NeverDry
<1>1. RingInv => NeverDry
  <2> SUFFICES ASSUME RingInv, worker = "polling", events = <<>>, posted = <<>> PROVE FALSE
    BY DEF NeverDry
  <2>1. Len(posted) + Len(events) > 0
    BY DEF RingInv, Wet
  <2> QED
    BY <2>1, RangeEmpty
<1> QED
  BY RingHolds, <1>1, PTL

\* With the lengths and the buffers, every buffer has its place.
LEMMA RingConserves == RingInv => BufferConserved
<1> SUFFICES ASSUME RingInv PROVE BufferConserved
  OBVIOUS
<1> DEFINE e == BufOf(events)
           v == BufOf(evs)
<1>1. /\ free \in Seq(Buffer) /\ posted \in Seq(Buffer)
      /\ e \in Seq(Buffer) /\ Len(e) = Len(events) /\ Range(e) = Bufs(events)
      /\ v \in Seq(Buffer) /\ Len(v) = Len(evs) /\ Range(v) = Bufs(evs)
  BY BufOfRange DEF RingInv, TypeInv
<1> HIDE DEF e, v
<1> DEFINE a == free \o posted
<1>2. a \in Seq(Buffer) /\ Len(a) = Len(free) + Len(posted) /\ Range(a) = Range(free) \cup Range(posted)
  BY <1>1, RangeJoin
<1> HIDE DEF a
<1> DEFINE c == a \o e
<1>3. c \in Seq(Buffer) /\ Len(c) = Len(a) + Len(e) /\ Range(c) = Range(a) \cup Range(e)
  <2>1. a \in Seq(Buffer) /\ e \in Seq(Buffer)
    BY <1>1, <1>2
  <2> QED
    BY <2>1, RangeJoin
<1> HIDE DEF c
<1> DEFINE d == c \o v
<1>4. d \in Seq(Buffer) /\ Len(d) = Len(c) + Len(v) /\ Range(d) = Range(c) \cup Range(v)
  <2>1. c \in Seq(Buffer) /\ v \in Seq(Buffer)
    BY <1>1, <1>3
  <2> QED
    BY <2>1, RangeJoin
<1> HIDE DEF d
<1>5. Places = d
  BY DEF Places, a, c, d, e, v
<1>6. Places \in Seq(Buffer) /\ Len(Places) = Capacity /\ Range(Places) = Buffer
  BY <1>1, <1>2, <1>3, <1>4, <1>5 DEF RingInv, LengthsAdd, AllHeld
<1>7. Range(Places) = {Places[i] : i \in 1 .. Len(Places)}
  BY <1>6, RangeEquality
<1> QED
  BY <1>6, <1>7 DEF BufferConserved

\* Every buffer is in exactly one place at any time.
THEOREM BuffersHeld == Spec => []BufferConserved
BY RingHolds, RingConserves, PTL

-----------------------------------------------------------------------------
(***************************************************************************)
(* Induction.  A set of numbers that is not empty has a least element,     *)
(* since the intervals that end at its elements have a least one: finite   *)
(* sets are well founded.                                                  *)
(***************************************************************************)
LEMMA LeastNumber ==
  ASSUME NEW T, T \subseteq Nat, T # {}
  PROVE  \E x \in T : \A y \in T : x <= y
<1> DEFINE R == StrictSubsetOrdering(Nat)
           P == {0 .. n : n \in T}
<1>1. P \subseteq FiniteSubsetsOf(Nat) /\ P # {}
  <2>1. \A n \in T : 0 .. n \in SUBSET Nat /\ IsFiniteSet(0 .. n)
    BY FS_Interval
  <2> QED
    BY <2>1 DEF FiniteSubsetsOf
<1>2. IsWellFoundedOn(R, FiniteSubsetsOf(Nat))
  BY FS_StrictSubsetOrderingWellFounded
<1>3. \E p \in P : \A q \in P : ~ (<<q, p>> \in R)
  <2> HIDE DEF P, R
  <2> QED
    BY <1>1, <1>2, WFMin
<1>4. PICK x \in T : \A y \in T : ~(<<0 .. y, 0 .. x>> \in R)
  BY <1>3
<1>5. ASSUME NEW y \in T, y < x PROVE FALSE
  <2>1. 0 .. y \subseteq 0 .. x /\ x \in 0 .. x /\ x \notin 0 .. y
    BY <1>5
  <2>2. 0 .. y # 0 .. x /\ 0 .. y \in SUBSET Nat /\ 0 .. x \in SUBSET Nat
    BY <2>1
  <2>3. <<0 .. y, 0 .. x>> \in R
    BY Zenon, <2>1, <2>2 DEF StrictSubsetOrdering
  <2> QED
    BY <1>4, <2>3
<1> QED
  BY <1>5

\* A set that has 0 and with each number the next has all of them.
LEMMA AllNumbers ==
  ASSUME NEW T, 0 \in T, \A n \in Nat : n \in T => n + 1 \in T
  PROVE  Nat \subseteq T
<1> SUFFICES ASSUME Nat \ T # {} PROVE FALSE
  OBVIOUS
<1>1. PICK x \in Nat \ T : \A y \in Nat \ T : x <= y
  BY LeastNumber
<1>2. x # 0 /\ x - 1 \in Nat
  BY <1>1
<1>3. x - 1 \in T
  BY <1>1, <1>2
<1> QED
  BY <1>1, <1>2, <1>3

-----------------------------------------------------------------------------
(***************************************************************************)
(* Sequences put together.  FlattenSeq is a recursion over the positions   *)
(* of its argument, which has a solution: what is put together up to one   *)
(* position goes on to the next.                                           *)
(***************************************************************************)
\* What is put together up to position i, by what is up to i - 1.
UpTo(f, s, i) == IF i = 1 THEN s[i] ELSE f[i - 1] \o s[i]

Together(s) == CHOOSE f : f = [i \in 1 .. Len(s) |-> UpTo(f, s, i)]

LEMMA FlattenIsTogether ==
  ASSUME NEW s
  PROVE  FlattenSeq(s) = IF Len(s) = 0 THEN s ELSE Together(s)[Len(s)]
BY DEF FlattenSeq, Together, UpTo

LEMMA NextUpTo ==
  ASSUME NEW f, NEW s, NEW k \in Nat, k # 0
  PROVE  UpTo(f, s, k + 1) = f[k] \o s[k + 1]
<1>1. k + 1 # 1 /\ (k + 1) - 1 = k
  OBVIOUS
<1> QED
  BY <1>1 DEF UpTo

LEMMA TogetherExists ==
  ASSUME NEW M, NEW s \in Seq(Seq(M)), NEW n \in Nat, n <= Len(s)
  PROVE  \E f \in [1 .. n -> Seq(M)] : \A i \in 1 .. n : f[i] = UpTo(f, s, i)
<1> DEFINE Solves(f, k) == \A i \in 1 .. k : f[i] = UpTo(f, s, i)
           T == {k \in Nat : k <= Len(s) => \E f \in [1 .. k -> Seq(M)] : Solves(f, k)}
<1>0. Len(s) \in Nat /\ \A i \in 1 .. Len(s) : s[i] \in Seq(M)
  BY ElementOfSeq, LenProperties
<1>1. 0 \in T
  <2> DEFINE z == [i \in 1 .. 0 |-> <<>>]
  <2>1. z \in [1 .. 0 -> Seq(M)] /\ Solves(z, 0)
    OBVIOUS
  <2> QED
    BY <2>1
<1>2. ASSUME NEW k \in Nat, k \in T PROVE k + 1 \in T
  <2> HIDE DEF Solves
  <2> SUFFICES ASSUME k + 1 <= Len(s) PROVE \E f \in [1 .. k + 1 -> Seq(M)] : Solves(f, k + 1)
    OBVIOUS
  <2>1. PICK f \in [1 .. k -> Seq(M)] : Solves(f, k)
    BY <1>0, <1>2
  <2> DEFINE g == [i \in 1 .. k + 1 |-> IF i <= k THEN f[i] ELSE UpTo(f, s, i)]
  <2>2. s[k + 1] \in Seq(M)
    BY <1>0
  <2>3. UpTo(f, s, k + 1) \in Seq(M)
    <3>1. CASE k = 0
      BY <2>2, <3>1 DEF UpTo
    <3>2. CASE k # 0
      <4>1. f[k] \in Seq(M)
        BY <3>2
      <4>2. f[k] \o s[k + 1] \in Seq(M)
        BY <2>2, <4>1, ConcatProperties
      <4>3. UpTo(f, s, k + 1) = f[k] \o s[k + 1]
        BY <3>2, NextUpTo
      <4> QED
        BY <4>2, <4>3
    <3> QED
      BY <3>1, <3>2
  <2>4. g \in [1 .. k + 1 -> Seq(M)]
    <3>1. \A i \in 1 .. k + 1 : i <= k \/ i = k + 1
      OBVIOUS
    <3> HIDE DEF UpTo
    <3> QED
      BY <2>3, <3>1
  <2>5. ASSUME NEW i \in 1 .. k + 1 PROVE g[i] = UpTo(g, s, i)
    <3>1. i # 1 => g[i - 1] = f[i - 1]
      OBVIOUS
    <3>2. UpTo(g, s, i) = UpTo(f, s, i)
      BY <3>1 DEF UpTo
    <3>3. i <= k => f[i] = UpTo(f, s, i)
      BY <2>1 DEF Solves
    <3> QED
      BY <3>2, <3>3
  <2> HIDE DEF g
  <2>6. Solves(g, k + 1)
    BY <2>5 DEF Solves
  <2> QED
    BY <2>4, <2>6
<1>3. Nat \subseteq T
  <2> HIDE DEF T
  <2> QED
    BY <1>1, <1>2, AllNumbers
<1> QED
  BY <1>3

LEMMA TogetherSolves ==
  ASSUME NEW M, NEW s \in Seq(Seq(M))
  PROVE  /\ Together(s) = [i \in 1 .. Len(s) |-> UpTo(Together(s), s, i)]
         /\ \A i \in 1 .. Len(s) : Together(s)[i] \in Seq(M)
<1> DEFINE h == Together(s)
<1>1. Len(s) \in Nat /\ \A i \in 1 .. Len(s) : s[i] \in Seq(M)
  BY ElementOfSeq, LenProperties
<1>2. PICK f \in [1 .. Len(s) -> Seq(M)] : \A i \in 1 .. Len(s) : f[i] = UpTo(f, s, i)
  <2> DEFINE n == Len(s)
  <2>1. n \in Nat /\ n <= Len(s)
    BY <1>1
  <2> HIDE DEF n
  <2>2. \E f \in [1 .. n -> Seq(M)] : \A i \in 1 .. n : f[i] = UpTo(f, s, i)
    BY <2>1, TogetherExists
  <2> QED
    BY <2>2 DEF n
<1>3. f = [i \in 1 .. Len(s) |-> UpTo(f, s, i)]
  BY <1>2
<1>4. h = [i \in 1 .. Len(s) |-> UpTo(h, s, i)]
  BY <1>3 DEF Together
<1> HIDE DEF h
<1> DEFINE T == {k \in Nat : k \in 1 .. Len(s) => h[k] \in Seq(M)}
<1>5. 0 \in T
  OBVIOUS
<1>6. ASSUME NEW k \in Nat, k \in T PROVE k + 1 \in T
  <2> SUFFICES ASSUME k + 1 \in 1 .. Len(s) PROVE h[k + 1] \in Seq(M)
    OBVIOUS
  <2>1. h[k + 1] = UpTo(h, s, k + 1) /\ s[k + 1] \in Seq(M)
    BY <1>1, <1>4
  <2>2. CASE k = 0
    BY <2>1, <2>2 DEF UpTo
  <2>3. CASE k # 0
    <3>1. h[k] \in Seq(M)
      BY <1>1, <1>6, <2>3
    <3>2. h[k] \o s[k + 1] \in Seq(M)
      BY <2>1, <3>1, ConcatProperties
    <3>3. UpTo(h, s, k + 1) = h[k] \o s[k + 1]
      BY <2>3, NextUpTo
    <3> QED
      BY <2>1, <3>2, <3>3
  <2> QED
    BY <2>2, <2>3
<1>7. Nat \subseteq T
  <2> HIDE DEF T
  <2> QED
    BY <1>5, <1>6, AllNumbers
<1>8. \A i \in 1 .. Len(s) : h[i] \in Seq(M)
  BY <1>7
<1> QED
  BY <1>4, <1>8 DEF h

\* What is put together first does not depend on what comes last.
LEMMA TogetherFirst ==
  ASSUME NEW M, NEW s \in Seq(Seq(M)), NEW x \in Seq(M), NEW i \in 1 .. Len(s)
  PROVE  Together(Append(s, x))[i] = Together(s)[i]
<1> DEFINE a == Append(s, x)
           f == Together(s)
           g == Together(a)
           T == {k \in Nat : k \in 1 .. Len(s) => g[k] = f[k]}
<1>1. /\ Len(s) \in Nat /\ a \in Seq(Seq(M)) /\ Len(a) = Len(s) + 1
      /\ \A k \in 1 .. Len(s) : a[k] = s[k]
  BY AppendProperties, LenProperties
<1> HIDE DEF a
<1>2. /\ f = [k \in 1 .. Len(s) |-> UpTo(f, s, k)]
      /\ g = [k \in 1 .. Len(a) |-> UpTo(g, a, k)]
  BY <1>1, TogetherSolves
<1> HIDE DEF f, g
<1>3. \A k \in 1 .. Len(s) : f[k] = UpTo(f, s, k) /\ g[k] = UpTo(g, a, k)
  <2> HIDE DEF UpTo
  <2>1. \A k \in 1 .. Len(s) : k \in 1 .. Len(a)
    BY <1>1
  <2>2. \A k \in 1 .. Len(s) : f[k] = UpTo(f, s, k)
    BY Zenon, <1>2
  <2>3. \A k \in 1 .. Len(a) : g[k] = UpTo(g, a, k)
    BY Zenon, <1>2
  <2> QED
    BY <2>1, <2>2, <2>3
<1>4. 0 \in T
  OBVIOUS
<1>5. ASSUME NEW k \in Nat, k \in T PROVE k + 1 \in T
  <2> SUFFICES ASSUME k + 1 \in 1 .. Len(s) PROVE g[k + 1] = f[k + 1]
    OBVIOUS
  <2>1. k # 0 => g[k] = f[k]
    BY <1>1, <1>5
  <2>2. UpTo(g, a, k + 1) = UpTo(f, s, k + 1)
    BY <1>1, <2>1 DEF UpTo
  <2> QED
    BY <1>3, <2>2
<1>6. Nat \subseteq T
  <2> HIDE DEF T
  <2> QED
    BY <1>4, <1>5, AllNumbers
<1>7. g[i] = f[i]
  BY <1>1, <1>6
<1> QED
  BY <1>7 DEF a, f, g

LEMMA FlattenAppend ==
  ASSUME NEW M, NEW s \in Seq(Seq(M)), NEW x \in Seq(M)
  PROVE  FlattenSeq(s) \in Seq(M) /\ FlattenSeq(Append(s, x)) = FlattenSeq(s) \o x
<1> DEFINE a == Append(s, x)
           n == Len(s)
<1>1. n \in Nat /\ a \in Seq(Seq(M)) /\ Len(a) = n + 1 /\ a[n + 1] = x
  BY AppendProperties, LenProperties
<1>2. FlattenSeq(s) = IF n = 0 THEN s ELSE Together(s)[n]
  BY FlattenIsTogether
<1>3. FlattenSeq(a) = IF Len(a) = 0 THEN a ELSE Together(a)[Len(a)]
  BY FlattenIsTogether
<1>4. Together(a)[n + 1] = UpTo(Together(a), a, n + 1)
  <2> HIDE DEF a, n
  <2>1. Together(a) = [i \in 1 .. Len(a) |-> UpTo(Together(a), a, i)]
    BY <1>1, TogetherSolves
  <2> DEFINE g == Together(a)
  <2>2. g = [i \in 1 .. n + 1 |-> UpTo(g, a, i)]
    BY <1>1, <2>1
  <2> HIDE DEF g
  <2>3. \A i \in 1 .. n + 1 : g[i] = UpTo(g, a, i)
    BY Zenon, <2>2
  <2>4. g[n + 1] = UpTo(g, a, n + 1)
    BY <1>1, <2>3
  <2> QED
    BY <2>4 DEF g
<1>5. FlattenSeq(a) = UpTo(Together(a), a, n + 1)
  <2> HIDE DEF a, n
  <2> QED
    BY <1>1, <1>3, <1>4
<1>6. CASE n = 0
  <2>1. s = <<>> /\ FlattenSeq(s) = <<>>
    BY <1>2, <1>6, EmptySeq
  <2>2. FlattenSeq(a) = x
    BY <1>1, <1>5, <1>6 DEF UpTo
  <2>3. <<>> \o x = x /\ <<>> \in Seq(M)
    BY ConcatEmptySeq, EmptySeq
  <2> QED
    BY <2>1, <2>2, <2>3
<1>7. CASE n # 0
  <2>1. n \in 1 .. Len(s)
    BY <1>1, <1>7
  <2>2. Together(a)[n] = Together(s)[n] /\ Together(s)[n] \in Seq(M)
    BY <2>1, TogetherFirst, TogetherSolves
  <2>3. UpTo(Together(a), a, n + 1) = Together(a)[n] \o x
    BY <1>1, <1>7, NextUpTo
  <2> QED
    BY <1>2, <1>5, <1>7, <2>2, <2>3
<1> QED
  BY <1>6, <1>7

-----------------------------------------------------------------------------
(***************************************************************************)
(* The order of the messages.  The packets not handled yet are in the      *)
(* buffers of the polled events, and then of the queued ones, in the order *)
(* of their arrival; since no buffer is in two places, the card does not   *)
(* write to any of these.                                                  *)
(***************************************************************************)
OrderInv ==
  /\ lengths \in Seq(Nat) /\ content \in [Buffer -> Nat]
  /\ Done \in Nat
  /\ \A i \in 1 .. Len(evs) : content[evs[i].buf] = Done + i
  /\ \A i \in 1 .. Len(events) : content[events[i].buf] = Done + Len(evs) + i

Message == Nat \X Nat

\* The loop that process_packet ends with handles the whole messages.
LEMMA MessagesAreWhole ==
  ASSUME OrderInv, NEW p \in 1 .. Len(lengths)
  PROVE  Messages(p) = Whole(p) /\ Whole(p) \in Seq(Message)
<1> DEFINE len == lengths[p]
           n == IF len < QuoteSize THEN 0 ELSE 1 + (len - QuoteSize) \div QuoteSize
<1>1. len \in Nat /\ QuoteSize \in Nat \ {0} /\ p \in Nat
  BY ElementOfSeq, QuoteAssumption DEF OrderInv
<1>2. n \in Nat /\ n * QuoteSize <= len /\ len < (n + 1) * QuoteSize
  <2> HIDE DEF len
  <2>1. CASE len < QuoteSize
    BY <1>1, <2>1
  <2>2. CASE ~(len < QuoteSize)
    <3> DEFINE r == len - QuoteSize
               k == r \div QuoteSize
    <3>1. r \in Nat
      BY <1>1, <2>2
    <3> HIDE DEF r
    <3>2. k \in Nat /\ k * QuoteSize <= r /\ r < (k + 1) * QuoteSize
      BY <1>1, <3>1
    <3> HIDE DEF k
    <3>3. n = k + 1 /\ len = r + QuoteSize
      BY <1>1, <2>2, <3>2 DEF k, r
    <3> HIDE DEF n
    <3>4. n * QuoteSize = k * QuoteSize + QuoteSize /\ (n + 1) * QuoteSize = (k + 1) * QuoteSize + QuoteSize
      BY <1>1, <3>2, <3>3
    <3> QED
      BY <1>1, <3>1, <3>2, <3>3, <3>4
  <2> QED
    BY <2>1, <2>2
<1> HIDE DEF len, n
<1>3. ASSUME NEW m \in Nat \ {0} PROVE m * QuoteSize <= len <=> m <= n
  <2>1. CASE m <= n
    <3>1. m * QuoteSize <= n * QuoteSize
      BY <1>1, <1>2, <2>1
    <3>2. m * QuoteSize \in Nat /\ n * QuoteSize \in Nat
      BY <1>1, <1>2
    <3> QED
      BY <1>1, <1>2, <2>1, <3>1, <3>2
  <2>2. CASE m >= n + 1
    <3>1. m * QuoteSize >= (n + 1) * QuoteSize
      BY <1>1, <1>2, <2>2
    <3>2. m * QuoteSize \in Nat /\ (n + 1) * QuoteSize \in Nat
      BY <1>1, <1>2
    <3> QED
      BY <1>1, <1>2, <2>2, <3>1, <3>2
  <2> QED
    BY <1>2, <2>1, <2>2
<1>4. n <= len
  <2>1. n <= n * QuoteSize /\ n * QuoteSize \in Nat
    BY <1>1, <1>2
  <2> QED
    BY <1>1, <1>2, <2>1
<1>5. {m \in 1 .. len : m * QuoteSize <= len} = 1 .. n
  BY <1>1, <1>2, <1>3, <1>4
<1>6. Whole(p) = [i \in 1 .. n |-> <<p, i>>]
  BY <1>5 DEF Whole, len
<1>7. Messages(p) = [i \in 1 .. n |-> <<p, i>>]
  <2>1. CASE len < QuoteSize
    <3>1. n = 0 /\ Messages(p) = <<>>
      BY <2>1 DEF n, Messages, len
    <3>2. [i \in 1 .. 0 |-> <<p, i>>] = <<>>
      OBVIOUS
    <3> QED
      BY <3>1, <3>2
  <2>2. CASE ~(len < QuoteSize)
    BY <2>2 DEF n, Messages, len
  <2> QED
    BY <2>1, <2>2
<1>8. [i \in 1 .. n |-> <<p, i>>] \in Seq(Message)
  BY <1>1, <1>2 DEF Message
<1> QED
  BY <1>6, <1>7, <1>8

\* The first posted buffer is that of no event.
LEMMA CardWritesApart ==
  ASSUME RingInv, posted # <<>>
  PROVE  /\ Head(posted) \in Buffer
         /\ \A i \in 1 .. Len(evs) : evs[i].buf \in Buffer /\ evs[i].buf # Head(posted)
         /\ \A i \in 1 .. Len(events) : events[i].buf \in Buffer /\ events[i].buf # Head(posted)
<1> DEFINE f == Len(free)
           q == Len(posted)
           e == BufOf(events)
           v == BufOf(evs)
<1>1. /\ free \in Seq(Buffer) /\ posted \in Seq(Buffer) /\ Capacity \in Nat
      /\ e \in Seq(Buffer) /\ v \in Seq(Buffer)
      /\ Len(e) = Len(events) /\ Len(v) = Len(evs)
      /\ f \in Nat /\ q \in Nat \ {0} /\ Len(events) \in Nat /\ Len(evs) \in Nat
      /\ f + q + Len(events) + Len(evs) = Capacity
  BY BufOfRange, LenProperties, EmptySeq, SizeAssumption DEF RingInv, TypeInv, LengthsAdd
<1>2. /\ \A i \in 1 .. Len(events) : e[i] = events[i].buf
      /\ \A i \in 1 .. Len(evs) : v[i] = evs[i].buf
  BY DEF BufOf
<1> HIDE DEF e, v
<1> DEFINE a == free \o posted
<1>3. a \in Seq(Buffer) /\ Len(a) = f + q /\ a[f + 1] = posted[1]
  <2>1. /\ a \in Seq(Buffer) /\ Len(a) = f + q
        /\ \A i \in 1 .. f + q : a[i] = IF i <= f THEN free[i] ELSE posted[i - f]
    BY <1>1, ConcatProperties
  <2>2. f + 1 \in 1 .. f + q /\ ~(f + 1 <= f) /\ (f + 1) - f = 1
    BY <1>1
  <2> QED
    BY <2>1, <2>2
<1> HIDE DEF a
<1> DEFINE c == a \o e
<1>4. /\ c \in Seq(Buffer) /\ Len(c) = f + q + Len(events) /\ c[f + 1] = posted[1]
      /\ \A i \in 1 .. Len(events) : c[f + q + i] = events[i].buf
  <2>1. /\ c \in Seq(Buffer) /\ Len(c) = Len(a) + Len(e)
        /\ \A i \in 1 .. Len(a) + Len(e) : c[i] = IF i <= Len(a) THEN a[i] ELSE e[i - Len(a)]
    <3>1. a \in Seq(Buffer) /\ e \in Seq(Buffer)
      BY <1>1, <1>3
    <3> QED
      BY <3>1, ConcatProperties
  <2>2. c[f + 1] = a[f + 1]
    BY <1>1, <1>3, <2>1
  <2>3. ASSUME NEW i \in 1 .. Len(events) PROVE c[f + q + i] = e[i]
    <3>1. f + q + i \in 1 .. Len(a) + Len(e) /\ ~(f + q + i <= Len(a)) /\ (f + q + i) - Len(a) = i
      BY <1>1, <1>3
    <3> QED
      BY <2>1, <3>1
  <2> QED
    BY <1>1, <1>2, <1>3, <2>1, <2>2, <2>3
<1> HIDE DEF c
<1> DEFINE d == c \o v
<1>5. /\ d \in Seq(Buffer) /\ Len(d) = Capacity /\ d[f + 1] = posted[1]
      /\ \A i \in 1 .. Len(events) : d[f + q + i] = events[i].buf
      /\ \A i \in 1 .. Len(evs) : d[f + q + Len(events) + i] = evs[i].buf
  <2>1. /\ d \in Seq(Buffer) /\ Len(d) = Len(c) + Len(v)
        /\ \A i \in 1 .. Len(c) + Len(v) : d[i] = IF i <= Len(c) THEN c[i] ELSE v[i - Len(c)]
    <3>1. c \in Seq(Buffer) /\ v \in Seq(Buffer)
      BY <1>1, <1>4
    <3> QED
      BY <3>1, ConcatProperties
  <2>2. d[f + 1] = c[f + 1]
    BY <1>1, <1>4, <2>1
  <2>3. ASSUME NEW i \in 1 .. Len(events) PROVE d[f + q + i] = c[f + q + i]
    BY <1>1, <1>4, <2>1
  <2>4. ASSUME NEW i \in 1 .. Len(evs) PROVE d[f + q + Len(events) + i] = v[i]
    <3> DEFINE k == f + q + Len(events) + i
    <3>1. k \in 1 .. Len(c) + Len(v) /\ ~(k <= Len(c)) /\ k - Len(c) = i
      BY <1>1, <1>4
    <3> HIDE DEF k
    <3>2. d[k] = v[i]
      BY <2>1, <3>1
    <3> QED
      BY <3>2 DEF k
  <2> QED
    BY <1>1, <1>2, <1>4, <2>1, <2>2, <2>3, <2>4
<1>6. d = Places
  BY DEF Places, a, c, d, e, v
<1> HIDE DEF d
<1>7. \A i, j \in 1 .. Capacity : d[i] = d[j] => i = j
  <2>1. BufferConserved
    BY RingConserves
  <2>2. d \in [1 .. Capacity -> Buffer] /\ \A b \in Buffer : \E i \in 1 .. Capacity : d[i] = b
    BY <1>5, <1>6, <2>1, LenProperties DEF BufferConserved
  <2>3. d \in Surjection(1 .. Capacity, Buffer)
    BY <2>2 DEF Surjection
  <2>4. /\ IsFiniteSet(1 .. Capacity) /\ Cardinality(1 .. Capacity) = Capacity
        /\ Cardinality(Buffer) = Capacity
    <3> DEFINE k == Capacity - 1
    <3>1. Capacity > 0 /\ k \in Int /\ ~(0 > k) /\ k - 0 + 1 = Capacity
      BY SizeAssumption
    <3>2. IsFiniteSet(1 .. Capacity) /\ Cardinality(1 .. Capacity) = Capacity - 1 + 1
      BY <1>1, <3>1, FS_Interval
    <3> HIDE DEF k
    <3>3. Cardinality(0 .. k) = k - 0 + 1
      BY <3>1, FS_Interval
    <3> QED
      BY <1>1, <3>1, <3>2, <3>3 DEF Buffer, k
  <2>5. d \in Injection(1 .. Capacity, Buffer)
    BY <2>3, <2>4, FS_SurjSameCardinalityImpliesInj
  <2> QED
    BY <2>5 DEF Injection, IsInjective
<1>8. f + 1 \in 1 .. Capacity /\ Head(posted) = posted[1] /\ d[f + 1] \in Buffer
  BY <1>1, <1>5, ElementOfSeq
<1>9. ASSUME NEW i \in 1 .. Len(events)
      PROVE  events[i].buf \in Buffer /\ events[i].buf # Head(posted)
  <2>1. f + q + i \in 1 .. Capacity /\ f + q + i # f + 1
    BY <1>1
  <2>2. d[f + q + i] \in Buffer
    BY <1>5, <2>1, ElementOfSeq
  <2> QED
    BY <1>5, <1>7, <1>8, <2>1, <2>2
<1>10. ASSUME NEW i \in 1 .. Len(evs)
       PROVE  evs[i].buf \in Buffer /\ evs[i].buf # Head(posted)
  <2>1. f + q + Len(events) + i \in 1 .. Capacity /\ f + q + Len(events) + i # f + 1
    BY <1>1
  <2>2. d[f + q + Len(events) + i] \in Buffer
    BY <1>5, <2>1, ElementOfSeq
  <2> QED
    BY <1>5, <1>7, <1>8, <2>1, <2>2
<1> QED
  BY <1>5, <1>8, <1>9, <1>10

\* What is handled of the first n packets.
Wholes(n) == [p \in 1 .. n |-> Whole(p)]

LEMMA WholesType ==
  ASSUME OrderInv, NEW n \in Nat, n <= Len(lengths)
  PROVE  Wholes(n) \in Seq(Seq(Message)) /\ Len(Wholes(n)) = n
<1>1. \A p \in 1 .. n : Whole(p) \in Seq(Message)
  <2>1. \A p \in 1 .. n : p \in 1 .. Len(lengths)
    BY LenProperties DEF OrderInv
  <2> QED
    BY <2>1, MessagesAreWhole
<1>2. \A p \in 1 .. n : Wholes(n)[p] \in Seq(Message)
  BY <1>1 DEF Wholes
<1>3. Wholes(n) \in [1 .. n -> Seq(Message)]
  BY <1>1 DEF Wholes
<1> QED
  BY <1>3, LenProperties

LEMMA DoneBound ==
  ASSUME RingInv, OrderInv
  PROVE  /\ Done \in Nat /\ Done <= Len(lengths) /\ Len(lengths) \in Nat
         /\ Len(events) \in Nat /\ Len(evs) \in Nat
         /\ Done + Len(evs) + Len(events) = Len(lengths)
BY LenProperties DEF RingInv, TypeInv, OrderInv, Done

LEMMA InitOrder == Init => OrderInv /\ HandledInOrder
<1> SUFFICES ASSUME Init PROVE OrderInv /\ HandledInOrder
  OBVIOUS
<1>1. /\ lengths = <<>> /\ events = <<>> /\ evs = <<>> /\ handled = <<>>
      /\ content = [b \in Buffer |-> 0]
  BY DEF Init
<1>2. Len(<<>>) = 0 /\ <<>> \in Seq(Nat)
  BY EmptySeq
<1>3. Done = 0
  <2>1. Len(lengths) = 0 /\ Len(events) = 0 /\ Len(evs) = 0
    BY <1>1, <1>2
  <2> QED
    BY <2>1 DEF Done
<1>4. OrderInv
  BY <1>1, <1>2, <1>3 DEF OrderInv
<1>5. [p \in 1 .. 0 |-> Whole(p)] = <<>>
  BY EmptySeq
<1>6. FlattenSeq(<<>>) = <<>>
  BY <1>2, FlattenIsTogether
<1> QED
  BY <1>1, <1>3, <1>4, <1>5, <1>6 DEF HandledInOrder

LEMMA StepOrder ==
  ASSUME RingInv, OrderInv, HandledInOrder, [Next]_vars
  PROVE  OrderInv' /\ HandledInOrder'
<1>1. /\ lengths \in Seq(Nat) /\ content \in [Buffer -> Nat]
      /\ events \in Seq(Event) /\ evs \in Seq(Event) /\ posted \in Seq(Buffer)
      /\ \A i \in 1 .. Len(evs) : content[evs[i].buf] = Done + i
      /\ \A i \in 1 .. Len(events) : content[events[i].buf] = Done + Len(evs) + i
  BY DEF RingInv, TypeInv, OrderInv
<1>2. /\ Done \in Nat /\ Done <= Len(lengths) /\ Len(lengths) \in Nat
      /\ Len(events) \in Nat /\ Len(evs) \in Nat
      /\ Done + Len(evs) + Len(events) = Len(lengths)
  BY DoneBound
<1>3. ASSUME UNCHANGED <<lengths, content, events, evs, handled>>
      PROVE  OrderInv' /\ HandledInOrder'
  <2>1. Done' = Done
    BY <1>3 DEF Done
  <2>2. \A p : Whole(p)' = Whole(p)
    BY <1>3 DEF Whole
  <2> QED
    BY <1>1, <1>2, <1>3, <2>1, <2>2 DEF OrderInv, HandledInOrder
<1>4. ASSUME NEW len \in Lengths, NEW kind \in {"rx", "discard"}, Arrive(len, kind)
      PROVE  OrderInv' /\ HandledInOrder'
  <2> DEFINE b == Head(posted)
             e == [buf |-> b, kind |-> kind]
  <2>1. /\ b \in Buffer
        /\ \A i \in 1 .. Len(evs) : evs[i].buf \in Buffer /\ evs[i].buf # b
        /\ \A i \in 1 .. Len(events) : events[i].buf \in Buffer /\ events[i].buf # b
    BY <1>4, CardWritesApart DEF Arrive
  <2>2. /\ lengths' = Append(lengths, len) /\ len \in Nat
        /\ content' = [content EXCEPT ![b] = Len(lengths) + 1]
        /\ events' = Append(events, e) /\ e.buf = b
        /\ evs' = evs /\ handled' = handled
    BY <1>4, QuoteAssumption DEF Arrive
  <2> HIDE DEF b, e
  <2>3. /\ lengths' \in Seq(Nat) /\ Len(lengths') = Len(lengths) + 1
        /\ \A p \in 1 .. Len(lengths) : lengths'[p] = lengths[p]
    BY <1>1, <2>2, AppendProperties
  <2>4. /\ Len(events') = Len(events) + 1 /\ events'[Len(events) + 1] = e
        /\ \A i \in 1 .. Len(events) : events'[i] = events[i]
    BY <1>1, <1>2, <2>2
  <2>5. Done' = Done
    BY <1>2, <2>2, <2>3, <2>4 DEF Done
  <2>6. content' \in [Buffer -> Nat]
    BY <1>1, <1>2, <2>1, <2>2
  <2>7. \A i \in 1 .. Len(evs) : content'[evs[i].buf] = Done + i
    BY <1>1, <2>1, <2>2
  <2>8. ASSUME NEW i \in 1 .. Len(events')
        PROVE  content'[events'[i].buf] = Done + Len(evs) + i
    <3>1. CASE i = Len(events) + 1
      <4>1. content'[b] = Len(lengths) + 1
        BY <1>1, <2>1, <2>2
      <4> QED
        BY <1>2, <2>2, <2>4, <3>1, <4>1
    <3>2. CASE i # Len(events) + 1
      <4>1. i \in 1 .. Len(events)
        BY <1>2, <2>4, <3>2
      <4>2. content'[events[i].buf] = content[events[i].buf]
        BY <1>1, <2>1, <2>2, <4>1
      <4> QED
        BY <1>1, <2>4, <4>1, <4>2
    <3> QED
      BY <3>1, <3>2
  <2>9. OrderInv'
    BY <1>2, <2>2, <2>3, <2>5, <2>6, <2>7, <2>8 DEF OrderInv
  <2>10. \A p \in 1 .. Done : Whole(p)' = Whole(p)
    <3>1. \A p \in 1 .. Done : lengths'[p] = lengths[p]
      BY <1>2, <2>3
    <3> QED
      BY <3>1 DEF Whole
  <2>11. [p \in 1 .. Done' |-> Whole(p)'] = [p \in 1 .. Done |-> Whole(p)]
    BY <2>5, <2>10
  <2> QED
    BY <2>2, <2>9, <2>11 DEF HandledInOrder
<1>5. CASE Poll
  <2>1. PICK k \in 1 .. PollMax :
          /\ k <= Len(events)
          /\ evs' = SubSeq(events, 1, k)
          /\ events' = SubSeq(events, k + 1, Len(events))
    BY <1>5 DEF Poll
  <2>2. k \in Nat /\ k \in 1 .. Len(events)
    BY <1>2, <2>1, PollAssumption
  <2>3. UNCHANGED <<lengths, content, handled>> /\ Len(evs) = 0
    <3>1. evs = <<>>
      BY <1>5 DEF Poll, RingInv, Wet
    <3> QED
      BY <1>5, <3>1, EmptySeq DEF Poll
  <2>4. Len(evs') = k /\ \A i \in 1 .. k : evs'[i] = events[i]
    BY <1>1, <1>2, <2>1, <2>2
  <2>5. /\ Len(events') = Len(events) - k
        /\ \A i \in 1 .. Len(events) - k : events'[i] = events[k + i]
    BY <1>1, <1>2, <2>1, <2>2
  <2>6. Done' = Done
    BY <1>2, <2>2, <2>3, <2>4, <2>5 DEF Done
  <2>7. \A i \in 1 .. Len(evs') : content'[evs'[i].buf] = Done' + i
    <3> SUFFICES ASSUME NEW i \in 1 .. k PROVE content[events[i].buf] = Done + i
      BY <2>3, <2>4, <2>6
    <3>1. i \in 1 .. Len(events)
      BY <1>2, <2>2
    <3> QED
      BY <1>1, <1>2, <2>3, <3>1
  <2>8. ASSUME NEW i \in 1 .. Len(events')
        PROVE  content'[events'[i].buf] = Done' + Len(evs') + i
    <3>1. k + i \in 1 .. Len(events) /\ events'[i] = events[k + i]
      BY <1>2, <2>2, <2>5
    <3>2. content[events[k + i].buf] = Done + Len(evs) + (k + i)
      BY <1>1, <3>1
    <3> QED
      BY <1>2, <2>2, <2>3, <2>4, <2>6, <3>1, <3>2
  <2>9. \A p : Whole(p)' = Whole(p)
    BY <2>3 DEF Whole
  <2> QED
    BY <1>1, <1>2, <2>3, <2>6, <2>7, <2>8, <2>9 DEF OrderInv, HandledInOrder
<1>6. CASE Handle
  <2>1. /\ evs # <<>> /\ evs' = Tail(evs)
        /\ handled' = handled \o Messages(content[Head(evs).buf])
        /\ UNCHANGED <<lengths, content, events>>
    BY <1>6 DEF Handle, card
  <2>2. /\ Head(evs) = evs[1] /\ Len(evs) > 0 /\ Len(evs') = Len(evs) - 1
        /\ \A i \in 1 .. Len(evs) - 1 : evs'[i] = evs[i + 1]
    BY <1>1, <1>2, <2>1
  <2>3. Done' = Done + 1
    BY <1>2, <2>1, <2>2 DEF Done
  <2>4. content[Head(evs).buf] = Done + 1
    BY <1>1, <1>2, <2>2
  <2>5. \A i \in 1 .. Len(evs') : content'[evs'[i].buf] = Done' + i
    <3> SUFFICES ASSUME NEW i \in 1 .. Len(evs') PROVE content[evs'[i].buf] = Done' + i
      BY <2>1
    <3>1. i + 1 \in 1 .. Len(evs) /\ evs'[i] = evs[i + 1]
      BY <1>2, <2>2
    <3>2. content[evs[i + 1].buf] = Done + (i + 1)
      BY <1>1, <3>1
    <3> QED
      BY <1>2, <2>3, <3>1, <3>2
  <2>6. \A i \in 1 .. Len(events') : content'[events'[i].buf] = Done' + Len(evs') + i
    <3> SUFFICES ASSUME NEW i \in 1 .. Len(events)
                 PROVE  content[events[i].buf] = Done' + Len(evs') + i
      BY <2>1
    <3>1. content[events[i].buf] = Done + Len(evs) + i
      BY <1>1
    <3> QED
      BY <1>2, <2>2, <2>3, <3>1
  <2>7. OrderInv'
    BY <1>1, <1>2, <2>1, <2>3, <2>5, <2>6 DEF OrderInv
  <2> DEFINE n == Done
  <2>8. n \in Nat /\ n + 1 \in 1 .. Len(lengths) /\ n <= Len(lengths) /\ n + 1 <= Len(lengths)
    BY <1>2, <2>2
  <2>9. handled = FlattenSeq(Wholes(n)) /\ handled' = handled \o Whole(n + 1)
    <3>1. handled = FlattenSeq(Wholes(n))
      BY DEF HandledInOrder, Wholes
    <3>2. Messages(n + 1) = Whole(n + 1)
      BY <2>8, MessagesAreWhole
    <3> QED
      BY <2>1, <2>4, <3>1, <3>2
  <2>10. handled' = FlattenSeq(Wholes(n + 1))
    <3> HIDE DEF n
    <3>1. /\ Wholes(n) \in Seq(Seq(Message)) /\ Len(Wholes(n)) = n
          /\ Wholes(n + 1) \in Seq(Seq(Message)) /\ Len(Wholes(n + 1)) = n + 1
          /\ Whole(n + 1) \in Seq(Message)
      BY <2>8, WholesType, MessagesAreWhole
    <3>2. Wholes(n + 1) = Append(Wholes(n), Whole(n + 1))
      <4>1. /\ Len(Append(Wholes(n), Whole(n + 1))) = n + 1
            /\ Append(Wholes(n), Whole(n + 1)) \in Seq(Seq(Message))
            /\ Append(Wholes(n), Whole(n + 1))[n + 1] = Whole(n + 1)
            /\ \A p \in 1 .. n : Append(Wholes(n), Whole(n + 1))[p] = Wholes(n)[p]
        BY <3>1, AppendProperties
      <4>2. \A p \in 1 .. n + 1 : Wholes(n + 1)[p] = Whole(p)
        BY DEF Wholes
      <4>3. \A p \in 1 .. n : Wholes(n)[p] = Whole(p)
        BY DEF Wholes
      <4>4. \A p \in 1 .. n + 1 : Wholes(n + 1)[p] = Append(Wholes(n), Whole(n + 1))[p]
        <5>1. \A p \in 1 .. n + 1 : p \in 1 .. n \/ p = n + 1
          BY <2>8
        <5> QED
          BY <4>1, <4>2, <4>3, <5>1
      <4> QED
        BY <3>1, <4>1, <4>4, SeqEqual
    <3>3. FlattenSeq(Append(Wholes(n), Whole(n + 1))) = FlattenSeq(Wholes(n)) \o Whole(n + 1)
      BY <3>1, FlattenAppend
    <3> QED
      BY <2>9, <3>2, <3>3
  <2>11. Wholes(n + 1) = [p \in 1 .. Done' |-> Whole(p)']
    <3>1. \A p : Whole(p)' = Whole(p)
      BY <2>1 DEF Whole
    <3> QED
      BY <2>3, <3>1 DEF Wholes
  <2> QED
    BY <2>7, <2>10, <2>11 DEF HandledInOrder
<1>7. CASE Bind \/ Refill \/ Quit \/ StoreHandle \/ Close \/ Joined \/ UNCHANGED vars
  <2>1. UNCHANGED <<lengths, content, events, evs, handled>>
    BY <1>7 DEF Bind, Refill, Quit, StoreHandle, Close, Joined, vars, card
  <2> QED
    BY <1>3, <2>1
<1> QED
  BY <1>4, <1>5, <1>6, <1>7 DEF Next, Worker

\* The messages are handled once each, in the order of their arrival and with
\* the content that came, whatever the buffers are used for again.
THEOREM HandlesInOrder == Spec => []HandledInOrder
<1>1. Init => OrderInv /\ HandledInOrder
  BY InitOrder
<1>2. RingInv /\ OrderInv /\ HandledInOrder /\ [Next]_vars => OrderInv' /\ HandledInOrder'
  BY StepOrder
<1> QED
  BY <1>1, <1>2, RingHolds, PTL DEF Spec
=============================================================================
