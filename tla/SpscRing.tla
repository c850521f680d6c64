------------------------------ MODULE SpscRing -------------------------------
(***************************************************************************)
(* spsc_ring<T, N> of SPSC.h with the two operations the program uses:     *)
(* write_one, called by the market data thread (TickRing::pushTick), and   *)
(* read_some, called by one compute thread (TickRing::fetchSomeTicks).     *)
(*                                                                         *)
(* A position is a slot number in 0 .. N-1 instead of a pointer into       *)
(* m_ring_buffer.  Each load or store of m_write_pos and m_read_pos is a   *)
(* step of its own, and so is each access to a slot, so every interleaving *)
(* of the two threads is a behavior.  The acquire load and the release     *)
(* store of a position order the slot accesses around them: a step sees    *)
(* the effect of every step before it.                                     *)
(*                                                                         *)
(* The locals of a call that shadow a member (write_pos_local ...) are the *)
(* member itself here: only the thread that owns the member can tell them  *)
(* apart, and it writes them back before it returns.                       *)
(***************************************************************************)
EXTENDS Naturals, Sequences

CONSTANTS
  N,       \* the slots of the ring; one of them always stays empty
  Batch,   \* the size of the buffer read_some fills
  Tick,    \* the ticks that can be pushed
  NoTick   \* an unused slot, or no tick being pushed

ASSUME NAssumption == N \in Nat \ {0, 1}
ASSUME BatchAssumption == Batch \in Nat \ {0}
ASSUME NoTickAssumption == NoTick \notin Tick

VARIABLES
  write_pos,         \* m_write_pos: the first slot not published
  read_pos,          \* m_read_pos: the first slot not released
  ring_buffer,       \* m_ring_buffer
  write_pos_local,   \* m_write_pos_local, of the writer
  read_pos_cached,   \* m_read_pos_cached, of the writer
  wpc,               \* where the writer is in write_one
  value,             \* the argument of write_one, NoTick between calls
  read_pos_local,    \* m_read_pos_local, of the reader
  write_pos_cached,  \* m_write_pos_cached, of the reader
  rpc,               \* where the reader is in read_some
  buf                \* output_first ..: what this read_some, or the last, copied

writerVars == <<write_pos, write_pos_local, read_pos_cached, wpc, value>>
readerVars == <<read_pos, read_pos_local, write_pos_cached, rpc, buf>>
vars == <<writerVars, readerVars, ring_buffer>>

Slots == 0 .. N - 1

\* Mutant of Succ: the pointer runs past the last slot.
SuccNoWrap(p) == p + 1

\* The position after p: ++p, wrapping to the first slot.
Succ(p) == IF p + 1 = N THEN 0 ELSE p + 1

Init ==
  /\ write_pos = 0
  /\ read_pos = 0
  /\ ring_buffer = [p \in Slots |-> NoTick]
  /\ write_pos_local = 0
  /\ read_pos_cached = 0
  /\ wpc = "idle"
  /\ value = NoTick
  /\ read_pos_local = 0
  /\ write_pos_cached = 0
  /\ rpc = "idle"
  /\ buf = <<>>

-----------------------------------------------------------------------------
\* Mutant of WriteBegin: the ring is taken to have room.
WriteBeginUnchecked(t) ==
  /\ wpc = "idle"
  /\ value' = t
  /\ wpc' = "store"
  /\ UNCHANGED <<write_pos, write_pos_local, read_pos_cached, readerVars, ring_buffer>>

(***************************************************************************)
(* write_one: the writer looks at its own copy of the read position first, *)
(* and loads the real one only when the ring looks full.                   *)
(***************************************************************************)
WriteBegin(t) ==
  /\ wpc = "idle"
  /\ value' = t
  /\ wpc' = IF Succ(write_pos_local) = read_pos_cached THEN "reload" ELSE "store"
  /\ UNCHANGED <<write_pos, write_pos_local, read_pos_cached, readerVars, ring_buffer>>

\* Mutant of WriteReload: the fresh read position is not compared again.
WriteReloadUnchecked ==
  /\ wpc = "reload"
  /\ read_pos_cached' = read_pos
  /\ wpc' = "store"
  /\ UNCHANGED <<write_pos, value, write_pos_local, readerVars, ring_buffer>>

\* The acquire load.  If the ring is full the call publishes the position
\* it had published already and returns false: the tick is lost.
WriteReload ==
  /\ wpc = "reload"
  /\ read_pos_cached' = read_pos
  /\ IF Succ(write_pos_local) = read_pos
       THEN /\ write_pos' = write_pos_local
            /\ wpc' = "idle"
            /\ value' = NoTick
       ELSE /\ wpc' = "store"
            /\ UNCHANGED <<write_pos, value>>
  /\ UNCHANGED <<write_pos_local, readerVars, ring_buffer>>

WriteSlot ==
  /\ wpc = "store"
  /\ ring_buffer' = [ring_buffer EXCEPT ![write_pos_local] = value]
  /\ wpc' = "publish"
  /\ UNCHANGED <<write_pos, write_pos_local, read_pos_cached, value, readerVars>>

\* The release store; write_one returns true.
WritePublish ==
  /\ wpc = "publish"
  /\ write_pos' = Succ(write_pos_local)
  /\ write_pos_local' = Succ(write_pos_local)
  /\ wpc' = "idle"
  /\ value' = NoTick
  /\ UNCHANGED <<read_pos_cached, readerVars, ring_buffer>>

-----------------------------------------------------------------------------
(***************************************************************************)
(* read_some: copies slots up to its own copy of the write position, loads *)
(* the real one when it gets there, and releases every slot it has copied  *)
(* with one store at the end.                                              *)
(***************************************************************************)
ReadBegin ==
  /\ rpc = "idle"
  /\ rpc' = "loop"
  /\ buf' = <<>>
  /\ UNCHANGED <<writerVars, read_pos, read_pos_local, write_pos_cached, ring_buffer>>

\* Mutant of ReadReload: the reader gives up without looking at the real
\* write position.
ReadReloadNever ==
  /\ rpc = "loop"
  /\ Len(buf) < Batch
  /\ read_pos_local = write_pos_cached
  /\ write_pos_cached' = write_pos
  /\ rpc' = "break"
  /\ UNCHANGED <<writerVars, read_pos, read_pos_local, buf, ring_buffer>>

ReadReload ==
  /\ rpc = "loop"
  /\ Len(buf) < Batch
  /\ read_pos_local = write_pos_cached
  /\ write_pos_cached' = write_pos
  /\ rpc' = IF read_pos_local = write_pos THEN "break" ELSE "loop"
  /\ UNCHANGED <<writerVars, read_pos, read_pos_local, buf, ring_buffer>>

ReadSlot ==
  /\ rpc = "loop"
  /\ Len(buf) < Batch
  /\ read_pos_local # write_pos_cached
  /\ buf' = Append(buf, ring_buffer[read_pos_local])
  /\ read_pos_local' = Succ(read_pos_local)
  /\ UNCHANGED <<writerVars, read_pos, write_pos_cached, rpc, ring_buffer>>

\* Mutant of ReadRelease: the slots that were copied are not released.
ReadReleaseLost ==
  /\ rpc = "break" \/ (rpc = "loop" /\ Len(buf) = Batch)
  /\ rpc' = "idle"
  /\ UNCHANGED <<writerVars, read_pos, read_pos_local, write_pos_cached, buf, ring_buffer>>

\* The release store; read_some returns.
ReadRelease ==
  /\ rpc = "break" \/ (rpc = "loop" /\ Len(buf) = Batch)
  /\ read_pos' = read_pos_local
  /\ rpc' = "idle"
  /\ UNCHANGED <<writerVars, read_pos_local, write_pos_cached, buf, ring_buffer>>

-----------------------------------------------------------------------------
Write == (\E t \in Tick : WriteBegin(t)) \/ WriteReload \/ WriteSlot \/ WritePublish

Read == ReadBegin \/ ReadReload \/ ReadSlot \/ ReadRelease

Next == Write \/ Read

Spec == Init /\ [][Next]_vars

\* A compute thread fetches again and again until it is asked to stop
\* (computeThreadMain); nothing makes the market data thread push.
FairSpec == Spec /\ WF_vars(Read)

-----------------------------------------------------------------------------
TypeOK ==
  /\ {write_pos, read_pos, write_pos_local, read_pos_local} \subseteq Slots
  /\ {read_pos_cached, write_pos_cached} \subseteq Slots
  /\ ring_buffer \in [Slots -> Tick \cup {NoTick}]
  /\ wpc \in {"idle", "reload", "store", "publish"}
  /\ value \in Tick \cup {NoTick}
  /\ wpc # "idle" => value \in Tick
  /\ rpc \in {"idle", "loop", "break"}
  /\ buf \in Seq(Tick \cup {NoTick})
  /\ Len(buf) <= Batch

\* How many slots the ring walks from p to reach q.
Dist(p, q) == IF p <= q THEN q - p ELSE q + N - p

(***************************************************************************)
(* The order of the positions around the ring.  What the writer believes   *)
(* was released is released, what the reader believes was published is     *)
(* published, and the reader stays between the two.                        *)
(***************************************************************************)
PositionOrder ==
  /\ write_pos = write_pos_local
  /\ Dist(read_pos_cached, read_pos) <= Dist(read_pos_cached, read_pos_local)
  /\ Dist(read_pos_cached, read_pos_local) <= Dist(read_pos_cached, write_pos_cached)
  /\ Dist(read_pos_cached, write_pos_cached) <= Dist(read_pos_cached, write_pos)
  /\ wpc \in {"store", "publish"} => Succ(write_pos_local) # read_pos_cached

(***************************************************************************)
(* A call in progress agrees with the ring: the slot about to be published *)
(* holds the tick of the call, and a fetch has copied exactly the slots    *)
(* between the read position and its own.                                  *)
(***************************************************************************)
CallsConsistent ==
  /\ wpc = "idle" <=> value = NoTick
  /\ wpc = "publish" => ring_buffer[write_pos_local] = value
  /\ rpc = "idle" => read_pos = read_pos_local
  /\ rpc # "idle" => Dist(read_pos, read_pos_local) = Len(buf)
  /\ rpc = "break" => Len(buf) < Batch

(***************************************************************************)
(* No slot is read while it is being written.  A tick is a structure of    *)
(* many words: a copy that overlaps the store would be torn.               *)
(***************************************************************************)
WritingSlot(p) == wpc = "store" /\ write_pos_local = p

ReadingSlot(p) ==
  /\ rpc = "loop" /\ Len(buf) < Batch
  /\ read_pos_local # write_pos_cached
  /\ read_pos_local = p

NoSlotRace == \A p \in Slots : ~(WritingSlot(p) /\ ReadingSlot(p))

(***************************************************************************)
(* The ring is a bounded FIFO of N - 1 ticks: nothing accepted is lost,    *)
(* duplicated, reordered or overwritten, a push is refused only when the   *)
(* ring is full, and a fetch is short only when the ring is empty.         *)
(***************************************************************************)
Plus(p, k) == IF p + k < N THEN p + k ELSE p + k - N

\* The slots of buffer b from position p up to position q.
Contents(b, p, q) == [k \in 1 .. Dist(p, q) |-> b[Plus(p, k - 1)]]

Fifo == INSTANCE BoundedFifo WITH
  Capacity <- N - 1,
  held     <- Contents(ring_buffer, read_pos, write_pos),
  offer    <- value,
  fetching <- rpc # "idle",
  drained  <- rpc = "break"

ImplementsFifo == Fifo!Spec

(***************************************************************************)
(* Every published tick is fetched and its slot released, however slow the *)
(* writer is and whether or not it ever comes back.                        *)
(***************************************************************************)
Occupied(p) == Dist(read_pos, p) < Dist(read_pos, write_pos)

EverySlotReleased == \A p \in Slots : Occupied(p) ~> ~Occupied(p)
=============================================================================
