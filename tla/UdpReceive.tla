------------------------------ MODULE UdpReceive ------------------------------
(***************************************************************************)
(* The receiver of one multicast channel in the OST build                  *)
(* (ostmd/efvi_receive_base.cpp).                                          *)
(*                                                                         *)
(* The network card writes each packet into a buffer that was posted to    *)
(* its receive ring and reports it as an event.  The receive thread polls  *)
(* the events, hands the packets to process_packet, puts the buffers on a  *)
(* free list, and posts a batch of free buffers again.  A buffer on none   *)
(* of these ways is lost for good, and a ring with no posted buffer is     *)
(* deaf: the thread posts only after an event.                             *)
(*                                                                         *)
(* The card, its ring and its event queue (ef_vi) are external.  Events    *)
(* that carry no buffer do not occur on a queue that only receives.        *)
(***************************************************************************)
EXTENDS Naturals, Sequences, SequencesExt

CONSTANTS
  Capacity,    \* pkt_bufs_n: the places of the ring, and as many buffers
  Batch,       \* REFILL_BATCH_SIZE
  PollMax,     \* the size of evs
  QuoteSize,   \* sizeof(Quote), for the channels with messages of one size
  Lengths,     \* the lengths a packet may have
  MaxPackets   \* bound: the packets that arrive

ASSUME SizeAssumption == Capacity \in Nat /\ Batch \in Nat \ {0} /\ Capacity > Batch
ASSUME PollAssumption == PollMax \in Nat \ {0}
ASSUME QuoteAssumption == QuoteSize \in Nat \ {0} /\ Lengths \subseteq Nat
ASSUME MaxPacketsAssumption == MaxPackets \in Nat

VARIABLES
  main,      \* "storing" the handle of the thread, "running", "joining", "closed"
  worker,    \* "binding", "polling", "handling", "ended", "crashed"
  quit,      \* m_receive_quit_flag
  free,      \* free_pkt_bufs, the top first
  posted,    \* the buffers the card may write to, the next one first
  events,    \* the event queue of the card
  evs,       \* the polled events not handled yet
  content,   \* the packet in each buffer, by number
  lengths,   \* the packets that arrived: their lengths
  handled    \* ghost: the messages handled, <<packet, message>>

card == <<posted, events, content, lengths>>
vars == <<main, worker, quit, free, card, evs, handled>>

Buffer == 0 .. Capacity - 1
Event == [buf : Buffer, kind : {"rx", "discard"}]

\* Every buffer is freed, then batches are posted while more than a batch of
\* places is left.  The thread exists; its handle is not stored yet.
Init ==
  LET all == [i \in 1 .. Capacity |-> Capacity - i]
      filled == ((Capacity - 1) \div Batch) * Batch
  IN  /\ main = "storing" /\ worker = "binding" /\ quit = FALSE
      /\ posted = SubSeq(all, 1, filled) /\ free = SubSeq(all, filled + 1, Capacity)
      /\ events = <<>> /\ evs = <<>>
      /\ content = [b \in Buffer |-> 0] /\ lengths = <<>>
      /\ handled = <<>>

-----------------------------------------------------------------------------
(***************************************************************************)
(* The card.  With no buffer posted it drops the packet.                   *)
(***************************************************************************)
Arrive(len, kind) ==
  /\ posted # <<>> /\ Len(lengths) < MaxPackets
  /\ lengths' = Append(lengths, len)
  /\ content' = [content EXCEPT ![Head(posted)] = Len(lengths) + 1]
  /\ events' = Append(events, [buf |-> Head(posted), kind |-> kind])
  /\ posted' = Tail(posted)
  /\ UNCHANGED <<main, worker, quit, free, evs, handled>>

-----------------------------------------------------------------------------
(***************************************************************************)
(* The receive thread: work_thread.                                        *)
(***************************************************************************)
\* bind_thread(*m_recv_thread) may run before the constructor's caller has
\* stored the pointer it dereferences.
Bind ==
  /\ worker = "binding"
  /\ worker' = IF main = "storing" THEN "crashed" ELSE "polling"
  /\ UNCHANGED <<main, quit, free, card, evs, handled>>

\* Mutant of Poll: it waits until evs can be filled.
PollFull ==
  /\ worker = "polling" /\ ~quit
  /\ Len(events) >= PollMax
  /\ evs' = SubSeq(events, 1, PollMax)
  /\ events' = SubSeq(events, PollMax + 1, Len(events))
  /\ worker' = "handling"
  /\ UNCHANGED <<main, quit, free, posted, content, lengths, handled>>

\* An empty poll changes nothing.
Poll ==
  /\ worker = "polling" /\ ~quit
  /\ \E k \in 1 .. PollMax :
       /\ k <= Len(events)
       /\ evs' = SubSeq(events, 1, k)
       /\ events' = SubSeq(events, k + 1, Len(events))
  /\ worker' = "handling"
  /\ UNCHANGED <<main, quit, free, posted, content, lengths, handled>>

\* process_packet of a channel with messages of one size: a loop that ends
\* where less than a message is left, entered only with one message at least.
Messages(p) ==
  IF lengths[p] < QuoteSize THEN <<>>
  ELSE [i \in 1 .. 1 + (lengths[p] - QuoteSize) \div QuoteSize |-> <<p, i>>]

\* Mutants of Handle: the last event first; a discarded packet is dropped and
\* its buffer with it.
HandleLast ==
  /\ worker = "handling" /\ evs # <<>>
  /\ handled' = handled \o Messages(content[Last(evs).buf])
  /\ free' = <<Last(evs).buf>> \o free
  /\ evs' = Front(evs)
  /\ UNCHANGED <<main, worker, quit, card>>

HandleDiscardLost ==
  /\ worker = "handling" /\ evs # <<>>
  /\ handled' = handled \o Messages(content[Head(evs).buf])
  /\ free' = IF Head(evs).kind = "rx" THEN <<Head(evs).buf>> \o free ELSE free
  /\ evs' = Tail(evs)
  /\ UNCHANGED <<main, worker, quit, card>>

\* A discarded packet is handled like any other (accept_discard_pkts).
Handle ==
  /\ worker = "handling" /\ evs # <<>>
  /\ handled' = handled \o Messages(content[Head(evs).buf])
  /\ free' = <<Head(evs).buf>> \o free
  /\ evs' = Tail(evs)
  /\ UNCHANGED <<main, worker, quit, card>>

\* ef_vi_receive_space: the ring counts a buffer until its event is polled.
Space == Capacity - Len(posted) - Len(events)

MayRefill == Space >= Batch /\ Len(free) >= Batch

\* Mutant of Refill: the buffers posted stay on the free list.
RefillKept ==
  /\ worker = "handling" /\ evs = <<>>
  /\ worker' = "polling"
  /\ posted' = IF MayRefill THEN posted \o SubSeq(free, 1, Batch) ELSE posted
  /\ UNCHANGED <<main, quit, free, events, content, lengths, evs, handled>>

\* refill_rx_ring, once for all events of a poll.
Refill ==
  /\ worker = "handling" /\ evs = <<>>
  /\ worker' = "polling"
  /\ IF MayRefill
     THEN /\ posted' = posted \o SubSeq(free, 1, Batch)
          /\ free' = SubSeq(free, Batch + 1, Len(free))
     ELSE UNCHANGED <<posted, free>>
  /\ UNCHANGED <<main, quit, events, content, lengths, evs, handled>>

Quit ==
  /\ worker = "polling" /\ quit
  /\ worker' = "ended"
  /\ UNCHANGED <<main, quit, free, card, evs, handled>>

-----------------------------------------------------------------------------
(***************************************************************************)
(* main: the end of init, and close.                                       *)
(***************************************************************************)
StoreHandle ==
  /\ main = "storing" /\ worker # "crashed"
  /\ main' = "running"
  /\ UNCHANGED <<worker, quit, free, card, evs, handled>>

Close ==
  /\ main = "running" /\ worker # "crashed"
  /\ quit' = TRUE
  /\ main' = "joining"
  /\ UNCHANGED <<worker, free, card, evs, handled>>

Joined ==
  /\ main = "joining" /\ worker = "ended"
  /\ main' = "closed"
  /\ UNCHANGED <<worker, quit, free, card, evs, handled>>

Worker == Bind \/ Poll \/ Handle \/ Refill \/ Quit

Next ==
  \/ \E len \in Lengths, kind \in {"rx", "discard"} : Arrive(len, kind)
  \/ Worker
  \/ StoreHandle \/ Close \/ Joined

Spec == Init /\ [][Next]_vars

\* The receive thread polls without a pause; neither the card nor main owes
\* it anything, except that main finishes what it began.
FairSpec == Spec /\ WF_vars(Worker) /\ WF_vars(StoreHandle) /\ WF_vars(Joined)

-----------------------------------------------------------------------------
BufOf(s) == [i \in 1 .. Len(s) |-> s[i].buf]

\* Where the buffers are: free, posted, filled or being handled.
Places == free \o posted \o BufOf(events) \o BufOf(evs)

(***************************************************************************)
(* No buffer is lost and none is in two places: the card never writes to   *)
(* one that is being handled.  (pkt_buf_free, refill_rx_ring)              *)
(***************************************************************************)
BufferConserved ==
  /\ Len(Places) = Capacity
  /\ {Places[i] : i \in 1 .. Len(Places)} = Buffer

(***************************************************************************)
(* The ring is never dry for good.  Only an event leads to a refill, so a  *)
(* thread that polls an empty queue must have left a buffer to the card.   *)
(***************************************************************************)
NeverDry == worker = "polling" /\ events = <<>> => posted # <<>>

\* The packets whose events have been handled.
Done == Len(lengths) - Len(events) - Len(evs)

(***************************************************************************)
(* The messages are handled once each, in the order in which the packets   *)
(* arrived and in which they are in a packet, with the content that came.  *)
(***************************************************************************)
Whole(p) == [i \in {n \in 1 .. lengths[p] : n * QuoteSize <= lengths[p]} |-> <<p, i>>]

HandledInOrder == handled = FlattenSeq([p \in 1 .. Done |-> Whole(p)])

(***************************************************************************)
(* A packet that the card accepted is handled, unless the receiver is      *)
(* closed first or did not survive its start.                              *)
(***************************************************************************)
PacketsHandled ==
  \A p \in 1 .. MaxPackets :
    (Len(lengths) >= p) ~> (Done >= p \/ quit \/ worker = "crashed")
=============================================================================
