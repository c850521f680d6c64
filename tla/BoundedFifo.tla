----------------------------- MODULE BoundedFifo -----------------------------
(***************************************************************************)
(* What a tick ring promises the thread that pushes and the thread that    *)
(* fetches, with no slots, positions or cached copies of positions.        *)
(*                                                                         *)
(*  - A push is accepted or refused, and it is refused only at a moment    *)
(*    when Capacity ticks are accepted and not yet released.               *)
(*  - A fetch returns the oldest accepted ticks in the order they were     *)
(*    accepted, at most Batch of them, and returns fewer only if it has    *)
(*    seen that there is no other.                                         *)
(*  - The places of the ticks of a fetch are released all at once, when    *)
(*    the fetch returns.                                                   *)
(***************************************************************************)
EXTENDS Naturals, Sequences

CONSTANTS
  Tick,      \* the values a push may offer
  NoTick,    \* no push is in progress
  Capacity,  \* how many ticks can be held
  Batch      \* how many ticks one fetch returns at most

VARIABLES
  held,      \* the ticks accepted and not yet released, oldest first
  offer,     \* the tick of the push in progress, or NoTick
  fetching,  \* a fetch is in progress
  drained,   \* that fetch has seen that no tick is left for it
  buf        \* what that fetch, or else the last one, has copied

vars == <<held, offer, fetching, drained, buf>>

Init ==
  /\ held = <<>>
  /\ offer = NoTick
  /\ fetching = FALSE
  /\ drained = FALSE
  /\ buf = <<>>

-----------------------------------------------------------------------------
Offer(t) ==
  /\ offer = NoTick
  /\ offer' = t
  /\ UNCHANGED <<held, fetching, drained, buf>>

Accept ==
  /\ offer # NoTick
  /\ Len(held) < Capacity
  /\ held' = Append(held, offer)
  /\ offer' = NoTick
  /\ UNCHANGED <<fetching, drained, buf>>

Refuse ==
  /\ offer # NoTick
  /\ Len(held) = Capacity
  /\ offer' = NoTick
  /\ UNCHANGED <<held, fetching, drained, buf>>

Fetch ==
  /\ ~fetching
  /\ fetching' = TRUE
  /\ buf' = <<>>
  /\ UNCHANGED <<held, offer, drained>>

Copy ==
  /\ fetching
  /\ ~drained
  /\ Len(buf) < Batch
  /\ Len(buf) < Len(held)
  /\ buf' = Append(buf, held[Len(buf) + 1])
  /\ UNCHANGED <<held, offer, fetching, drained>>

SeeDrained ==
  /\ fetching
  /\ ~drained
  /\ Len(buf) < Batch
  /\ Len(buf) = Len(held)
  /\ drained' = TRUE
  /\ UNCHANGED <<held, offer, fetching, buf>>

Return ==
  /\ fetching
  /\ drained \/ Len(buf) = Batch
  /\ held' = SubSeq(held, Len(buf) + 1, Len(held))
  /\ fetching' = FALSE
  /\ drained' = FALSE
  /\ UNCHANGED <<offer, buf>>

Next ==
  \/ \E t \in Tick : Offer(t)
  \/ Accept
  \/ Refuse
  \/ Fetch
  \/ Copy
  \/ SeeDrained
  \/ Return

Spec == Init /\ [][Next]_vars
=============================================================================
