---------------------------- MODULE StockCompute -----------------------------
(***************************************************************************)
(* One StockCompute, in the build that replays a recorded day: its book of *)
(* sell orders near the limit price, its snapshots of one step each, and   *)
(* its predictions.  Only the compute thread touches it; in each cycle     *)
(* that thread clears approachingLimitUp, hands over ticks, and may make a *)
(* round of predictions.                                                   *)
(*                                                                         *)
(* A prediction runs on the state itself: it is saved, carried on to the   *)
(* future time as if every sell order of the book was bought, judged, and  *)
(* restored.  Each turn of a loop is a step.                               *)
(*                                                                         *)
(* Prices matter where they reach upperLimitPriceApproach: a price is "far"*)
(* or "near", and the limit price is near.  The filter of IIRState is      *)
(* represented by the volumes it was fed, and the model by its verdict.    *)
(***************************************************************************)
EXTENDS Timestamp, Sequences, FiniteSets, Functions

CONSTANTS
  Order,       \* order numbers
  NearOrder,   \* the orders to sell at upperLimitPriceApproach or above
  Quantity,    \* the quantities of orders and trades
  Times,       \* the timestamps of trades
  MaxTicks     \* bound: the ticks handled

ASSUME OrderAssumption == NearOrder \subseteq Order
ASSUME QuantityAssumption == Quantity \subseteq Nat \ {0}
\* No trade is within an hour of midnight.
LastHour == 230000000
ASSUME TimesAssumption == Times \subseteq 0 .. LastHour - 1
ASSUME MaxTicksAssumption == MaxTicks \in Nat

VARIABLES
  pc,                   \* where the compute thread is with this stock
  alive,
  approachingLimitUp,
  fState,               \* the state the snapshots are taken of
  bState,               \* the copy that saveSnapshot makes
  upSellOrders,         \* the open quantity of each sell order of the book
  trade,                \* the last trade, the one addRealTrade is adding
  futureTimestamp,      \* the time of the next prediction
  firstCompute,
  calls,                \* the calls of onApproach that this cycle still makes
  pushed,               \* ghost: the times predicted for in this cycle
  open,                 \* ghost: what is open of each order on the exchange
  traded,               \* ghost: the volume traded since the opening
  ticks                 \* how many ticks were handled

bookVars == <<upSellOrders, open>>
futureVars == <<futureTimestamp, firstCompute, calls, pushed>>
vars == <<pc, alive, approachingLimitUp, fState, bState, bookVars, trade,
          futureVars, traded, ticks>>

Opening == 93000000
NoSnapshot == [near |-> FALSE, numTrades |-> 0, volume |-> 0]
NoTrade == [time |-> 0, near |-> FALSE, quantity |-> 0]

\* StockCompute::start for a stock that is watched.
Init ==
  /\ pc = "cycle" /\ alive = TRUE /\ approachingLimitUp = FALSE
  /\ fState = [nextTickTimestamp |-> Opening, currSnapshot |-> NoSnapshot,
               snapshots |-> <<>>, iirState |-> <<>>]
  /\ bState = [nextTickTimestamp |-> 0, currSnapshot |-> NoSnapshot,
               oldSnapshotsCount |-> 0, iirState |-> <<>>]
  /\ upSellOrders = <<>>
  /\ trade = NoTrade
  /\ futureTimestamp = Opening /\ firstCompute = FALSE
  /\ calls = 0 /\ pushed = <<>>
  /\ open = <<>> /\ traded = 0 /\ ticks = 0

-----------------------------------------------------------------------------
(***************************************************************************)
(* The helpers.                                                            *)
(***************************************************************************)

\* IIRState::addVolumeTick counts the first volume as none.
addVolumeTick(fed, volume) == Append(fed, IF fed = <<>> THEN 0 ELSE volume)

\* Mutant of stepSnapshot: the new interval goes on with the volume of the old.
stepSnapshotKeepsVolume(f) ==
  [f EXCEPT !.iirState = addVolumeTick(@, f.currSnapshot.volume),
            !.snapshots = Append(@, f.currSnapshot)]

stepSnapshot(f) ==
  [f EXCEPT !.iirState = addVolumeTick(@, f.currSnapshot.volume),
            !.snapshots = Append(@, f.currSnapshot),
            !.currSnapshot = [@ EXCEPT !.numTrades = 0, !.volume = 0]]

\* One turn of stepSnapshotUntil.
Stepped(f) ==
  [stepSnapshot(f) EXCEPT !.nextTickTimestamp = timestampAdvance100ms(@)]

Added(snapshot, near, numTrades, volume) ==
  [near |-> near, numTrades |-> snapshot.numTrades + numTrades,
   volume |-> snapshot.volume + volume]

\* saveSnapshot: the filter is copied and the two are swapped.
Saved(f) ==
  [nextTickTimestamp |-> f.nextTickTimestamp, currSnapshot |-> f.currSnapshot,
   oldSnapshotsCount |-> Len(f.snapshots), iirState |-> f.iirState]

\* Mutant of Restored: the filter keeps what it was fed for the prediction.
RestoredButFilter(f, b) ==
  [f EXCEPT !.nextTickTimestamp = b.nextTickTimestamp,
            !.currSnapshot = b.currSnapshot,
            !.snapshots = SubSeq(@, 1, b.oldSnapshotsCount)]

\* Mutant of Restored: the snapshots of the prediction stay.
RestoredUntrimmed(f, b) ==
  [nextTickTimestamp |-> b.nextTickTimestamp, currSnapshot |-> b.currSnapshot,
   snapshots |-> f.snapshots, iirState |-> b.iirState]

\* restoreSnapshot.
Restored(f, b) ==
  [nextTickTimestamp |-> b.nextTickTimestamp, currSnapshot |-> b.currSnapshot,
   snapshots |-> SubSeq(f.snapshots, 1, b.oldSnapshotsCount),
   iirState |-> b.iirState]

Without(book, o) == [p \in DOMAIN book \ {o} |-> book[p]]
With(book, o, quantity) ==
  [p \in DOMAIN book \cup {o} |-> IF p = o THEN quantity ELSE book[p]]

\* Mutant of Executed: an order executed in full stays, with nothing open.
ExecutedKept(book, o, quantity) ==
  IF o \notin DOMAIN book THEN book
  ELSE IF book[o] >= quantity THEN With(book, o, book[o] - quantity)
  ELSE Without(book, o)

\* What is left of the book when an order is executed for a quantity.
Executed(book, o, quantity) ==
  IF o \notin DOMAIN book THEN book
  ELSE IF book[o] > quantity THEN With(book, o, book[o] - quantity)
  ELSE Without(book, o)

-----------------------------------------------------------------------------
(***************************************************************************)
(* onTick.  What the exchange may report is in the guards over open: an    *)
(* order number is used once, no more is traded than is open, and nothing  *)
(* is sold below its price.  An order that trades on arrival is reported   *)
(* after those trades, with what is left of it.  The recording is sorted   *)
(* by time.                                                                *)
(***************************************************************************)
Tick ==
  /\ pc = "tick" /\ alive
  /\ ticks < MaxTicks
  /\ ticks' = ticks + 1

\* The order of a buyer, or one far from the limit price, is not kept.
OnOrder(o, quantity) ==
  /\ Tick
  /\ o \notin DOMAIN open
  /\ open' = With(open, o, quantity)
  /\ upSellOrders' =
       IF o \in NearOrder /\ o \notin DOMAIN upSellOrders
       THEN With(upSellOrders, o, quantity) ELSE upSellOrders
  /\ UNCHANGED <<pc, alive, approachingLimitUp, fState, bState, trade, futureVars, traded>>

OnCancel(o) ==
  /\ Tick
  /\ o \in DOMAIN open /\ open[o] > 0
  /\ open' = [open EXCEPT ![o] = 0]
  /\ upSellOrders' = Without(upSellOrders, o)
  /\ UNCHANGED <<pc, alive, approachingLimitUp, fState, bState, trade, futureVars, traded>>

Sale(o, time, near, quantity) ==
  /\ o \in DOMAIN open => open[o] >= quantity
  /\ o \in NearOrder => near
  /\ time >= trade.time
  /\ open' = IF o \in DOMAIN open THEN [open EXCEPT ![o] = @ - quantity] ELSE open
  /\ trade' = [time |-> time, near |-> near, quantity |-> quantity]

\* Mutant of OnTrade: a trade of the opening call leaves the book alone.
OnTradeOpeningSkipped(o, time, near, quantity) ==
  /\ Tick
  /\ Sale(o, time, near, quantity)
  /\ IF time < Opening
     THEN /\ fState' = [fState EXCEPT !.currSnapshot.near = near]
          /\ UNCHANGED <<pc, approachingLimitUp, traded, upSellOrders>>
     ELSE /\ upSellOrders' = Executed(upSellOrders, o, quantity)
          /\ approachingLimitUp' = (approachingLimitUp \/ near)
          /\ traded' = traded + quantity
          /\ pc' = "addRealTrade"
          /\ UNCHANGED fState
  /\ UNCHANGED <<alive, bState, futureVars>>

\* A trade of the opening call at 9:25 only sets the price.
OnTrade(o, time, near, quantity) ==
  /\ Tick
  /\ Sale(o, time, near, quantity)
  /\ upSellOrders' = Executed(upSellOrders, o, quantity)
  /\ IF time < Opening
     THEN /\ fState' = [fState EXCEPT !.currSnapshot.near = near]
          /\ UNCHANGED <<pc, approachingLimitUp, traded>>
     ELSE /\ approachingLimitUp' = (approachingLimitUp \/ near)
          /\ traded' = traded + quantity
          /\ pc' = "addRealTrade"
          /\ UNCHANGED fState
  /\ UNCHANGED <<alive, bState, futureVars>>

\* addRealTrade: stepSnapshotUntil, then the trade.
StepForTrade ==
  /\ pc = "addRealTrade"
  /\ trade.time > fState.nextTickTimestamp
  /\ fState' = Stepped(fState)
  /\ UNCHANGED <<pc, alive, approachingLimitUp, bState, bookVars, trade,
                 futureVars, traded, ticks>>

AddTrade ==
  /\ pc = "addRealTrade"
  /\ trade.time <= fState.nextTickTimestamp
  /\ fState' = [fState EXCEPT !.currSnapshot = Added(@, trade.near, 1, trade.quantity)]
  /\ pc' = "tick"
  /\ UNCHANGED <<alive, approachingLimitUp, bState, bookVars, trade, futureVars, traded, ticks>>

\* The end sign.
OnEnd ==
  /\ Tick
  /\ alive' = FALSE
  /\ approachingLimitUp' = FALSE
  /\ UNCHANGED <<pc, fState, bState, bookVars, trade, futureVars, traded>>

-----------------------------------------------------------------------------
(***************************************************************************)
(* The cycle of the compute thread.                                        *)
(***************************************************************************)
ClearApproach ==
  /\ pc = "cycle"
  /\ approachingLimitUp' = FALSE
  /\ pushed' = <<>>
  /\ pc' = "tick"
  /\ UNCHANGED <<alive, fState, bState, bookVars, trade, futureTimestamp,
                 firstCompute, calls, traded, ticks>>

\* Mutant of CheckApproach: a round goes on from where the last one ended.
CheckApproachStale(places) ==
  /\ pc = "tick"
  /\ approachingLimitUp
  /\ firstCompute' = TRUE
  /\ calls' = places
  /\ pc' = IF places = 0 THEN "cycle" ELSE "saveSnapshot"
  /\ UNCHANGED <<alive, approachingLimitUp, fState, bState, bookVars, trade,
                 futureTimestamp, pushed, traded, ticks>>

\* onApproach is called for each place that the stock has among those to
\* predict for: one, or when too many approach, none, one or both (Channel).
CheckApproach(places) ==
  /\ pc = "tick"
  /\ approachingLimitUp
  /\ futureTimestamp' = fState.nextTickTimestamp
  /\ firstCompute' = TRUE
  /\ calls' = places
  /\ pc' = IF places = 0 THEN "cycle" ELSE "saveSnapshot"
  /\ UNCHANGED <<alive, approachingLimitUp, fState, bState, bookVars, trade,
                 pushed, traded, ticks>>

EndCycle ==
  /\ pc = "tick"
  /\ ~approachingLimitUp
  /\ pc' = "cycle"
  /\ UNCHANGED <<alive, approachingLimitUp, fState, bState, bookVars, trade,
                 futureVars, traded, ticks>>

\* computeFutureWantBuy.
SaveSnapshot ==
  /\ pc = "saveSnapshot"
  /\ bState' = Saved(fState)
  /\ pc' = "stepToFuture"
  /\ UNCHANGED <<alive, approachingLimitUp, fState, bookVars, trade, futureVars, traded, ticks>>

StepToFuture ==
  /\ pc = "stepToFuture"
  /\ futureTimestamp > fState.nextTickTimestamp
  /\ fState' = Stepped(fState)
  /\ UNCHANGED <<pc, alive, approachingLimitUp, bState, bookVars, trade,
                 futureVars, traded, ticks>>

BuyUpSellOrders ==
  /\ pc = "stepToFuture"
  /\ futureTimestamp <= fState.nextTickTimestamp
  /\ LET sold == Added(fState.currSnapshot, TRUE,
                       Cardinality(DOMAIN upSellOrders), SumFunction(upSellOrders))
     IN  fState' = stepSnapshot([fState EXCEPT !.currSnapshot = sold])
  /\ pc' = "decideWantBuy"
  /\ UNCHANGED <<alive, approachingLimitUp, bState, bookVars, trade, futureVars, traded, ticks>>

\* The verdict goes to the WantCache, which does not concern the state here.
\* The first call of a round goes on to the second time.
DecideWantBuy ==
  /\ pc = "decideWantBuy"
  /\ pushed' = Append(pushed, futureTimestamp)
  /\ fState' = Restored(fState, bState)
  /\ bState' = [bState EXCEPT !.iirState = fState.iirState]
  /\ futureTimestamp' = timestampAdvance100ms(futureTimestamp)
  /\ firstCompute' = FALSE
  /\ calls' = IF firstCompute THEN calls ELSE calls - 1
  /\ pc' = IF calls' > 0 THEN "saveSnapshot" ELSE "cycle"
  /\ UNCHANGED <<alive, approachingLimitUp, bookVars, trade, traded, ticks>>

Next ==
  \/ \E o \in Order :
       \/ \E quantity \in Quantity : OnOrder(o, quantity)
       \/ OnCancel(o)
       \/ \E time \in Times, near \in BOOLEAN, quantity \in Quantity :
            OnTrade(o, time, near, quantity)
  \/ StepForTrade \/ AddTrade \/ OnEnd
  \/ ClearApproach \/ EndCycle
  \/ \E places \in 0 .. 2 : CheckApproach(places)
  \/ SaveSnapshot \/ StepToFuture \/ BuyUpSellOrders \/ DecideWantBuy

Spec == Init /\ [][Next]_vars

-----------------------------------------------------------------------------
(***************************************************************************)
(* The type invariant.  No order of the book is without quantity, as       *)
(* onTrade erases it at the last one.                                      *)
(***************************************************************************)
Snapshot == [near : BOOLEAN, numTrades : Nat, volume : Nat]

TypeOK ==
  /\ pc \in {"cycle", "tick", "addRealTrade", "saveSnapshot", "stepToFuture", "decideWantBuy"}
  /\ alive \in BOOLEAN /\ approachingLimitUp \in BOOLEAN
  /\ fState \in [nextTickTimestamp : Nat, currSnapshot : Snapshot,
                 snapshots : Seq(Snapshot), iirState : Seq(Nat)]
  /\ bState \in [nextTickTimestamp : Nat, currSnapshot : Snapshot,
                 oldSnapshotsCount : Nat, iirState : Seq(Nat)]
  /\ DOMAIN upSellOrders \subseteq Order
  /\ upSellOrders \in [DOMAIN upSellOrders -> Nat \ {0}]
  /\ DOMAIN open \subseteq Order /\ open \in [DOMAIN open -> Nat]
  /\ trade \in [time : Nat, near : BOOLEAN, quantity : Nat]
  /\ futureTimestamp \in Nat /\ firstCompute \in BOOLEAN
  /\ calls \in 0 .. 2 /\ pushed \in Seq(Nat)
  /\ traded \in Nat /\ ticks \in 0 .. MaxTicks

(***************************************************************************)
(* The state holds what really happened, and no prediction is on it.       *)
(***************************************************************************)
Real == pc \in {"cycle", "tick", "addRealTrade", "saveSnapshot"}

\* There is one snapshot for each step from the opening to the current time, so
\* that what the factors take from the snapshots by position is of the time
\* they mean: no prediction leaves one behind or takes one away.
SnapshotClock ==
  Real => timestampAbsLinear(fState.nextTickTimestamp) = Step * Len(fState.snapshots)

\* The filter was fed the volume of every snapshot, each once and in order,
\* after any number of predictions that fed it volumes which never came.
FilterInStep ==
  fState.iirState = [k \in DOMAIN fState.snapshots |->
                       IF k = 1 THEN 0 ELSE fState.snapshots[k].volume]

\* The volume of all snapshots and the current interval is what was traded.
Volumes(snapshots) == [k \in DOMAIN snapshots |-> snapshots[k].volume]

VolumeConserved ==
  Real =>
    SumFunction(Volumes(fState.snapshots)) + fState.currSnapshot.volume
      + (IF pc = "addRealTrade" THEN trade.quantity ELSE 0) = traded

\* Seen from the state that a restore brings back, a prediction is no step at
\* all, and the day is one of TradingClock: a snapshot for each step of its
\* clock, which starts at the opening and leaves no step out.
Kept == IF Real THEN fState ELSE Restored(fState, bState)

\* As many steps as end before midnight.
DaySteps == (Day - Open - Lunch) \div Step - 1

Clock == INSTANCE TradingClock WITH
           Steps <- DaySteps, nextTickTimestamp <- Kept.nextTickTimestamp,
           count <- Len(Kept.snapshots)

ImplementsClock == Clock!ClockSpec

\* A round of predictions begins with the current time and goes on step by
\* step: for no time that trades have passed, and without a gap.  It is of two
\* times, and of a third if the stock has both places of the cycle.
RoundWithoutGap ==
  LET now == fState.nextTickTimestamp
      after == timestampAdvance100ms(now)
  IN  pc = "cycle" =>
        pushed \in {<<>>, <<now, after>>, <<now, after, timestampAdvance100ms(after)>>}

\* The book holds of an order what is open of it on the exchange, through the
\* opening call, partial executions and cancels, and nothing of a closed one.
BookMatchesExchange ==
  upSellOrders = [o \in {p \in NearOrder \cap DOMAIN open : open[p] > 0} |-> open[o]]

=============================================================================
