------------------------------- MODULE Channel -------------------------------
(***************************************************************************)
(* The program around one compute channel, in the build that replays a     *)
(* recorded day (REPLAY): the stocks of the channel, their tick ring and   *)
(* the three threads that share them.                                      *)
(*                                                                         *)
(*  - main starts everything, waits for the end of the recording, for      *)
(*    which SIGINT can ask, and takes everything down (MDD::start,         *)
(*    MDD::stop, main).                                                    *)
(*  - The market data thread hands each tick of the recording to           *)
(*    StockState::onTick, which pushes it to the ring, or, at the limit    *)
(*    price, buys or not and closes the stock with an end sign.            *)
(*  - The compute thread fetches the ticks, and once in each cycle makes   *)
(*    predictions for the stocks that approach their limit price           *)
(*    (computeThreadMain, StockCompute).                                   *)
(*                                                                         *)
(* The trade api of the replay keeps no state: it answers an order at      *)
(* once, and the answer is logged.                                         *)
(*                                                                         *)
(* The ring is the bounded FIFO that SpscRing implements.  A prediction is *)
(* to buy or not to buy, and a look-up finds one to buy only if one was    *)
(* made (WantCache).                                                       *)
(***************************************************************************)
EXTENDS Naturals, Sequences, FiniteSets

CONSTANTS
  Stock,      \* the stocks of the channel
  Capacity,   \* the ticks the ring holds
  Batch,      \* the size of tickBuf
  MaxApproach,\* the approaching stocks of a cycle that are all predicted for
  Kept,       \* how many places are kept when more approach
  MaxTicks    \* bound: the ticks in the recording

ASSUME StockAssumption == IsFiniteSet(Stock)
ASSUME CapacityAssumption == Capacity \in Nat \ {0}
ASSUME BatchAssumption == Batch \in Nat \ {0}
ASSUME KeptAssumption ==
  MaxApproach \in Nat /\ Kept \in Nat \ {0} /\ Kept <= MaxApproach
ASSUME MaxTicksAssumption == MaxTicks \in Nat

VARIABLES
  main,           \* where main is
  starting,       \* the stocks whose StockCompute main has yet to start
  mds,            \* where the market data thread is
  mdsStop,        \* its stop was requested
  published,      \* how many ticks it has published
  alive,          \* the stocks with StockState::alive
  orders,         \* how many buy orders were sent for each stock
  ring,           \* the tick ring
  lostEnds,       \* ghost: the stocks whose end sign met a full ring
  compute,        \* where the compute thread is
  computeStop,    \* its stop was requested
  tickBuf,        \* the ticks it has fetched and not handled
  computeAlive,   \* the stocks with StockCompute::alive
  approaching,    \* the stocks with approachingLimitUp
  chosen,         \* approachStockIds: the stocks still to predict for
  wantBuy         \* the stocks with a prediction to buy in their cache

mainVars == <<main, starting>>
mdsVars == <<mds, mdsStop, published>>
stateVars == <<alive, orders, lostEnds>>
threadVars == <<compute, computeStop, tickBuf>>
computeVars == <<computeAlive, approaching, chosen, wantBuy>>
vars == <<mainVars, mdsVars, stateVars, ring, threadVars, computeVars>>

\* A tick is a trade near the limit price, anything else that is not at the
\* limit price, or the end sign.
Tick == [stock : Stock, kind : {"approach", "other", "end"}]
EndSign(s) == [stock |-> s, kind |-> "end"]

Init ==
  /\ main = "receive" /\ starting = {}
  /\ mds = "none" /\ mdsStop = FALSE /\ published = 0
  /\ alive = {} /\ orders = [s \in Stock |-> 0] /\ lostEnds = {}
  /\ ring = <<>>
  /\ compute = "none" /\ computeStop = FALSE /\ tickBuf = <<>>
  /\ computeAlive = {} /\ approaching = {} /\ chosen = {} /\ wantBuy = {}

-----------------------------------------------------------------------------
(***************************************************************************)
(* TickRing::pushTick.  A full ring loses the tick, whatever it is.        *)
(***************************************************************************)

\* Mutant of Pushed: the ring is taken for one that never fills up.
PushedUnchecked(r, ticks) == r \o ticks

Pushed(r, ticks) ==
  LET all == r \o ticks
  IN  SubSeq(all, 1, IF Len(all) < Capacity THEN Len(all) ELSE Capacity)

\* The stocks whose end sign is among the ticks that find no place.
Ends(ticks) == {s \in Stock : \E k \in DOMAIN ticks : ticks[k] = EndSign(s)}
Lost(r, ticks) == Ends(SubSeq(r \o ticks, Capacity + 1, Len(r) + Len(ticks)))

-----------------------------------------------------------------------------
(***************************************************************************)
(* main: MDD::start.                                                       *)
(***************************************************************************)
\* StockState::onStatic sets a stock alive if it has a limit price.
Watched == SUBSET Stock

\* The static data comes first, on this thread.  Then the market data thread
\* starts and loads the recording.
StartReceive ==
  /\ main = "receive"
  /\ alive' \in Watched
  /\ mds' = "loading"
  /\ main' = "awaitMds"
  /\ UNCHANGED <<starting, mdsStop, published, orders, lostEnds, ring,
                 threadVars, computeVars>>

MdsStarted ==
  /\ main = "awaitMds"
  /\ mds \notin {"none", "loading"}
  /\ starting' = Stock
  /\ main' = "computes"
  /\ UNCHANGED <<mdsVars, stateVars, ring, threadVars, computeVars>>

\* Mutant of StartCompute: a stock nobody watches is computed.
StartComputeUnwatched(s) ==
  /\ main = "computes"
  /\ s \in starting
  /\ starting' = starting \ {s}
  /\ computeAlive' = computeAlive \cup {s}
  /\ UNCHANGED <<main, mdsVars, stateVars, ring, threadVars, approaching,
                 chosen, wantBuy>>

\* StockCompute::start looks at the StockState while the market data thread
\* is already using it.
StartCompute(s) ==
  /\ main = "computes"
  /\ s \in starting
  /\ starting' = starting \ {s}
  /\ computeAlive' = IF s \in alive THEN computeAlive \cup {s} ELSE computeAlive
  /\ UNCHANGED <<main, mdsVars, stateVars, ring, threadVars, approaching,
                 chosen, wantBuy>>

StartThread ==
  /\ main = "computes"
  /\ starting = {}
  /\ compute' = "cycle"
  /\ main' = "running"
  /\ UNCHANGED <<starting, mdsVars, stateVars, ring, computeStop, tickBuf,
                 computeVars>>

-----------------------------------------------------------------------------
(***************************************************************************)
(* main: waiting for the end, the handler of SIGINT, and MDD::stop.        *)
(***************************************************************************)
Sigint ==
  /\ main = "running"
  /\ ~mdsStop
  /\ mdsStop' = TRUE
  /\ UNCHANGED <<mainVars, mds, published, stateVars, ring, threadVars, computeVars>>

SeeFinished ==
  /\ main = "running"
  /\ mds = "finished"
  /\ mdsStop' = TRUE
  /\ main' = "joinMds"
  /\ UNCHANGED <<starting, mds, published, stateVars, ring, threadVars, computeVars>>

\* MDS::stop.
JoinMds ==
  /\ main = "joinMds"
  /\ mds = "finished"
  /\ main' = "stopCompute"
  /\ UNCHANGED <<starting, mdsVars, stateVars, ring, threadVars, computeVars>>

\* Mutant of RequestStop: the compute thread is not told.
RequestStopForgotten ==
  /\ main = "stopCompute"
  /\ main' = "joinCompute"
  /\ UNCHANGED <<starting, mdsVars, stateVars, ring, threadVars, computeVars>>

RequestStop ==
  /\ main = "stopCompute"
  /\ computeStop' = TRUE
  /\ main' = "joinCompute"
  /\ UNCHANGED <<starting, mdsVars, stateVars, ring, compute, tickBuf, computeVars>>

\* Mutant of StopStocks: the compute thread is not waited for.
StopStocksUnjoined ==
  /\ main = "joinCompute"
  /\ computeAlive' = {} /\ approaching' = {}
  /\ \E ends \in [1 .. Cardinality(alive) -> {EndSign(s) : s \in alive}] :
       /\ Ends(ends) = alive
       /\ ring' = Pushed(ring, ends)
       /\ lostEnds' = lostEnds \cup Lost(ring, ends)
  /\ alive' = {}
  /\ main' = "stopped"
  /\ UNCHANGED <<starting, mdsVars, orders, threadVars, chosen, wantBuy>>

\* Every stock still watched gets an end sign that nobody will fetch, and the
\* four arrays are freed.
StopStocks ==
  /\ main = "joinCompute"
  /\ compute = "ended"
  /\ computeAlive' = {} /\ approaching' = {}
  /\ \E ends \in [1 .. Cardinality(alive) -> {EndSign(s) : s \in alive}] :
       /\ Ends(ends) = alive
       /\ ring' = Pushed(ring, ends)
       /\ lostEnds' = lostEnds \cup Lost(ring, ends)
  /\ alive' = {}
  /\ main' = "stopped"
  /\ UNCHANGED <<starting, mdsVars, orders, threadVars, chosen, wantBuy>>

-----------------------------------------------------------------------------
(***************************************************************************)
(* The market data thread: replayMain and StockState::onTick.              *)
(***************************************************************************)
Load ==
  /\ mds = "loading"
  /\ mds' = "publishing"
  /\ UNCHANGED <<mainVars, mdsStop, published, stateVars, ring, threadVars, computeVars>>

Publish ==
  /\ mds = "publishing"
  /\ ~mdsStop
  /\ published < MaxTicks
  /\ published' = published + 1
  /\ UNCHANGED <<mainVars, mds, mdsStop, threadVars, computeVars>>

\* A tick of a stock that is closed, or of none of the daily config.
IgnoreTick ==
  /\ Publish
  /\ UNCHANGED <<stateVars, ring>>

PassTick(s, kind) ==
  /\ Publish
  /\ s \in alive
  /\ ring' = Pushed(ring, <<[stock |-> s, kind |-> kind]>>)
  /\ UNCHANGED stateVars

\* Mutant of LimitUp: the stock is not closed.
LimitUpOpen(s, buy) ==
  /\ Publish
  /\ s \in alive
  /\ buy => s \in wantBuy
  /\ orders' = IF buy THEN [orders EXCEPT ![s] = @ + 1] ELSE orders
  /\ ring' = Pushed(ring, <<EndSign(s)>>)
  /\ lostEnds' = lostEnds \cup Lost(ring, <<EndSign(s)>>)
  /\ UNCHANGED alive

\* Mutant of LimitUp: the tick goes the way of every other one after all.
LimitUpPassed(s, buy) ==
  /\ Publish
  /\ s \in alive
  /\ buy => s \in wantBuy
  /\ orders' = IF buy THEN [orders EXCEPT ![s] = @ + 1] ELSE orders
  /\ alive' = alive \ {s}
  /\ ring' = Pushed(ring, <<EndSign(s), [stock |-> s, kind |-> "other"]>>)
  /\ lostEnds' = lostEnds \cup Lost(ring, <<EndSign(s)>>)

\* A buy order rests at the limit price.  The cache says to buy, and the
\* order is sent, or it does not; the stock is closed in both cases.
LimitUp(s, buy) ==
  /\ Publish
  /\ s \in alive
  /\ buy => s \in wantBuy
  /\ orders' = IF buy THEN [orders EXCEPT ![s] = @ + 1] ELSE orders
  /\ alive' = alive \ {s}
  /\ ring' = Pushed(ring, <<EndSign(s)>>)
  /\ lostEnds' = lostEnds \cup Lost(ring, <<EndSign(s)>>)

\* The recording is at its end, or the stop was seen.
Finish ==
  /\ mds = "publishing"
  /\ mds' = "finished"
  /\ UNCHANGED <<mainVars, mdsStop, published, stateVars, ring, threadVars, computeVars>>

-----------------------------------------------------------------------------
(***************************************************************************)
(* The compute thread: computeThreadMain and StockCompute::onTick.         *)
(***************************************************************************)
BeginCycle ==
  /\ compute = "cycle"
  /\ ~computeStop
  /\ approaching' = {}
  /\ compute' = "fetch"
  /\ UNCHANGED <<mainVars, mdsVars, stateVars, ring, computeStop, tickBuf,
                 computeAlive, chosen, wantBuy>>

\* The stop is looked for at the head of both loops.
SeeStop ==
  /\ compute \in {"cycle", "fetch"}
  /\ computeStop
  /\ compute' = "ended"
  /\ UNCHANGED <<mainVars, mdsVars, stateVars, ring, computeStop, tickBuf, computeVars>>

Fetch ==
  /\ compute = "fetch"
  /\ ~computeStop
  /\ tickBuf' = SubSeq(ring, 1, IF Len(ring) < Batch THEN Len(ring) ELSE Batch)
  /\ compute' = "release"
  /\ UNCHANGED <<mainVars, mdsVars, stateVars, ring, computeStop, computeVars>>

\* The places of the fetched ticks become free together.
Release ==
  /\ compute = "release"
  /\ ring' = SubSeq(ring, Len(tickBuf) + 1, Len(ring))
  /\ compute' = "handle"
  /\ UNCHANGED <<mainVars, mdsVars, stateVars, computeStop, tickBuf, computeVars>>

\* A stock that is not computed takes no notice of its ticks.
HandleTick ==
  /\ compute = "handle" /\ tickBuf # <<>>
  /\ LET t == Head(tickBuf)
     IN  /\ computeAlive' = IF t.kind = "end" THEN computeAlive \ {t.stock} ELSE computeAlive
         /\ approaching' =
              CASE t.kind = "end" -> approaching \ {t.stock}
                [] t.kind = "approach" -> approaching \cup ({t.stock} \cap computeAlive)
                [] OTHER -> approaching
  /\ tickBuf' = Tail(tickBuf)
  /\ UNCHANGED <<mainVars, mdsVars, stateVars, ring, compute, computeStop,
                 chosen, wantBuy>>

FetchAgain ==
  /\ compute = "handle" /\ tickBuf = <<>>
  /\ compute' = "fetch"
  /\ UNCHANGED <<mainVars, mdsVars, stateVars, ring, computeStop, tickBuf, computeVars>>

\* When too many stocks approach, nth_element is to bring those with the least
\* left to sell to the places that are kept.  The comparison looks an amount up
\* by the address of its argument, which is an element while nth_element moves
\* the elements, or a copy on the stack.  So the order is none, and the loops
\* that rely on one run past the ends of the vector, where ids of earlier
\* cycles are: any stock may be in any of the places, closed or not, and one
\* may be in several of them.
Selected(stocks) ==
  IF Cardinality(stocks) <= MaxApproach
  THEN {stocks}
  ELSE {kept \in SUBSET Stock : Cardinality(kept) \in 1 .. Kept}

\* The time of the cycle is over.
CheckApproach ==
  /\ compute = "handle" /\ tickBuf = <<>>
  /\ chosen' \in Selected(approaching)
  /\ compute' = "approach"
  /\ UNCHANGED <<mainVars, mdsVars, stateVars, ring, computeStop, tickBuf,
                 computeAlive, approaching, wantBuy>>

\* The same comparison reads, or the loops reach, what is no memory of the
\* program: the process ends, and no thread takes a step any more.  An id that
\* is none of the channel, and damage to other memory, count as this end too.
CompareWild ==
  /\ compute = "handle" /\ tickBuf = <<>>
  /\ Cardinality(approaching) > MaxApproach
  /\ main' = "crashed" /\ mds' = "crashed" /\ compute' = "crashed"
  /\ UNCHANGED <<starting, mdsStop, published, stateVars, ring, computeStop,
                 tickBuf, computeVars>>

\* Mutant of OnApproach: a stock is predicted for because it was kept.
OnApproachUnguarded(s) ==
  /\ compute = "approach"
  /\ s \in chosen
  /\ chosen' = chosen \ {s}
  /\ wantBuy' \in {wantBuy, wantBuy \cup {s}}
  /\ UNCHANGED <<mainVars, mdsVars, stateVars, ring, threadVars, computeAlive, approaching>>

\* onApproach does nothing for a stock that does not approach.  The prediction
\* may be to buy.
OnApproach(s) ==
  /\ compute = "approach"
  /\ s \in chosen
  /\ chosen' = chosen \ {s}
  /\ wantBuy' \in {wantBuy, wantBuy \cup ({s} \cap approaching)}
  /\ UNCHANGED <<mainVars, mdsVars, stateVars, ring, threadVars, computeAlive, approaching>>

EndCycle ==
  /\ compute = "approach"
  /\ chosen = {}
  /\ compute' = "cycle"
  /\ UNCHANGED <<mainVars, mdsVars, stateVars, ring, computeStop, tickBuf, computeVars>>

-----------------------------------------------------------------------------
Main ==
  \/ StartReceive \/ MdsStarted
  \/ \E s \in Stock : StartCompute(s)
  \/ StartThread \/ SeeFinished \/ JoinMds \/ RequestStop \/ StopStocks

MarketData ==
  \/ Load \/ IgnoreTick \/ Finish
  \/ \E s \in Stock :
       \/ \E kind \in {"approach", "other"} : PassTick(s, kind)
       \/ \E buy \in BOOLEAN : LimitUp(s, buy)

Compute ==
  \/ BeginCycle \/ SeeStop \/ Fetch \/ Release \/ HandleTick \/ FetchAgain
  \/ CheckApproach \/ CompareWild \/ EndCycle
  \/ \E s \in Stock : OnApproach(s)

Next == Main \/ Sigint \/ MarketData \/ Compute

Spec == Init /\ [][Next]_vars

\* The threads are scheduled; nobody has to press a key.
FairSpec == Spec /\ WF_vars(Main) /\ WF_vars(MarketData) /\ WF_vars(Compute)

-----------------------------------------------------------------------------
(***************************************************************************)
(* The type invariant.                                                     *)
(***************************************************************************)
TypeOK ==
  /\ main \in {"receive", "awaitMds", "computes", "running", "joinMds",
               "stopCompute", "joinCompute", "stopped", "crashed"}
  /\ starting \subseteq Stock
  /\ mds \in {"none", "loading", "publishing", "finished", "crashed"}
  /\ mdsStop \in BOOLEAN
  /\ published \in 0 .. MaxTicks
  /\ alive \subseteq Stock
  /\ orders \in [Stock -> Nat]
  /\ lostEnds \subseteq Stock
  /\ ring \in Seq(Tick) /\ Len(ring) <= Capacity
  /\ compute \in {"none", "cycle", "fetch", "release", "handle", "approach", "ended",
                  "crashed"}
  /\ computeStop \in BOOLEAN
  /\ tickBuf \in Seq(Tick) /\ Len(tickBuf) <= Batch
  /\ computeAlive \subseteq Stock
  /\ approaching \subseteq Stock
  /\ chosen \subseteq Stock
  /\ wantBuy \subseteq Stock

\* At most one order is ever sent for a stock: the limit price closes the
\* stock, and no interleaving of the threads watches it again.
AtMostOneOrder == \A s \in Stock : orders[s] <= 1

\* What the compute thread has of the ring and not handled.
Unhandled == IF compute = "release" THEN ring ELSE tickBuf \o ring

\* A stock that is closed and still computed has its end sign under way to the
\* compute thread, wherever StockCompute::start fell between the ticks, unless
\* the ring was full when it was pushed.
EndSignPending ==
  main # "stopped" =>
    \A s \in computeAlive \ (alive \cup lostEnds) :
      \E k \in DOMAIN Unhandled : Unhandled[k] = EndSign(s)

\* Nothing of a stock is behind its end sign: the last tick the compute thread
\* fetches of a stock is its end sign.
EndSignIsLast ==
  \A k \in DOMAIN Unhandled : \A s \in Stock :
    Unhandled[k] = EndSign(s) =>
      \A j \in k + 1 .. Len(Unhandled) : Unhandled[j].stock # s

\* No prediction is made for a stock that is not computed, whatever ids the
\* choice of the cycle leaves in the kept places: a closed stock may be among
\* them, and its flag, which the end sign resets, is all that holds it back.
PredictsOnlyComputed == [][wantBuy' \ wantBuy \subseteq computeAlive]_vars

\* When MDD::stop has freed the arrays no thread takes a step any more.
QuietWhenStopped == [][main # "stopped"]_vars

\* A recording that is over, or an interrupt, ends the program: each of the two
\* threads it waits for sees that it has to stop, unless the comparison of
\* computeThreadMain ended the process before.
EndsWhenAsked == (mds = "finished" \/ mdsStop) ~> main \in {"stopped", "crashed"}

=============================================================================
