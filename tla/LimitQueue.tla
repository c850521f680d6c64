------------------------------ MODULE LimitQueue ------------------------------
(***************************************************************************)
(* How the live builds for the SZ market find out that a stock is at its   *)
(* limit (StockState::onTick, NE and OST).  The feed does not tell whether *)
(* a buy order rests, so StockState counts: upRemainQty100 is what was     *)
(* offered at the limit price, less what was traded there.  A trade that   *)
(* takes it below zero must have come from a seller who asked less, so a   *)
(* buyer was waiting at the limit.                                         *)
(*                                                                         *)
(* The exchange is external: a price level at the limit, calls at the      *)
(* opening and at the close, continuous matching between them.  Every      *)
(* order and every trade reaches onTick once and in order.  A cancel comes *)
(* as a trade message with price 0.  Forwarding to the ring is in Channel. *)
(***************************************************************************)
EXTENDS Integers

CONSTANTS
  OpenTimes, DayTimes, CloseTimes,   \* times of day, HHMMSSmmm
  MaxQty,                            \* bound: the size of an order
  MaxOrders                          \* bound: the orders, calls and cancels

\* When StockState looks at the count: the day, without its last minutes.
InWindow(time) == 93000000 <= time /\ time < 145700000

ASSUME TimeAssumption ==
  /\ OpenTimes \cup DayTimes \cup CloseTimes \subseteq Nat
  /\ \A time \in DayTimes : InWindow(time)
  /\ \A time \in OpenTimes \cup CloseTimes : ~InWindow(time)
ASSUME QtyAssumption == MaxQty \in Nat \ {0} /\ MaxOrders \in Nat

VARIABLES
  upRemainQty100,
  alive,
  signal,     \* what stop() was called with, and the trade that led to it
  phase,      \* of the exchange: "opening", "day", "closing"
  sells,      \* resting at the limit: sell limit orders,
  bestSells,  \* sell orders at the best price of their side (type 'U'),
  buys,       \* and buy orders
  taker,      \* the order being matched: its kind and what is left of it
  hit,        \* ghost: traded in the day by resting buys with cheaper sells
  opened,     \* ghost: traded at the limit in the opening call by cheaper sells
  bestTraded, \* ghost: traded by bestSells
  cancelled,  \* ghost: cancelled of sells
  n           \* how many orders, calls and cancels there were

book == <<sells, bestSells, buys>>
ghosts == <<hit, opened, bestTraded, cancelled>>
state == <<upRemainQty100, alive, signal>>
vars == <<state, phase, book, taker, ghosts, n>>

Qty == 1 .. MaxQty
Idle == [kind |-> "none", left |-> 0]
None == [time |-> 0]

Init ==
  /\ upRemainQty100 = 0 /\ alive = TRUE /\ signal = None
  /\ phase = "opening" /\ sells = 0 /\ bestSells = 0 /\ buys = 0 /\ taker = Idle
  /\ hit = 0 /\ opened = 0 /\ bestTraded = 0 /\ cancelled = 0 /\ n = 0

-----------------------------------------------------------------------------
(***************************************************************************)
(* StockState::onTick.                                                     *)
(***************************************************************************)
\* WantBuy, DontBuy, NotSure: what the want cache answers (WantCache).
Intents == 0 .. 2

\* Mutant of OnOrder: the price is not looked at.
OnOrderAnyPrice(kind, q) ==
  /\ upRemainQty100' = IF kind \in {"limit", "cheap"} THEN upRemainQty100 + q ELSE upRemainQty100
  /\ UNCHANGED <<alive, signal>>

\* An order counts if it is a sell limit order at the limit price.
OnOrder(kind, q) ==
  /\ upRemainQty100' = IF kind = "limit" THEN upRemainQty100 + q ELSE upRemainQty100
  /\ UNCHANGED <<alive, signal>>

\* Mutant of EndSign: the time is rounded down as that of a prediction.
EndSignRounded(time, intent) == (time \div 100) * 100 + intent

\* stop(timestamp + intent); StockCompute takes it apart with / and % of 10.
EndSign(time, intent) == time + intent

\* Mutant of OnTrade: a count of zero is a signal.
OnTradeZero(q, time, passiveBuy) ==
  /\ upRemainQty100' = upRemainQty100 - q
  /\ IF upRemainQty100 - q <= 0 /\ InWindow(time)
     THEN /\ alive' = FALSE
          /\ \E i \in Intents :
               signal' = [time |-> time, intent |-> i, passiveBuy |-> passiveBuy,
                          sign |-> EndSign(time, i)]
     ELSE UNCHANGED <<alive, signal>>

\* A trade at the limit price.  With WantBuy an order is sent.
OnTrade(q, time, passiveBuy) ==
  /\ upRemainQty100' = upRemainQty100 - q
  /\ IF upRemainQty100 - q < 0 /\ InWindow(time)
     THEN /\ alive' = FALSE
          /\ \E i \in Intents :
               signal' = [time |-> time, intent |-> i, passiveBuy |-> passiveBuy,
                          sign |-> EndSign(time, i)]
     ELSE UNCHANGED <<alive, signal>>

-----------------------------------------------------------------------------
(***************************************************************************)
(* The exchange.                                                           *)
(***************************************************************************)
Event == alive /\ taker = Idle /\ n < MaxOrders /\ n' = n + 1

\* "limit": to sell at the limit price; "cheap": to sell for less, or at
\* market; "buy": to buy at the limit price.
NewOrder(kind, q) ==
  /\ Event /\ phase = "day"
  /\ OnOrder(kind, q)
  /\ taker' = [kind |-> kind, left |-> q]
  /\ UNCHANGED <<phase, book, ghosts>>

\* It joins the best price of its side, which is the limit.
NewBestSell(q) ==
  /\ Event /\ phase = "day" /\ sells + bestSells > 0
  /\ OnOrder("best", q)
  /\ bestSells' = bestSells + q
  /\ UNCHANGED <<phase, sells, buys, taker, ghosts>>

\* The taker trades with a resting order.
SellToBuyer(q, time) ==
  /\ alive /\ taker.kind \in {"limit", "cheap"} /\ q <= taker.left /\ q <= buys
  /\ buys' = buys - q
  /\ taker' = [taker EXCEPT !.left = @ - q]
  /\ hit' = IF taker.kind = "cheap" THEN hit + q ELSE hit
  /\ OnTrade(q, time, TRUE)
  /\ UNCHANGED <<phase, sells, bestSells, opened, bestTraded, cancelled, n>>

BuyFromSeller(q, time) ==
  /\ alive /\ taker.kind = "buy" /\ q <= taker.left /\ q <= sells
  /\ sells' = sells - q
  /\ taker' = [taker EXCEPT !.left = @ - q]
  /\ OnTrade(q, time, FALSE)
  /\ UNCHANGED <<phase, bestSells, buys, ghosts, n>>

BuyFromBest(q, time) ==
  /\ alive /\ taker.kind = "buy" /\ q <= taker.left /\ q <= bestSells
  /\ bestSells' = bestSells - q
  /\ bestTraded' = bestTraded + q
  /\ taker' = [taker EXCEPT !.left = @ - q]
  /\ OnTrade(q, time, FALSE)
  /\ UNCHANGED <<phase, sells, buys, hit, opened, cancelled, n>>

\* Nobody is left to trade with: what is left of the taker rests, at the limit
\* or elsewhere.
Rest ==
  /\ taker # Idle
  /\ taker.left = 0 \/ (IF taker.kind = "buy" THEN sells + bestSells = 0 ELSE buys = 0)
  /\ sells' = IF taker.kind = "limit" THEN sells + taker.left ELSE sells
  /\ buys' = IF taker.kind = "buy" THEN buys + taker.left ELSE buys
  /\ taker' = Idle
  /\ UNCHANGED <<state, phase, bestSells, ghosts, n>>

\* During a call nothing is matched.
CallSell(q) ==
  /\ Event /\ phase # "day"
  /\ OnOrder("limit", q)
  /\ sells' = sells + q
  /\ UNCHANGED <<phase, bestSells, buys, taker, ghosts>>

CallBuy(q) ==
  /\ Event /\ phase # "day"
  /\ OnOrder("buy", q)
  /\ buys' = buys + q
  /\ UNCHANGED <<phase, sells, bestSells, taker, ghosts>>

\* The price of a cancel is 0, never the limit: the count stays.
CancelSell(q) ==
  /\ Event /\ q <= sells
  /\ sells' = sells - q /\ cancelled' = cancelled + q
  /\ UNCHANGED <<state, phase, bestSells, buys, taker, hit, opened, bestTraded>>

CancelBuy(q) ==
  /\ Event /\ q <= buys
  /\ buys' = buys - q
  /\ UNCHANGED <<state, phase, sells, bestSells, taker, ghosts>>

\* The opening call ends at the limit price: q of the buys meet c that was
\* offered for less and then sells at the limit; one side is left over.  (The
\* trades are many messages, all before the window.)
Opening(c, time) ==
  /\ Event /\ phase = "opening" /\ c <= buys
  /\ LET s == IF buys - c <= sells THEN buys - c ELSE sells
     IN  /\ OnTrade(s + c, time, FALSE)
         /\ sells' = sells - s /\ buys' = buys - s - c
  /\ opened' = opened + c /\ phase' = "day"
  /\ UNCHANGED <<bestSells, taker, hit, bestTraded, cancelled>>

\* It ends below the limit: whoever would pay the limit has bought.
OpeningBelow ==
  /\ Event /\ phase = "opening"
  /\ buys' = 0 /\ phase' = "day"
  /\ UNCHANGED <<state, sells, bestSells, taker, ghosts>>

Close ==
  /\ Event /\ phase = "day"
  /\ phase' = "closing"
  /\ UNCHANGED <<state, book, taker, ghosts>>

\* The closing call at the limit price.
Closing(q, time) ==
  /\ Event /\ phase = "closing" /\ q <= buys
  /\ OnTrade(q, time, TRUE)
  /\ buys' = buys - q
  /\ UNCHANGED <<phase, sells, bestSells, taker, ghosts>>

Next ==
  \/ \E q \in Qty : \/ \E kind \in {"limit", "cheap", "buy"} : NewOrder(kind, q)
                    \/ NewBestSell(q) \/ CallSell(q) \/ CallBuy(q)
                    \/ CancelSell(q) \/ CancelBuy(q)
  \/ \E q \in Qty, time \in DayTimes :
       \/ SellToBuyer(q, time) \/ BuyFromSeller(q, time) \/ BuyFromBest(q, time)
  \/ Rest
  \/ \E c \in 0 .. MaxQty, time \in OpenTimes : Opening(c, time)
  \/ OpeningBelow \/ Close
  \/ \E q \in Qty, time \in CloseTimes : Closing(q, time)

Spec == Init /\ [][Next]_vars

-----------------------------------------------------------------------------
\* Sells at the limit that the count does not know of.
Uncounted == opened + bestTraded

(***************************************************************************)
(* A signal is real: unless some trades came from sells at the limit which *)
(* are not counted, the trade that gives it was made by a buy order that   *)
(* rested at the limit price.                                              *)
(***************************************************************************)
SignalIsReal == signal # None /\ Uncounted = 0 => signal.passiveBuy

(***************************************************************************)
(* No signal is missed, except for cancels: while the stock is alive and   *)
(* in the day, cheaper sells have hit the resting buys for no more than    *)
(* what was cancelled of the sells at the limit, which stays in the count. *)
(***************************************************************************)
MissedOnlyByCancel == alive /\ phase = "day" => hit <= cancelled

(***************************************************************************)
(* StockCompute reads the time and the verdict back from the end sign.     *)
(***************************************************************************)
SignDecodes ==
  signal # None => /\ (signal.sign \div 10) * 10 = signal.time
                   /\ signal.sign % 10 = signal.intent
=============================================================================
