-------------------------- MODULE LimitQueue_proofs ---------------------------
(***************************************************************************)
(* Theorems about LimitQueue for orders and days of any size: a signal is  *)
(* real, what is missed is bounded by what was cancelled, and an end sign  *)
(* made of a time in hundredths of a second decodes.                       *)
(***************************************************************************)
EXTENDS LimitQueue, TLAPS

-----------------------------------------------------------------------------
\* What is left of a taker that counts: its order message came before its
\* trades.
CountedLeft == IF taker.kind = "limit" THEN taker.left ELSE 0

(***************************************************************************)
(* The invariant.  Until the close the count is exact but for what it      *)
(* cannot see: it is what is on offer and counted and what was cancelled   *)
(* of that, less what was traded by sells that are not counted.  In the    *)
(* day one side of the book is empty, or else the order that made it so is *)
(* being matched.                                                          *)
(***************************************************************************)
CountType ==
  /\ sells \in Nat /\ bestSells \in Nat /\ buys \in Nat
  /\ hit \in Nat /\ opened \in Nat /\ bestTraded \in Nat /\ cancelled \in Nat
  /\ upRemainQty100 \in Int
  /\ taker \in [kind : {"none", "limit", "cheap", "buy"}, left : Nat]
  /\ phase \in {"opening", "day", "closing"}

Exact ==
  phase # "closing" =>
    upRemainQty100 = sells + CountedLeft + cancelled - hit - opened - bestTraded

OneSided ==
  /\ phase = "day" => sells + bestSells = 0 \/ buys = 0
  /\ phase # "day" => taker = Idle
  /\ phase = "opening" => bestSells = 0 /\ hit = 0 /\ opened = 0 /\ bestTraded = 0

CountInv ==
  /\ CountType
  /\ Exact
  /\ OneSided
  /\ alive => signal = None
  /\ MissedOnlyByCancel
  /\ SignalIsReal

-----------------------------------------------------------------------------
\* The invariant holds at first,
LEMMA InitCount == Init => CountInv
BY QtyAssumption DEF Init, CountInv, CountType, Exact, OneSided, CountedLeft, Idle, None,
   MissedOnlyByCancel, SignalIsReal, Uncounted

\* A trade outside the window lowers the count and does nothing else.
LEMMA QuietTrade ==
  ASSUME NEW q, NEW time, NEW b, ~InWindow(time), OnTrade(q, time, b)
  PROVE  upRemainQty100' = upRemainQty100 - q /\ UNCHANGED <<alive, signal>>
BY DEF OnTrade

\* A trade of the day either leaves a count of at least zero, or it signals.
LEMMA DayTrade ==
  ASSUME NEW q \in Nat, NEW time \in DayTimes, NEW b, upRemainQty100 \in Int, OnTrade(q, time, b)
  PROVE  /\ upRemainQty100' = upRemainQty100 - q
         /\ \/ upRemainQty100 - q >= 0 /\ UNCHANGED <<alive, signal>>
            \/ upRemainQty100 - q < 0 /\ alive' = FALSE /\ signal'.passiveBuy = b
<1>1. InWindow(time)
  BY TimeAssumption
<1>2. CASE upRemainQty100 - q < 0
  BY <1>1, <1>2 DEF OnTrade
<1>3. CASE ~(upRemainQty100 - q < 0)
  BY <1>3 DEF OnTrade
<1> QED
  BY <1>2, <1>3

-----------------------------------------------------------------------------
\* every step keeps it,
LEMMA StepCount == CountInv /\ [Next]_vars => CountInv'
<1> SUFFICES ASSUME CountInv, [Next]_vars PROVE CountInv'
  OBVIOUS
<1> USE DEF CountInv, CountType, Exact, OneSided, CountedLeft, MissedOnlyByCancel, SignalIsReal,
        Uncounted, Idle, Event, Qty
<1> MaxQty \in Nat \ {0}
  BY QtyAssumption
<1>1. ASSUME NEW q \in Qty, NEW kind \in {"limit", "cheap", "buy"}, NewOrder(kind, q)
      PROVE  CountInv'
  BY <1>1 DEF NewOrder, OnOrder, book, ghosts
<1>2. ASSUME NEW q \in Qty, NewBestSell(q)
      PROVE  CountInv'
  BY <1>2 DEF NewBestSell, OnOrder, ghosts
<1>3. ASSUME NEW q \in Qty, CallSell(q)
      PROVE  CountInv'
  BY <1>3 DEF CallSell, OnOrder, ghosts
<1>4. ASSUME NEW q \in Qty, CallBuy(q)
      PROVE  CountInv'
  BY <1>4 DEF CallBuy, OnOrder, ghosts
<1>5. ASSUME NEW q \in Qty, CancelSell(q)
      PROVE  CountInv'
  BY <1>5 DEF CancelSell, state
<1>6. ASSUME NEW q \in Qty, CancelBuy(q)
      PROVE  CountInv'
  BY <1>6 DEF CancelBuy, state, ghosts
<1>7. ASSUME NEW q \in Qty, NEW time \in DayTimes, SellToBuyer(q, time)
      PROVE  CountInv'
  <2>1. /\ upRemainQty100' = upRemainQty100 - q
        /\ \/ upRemainQty100 - q >= 0 /\ UNCHANGED <<alive, signal>>
           \/ upRemainQty100 - q < 0 /\ alive' = FALSE /\ signal'.passiveBuy = TRUE
    <3>1. q \in Nat /\ upRemainQty100 \in Int
      OBVIOUS
    <3>2. OnTrade(q, time, TRUE)
      BY <1>7, Zenon DEF SellToBuyer
    <3> QED
      BY <3>1, <3>2, DayTrade, Zenon
  <2>2. /\ phase = "day" /\ sells + bestSells = 0
        /\ taker'.kind = taker.kind /\ taker'.left = taker.left - q /\ taker.left >= q
    BY <1>7 DEF SellToBuyer
  <2>3. CountType' /\ Exact' /\ OneSided'
    BY <1>7, <2>1, <2>2 DEF SellToBuyer
  <2>4. MissedOnlyByCancel'
    BY <1>7, <2>1, <2>2 DEF SellToBuyer
  <2>5. (alive => signal = None)' /\ SignalIsReal'
    BY <1>7, <2>1 DEF SellToBuyer
  <2> QED
    BY <2>3, <2>4, <2>5
<1>8. ASSUME NEW q \in Qty, NEW time \in DayTimes, BuyFromSeller(q, time)
      PROVE  CountInv'
  <2>1. /\ upRemainQty100' = upRemainQty100 - q
        /\ \/ upRemainQty100 - q >= 0 /\ UNCHANGED <<alive, signal>>
           \/ upRemainQty100 - q < 0 /\ alive' = FALSE /\ signal'.passiveBuy = FALSE
    <3>1. q \in Nat /\ upRemainQty100 \in Int
      OBVIOUS
    <3>2. OnTrade(q, time, FALSE)
      BY <1>8, Zenon DEF BuyFromSeller
    <3> QED
      BY <3>1, <3>2, DayTrade, Zenon
  <2>2. phase = "day" /\ taker'.kind = "buy" /\ taker'.left = taker.left - q /\ taker.left >= q
    BY <1>8 DEF BuyFromSeller
  \* What is on offer covers the trade, unless something was not counted.
  <2>3. Uncounted = 0 => upRemainQty100 - q >= 0
    BY <1>8, <2>2 DEF BuyFromSeller
  <2>4. CountType' /\ Exact' /\ OneSided' /\ MissedOnlyByCancel'
    BY <1>8, <2>1, <2>2 DEF BuyFromSeller, ghosts
  <2>5. (alive => signal = None)' /\ SignalIsReal'
    <3>1. CASE UNCHANGED <<alive, signal>>
      BY <1>8, <2>3, <3>1 DEF BuyFromSeller, ghosts
    <3>2. CASE upRemainQty100 - q < 0 /\ ~alive'
      BY <1>8, <2>3, <3>2 DEF BuyFromSeller, ghosts
    <3> QED
      BY <2>1, <3>1, <3>2
  <2> QED
    BY <2>4, <2>5
<1>9. ASSUME NEW q \in Qty, NEW time \in DayTimes, BuyFromBest(q, time)
      PROVE  CountInv'
  <2>1. /\ upRemainQty100' = upRemainQty100 - q
        /\ \/ upRemainQty100 - q >= 0 /\ UNCHANGED <<alive, signal>>
           \/ upRemainQty100 - q < 0 /\ alive' = FALSE /\ signal'.passiveBuy = FALSE
    <3>1. q \in Nat /\ upRemainQty100 \in Int
      OBVIOUS
    <3>2. OnTrade(q, time, FALSE)
      BY <1>9, Zenon DEF BuyFromBest
    <3> QED
      BY <3>1, <3>2, DayTrade, Zenon
  <2>2. phase = "day" /\ taker'.kind = "buy" /\ taker'.left = taker.left - q /\ taker.left >= q
    BY <1>9 DEF BuyFromBest
  <2>3. CountType' /\ Exact' /\ OneSided' /\ MissedOnlyByCancel'
    BY <1>9, <2>1, <2>2 DEF BuyFromBest
  <2>4. Uncounted' > 0
    BY <1>9 DEF BuyFromBest
  <2>5. (alive => signal = None)' /\ SignalIsReal'
    <3>1. CASE UNCHANGED <<alive, signal>>
      BY <1>9, <2>4, <3>1 DEF BuyFromBest
    <3>2. CASE upRemainQty100 - q < 0 /\ ~alive'
      BY <1>9, <2>4, <3>2 DEF BuyFromBest
    <3> QED
      BY <2>1, <3>1, <3>2
  <2> QED
    BY <2>3, <2>5
<1>10. ASSUME Rest
       PROVE  CountInv'
  BY <1>10 DEF Rest, state, ghosts
<1>11. ASSUME NEW c \in 0 .. MaxQty, NEW time \in OpenTimes, Opening(c, time)
       PROVE  CountInv'
  <2> DEFINE s == IF buys - c <= sells THEN buys - c ELSE sells
  <2>1. s \in Nat /\ s <= sells /\ s + c <= buys /\ (sells - s = 0 \/ buys - s - c = 0)
    BY <1>11 DEF Opening
  <2>2. OnTrade(s + c, time, FALSE) /\ sells' = sells - s /\ buys' = buys - s - c
    BY <1>11 DEF Opening
  <2>3. upRemainQty100' = upRemainQty100 - (s + c) /\ UNCHANGED <<alive, signal>>
    BY <2>2, QuietTrade, TimeAssumption
  <2> HIDE DEF s
  <2> QED
    BY <1>11, <2>1, <2>2, <2>3 DEF Opening
<1>12. ASSUME OpeningBelow
       PROVE  CountInv'
  BY <1>12 DEF OpeningBelow, state, ghosts
<1>13. ASSUME Close
       PROVE  CountInv'
  BY <1>13 DEF Close, state, book, ghosts
<1>14. ASSUME NEW q \in Qty, NEW time \in CloseTimes, Closing(q, time)
       PROVE  CountInv'
  <2>1. upRemainQty100' = upRemainQty100 - q /\ UNCHANGED <<alive, signal>>
    BY <1>14, QuietTrade, TimeAssumption DEF Closing
  <2> QED
    BY <1>14, <2>1 DEF Closing, ghosts
<1>15. ASSUME UNCHANGED vars
       PROVE  CountInv'
  BY <1>15 DEF vars, state, book, ghosts
<1> QED
  BY <1>1, <1>2, <1>3, <1>4, <1>5, <1>6, <1>7, <1>8, <1>9, <1>10, <1>11, <1>12, <1>13, <1>14,
     <1>15 DEF Next

\* and so it always holds.
LEMMA CountHolds == Spec => []CountInv
BY InitCount, StepCount, PTL DEF Spec

\* Whatever is ordered, the count is exact until the close, but for the sells
\* it cannot see and the cancels it does not take off.
THEOREM CountIsExact == Spec => []Exact
<1>1. CountInv => Exact
  BY DEF CountInv
<1> QED
  BY CountHolds, <1>1, PTL

\* A signal comes from a buy order that rested at the limit, unless sells that
\* are not counted were traded.
THEOREM SignalHolds == Spec => []SignalIsReal
<1>1. CountInv => SignalIsReal
  BY DEF CountInv
<1> QED
  BY CountHolds, <1>1, PTL

\* While no signal came, the resting buys were hit for no more than was
\* cancelled of the sells.
THEOREM MissedHolds == Spec => []MissedOnlyByCancel
<1>1. CountInv => MissedOnlyByCancel
  BY DEF CountInv
<1> QED
  BY CountHolds, <1>1, PTL

-----------------------------------------------------------------------------
(***************************************************************************)
(* The end sign.  The last digit of the time must be free: the SZ feed     *)
(* reports hundredths of a second.                                         *)
(***************************************************************************)
Hundredths == \A time \in DayTimes : time % 10 = 0

\* A time with a zero at its end and a verdict are read back from their sum.
LEMMA SignRoundTrip ==
  ASSUME NEW time \in Nat, time % 10 = 0, NEW i \in Intents
  PROVE  (EndSign(time, i) \div 10) * 10 = time /\ EndSign(time, i) % 10 = i
BY DEF EndSign, Intents

\* A trade at a multiple of ten milliseconds gives a sign that can be read back.
LEMMA TradeDecodes ==
  ASSUME Hundredths, SignDecodes, NEW q, NEW time \in DayTimes, NEW b, OnTrade(q, time, b)
  PROVE  SignDecodes'
<1>1. CASE UNCHANGED signal
  BY <1>1 DEF SignDecodes
<1>2. CASE \E i \in Intents : signal' = [time |-> time, intent |-> i, passiveBuy |-> b,
                                         sign |-> EndSign(time, i)]
  <2>1. PICK i \in Intents : signal' = [time |-> time, intent |-> i, passiveBuy |-> b,
                                        sign |-> EndSign(time, i)]
    BY <1>2
  <2>2. (EndSign(time, i) \div 10) * 10 = time /\ EndSign(time, i) % 10 = i
    BY SignRoundTrip, TimeAssumption DEF Hundredths
  <2> QED
    BY <2>1, <2>2 DEF SignDecodes
<1> QED
  BY <1>1, <1>2 DEF OnTrade

\* StockCompute reads time and verdict back from every end sign, if the times
\* of the trades are multiples of ten milliseconds.
THEOREM SignHolds == ASSUME Hundredths PROVE Spec => []SignDecodes
<1>1. Init => SignDecodes
  BY DEF Init, SignDecodes
<1>2. SignDecodes /\ [Next]_vars => SignDecodes'
  <2> SUFFICES ASSUME SignDecodes, [Next]_vars PROVE SignDecodes'
    OBVIOUS
  <2>1. ASSUME NEW q \in Qty, NEW time \in DayTimes,
               SellToBuyer(q, time) \/ BuyFromSeller(q, time) \/ BuyFromBest(q, time)
        PROVE  SignDecodes'
    BY <2>1, TradeDecodes DEF SellToBuyer, BuyFromSeller, BuyFromBest
  <2>2. ASSUME NEW c \in 0 .. MaxQty, NEW time \in OpenTimes, Opening(c, time)
        PROVE  UNCHANGED signal
    BY <2>2, QuietTrade, TimeAssumption DEF Opening
  <2>3. ASSUME NEW q \in Qty, NEW time \in CloseTimes, Closing(q, time)
        PROVE  UNCHANGED signal
    BY <2>3, QuietTrade, TimeAssumption DEF Closing
  <2>4. ASSUME NEW q \in Qty,
               \/ \E kind \in {"limit", "cheap", "buy"} : NewOrder(kind, q)
               \/ NewBestSell(q) \/ CallSell(q) \/ CallBuy(q) \/ CancelSell(q) \/ CancelBuy(q)
        PROVE  UNCHANGED signal
    BY <2>4 DEF NewOrder, NewBestSell, CallSell, CallBuy, CancelSell, CancelBuy, OnOrder, state
  <2>5. ASSUME Rest \/ OpeningBelow \/ Close \/ UNCHANGED vars
        PROVE  UNCHANGED signal
    BY <2>5 DEF Rest, OpeningBelow, Close, state, vars
  <2>6. UNCHANGED signal => SignDecodes'
    BY DEF SignDecodes
  <2> QED
    BY <2>1, <2>2, <2>3, <2>4, <2>5, <2>6 DEF Next
<1> QED
  BY <1>1, <1>2, PTL DEF Spec
=============================================================================
