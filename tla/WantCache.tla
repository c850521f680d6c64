------------------------------ MODULE WantCache ------------------------------
(***************************************************************************)
(* The cache of predictions of one stock (WantCache.h).  The compute       *)
(* thread stores predictions round and round in a few slots; the market    *)
(* data thread, when the stock reaches its limit price, looks for the one  *)
(* nearest to the tick.  There is no lock: a look-up loads one slot after  *)
(* the other while predictions keep coming, so what it compares need never *)
(* have been in the cache together.                                        *)
(*                                                                         *)
(* Loads and stores are relaxed and each is a step.  On x86-64, the        *)
(* machine the program is built for, both stay in program order.           *)
(*                                                                         *)
(* A slot holds a grid time, which is even, or one less for "want to buy". *)
(***************************************************************************)
EXTENDS Timestamp

CONSTANTS
  Slots,       \* the size of wantBuyTimestamp
  Tolerance,   \* kWantBuyTimeTolerance
  LastTick,    \* bound: the last nextTickTimestamp
  TickTimes    \* the timestamps of limit-up ticks

ASSUME SlotsAssumption == Slots \in Nat \ {0}
\* The tolerance leaves room for the millisecond that marks a slot, on both
\* sides of a whole number of steps; no tick is so early that a slot never
\* stored to is within it.
ASSUME ToleranceAssumption == Tolerance \in Nat /\ Tolerance % Step \in 1 .. Step - 2
ASSUME TickTimesAssumption == \A t \in TickTimes : t \in Nat /\ roundedTick(t) > Tolerance

VARIABLES
  wantBuyTimestamp,      \* the slots
  wantBuyCurrentIndex,   \* the slot of the next prediction
  nextTickTimestamp,     \* the first grid time not over yet, on the compute thread
  predicted,             \* how many predictions of the round it has made
  asked,                 \* the rounded time of the tick looked up, or NoTime
  i,                     \* how many slots it has loaded
  minTimestamp,          \* the nearest of them
  answer,                \* what the look-up returned
  stored,                \* ghost: the prediction stored in each slot
  nearest,               \* ghost: the one that minTimestamp stands for
  overwritten            \* ghost: the slots stored to since the look-up began

predictVars == <<wantBuyTimestamp, wantBuyCurrentIndex, nextTickTimestamp,
                 predicted, stored>>
askVars == <<asked, i, minTimestamp, answer, nearest>>
vars == <<predictVars, askVars, overwritten>>

Index == 0 .. Slots - 1
NoTime == -1
Never == [time |-> 0, want |-> FALSE]

Init ==
  /\ wantBuyTimestamp = [s \in Index |-> 0]
  /\ wantBuyCurrentIndex = 0
  /\ nextTickTimestamp = 93000000
  /\ predicted = 0
  /\ asked = NoTime
  /\ i = 0
  /\ minTimestamp = 0
  /\ answer = "none"
  /\ stored = [s \in Index |-> Never]
  /\ nearest = Never
  /\ overwritten = {}

-----------------------------------------------------------------------------
\* Mutant of encode: a prediction to buy is not told from one not to.
encodePlain(timestamp, want) == timestampLinear(timestamp)

\* The value of a slot for a prediction.
encode(timestamp, want) == timestampLinear(timestamp) - (IF want THEN 1 ELSE 0)

\* Mutant of pushWantBuyTimestamp: the index runs past the last slot.
pushWantBuyTimestampNoWrap(timestamp, want) ==
  /\ wantBuyTimestamp' =
       [wantBuyTimestamp EXCEPT ![wantBuyCurrentIndex] = encode(timestamp, want)]
  /\ wantBuyCurrentIndex' = wantBuyCurrentIndex + 1

\* The index is masked in the code, whose number of slots is a power of two.
pushWantBuyTimestamp(timestamp, want) ==
  /\ wantBuyTimestamp' =
       [wantBuyTimestamp EXCEPT ![wantBuyCurrentIndex] = encode(timestamp, want)]
  /\ wantBuyCurrentIndex' = (wantBuyCurrentIndex + 1) % Slots

\* The bookkeeping of the ghosts.
Record(timestamp, want) ==
  /\ stored' = [stored EXCEPT ![wantBuyCurrentIndex] =
                  [time |-> timestampLinear(timestamp), want |-> want]]
  /\ overwritten' = IF asked = NoTime THEN {}
                    ELSE overwritten \cup {wantBuyCurrentIndex}

\* futureTimestamp: the current grid time, the one after it, or the third.
After == timestampAdvance100ms(nextTickTimestamp)
futureTimestamp ==
  CASE predicted = 0 -> nextTickTimestamp
    [] predicted = 1 -> After
    [] predicted = 2 -> timestampAdvance100ms(After)

\* The round goes on or is over: StockCompute::onApproach makes two predictions,
\* and when it is called once more in the same cycle a third (StockCompute).
Predict(want) ==
  /\ pushWantBuyTimestamp(futureTimestamp, want)
  /\ Record(futureTimestamp, want)
  /\ predicted' \in CASE predicted = 0 -> {1} [] predicted = 1 -> {2, 0} [] predicted = 2 -> {0}
  /\ UNCHANGED <<nextTickTimestamp, askVars>>

\* Trades move the grid time on between two rounds of predictions.
Trade ==
  /\ predicted = 0
  /\ nextTickTimestamp < LastTick
  /\ nextTickTimestamp' = timestampAdvance100ms(nextTickTimestamp)
  /\ UNCHANGED <<wantBuyTimestamp, wantBuyCurrentIndex, predicted, stored,
                 askVars, overwritten>>

-----------------------------------------------------------------------------
(***************************************************************************)
(* checkWantBuyAtTimestamp.                                                *)
(***************************************************************************)
Abs(n) == IF n < 0 THEN -n ELSE n

distance(slot) == Abs(slot - asked)

Ask(timestamp) ==
  /\ asked = NoTime
  /\ asked' = roundedTick(timestamp)
  /\ i' = 1
  /\ minTimestamp' = wantBuyTimestamp[0]
  /\ nearest' = stored[0]
  /\ UNCHANGED <<predictVars, answer, overwritten>>

\* Mutant of LoadSlot: the last slot that is near enough wins.
LoadSlotLast ==
  /\ asked # NoTime
  /\ i < Slots
  /\ IF distance(wantBuyTimestamp[i]) <= Tolerance
       THEN minTimestamp' = wantBuyTimestamp[i] /\ nearest' = stored[i]
       ELSE UNCHANGED <<minTimestamp, nearest>>
  /\ i' = i + 1
  /\ UNCHANGED <<predictVars, asked, answer, overwritten>>

LoadSlot ==
  /\ asked # NoTime
  /\ i < Slots
  /\ IF distance(wantBuyTimestamp[i]) < distance(minTimestamp)
       THEN minTimestamp' = wantBuyTimestamp[i] /\ nearest' = stored[i]
       ELSE UNCHANGED <<minTimestamp, nearest>>
  /\ i' = i + 1
  /\ UNCHANGED <<predictVars, asked, answer, overwritten>>

\* Mutant of Decide: the tolerance is that of exact times.
DecideNarrow ==
  IF distance(minTimestamp) > Tolerance - 2 THEN "NotSure"
  ELSE IF minTimestamp % 2 = 0 THEN "DontBuy"
  ELSE "WantBuy"

Decide ==
  IF distance(minTimestamp) > Tolerance THEN "NotSure"
  ELSE IF minTimestamp % 2 = 0 THEN "DontBuy"
  ELSE "WantBuy"

\* The stock is bought or not, and StockState asks no more: it is not alive.
Answer ==
  /\ asked # NoTime
  /\ answer = "none"
  /\ i = Slots
  /\ answer' = Decide
  /\ UNCHANGED <<predictVars, asked, i, minTimestamp, nearest, overwritten>>

-----------------------------------------------------------------------------
Next ==
  \/ \E want \in BOOLEAN : Predict(want)
  \/ Trade
  \/ \E timestamp \in TickTimes : Ask(timestamp)
  \/ LoadSlot
  \/ Answer

Spec == Init /\ [][Next]_vars

-----------------------------------------------------------------------------
LastTime == 235959999   \* the last HHMMSSmmm of a day

\* Types: HHMMSSmmm keeps its fields, and a slot holds a millisecond of the
\* day or the one before it.
TypeOK ==
  /\ wantBuyTimestamp \in [Index -> -1 .. Day - 1]
  /\ minTimestamp \in -1 .. Day - 1
  /\ wantBuyCurrentIndex \in Index
  /\ nextTickTimestamp \in 0 .. LastTime
  /\ predicted \in 0 .. 2
  /\ i \in 0 .. Slots
  /\ answer \in {"none", "WantBuy", "DontBuy", "NotSure"}
  /\ overwritten \subseteq Index

(***************************************************************************)
(* An answer is a prediction: it says to buy, or not to, only if that was  *)
(* predicted for a grid time at most four steps from the tick.  The slots  *)
(* nobody has stored to yet never answer, and the millisecond that marks a *)
(* prediction to buy changes neither the answer nor the range.             *)
(***************************************************************************)
Near(time) == Abs(time - asked) <= (Tolerance \div Step) * Step

AnswerIsPrediction ==
  /\ answer \in {"WantBuy", "DontBuy"} => nearest # Never /\ Near(nearest.time)
  /\ answer = "WantBuy" => nearest.want
  /\ answer = "DontBuy" => ~nearest.want

(***************************************************************************)
(* Predictions that stay in the cache during the look-up are not missed,   *)
(* whatever is stored around them meanwhile: one near enough gives a sure  *)
(* answer.                                                                 *)
(***************************************************************************)
Stayed == Index \ overwritten

SureIfPredicted ==
  answer = "NotSure" => \A s \in Stayed : ~Near(stored[s].time)

(***************************************************************************)
(* If the very grid time of the tick was predicted, no prediction for      *)
(* another time decides, and a prediction not to buy outweighs one to buy. *)
(***************************************************************************)
OwnTimeDecides ==
  answer # "none" =>
    \A s \in Stayed : stored[s].time = asked =>
      /\ nearest.time = asked
      /\ ~stored[s].want => answer = "DontBuy"
=============================================================================
