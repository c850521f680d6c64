---------------------------- MODULE TradingClock -----------------------------
(***************************************************************************)
(* The grid of times on which StockCompute takes its snapshots and makes   *)
(* its predictions: nextTickTimestamp starts at the opening and only ever  *)
(* moves by timestampAdvance100ms, over the lunch break to the close.      *)
(***************************************************************************)
EXTENDS Timestamp

CONSTANT Steps   \* how many steps the day has

ASSUME StepsAssumption ==
  Steps \in Nat /\ Open + Lunch + Step * Steps < Day

VARIABLES
  nextTickTimestamp,   \* the end of the current interval
  count                \* how many steps were taken

clockVars == <<nextTickTimestamp, count>>

ClockInit ==
  /\ nextTickTimestamp = 93000000
  /\ count = 0

Advance ==
  /\ count < Steps
  /\ nextTickTimestamp' = timestampAdvance100ms(nextTickTimestamp)
  /\ count' = count + 1

\* After the last trade of the day the clock stands still.
ClockSpec == ClockInit /\ [][Advance]_clockVars

-----------------------------------------------------------------------------
(***************************************************************************)
(* No interval is skipped, repeated or cut short, across the lunch break   *)
(* included: the difference that timestampDifference computes between any  *)
(* two grid times is 100 ms for each snapshot between them.                *)
(***************************************************************************)
OneStepEach == timestampAbsLinear(nextTickTimestamp) = Step * count

(***************************************************************************)
(* The clock shows no time inside the lunch break: a prediction for such a *)
(* time would be compared with no tick, and the one for 13:00:00.000 would *)
(* be missing when the afternoon opens.                                    *)
(***************************************************************************)
NeverInLunch ==
  LET time == timestampLinear(nextTickTimestamp)
  IN  time <= Open + Morning \/ time >= Open + Morning + Lunch

(***************************************************************************)
(* StockState rounds the time of a limit-up tick by itself, on the other   *)
(* thread: it arrives at the grid time that ends the interval of the tick, *)
(* the one StockCompute predicts for.  The exchange's clock has a          *)
(* resolution of Resolution milliseconds.                                  *)
(***************************************************************************)
Resolution == 10

RoundsToGrid ==
  \A d \in 0 .. Step \div Resolution - 1 :
    LET end == timestampLinear(nextTickTimestamp)
    IN  roundedTick(timestampDelinear(end - Resolution * d)) = end
=============================================================================
