--------------------------- MODULE WantCache_proofs ---------------------------
(***************************************************************************)
(* What a look-up returns, for any number of slots, any tolerance that     *)
(* leaves room for the mark, and any interleaving of loads and stores.     *)
(*                                                                         *)
(* Of the clock the argument needs only that grid times are whole steps,   *)
(* and, for the types, that they keep the fields of HHMMSSmmm.             *)
(* A slot is the time of its prediction or one less, so a distance tells   *)
(* the times apart, and the minimum so far is no farther from the tick     *)
(* than any slot that was loaded and has stayed.                           *)
(***************************************************************************)
EXTENDS WantCache, TLAPS

Whole(time) == time \in Int /\ time % Step = 0

\* The conversions keep whole steps.
LEMMA LinearWhole ==
  ASSUME NEW t \in Nat, t % Step = 0
  PROVE  Whole(timestampLinear(t)) /\ timestampLinear(t) >= 0
<1>1. (t % 1000) % 100 = 0 /\ t % 1000 \in Nat
  BY SMT DEF Step
<1>2. PICK h \in Nat : h = t \div 10000000
  BY SMT
<1>3. PICK m \in Nat : m = (t \div 100000) % 100
  BY SMT
<1>4. PICK s \in Nat : s = (t \div 1000) % 100
  BY SMT
<1>5. PICK u \in Nat : u = t % 1000 /\ u % 100 = 0
  BY SMT, <1>1
<1>6. timestampLinear(t) = (h * 3600 + m * 60 + s) * 1000 + u
  BY SMT, <1>2, <1>3, <1>4, <1>5 DEF timestampLinear
<1> QED
  BY SMT, <1>5, <1>6 DEF Whole, Step

\* So does the way back to HHMMSSmmm,
LEMMA DelinearWhole ==
  ASSUME NEW x \in Int, x % Step = 0
  PROVE  timestampDelinear(x) \in Nat /\ timestampDelinear(x) % Step = 0
<1>1. (x % 1000) % 100 = 0 /\ x % 1000 \in Nat
  BY SMT DEF Step
<1> DEFINE b == ((x \div 1000) % 60) + 100 * (((x \div 60000) % 60) + 100 * ((x \div 3600000) % 24))
<1>2. b \in Nat
  BY SMT
<1>3. timestampDelinear(x) = (x % 1000) + 1000 * b
  BY SMT DEF timestampDelinear
<1> HIDE DEF b
<1>4. (x % 1000) + 1000 * b \in Nat /\ ((x % 1000) + 1000 * b) % 100 = 0
  BY SMT, <1>1, <1>2
<1> QED
  BY SMT, <1>3, <1>4 DEF Step

\* and an advance by one step.
LEMMA AdvanceWhole ==
  ASSUME NEW t \in Nat, t % Step = 0
  PROVE  timestampAdvance100ms(t) \in Nat /\ timestampAdvance100ms(t) % Step = 0
<1> DEFINE y == timestampAbsLinear(t)
<1>1. y \in Int /\ y % 100 = 0
  <2>1. timestampLinear(t) \in Int /\ timestampLinear(t) % 100 = 0
    BY LinearWhole DEF Whole, Step
  <2> QED
    BY SMT, <2>1 DEF timestampAbsLinear, Open, Morning, Lunch, Step
<1> HIDE DEF y
<1> DEFINE x == (IF y + Step > Morning THEN (y + Step) + (Lunch - Step) ELSE y + Step) + Open
<1>2. x \in Int /\ x % Step = 0
  BY SMT, <1>1 DEF Open, Morning, Lunch, Step
<1>3. timestampAdvance100ms(t) = timestampDelinear(x)
  BY SMT DEF timestampAdvance100ms, timestampAbsDelinear, y
<1> HIDE DEF x
<1> QED
  BY <1>2, <1>3, DelinearWhole

\* The time of a tick is rounded to whole steps.
LEMMA RoundedWhole ==
  ASSUME NEW t \in Nat
  PROVE  Whole(roundedTick(t))
<1>1. timestampLinear(t) \in Int
  BY SMT DEF timestampLinear
<1> QED
  BY SMT, <1>1 DEF roundedTick, Whole, Step

-----------------------------------------------------------------------------
Prediction == [time : Int, want : BOOLEAN]

\* What a slot holds for the prediction p.
Slot(p) == IF p.want THEN p.time - 1 ELSE p.time

ClockInv == nextTickTimestamp \in Nat /\ nextTickTimestamp % Step = 0

SlotsInv ==
  /\ wantBuyTimestamp \in [Index -> Int] /\ stored \in [Index -> Prediction]
  /\ wantBuyCurrentIndex \in Index
  /\ predicted \in {0, 1, 2}
  /\ \A s \in Index : Whole(stored[s].time) /\ wantBuyTimestamp[s] = Slot(stored[s])

Loaded == 0 .. i - 1

\* The minimum so far is as near as any slot loaded that has stayed.
Nearest ==
  \A s \in Loaded \ overwritten :
    Abs(minTimestamp - asked) <= Abs(wantBuyTimestamp[s] - asked)

\* The look-up in progress, and its answer.
LookInv ==
  IF asked = NoTime THEN answer = "none"
  ELSE /\ Whole(asked) /\ asked > Tolerance
       /\ i \in Nat /\ 1 <= i /\ i <= Slots
       /\ nearest \in Prediction /\ Whole(nearest.time)
       /\ minTimestamp = Slot(nearest)
       /\ Nearest
       /\ answer # "none" => i = Slots /\ answer = Decide

CacheInv == ClockInv /\ SlotsInv /\ LookInv

\* A slot holds a number.
LEMMA SlotInt == ASSUME NEW p \in Prediction PROVE Slot(p) \in Int
BY DEF Slot, Prediction

\* A slot that nobody stored to holds 0.
LEMMA NeverSlot == Never \in Prediction /\ Whole(Never.time) /\ Slot(Never) = 0
<1>1. Never \in Prediction /\ Never.time = 0 /\ ~Never.want
  BY DEF Never, Prediction
<1> QED
  BY SMT, <1>1 DEF Whole, Slot, Step

\* The cache is empty at first.
LEMMA InitCache == Init => CacheInv
<1> SUFFICES ASSUME Init PROVE CacheInv
  OBVIOUS
<1>1. ClockInv
  BY SMT DEF Init, ClockInv, Step
<1>2. SlotsInv
  <2>1. 0 \in Index
    BY SlotsAssumption DEF Index
  <2>2. \A s \in Index : stored[s] = Never /\ wantBuyTimestamp[s] = 0
    BY SMT DEF Init
  <2> QED
    BY SMT, <2>1, <2>2, NeverSlot DEF Init, SlotsInv
<1>3. LookInv
  BY SMT DEF Init, LookInv
<1> QED
  BY <1>1, <1>2, <1>3 DEF CacheInv

\* A prediction goes to one slot, and that slot counts as overwritten.
LEMMA PredictCache ==
  ASSUME CacheInv, NEW want \in BOOLEAN, Predict(want)
  PROVE  CacheInv'
<1> DEFINE timestamp == futureTimestamp
           c == wantBuyCurrentIndex
           p == [time |-> timestampLinear(timestamp), want |-> want]
<1>1. timestamp \in Nat /\ timestamp % Step = 0
  <2>1. After \in Nat /\ After % Step = 0
    BY AdvanceWhole DEF CacheInv, ClockInv, After
  <2>2. timestampAdvance100ms(After) \in Nat /\ timestampAdvance100ms(After) % Step = 0
    BY <2>1, AdvanceWhole
  <2> QED
    BY <2>1, <2>2 DEF futureTimestamp, CacheInv, ClockInv, SlotsInv
<1>2. /\ pushWantBuyTimestamp(timestamp, want) /\ Record(timestamp, want)
      /\ predicted' \in {0, 1, 2}
      /\ UNCHANGED <<nextTickTimestamp, askVars>>
  BY DEF Predict, CacheInv, SlotsInv
<1> HIDE DEF timestamp
<1>3. p \in Prediction /\ Whole(p.time)
  <2>1. Whole(timestampLinear(timestamp))
    BY <1>1, LinearWhole
  <2> QED
    BY <2>1 DEF Prediction, Whole
<1>4. encode(timestamp, want) = Slot(p) /\ Slot(p) \in Int
  <2>1. timestampLinear(timestamp) \in Int
    BY <1>3 DEF Whole
  <2> QED
    BY <2>1 DEF encode, Slot
<1>5. /\ wantBuyTimestamp' = [wantBuyTimestamp EXCEPT ![c] = Slot(p)]
      /\ stored' = [stored EXCEPT ![c] = p]
      /\ wantBuyCurrentIndex' = (c + 1) % Slots
      /\ overwritten' = IF asked = NoTime THEN {} ELSE overwritten \cup {c}
  BY <1>2, <1>4 DEF pushWantBuyTimestamp, Record
<1>6. c \in Index /\ (c + 1) % Slots \in Index
  <2>1. c \in Nat
    BY SlotsAssumption DEF CacheInv, SlotsInv, Index
  <2>2. \A k, m \in Nat : m # 0 => k % m \in 0 .. m - 1
    BY SMT
  <2> QED
    BY <2>1, <2>2, SlotsAssumption DEF CacheInv, SlotsInv, Index
<1> HIDE DEF c, p
<1>7. ClockInv'
  BY <1>2 DEF CacheInv, ClockInv
<1>8. SlotsInv'
  BY <1>2, <1>3, <1>4, <1>5, <1>6 DEF CacheInv, SlotsInv
<1>9. LookInv'
  <2>1. CASE asked = NoTime
    BY <1>2, <2>1 DEF askVars, CacheInv, LookInv
  <2>2. CASE asked # NoTime
    <3>1. \A s \in Loaded \ overwritten' :
            s \in Loaded \ overwritten /\ s # c
      BY <1>5, <2>2
    <3>2. \A s \in Loaded : s \in Index
      BY <2>2, SlotsAssumption DEF CacheInv, LookInv, Loaded, Index
    <3>3. \A s \in Loaded \ overwritten' : wantBuyTimestamp'[s] = wantBuyTimestamp[s]
      BY <1>5, <3>1, <3>2 DEF CacheInv, SlotsInv
    <3>4. Loaded' = Loaded
      BY <1>2 DEF Loaded, askVars
    <3>5. /\ asked' = asked /\ i' = i /\ nearest' = nearest
          /\ minTimestamp' = minTimestamp /\ answer' = answer
      BY <1>2 DEF askVars
    <3>6. Nearest'
      BY <3>1, <3>3, <3>4, <3>5, <2>2 DEF CacheInv, LookInv, Nearest
    <3>7. Decide' = Decide
      BY <3>5 DEF Decide, distance
    <3> QED
      BY <2>2, <3>5, <3>6, <3>7 DEF CacheInv, LookInv
  <2> QED
    BY <2>1, <2>2
<1> QED
  BY <1>7, <1>8, <1>9 DEF CacheInv

\* The clock moves on.
LEMMA TradeCache == ASSUME CacheInv, Trade PROVE CacheInv'
<1>1. ClockInv'
  BY AdvanceWhole DEF CacheInv, ClockInv, Trade
<1>2. SlotsInv'
  BY DEF CacheInv, SlotsInv, Trade
<1>3. LookInv'
  BY DEF CacheInv, LookInv, Nearest, Trade, askVars, Loaded, distance, Decide
<1> QED
  BY <1>1, <1>2, <1>3 DEF CacheInv

\* The first load: the nearest of one.
LEMMA AskCache ==
  ASSUME CacheInv, NEW timestamp \in TickTimes, Ask(timestamp)
  PROVE  CacheInv'
<1>1. ClockInv' /\ SlotsInv'
  BY DEF CacheInv, ClockInv, SlotsInv, Ask, predictVars
<1>2. Whole(roundedTick(timestamp)) /\ roundedTick(timestamp) > Tolerance
  BY TickTimesAssumption, RoundedWhole
<1>3. asked' # NoTime
  BY <1>2, ToleranceAssumption DEF Ask, NoTime, Whole
<1>4. answer' = "none"
  BY DEF CacheInv, LookInv, Ask
<1>5. 0 \in Index /\ Loaded' = {0}
  BY SlotsAssumption DEF Index, Loaded, Ask
<1>6. /\ nearest' \in Prediction /\ Whole(nearest'.time)
      /\ minTimestamp' = Slot(nearest') /\ minTimestamp' \in Int
  BY <1>5 DEF CacheInv, SlotsInv, Ask
<1>7. wantBuyTimestamp'[0] = minTimestamp'
  BY DEF Ask, predictVars
<1>8. Abs(minTimestamp' - asked') \in Int
  BY <1>2, <1>6 DEF Ask, Abs, Whole
<1>9. Nearest'
  <2>1. Abs(minTimestamp' - asked') <= Abs(wantBuyTimestamp'[0] - asked')
    BY <1>7, <1>8
  <2> QED
    BY <1>5, <2>1 DEF Nearest
<1>10. i' = 1 /\ asked' = roundedTick(timestamp)
  BY DEF Ask
<1>11. LookInv'
  BY <1>2, <1>3, <1>4, <1>6, <1>9, <1>10, SlotsAssumption DEF LookInv
<1> QED
  BY <1>1, <1>11 DEF CacheInv

\* A further load: the nearer one stays.
LEMMA LoadCache == ASSUME CacheInv, LoadSlot PROVE CacheInv'
<1>1. ClockInv' /\ SlotsInv'
  BY DEF CacheInv, ClockInv, SlotsInv, LoadSlot, predictVars
<1>2. asked # NoTime /\ i < Slots /\ i \in Nat /\ 1 <= i /\ asked \in Int
  BY DEF CacheInv, LookInv, LoadSlot, Whole
<1>3. i \in Index
  BY <1>2, SlotsAssumption DEF Index
<1>4. /\ asked' = asked /\ answer' = answer /\ overwritten' = overwritten
      /\ wantBuyTimestamp' = wantBuyTimestamp /\ i' = i + 1
  BY DEF LoadSlot, predictVars
<1>5. answer = "none"
  BY <1>2 DEF CacheInv, LookInv
<1> DEFINE d(x) == Abs(x - asked)
<1>6. minTimestamp \in Int /\ wantBuyTimestamp[i] \in Int
      /\ \A s \in Index : wantBuyTimestamp[s] \in Int
  BY <1>2, <1>3, SlotInt DEF CacheInv, LookInv, SlotsInv
<1>7. \A x \in Int : d(x) \in Int
  BY <1>2 DEF Abs
<1>8. /\ nearest' \in Prediction /\ Whole(nearest'.time) /\ minTimestamp' = Slot(nearest')
  BY <1>2, <1>3 DEF LoadSlot, CacheInv, LookInv, SlotsInv
<1>9. d(minTimestamp') <= d(minTimestamp) /\ d(minTimestamp') <= d(wantBuyTimestamp[i])
      /\ minTimestamp' \in Int
  BY <1>6, <1>7 DEF LoadSlot, distance
<1>10. \A s \in Loaded' : s \in Index /\ (s = i \/ s \in Loaded)
  BY <1>2, <1>4, SlotsAssumption DEF Loaded, Index
<1>11. \A s \in Loaded \ overwritten : d(minTimestamp) <= d(wantBuyTimestamp[s])
  BY <1>2 DEF CacheInv, LookInv, Nearest
<1>12. \A s \in (Loaded \ overwritten)' : d(minTimestamp') <= d(wantBuyTimestamp[s])
  <2> SUFFICES ASSUME NEW s \in (Loaded \ overwritten)'
               PROVE  d(minTimestamp') <= d(wantBuyTimestamp[s])
    OBVIOUS
  <2>1. CASE s = i
    BY <1>9, <2>1
  <2>2. CASE s # i
    <3>1. s \in Loaded \ overwritten /\ s \in Index
      BY <1>4, <1>10, <2>2
    <3>2. d(minTimestamp) <= d(wantBuyTimestamp[s])
      BY <1>11, <3>1
    <3>3. d(minTimestamp') \in Int /\ d(minTimestamp) \in Int /\ d(wantBuyTimestamp[s]) \in Int
      BY <1>6, <1>7, <1>9, <3>1
    <3> HIDE DEF d
    <3> QED
      BY <1>9, <3>2, <3>3
  <2> QED
    BY <2>1, <2>2
<1>13. Nearest'
  BY <1>4, <1>12 DEF Nearest
<1>14. LookInv'
  BY <1>2, <1>4, <1>5, <1>8, <1>13, SlotsAssumption DEF LookInv, CacheInv
<1> QED
  BY <1>1, <1>14 DEF CacheInv

\* The answer is decided.
LEMMA AnswerCache == ASSUME CacheInv, Answer PROVE CacheInv'
<1>1. ClockInv' /\ SlotsInv'
  BY DEF CacheInv, ClockInv, SlotsInv, Answer, predictVars
<1>2. /\ asked # NoTime /\ i = Slots /\ answer' = Decide
      /\ asked' = asked /\ i' = i /\ minTimestamp' = minTimestamp /\ nearest' = nearest
      /\ overwritten' = overwritten /\ wantBuyTimestamp' = wantBuyTimestamp
  BY DEF Answer, predictVars
<1>3. Decide' = Decide /\ Loaded' = Loaded
  BY <1>2 DEF Decide, distance, Loaded
<1>4. LookInv'
  BY <1>2, <1>3 DEF CacheInv, LookInv, Nearest
<1> QED
  BY <1>1, <1>4 DEF CacheInv

\* CacheInv is an invariant.
LEMMA CacheHolds == Spec => []CacheInv
<1>1. CacheInv /\ [Next]_vars => CacheInv'
  <2> SUFFICES ASSUME CacheInv, [Next]_vars PROVE CacheInv'
    OBVIOUS
  <2>1. CASE UNCHANGED vars
    BY <2>1 DEF CacheInv, ClockInv, SlotsInv, LookInv, Nearest, vars, predictVars,
                askVars, Loaded, distance, Decide
  <2>2. ASSUME NEW want \in BOOLEAN, Predict(want) PROVE CacheInv'
    BY <2>2, PredictCache
  <2>3. ASSUME NEW timestamp \in TickTimes, Ask(timestamp) PROVE CacheInv'
    BY <2>3, AskCache
  <2> QED
    BY <2>1, <2>2, <2>3, TradeCache, LoadCache, AnswerCache DEF Next
<1> QED
  BY <1>1, InitCache, PTL DEF Spec

-----------------------------------------------------------------------------
\* Whole steps within the tolerance are within its whole steps, and the mark
\* does not matter.
LEMMA NearIsNear ==
  ASSUME NEW time, Whole(time), NEW tick, Whole(tick), NEW b \in {0, 1}
  PROVE  (Abs(time - b - tick) <= Tolerance)
           <=> (Abs(time - tick) <= (Tolerance \div Step) * Step)
<1> DEFINE q == Tolerance \div 100
           r == Tolerance % 100
<1>1. Tolerance = 100 * q + r /\ q \in Nat /\ 1 <= r /\ r <= 98 /\ r \in Nat
  BY SMT, ToleranceAssumption DEF Step
<1>2. PICK j \in Int : time = 100 * j
  BY SMT DEF Whole, Step
<1>3. PICK k \in Int : tick = 100 * k
  BY SMT DEF Whole, Step
<1>4. (Tolerance \div Step) * Step = 100 * q
  BY SMT, <1>1 DEF Step
<1> HIDE DEF q, r
<1> QED
  BY SMT, <1>1, <1>2, <1>3, <1>4 DEF Abs

(***************************************************************************)
(* An answer is one of the predictions made, near enough to the tick       *)
(* (checkWantBuyAtTimestamp).                                              *)
(***************************************************************************)
THEOREM AnswersArePredictions == Spec => []AnswerIsPrediction
<1>1. CacheInv => AnswerIsPrediction
  <2> SUFFICES ASSUME CacheInv, answer \in {"WantBuy", "DontBuy"}
               PROVE  /\ nearest # Never /\ Near(nearest.time)
                      /\ answer = "WantBuy" => nearest.want
                      /\ answer = "DontBuy" => ~nearest.want
    BY DEF AnswerIsPrediction
  <2>1. /\ Whole(asked) /\ asked > Tolerance /\ nearest \in Prediction
        /\ Whole(nearest.time) /\ minTimestamp = Slot(nearest) /\ answer = Decide
    BY DEF CacheInv, LookInv
  <2>2. distance(minTimestamp) <= Tolerance
    <3>1. ~(distance(minTimestamp) > Tolerance)
      BY <2>1 DEF Decide
    <3>2. distance(minTimestamp) \in Int
      BY <2>1, SlotInt DEF distance, Abs, Whole
    <3> QED
      BY <3>1, <3>2, ToleranceAssumption
  <2>3. PICK b \in {0, 1} : minTimestamp = nearest.time - b /\ (b = 1 <=> nearest.want)
    BY <2>1 DEF Slot, Prediction, Whole
  <2>4. Near(nearest.time)
    BY <2>1, <2>2, <2>3, NearIsNear DEF distance, Near
  <2>5. nearest # Never
    <3> SUFFICES ASSUME nearest = Never PROVE FALSE
      OBVIOUS
    <3>1. minTimestamp = 0
      BY <2>1, NeverSlot
    <3> QED
      BY <2>1, <2>2, <3>1, ToleranceAssumption DEF distance, Abs, Whole
  <2>6. minTimestamp % 2 = b
    <3>1. PICK j \in Int : nearest.time = 100 * j
      BY SMT, <2>1 DEF Whole, Step
    <3>2. minTimestamp = 100 * j - b
      BY <2>3, <3>1
    <3> QED
      BY SMT, <3>2
  <2> QED
    BY <2>1, <2>2, <2>3, <2>4, <2>5, <2>6 DEF Decide
<1> QED
  BY <1>1, CacheHolds, PTL

(***************************************************************************)
(* The look-up misses no prediction that is near enough and stays in the   *)
(* cache while it runs.                                                    *)
(***************************************************************************)
THEOREM PredictionsFound == Spec => []SureIfPredicted
<1>1. CacheInv => SureIfPredicted
  <2> SUFFICES ASSUME CacheInv, answer = "NotSure", NEW s \in Stayed, Near(stored[s].time)
               PROVE  FALSE
    BY DEF SureIfPredicted
  <2>1. /\ Whole(asked) /\ answer = Decide /\ i = Slots
        /\ nearest \in Prediction /\ minTimestamp = Slot(nearest)
    BY DEF CacheInv, LookInv
  <2>2. distance(minTimestamp) > Tolerance
    BY <2>1 DEF Decide
  <2>3. s \in Loaded \ overwritten /\ s \in Index
    BY <2>1 DEF Stayed, Loaded, Index
  <2>4. distance(minTimestamp) <= distance(wantBuyTimestamp[s])
    BY <2>1, <2>3 DEF CacheInv, LookInv, Nearest, distance
  <2>5. /\ stored[s] \in Prediction /\ Whole(stored[s].time)
        /\ wantBuyTimestamp[s] = Slot(stored[s])
    BY <2>3 DEF CacheInv, SlotsInv
  <2>6. PICK b \in {0, 1} : wantBuyTimestamp[s] = stored[s].time - b
    BY <2>5 DEF Slot, Prediction, Whole
  <2>7. distance(wantBuyTimestamp[s]) <= Tolerance
    BY <2>1, <2>5, <2>6, NearIsNear DEF distance, Near
  <2>8. distance(minTimestamp) \in Int /\ distance(wantBuyTimestamp[s]) \in Int
    BY <2>1, <2>5, SlotInt DEF distance, Abs, Whole
  <2> QED
    BY <2>2, <2>4, <2>7, <2>8, ToleranceAssumption
<1> QED
  BY <1>1, CacheHolds, PTL

(***************************************************************************)
(* A prediction for the time of the tick itself decides, and if there are  *)
(* two of them, the one not to buy.                                        *)
(***************************************************************************)
THEOREM OwnTimeWins == Spec => []OwnTimeDecides
<1>1. CacheInv => OwnTimeDecides
  <2> SUFFICES ASSUME CacheInv, answer # "none", NEW s \in Stayed, stored[s].time = asked
               PROVE  nearest.time = asked /\ (~stored[s].want => answer = "DontBuy")
    BY DEF OwnTimeDecides
  <2>1. /\ Whole(asked) /\ answer = Decide /\ i = Slots
        /\ nearest \in Prediction /\ Whole(nearest.time) /\ minTimestamp = Slot(nearest)
    BY DEF CacheInv, LookInv
  <2>2. s \in Loaded \ overwritten /\ s \in Index
    BY <2>1 DEF Stayed, Loaded, Index
  <2>3. distance(minTimestamp) <= distance(wantBuyTimestamp[s])
    BY <2>1, <2>2 DEF CacheInv, LookInv, Nearest, distance
  <2>4. stored[s] \in Prediction /\ wantBuyTimestamp[s] = Slot(stored[s])
    BY <2>2 DEF CacheInv, SlotsInv
  <2>5. PICK b \in {0, 1} : minTimestamp = nearest.time - b
    BY <2>1 DEF Slot, Prediction, Whole
  <2>6. PICK c \in {0, 1} : wantBuyTimestamp[s] = asked - c /\ (~stored[s].want => c = 0)
    BY <2>1, <2>4 DEF Slot, Prediction, Whole
  <2>7. PICK j \in Int : nearest.time = 100 * j
    BY SMT, <2>1 DEF Whole, Step
  <2>8. PICK k \in Int : asked = 100 * k
    BY SMT, <2>1 DEF Whole, Step
  <2>9. j = k /\ b <= c
    BY <2>3, <2>5, <2>6, <2>7, <2>8 DEF distance, Abs
  <2>10. ASSUME ~stored[s].want PROVE answer = "DontBuy"
    <3>1. minTimestamp = 100 * k
      BY <2>5, <2>6, <2>7, <2>9, <2>10
    <3>2. distance(minTimestamp) = 0 /\ minTimestamp % 2 = 0
      BY SMT, <3>1, <2>8 DEF distance, Abs
    <3> QED
      BY <2>1, <3>2, ToleranceAssumption DEF Decide
  <2> QED
    BY <2>7, <2>8, <2>9, <2>10
<1> QED
  BY <1>1, CacheHolds, PTL

-----------------------------------------------------------------------------
\* A day has some length.
LEMMA DayLong == Day \in Nat /\ Day > 0
BY SMT DEF Day

\* HHMMSSmmm, written from its fields and read back.
Stamp(h, m, s, u) == u + 1000 * (s + 100 * (m + 100 * h))

LEMMA Fields ==
  ASSUME NEW h \in Nat, NEW m \in Nat, NEW s \in Nat, NEW u \in Nat,
         h < 24, m < 60, s < 60, u < 1000
  PROVE  /\ Stamp(h, m, s, u) \in 0 .. LastTime
         /\ timestampLinear(Stamp(h, m, s, u)) \in 0 .. Day - 1
<1> DEFINE t == u + 1000 * (s + 100 * (m + 100 * h))
<1>1. t \in 0 .. LastTime
  <2>1. h <= 23 /\ m <= 59 /\ s <= 59 /\ u <= 999
    BY SMT
  <2>2. 0 <= t /\ t <= 999 + 1000 * (59 + 100 * (59 + 100 * 23)) /\ t \in Int
    BY SMT, <2>1
  <2> HIDE DEF t
  <2>3. 0 <= t /\ t <= LastTime /\ t \in Int
    BY SMT, <2>2 DEF LastTime
  <2>4. LastTime \in Int
    BY SMT DEF LastTime
  <2> QED
    BY <2>3, <2>4
<1>2. t \div 10000000 = h
  BY SMT
<1>3. (t \div 100000) % 100 = m
  <2>1. t \div 100000 = m + 100 * h
    BY SMT
  <2> QED
    BY SMT, <2>1
<1>4. (t \div 1000) % 100 = s
  <2>1. t \div 1000 = s + 100 * (m + 100 * h)
    BY SMT
  <2> QED
    BY SMT, <2>1
<1>5. t % 1000 = u
  BY SMT
<1>6. (h * 3600 + m * 60 + s) * 1000 + u \in 0 .. Day - 1
  <2>1. h <= 23 /\ m <= 59 /\ s <= 59 /\ u <= 999
    BY SMT
  <2>2. 0 <= h * 3600 + m * 60 + s /\ h * 3600 + m * 60 + s <= 86399
    BY SMT, <2>1
  <2> DEFINE x == (h * 3600 + m * 60 + s) * 1000 + u
  <2>3. 0 <= x /\ x < 86400000 /\ x \in Int
    BY SMT, <2>1, <2>2
  <2> HIDE DEF x
  <2>4. 0 <= x /\ x < Day /\ x \in Int
    BY SMT, <2>3 DEF Day
  <2>5. x \in 0 .. Day - 1
    BY <2>4, DayLong
  <2> QED
    BY <2>5 DEF x
<1> HIDE DEF t
<1>7. timestampLinear(t) = (h * 3600 + m * 60 + s) * 1000 + u
  BY SMT, <1>2, <1>3, <1>4, <1>5 DEF timestampLinear
<1> QED
  BY <1>1, <1>6, <1>7 DEF t, Stamp

\* HHMMSSmmm of some instant.
TimeOfDay(t) == \E x \in Int : t = timestampDelinear(x)

\* Such a time has its fields, so that its linear time is within the day.
LEMMA DayFields ==
  ASSUME NEW t, TimeOfDay(t)
  PROVE  t \in 0 .. LastTime /\ timestampLinear(t) \in 0 .. Day - 1
<1>1. PICK x \in Int : t = timestampDelinear(x)
  BY DEF TimeOfDay
<1> DEFINE u == x % 1000
           s == (x \div 1000) % 60
           m == (x \div 60000) % 60
           h == (x \div 3600000) % 24
<1>2. /\ u \in Nat /\ s \in Nat /\ m \in Nat /\ h \in Nat
      /\ u < 1000 /\ s < 60 /\ m < 60 /\ h < 24
  BY SMT
<1>3. t = Stamp(h, m, s, u)
  BY SMT, <1>1 DEF timestampDelinear, Stamp
<1> HIDE DEF u, s, m, h
<1> QED
  BY <1>2, <1>3, Fields

\* The opening is one, and an advance gives another.
LEMMA OpeningTime == TimeOfDay(93000000)
<1>1. timestampDelinear(34200000) = 93000000
  BY SMT DEF timestampDelinear
<1>2. 34200000 \in Int
  BY SMT
<1> QED
  BY SMT, <1>1, <1>2 DEF TimeOfDay

LEMMA AdvancedTime ==
  ASSUME NEW t \in Nat
  PROVE  TimeOfDay(timestampAdvance100ms(t))
<1> DEFINE y == timestampAbsLinear(t)
           x == (IF y + Step > Morning THEN (y + Step) + (Lunch - Step) ELSE y + Step) + Open
<1>1. y \in Int
  <2>1. timestampLinear(t) \in Int
    BY SMT DEF timestampLinear
  <2> QED
    BY SMT, <2>1 DEF timestampAbsLinear, Open, Morning, Lunch, Step
<1>2. timestampAdvance100ms(t) = timestampDelinear(x)
  BY SMT DEF timestampAdvance100ms, timestampAbsDelinear
<1> HIDE DEF y
<1>3. x \in Int
  BY SMT, <1>1 DEF Open, Morning, Lunch, Step
<1> HIDE DEF x
<1> QED
  BY SMT, <1>2, <1>3 DEF TimeOfDay

\* What the type invariant needs beyond CacheInv.
TypeInv ==
  /\ TimeOfDay(nextTickTimestamp)
  /\ \A s \in Index : wantBuyTimestamp[s] \in -1 .. Day - 1
  /\ minTimestamp \in -1 .. Day - 1
  /\ i \in 0 .. Slots
  /\ answer \in {"none", "WantBuy", "DontBuy", "NotSure"}
  /\ overwritten \subseteq Index

\* It holds at first,
LEMMA InitTypes == Init => TypeInv
<1> SUFFICES ASSUME Init PROVE TypeInv
  OBVIOUS
<1>1. TimeOfDay(nextTickTimestamp)
  BY SMT, OpeningTime DEF Init
<1>2. 0 \in -1 .. Day - 1
  BY DayLong
<1>3. 0 \in 0 .. Slots
  BY SlotsAssumption
<1> QED
  BY SMT, <1>1, <1>2, <1>3 DEF Init, TypeInv

\* a prediction keeps it,
LEMMA PredictTypes ==
  ASSUME CacheInv, TypeInv, NEW want \in BOOLEAN, Predict(want)
  PROVE  TypeInv'
<1> DEFINE timestamp == futureTimestamp
           c == wantBuyCurrentIndex
<1>1. TimeOfDay(timestamp)
  <2>1. After \in Nat /\ TimeOfDay(After)
    BY AdvancedTime, AdvanceWhole DEF CacheInv, ClockInv, After
  <2>2. TimeOfDay(timestampAdvance100ms(After))
    BY <2>1, AdvancedTime
  <2> QED
    BY <2>1, <2>2 DEF futureTimestamp, CacheInv, SlotsInv, TypeInv
<1>2. /\ pushWantBuyTimestamp(timestamp, want) /\ Record(timestamp, want)
      /\ UNCHANGED <<nextTickTimestamp, askVars>>
  BY DEF Predict
<1> HIDE DEF timestamp
<1>3. encode(timestamp, want) \in -1 .. Day - 1
  <2>1. timestampLinear(timestamp) \in 0 .. Day - 1
    BY <1>1, DayFields
  <2> QED
    BY <2>1, DayLong DEF encode
<1>4. \A s \in Index : wantBuyTimestamp'[s] \in -1 .. Day - 1
  <2>1. /\ wantBuyTimestamp \in [Index -> Int]
        /\ \A s \in Index : wantBuyTimestamp[s] \in -1 .. Day - 1
    BY DEF CacheInv, SlotsInv, TypeInv
  <2>2. wantBuyTimestamp' = [wantBuyTimestamp EXCEPT ![c] = encode(timestamp, want)]
    BY <1>2 DEF pushWantBuyTimestamp
  <2> QED
    BY <1>3, <2>1, <2>2
<1>5. overwritten' \subseteq Index
  BY <1>2 DEF Record, CacheInv, SlotsInv, TypeInv
<1> QED
  BY <1>2, <1>4, <1>5 DEF TypeInv, askVars

\* and so do the other actions.
LEMMA TypesKept == CacheInv /\ TypeInv /\ [Next]_vars => TypeInv'
<1> SUFFICES ASSUME CacheInv, TypeInv, [Next]_vars PROVE TypeInv'
  OBVIOUS
<1>1. CASE UNCHANGED vars
  BY <1>1 DEF TypeInv, vars, predictVars, askVars
<1>2. ASSUME NEW want \in BOOLEAN, Predict(want) PROVE TypeInv'
  BY <1>2, PredictTypes
<1>3. CASE Trade
  <2>1. TimeOfDay(nextTickTimestamp')
    BY <1>3, AdvancedTime DEF Trade, CacheInv, ClockInv
  <2> QED
    BY <1>3, <2>1 DEF TypeInv, Trade, askVars
<1>4. ASSUME NEW timestamp \in TickTimes, Ask(timestamp) PROVE TypeInv'
  <2>1. 0 \in Index /\ 1 \in 0 .. Slots
    BY SlotsAssumption DEF Index
  <2> QED
    BY <1>4, <2>1 DEF TypeInv, Ask, predictVars
<1>5. CASE LoadSlot
  <2>1. i \in Index /\ i + 1 \in 0 .. Slots
    BY <1>5, SlotsAssumption DEF TypeInv, LoadSlot, Index
  <2> QED
    BY <1>5, <2>1 DEF TypeInv, LoadSlot, predictVars
<1>6. CASE Answer
  <2>1. answer' \in {"none", "WantBuy", "DontBuy", "NotSure"}
    BY <1>6 DEF Answer, Decide
  <2> QED
    BY <1>6, <2>1 DEF TypeInv, Answer, predictVars
<1> QED
  BY <1>1, <1>2, <1>3, <1>4, <1>5, <1>6 DEF Next

(***************************************************************************)
(* Every value has its type: the index never leaves the slots, whose       *)
(* number the code masks it with (pushWantBuyTimestamp), and a slot is a   *)
(* millisecond of the day or one less.                                     *)
(***************************************************************************)
THEOREM TypesHold == Spec => []TypeOK
<1>1. CacheInv /\ TypeInv => TypeOK
  <2> SUFFICES ASSUME CacheInv, TypeInv PROVE TypeOK
    OBVIOUS
  <2>1. nextTickTimestamp \in 0 .. LastTime
    BY DayFields DEF TypeInv
  <2>2. wantBuyTimestamp \in [Index -> -1 .. Day - 1]
    BY DEF CacheInv, SlotsInv, TypeInv
  <2> QED
    BY <2>1, <2>2 DEF CacheInv, SlotsInv, TypeInv, TypeOK
<1>2. CacheInv /\ CacheInv' /\ TypeInv /\ [Next]_vars => TypeInv'
  BY TypesKept
<1> QED
  BY <1>1, <1>2, InitTypes, CacheHolds, PTL DEF Spec
=============================================================================
