------------------------- MODULE StockCompute_proofs -------------------------
(***************************************************************************)
(* The clock of StockCompute and the day that runs on it.                  *)
(*                                                                         *)
(* The conversions of timestamp.h are inverse to each other on the grid of *)
(* 100 ms steps, and the clock built from them takes one step at a time,   *)
(* however many steps the day has.                                         *)
(*                                                                         *)
(* What a prediction changes in the state is undone when it ends, so that  *)
(* the state as a restore would bring it back (Kept) goes through the day  *)
(* as if there were no predictions: it takes the steps of the clock, feeds *)
(* the filter once for each and keeps the volume of every trade.           *)
(***************************************************************************)
EXTENDS StockCompute, TradingClock, SequenceTheorems, FiniteSetTheorems, TLAPS

\* HHMMSSmmm.
Stamp(h, m, s, u) == u + 1000 * (s + 100 * (m + 100 * h))

\* The fields of HHMMSSmmm, read back from the number.
LEMMA Fields ==
  ASSUME NEW h \in Nat, NEW m \in Nat, NEW s \in Nat, NEW u \in Nat,
         h < 24, m < 60, s < 60, u < 1000
  PROVE  timestampLinear(Stamp(h, m, s, u))
           = (h * 3600 + m * 60 + s) * 1000 + u
<1> DEFINE t == u + 1000 * (s + 100 * (m + 100 * h))
<1>1. t \div 10000000 = h
  OBVIOUS
<1>2. (t \div 100000) % 100 = m
  <2>1. t \div 100000 = m + 100 * h
    OBVIOUS
  <2> QED
    BY <2>1
<1>3. (t \div 1000) % 100 = s
  <2>1. t \div 1000 = s + 100 * (m + 100 * h)
    OBVIOUS
  <2> QED
    BY <2>1
<1>4. t % 1000 = u
  OBVIOUS
<1>5. t = Stamp(h, m, s, u)
  BY DEF Stamp
<1> HIDE DEF t
<1> QED
  BY <1>1, <1>2, <1>3, <1>4, <1>5 DEF timestampLinear

\* Milliseconds since midnight, cut into fields.
LEMMA Cut ==
  ASSUME NEW x \in Nat, x < 86400000
  PROVE  /\ x % 1000 \in Nat /\ x % 1000 < 1000
         /\ (x \div 1000) % 60 \in Nat /\ (x \div 1000) % 60 < 60
         /\ (x \div 60000) % 60 \in Nat /\ (x \div 60000) % 60 < 60
         /\ (x \div 3600000) % 24 \in Nat /\ (x \div 3600000) % 24 < 24
         /\ x = ( ((x \div 3600000) % 24) * 3600 + ((x \div 60000) % 60) * 60
                  + ((x \div 1000) % 60) ) * 1000 + (x % 1000)
<1>1. /\ x \div 3600000 \in Nat
      /\ x \div 3600000 < 24
      /\ (x \div 3600000) % 24 = x \div 3600000
  BY SMT
<1>2. x \div 60000 = 60 * (x \div 3600000) + ((x \div 60000) % 60)
  BY SMT
<1>3. x \div 1000 = 60 * (x \div 60000) + ((x \div 1000) % 60)
  BY SMT
<1>4. x = 1000 * (x \div 1000) + (x % 1000)
  BY SMT
<1> QED
  BY SMT, <1>1, <1>2, <1>3, <1>4

\* Every millisecond of the day survives HHMMSSmmm.
LEMMA LinearDelinear ==
  ASSUME NEW x \in Nat, x < 86400000
  PROVE  timestampLinear(timestampDelinear(x)) = x
<1> DEFINE u == x % 1000
           s == (x \div 1000) % 60
           m == (x \div 60000) % 60
           h == (x \div 3600000) % 24
<1>1. timestampDelinear(x) = Stamp(h, m, s, u)
  BY SMT DEF timestampDelinear, Stamp
<1>2. /\ u \in Nat /\ s \in Nat /\ m \in Nat /\ h \in Nat
      /\ u < 1000 /\ s < 60 /\ m < 60 /\ h < 24
  BY SMT, Cut
<1>3. x = (h * 3600 + m * 60 + s) * 1000 + u
  BY SMT, Cut
<1> HIDE DEF u, s, m, h
<1>4. timestampLinear(Stamp(h, m, s, u))
        = (h * 3600 + m * 60 + s) * 1000 + u
  BY SMT, <1>2, Fields
<1> QED
  BY SMT, <1>1, <1>3, <1>4

-----------------------------------------------------------------------------
\* Where timestampAbsDelinear puts a grid time on the wall clock.
LEMMA GridLinear ==
  ASSUME NEW k \in Nat, Open + Lunch + Step * k < Day
  PROVE  timestampLinear(timestampAbsDelinear(Step * k))
           = IF Step * k > Morning THEN Step * k + (Lunch - Step) + Open
                                   ELSE Step * k + Open
<1> DEFINE x == IF Step * k > Morning THEN Step * k + (Lunch - Step) + Open
                                      ELSE Step * k + Open
<1>1. x \in Nat /\ x < 86400000
  BY SMT DEF Open, Lunch, Step, Day, Morning
<1>2. timestampAbsDelinear(Step * k) = timestampDelinear(x)
  BY SMT DEF timestampAbsDelinear
<1> HIDE DEF x
<1>3. timestampLinear(timestampDelinear(x)) = x
  BY SMT, <1>1, LinearDelinear
<1> QED
  BY SMT, <1>2, <1>3 DEF x

\* Abs time and back, for every grid time: what makes the code's advance
\* by 100 ms an advance by one step on both sides of the lunch break.
LEMMA GridRoundTrip ==
  ASSUME NEW k \in Nat, Open + Lunch + Step * k < Day
  PROVE  timestampAbsLinear(timestampAbsDelinear(Step * k)) = Step * k
<1> DEFINE t == timestampAbsDelinear(Step * k)
<1>1. CASE Step * k > Morning
  <2>1. Step * k >= Morning + Step
    BY SMT, <1>1 DEF Step, Morning
  <2>2. timestampLinear(t) = Step * k + (Lunch - Step) + Open
    BY SMT, <1>1, GridLinear
  <2> HIDE DEF t
  <2> QED
    BY SMT, <2>1, <2>2 DEF timestampAbsLinear, Open, Lunch, Step, Morning, t
<1>2. CASE ~(Step * k > Morning)
  <2>1. timestampLinear(t) = Step * k + Open
    BY SMT, <1>2, GridLinear
  <2> HIDE DEF t
  <2> QED
    BY SMT, <1>2, <2>1 DEF timestampAbsLinear, Open, Lunch, Step, Morning, t
<1> QED
  BY SMT, <1>1, <1>2

ClockInv ==
  /\ count \in Nat /\ count <= Steps
  /\ nextTickTimestamp = timestampAbsDelinear(Step * count)

\* The clock is a function of the steps taken.
THEOREM ClockOnGrid == ClockSpec => []ClockInv
<1>1. ClockInit => ClockInv
  <2> SUFFICES ASSUME ClockInit PROVE ClockInv
    OBVIOUS
  <2>1. timestampAbsDelinear(0) = 93000000
    BY SMT DEF timestampAbsDelinear, timestampDelinear, Morning, Open
  <2>2. Step * 0 = 0
    BY SMT DEF Step
  <2> QED
    BY SMT, <2>1, <2>2, StepsAssumption DEF ClockInit, ClockInv
<1>2. ClockInv /\ [Advance]_clockVars => ClockInv'
  <2> SUFFICES ASSUME ClockInv, [Advance]_clockVars PROVE ClockInv'
    OBVIOUS
  <2>1. CASE Advance
    <3>1. count \in Nat /\ count < Steps /\ count' = count + 1
      BY SMT, <2>1 DEF ClockInv, Advance
    <3>2. Open + Lunch + Step * count < Day
      BY SMT, <3>1, StepsAssumption DEF Open, Lunch, Step, Day
    <3>3. timestampAbsLinear(nextTickTimestamp) = Step * count
      BY SMT, <3>1, <3>2, GridRoundTrip DEF ClockInv
    <3>4. Step * count + Step = Step * (count + 1)
      BY SMT, <3>1 DEF Step
    <3> QED
      BY SMT, <2>1, <3>1, <3>3, <3>4, StepsAssumption
         DEF Advance, ClockInv, timestampAdvance100ms
  <2>2. CASE UNCHANGED clockVars
    BY SMT, <2>2 DEF clockVars, ClockInv
  <2> QED
    BY SMT, <2>1, <2>2
<1> QED
  BY <1>1, <1>2, PTL DEF ClockSpec

\* Between any two grid times there is one step of 100 ms per snapshot,
\* across the lunch break included.
THEOREM ClockSteps == ClockSpec => []OneStepEach
<1>1. ClockInv => OneStepEach
  <2> SUFFICES ASSUME ClockInv PROVE OneStepEach
    OBVIOUS
  <2>1. Open + Lunch + Step * count < Day
    BY SMT, StepsAssumption DEF ClockInv, Open, Lunch, Step, Day
  <2> QED
    BY SMT, <2>1, GridRoundTrip DEF ClockInv, OneStepEach
<1> QED
  BY <1>1, ClockOnGrid, PTL

\* No grid time is inside the lunch break.
THEOREM ClockAvoidsLunch == ClockSpec => []NeverInLunch
<1>1. ClockInv => NeverInLunch
  <2> SUFFICES ASSUME ClockInv PROVE NeverInLunch
    OBVIOUS
  <2>1. count \in Nat /\ Open + Lunch + Step * count < Day
    BY SMT, StepsAssumption DEF ClockInv, Open, Lunch, Step, Day
  <2>2. timestampLinear(nextTickTimestamp)
          = IF Step * count > Morning THEN Step * count + (Lunch - Step) + Open
                                      ELSE Step * count + Open
    BY SMT, <2>1, GridLinear DEF ClockInv
  <2> QED
    BY SMT, <2>1, <2>2 DEF NeverInLunch, Open, Lunch, Step, Morning
<1> QED
  BY <1>1, ClockOnGrid, PTL

\* A tick of the interval that ends at a grid time is looked up under that
\* grid time, whatever the moment within the interval.
THEOREM TicksRoundToGrid == ClockSpec => []RoundsToGrid
<1>1. ClockInv => RoundsToGrid
  <2> SUFFICES ASSUME ClockInv, NEW d \in 0 .. Step \div Resolution - 1
               PROVE  roundedTick(timestampDelinear(timestampLinear(nextTickTimestamp)
                                                      - Resolution * d))
                        = timestampLinear(nextTickTimestamp)
    BY DEF RoundsToGrid
  <2> DEFINE end == timestampLinear(nextTickTimestamp)
             x == end - Resolution * d
             q == count + (IF count > 72000 THEN 395999 ELSE 342000)
  <2>1. d \in Nat /\ d < 10
    BY SMT DEF Step, Resolution
  <2>2. count \in Nat /\ Open + Lunch + Step * count < Day
    BY SMT, StepsAssumption DEF ClockInv, Open, Lunch, Step, Day
  <2>3. end = IF Step * count > Morning THEN Step * count + (Lunch - Step) + Open
                                        ELSE Step * count + Open
    BY SMT, <2>2, GridLinear DEF ClockInv
  <2> HIDE DEF end
  <2>4. q \in Nat /\ end = 100 * q
    BY SMT, <2>2, <2>3 DEF Open, Lunch, Step, Morning
  <2>5. x \in Nat /\ x < 86400000 /\ x = 100 * q - 10 * d
    BY SMT, <2>1, <2>2, <2>3, <2>4 DEF Open, Lunch, Step, Day, Morning, Resolution
  <2> HIDE DEF x, q
  <2>6. timestampLinear(timestampDelinear(x)) = x
    BY SMT, <2>5, LinearDelinear
  <2>7. (x + 90) \div 100 = q
    BY SMT, <2>1, <2>4, <2>5
  <2>8. roundedTick(timestampDelinear(x)) = q * 100
    BY SMT, <2>6, <2>7 DEF roundedTick
  <2>9. roundedTick(timestampDelinear(x)) = end
    BY SMT, <2>4, <2>8
  <2> QED
    BY SMT, <2>9 DEF x, end
<1> QED
  BY <1>1, ClockOnGrid, PTL

-----------------------------------------------------------------------------
(***************************************************************************)
(* Induction.  A set of numbers that is not empty has a least element,     *)
(* since the intervals that end at its elements have a least one: finite   *)
(* sets are well founded.                                                  *)
(***************************************************************************)
LEMMA LeastNumber ==
  ASSUME NEW T, T \subseteq Nat, T # {}
  PROVE  \E x \in T : \A y \in T : x <= y
<1> DEFINE R == StrictSubsetOrdering(Nat)
           P == {0 .. n : n \in T}
<1>1. P \subseteq FiniteSubsetsOf(Nat) /\ P # {}
  <2>1. \A n \in T : 0 .. n \in SUBSET Nat /\ IsFiniteSet(0 .. n)
    BY FS_Interval
  <2> QED
    BY <2>1 DEF FiniteSubsetsOf
<1>2. IsWellFoundedOn(R, FiniteSubsetsOf(Nat))
  BY FS_StrictSubsetOrderingWellFounded
<1>3. \E p \in P : \A q \in P : ~ (<<q, p>> \in R)
  <2> HIDE DEF P, R
  <2> QED
    BY <1>1, <1>2, WFMin
<1>4. PICK x \in T : \A y \in T : ~(<<0 .. y, 0 .. x>> \in R)
  BY <1>3
<1>5. ASSUME NEW y \in T, y < x PROVE FALSE
  <2>1. 0 .. y \subseteq 0 .. x /\ x \in 0 .. x /\ x \notin 0 .. y
    BY <1>5
  <2>2. 0 .. y # 0 .. x /\ 0 .. y \in SUBSET Nat /\ 0 .. x \in SUBSET Nat
    BY <2>1
  <2>3. <<0 .. y, 0 .. x>> \in R
    BY Zenon, <2>1, <2>2 DEF StrictSubsetOrdering
  <2> QED
    BY <1>4, <2>3
<1> QED
  BY <1>5

\* A set that has 0 and with each number the next has all of them.
LEMMA AllNumbers ==
  ASSUME NEW T, 0 \in T, \A n \in Nat : n \in T => n + 1 \in T
  PROVE  Nat \subseteq T
<1> SUFFICES ASSUME Nat \ T # {} PROVE FALSE
  OBVIOUS
<1>1. PICK x \in Nat \ T : \A y \in Nat \ T : x <= y
  BY LeastNumber
<1>2. x # 0 /\ x - 1 \in Nat
  BY <1>1
<1>3. x - 1 \in T
  BY <1>1, <1>2
<1> QED
  BY <1>1, <1>2, <1>3

-----------------------------------------------------------------------------
(***************************************************************************)
(* Sums.  SumFunction adds the values of a function up by a recursion over *)
(* the subsets of its domain, which takes an element away at a time.  For  *)
(* a finite domain the recursion has a solution, in which each subset is   *)
(* the sum of any one of its elements and the rest.                        *)
(***************************************************************************)
Taken(s) == CHOOSE x \in s : TRUE

\* The sum of a subset, by the sums of smaller ones.
ByTaken(sums, g, s) == IF s = {} THEN 0 ELSE g[Taken(s)] + sums[s \ {Taken(s)}]

SubsetSums(g) ==
  CHOOSE sums : sums = [s \in SUBSET DOMAIN g |-> ByTaken(sums, g, s)]

\* What SumFunction computes.
LEMMA SumIsOfAll ==
  ASSUME NEW g
  PROVE  SumFunction(g) = SubsetSums(g)[DOMAIN g]
BY DEF SumFunction, SumFunctionOnSet, FoldFunctionOnSet, MapThenFoldSet, SubsetSums, ByTaken, Taken

\* What is taken is an element, and one element less is left.
LEMMA TakenLess ==
  ASSUME NEW S, IsFiniteSet(S), NEW s \in SUBSET S, NEW x \in s
  PROVE  /\ Taken(s) \in s /\ IsFiniteSet(s)
         /\ Cardinality(s) \in Nat \ {0}
         /\ s \ {x} \in SUBSET S /\ Cardinality(s \ {x}) = Cardinality(s) - 1
<1>1. Taken(s) \in s
  BY DEF Taken
<1>2. IsFiniteSet(s)
  BY FS_Subset
<1>3. Cardinality(s) \in Nat /\ Cardinality(s) # 0
  BY <1>2, FS_CardinalityType, FS_EmptySet
<1>4. Cardinality(s \ {x}) = Cardinality(s) - 1
  BY <1>2, FS_RemoveElement
<1> QED
  BY <1>1, <1>2, <1>3, <1>4

\* The recursion has a solution: one for the subsets of up to n elements goes
\* on to one for those of up to n + 1.
LEMMA SumsExist ==
  ASSUME NEW S, IsFiniteSet(S), NEW g \in [S -> Nat]
  PROVE  \E sums \in [SUBSET S -> Nat] : \A s \in SUBSET S : sums[s] = ByTaken(sums, g, s)
<1> DEFINE Up(n, sums) == \A s \in SUBSET S : Cardinality(s) <= n => sums[s] = ByTaken(sums, g, s)
           T == {n \in Nat : \E sums \in [SUBSET S -> Nat] : Up(n, sums)}
<1>0. \A s \in SUBSET S : IsFiniteSet(s) /\ Cardinality(s) \in Nat
  BY FS_Subset, FS_CardinalityType
<1>1. 0 \in T
  <2> DEFINE z == [s \in SUBSET S |-> 0]
  <2>1. \A s \in SUBSET S : Cardinality(s) <= 0 => s = {}
    BY <1>0, FS_EmptySet
  <2>2. z \in [SUBSET S -> Nat] /\ Up(0, z)
    BY <2>1 DEF ByTaken
  <2> QED
    BY <2>2
<1>2. ASSUME NEW n \in Nat, n \in T PROVE n + 1 \in T
  <2>1. PICK sums \in [SUBSET S -> Nat] : Up(n, sums)
    BY <1>2
  <2> DEFINE more == [s \in SUBSET S |-> IF Cardinality(s) <= n THEN sums[s] ELSE ByTaken(sums, g, s)]
  <2>2. \A s \in SUBSET S : s # {} =>
          /\ Taken(s) \in S /\ s \ {Taken(s)} \in SUBSET S
          /\ Cardinality(s \ {Taken(s)}) = Cardinality(s) - 1
    <3> SUFFICES ASSUME NEW s \in SUBSET S, s # {}
                 PROVE  /\ Taken(s) \in s /\ s \ {Taken(s)} \in SUBSET S
                        /\ Cardinality(s \ {Taken(s)}) = Cardinality(s) - 1
      OBVIOUS
    <3>1. Taken(s) \in s
      BY DEF Taken
    <3> QED
      BY <3>1, TakenLess
  <2>3. more \in [SUBSET S -> Nat]
    BY <2>2 DEF ByTaken
  <2>4. ASSUME NEW s \in SUBSET S, Cardinality(s) <= n + 1 PROVE more[s] = ByTaken(more, g, s)
    <3>1. more[s] = ByTaken(sums, g, s)
      BY <2>1
    <3>2. ASSUME s # {} PROVE more[s \ {Taken(s)}] = sums[s \ {Taken(s)}]
      BY <1>0, <2>2, <2>4, <3>2
    <3> HIDE DEF more
    <3> QED
      BY <3>1, <3>2 DEF ByTaken
  <2>5. Up(n + 1, more)
    BY <2>4
  <2> HIDE DEF more, Up
  <2>6. \E solved \in [SUBSET S -> Nat] : Up(n + 1, solved)
    BY <2>3, <2>5
  <2> QED
    BY <2>6
<1>3. Cardinality(S) \in T
  <2> HIDE DEF T
  <2>1. Nat \subseteq T
    BY <1>1, <1>2, AllNumbers
  <2> QED
    BY <2>1, FS_CardinalityType
<1>4. PICK sums \in [SUBSET S -> Nat] : Up(Cardinality(S), sums)
  BY <1>3
<1>5. \A s \in SUBSET S : Cardinality(s) <= Cardinality(S)
  BY FS_Subset
<1> QED
  BY <1>4, <1>5

\* SubsetSums is a solution.
LEMMA SumsSolve ==
  ASSUME NEW S, IsFiniteSet(S), NEW g \in [S -> Nat]
  PROVE  /\ SubsetSums(g) \in [SUBSET S -> Nat]
         /\ \A s \in SUBSET S : SubsetSums(g)[s] = ByTaken(SubsetSums(g), g, s)
<1>1. DOMAIN g = S
  OBVIOUS
<1>2. PICK sums \in [SUBSET S -> Nat] : \A s \in SUBSET S : sums[s] = ByTaken(sums, g, s)
  BY SumsExist
<1>3. sums = [s \in SUBSET DOMAIN g |-> ByTaken(sums, g, s)]
  BY <1>1, <1>2
<1>4. SubsetSums(g) = [s \in SUBSET DOMAIN g |-> ByTaken(SubsetSums(g), g, s)]
  BY <1>3 DEF SubsetSums
<1> DEFINE h == SubsetSums(g)
<1>5. h = [s \in SUBSET S |-> ByTaken(h, g, s)]
  BY <1>1, <1>4
<1> HIDE DEF h
<1>6. \A s \in SUBSET S : h[s] = ByTaken(h, g, s)
  BY <1>5
<1> DEFINE T == {n \in Nat : \A s \in SUBSET S : Cardinality(s) <= n => h[s] \in Nat}
<1>7. 0 \in T
  <2>1. \A s \in SUBSET S : Cardinality(s) <= 0 => s = {}
    BY FS_Subset, FS_CardinalityType, FS_EmptySet
  <2>2. h[{}] = 0
    BY <1>6 DEF ByTaken
  <2>3. \A s \in SUBSET S : Cardinality(s) <= 0 => h[s] \in Nat
    <3> SUFFICES ASSUME NEW s \in SUBSET S, s = {} PROVE h[s] \in Nat
      BY <2>1
    <3> QED
      BY <2>2
  <2> QED
    BY <2>3
<1>8. ASSUME NEW n \in Nat, n \in T PROVE n + 1 \in T
  <2> SUFFICES ASSUME NEW s \in SUBSET S, Cardinality(s) <= n + 1 PROVE h[s] \in Nat
    OBVIOUS
  <2>1. CASE s = {}
    BY <1>6, <2>1 DEF ByTaken
  <2>2. CASE s # {}
    <3>1. Taken(s) \in s
      BY <2>2 DEF Taken
    <3>2. /\ s \ {Taken(s)} \in SUBSET S /\ Cardinality(s \ {Taken(s)}) = Cardinality(s) - 1
          /\ Cardinality(s) \in Nat
      BY <3>1, TakenLess
    <3>3. h[s \ {Taken(s)}] \in Nat
      BY <1>8, <3>2
    <3>4. h[s] = g[Taken(s)] + h[s \ {Taken(s)}]
      BY <1>6, <2>2 DEF ByTaken
    <3>5. g[Taken(s)] \in Nat
      BY <3>1
    <3> QED
      BY <3>3, <3>4, <3>5
  <2> QED
    BY <2>1, <2>2
<1>9. Nat \subseteq T
  <2> HIDE DEF T
  <2> QED
    BY <1>7, <1>8, AllNumbers
<1>10. \A s \in SUBSET S : h[s] \in Nat
  BY <1>9, FS_Subset, FS_CardinalityType
<1>11. h \in [SUBSET S -> Nat]
  BY <1>5, <1>10
<1> QED
  BY <1>6, <1>11 DEF h

\* Whichever element is taken away.
LEMMA SumOfAny ==
  ASSUME NEW S, IsFiniteSet(S), NEW g \in [S -> Nat], NEW s \in SUBSET S, NEW x \in s
  PROVE  SubsetSums(g)[s] = SubsetSums(g)[s \ {x}] + g[x]
<1> DEFINE h == SubsetSums(g)
<1>1. h \in [SUBSET S -> Nat] /\ \A t \in SUBSET S : h[t] = ByTaken(h, g, t)
  BY SumsSolve
<1> HIDE DEF h
<1> DEFINE T == {n \in Nat : \A t \in SUBSET S : Cardinality(t) <= n =>
                   \A y \in t : h[t] = h[t \ {y}] + g[y]}
<1>2. 0 \in T
  <2>1. \A t \in SUBSET S : Cardinality(t) <= 0 => t = {}
    BY FS_Subset, FS_CardinalityType, FS_EmptySet
  <2> QED
    BY <2>1
<1>3. ASSUME NEW n \in Nat, n \in T PROVE n + 1 \in T
  <2> SUFFICES ASSUME NEW t \in SUBSET S, Cardinality(t) <= n + 1, NEW y \in t
               PROVE  h[t] = h[t \ {y}] + g[y]
    OBVIOUS
  <2> DEFINE p == Taken(t)
  <2>1. /\ p \in t /\ Cardinality(t) \in Nat
        /\ t \ {y} \in SUBSET S /\ Cardinality(t \ {y}) = Cardinality(t) - 1
    BY TakenLess
  <2>2. t \ {p} \in SUBSET S /\ Cardinality(t \ {p}) = Cardinality(t) - 1
    BY <2>1, TakenLess
  <2>3. h[t] = h[t \ {p}] + g[p]
    BY <1>1, <2>1, <2>2 DEF ByTaken
  <2> HIDE DEF p
  <2>4. CASE p = y
    BY <2>3, <2>4
  <2>5. CASE p # y
    <3>1. h[t \ {p}] = h[(t \ {p}) \ {y}] + g[y]
      BY <1>3, <2>1, <2>2, <2>5
    <3>2. h[t \ {y}] = h[(t \ {y}) \ {p}] + g[p]
      BY <1>3, <2>1, <2>2, <2>5
    <3> DEFINE both == (t \ {p}) \ {y}
    <3>3. both = (t \ {y}) \ {p} /\ both \in SUBSET S
      OBVIOUS
    <3>4. h[both] \in Nat /\ g[p] \in Nat /\ g[y] \in Nat
      BY <1>1, <2>1, <3>3
    <3>5. h[t \ {y}] = h[both] + g[p]
      BY <3>2, <3>3
    <3> HIDE DEF both
    <3>6. h[t] = (h[both] + g[y]) + g[p] /\ h[t \ {y}] + g[y] = (h[both] + g[p]) + g[y]
      BY <2>3, <3>1, <3>5 DEF both
    <3> QED
      BY <3>4, <3>6
  <2> QED
    BY <2>4, <2>5
<1>4. Nat \subseteq T
  <2> HIDE DEF T
  <2> QED
    BY <1>2, <1>3, AllNumbers
<1>5. Cardinality(s) \in Nat
  BY TakenLess
<1> QED
  BY <1>4, <1>5 DEF h

\* A sum is a number, and that of nothing is 0.
LEMMA SumType ==
  ASSUME NEW S, IsFiniteSet(S), NEW g \in [S -> Nat]
  PROVE  SumFunction(g) \in Nat /\ (S = {} => SumFunction(g) = 0)
<1>1. SubsetSums(g) \in [SUBSET S -> Nat] /\ SubsetSums(g)[S] = ByTaken(SubsetSums(g), g, S)
  BY SumsSolve
<1>2. SumFunction(g) = SubsetSums(g)[S]
  BY SumIsOfAll
<1> QED
  BY <1>1, <1>2 DEF ByTaken

\* Functions that agree on a set have the same sum of it.
LEMMA SumsAgree ==
  ASSUME NEW D, IsFiniteSet(D), NEW S \in SUBSET D, IsFiniteSet(S),
         NEW g \in [S -> Nat], NEW h \in [D -> Nat], \A x \in S : h[x] = g[x]
  PROVE  SubsetSums(h)[S] = SubsetSums(g)[S]
<1> DEFINE u == SubsetSums(g)
           v == SubsetSums(h)
<1>1. u \in [SUBSET S -> Nat] /\ \A s \in SUBSET S : u[s] = ByTaken(u, g, s)
  BY SumsSolve
<1>2. v \in [SUBSET D -> Nat] /\ \A s \in SUBSET D : v[s] = ByTaken(v, h, s)
  BY SumsSolve
<1> HIDE DEF u, v
<1> DEFINE T == {n \in Nat : \A s \in SUBSET S : Cardinality(s) <= n => v[s] = u[s]}
<1>3. 0 \in T
  <2>1. \A t \in SUBSET S : Cardinality(t) <= 0 => t = {}
    BY FS_Subset, FS_CardinalityType, FS_EmptySet
  <2>2. v[{}] = 0 /\ u[{}] = 0
    BY <1>1, <1>2 DEF ByTaken
  <2> QED
    BY <2>1, <2>2
<1>4. ASSUME NEW n \in Nat, n \in T PROVE n + 1 \in T
  <2> SUFFICES ASSUME NEW s \in SUBSET S, Cardinality(s) <= n + 1 PROVE v[s] = u[s]
    OBVIOUS
  <2>1. CASE s = {}
    BY <1>1, <1>2, <2>1 DEF ByTaken
  <2>2. CASE s # {}
    <3>1. Taken(s) \in s
      BY <2>2 DEF Taken
    <3>2. /\ s \ {Taken(s)} \in SUBSET S /\ Cardinality(s \ {Taken(s)}) = Cardinality(s) - 1
          /\ Cardinality(s) \in Nat
      BY <3>1, TakenLess
    <3>3. v[s \ {Taken(s)}] = u[s \ {Taken(s)}]
      BY <1>4, <3>2
    <3> QED
      BY <1>1, <1>2, <2>2, <3>1, <3>3 DEF ByTaken
  <2> QED
    BY <2>1, <2>2
<1>5. Nat \subseteq T
  <2> HIDE DEF T
  <2> QED
    BY <1>3, <1>4, AllNumbers
<1>6. v[S] = u[S]
  BY <1>5, FS_CardinalityType
<1> QED
  BY <1>6 DEF u, v

\* A function with one more value has that much more of a sum.
LEMMA SumOfMore ==
  ASSUME NEW S, IsFiniteSet(S), NEW D, NEW a, a \in D, a \notin S, D \ {a} = S,
         NEW g \in [S -> Nat], NEW h \in [D -> Nat], \A x \in S : h[x] = g[x]
  PROVE  SumFunction(h) = SumFunction(g) + h[a]
<1>1. IsFiniteSet(D) /\ S \in SUBSET D
  <2>1. D = S \cup {a}
    OBVIOUS
  <2> QED
    BY <2>1, FS_AddElement
<1>2. SumFunction(g) = SubsetSums(g)[S] /\ SumFunction(h) = SubsetSums(h)[D]
  BY SumIsOfAll
<1>3. SubsetSums(h)[D] = SubsetSums(h)[D \ {a}] + h[a]
  BY <1>1, SumOfAny
<1>4. SubsetSums(h)[S] = SubsetSums(g)[S]
  BY <1>1, SumsAgree
<1> QED
  BY <1>2, <1>3, <1>4

-----------------------------------------------------------------------------
(***************************************************************************)
(* The helpers of StockCompute.                                            *)
(***************************************************************************)
State == [nextTickTimestamp : Nat, currSnapshot : Snapshot,
          snapshots : Seq(Snapshot), iirState : Seq(Nat)]
Saving == [nextTickTimestamp : Nat, currSnapshot : Snapshot,
           oldSnapshotsCount : Nat, iirState : Seq(Nat)]

LEMMA DelinearType ==
  ASSUME NEW x \in Int
  PROVE  timestampDelinear(x) \in Nat
BY SMT DEF timestampDelinear

LEMMA AdvanceType ==
  ASSUME NEW t \in Nat
  PROVE  timestampAdvance100ms(t) \in Nat
<1>1. timestampLinear(t) \in Nat
  BY SMT DEF timestampLinear
<1>2. timestampAbsLinear(t) \in Int
  BY SMT, <1>1 DEF timestampAbsLinear, Open, Lunch, Morning, Step
<1>3. \A x \in Int : timestampAbsDelinear(x) \in Nat
  BY DelinearType DEF timestampAbsDelinear, Open, Lunch, Morning, Step
<1> QED
  BY <1>2, <1>3 DEF timestampAdvance100ms, Step

LEMMA VolumeTickType ==
  ASSUME NEW fed \in Seq(Nat), NEW volume \in Nat
  PROVE  addVolumeTick(fed, volume) \in Seq(Nat)
BY DEF addVolumeTick

\* A step ends the snapshot and starts the next one without volume.
LEMMA SnapshotEnds ==
  ASSUME NEW f \in State
  PROVE  LET g == stepSnapshot(f)
         IN  /\ g \in State
             /\ g.nextTickTimestamp = f.nextTickTimestamp
             /\ g.currSnapshot.volume = 0
             /\ g.snapshots = Append(f.snapshots, f.currSnapshot)
             /\ g.iirState = addVolumeTick(f.iirState, f.currSnapshot.volume)
<1>1. addVolumeTick(f.iirState, f.currSnapshot.volume) \in Seq(Nat)
  BY VolumeTickType DEF State, Snapshot
<1>2. Append(f.snapshots, f.currSnapshot) \in Seq(Snapshot)
  BY DEF State
<1>3. [f.currSnapshot EXCEPT !.numTrades = 0, !.volume = 0] \in Snapshot
  BY DEF State, Snapshot
<1>4. [f.currSnapshot EXCEPT !.numTrades = 0, !.volume = 0].volume = 0
  BY DEF State, Snapshot
<1> QED
  BY <1>1, <1>2, <1>3, <1>4 DEF stepSnapshot, State

LEMMA StepEnds ==
  ASSUME NEW f \in State
  PROVE  LET g == Stepped(f)
         IN  /\ g \in State
             /\ g.nextTickTimestamp = timestampAdvance100ms(f.nextTickTimestamp)
             /\ g.currSnapshot.volume = 0
             /\ g.snapshots = Append(f.snapshots, f.currSnapshot)
             /\ g.iirState = addVolumeTick(f.iirState, f.currSnapshot.volume)
<1> DEFINE g == stepSnapshot(f)
<1>1. /\ g \in State /\ g.currSnapshot.volume = 0
      /\ g.snapshots = Append(f.snapshots, f.currSnapshot)
      /\ g.iirState = addVolumeTick(f.iirState, f.currSnapshot.volume)
      /\ g.nextTickTimestamp = f.nextTickTimestamp
  BY SnapshotEnds
<1>2. Stepped(f) = [g EXCEPT !.nextTickTimestamp = timestampAdvance100ms(@)]
  BY DEF Stepped
<1>3. timestampAdvance100ms(g.nextTickTimestamp) \in Nat
  BY <1>1, AdvanceType DEF State
<1> HIDE DEF g
<1> QED
  BY <1>1, <1>2, <1>3 DEF State

LEMMA AddedType ==
  ASSUME NEW snapshot \in Snapshot, NEW near \in BOOLEAN, NEW n \in Nat, NEW v \in Nat
  PROVE  /\ Added(snapshot, near, n, v) \in Snapshot
         /\ Added(snapshot, near, n, v).volume = snapshot.volume + v
BY DEF Added, Snapshot

\* What is restored is what was saved, while the snapshots only grew.
LEMMA RestoredType ==
  ASSUME NEW f \in State, NEW b \in Saving, b.oldSnapshotsCount <= Len(f.snapshots)
  PROVE  Restored(f, b) \in State
<1>1. SubSeq(f.snapshots, 1, b.oldSnapshotsCount) \in Seq(Snapshot)
  BY SubSeqProperties DEF State, Saving
<1> QED
  BY <1>1 DEF Restored, State, Saving

LEMMA SaveRestore ==
  ASSUME NEW f \in State
  PROVE  Saved(f) \in Saving /\ Saved(f).oldSnapshotsCount = Len(f.snapshots)
         /\ Restored(f, Saved(f)) = f
<1>1. Len(f.snapshots) \in Nat /\ f.snapshots \in Seq(Snapshot)
  BY DEF State
<1>2. SubSeq(f.snapshots, 1, Len(f.snapshots)) = f.snapshots
  BY <1>1
<1>3. Saved(f) \in Saving /\ Saved(f).oldSnapshotsCount = Len(f.snapshots)
  BY <1>1 DEF Saved, Saving, State
<1>4. Restored(f, Saved(f))
        = [nextTickTimestamp |-> f.nextTickTimestamp, currSnapshot |-> f.currSnapshot,
           snapshots |-> f.snapshots, iirState |-> f.iirState]
  BY <1>2 DEF Restored, Saved
<1> QED
  BY <1>3, <1>4 DEF State

LEMMA RestoreAfterStep ==
  ASSUME NEW f \in State, NEW g \in State, NEW b \in Saving, NEW x \in Snapshot,
         b.oldSnapshotsCount <= Len(f.snapshots), g.snapshots = Append(f.snapshots, x)
  PROVE  Restored(g, b) = Restored(f, b) /\ b.oldSnapshotsCount <= Len(g.snapshots)
<1> DEFINE s == f.snapshots
           n == b.oldSnapshotsCount
<1>1. s \in Seq(Snapshot) /\ n \in Nat /\ n <= Len(s) /\ g.snapshots = Append(s, x)
  BY DEF State, Saving
<1>2. SubSeq(Append(s, x), 1, n) = SubSeq(s, 1, n)
  <2> HIDE DEF s, n
  <2> QED
    BY <1>1
<1>3. n <= Len(Append(s, x))
  <2> HIDE DEF s, n
  <2> QED
    BY <1>1
<1> QED
  BY <1>1, <1>2, <1>3 DEF Restored

\* The book.
LEMMA WithType ==
  ASSUME NEW S, NEW D, NEW book \in [D -> S], NEW o, NEW q \in S
  PROVE  With(book, o, q) \in [D \cup {o} -> S]
BY DEF With

LEMMA WithoutType ==
  ASSUME NEW S, NEW D, NEW book \in [D -> S], NEW o
  PROVE  Without(book, o) \in [D \ {o} -> S]
BY DEF Without

IsBook(book) ==
  /\ DOMAIN book \subseteq Order /\ IsFiniteSet(DOMAIN book)
  /\ book \in [DOMAIN book -> Nat \ {0}]

LEMMA WithoutKept ==
  ASSUME NEW book, IsBook(book), NEW o
  PROVE  IsBook(Without(book, o))
<1> DEFINE D == DOMAIN book
           P == Nat \ {0}
<1>1. book \in [D -> P] /\ D \subseteq Order /\ IsFiniteSet(D)
  BY DEF IsBook
<1> HIDE DEF D, P
<1>2. Without(book, o) \in [D \ {o} -> P]
  BY <1>1, WithoutType
<1>3. DOMAIN Without(book, o) = D \ {o}
  BY <1>2
<1>4. IsFiniteSet(D \ {o})
  BY <1>1, FS_RemoveElement
<1> QED
  BY <1>1, <1>2, <1>3, <1>4 DEF IsBook, P

LEMMA BookKept ==
  ASSUME NEW book, IsBook(book), NEW o \in Order, NEW q \in Quantity
  PROVE  IsBook(With(book, o, q)) /\ IsBook(Executed(book, o, q))
<1> DEFINE D == DOMAIN book
           P == Nat \ {0}
<1>0. book \in [D -> P] /\ D \subseteq Order /\ IsFiniteSet(D)
  BY DEF IsBook
<1> HIDE DEF D, P
<1>1. ASSUME NEW r, r \in P PROVE IsBook(With(book, o, r))
  <2>1. With(book, o, r) \in [D \cup {o} -> P]
    BY <1>0, <1>1, WithType
  <2>2. DOMAIN With(book, o, r) = D \cup {o}
    BY <2>1
  <2>3. IsFiniteSet(D \cup {o})
    BY <1>0, FS_AddElement
  <2> QED
    BY <1>0, <2>1, <2>2, <2>3 DEF IsBook, P
<1>3. ASSUME o \in DOMAIN book, book[o] > q PROVE book[o] - q \in P
  BY <1>3, QuantityAssumption DEF IsBook, P
<1>4. IsBook(Executed(book, o, q))
  <2> HIDE DEF IsBook
  <2> QED
    BY <1>1, <1>3, WithoutKept DEF Executed
<1> QED
  BY <1>1, <1>4, QuantityAssumption DEF P

\* The orders of the book are bought: the state steps on with their sum.
LEMMA BuysType ==
  ASSUME fState \in State, IsBook(upSellOrders)
  PROVE  LET sold == Added(fState.currSnapshot, TRUE,
                           Cardinality(DOMAIN upSellOrders), SumFunction(upSellOrders))
             g == stepSnapshot([fState EXCEPT !.currSnapshot = sold])
         IN  /\ g \in State /\ sold \in Snapshot
             /\ g.snapshots = Append(fState.snapshots, sold)
             /\ g.iirState = addVolumeTick(fState.iirState, sold.volume)
<1> DEFINE D == DOMAIN upSellOrders
           sold == Added(fState.currSnapshot, TRUE, Cardinality(D), SumFunction(upSellOrders))
           f == [fState EXCEPT !.currSnapshot = sold]
<1>1. IsFiniteSet(D) /\ upSellOrders \in [D -> Nat]
  BY DEF IsBook
<1>2. SumFunction(upSellOrders) \in Nat /\ Cardinality(D) \in Nat
  <2> HIDE DEF D
  <2> QED
    BY <1>1, SumType, FS_CardinalityType
<1>3. sold \in Snapshot
  BY <1>2, AddedType DEF State
<1> HIDE DEF sold
<1>4. /\ f \in State /\ f.currSnapshot = sold
      /\ f.snapshots = fState.snapshots /\ f.iirState = fState.iirState
  BY <1>3 DEF State
<1> HIDE DEF f
<1>5. /\ stepSnapshot(f) \in State
      /\ stepSnapshot(f).snapshots = Append(fState.snapshots, sold)
      /\ stepSnapshot(f).iirState = addVolumeTick(fState.iirState, sold.volume)
  BY <1>4, SnapshotEnds
<1> QED
  BY <1>3, <1>5 DEF sold, f, D

-----------------------------------------------------------------------------
(***************************************************************************)
(* The types.                                                              *)
(***************************************************************************)
Predicting == pc \in {"stepToFuture", "decideWantBuy"}

\* The types by the parts of the state that a step changes together.
CycleOK ==
  /\ pc \in {"cycle", "tick", "addRealTrade", "saveSnapshot", "stepToFuture", "decideWantBuy"}
  /\ alive \in BOOLEAN /\ approachingLimitUp \in BOOLEAN
  /\ futureTimestamp \in Nat /\ firstCompute \in BOOLEAN /\ pushed \in Seq(Nat)
  /\ calls \in 0 .. 2 /\ (pc \in {"saveSnapshot", "stepToFuture", "decideWantBuy"} => calls > 0)
StatesOK ==
  /\ fState \in State /\ bState \in Saving
  /\ Predicting => bState.oldSnapshotsCount <= Len(fState.snapshots)
ExchangeOK ==
  /\ IsBook(upSellOrders)
  /\ DOMAIN open \subseteq Order /\ open \in [DOMAIN open -> Nat]
  /\ trade \in [time : Nat, near : BOOLEAN, quantity : Nat] /\ trade.time < LastHour
  /\ traded \in Nat /\ ticks \in 0 .. MaxTicks

Typed == CycleOK /\ StatesOK /\ ExchangeOK

LEMMA TypesInit == Init => CycleOK /\ StatesOK /\ ExchangeOK
<1> SUFFICES ASSUME Init PROVE CycleOK /\ StatesOK /\ ExchangeOK
  OBVIOUS
<1> USE DEF Init
<1>1. NoSnapshot \in Snapshot
  BY DEF NoSnapshot, Snapshot
<1>2. StatesOK
  BY <1>1 DEF StatesOK, State, Saving, Opening, Predicting
<1>3. CycleOK
  <2>1. Opening \in Nat /\ <<>> \in Seq(Nat) /\ 0 \in 0 .. 2
    BY SMT DEF Opening
  <2> QED
    BY <2>1 DEF CycleOK
<1>4. IsBook(upSellOrders) /\ DOMAIN open \subseteq Order /\ open \in [DOMAIN open -> Nat]
  <2>1. DOMAIN <<>> = {}
    OBVIOUS
  <2> QED
    BY <2>1, FS_EmptySet DEF IsBook
<1>5. ExchangeOK
  <2>1. NoTrade \in [time : Nat, near : BOOLEAN, quantity : Nat] /\ NoTrade.time < LastHour
    BY SMT DEF NoTrade, LastHour
  <2>2. 0 \in 0 .. MaxTicks
    BY MaxTicksAssumption
  <2> QED
    BY <1>4, <2>1, <2>2 DEF ExchangeOK
<1> QED
  BY <1>2, <1>3, <1>5

LEMMA TypesKept == CycleOK /\ StatesOK /\ ExchangeOK /\ [Next]_vars => CycleOK' /\ StatesOK' /\ ExchangeOK'
<1> SUFFICES ASSUME CycleOK, StatesOK, ExchangeOK, [Next]_vars
             PROVE  CycleOK' /\ StatesOK' /\ ExchangeOK'
  OBVIOUS
<1> USE DEF Tick, bookVars, futureVars
<1>1. ASSUME NEW o \in Order, NEW quantity \in Quantity, OnOrder(o, quantity)
      PROVE  CycleOK' /\ StatesOK' /\ ExchangeOK'
  <2>1. CycleOK' /\ StatesOK'
    BY <1>1 DEF OnOrder, CycleOK, StatesOK, Predicting
  <2>2. IsBook(upSellOrders')
    BY <1>1, BookKept DEF OnOrder, ExchangeOK
  <2>3. DOMAIN open' \subseteq Order /\ open' \in [DOMAIN open' -> Nat]
    <3> DEFINE D == DOMAIN open
    <3>1. open \in [D -> Nat] /\ D \subseteq Order
      BY DEF ExchangeOK
    <3> HIDE DEF D
    <3>2. quantity \in Nat /\ open' = With(open, o, quantity)
      BY <1>1, QuantityAssumption DEF OnOrder
    <3>3. open' \in [D \cup {o} -> Nat]
      BY <3>1, <3>2, WithType
    <3> QED
      BY <3>1, <3>3
  <2>4. ticks' \in 0 .. MaxTicks
    BY <1>1, MaxTicksAssumption DEF OnOrder, ExchangeOK
  <2> QED
    BY <1>1, <2>1, <2>2, <2>3, <2>4 DEF OnOrder, ExchangeOK
<1>2. ASSUME NEW o \in Order, OnCancel(o)
      PROVE  CycleOK' /\ StatesOK' /\ ExchangeOK'
  <2>1. CycleOK' /\ StatesOK'
    BY <1>2 DEF OnCancel, CycleOK, StatesOK, Predicting
  <2>2. IsBook(upSellOrders')
    BY <1>2, WithoutKept DEF OnCancel, ExchangeOK
  <2>3. DOMAIN open' \subseteq Order /\ open' \in [DOMAIN open' -> Nat]
    BY <1>2 DEF OnCancel, ExchangeOK
  <2>4. ticks' \in 0 .. MaxTicks
    BY <1>2, MaxTicksAssumption DEF OnCancel, ExchangeOK
  <2> QED
    BY <1>2, <2>1, <2>2, <2>3, <2>4 DEF OnCancel, ExchangeOK
<1>3. ASSUME NEW o \in Order, NEW time \in Times, NEW near \in BOOLEAN, NEW quantity \in Quantity,
             OnTrade(o, time, near, quantity)
      PROVE  CycleOK' /\ StatesOK' /\ ExchangeOK'
  <2>1. CycleOK'
    BY <1>3 DEF OnTrade, CycleOK
  <2>2. StatesOK'
    <3>1. [fState.currSnapshot EXCEPT !.near = near] \in Snapshot
      BY DEF StatesOK, State, Snapshot
    <3>2. [fState EXCEPT !.currSnapshot.near = near] \in State
      BY <3>1 DEF StatesOK, State
    <3>3. fState' \in State /\ bState' = bState /\ ~Predicting'
      BY <1>3, <3>2 DEF OnTrade, StatesOK, Predicting
    <3> QED
      BY <3>3 DEF StatesOK
  <2>3. IsBook(upSellOrders')
    BY <1>3, BookKept DEF OnTrade, ExchangeOK
  <2>4. DOMAIN open' \subseteq Order /\ open' \in [DOMAIN open' -> Nat]
    BY <1>3, QuantityAssumption DEF OnTrade, Sale, ExchangeOK
  <2>5. /\ trade' \in [time : Nat, near : BOOLEAN, quantity : Nat] /\ trade'.time < LastHour
        /\ traded' \in Nat
    <3>0. LastHour \in Nat
      BY SMT DEF LastHour
    <3>1. quantity \in Nat /\ time \in Nat /\ time < LastHour
      BY <3>0, QuantityAssumption, TimesAssumption
    <3>2. trade' = [time |-> time, near |-> near, quantity |-> quantity]
      BY <1>3 DEF OnTrade, Sale
    <3>3. traded' = traded \/ traded' = traded + quantity
      BY <1>3 DEF OnTrade
    <3> QED
      BY <3>1, <3>2, <3>3 DEF ExchangeOK
  <2>6. ticks' \in 0 .. MaxTicks
    BY <1>3, MaxTicksAssumption DEF OnTrade, ExchangeOK
  <2> QED
    BY <2>1, <2>2, <2>3, <2>4, <2>5, <2>6 DEF ExchangeOK
<1>4. CASE StepForTrade
  <2>1. fState' \in State
    BY <1>4, StepEnds DEF StepForTrade, StatesOK
  <2> QED
    BY <1>4, <2>1 DEF StepForTrade, CycleOK, StatesOK, ExchangeOK, Predicting
<1>5. CASE AddTrade
  <2>1. Added(fState.currSnapshot, trade.near, 1, trade.quantity) \in Snapshot
    BY AddedType DEF StatesOK, State, ExchangeOK
  <2>2. fState' \in State
    BY <1>5, <2>1 DEF AddTrade, StatesOK, State
  <2> QED
    BY <1>5, <2>2 DEF AddTrade, CycleOK, StatesOK, ExchangeOK, Predicting
<1>6. CASE OnEnd
  <2>1. ticks' \in 0 .. MaxTicks
    BY <1>6, MaxTicksAssumption DEF OnEnd, ExchangeOK
  <2> QED
    BY <1>6, <2>1 DEF OnEnd, CycleOK, StatesOK, ExchangeOK, Predicting
<1>7. CASE ClearApproach
  <2>1. pushed' \in Seq(Nat)
    BY <1>7 DEF ClearApproach
  <2> QED
    BY <1>7, <2>1 DEF ClearApproach, CycleOK, StatesOK, ExchangeOK, Predicting
<1>8. CASE EndCycle
  BY <1>8 DEF EndCycle, CycleOK, StatesOK, ExchangeOK, Predicting
<1>9. ASSUME NEW places \in 0 .. 2, CheckApproach(places)
      PROVE  CycleOK' /\ StatesOK' /\ ExchangeOK'
  BY <1>9 DEF CheckApproach, CycleOK, StatesOK, State, ExchangeOK, Predicting
<1>10. CASE SaveSnapshot
  <2>1. bState' \in Saving /\ bState'.oldSnapshotsCount <= Len(fState'.snapshots)
    BY <1>10, SaveRestore DEF SaveSnapshot, StatesOK, State
  <2> QED
    BY <1>10, <2>1 DEF SaveSnapshot, CycleOK, StatesOK, ExchangeOK, Predicting
<1>11. CASE StepToFuture
  <2>1. fState' \in State /\ fState'.snapshots = Append(fState.snapshots, fState.currSnapshot)
    BY <1>11, StepEnds DEF StepToFuture, StatesOK
  <2>2. bState.oldSnapshotsCount <= Len(fState'.snapshots)
    BY <1>11, <2>1, RestoreAfterStep DEF StepToFuture, StatesOK, State, Predicting
  <2> QED
    BY <1>11, <2>1, <2>2 DEF StepToFuture, CycleOK, StatesOK, ExchangeOK, Predicting
<1>12. CASE BuyUpSellOrders
  <2>1. PICK f \in State, x \in Snapshot :
          fState' = f /\ f.snapshots = Append(fState.snapshots, x)
    <3>1. fState \in State /\ IsBook(upSellOrders)
      BY DEF StatesOK, ExchangeOK
    <3> QED
      BY <1>12, <3>1, BuysType DEF BuyUpSellOrders
  <2>2. bState.oldSnapshotsCount <= Len(fState'.snapshots)
    BY <1>12, <2>1, RestoreAfterStep DEF BuyUpSellOrders, StatesOK, State, Predicting
  <2> QED
    BY <1>12, <2>1, <2>2 DEF BuyUpSellOrders, CycleOK, StatesOK, ExchangeOK, Predicting
<1>13. CASE DecideWantBuy
  <2>1. fState' \in State
    BY <1>13, RestoredType DEF DecideWantBuy, StatesOK, Predicting
  <2>2. bState' \in Saving
    BY <1>13 DEF DecideWantBuy, StatesOK, State, Saving
  <2>3. CycleOK'
    <3>1. futureTimestamp' \in Nat
      BY <1>13, AdvanceType DEF DecideWantBuy, CycleOK
    <3>2. pushed' \in Seq(Nat)
      BY <1>13 DEF DecideWantBuy, CycleOK
    <3>3. calls \in 1 .. 2 /\ calls' = (IF firstCompute THEN calls ELSE calls - 1)
      BY <1>13 DEF DecideWantBuy, CycleOK
    <3>4. calls' \in 0 .. 2
      BY <3>3
    <3>5. calls' > 0 \/ pc' = "cycle"
      BY <1>13 DEF DecideWantBuy
    <3> QED
      BY <1>13, <3>1, <3>2, <3>4, <3>5 DEF DecideWantBuy, CycleOK
  <2> QED
    BY <1>13, <2>1, <2>2, <2>3 DEF DecideWantBuy, StatesOK, ExchangeOK, Predicting
<1>14. CASE UNCHANGED vars
  BY <1>14 DEF vars, CycleOK, StatesOK, ExchangeOK, Predicting
<1> QED
  BY <1>1, <1>2, <1>3, <1>4, <1>5, <1>6, <1>7, <1>8, <1>9, <1>10, <1>11, <1>12, <1>13, <1>14
     DEF Next

-----------------------------------------------------------------------------
(***************************************************************************)
(* What is kept: no step of a prediction changes it.                       *)
(***************************************************************************)
LEMMA KeptType ==
  ASSUME CycleOK, StatesOK
  PROVE  Kept \in State /\ (Predicting => Kept = Restored(fState, bState))
         /\ (~Predicting => Kept = fState) /\ (pc = "stepToFuture" => Predicting)
         /\ (pc = "decideWantBuy" => Predicting)
BY RestoredType DEF CycleOK, StatesOK, Kept, Real, Predicting

LEMMA PredictionIsNoStep ==
  ASSUME CycleOK, StatesOK, ExchangeOK, SaveSnapshot \/ StepToFuture \/ BuyUpSellOrders \/ DecideWantBuy
  PROVE  Kept' = Kept
<1>1. CASE SaveSnapshot
  <2>1. Kept = fState /\ Kept' = Restored(fState, Saved(fState))
    BY <1>1 DEF SaveSnapshot, Kept, Real
  <2> QED
    BY <2>1, SaveRestore DEF StatesOK
<1>2. CASE StepToFuture
  <2>1. Kept = Restored(fState, bState) /\ Kept' = Restored(fState', bState)
    BY <1>2 DEF StepToFuture, Kept, Real
  <2>2. fState' \in State /\ fState'.snapshots = Append(fState.snapshots, fState.currSnapshot)
    BY <1>2, StepEnds DEF StepToFuture, StatesOK
  <2>3. fState.currSnapshot \in Snapshot /\ bState.oldSnapshotsCount <= Len(fState.snapshots)
    BY <1>2 DEF StepToFuture, StatesOK, State, Predicting
  <2> QED
    BY <2>1, <2>2, <2>3, RestoreAfterStep DEF StatesOK
<1>3. CASE BuyUpSellOrders
  <2>1. Kept = Restored(fState, bState) /\ Kept' = Restored(fState', bState)
    BY <1>3 DEF BuyUpSellOrders, Kept, Real
  <2>2. PICK f \in State, x \in Snapshot :
          fState' = f /\ f.snapshots = Append(fState.snapshots, x)
    <3>1. fState \in State /\ IsBook(upSellOrders)
      BY DEF StatesOK, ExchangeOK
    <3> QED
      BY <1>3, <3>1, BuysType DEF BuyUpSellOrders
  <2> QED
    BY <1>3, <2>1, <2>2, RestoreAfterStep DEF BuyUpSellOrders, StatesOK, Predicting
<1>4. CASE DecideWantBuy
  <2>1. Kept = Restored(fState, bState) /\ Kept' = fState'
    BY <1>4 DEF DecideWantBuy, Kept, Real
  <2> QED
    BY <1>4, <2>1 DEF DecideWantBuy
<1> QED
  BY <1>1, <1>2, <1>3, <1>4

\* A trade of the opening call sets the price.
PriceSet(near) == [fState EXCEPT !.currSnapshot.near = near]

LEMMA PriceSetType ==
  ASSUME NEW near \in BOOLEAN, fState \in State
  PROVE  /\ PriceSet(near) \in State
         /\ PriceSet(near).nextTickTimestamp = fState.nextTickTimestamp
         /\ PriceSet(near).currSnapshot.volume = fState.currSnapshot.volume
         /\ PriceSet(near).snapshots = fState.snapshots
         /\ PriceSet(near).iirState = fState.iirState
<1>1. [fState.currSnapshot EXCEPT !.near = near] \in Snapshot
  BY DEF State, Snapshot
<1>2. [fState.currSnapshot EXCEPT !.near = near].volume = fState.currSnapshot.volume
  BY DEF State, Snapshot
<1> QED
  BY <1>1, <1>2 DEF PriceSet, State

\* Its other steps by what they do to what is kept.
KeptStays == Kept' = Kept /\ pc # "addRealTrade" /\ pc' # "addRealTrade" /\ traded' = traded
KeptTraded(near, quantity) ==
  \/ pc' = "tick" /\ Kept' = PriceSet(near) /\ traded' = traded
  \/ /\ pc' = "addRealTrade" /\ Kept' = fState
     /\ traded' = traded + quantity /\ trade'.quantity = quantity
KeptSteps ==
  /\ Kept' = Stepped(fState) /\ pc' = "addRealTrade"
  /\ trade.time > fState.nextTickTimestamp /\ UNCHANGED <<trade, traded>>
KeptAdds ==
  /\ pc' = "tick" /\ traded' = traded
  /\ Kept' = [fState EXCEPT !.currSnapshot = Added(@, trade.near, 1, trade.quantity)]

LEMMA KeptMoves ==
  ASSUME CycleOK, StatesOK, ExchangeOK, Next
  PROVE  \/ KeptStays
         \/ \E near \in BOOLEAN, quantity \in Quantity :
              pc = "tick" /\ Kept = fState /\ KeptTraded(near, quantity)
         \/ pc = "addRealTrade" /\ Kept = fState /\ (KeptSteps \/ KeptAdds)
<1> USE DEF Tick
<1>1. ASSUME NEW o \in Order, NEW quantity \in Quantity, OnOrder(o, quantity)
      PROVE  KeptStays
  BY <1>1 DEF OnOrder, KeptStays, Kept, Real, futureVars
<1>2. ASSUME NEW o \in Order, OnCancel(o)
      PROVE  KeptStays
  BY <1>2 DEF OnCancel, KeptStays, Kept, Real, futureVars
<1>3. ASSUME NEW o \in Order, NEW time \in Times, NEW near \in BOOLEAN, NEW quantity \in Quantity,
             OnTrade(o, time, near, quantity)
      PROVE  pc = "tick" /\ Kept = fState /\ KeptTraded(near, quantity)
  <2>1. CASE time < Opening
    BY <1>3, <2>1 DEF OnTrade, KeptTraded, Kept, Real, PriceSet
  <2>2. CASE ~(time < Opening)
    BY <1>3, <2>2 DEF OnTrade, Sale, KeptTraded, Kept, Real
  <2> QED
    BY <2>1, <2>2
<1>4. CASE StepForTrade
  BY <1>4 DEF StepForTrade, KeptSteps, Kept, Real
<1>5. CASE AddTrade
  BY <1>5 DEF AddTrade, KeptAdds, Kept, Real
<1>6. CASE OnEnd \/ ClearApproach \/ EndCycle
  BY <1>6 DEF OnEnd, ClearApproach, EndCycle, KeptStays, Kept, Real
<1>7. ASSUME NEW places \in 0 .. 2, CheckApproach(places)
      PROVE  KeptStays
  BY <1>7 DEF CheckApproach, KeptStays, Kept, Real
<1>8. CASE SaveSnapshot \/ StepToFuture \/ BuyUpSellOrders \/ DecideWantBuy
  BY <1>8, PredictionIsNoStep
     DEF KeptStays, SaveSnapshot, StepToFuture, BuyUpSellOrders, DecideWantBuy
<1> QED
  BY <1>1, <1>2, <1>3, <1>4, <1>5, <1>6, <1>7, <1>8 DEF Next, KeptSteps, KeptAdds

-----------------------------------------------------------------------------
(***************************************************************************)
(* The filter.                                                             *)
(***************************************************************************)
Fed(snapshots) ==
  [k \in DOMAIN snapshots |-> IF k = 1 THEN 0 ELSE snapshots[k].volume]

FilterInv ==
  /\ fState.iirState = Fed(fState.snapshots)
  /\ Kept.iirState = Fed(Kept.snapshots)

\* One more snapshot feeds its volume.
LEMMA FedMore ==
  ASSUME NEW s \in Seq(Snapshot), NEW x \in Snapshot
  PROVE  Fed(Append(s, x)) = addVolumeTick(Fed(s), x.volume)
<1> DEFINE n == Len(s)
           v == IF Fed(s) = <<>> THEN 0 ELSE x.volume
<1>1. n \in Nat /\ DOMAIN s = 1 .. n /\ \A k \in 1 .. n : s[k].volume \in Nat
  <2>1. \A y \in Snapshot : y.volume \in Nat
    BY DEF Snapshot
  <2> HIDE DEF Snapshot
  <2>2. \A k \in 1 .. n : s[k] \in Snapshot
    BY ElementOfSeq
  <2> QED
    BY <2>1, <2>2
<1>2. Fed(s) = [k \in 1 .. n |-> IF k = 1 THEN 0 ELSE s[k].volume]
  BY <1>1 DEF Fed
<1>3. Fed(s) \in Seq(Nat) /\ Len(Fed(s)) = n
  BY <1>1, <1>2, SeqDef, LenProperties
<1>4. v = (IF n = 0 THEN 0 ELSE x.volume) /\ v \in Nat
  BY <1>3 DEF Snapshot
<1>5. /\ DOMAIN Append(s, x) = 1 .. n + 1 /\ Append(s, x)[n + 1] = x
      /\ \A k \in 1 .. n : Append(s, x)[k] = s[k]
  BY <1>1
<1>6. /\ DOMAIN Append(Fed(s), v) = 1 .. n + 1 /\ Append(Fed(s), v)[n + 1] = v
      /\ \A k \in 1 .. n : Append(Fed(s), v)[k] = Fed(s)[k]
  <2> HIDE DEF n, v
  <2> QED
    BY <1>1, <1>3, <1>4
<1>7. \A k \in 1 .. n + 1 : Fed(Append(s, x))[k] = Append(Fed(s), v)[k]
  <2> SUFFICES ASSUME NEW k \in 1 .. n + 1 PROVE Fed(Append(s, x))[k] = Append(Fed(s), v)[k]
    OBVIOUS
  <2>1. Fed(Append(s, x))[k] = IF k = 1 THEN 0 ELSE Append(s, x)[k].volume
    BY <1>5 DEF Fed
  <2> HIDE DEF n, v
  <2>2. CASE k = n + 1
    BY <1>1, <1>4, <1>5, <1>6, <2>1, <2>2
  <2>3. CASE k # n + 1
    <3>1. k \in 1 .. n
      BY <1>1, <2>3
    <3> QED
      BY <1>2, <1>5, <1>6, <2>1, <3>1
  <2> QED
    BY <2>2, <2>3
<1>8. Fed(Append(s, x)) = Append(Fed(s), v)
  <2>1. Fed(Append(s, x)) = [k \in 1 .. n + 1 |-> Fed(Append(s, x))[k]]
    BY <1>5 DEF Fed
  <2>2. Append(Fed(s), v) = [k \in 1 .. n + 1 |-> Append(Fed(s), v)[k]]
    BY <1>6 DEF Append
  <2> HIDE DEF n, v
  <2> QED
    BY <1>7, <2>1, <2>2
<1> QED
  BY <1>8 DEF addVolumeTick

LEMMA FilterInit == Init => FilterInv
<1> SUFFICES ASSUME Init PROVE FilterInv
  OBVIOUS
<1>1. Kept = fState /\ fState.snapshots = <<>> /\ fState.iirState = <<>>
  BY DEF Init, Kept, Real
<1>2. Fed(<<>>) = <<>>
  BY DEF Fed
<1> QED
  BY <1>1, <1>2 DEF FilterInv

LEMMA FilterKept ==
  ASSUME CycleOK, StatesOK, ExchangeOK, FilterInv, [Next]_vars
  PROVE  FilterInv'
<1> DEFINE InStep(f) == f.iirState = Fed(f.snapshots)
<1>1. ASSUME NEW f \in State, InStep(f)
      PROVE  /\ InStep(Stepped(f))
             /\ \A x \in Snapshot, g \in State :
                  /\ g.snapshots = Append(f.snapshots, x)
                  /\ g.iirState = addVolumeTick(f.iirState, x.volume)
                  => InStep(g)
  <2>1. f.snapshots \in Seq(Snapshot) /\ f.currSnapshot \in Snapshot
    BY DEF State
  <2> QED
    BY <1>1, <2>1, FedMore, StepEnds
<1>2. InStep(fState) /\ InStep(Kept) /\ fState \in State /\ Kept \in State
  BY KeptType DEF FilterInv, StatesOK
<1>3. CASE UNCHANGED vars
  BY <1>3 DEF vars, FilterInv, Kept, Real
<1>4. ASSUME Next PROVE InStep(Kept')
  <2>1. CASE KeptStays
    BY <1>2, <2>1 DEF KeptStays
  <2>2. ASSUME NEW near \in BOOLEAN, NEW quantity \in Quantity, KeptTraded(near, quantity)
        PROVE  InStep(Kept')
    BY <1>2, <2>2, PriceSetType DEF KeptTraded
  <2>3. CASE KeptSteps
    BY <1>1, <1>2, <2>3 DEF KeptSteps
  <2>4. CASE KeptAdds
    BY <1>2, <2>4 DEF KeptAdds, State
  <2> QED
    BY <1>4, <2>1, <2>2, <2>3, <2>4, KeptMoves
<1>5. ASSUME Next PROVE InStep(fState')
  <2>1. CASE StepToFuture
    BY <1>1, <1>2, <2>1 DEF StepToFuture
  <2>2. CASE BuyUpSellOrders
    <3>1. fState \in State /\ IsBook(upSellOrders)
      BY DEF StatesOK, ExchangeOK
    <3>2. PICK g \in State, x \in Snapshot :
            /\ fState' = g /\ g.snapshots = Append(fState.snapshots, x)
            /\ g.iirState = addVolumeTick(fState.iirState, x.volume)
      BY <2>2, <3>1, BuysType DEF BuyUpSellOrders
    <3> HIDE DEF InStep
    <3> QED
      BY <1>1, <1>2, <3>2
  <2>3. CASE ~(StepToFuture \/ BuyUpSellOrders)
    <3>1. Kept' = fState' \/ fState' = fState
      <4>1. ASSUME NEW o \in Order, NEW quantity \in Quantity, OnOrder(o, quantity)
            PROVE  fState' = fState
        BY <4>1 DEF OnOrder
      <4>2. ASSUME NEW o \in Order, OnCancel(o) PROVE fState' = fState
        BY <4>2 DEF OnCancel
      <4>3. ASSUME NEW o \in Order, NEW time \in Times, NEW near \in BOOLEAN,
                   NEW quantity \in Quantity, OnTrade(o, time, near, quantity)
            PROVE  Kept' = fState'
        BY <4>3 DEF OnTrade, Tick, Kept, Real
      <4>4. CASE StepForTrade \/ AddTrade \/ OnEnd \/ ClearApproach \/ EndCycle
        BY <4>4 DEF StepForTrade, AddTrade, OnEnd, ClearApproach, EndCycle, Tick, Kept, Real
      <4>5. ASSUME NEW places \in 0 .. 2, CheckApproach(places) PROVE fState' = fState
        BY <4>5 DEF CheckApproach
      <4>6. CASE SaveSnapshot \/ DecideWantBuy
        BY <4>6 DEF SaveSnapshot, DecideWantBuy, Kept, Real
      <4> QED
        BY <1>5, <2>3, <4>1, <4>2, <4>3, <4>4, <4>5, <4>6 DEF Next
    <3> QED
      BY <1>2, <1>4, <1>5, <3>1
  <2> QED
    BY <2>1, <2>2, <2>3
<1> QED
  BY <1>3, <1>4, <1>5 DEF FilterInv

-----------------------------------------------------------------------------
(***************************************************************************)
(* The grid of times.                                                      *)
(***************************************************************************)
GridInv ==
  /\ Len(Kept.snapshots) <= DaySteps
  /\ Kept.nextTickTimestamp = timestampAbsDelinear(Step * Len(Kept.snapshots))

LEMMA DayIsLong ==
  DaySteps = 467999
BY SMT DEF DaySteps, Day, Open, Lunch, Step

\* What TradingClock assumes of a day.
LEMMA DayFits ==
  DaySteps \in Nat /\ Open + Lunch + Step * DaySteps < Day
BY SMT, DayIsLong DEF Day, Open, Lunch, Step

LEMMA GridAdvance ==
  ASSUME NEW k \in Nat, k <= DaySteps
  PROVE  /\ timestampAbsLinear(timestampAbsDelinear(Step * k)) = Step * k
         /\ timestampAdvance100ms(timestampAbsDelinear(Step * k)) = timestampAbsDelinear(Step * (k + 1))
<1>1. Open + Lunch + Step * k < Day
  BY SMT, DayIsLong DEF Day, Open, Lunch, Step
<1>2. Step * k + Step = Step * (k + 1)
  BY SMT DEF Step
<1> QED
  BY <1>1, <1>2, GridRoundTrip DEF timestampAdvance100ms

\* A grid time before the last hour is not the last of the day.
LEMMA NotLast ==
  ASSUME NEW k \in Nat, k <= DaySteps, timestampAbsDelinear(Step * k) < LastHour
  PROVE  k + 1 <= DaySteps
<1> DEFINE x == IF Step * k > Morning THEN Step * k + (Lunch - Step) + Open ELSE Step * k + Open
<1>1. x \in Nat /\ x < 86400000 /\ (k = DaySteps => x >= 82800000)
  BY SMT, DayIsLong DEF Open, Lunch, Step, Morning
<1>2. timestampAbsDelinear(Step * k) = timestampDelinear(x)
  BY SMT DEF timestampAbsDelinear
<1> HIDE DEF x
<1>3. x >= 82800000 => timestampDelinear(x) >= 230000000
  BY SMT, <1>1 DEF timestampDelinear
<1>4. k # DaySteps
  <2>1. timestampDelinear(x) \in Nat /\ timestampDelinear(x) < LastHour
    BY <1>1, <1>2, DelinearType
  <2> QED
    BY SMT, <1>1, <1>3, <2>1 DEF LastHour
<1>5. DaySteps \in Int
  BY SMT, DayIsLong
<1> QED
  BY <1>4, <1>5

LEMMA GridInit == Init => GridInv
<1> SUFFICES ASSUME Init PROVE GridInv
  OBVIOUS
<1>1. Kept = fState /\ Kept.snapshots = <<>> /\ Kept.nextTickTimestamp = Opening
  BY DEF Init, Kept, Real
<1>2. timestampAbsDelinear(0) = Opening
  BY SMT DEF timestampAbsDelinear, timestampDelinear, Morning, Open, Opening
<1>3. Step * 0 = 0 /\ 0 <= DaySteps
  BY SMT, DayIsLong DEF Step
<1> QED
  BY <1>1, <1>2, <1>3 DEF GridInv

\* The clock stands still or takes a step.
LEMMA GridMoves ==
  ASSUME CycleOK, StatesOK, ExchangeOK, GridInv, [Next]_vars
  PROVE  \/ UNCHANGED <<Kept.nextTickTimestamp, Len(Kept.snapshots)>>
         \/ /\ Len(Kept.snapshots) < DaySteps
            /\ Len(Kept.snapshots)' = Len(Kept.snapshots) + 1
            /\ Kept.nextTickTimestamp' = timestampAdvance100ms(Kept.nextTickTimestamp)
<1>1. fState \in State /\ Kept \in State
  BY KeptType DEF StatesOK
<1>2. CASE UNCHANGED vars
  BY <1>2 DEF vars, Kept, Real
<1>3. CASE KeptStays
  BY <1>3 DEF KeptStays
<1>4. ASSUME Kept = fState, NEW near \in BOOLEAN, NEW quantity \in Quantity,
             KeptTraded(near, quantity)
      PROVE  UNCHANGED <<Kept.nextTickTimestamp, Len(Kept.snapshots)>>
  BY <1>1, <1>4, PriceSetType DEF KeptTraded
<1>5. CASE Kept = fState /\ KeptAdds
  BY <1>1, <1>5 DEF KeptAdds, State
<1>6. CASE Kept = fState /\ KeptSteps
  <2>1. fState.snapshots \in Seq(Snapshot) /\ Len(fState.snapshots) \in Nat /\ fState.nextTickTimestamp \in Nat
    BY <1>1 DEF State
  <2>2. /\ Kept'.nextTickTimestamp = timestampAdvance100ms(fState.nextTickTimestamp)
        /\ Kept'.snapshots = Append(fState.snapshots, fState.currSnapshot)
    BY <1>1, <1>6, StepEnds DEF KeptSteps
  <2>3. Len(Kept'.snapshots) = Len(fState.snapshots) + 1
    BY <2>1, <2>2
  <2>4. fState.nextTickTimestamp < LastHour
    <3>1. LastHour \in Nat
      BY SMT DEF LastHour
    <3>2. trade.time \in Nat /\ trade.time < LastHour /\ trade.time > fState.nextTickTimestamp
      BY <1>6 DEF KeptSteps, ExchangeOK
    <3> QED
      BY <2>1, <3>1, <3>2
  <2>5. Len(fState.snapshots) + 1 <= DaySteps
    BY <1>6, <2>1, <2>4, NotLast DEF GridInv
  <2>6. DaySteps \in Int
    BY SMT, DayIsLong
  <2> QED
    BY <1>6, <2>1, <2>2, <2>3, <2>5, <2>6
<1> QED
  BY <1>2, <1>3, <1>4, <1>5, <1>6, KeptMoves

LEMMA GridKept ==
  ASSUME CycleOK, StatesOK, ExchangeOK, GridInv, [Next]_vars
  PROVE  GridInv'
<1> DEFINE n == Len(Kept.snapshots)
<1>1. n \in Nat /\ n <= DaySteps
  BY KeptType DEF State, GridInv
<1>2. CASE UNCHANGED <<Kept.nextTickTimestamp, Len(Kept.snapshots)>>
  BY <1>2 DEF GridInv, DaySteps
<1>3. CASE /\ n < DaySteps /\ n' = n + 1
           /\ Kept.nextTickTimestamp' = timestampAdvance100ms(Kept.nextTickTimestamp)
  <2>1. Kept.nextTickTimestamp = timestampAbsDelinear(Step * n)
    BY DEF GridInv
  <2>2. n + 1 <= DaySteps
    BY <1>1, <1>3, DayIsLong
  <2> HIDE DEF n
  <2>3. Kept.nextTickTimestamp' = timestampAbsDelinear(Step * n')
    BY <1>1, <1>3, <2>1, GridAdvance
  <2> QED
    BY <1>3, <2>2, <2>3 DEF GridInv, n
<1> QED
  BY <1>2, <1>3, GridMoves

-----------------------------------------------------------------------------
(***************************************************************************)
(* The volume.                                                             *)
(***************************************************************************)
VolumeInv ==
  SumFunction(Volumes(Kept.snapshots)) + Kept.currSnapshot.volume
    + (IF pc = "addRealTrade" THEN trade.quantity ELSE 0) = traded

LEMMA VolumesMore ==
  ASSUME NEW s \in Seq(Snapshot), NEW x \in Snapshot
  PROVE  /\ SumFunction(Volumes(s)) \in Nat
         /\ SumFunction(Volumes(Append(s, x))) = SumFunction(Volumes(s)) + x.volume
<1> DEFINE n == Len(s)
           g == Volumes(s)
           h == Volumes(Append(s, x))
<1>1. /\ n \in Nat /\ DOMAIN s = 1 .. n /\ \A k \in 1 .. n : s[k].volume \in Nat
      /\ x.volume \in Nat
  <2>1. \A y \in Snapshot : y.volume \in Nat
    BY DEF Snapshot
  <2> HIDE DEF Snapshot
  <2>2. \A k \in 1 .. n : s[k] \in Snapshot
    BY ElementOfSeq
  <2> QED
    BY <2>1, <2>2
<1>2. /\ DOMAIN Append(s, x) = 1 .. n + 1 /\ Append(s, x)[n + 1] = x
      /\ \A k \in 1 .. n : Append(s, x)[k] = s[k]
  BY <1>1
<1>3. IsFiniteSet(1 .. n)
  BY <1>1, FS_Interval
<1>4. g \in [1 .. n -> Nat] /\ \A k \in 1 .. n : g[k] = s[k].volume
  BY <1>1 DEF Volumes
<1>5. DOMAIN h = 1 .. n + 1 /\ \A k \in 1 .. n + 1 : h[k] = Append(s, x)[k].volume
  BY <1>2 DEF Volumes
<1>6. h = [k \in 1 .. n + 1 |-> Append(s, x)[k].volume]
  BY <1>2 DEF Volumes
<1> HIDE DEF n, g, h
<1>7. h[n + 1] = x.volume /\ \A k \in 1 .. n : h[k] = g[k]
  BY <1>1, <1>2, <1>4, <1>5
<1>8. \A k \in 1 .. n + 1 : h[k] \in Nat
  BY <1>1, <1>4, <1>7
<1>9. h \in [1 .. n + 1 -> Nat]
  BY <1>6, <1>8
<1>10. SumFunction(g) \in Nat
  BY <1>3, <1>4, SumType
<1>11. SumFunction(h) = SumFunction(g) + h[n + 1]
  <2> DEFINE S == 1 .. n
             D == 1 .. n + 1
  <2>1. n + 1 \in D /\ n + 1 \notin S /\ D \ {n + 1} = S
    BY <1>1
  <2>2. IsFiniteSet(S) /\ g \in [S -> Nat] /\ h \in [D -> Nat] /\ \A k \in S : h[k] = g[k]
    BY <1>3, <1>4, <1>7, <1>9
  <2> HIDE DEF S, D
  <2> QED
    BY <2>1, <2>2, SumOfMore
<1> QED
  BY <1>7, <1>10, <1>11 DEF g, h

LEMMA VolumeInit == Init => VolumeInv
<1> SUFFICES ASSUME Init PROVE VolumeInv
  OBVIOUS
<1>1. Kept = fState /\ Kept.snapshots = <<>> /\ Kept.currSnapshot = NoSnapshot
  BY DEF Init, Kept, Real
<1>2. Volumes(<<>>) \in [{} -> Nat]
  BY DEF Volumes
<1>3. SumFunction(Volumes(<<>>)) = 0
  BY <1>2, FS_EmptySet, SumType
<1> QED
  BY <1>1, <1>3 DEF Init, VolumeInv, NoSnapshot

LEMMA VolumeKept ==
  ASSUME CycleOK, StatesOK, ExchangeOK, VolumeInv, [Next]_vars
  PROVE  VolumeInv'
<1> DEFINE sum == SumFunction(Volumes(Kept.snapshots))
           volume == Kept.currSnapshot.volume
<1>1. /\ fState \in State /\ Kept \in State
      /\ Kept.snapshots \in Seq(Snapshot) /\ Kept.currSnapshot \in Snapshot
      /\ volume \in Nat /\ trade.quantity \in Nat /\ traded \in Nat
  BY KeptType DEF StatesOK, State, Snapshot, ExchangeOK
<1>2. sum \in Nat
  BY <1>1, VolumesMore
<1>3. CASE UNCHANGED vars
  BY <1>3 DEF vars, VolumeInv, Kept, Real
<1>4. CASE KeptStays
  BY <1>4 DEF KeptStays, VolumeInv
<1>5. ASSUME NEW near \in BOOLEAN, NEW quantity \in Quantity,
             pc = "tick", Kept = fState, KeptTraded(near, quantity)
      PROVE  VolumeInv'
  <2>1. sum' = sum /\ volume' = volume
    BY <1>1, <1>5, PriceSetType DEF KeptTraded
  <2>2. sum + volume = traded
    BY <1>1, <1>2, <1>5 DEF VolumeInv
  <2>3. quantity \in Nat
    BY QuantityAssumption
  <2>4. sum' + volume' + (IF pc' = "addRealTrade" THEN trade'.quantity ELSE 0) = traded'
    <3> HIDE DEF sum, volume
    <3> QED
      BY <1>1, <1>2, <1>5, <2>1, <2>2, <2>3 DEF KeptTraded
  <2> QED
    BY <2>4 DEF VolumeInv
<1>6. CASE pc = "addRealTrade" /\ Kept = fState /\ KeptSteps
  <2>1. /\ Kept'.currSnapshot.volume = 0
        /\ Kept'.snapshots = Append(Kept.snapshots, Kept.currSnapshot)
    BY <1>1, <1>6, StepEnds DEF KeptSteps
  <2>2. sum' = sum + volume /\ volume' = 0
    BY <1>1, <2>1, VolumesMore
  <2>3. sum + volume + trade.quantity = traded
    BY <1>6 DEF VolumeInv
  <2>4. sum' + volume' + (IF pc' = "addRealTrade" THEN trade'.quantity ELSE 0) = traded'
    <3> HIDE DEF sum, volume
    <3> QED
      BY <1>1, <1>2, <1>6, <2>2, <2>3 DEF KeptSteps
  <2> QED
    BY <2>4 DEF VolumeInv
<1>7. CASE pc = "addRealTrade" /\ Kept = fState /\ KeptAdds
  <2>1. Added(fState.currSnapshot, trade.near, 1, trade.quantity).volume = volume + trade.quantity
    BY <1>7 DEF Added
  <2>2. sum' = sum /\ volume' = volume + trade.quantity
    BY <1>1, <1>7, <2>1 DEF KeptAdds, State
  <2>3. sum + volume + trade.quantity = traded
    BY <1>7 DEF VolumeInv
  <2>4. sum' + volume' + (IF pc' = "addRealTrade" THEN trade'.quantity ELSE 0) = traded'
    <3> HIDE DEF sum, volume
    <3> QED
      BY <1>1, <1>2, <1>7, <2>2, <2>3 DEF KeptAdds
  <2> QED
    BY <2>4 DEF VolumeInv
<1> QED
  BY <1>3, <1>4, <1>5, <1>6, <1>7, KeptMoves

-----------------------------------------------------------------------------
(***************************************************************************)
(* The round of predictions.  What is kept gives its times, as the state   *)
(* itself is carried on.                                                   *)
(***************************************************************************)
RoundInv ==
  LET now == Kept.nextTickTimestamp
      after == timestampAdvance100ms(now)
      third == timestampAdvance100ms(after)
  IN  /\ pc \in {"tick", "addRealTrade"} => pushed = <<>>
      /\ pc \in {"saveSnapshot", "stepToFuture", "decideWantBuy"} =>
           IF firstCompute THEN pushed = <<>> /\ futureTimestamp = now
           ELSE \/ pushed = <<now>> /\ futureTimestamp = after
                \/ pushed = <<now, after>> /\ futureTimestamp = third /\ calls = 1
      /\ pc = "cycle" => pushed \in {<<>>, <<now, after>>, <<now, after, third>>}

LEMMA AppendOne ==
  ASSUME NEW a, NEW b
  PROVE  Append(<<a>>, b) = <<a, b>>
<1>1. Len(<<a>>) = 1 /\ <<a>>[1] = a
  OBVIOUS
<1>2. Append(<<a>>, b) = [i \in 1 .. 2 |-> IF i = 2 THEN b ELSE <<a>>[i]]
  BY <1>1 DEF Append
<1>3. <<a, b>> = [i \in 1 .. 2 |-> IF i = 1 THEN a ELSE b]
  OBVIOUS
<1>4. \A i \in 1 .. 2 : (IF i = 2 THEN b ELSE <<a>>[i]) = IF i = 1 THEN a ELSE b
  BY <1>1
<1>5. [i \in 1 .. 2 |-> IF i = 2 THEN b ELSE <<a>>[i]] = [i \in 1 .. 2 |-> IF i = 1 THEN a ELSE b]
  BY <1>4
<1> QED
  BY <1>2, <1>3, <1>5

LEMMA AppendTwo ==
  ASSUME NEW a, NEW b, NEW c
  PROVE  Append(<<a, b>>, c) = <<a, b, c>>
<1>1. Len(<<a, b>>) = 2 /\ <<a, b>>[1] = a /\ <<a, b>>[2] = b
  OBVIOUS
<1>2. Append(<<a, b>>, c) = [i \in 1 .. 3 |-> IF i = 3 THEN c ELSE <<a, b>>[i]]
  BY <1>1 DEF Append
<1>3. <<a, b, c>> = [i \in 1 .. 3 |-> IF i = 1 THEN a ELSE IF i = 2 THEN b ELSE c]
  OBVIOUS
<1>4. \A i \in 1 .. 3 : (IF i = 3 THEN c ELSE <<a, b>>[i])
                          = IF i = 1 THEN a ELSE IF i = 2 THEN b ELSE c
  BY <1>1
<1>5. [i \in 1 .. 3 |-> IF i = 3 THEN c ELSE <<a, b>>[i]]
        = [i \in 1 .. 3 |-> IF i = 1 THEN a ELSE IF i = 2 THEN b ELSE c]
  BY <1>4
<1> QED
  BY <1>2, <1>3, <1>5

LEMMA RoundKept ==
  ASSUME CycleOK, StatesOK, ExchangeOK, RoundInv, [Next]_vars
  PROVE  RoundInv'
<1> USE DEF Tick, bookVars, futureVars
<1>1. ASSUME NEW o \in Order, NEW quantity \in Quantity, OnOrder(o, quantity)
      PROVE  RoundInv'
  BY <1>1 DEF OnOrder, RoundInv, Kept, Real
<1>2. ASSUME NEW o \in Order, OnCancel(o) PROVE RoundInv'
  BY <1>2 DEF OnCancel, RoundInv, Kept, Real
<1>3. ASSUME NEW o \in Order, NEW time \in Times, NEW near \in BOOLEAN,
             NEW quantity \in Quantity, OnTrade(o, time, near, quantity)
      PROVE  RoundInv'
  BY <1>3 DEF OnTrade, RoundInv
<1>4. CASE StepForTrade \/ AddTrade
  BY <1>4 DEF StepForTrade, AddTrade, RoundInv
<1>5. CASE OnEnd \/ ClearApproach \/ EndCycle
  BY <1>5 DEF OnEnd, ClearApproach, EndCycle, RoundInv
<1>6. ASSUME NEW places \in 0 .. 2, CheckApproach(places) PROVE RoundInv'
  BY <1>6 DEF CheckApproach, RoundInv, Kept, Real
<1>7. CASE SaveSnapshot \/ StepToFuture \/ BuyUpSellOrders
  <2>1. Kept' = Kept
    BY <1>7, PredictionIsNoStep
  <2> QED
    BY <1>7, <2>1 DEF SaveSnapshot, StepToFuture, BuyUpSellOrders, RoundInv
<1>8. CASE DecideWantBuy
  <2>1. Kept' = Kept
    BY <1>8, PredictionIsNoStep
  <2>2. CASE firstCompute
    <3>1. pushed = <<>> /\ futureTimestamp = Kept.nextTickTimestamp
      BY <1>8, <2>2 DEF DecideWantBuy, RoundInv
    <3>2. pushed' = <<Kept.nextTickTimestamp>>
      BY <1>8, <3>1 DEF DecideWantBuy
    <3>3. /\ futureTimestamp' = timestampAdvance100ms(Kept.nextTickTimestamp)
          /\ firstCompute' = FALSE /\ pc' = "saveSnapshot"
      BY <1>8, <2>2, <3>1 DEF DecideWantBuy, CycleOK
    <3> QED
      BY <2>1, <3>2, <3>3 DEF RoundInv
  <2>3. CASE ~firstCompute
    <3> DEFINE now == Kept.nextTickTimestamp
               after == timestampAdvance100ms(now)
               third == timestampAdvance100ms(after)
    <3>1. /\ \/ pushed = <<now>> /\ futureTimestamp = after
             \/ pushed = <<now, after>> /\ futureTimestamp = third /\ calls = 1
          /\ pushed' = Append(pushed, futureTimestamp)
          /\ futureTimestamp' = timestampAdvance100ms(futureTimestamp)
          /\ firstCompute' = FALSE /\ calls' = calls - 1
          /\ pc' = IF calls' > 0 THEN "saveSnapshot" ELSE "cycle"
      BY <1>8, <2>3 DEF DecideWantBuy, RoundInv
    <3>2. calls \in {1, 2}
      BY <1>8 DEF DecideWantBuy, CycleOK
    <3>3. CASE pushed = <<now>> /\ futureTimestamp = after
      <4>1. pushed' = <<now, after>> /\ futureTimestamp' = third
        BY <3>1, <3>3, AppendOne
      <4>2. \/ pc' = "cycle"
            \/ pc' = "saveSnapshot" /\ calls' = 1
        BY <3>1, <3>2
      <4> QED
        BY <2>1, <3>1, <4>1, <4>2 DEF RoundInv
    <3>4. CASE pushed = <<now, after>> /\ futureTimestamp = third /\ calls = 1
      <4>1. pushed' = <<now, after, third>>
        BY <3>1, <3>4, AppendTwo
      <4>2. pc' = "cycle"
        BY <3>1, <3>4
      <4> QED
        BY <2>1, <4>1, <4>2 DEF RoundInv
    <3> QED
      BY <3>1, <3>3, <3>4
  <2> QED
    BY <2>2, <2>3
<1>9. CASE UNCHANGED vars
  BY <1>9 DEF vars, RoundInv, Kept, Real
<1> QED
  BY <1>1, <1>2, <1>3, <1>4, <1>5, <1>6, <1>7, <1>8, <1>9 DEF Next

-----------------------------------------------------------------------------
(***************************************************************************)
(* The book.                                                               *)
(***************************************************************************)
\* An order of the book is one at the limit price with something open.
HoldsOpen(book, opened) ==
  /\ DOMAIN book = {p \in NearOrder \cap DOMAIN opened : opened[p] > 0}
  /\ \A p \in DOMAIN book : book[p] = opened[p]

LEMMA HoldsOpenIsBook ==
  ASSUME IsBook(upSellOrders)
  PROVE  BookMatchesExchange <=> HoldsOpen(upSellOrders, open)
<1>1. upSellOrders = [p \in DOMAIN upSellOrders |-> upSellOrders[p]]
  BY DEF IsBook
<1> QED
  BY <1>1 DEF BookMatchesExchange, HoldsOpen

LEMMA BookStays ==
  ASSUME CycleOK, StatesOK, ExchangeOK, BookMatchesExchange, [Next]_vars
  PROVE  BookMatchesExchange'
<1> USE DEF Tick, bookVars
<1>0. /\ HoldsOpen(upSellOrders, open) /\ open \in [DOMAIN open -> Nat]
      /\ upSellOrders \in [DOMAIN upSellOrders -> Nat \ {0}]
  BY HoldsOpenIsBook DEF ExchangeOK, IsBook
<1>1. ASSUME Next, HoldsOpen(upSellOrders', open') PROVE BookMatchesExchange'
  <2>1. IsBook(upSellOrders')
    BY <1>1, TypesKept DEF ExchangeOK
  <2>2. upSellOrders' = [p \in DOMAIN upSellOrders' |-> upSellOrders'[p]]
    BY <2>1 DEF IsBook
  <2> QED
    BY <1>1, <2>2 DEF BookMatchesExchange, HoldsOpen
<1>2. ASSUME NEW o \in Order, NEW quantity \in Quantity, OnOrder(o, quantity)
      PROVE  HoldsOpen(upSellOrders', open')
  <2>1. quantity \in Nat /\ quantity > 0 /\ o \notin DOMAIN open /\ o \notin DOMAIN upSellOrders
    BY <1>0, <1>2, QuantityAssumption DEF OnOrder, HoldsOpen
  <2>2. open' = [p \in DOMAIN open \cup {o} |-> IF p = o THEN quantity ELSE open[p]]
    BY <1>2 DEF OnOrder, With
  <2>3. CASE o \in NearOrder
    <3>1. upSellOrders' = [p \in DOMAIN upSellOrders \cup {o} |->
                             IF p = o THEN quantity ELSE upSellOrders[p]]
      BY <1>2, <2>1, <2>3 DEF OnOrder, With
    <3> QED
      BY <1>0, <2>1, <2>2, <2>3, <3>1 DEF HoldsOpen
  <2>4. CASE o \notin NearOrder
    <3>1. upSellOrders' = upSellOrders
      BY <1>2, <2>4 DEF OnOrder
    <3> QED
      BY <1>0, <2>1, <2>2, <2>4, <3>1 DEF HoldsOpen
  <2> QED
    BY <2>3, <2>4
<1>3. ASSUME NEW o \in Order, OnCancel(o) PROVE HoldsOpen(upSellOrders', open')
  <2>1. open' = [open EXCEPT ![o] = 0] /\ o \in DOMAIN open
    BY <1>3 DEF OnCancel
  <2>2. upSellOrders' = [p \in DOMAIN upSellOrders \ {o} |-> upSellOrders[p]]
    BY <1>3 DEF OnCancel, Without
  <2> QED
    BY <1>0, <2>1, <2>2 DEF HoldsOpen
<1>4. ASSUME NEW o \in Order, NEW time \in Times, NEW near \in BOOLEAN,
             NEW quantity \in Quantity, OnTrade(o, time, near, quantity)
      PROVE  HoldsOpen(upSellOrders', open')
  <2>1. /\ quantity \in Nat /\ quantity > 0
        /\ upSellOrders' = Executed(upSellOrders, o, quantity)
        /\ o \in DOMAIN open => open[o] >= quantity
        /\ open' = IF o \in DOMAIN open THEN [open EXCEPT ![o] = @ - quantity] ELSE open
    BY <1>4, QuantityAssumption DEF OnTrade, Sale
  <2>2. CASE o \notin DOMAIN open
    BY <1>0, <2>1, <2>2 DEF HoldsOpen, Executed
  <2>3. CASE o \in DOMAIN open /\ o \notin DOMAIN upSellOrders
    <3>1. /\ upSellOrders' = upSellOrders /\ DOMAIN open' = DOMAIN open
          /\ \A p \in DOMAIN open : open'[p] = IF p = o THEN open[p] - quantity ELSE open[p]
      BY <1>0, <2>1, <2>3 DEF Executed
    <3>2. o \in NearOrder => FALSE
      BY <1>0, <2>1, <2>3 DEF HoldsOpen
    <3> QED
      BY <1>0, <3>1, <3>2 DEF HoldsOpen
  <2>4. CASE o \in DOMAIN open /\ o \in DOMAIN upSellOrders
    <3>1. /\ DOMAIN open' = DOMAIN open
          /\ \A p \in DOMAIN open : open'[p] = IF p = o THEN open[p] - quantity ELSE open[p]
      BY <1>0, <2>1, <2>4
    <3>2. upSellOrders[o] = open[o] /\ open[o] \in Nat /\ o \in NearOrder
      BY <1>0, <2>4 DEF HoldsOpen
    <3>3. CASE upSellOrders[o] > quantity
      <4>1. /\ DOMAIN upSellOrders' = DOMAIN upSellOrders
            /\ \A p \in DOMAIN upSellOrders :
                 upSellOrders'[p] = IF p = o THEN upSellOrders[o] - quantity ELSE upSellOrders[p]
        BY <2>1, <2>4, <3>3 DEF Executed, With
      <4> QED
        BY <1>0, <2>1, <3>1, <3>2, <3>3, <4>1 DEF HoldsOpen
    <3>4. CASE ~(upSellOrders[o] > quantity)
      <4>1. /\ DOMAIN upSellOrders' = DOMAIN upSellOrders \ {o}
            /\ \A p \in DOMAIN upSellOrders' : upSellOrders'[p] = upSellOrders[p]
        BY <2>1, <2>4, <3>4 DEF Executed, Without
      <4>2. open[o] - quantity = 0
        BY <2>1, <2>4, <3>2, <3>4
      <4> QED
        BY <1>0, <3>1, <3>2, <4>1, <4>2 DEF HoldsOpen
    <3> QED
      BY <3>3, <3>4
  <2> QED
    BY <2>2, <2>3, <2>4
<1>5. CASE UNCHANGED <<upSellOrders, open>>
  BY <1>5 DEF BookMatchesExchange
<1>6. ASSUME NEW places \in 0 .. 2, CheckApproach(places)
      PROVE  UNCHANGED <<upSellOrders, open>>
  BY <1>6 DEF CheckApproach
<1>7. CASE StepForTrade \/ AddTrade \/ OnEnd \/ ClearApproach \/ EndCycle \/ SaveSnapshot
           \/ StepToFuture \/ BuyUpSellOrders \/ DecideWantBuy
  BY <1>5, <1>7 DEF StepForTrade, AddTrade, OnEnd, ClearApproach, EndCycle, SaveSnapshot,
           StepToFuture, BuyUpSellOrders, DecideWantBuy
<1>8. CASE UNCHANGED vars
  BY <1>5, <1>8 DEF vars
<1> QED
  BY <1>1, <1>2, <1>3, <1>4, <1>5, <1>6, <1>7, <1>8 DEF Next

-----------------------------------------------------------------------------
(***************************************************************************)
(* The theorems.  The types carry the other parts of the invariant.        *)
(***************************************************************************)
LEMMA AlwaysTyped == Spec => []Typed
<1>1. Init => Typed
  BY TypesInit DEF Typed
<1>2. Typed /\ [Next]_vars => Typed'
  BY TypesKept DEF Typed
<1> QED
  BY <1>1, <1>2, PTL DEF Spec

\* The types of StockCompute; no order of the book is without quantity.
THEOREM TypeCorrect == Spec => []TypeOK
<1>1. Typed => TypeOK
  BY DEF Typed, TypeOK, CycleOK, StatesOK, ExchangeOK, IsBook, State, Saving
<1> QED
  BY <1>1, AlwaysTyped, PTL

\* The grid of times holds of what is kept.
LEMMA AlwaysOnGrid == Spec => []GridInv
<1>1. Typed /\ GridInv /\ [Next]_vars => GridInv'
  BY GridKept DEF Typed
<1> QED
  BY <1>1, GridInit, AlwaysTyped, PTL DEF Spec

\* There is a snapshot for each step from the opening to the current time, however
\* many predictions were made.
THEOREM SnapshotsOnClock == Spec => []SnapshotClock
<1>1. Typed /\ GridInv => SnapshotClock
  <2> SUFFICES ASSUME Typed, GridInv, Real PROVE SnapshotClock
    BY DEF SnapshotClock
  <2>1. Kept = fState /\ Len(fState.snapshots) \in Nat
    BY KeptType DEF Typed, StatesOK, State, Kept
  <2> QED
    BY <2>1, GridAdvance DEF GridInv, SnapshotClock
<1> QED
  BY <1>1, AlwaysTyped, AlwaysOnGrid, PTL

\* The clock has its own copy of the conversions.
LEMMA SameAdvance ==
  ASSUME NEW t
  PROVE  Clock!timestampAdvance100ms(t) = timestampAdvance100ms(t)
BY DEF timestampAdvance100ms, timestampAbsDelinear, timestampAbsLinear, timestampLinear,
       timestampDelinear, Open, Morning, Lunch, Step,
       Clock!timestampAdvance100ms, Clock!timestampAbsDelinear, Clock!timestampAbsLinear,
       Clock!timestampLinear, Clock!timestampDelinear, Clock!Open, Clock!Morning,
       Clock!Lunch, Clock!Step

\* The day of a stock is one of TradingClock, whose predictions are no steps at all.
THEOREM DayOfTheClock == Spec => ImplementsClock
<1>1. Init => Clock!ClockInit
  <2> SUFFICES ASSUME Init PROVE Clock!ClockInit
    OBVIOUS
  <2>1. Kept.snapshots = <<>> /\ Kept.nextTickTimestamp = Opening
    BY DEF Init, Kept, Real
  <2> QED
    BY <2>1 DEF Clock!ClockInit, Opening
<1>2. Typed /\ GridInv /\ [Next]_vars => [Clock!Advance]_(Clock!clockVars)
  BY GridMoves, SameAdvance DEF Typed, Clock!Advance, Clock!clockVars
<1> QED
  BY <1>1, <1>2, AlwaysTyped, AlwaysOnGrid, PTL DEF Spec, ImplementsClock, Clock!ClockSpec

\* The filter was fed every snapshot once and in order, whatever predictions fed it.
THEOREM FilterFedOnce == Spec => []FilterInStep
<1>1. Typed /\ FilterInv /\ [Next]_vars => FilterInv'
  BY FilterKept DEF Typed
<1>2. FilterInv => FilterInStep
  BY DEF FilterInv, FilterInStep, Fed
<1> QED
  BY <1>1, <1>2, FilterInit, AlwaysTyped, PTL DEF Spec

\* No traded volume is lost, counted twice or made up by a prediction.
THEOREM VolumeIsTraded == Spec => []VolumeConserved
<1>1. Typed /\ VolumeInv /\ [Next]_vars => VolumeInv'
  BY VolumeKept DEF Typed
<1>2. VolumeInv => VolumeConserved
  BY DEF VolumeInv, VolumeConserved, Kept
<1> QED
  BY <1>1, <1>2, VolumeInit, AlwaysTyped, PTL DEF Spec

\* A round of predictions begins with the current time and leaves out no step
\* after it, also for a stock that has both places of the cycle.
THEOREM RoundsWithoutGap == Spec => []RoundWithoutGap
<1>1. Init => RoundInv
  BY DEF Init, RoundInv
<1>2. Typed /\ RoundInv /\ [Next]_vars => RoundInv'
  BY RoundKept DEF Typed
<1>3. RoundInv => RoundWithoutGap
  BY DEF RoundInv, RoundWithoutGap, Kept, Real
<1> QED
  BY <1>1, <1>2, <1>3, AlwaysTyped, PTL DEF Spec

\* The book holds of each order at the limit price what is open of it.
THEOREM BookIsOpen == Spec => []BookMatchesExchange
<1>1. Init => BookMatchesExchange
  BY DEF Init, BookMatchesExchange
<1>2. Typed /\ BookMatchesExchange /\ [Next]_vars => BookMatchesExchange'
  BY BookStays DEF Typed
<1> QED
  BY <1>1, <1>2, AlwaysTyped, PTL DEF Spec
=============================================================================
