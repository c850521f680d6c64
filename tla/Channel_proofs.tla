--------------------------- MODULE Channel_proofs ----------------------------
(***************************************************************************)
(* Theorems about Channel for every finite set of stocks, every size of    *)
(* the ring and of the batches, and recordings of any length.              *)
(***************************************************************************)
EXTENDS Channel, SequenceTheorems, FiniteSetTheorems, TLAPS

-----------------------------------------------------------------------------
(***************************************************************************)
(* Orders.                                                                 *)
(***************************************************************************)
\* A stock is only watched until its order: the watching starts before any
\* tick can arrive.
OrderInv ==
  /\ orders \in [Stock -> Nat]
  /\ main = "receive" => mds = "none" /\ \A s \in Stock : orders[s] = 0
  /\ mds = "none" => main = "receive"
  /\ \A s \in Stock : orders[s] <= 1 /\ (s \in alive => orders[s] = 0)

\* No interleaving of the market data thread with main or the compute thread
\* sends a second order for a stock.
THEOREM OneOrder == Spec => []AtMostOneOrder
<1>1. Init => OrderInv
  BY DEF Init, OrderInv
<1>2. OrderInv /\ [Next]_vars => OrderInv'
  <2> SUFFICES ASSUME OrderInv, [Next]_vars PROVE OrderInv'
    OBVIOUS
  <2> USE DEF OrderInv
  <2>1. CASE UNCHANGED vars
    BY <2>1 DEF vars, mainVars, mdsVars, stateVars
  <2>2. CASE StartReceive
    BY <2>2 DEF StartReceive, Watched
  <2>3. CASE MdsStarted \/ StartThread \/ SeeFinished \/ JoinMds \/ RequestStop
    BY <2>3 DEF MdsStarted, StartThread, SeeFinished, JoinMds, RequestStop,
                mdsVars, stateVars
  <2>4. ASSUME NEW s \in Stock, StartCompute(s) PROVE OrderInv'
    BY <2>4 DEF StartCompute, mdsVars, stateVars
  <2>5. CASE StopStocks
    BY <2>5 DEF StopStocks, mdsVars
  <2>6. CASE Sigint
    BY <2>6 DEF Sigint, mainVars, stateVars
  <2>7. CASE Load \/ Finish \/ IgnoreTick
    BY <2>7 DEF Load, Finish, IgnoreTick, Publish, mainVars, stateVars
  <2>8. ASSUME NEW s \in Stock, NEW kind, PassTick(s, kind) PROVE OrderInv'
    BY <2>8 DEF PassTick, Publish, mainVars, stateVars
  <2>9. ASSUME NEW s \in Stock, NEW buy \in BOOLEAN, LimitUp(s, buy) PROVE OrderInv'
    <3>1. /\ main' = main /\ mds' = mds /\ mds = "publishing"
          /\ s \in alive /\ alive' = alive \ {s}
          /\ orders' = IF buy THEN [orders EXCEPT ![s] = @ + 1] ELSE orders
      BY <2>9 DEF LimitUp, Publish, mainVars
    <3>2. orders' \in [Stock -> Nat]
      BY <3>1
    <3>3. \A p \in Stock : orders'[p] <= 1 /\ (p \in alive' => orders'[p] = 0)
      BY <3>1
    <3> QED
      BY <3>1, <3>2, <3>3
  <2>10. CASE Compute
    BY <2>10 DEF Compute, BeginCycle, SeeStop, Fetch, Release, HandleTick, FetchAgain,
                 CheckApproach, CompareWild, EndCycle, OnApproach, mainVars, mdsVars, stateVars
  <2> QED
    BY <2>1, <2>2, <2>3, <2>4, <2>5, <2>6, <2>7, <2>8, <2>9, <2>10
       DEF Next, Main, MarketData
<1>3. OrderInv => AtMostOneOrder
  BY DEF OrderInv, AtMostOneOrder
<1> QED
  BY <1>1, <1>2, <1>3, PTL DEF Spec

-----------------------------------------------------------------------------
(***************************************************************************)
(* The end of the program.                                                 *)
(***************************************************************************)
\* main goes past each join only when the thread has ended.
JoinInv ==
  /\ main \in {"stopCompute", "joinCompute", "stopped"} => mds = "finished"
  /\ main = "stopped" => compute = "ended"

\* JoinInv is an invariant.
LEMMA Joins == Spec => []JoinInv
<1>1. Init => JoinInv
  BY DEF Init, JoinInv
<1>2. JoinInv /\ [Next]_vars => JoinInv'
  <2> SUFFICES ASSUME JoinInv, [Next]_vars PROVE JoinInv'
    OBVIOUS
  <2> USE DEF JoinInv
  <2>1. CASE UNCHANGED vars
    BY <2>1 DEF vars, mainVars, mdsVars, threadVars
  <2>2. CASE Main \/ Sigint
    BY <2>2 DEF Main, Sigint, StartReceive, MdsStarted, StartThread, SeeFinished, JoinMds,
                RequestStop, StartCompute, StopStocks, mainVars, mdsVars, threadVars
  <2>3. CASE MarketData
    BY <2>3 DEF MarketData, Load, Finish, IgnoreTick, PassTick, LimitUp, Publish,
                mainVars, threadVars
  <2>4. CASE Compute
    BY <2>4 DEF Compute, BeginCycle, SeeStop, Fetch, Release, HandleTick, FetchAgain,
                CheckApproach, CompareWild, EndCycle, OnApproach, mainVars, mdsVars, threadVars
  <2> QED
    BY <2>1, <2>2, <2>3, <2>4 DEF Next
<1> QED
  BY <1>1, <1>2, PTL DEF Spec

\* Once the arrays are freed no thread is left that could touch them.
THEOREM Quiet == Spec => QuietWhenStopped
<1>1. JoinInv /\ [Next]_vars => [main # "stopped"]_vars
  <2> SUFFICES ASSUME JoinInv, Next, main = "stopped" PROVE FALSE
    OBVIOUS
  <2>1. CASE Main \/ Sigint
    BY <2>1 DEF Main, Sigint, StartReceive, MdsStarted, StartThread, SeeFinished, JoinMds,
                RequestStop, StartCompute, StopStocks
  <2>2. CASE MarketData
    BY <2>2 DEF JoinInv, MarketData, Load, Finish, IgnoreTick, PassTick, LimitUp, Publish
  <2>3. CASE Compute
    BY <2>3 DEF JoinInv, Compute, BeginCycle, SeeStop, Fetch, Release, HandleTick,
                FetchAgain, CheckApproach, CompareWild, EndCycle, OnApproach
  <2> QED
    BY <2>1, <2>2, <2>3 DEF Next
<1> QED
  BY <1>1, Joins, PTL DEF Spec, QuietWhenStopped

-----------------------------------------------------------------------------
(***************************************************************************)
(* Predictions.                                                            *)
(***************************************************************************)
\* The stocks that approach are computed.  Nothing is said of the kept ones:
\* they may be any stocks of the channel.
ApproachInv ==
  /\ approaching \subseteq computeAlive
  /\ main \in {"receive", "awaitMds", "computes"} => compute = "none"

\* ApproachInv is an invariant.
LEMMA Approaches == Spec => []ApproachInv
<1>1. Init => ApproachInv
  BY DEF Init, ApproachInv
<1>2. ApproachInv /\ [Next]_vars => ApproachInv'
  <2> SUFFICES ASSUME ApproachInv, [Next]_vars PROVE ApproachInv'
    OBVIOUS
  <2> USE DEF ApproachInv
  <2>1. CASE UNCHANGED vars
    BY <2>1 DEF vars, mainVars, threadVars, computeVars
  <2>2. CASE StartReceive \/ MdsStarted \/ SeeFinished \/ JoinMds \/ RequestStop \/ Sigint
    BY <2>2 DEF StartReceive, MdsStarted, SeeFinished, JoinMds, RequestStop, Sigint,
                mainVars, threadVars, computeVars
  <2>3. CASE StartThread
    BY <2>3 DEF StartThread, computeVars
  <2>4. ASSUME NEW s \in Stock, StartCompute(s) PROVE ApproachInv'
    BY <2>4 DEF StartCompute, threadVars
  <2>5. CASE StopStocks
    BY <2>5 DEF StopStocks, threadVars
  <2>6. CASE MarketData
    BY <2>6 DEF MarketData, Load, Finish, IgnoreTick, PassTick, LimitUp, Publish,
                mainVars, threadVars, computeVars
  <2>7. CASE BeginCycle \/ SeeStop \/ Fetch \/ Release \/ FetchAgain \/ EndCycle
    BY <2>7 DEF BeginCycle, SeeStop, Fetch, Release, FetchAgain, EndCycle,
                mainVars, computeVars
  <2>8. CASE HandleTick
    <3>1. PICK t : /\ approaching' \in {approaching \ {t.stock}, approaching,
                                        approaching \cup ({t.stock} \cap computeAlive)}
                   /\ computeAlive' \in {computeAlive, computeAlive \ {t.stock}}
                   /\ t.kind = "end" => approaching' = approaching \ {t.stock}
                   /\ t.kind # "end" => computeAlive' = computeAlive
      BY <2>8 DEF HandleTick
    <3> QED
      BY <2>8, <3>1 DEF HandleTick, mainVars
  <2>9. CASE CheckApproach \/ CompareWild
    BY <2>9 DEF CheckApproach, CompareWild, mainVars, computeVars
  <2>10. ASSUME NEW s \in Stock, OnApproach(s) PROVE ApproachInv'
    BY <2>10 DEF OnApproach, mainVars, threadVars
  <2> QED
    BY <2>1, <2>2, <2>3, <2>4, <2>5, <2>6, <2>7, <2>8, <2>9, <2>10
       DEF Next, Main, Compute
<1> QED
  BY <1>1, <1>2, PTL DEF Spec

\* The compute thread predicts for no stock whose end sign it has handled,
\* whatever stocks of the channel were kept.
THEOREM PredictsComputed == Spec => PredictsOnlyComputed
<1>1. ApproachInv /\ [Next]_vars => [wantBuy' \ wantBuy \subseteq computeAlive]_vars
  <2> SUFFICES ASSUME ApproachInv, Next PROVE wantBuy' \ wantBuy \subseteq computeAlive
    OBVIOUS
  <2>1. CASE Main \/ Sigint
    BY <2>1 DEF Main, Sigint, StartReceive, MdsStarted, StartThread, SeeFinished, JoinMds,
                RequestStop, StartCompute, StopStocks, computeVars
  <2>2. CASE MarketData
    BY <2>2 DEF MarketData, Load, Finish, IgnoreTick, PassTick, LimitUp, Publish, computeVars
  <2>3. CASE BeginCycle \/ SeeStop \/ Fetch \/ Release \/ HandleTick \/ FetchAgain
             \/ CheckApproach \/ CompareWild \/ EndCycle
    BY <2>3 DEF BeginCycle, SeeStop, Fetch, Release, HandleTick, FetchAgain,
                CheckApproach, CompareWild, EndCycle, computeVars
  <2>4. ASSUME NEW s \in Stock, OnApproach(s) PROVE wantBuy' \ wantBuy \subseteq computeAlive
    BY <2>4 DEF ApproachInv, OnApproach
  <2> QED
    BY <2>1, <2>2, <2>3, <2>4 DEF Next, Compute
<1> QED
  BY <1>1, Approaches, PTL DEF Spec, PredictsOnlyComputed

-----------------------------------------------------------------------------
(***************************************************************************)
(* The sequences of ticks.                                                 *)
(***************************************************************************)
\* A push keeps what is in the ring, adds what there is room for, and no more.
LEMMA PushedFacts ==
  ASSUME NEW r \in Seq(Tick), NEW ticks \in Seq(Tick), Len(r) <= Capacity
  PROVE  /\ Pushed(r, ticks) \in Seq(Tick)
         /\ Len(Pushed(r, ticks)) = IF Len(r) + Len(ticks) < Capacity
                                    THEN Len(r) + Len(ticks) ELSE Capacity
         /\ \A k \in 1 .. Len(Pushed(r, ticks)) :
              Pushed(r, ticks)[k] = IF k <= Len(r) THEN r[k] ELSE ticks[k - Len(r)]
<1> DEFINE all == r \o ticks
           n == IF Len(all) < Capacity THEN Len(all) ELSE Capacity
<1>1. /\ all \in Seq(Tick)
      /\ Len(all) = Len(r) + Len(ticks)
      /\ \A k \in 1 .. Len(r) + Len(ticks) :
           all[k] = IF k <= Len(r) THEN r[k] ELSE ticks[k - Len(r)]
  BY ConcatProperties, Zenon
<1>2. Len(r) \in Nat /\ Len(ticks) \in Nat /\ Capacity \in Nat
  BY LenProperties, CapacityAssumption
<1>3. n \in Nat /\ n <= Len(all)
  BY <1>1, <1>2
<1>4. \A k \in 1 .. n : all[k] \in Tick
  BY <1>1, <1>2, <1>3, ElementOfSeq
<1> HIDE DEF all, n
<1>5. /\ SubSeq(all, 1, n) \in Seq(Tick)
      /\ Len(SubSeq(all, 1, n)) = n
      /\ \A k \in 1 .. n : SubSeq(all, 1, n)[k] = all[k]
  BY <1>3, <1>4, SubSeqProperties
<1>6. Pushed(r, ticks) = SubSeq(all, 1, n)
  BY DEF Pushed, all, n
<1>7. n = IF Len(r) + Len(ticks) < Capacity THEN Len(r) + Len(ticks) ELSE Capacity
  BY <1>1 DEF n
<1>8. \A k \in 1 .. n : all[k] = IF k <= Len(r) THEN r[k] ELSE ticks[k - Len(r)]
  BY <1>1, <1>2, <1>3
<1> QED
  BY <1>5, <1>6, <1>7, <1>8

\* The part of the ring from position m + 1 on, and the part before.
LEMMA CutFacts ==
  ASSUME NEW r \in Seq(Tick), NEW m \in 0 .. Len(r)
  PROVE  /\ SubSeq(r, 1, m) \in Seq(Tick)
         /\ Len(SubSeq(r, 1, m)) = m
         /\ \A k \in 1 .. m : SubSeq(r, 1, m)[k] = r[k]
         /\ SubSeq(r, m + 1, Len(r)) \in Seq(Tick)
         /\ Len(SubSeq(r, m + 1, Len(r))) = Len(r) - m
         /\ \A k \in 1 .. Len(r) - m : SubSeq(r, m + 1, Len(r))[k] = r[m + k]
<1>1. Len(r) \in Nat /\ m \in Nat /\ m <= Len(r)
  BY LenProperties
<1>2. \A k \in 1 .. Len(r) : r[k] \in Tick
  BY ElementOfSeq
<1>3. /\ SubSeq(r, 1, m) \in Seq(Tick)
      /\ Len(SubSeq(r, 1, m)) = m
      /\ \A k \in 1 .. m : SubSeq(r, 1, m)[k] = r[k]
  BY <1>1, <1>2, SubSeqProperties
<1>4. /\ SubSeq(r, m + 1, Len(r)) \in Seq(Tick)
      /\ Len(SubSeq(r, m + 1, Len(r))) = Len(r) - m
      /\ \A k \in 1 .. Len(r) - m : SubSeq(r, m + 1, Len(r))[k] = r[m + k]
  BY <1>1, <1>2, SubSeqProperties
<1> QED
  BY <1>3, <1>4

-----------------------------------------------------------------------------
(***************************************************************************)
(* The type invariant.                                                     *)
(***************************************************************************)
\* The end signs of StopStocks are a sequence.
LEMMA EndsType ==
  ASSUME alive \subseteq Stock,
         NEW ends \in [1 .. Cardinality(alive) -> {EndSign(s) : s \in alive}]
  PROVE  ends \in Seq(Tick)
<1>1. Cardinality(alive) \in Nat
  BY StockAssumption, FS_Subset, FS_CardinalityType
<1>2. \A s \in alive : EndSign(s) \in Tick
  BY DEF EndSign, Tick
<1> QED
  BY <1>1, <1>2

\* Pushing one tick: it is behind all others, if there is room.
LEMMA PushedOne ==
  ASSUME NEW r \in Seq(Tick), NEW t \in Tick, Len(r) <= Capacity
  PROVE  /\ Pushed(r, <<t>>) \in Seq(Tick)
         /\ Len(r) <= Len(Pushed(r, <<t>>)) /\ Len(Pushed(r, <<t>>)) <= Capacity
         /\ \A k \in 1 .. Len(r) : Pushed(r, <<t>>)[k] = r[k]
         /\ Len(r) < Capacity => /\ Len(Pushed(r, <<t>>)) = Len(r) + 1
                                 /\ Pushed(r, <<t>>)[Len(r) + 1] = t
<1> DEFINE one == <<t>>
           new == Pushed(r, one)
<1>1. one \in Seq(Tick) /\ Len(one) = 1 /\ one[1] = t
  OBVIOUS
<1>2. Len(r) \in Nat /\ Capacity \in Nat
  BY LenProperties, CapacityAssumption
<1> HIDE DEF one
<1>3. /\ new \in Seq(Tick)
      /\ Len(new) = IF Len(r) + Len(one) < Capacity THEN Len(r) + Len(one) ELSE Capacity
      /\ \A k \in 1 .. Len(new) : new[k] = IF k <= Len(r) THEN r[k] ELSE one[k - Len(r)]
  BY <1>1, PushedFacts, Zenon
<1> HIDE DEF new
<1>4. Len(new) = IF Len(r) < Capacity THEN Len(r) + 1 ELSE Len(r)
  BY <1>1, <1>2, <1>3
<1>5. \A k \in 1 .. Len(r) : new[k] = r[k]
  BY <1>2, <1>3, <1>4
<1>6. ASSUME Len(r) < Capacity PROVE new[Len(r) + 1] = t
  <2>1. Len(r) + 1 \in 1 .. Len(new) /\ ~(Len(r) + 1 <= Len(r)) /\ (Len(r) + 1) - Len(r) = 1
    BY <1>2, <1>4, <1>6
  <2>2. new[Len(r) + 1] = one[(Len(r) + 1) - Len(r)]
    BY <1>3, <2>1, Zenon
  <2> QED
    BY <1>1, <2>1, <2>2
<1>7. /\ new \in Seq(Tick)
      /\ Len(r) <= Len(new) /\ Len(new) <= Capacity
      /\ \A k \in 1 .. Len(r) : new[k] = r[k]
      /\ Len(r) < Capacity => Len(new) = Len(r) + 1 /\ new[Len(r) + 1] = t
  BY <1>2, <1>3, <1>4, <1>5, <1>6
<1> QED
  BY <1>7 DEF new, one

\* Every variable keeps its type; in particular neither the ring nor tickBuf
\* ever holds more than there is room for.
THEOREM TypeCorrect == Spec => []TypeOK
<1>1. Init => TypeOK
  <2> SUFFICES ASSUME Init PROVE TypeOK
    OBVIOUS
  <2>1. /\ ring \in Seq(Tick) /\ Len(ring) <= Capacity
        /\ tickBuf \in Seq(Tick) /\ Len(tickBuf) <= Batch
    BY CapacityAssumption, BatchAssumption DEF Init
  <2>2. published \in 0 .. MaxTicks /\ orders \in [Stock -> Nat]
    BY MaxTicksAssumption DEF Init
  <2> QED
    BY <2>1, <2>2 DEF Init, TypeOK
<1>2. TypeOK /\ [Next]_vars => TypeOK'
  <2> SUFFICES ASSUME TypeOK, [Next]_vars PROVE TypeOK'
    OBVIOUS
  <2> USE DEF TypeOK
  <2>1. CASE UNCHANGED vars
    BY <2>1 DEF vars, mainVars, mdsVars, stateVars, threadVars, computeVars
  <2>2. CASE StartReceive \/ MdsStarted \/ StartThread \/ SeeFinished \/ JoinMds
             \/ RequestStop \/ Sigint \/ Load \/ Finish
    <3> USE DEF mainVars, mdsVars, stateVars, threadVars, computeVars
    <3>1. CASE StartReceive
      BY <3>1 DEF StartReceive, Watched
    <3>2. CASE MdsStarted \/ StartThread
      BY <3>2 DEF MdsStarted, StartThread
    <3>3. CASE SeeFinished \/ JoinMds \/ RequestStop
      BY <3>3 DEF SeeFinished, JoinMds, RequestStop
    <3>4. CASE Sigint \/ Load \/ Finish
      BY <3>4 DEF Sigint, Load, Finish
    <3> QED
      BY <2>2, <3>1, <3>2, <3>3, <3>4
  <2>3. ASSUME NEW s \in Stock, StartCompute(s) PROVE TypeOK'
    BY <2>3 DEF StartCompute, mdsVars, stateVars, threadVars
  <2>4. CASE StopStocks
    <3>1. PICK ends \in [1 .. Cardinality(alive) -> {EndSign(s) : s \in alive}] :
            ring' = Pushed(ring, ends) /\ lostEnds' = lostEnds \cup Lost(ring, ends)
      BY <2>4 DEF StopStocks
    <3>2. ring' \in Seq(Tick) /\ Len(ring') <= Capacity
      <4>1. ends \in Seq(Tick)
        BY EndsType
      <4>2. Len(ring) \in Nat /\ Len(ends) \in Nat
        BY <4>1, LenProperties
      <4> QED
        BY <3>1, <4>1, <4>2, PushedFacts, CapacityAssumption
    <3>3. lostEnds' \subseteq Stock
      BY <3>1 DEF Lost, Ends
    <3> QED
      BY <2>4, <3>2, <3>3 DEF StopStocks, mdsVars, threadVars
  <2>5. ASSUME Publish PROVE published' \in 0 .. MaxTicks
    BY <2>5, MaxTicksAssumption DEF Publish
  <2>6. CASE IgnoreTick
    BY <2>5, <2>6 DEF IgnoreTick, Publish, mainVars, stateVars, threadVars, computeVars
  <2>7. ASSUME NEW t \in Tick
        PROVE  Pushed(ring, <<t>>) \in Seq(Tick) /\ Len(Pushed(ring, <<t>>)) <= Capacity
    BY <2>7, PushedOne
  <2>8. ASSUME NEW s \in Stock, NEW kind \in {"approach", "other"}, PassTick(s, kind)
        PROVE  TypeOK'
    <3>1. [stock |-> s, kind |-> kind] \in Tick
      BY DEF Tick
    <3> QED
      BY <2>5, <2>7, <2>8, <3>1
         DEF PassTick, Publish, mainVars, stateVars, threadVars, computeVars
  <2>9. ASSUME NEW s \in Stock, NEW buy \in BOOLEAN, LimitUp(s, buy) PROVE TypeOK'
    <3>1. EndSign(s) \in Tick
      BY DEF Tick, EndSign
    <3>2. Lost(ring, <<EndSign(s)>>) \subseteq Stock
      BY DEF Lost, Ends
    <3>3. orders' \in [Stock -> Nat]
      BY <2>9 DEF LimitUp
    <3> QED
      BY <2>5, <2>7, <2>9, <3>1, <3>2, <3>3
         DEF LimitUp, Publish, mainVars, threadVars, computeVars
  <2>10. CASE BeginCycle \/ SeeStop \/ FetchAgain \/ EndCycle
    BY <2>10 DEF BeginCycle, SeeStop, FetchAgain, EndCycle,
                 mainVars, mdsVars, stateVars, computeVars
  <2>11. CASE Fetch
    <3> DEFINE n == IF Len(ring) < Batch THEN Len(ring) ELSE Batch
    <3>1. n \in 0 .. Len(ring) /\ n <= Batch
      BY LenProperties, BatchAssumption
    <3>2. tickBuf' = SubSeq(ring, 1, n)
      BY <2>11 DEF Fetch
    <3> HIDE DEF n
    <3>3. tickBuf' \in Seq(Tick) /\ Len(tickBuf') <= Batch
      BY <3>1, <3>2, CutFacts
    <3> QED
      BY <2>11, <3>3 DEF Fetch, mainVars, mdsVars, stateVars, computeVars
  <2>12. CASE Release
    <3>1. ASSUME Len(tickBuf) <= Len(ring)
          PROVE  ring' \in Seq(Tick) /\ Len(ring') <= Capacity
      <4>1. Len(tickBuf) \in 0 .. Len(ring) /\ Len(ring) \in Nat
        BY <3>1, LenProperties
      <4>2. ring' = SubSeq(ring, Len(tickBuf) + 1, Len(ring))
        BY <2>12 DEF Release
      <4> QED
        BY <4>1, <4>2, CutFacts, CapacityAssumption
    <3>2. ASSUME Len(tickBuf) > Len(ring)
          PROVE  ring' \in Seq(Tick) /\ Len(ring') <= Capacity
      <4>1. Len(tickBuf) \in Nat /\ Len(ring) \in Nat
        BY LenProperties
      <4>2. ring' = <<>>
        BY <2>12, <3>2, <4>1, SubSeqEmpty DEF Release
      <4> QED
        BY <4>2, CapacityAssumption
    <3>3. Len(tickBuf) \in Nat /\ Len(ring) \in Nat
      BY LenProperties
    <3> QED
      BY <2>12, <3>1, <3>2, <3>3 DEF Release, mainVars, mdsVars, stateVars, computeVars
  <2>13. CASE HandleTick
    <3>1. /\ Head(tickBuf) \in Tick
          /\ Tail(tickBuf) \in Seq(Tick)
          /\ Len(Tail(tickBuf)) <= Batch
      <4>1. tickBuf # <<>> /\ Len(tickBuf) \in Nat
        BY <2>13, LenProperties DEF HandleTick
      <4> QED
        BY <4>1, HeadTailProperties, BatchAssumption
    <3>2. /\ tickBuf' \in Seq(Tick) /\ Len(tickBuf') <= Batch
      BY <2>13, <3>1 DEF HandleTick
    <3>3. PICK s \in Stock : /\ computeAlive' \in {computeAlive, computeAlive \ {s}}
                             /\ approaching' \in {approaching \ {s}, approaching,
                                                  approaching \cup ({s} \cap computeAlive)}
      BY <2>13, <3>1 DEF HandleTick, Tick
    <3> QED
      BY <2>13, <3>2, <3>3 DEF HandleTick, mainVars, mdsVars, stateVars
  <2>14. CASE CheckApproach \/ CompareWild
    BY <2>14 DEF CheckApproach, CompareWild, Selected, mainVars, mdsVars, stateVars,
                 computeVars
  <2>15. ASSUME NEW s \in Stock, OnApproach(s) PROVE TypeOK'
    BY <2>15 DEF OnApproach, mainVars, mdsVars, stateVars, threadVars
  <2> QED
    BY <2>1, <2>2, <2>3, <2>4, <2>6, <2>8, <2>9, <2>10, <2>11, <2>12, <2>13, <2>14, <2>15
       DEF Next, Main, MarketData, Compute
<1> QED
  BY <1>1, <1>2, PTL DEF Spec

-----------------------------------------------------------------------------
(***************************************************************************)
(* The way of an end sign: it is in the ring, or in what was fetched of    *)
(* it; while a fetch returns, it may be in both.                           *)
(***************************************************************************)
Has(ticks, s) == \E k \in 1 .. Len(ticks) : ticks[k] = EndSign(s)

UnderWay(s) == Has(ring, s) \/ (compute # "release" /\ Has(tickBuf, s))

WayInv ==
  /\ compute \in {"none", "cycle", "fetch", "approach", "ended"} => tickBuf = <<>>
  /\ compute = "release" =>
       Len(tickBuf) <= Len(ring) /\ \A k \in 1 .. Len(tickBuf) : tickBuf[k] = ring[k]
  /\ main \in {"receive", "awaitMds", "computes"} => compute = "none"
  /\ main = "receive" => computeAlive = {}
  /\ main # "stopped" => \A s \in computeAlive \ (alive \cup lostEnds) : UnderWay(s)

\* What is under way is among the ticks that are not handled.
LEMMA UnderWayUnhandled ==
  ASSUME TypeOK, NEW s, UnderWay(s)
  PROVE  \E k \in DOMAIN Unhandled : Unhandled[k] = EndSign(s)
<1>1. CASE compute = "release"
  BY <1>1, LenProperties DEF TypeOK, UnderWay, Has, Unhandled
<1>2. CASE compute # "release"
  <2>1. /\ tickBuf \o ring \in Seq(Tick)
        /\ Len(tickBuf \o ring) = Len(tickBuf) + Len(ring)
        /\ \A k \in 1 .. Len(tickBuf) + Len(ring) :
             (tickBuf \o ring)[k] =
               IF k <= Len(tickBuf) THEN tickBuf[k] ELSE ring[k - Len(tickBuf)]
    BY ConcatProperties, Zenon DEF TypeOK
  <2>2. /\ Len(tickBuf) \in Nat /\ Len(ring) \in Nat
        /\ DOMAIN (tickBuf \o ring) = 1 .. Len(tickBuf) + Len(ring)
    BY <2>1, LenProperties DEF TypeOK
  <2>3. CASE Has(tickBuf, s)
    <3>1. PICK k \in 1 .. Len(tickBuf) : tickBuf[k] = EndSign(s)
      BY <2>3 DEF Has
    <3>2. k \in 1 .. Len(tickBuf) + Len(ring) /\ k <= Len(tickBuf)
      BY <2>2
    <3> QED
      BY <1>2, <2>1, <2>2, <3>1, <3>2 DEF Unhandled
  <2>4. CASE Has(ring, s)
    <3>1. PICK k \in 1 .. Len(ring) : ring[k] = EndSign(s)
      BY <2>4 DEF Has
    <3>2. /\ Len(tickBuf) + k \in 1 .. Len(tickBuf) + Len(ring)
          /\ ~(Len(tickBuf) + k <= Len(tickBuf))
          /\ (Len(tickBuf) + k) - Len(tickBuf) = k
      BY <2>2
    <3>3. (tickBuf \o ring)[Len(tickBuf) + k] = ring[(Len(tickBuf) + k) - Len(tickBuf)]
      BY <2>1, <3>2, Zenon
    <3> QED
      BY <1>2, <2>2, <3>1, <3>2, <3>3 DEF Unhandled
  <2> QED
    BY <1>2, <2>3, <2>4 DEF UnderWay
<1> QED
  BY <1>1, <1>2

\* A push takes nothing out of the ring.
LEMMA PushKeeps ==
  ASSUME TypeOK, NEW t \in Tick, ring' = Pushed(ring, <<t>>)
  PROVE  /\ \A s : Has(ring, s) => Has(ring', s)
         /\ Len(ring) <= Len(ring')
         /\ \A k \in 1 .. Len(ring) : ring'[k] = ring[k]
<1>1. /\ ring' \in Seq(Tick) /\ Len(ring) <= Len(ring')
      /\ \A k \in 1 .. Len(ring) : ring'[k] = ring[k]
  BY PushedOne DEF TypeOK
<1>2. Len(ring) \in Nat /\ Len(ring') \in Nat
  BY <1>1, LenProperties DEF TypeOK
<1> QED
  BY <1>1, <1>2 DEF Has

\* An end sign gets into the ring, or is recorded as lost.
LEMMA PushArrives ==
  ASSUME TypeOK, NEW s \in Stock, ring' = Pushed(ring, <<EndSign(s)>>)
  PROVE  Has(ring', s) \/ s \in Lost(ring, <<EndSign(s)>>)
<1>1. EndSign(s) \in Tick
  BY DEF EndSign, Tick
<1>2. Len(ring) \in Nat /\ Capacity \in Nat /\ Len(ring) <= Capacity
  BY LenProperties, CapacityAssumption DEF TypeOK
<1>3. CASE Len(ring) < Capacity
  <2>1. Len(ring') = Len(ring) + 1 /\ ring'[Len(ring) + 1] = EndSign(s)
    BY <1>1, <1>3, PushedOne DEF TypeOK
  <2> QED
    BY <1>2, <2>1 DEF Has
<1>4. CASE Len(ring) = Capacity
  <2> DEFINE one  == <<EndSign(s)>>
             all  == ring \o one
             rest == SubSeq(all, Capacity + 1, Len(ring) + Len(one))
  <2>1. one \in Seq(Tick) /\ Len(one) = 1 /\ one[1] = EndSign(s)
    BY <1>1
  <2> HIDE DEF one
  <2>2. /\ all \in Seq(Tick) /\ Len(all) = Len(ring) + Len(one)
        /\ \A k \in 1 .. Len(ring) + Len(one) :
             all[k] = IF k <= Len(ring) THEN ring[k] ELSE one[k - Len(ring)]
    BY <2>1, ConcatProperties, Zenon DEF TypeOK
  <2>3. all[Capacity + 1] = EndSign(s) /\ Len(all) = Capacity + 1
    BY <1>2, <1>4, <2>1, <2>2
  <2> HIDE DEF all
  <2>4. rest = SubSeq(all, Capacity + 1, Len(all))
    BY <2>2
  <2>5. Capacity \in 0 .. Len(all) /\ Len(all) - Capacity = 1
    BY <1>2, <2>3
  <2>6. Len(rest) = 1 /\ rest \in Seq(Tick) /\ rest[1] = all[Capacity + 1]
    BY <2>2, <2>4, <2>5, CutFacts
  <2> HIDE DEF rest
  <2>7. 1 \in DOMAIN rest /\ rest[1] = EndSign(s)
    BY <2>3, <2>6
  <2> QED
    BY <2>7 DEF Lost, Ends, rest, all, one
<1> QED
  BY <1>2, <1>3, <1>4

\* WayInv is an invariant.
LEMMA Ways == Spec => []WayInv
<1>1. Init => WayInv
  BY DEF Init, WayInv
<1>2. TypeOK /\ TypeOK' /\ JoinInv /\ WayInv /\ [Next]_vars => WayInv'
  <2> SUFFICES ASSUME TypeOK, TypeOK', JoinInv, WayInv, [Next]_vars PROVE WayInv'
    OBVIOUS
  <2>1. CASE UNCHANGED vars
    BY <2>1 DEF WayInv, UnderWay, Has, vars, mainVars, stateVars, threadVars, computeVars
  <2>2. CASE StartReceive \/ MdsStarted \/ SeeFinished \/ JoinMds \/ RequestStop \/ Sigint
    BY <2>2 DEF WayInv, UnderWay, Has, StartReceive, MdsStarted, SeeFinished, JoinMds,
                RequestStop, Sigint, mainVars, stateVars, threadVars, computeVars
  <2>3. CASE StartThread
    BY <2>3 DEF WayInv, UnderWay, Has, StartThread, stateVars, computeVars
  <2>4. ASSUME NEW s \in Stock, StartCompute(s) PROVE WayInv'
    BY <2>4 DEF WayInv, UnderWay, Has, StartCompute, stateVars, threadVars
  <2>5. CASE StopStocks
    BY <2>5 DEF WayInv, StopStocks, threadVars
  <2>6. CASE Load \/ Finish \/ IgnoreTick
    BY <2>6 DEF WayInv, UnderWay, Has, Load, Finish, IgnoreTick, Publish,
                mainVars, stateVars, threadVars, computeVars
  <2>7. ASSUME NEW t \in Tick, ring' = Pushed(ring, <<t>>),
               UNCHANGED <<mainVars, threadVars, computeVars>>
        PROVE  /\ compute \in {"none", "cycle", "fetch", "approach", "ended"} => tickBuf' = <<>>
               /\ compute = "release" =>
                    Len(tickBuf) <= Len(ring') /\ \A k \in 1 .. Len(tickBuf) : tickBuf[k] = ring'[k]
               /\ \A s : UnderWay(s) => UnderWay(s)'
    <3>1. /\ \A s : Has(ring, s) => Has(ring', s)
          /\ Len(ring) <= Len(ring')
          /\ \A k \in 1 .. Len(ring) : ring'[k] = ring[k]
      BY <2>7, PushKeeps
    <3>2. Len(ring) \in Nat /\ Len(ring') \in Nat /\ Len(tickBuf) \in Nat
      BY LenProperties DEF TypeOK
    <3>3. tickBuf' = tickBuf /\ compute' = compute
      BY <2>7 DEF threadVars
    <3> QED
      BY <3>1, <3>2, <3>3 DEF WayInv, UnderWay, Has
  <2>8. ASSUME NEW s \in Stock, NEW kind \in {"approach", "other"}, PassTick(s, kind)
        PROVE  WayInv'
    <3>1. [stock |-> s, kind |-> kind] \in Tick
      BY DEF Tick
    <3>2. /\ ring' = Pushed(ring, <<[stock |-> s, kind |-> kind]>>)
          /\ UNCHANGED <<mainVars, threadVars, computeVars, stateVars>>
      BY <2>8 DEF PassTick, Publish
    <3> QED
      BY <2>7, <3>1, <3>2 DEF WayInv, mainVars, threadVars, computeVars, stateVars
  <2>9. ASSUME NEW s \in Stock, NEW buy \in BOOLEAN, LimitUp(s, buy) PROVE WayInv'
    <3>1. EndSign(s) \in Tick
      BY DEF Tick, EndSign
    <3>2. /\ ring' = Pushed(ring, <<EndSign(s)>>)
          /\ UNCHANGED <<mainVars, threadVars, computeVars>>
          /\ alive' = alive \ {s}
          /\ lostEnds' = lostEnds \cup Lost(ring, <<EndSign(s)>>)
      BY <2>9 DEF LimitUp, Publish
    <3>3. Has(ring', s) \/ s \in lostEnds'
      BY <3>2, PushArrives
    <3>4. UnderWay(s)' \/ s \in lostEnds'
      BY <3>3 DEF UnderWay, Has
    <3>5. \A p \in computeAlive \ (alive \cup lostEnds) : main # "stopped" => UnderWay(p)'
      BY <2>7, <3>1, <3>2 DEF WayInv
    <3>6. main' # "stopped" =>
            \A p \in computeAlive' \ (alive' \cup lostEnds') : UnderWay(p)'
      BY <3>2, <3>4, <3>5 DEF mainVars, computeVars
    <3> QED
      BY <2>7, <3>1, <3>2, <3>6 DEF WayInv, mainVars, threadVars, computeVars
  <2>10. CASE BeginCycle \/ SeeStop \/ EndCycle \/ FetchAgain \/ CheckApproach
    BY <2>10 DEF WayInv, UnderWay, Has, BeginCycle, SeeStop, EndCycle, FetchAgain,
                 CheckApproach, mainVars, stateVars, computeVars
  <2>15. CASE CompareWild
    <3>1. /\ compute = "handle" /\ compute' = "crashed" /\ main' = "crashed"
          /\ tickBuf = <<>> /\ tickBuf' = tickBuf /\ ring' = ring
          /\ alive' = alive /\ lostEnds' = lostEnds /\ computeAlive' = computeAlive
      BY <2>15 DEF CompareWild, stateVars, computeVars
    <3>2. main # "stopped"
      BY <3>1 DEF JoinInv
    <3>3. \A s : UnderWay(s) => UnderWay(s)'
      BY <3>1 DEF UnderWay, Has
    <3> QED
      BY <3>1, <3>2, <3>3 DEF WayInv
  <2>11. ASSUME NEW s \in Stock, OnApproach(s) PROVE WayInv'
    BY <2>11 DEF WayInv, UnderWay, Has, OnApproach, mainVars, stateVars, threadVars
  <2>12. CASE Fetch
    <3> DEFINE n == IF Len(ring) < Batch THEN Len(ring) ELSE Batch
    <3>1. n \in 0 .. Len(ring)
      BY LenProperties, BatchAssumption DEF TypeOK
    <3>2. /\ tickBuf' = SubSeq(ring, 1, n)
          /\ compute = "fetch" /\ compute' = "release"
          /\ UNCHANGED <<mainVars, stateVars, ring, computeVars>>
      BY <2>12 DEF Fetch
    <3> HIDE DEF n
    <3>3. Len(tickBuf') <= Len(ring) /\ \A k \in 1 .. Len(tickBuf') : tickBuf'[k] = ring[k]
      BY <3>1, <3>2, CutFacts DEF TypeOK
    <3>4. \A s : UnderWay(s) => UnderWay(s)'
      <4>1. Len(tickBuf) = 0
        BY <3>2 DEF WayInv
      <4> QED
        BY <3>2, <4>1 DEF UnderWay, Has
    <3> QED
      BY <3>2, <3>3, <3>4 DEF WayInv, mainVars, stateVars, computeVars
  <2>13. CASE Release
    <3>1. /\ compute = "release" /\ compute' = "handle"
          /\ ring' = SubSeq(ring, Len(tickBuf) + 1, Len(ring))
          /\ tickBuf' = tickBuf
          /\ UNCHANGED <<mainVars, stateVars, computeVars>>
      BY <2>13 DEF Release
    <3>2. /\ Len(tickBuf) \in 0 .. Len(ring)
          /\ \A k \in 1 .. Len(tickBuf) : tickBuf[k] = ring[k]
          /\ Len(ring) \in Nat
      BY <3>1, LenProperties DEF WayInv, TypeOK
    <3>3. /\ Len(ring') = Len(ring) - Len(tickBuf)
          /\ \A k \in 1 .. Len(ring) - Len(tickBuf) : ring'[k] = ring[Len(tickBuf) + k]
      BY <3>1, <3>2, CutFacts DEF TypeOK
    <3>4. ASSUME NEW s, Has(ring, s) PROVE UnderWay(s)'
      <4>1. PICK k \in 1 .. Len(ring) : ring[k] = EndSign(s)
        BY <3>4 DEF Has
      <4>2. CASE k <= Len(tickBuf)
        BY <3>1, <3>2, <4>1, <4>2 DEF UnderWay, Has
      <4>3. CASE ~(k <= Len(tickBuf))
        <5>1. /\ k - Len(tickBuf) \in 1 .. Len(ring) - Len(tickBuf)
              /\ Len(tickBuf) + (k - Len(tickBuf)) = k
          BY <3>2, <4>3
        <5>2. ring'[k - Len(tickBuf)] = EndSign(s)
          BY <3>3, <4>1, <5>1
        <5> QED
          BY <3>3, <5>1, <5>2 DEF UnderWay, Has
      <4> QED
        BY <4>2, <4>3
    <3>5. \A s : UnderWay(s) => UnderWay(s)'
      BY <3>1, <3>4 DEF UnderWay
    <3> QED
      BY <3>1, <3>5 DEF WayInv, mainVars, stateVars, computeVars
  <2>14. CASE HandleTick
    <3> DEFINE t == Head(tickBuf)
    <3>1. /\ compute = "handle" /\ tickBuf # <<>>
          /\ computeAlive' = IF t.kind = "end" THEN computeAlive \ {t.stock} ELSE computeAlive
          /\ tickBuf' = Tail(tickBuf)
          /\ UNCHANGED <<mainVars, stateVars, ring, compute>>
      BY <2>14 DEF HandleTick
    <3>2. /\ Len(tickBuf) \in Nat /\ tickBuf[1] = t
          /\ Len(Tail(tickBuf)) = Len(tickBuf) - 1
          /\ \A k \in 1 .. Len(tickBuf) - 1 : Tail(tickBuf)[k] = tickBuf[k + 1]
      BY <3>1, LenProperties, HeadTailProperties DEF TypeOK
    <3>3. ASSUME NEW s, s \in computeAlive', Has(tickBuf, s) PROVE Has(tickBuf', s)
      <4>1. PICK k \in 1 .. Len(tickBuf) : tickBuf[k] = EndSign(s)
        BY <3>3 DEF Has
      <4>2. k # 1
        <5>1. ASSUME t = EndSign(s) PROVE FALSE
          <6>1. t.kind = "end" /\ t.stock = s
            BY <5>1 DEF EndSign
          <6> QED
            BY <3>1, <3>3, <6>1
        <5> QED
          BY <3>2, <4>1, <5>1
      <4>3. k - 1 \in 1 .. Len(tickBuf) - 1 /\ (k - 1) + 1 = k
        BY <3>2, <4>2
      <4> QED
        BY <3>1, <3>2, <4>1, <4>3 DEF Has
    <3>4. \A s \in computeAlive' : UnderWay(s) => UnderWay(s)'
      BY <3>1, <3>3 DEF UnderWay, Has
    <3>5. computeAlive' \subseteq computeAlive
      BY <3>1
    <3> QED
      BY <3>1, <3>4, <3>5 DEF WayInv, mainVars, stateVars
  <2> QED
    BY <2>1, <2>2, <2>3, <2>4, <2>5, <2>6, <2>8, <2>9, <2>10, <2>11, <2>12, <2>13, <2>14,
       <2>15 DEF Next, Main, MarketData, Compute
<1> QED
  BY <1>1, <1>2, TypeCorrect, Joins, PTL DEF Spec

\* An end sign that is not lost reaches the compute thread or is on its way:
\* wherever StockCompute::start falls between the ticks, whatever the batches.
THEOREM EndSignsArrive == Spec => []EndSignPending
<1>1. TypeOK /\ WayInv => EndSignPending
  BY UnderWayUnhandled DEF WayInv, EndSignPending
<1> QED
  BY <1>1, Ways, TypeCorrect, PTL

-----------------------------------------------------------------------------
(***************************************************************************)
(* What is behind an end sign.  The stock of a sign is not watched any     *)
(* more, so nothing of it is pushed; the fetch takes the signs over in     *)
(* their order.                                                            *)
(***************************************************************************)
\* No tick of q has the stock of an end sign in p.
Over(p, q) ==
  \A k \in 1 .. Len(p), j \in 1 .. Len(q) : p[k].kind = "end" => q[j].stock # p[k].stock

LastIn(q) ==
  \A k, j \in 1 .. Len(q) : k < j /\ q[k].kind = "end" => q[j].stock # q[k].stock

Closed(q) == \A k \in 1 .. Len(q) : q[k].kind = "end" => q[k].stock \notin alive

LastInv ==
  /\ main = "receive" => mds = "none" /\ ring = <<>>
  /\ LastIn(ring) /\ Closed(ring)
  /\ LastIn(tickBuf) /\ Closed(tickBuf)
  /\ compute # "release" => Over(tickBuf, ring)

\* A tick of a stock that is watched may be pushed behind the others.
LEMMA PushLast ==
  ASSUME TypeOK, NEW t \in Tick, t.stock \in alive, LastInv,
         ring' = Pushed(ring, <<t>>)
  PROVE  /\ LastIn(ring')
         /\ compute # "release" => Over(tickBuf, ring')
         /\ \A k \in 1 .. Len(ring') : ring'[k] = t \/ (k <= Len(ring) /\ ring'[k] = ring[k])
<1>1. /\ ring' \in Seq(Tick) /\ Len(ring) <= Len(ring')
      /\ \A k \in 1 .. Len(ring) : ring'[k] = ring[k]
      /\ Len(ring) < Capacity => Len(ring') = Len(ring) + 1 /\ ring'[Len(ring) + 1] = t
      /\ Len(ring') <= Capacity
  BY PushedOne DEF TypeOK
<1>2. /\ Len(ring) \in Nat /\ Len(ring') \in Nat /\ Len(tickBuf) \in Nat
      /\ Capacity \in Nat /\ Len(ring) <= Capacity
  BY <1>1, LenProperties, CapacityAssumption DEF TypeOK
<1>3. \A k \in 1 .. Len(ring') :
        (k = Len(ring) + 1 /\ ring'[k] = t) \/ (k \in 1 .. Len(ring) /\ ring'[k] = ring[k])
  BY <1>1, <1>2
<1>4. \A k \in 1 .. Len(ring) : ring[k].kind = "end" => ring[k].stock # t.stock
  BY DEF LastInv, Closed
<1>5. LastIn(ring')
  <2> SUFFICES ASSUME NEW k \in 1 .. Len(ring'), NEW j \in 1 .. Len(ring'),
                      k < j, ring'[k].kind = "end"
               PROVE  ring'[j].stock # ring'[k].stock
    BY DEF LastIn
  <2>1. k \in 1 .. Len(ring) /\ ring'[k] = ring[k]
    BY <1>2, <1>3
  <2>2. CASE ring'[j] = t
    BY <1>4, <2>1, <2>2
  <2>3. CASE j \in 1 .. Len(ring) /\ ring'[j] = ring[j]
    BY <2>1, <2>3 DEF LastInv, LastIn
  <2> QED
    BY <1>3, <2>2, <2>3
<1>6. ASSUME compute # "release" PROVE Over(tickBuf, ring')
  <2> SUFFICES ASSUME NEW k \in 1 .. Len(tickBuf), NEW j \in 1 .. Len(ring'),
                      tickBuf[k].kind = "end"
               PROVE  ring'[j].stock # tickBuf[k].stock
    BY DEF Over
  <2>1. CASE ring'[j] = t
    BY <2>1 DEF LastInv, Closed
  <2>2. CASE j \in 1 .. Len(ring) /\ ring'[j] = ring[j]
    BY <1>6, <2>2 DEF LastInv, Over
  <2> QED
    BY <1>3, <2>1, <2>2
<1> QED
  BY <1>2, <1>3, <1>5, <1>6

\* The end signs of StopStocks are those of different stocks, all watched.
LEMMA EndsDiffer ==
  ASSUME alive \subseteq Stock,
         NEW ends \in [1 .. Cardinality(alive) -> {EndSign(s) : s \in alive}],
         Ends(ends) = alive
  PROVE  /\ \A k \in 1 .. Cardinality(alive) : ends[k].stock \in alive
         /\ \A k, j \in 1 .. Cardinality(alive) : ends[k].stock = ends[j].stock => k = j
<1> DEFINE n == Cardinality(alive)
           f == [k \in 1 .. n |-> ends[k].stock]
<1>1. IsFiniteSet(alive) /\ n \in Nat
  BY StockAssumption, FS_Subset, FS_CardinalityType
<1>2. IsFiniteSet(1 .. n) /\ Cardinality(1 .. n) = n
  BY <1>1, FS_Interval
<1>3. \A k \in 1 .. n : ends[k].stock \in alive
  BY DEF EndSign
<1>4. \A s \in alive : \E k \in 1 .. n : ends[k].stock = s
  BY DEF Ends, EndSign
<1>5. f \in Surjection(1 .. n, alive)
  BY <1>3, <1>4 DEF Surjection
<1> HIDE DEF f
<1>6. f \in Injection(1 .. n, alive)
  BY <1>1, <1>2, <1>5, FS_SurjSameCardinalityImpliesInj
<1> QED
  BY <1>3, <1>6 DEF Injection, IsInjective, f

\* The end signs of StopStocks are behind everything else of their stocks.
LEMMA StopLast ==
  ASSUME TypeOK, WayInv, LastInv, StopStocks
  PROVE  LastIn(ring')
<1>1. PICK ends \in [1 .. Cardinality(alive) -> {EndSign(s) : s \in alive}] :
        Ends(ends) = alive /\ ring' = Pushed(ring, ends)
  BY DEF StopStocks
<1>2. ends \in Seq(Tick)
  BY EndsType DEF TypeOK
<1>3. Cardinality(alive) \in Nat
  BY StockAssumption, FS_Subset, FS_CardinalityType DEF TypeOK
<1>4. Len(ends) = Cardinality(alive)
  BY <1>2, <1>3, LenProperties
<1>5. /\ ring' \in Seq(Tick)
      /\ Len(ring') = IF Len(ring) + Len(ends) < Capacity
                      THEN Len(ring) + Len(ends) ELSE Capacity
      /\ \A k \in 1 .. Len(ring') :
           ring'[k] = IF k <= Len(ring) THEN ring[k] ELSE ends[k - Len(ring)]
  BY <1>1, <1>2, PushedFacts, Zenon DEF TypeOK
<1>6. Len(ring) \in Nat /\ Len(ring') \in Nat /\ Capacity \in Nat
  BY <1>5, LenProperties, CapacityAssumption DEF TypeOK
<1>7. Len(ring') <= Len(ring) + Len(ends)
  BY <1>3, <1>4, <1>5, <1>6
<1>8. /\ \A k \in 1 .. Len(ends) : ends[k].stock \in alive
      /\ \A k, j \in 1 .. Len(ends) : ends[k].stock = ends[j].stock => k = j
  BY <1>1, <1>4, EndsDiffer DEF TypeOK
<1> SUFFICES ASSUME NEW k \in 1 .. Len(ring'), NEW j \in 1 .. Len(ring'),
                    k < j, ring'[k].kind = "end"
             PROVE  ring'[j].stock # ring'[k].stock
  BY DEF LastIn
<1>9. CASE j <= Len(ring)
  <2>1. k \in 1 .. Len(ring) /\ j \in 1 .. Len(ring)
    BY <1>6, <1>9
  <2>2. ring'[k] = ring[k] /\ ring'[j] = ring[j]
    BY <1>5, <2>1
  <2> QED
    BY <2>1, <2>2 DEF LastInv, LastIn
<1>10. CASE ~(j <= Len(ring))
  <2>1. ring'[j] = ends[j - Len(ring)] /\ j - Len(ring) \in 1 .. Len(ends)
    BY <1>3, <1>4, <1>5, <1>6, <1>7, <1>10
  <2>2. CASE k <= Len(ring)
    <3>1. k \in 1 .. Len(ring) /\ ring'[k] = ring[k]
      BY <1>5, <1>6, <2>2
    <3>2. ring[k].stock \notin alive
      BY <3>1 DEF LastInv, Closed
    <3> QED
      BY <1>8, <2>1, <3>1, <3>2
  <2>3. CASE ~(k <= Len(ring))
    <3>1. ring'[k] = ends[k - Len(ring)] /\ k - Len(ring) \in 1 .. Len(ends)
      BY <1>3, <1>4, <1>5, <1>6, <1>7, <2>3
    <3>2. k - Len(ring) # j - Len(ring)
      BY <1>6
    <3> QED
      BY <1>8, <2>1, <3>1, <3>2
  <2> QED
    BY <2>2, <2>3
<1> QED
  BY <1>9, <1>10

\* The steps of the compute thread that move ticks.
LEMMA FetchLast ==
  ASSUME TypeOK, LastInv, Fetch
  PROVE  LastInv'
<1> DEFINE n == IF Len(ring) < Batch THEN Len(ring) ELSE Batch
<1>1. n \in 0 .. Len(ring) /\ Len(ring) \in Nat
  BY LenProperties, BatchAssumption DEF TypeOK
<1>2. /\ tickBuf' = SubSeq(ring, 1, n) /\ compute' = "release"
      /\ UNCHANGED <<mainVars, mdsVars, stateVars, ring>>
  BY DEF Fetch
<1> HIDE DEF n
<1>3. Len(tickBuf') = n /\ \A k \in 1 .. n : tickBuf'[k] = ring[k] /\ k \in 1 .. Len(ring)
  BY <1>1, <1>2, CutFacts DEF TypeOK
<1>4. main' = main /\ mds' = mds /\ alive' = alive /\ ring' = ring
  BY <1>2 DEF mainVars, mdsVars, stateVars
<1>5. LastIn(tickBuf)'
  BY <1>3 DEF LastInv, LastIn
<1>6. Closed(tickBuf)'
  BY <1>3, <1>4 DEF LastInv, Closed
<1>7. LastIn(ring)' /\ Closed(ring)'
  BY <1>4 DEF LastInv, LastIn, Closed
<1> QED
  BY <1>2, <1>4, <1>5, <1>6, <1>7 DEF LastInv

\* The places of the fetched ticks become free: the rest of the ring was behind them.
LEMMA ReleaseLast ==
  ASSUME TypeOK, WayInv, LastInv, Release
  PROVE  LastInv'
<1>1. /\ compute = "release" /\ compute' = "handle" /\ tickBuf' = tickBuf
      /\ ring' = SubSeq(ring, Len(tickBuf) + 1, Len(ring))
      /\ UNCHANGED <<mainVars, mdsVars, stateVars>>
  BY DEF Release
<1> DEFINE n == Len(tickBuf)
<1>2. n \in 0 .. Len(ring) /\ Len(ring) \in Nat /\ n \in Nat
  BY <1>1, LenProperties DEF WayInv, TypeOK
<1>3. \A k \in 1 .. n : tickBuf[k] = ring[k]
  BY <1>1 DEF WayInv
<1> HIDE DEF n
<1>4. /\ Len(ring') = Len(ring) - n
      /\ \A j \in 1 .. Len(ring) - n : ring'[j] = ring[n + j]
  BY <1>1, <1>2, CutFacts DEF TypeOK, n
<1>5. \A j \in 1 .. Len(ring') : n + j \in 1 .. Len(ring) /\ ring'[j] = ring[n + j]
  BY <1>2, <1>4
<1>6. LastIn(ring')
  <2> SUFFICES ASSUME NEW k \in 1 .. Len(ring'), NEW j \in 1 .. Len(ring'),
                      k < j, ring'[k].kind = "end"
               PROVE  ring'[j].stock # ring'[k].stock
    BY DEF LastIn
  <2>1. n + k < n + j
    BY <1>2
  <2> QED
    BY <1>5, <2>1 DEF LastInv, LastIn
<1>7. Closed(ring)'
  BY <1>1, <1>5 DEF LastInv, Closed, stateVars
<1>8. Over(tickBuf', ring')
  <2> SUFFICES ASSUME NEW k \in 1 .. n, NEW j \in 1 .. Len(ring'), tickBuf[k].kind = "end"
               PROVE  ring'[j].stock # tickBuf[k].stock
    BY <1>1 DEF Over, n
  <2>1. k < n + j /\ k \in 1 .. Len(ring) /\ tickBuf[k] = ring[k]
    BY <1>2, <1>3
  <2> QED
    BY <1>5, <2>1 DEF LastInv, LastIn
<1>9. LastIn(tickBuf') /\ Closed(tickBuf)'
  BY <1>1 DEF LastInv, LastIn, Closed, stateVars
<1>10. main' = "receive" => mds' = "none" /\ ring' = <<>>
  <2>1. main' = main /\ mds' = mds
    BY <1>1 DEF mainVars, mdsVars
  <2>2. main # "receive"
    BY <1>1 DEF WayInv
  <2> QED
    BY <2>1, <2>2
<1> QED
  BY <1>6, <1>7, <1>8, <1>9, <1>10 DEF LastInv, LastIn, Over

\* The first tick leaves the buffer.
LEMMA HandleLast ==
  ASSUME TypeOK, WayInv, LastInv, HandleTick
  PROVE  LastInv'
<1>1. /\ compute = "handle" /\ tickBuf # <<>> /\ tickBuf' = Tail(tickBuf)
      /\ UNCHANGED <<mainVars, mdsVars, stateVars, ring, compute>>
  BY DEF HandleTick
<1>2. /\ Len(tickBuf) \in Nat /\ Len(tickBuf') = Len(tickBuf) - 1
      /\ \A k \in 1 .. Len(tickBuf) - 1 : tickBuf'[k] = tickBuf[k + 1]
  BY <1>1, LenProperties, HeadTailProperties DEF TypeOK
<1>3. \A k \in 1 .. Len(tickBuf') : k + 1 \in 1 .. Len(tickBuf) /\ tickBuf'[k] = tickBuf[k + 1]
  BY <1>2
<1>4. LastIn(tickBuf')
  <2> SUFFICES ASSUME NEW k \in 1 .. Len(tickBuf'), NEW j \in 1 .. Len(tickBuf'),
                      k < j, tickBuf'[k].kind = "end"
               PROVE  tickBuf'[j].stock # tickBuf'[k].stock
    BY DEF LastIn
  <2>1. k + 1 < j + 1
    OBVIOUS
  <2> QED
    BY <1>3, <2>1 DEF LastInv, LastIn
<1>5. Closed(tickBuf)' /\ Over(tickBuf', ring)
  BY <1>1, <1>3 DEF LastInv, Closed, Over, stateVars
<1> QED
  BY <1>1, <1>4, <1>5 DEF LastInv, LastIn, Closed, Over, mainVars, mdsVars, stateVars

\* LastInv is an invariant.
LEMMA Lasts == Spec => []LastInv
<1>1. Init => LastInv
  BY DEF Init, LastInv, LastIn, Closed, Over
<1>2. TypeOK /\ WayInv /\ WayInv' /\ LastInv /\ [Next]_vars => LastInv'
  <2> SUFFICES ASSUME TypeOK, WayInv, WayInv', LastInv, [Next]_vars PROVE LastInv'
    OBVIOUS
  <2>1. CASE UNCHANGED vars
    BY <2>1 DEF LastInv, LastIn, Closed, Over, vars, mainVars, mdsVars, stateVars, threadVars
  <2>2. CASE StartReceive
    <3>1. /\ main = "receive" /\ main' = "awaitMds"
          /\ ring' = ring /\ tickBuf' = tickBuf /\ compute' = compute
      BY <2>2 DEF StartReceive, threadVars
    <3>2. ring = <<>> /\ tickBuf = <<>>
      BY <3>1 DEF LastInv, WayInv
    <3> QED
      BY <3>1, <3>2 DEF LastInv, LastIn, Closed, Over
  <2>3. CASE MdsStarted \/ StartThread \/ SeeFinished \/ JoinMds \/ RequestStop \/ Sigint
    BY <2>3 DEF LastInv, LastIn, Closed, Over, WayInv, MdsStarted, StartThread, SeeFinished,
                JoinMds, RequestStop, Sigint, mainVars, mdsVars, stateVars, threadVars
  <2>4. ASSUME NEW s \in Stock, StartCompute(s) PROVE LastInv'
    BY <2>4 DEF LastInv, LastIn, Closed, Over, StartCompute, mdsVars, stateVars, threadVars
  <2>5. CASE StopStocks
    <3>1. /\ main' = "stopped" /\ compute = "ended" /\ compute' = compute
          /\ alive' = {} /\ tickBuf' = tickBuf
      BY <2>5 DEF StopStocks, threadVars
    <3>2. tickBuf = <<>>
      BY <3>1 DEF WayInv
    <3>3. LastIn(ring')
      BY <2>5, StopLast
    <3> QED
      BY <3>1, <3>2, <3>3 DEF LastInv, LastIn, Closed, Over
  <2>6. CASE Load \/ Finish \/ IgnoreTick
    BY <2>6 DEF LastInv, LastIn, Closed, Over, Load, Finish, IgnoreTick, Publish,
                mainVars, mdsVars, stateVars, threadVars
  <2>7. ASSUME NEW s \in Stock, NEW kind \in {"approach", "other"}, PassTick(s, kind)
        PROVE  LastInv'
    <3> DEFINE t == [stock |-> s, kind |-> kind]
    <3>1. t \in Tick /\ t.stock = s /\ t.kind # "end"
      BY DEF Tick
    <3> HIDE DEF t
    <3>2. /\ ring' = Pushed(ring, <<t>>) /\ s \in alive /\ alive' = alive
          /\ mds = "publishing" /\ main' = main /\ tickBuf' = tickBuf /\ compute' = compute
      BY <2>7 DEF PassTick, Publish, mainVars, stateVars, threadVars, t
    <3>3. /\ LastIn(ring') /\ (compute # "release" => Over(tickBuf, ring'))
          /\ \A k \in 1 .. Len(ring') : ring'[k] = t \/ (k \in 1 .. Len(ring) /\ ring'[k] = ring[k])
      BY <3>1, <3>2, PushLast
    <3>4. Closed(ring)' /\ Closed(tickBuf)'
      BY <3>1, <3>2, <3>3 DEF LastInv, Closed
    <3> QED
      BY <3>2, <3>3, <3>4 DEF LastInv, LastIn, Over
  <2>8. ASSUME NEW s \in Stock, NEW buy \in BOOLEAN, LimitUp(s, buy) PROVE LastInv'
    <3>1. EndSign(s) \in Tick /\ EndSign(s).stock = s
      BY DEF Tick, EndSign
    <3>2. /\ ring' = Pushed(ring, <<EndSign(s)>>) /\ s \in alive /\ alive' = alive \ {s}
          /\ mds = "publishing" /\ main' = main /\ tickBuf' = tickBuf /\ compute' = compute
      BY <2>8 DEF LimitUp, Publish, mainVars, threadVars
    <3>3. /\ LastIn(ring') /\ (compute # "release" => Over(tickBuf, ring'))
          /\ \A k \in 1 .. Len(ring') : ring'[k] = EndSign(s)
                                        \/ (k \in 1 .. Len(ring) /\ ring'[k] = ring[k])
      BY <3>1, <3>2, PushLast
    <3>4. Closed(ring)' /\ Closed(tickBuf)'
      BY <3>1, <3>2, <3>3 DEF LastInv, Closed
    <3> QED
      BY <3>2, <3>3, <3>4 DEF LastInv, LastIn, Over
  <2>9. CASE BeginCycle \/ SeeStop \/ EndCycle \/ FetchAgain \/ CheckApproach
            \/ CompareWild
    BY <2>9 DEF LastInv, LastIn, Closed, Over, BeginCycle, SeeStop, EndCycle, FetchAgain,
                CheckApproach, CompareWild, mainVars, mdsVars, stateVars
  <2>10. ASSUME NEW s \in Stock, OnApproach(s) PROVE LastInv'
    BY <2>10 DEF LastInv, LastIn, Closed, Over, OnApproach, mainVars, mdsVars, stateVars,
                 threadVars
  <2> QED
    BY <2>1, <2>2, <2>3, <2>4, <2>5, <2>6, <2>7, <2>8, <2>9, <2>10,
       FetchLast, ReleaseLast, HandleLast DEF Next, Main, MarketData, Compute
<1> QED
  BY <1>1, <1>2, TypeCorrect, Ways, PTL DEF Spec

\* The compute thread sees nothing of a stock after its end sign, wherever the
\* tick is between the ring and its buffer.
THEOREM EndSignsLast == Spec => []EndSignIsLast
<1>1. TypeOK /\ LastInv => EndSignIsLast
  <2> SUFFICES ASSUME TypeOK, LastInv, NEW k \in DOMAIN Unhandled, NEW s \in Stock,
                      Unhandled[k] = EndSign(s), NEW j \in k + 1 .. Len(Unhandled)
               PROVE  Unhandled[j].stock # s
    BY DEF EndSignIsLast
  <2>1. EndSign(s).kind = "end" /\ EndSign(s).stock = s
    BY DEF EndSign
  <2>2. CASE compute = "release"
    <3>1. /\ Unhandled = ring /\ k \in 1 .. Len(ring) /\ j \in 1 .. Len(ring) /\ k < j
      BY <2>2, LenProperties DEF Unhandled, TypeOK
    <3> QED
      BY <2>1, <3>1 DEF LastInv, LastIn
  <2>3. CASE compute # "release"
    <3> DEFINE m == Len(tickBuf)
               n == Len(ring)
    <3>1. m \in Nat /\ n \in Nat
      BY LenProperties DEF TypeOK
    <3>2. /\ tickBuf \o ring \in Seq(Tick) /\ Len(tickBuf \o ring) = m + n
          /\ \A i \in 1 .. m + n :
               (tickBuf \o ring)[i] = IF i <= m THEN tickBuf[i] ELSE ring[i - m]
      BY ConcatProperties, Zenon DEF TypeOK
    <3> HIDE DEF m, n
    <3>3. Unhandled = tickBuf \o ring
      BY <2>3 DEF Unhandled
    <3>4. DOMAIN Unhandled = 1 .. m + n /\ Len(Unhandled) = m + n
      BY <3>2, <3>3, LenProperties
    <3>5. k \in 1 .. m + n /\ j \in 1 .. m + n /\ k < j /\ k \in Nat /\ j \in Nat
      BY <3>1, <3>4
    <3>6. CASE j <= m
      <4>1. /\ k \in 1 .. m /\ j \in 1 .. m
            /\ Unhandled[k] = tickBuf[k] /\ Unhandled[j] = tickBuf[j]
        BY <3>1, <3>2, <3>3, <3>5, <3>6
      <4> QED
        BY <2>1, <3>5, <4>1 DEF LastInv, LastIn, m
    <3>7. CASE k <= m /\ ~(j <= m)
      <4>1. /\ k \in 1 .. m /\ j - m \in 1 .. n
            /\ Unhandled[k] = tickBuf[k] /\ Unhandled[j] = ring[j - m]
        BY <3>1, <3>2, <3>3, <3>5, <3>7
      <4> QED
        BY <2>1, <2>3, <4>1 DEF LastInv, Over, m, n
    <3>8. CASE ~(k <= m)
      <4>1. ~(j <= m) /\ k - m \in 1 .. n /\ j - m \in 1 .. n /\ k - m < j - m
        BY <3>1, <3>5, <3>8
      <4>2. Unhandled[k] = ring[k - m]
        BY <3>2, <3>3, <3>5, <3>8
      <4>3. Unhandled[j] = ring[j - m]
        BY <3>2, <3>3, <3>5, <4>1
      <4> QED
        BY <2>1, <4>1, <4>2, <4>3 DEF LastInv, LastIn, n
    <3> QED
      BY <3>1, <3>5, <3>6, <3>7, <3>8
  <2> QED
    BY <2>2, <2>3
<1> QED
  BY <1>1, Lasts, TypeCorrect, PTL

=============================================================================
