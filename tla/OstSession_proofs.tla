-------------------------- MODULE OstSession_proofs ---------------------------
(***************************************************************************)
(* Theorems about OstSession for any daily file and any instruments: the   *)
(* statics are complete when main walks them, every stock watches for the  *)
(* price of its own market, and its requests carry the identity.           *)
(***************************************************************************)
EXTENDS OstSession, SequenceTheorems, TLAPS

-----------------------------------------------------------------------------
Static == [exchange : Exchange, code : Listed["SSE"] \cup Listed["SZSE"]]

Query(x, left) == [exchange |-> x, left |-> left]
Full(x) == Query(x, Listed[x])

\* The statics of x have come, except for those in left.
Got(x, left) ==
  \A c \in Listed[x] \ left : \E i \in 1 .. Len(statics) :
    statics[i].exchange = x /\ statics[i].code = c

OnlySSE == \A i \in 1 .. Len(statics) : statics[i].exchange = "SSE"

(***************************************************************************)
(* The invariant of the callbacks.  There are as many finished queries as  *)
(* g_staticOK says, and what they asked for has come; the statics of SZ    *)
(* come after those of SH.                                                 *)
(***************************************************************************)
StaticsInv ==
  /\ statics \in Seq(Static)
  /\ \A i \in 1 .. Len(statics) : statics[i].code \in Listed[statics[i].exchange]
  /\ \A i, j \in 1 .. Len(statics) :
       i < j /\ statics[i].exchange = "SZSE" => statics[j].exchange = "SZSE"

Unasked ==
  /\ api \in {"login", "flagged", "identified"}
  /\ queries = <<>> /\ statics = <<>> /\ g_staticOK = 0

AskedOne ==
  /\ api = "asked"
  /\ queries = <<Full("SSE")>> /\ statics = <<>> /\ g_staticOK = 0

\* The second request failed: the first may still be answered.
OnlyOne ==
  /\ api = "failed" /\ g_staticOK = 0 /\ OnlySSE
  /\ \E l \in SUBSET Listed["SSE"] : queries = <<Query("SSE", l)>>

BothOpen ==
  /\ api = "done" /\ g_staticOK = 0 /\ OnlySSE
  /\ \E l \in SUBSET Listed["SSE"] :
       queries = <<Query("SSE", l), Full("SZSE")>> /\ Got("SSE", l)

SecondOpen ==
  /\ api = "done" /\ g_staticOK \in 0 .. 1
  /\ g_staticOK = 1 => Got("SSE", {})
  /\ \E l \in SUBSET Listed["SZSE"] : queries = <<Query("SZSE", l)>> /\ Got("SZSE", l)

Settled ==
  /\ api \in {"done", "failed"} /\ queries = <<>> /\ g_staticOK \in 0 .. 2
  /\ g_staticOK = 2 => api = "done" /\ Got("SSE", {}) /\ Got("SZSE", {})

ApiInv ==
  /\ StaticsInv
  /\ Unasked \/ AskedOne \/ OnlyOne \/ BothOpen \/ SecondOpen \/ Settled
  /\ api \in {"identified", "asked", "done"} => identified

(***************************************************************************)
(* The invariant of main.  It walks the statics only when both queries     *)
(* have been counted; what a stock knows is the last of the statics handed *)
(* over that has its code, and whether one of them had a limit price.      *)
(***************************************************************************)
Price(i) == UpperLimit[statics[i].exchange][statics[i].code]

KnowsLast ==
  \A s \in Stock : \E i \in 0 .. handed :
    /\ i > 0 => statics[i].code = s /\ limit[s] = Price(i)
    /\ \A j \in i + 1 .. handed : statics[j].code # s

AliveIfPriced ==
  \A s \in Stock :
    s \in alive <=> \E i \in 1 .. handed : statics[i].code = s /\ Price(i) > 0

MainInv ==
  /\ main \in {"logging in", "waiting", "handing", "receiving"}
  /\ main \in {"logging in", "waiting"} => handed = 0
  /\ main \in {"handing", "receiving"} => g_staticOK = 2
  /\ handed \in 0 .. Len(statics)
  /\ main = "receiving" => handed = Len(statics)
  /\ limit \in [Stock -> Nat] /\ alive \subseteq Stock /\ anonymous = {}
  /\ KnowsLast
  /\ AliveIfPriced

StartInv == ApiInv /\ MainInv

-----------------------------------------------------------------------------
(***************************************************************************)
(* The callbacks.                                                          *)
(***************************************************************************)
LEMMA InitStart == Init => StartInv
<1> SUFFICES ASSUME Init PROVE StartInv
  OBVIOUS
<1>1. statics = <<>> /\ Len(statics) = 0 /\ statics \in Seq(Static)
  BY EmptySeq DEF Init
<1>2. StaticsInv
  BY <1>1 DEF StaticsInv
<1>3. Unasked /\ api = "login"
  BY DEF Init, Unasked
<1>4. ApiInv
  BY <1>2, <1>3 DEF ApiInv
<1>5. handed = 0 /\ alive = {} /\ anonymous = {}
  BY DEF Init
<1>6. KnowsLast /\ AliveIfPriced
  <2>1. 0 \in 0 .. handed /\ \A i \in 0 + 1 .. handed : FALSE
    BY <1>5
  <2>2. KnowsLast
    BY <2>1 DEF KnowsLast
  <2>3. AliveIfPriced
    BY <1>5, <2>1 DEF AliveIfPriced
  <2> QED
    BY <2>2, <2>3
<1>7. main = "logging in" /\ limit \in [Stock -> Nat]
  BY DEF Init
<1>8. MainInv
  <2>1. handed \in 0 .. Len(statics) /\ alive \subseteq Stock
    BY <1>1, <1>5
  <2> QED
    BY <1>5, <1>6, <1>7, <2>1 DEF MainInv
<1> QED
  BY <1>4, <1>8 DEF StartInv

\* One more instrument of the exchange x.
LEMMA OneMore ==
  ASSUME StaticsInv, NEW x \in Exchange, NEW c \in Listed[x], x = "SSE" => OnlySSE,
         statics' = Append(statics, [exchange |-> x, code |-> c])
  PROVE  /\ StaticsInv'
         /\ x = "SSE" => OnlySSE'
         /\ \A left : Got(x, left) => Got(x, left \ {c})'
         /\ \A y, left : Got(y, left) => Got(y, left)'
<1> DEFINE n == Len(statics)
           e == [exchange |-> x, code |-> c]
<1>1. e \in Static /\ e.exchange = x /\ e.code = c
  BY DEF Static, Exchange
<1>2. statics \in Seq(Static) /\ n \in Nat
  BY LenProperties DEF StaticsInv
<1> HIDE DEF e
<1>3. statics' = Append(statics, e)
  BY DEF e
<1>4. /\ statics' \in Seq(Static) /\ Len(statics') = n + 1
      /\ \A i \in 1 .. n : statics'[i] = statics[i]
      /\ statics'[n + 1] = e
  BY <1>1, <1>2, <1>3, AppendProperties
<1> HIDE DEF n
<1>5. 1 .. n + 1 = (1 .. n) \cup {n + 1} /\ n = Len(statics)
  BY <1>2 DEF n
<1>6. \A i \in 1 .. n + 1 : statics'[i].code \in Listed[statics'[i].exchange]
  BY <1>1, <1>4, <1>5 DEF StaticsInv
<1>7. ASSUME NEW i \in 1 .. n + 1, NEW j \in 1 .. n + 1, i < j, statics'[i].exchange = "SZSE"
      PROVE  statics'[j].exchange = "SZSE"
  <2>1. i \in 1 .. n /\ statics[i].exchange = "SZSE"
    BY <1>2, <1>4, <1>7
  <2>2. CASE j = n + 1
    BY <2>1, <2>2, <1>1, <1>4, <1>5 DEF OnlySSE, Exchange
  <2>3. CASE j \in 1 .. n
    BY <2>1, <2>3, <1>4, <1>5, <1>7 DEF StaticsInv
  <2> QED
    BY <2>2, <2>3, <1>5
<1>8. StaticsInv'
  BY <1>4, <1>6, <1>7 DEF StaticsInv
<1>9. x = "SSE" => OnlySSE'
  BY <1>1, <1>4, <1>5 DEF OnlySSE
<1>10. ASSUME NEW y, NEW left, Got(y, left) PROVE Got(y, left)'
  BY <1>10, <1>4, <1>5 DEF Got
<1>11. ASSUME NEW left, Got(x, left) PROVE Got(x, left \ {c})'
  <2>1. ASSUME NEW d \in Listed[x] \ (left \ {c})
        PROVE  \E i \in 1 .. n + 1 : statics'[i].exchange = x /\ statics'[i].code = d
    <3>1. CASE d = c
      <4>1. statics'[n + 1].exchange = x /\ statics'[n + 1].code = d /\ n + 1 \in 1 .. n + 1
        BY <3>1, <1>1, <1>4, <1>5
      <4> QED
        BY <4>1
    <3>2. CASE d # c
      <4>1. PICK i \in 1 .. n : statics[i].exchange = x /\ statics[i].code = d
        BY <2>1, <3>2, <1>5, <1>11 DEF Got
      <4> QED
        BY <4>1, <1>4, <1>5
    <3> QED
      BY <3>1, <3>2
  <2> QED
    BY <2>1, <1>4 DEF Got
<1> QED
  BY <1>8, <1>9, <1>10, <1>11

\* Two sequences of one.
LEMMA Pair == ASSUME NEW p, NEW r PROVE <<p>> \o <<r>> = <<p, r>>
<1> DEFINE S == {p, r}
           a == <<p>> \o <<r>>
           b == <<p, r>>
<1>1. <<p>> \in Seq(S) /\ <<r>> \in Seq(S) /\ Len(<<p>>) = 1 /\ Len(<<r>>) = 1
  OBVIOUS
<1>2. b \in Seq(S) /\ Len(b) = 2 /\ b[1] = p /\ b[2] = r
  OBVIOUS
<1>3. a \in Seq(S) /\ Len(a) = 2 /\ a[1] = p /\ a[2] = r
  BY <1>1, ConcatProperties
<1> HIDE DEF a, b
<1>4. \A i \in 1 .. Len(a) : a[i] = b[i]
  BY <1>2, <1>3
<1>5. a = b
  BY <1>2, <1>3, <1>4, SeqEqual
<1> QED
  BY <1>5 DEF a, b

\* What becomes of the queries when the first of them is answered.
LEMMA QueriesAnswered ==
  ASSUME NEW q, NEW r, NEW p
  PROVE  /\ Head(<<q>>) = q /\ Tail(<<q>>) = <<>> /\ <<p>> \o Tail(<<q>>) = <<p>>
         /\ Head(<<q, r>>) = q /\ Tail(<<q, r>>) = <<r>> /\ <<p>> \o Tail(<<q, r>>) = <<p, r>>
<1>1. Head(<<q>>) = q /\ Head(<<q, r>>) = q
  OBVIOUS
<1>2. Tail(<<q>>) = <<>>
  OBVIOUS
<1>3. Tail(<<q, r>>) = <<r>>
  OBVIOUS
<1>4. <<p>> \o <<>> = <<p>>
  OBVIOUS
<1>5. <<p>> \o <<r>> = <<p, r>>
  BY Pair
<1> QED
  BY <1>1, <1>2, <1>3, <1>4, <1>5

\* One query, and a second one behind it, as sequences.
LEMMA QueriesAsked ==
  ASSUME NEW q, NEW r
  PROVE  /\ <<q>> # <<>> /\ <<q, r>> # <<>>
         /\ Append(<<>>, q) = <<q>> /\ Append(<<q>>, r) = <<q, r>>
<1> DEFINE S == {q, r}
<1>1. <<q>> # <<>> /\ <<q, r>> # <<>>
  OBVIOUS
<1>2. <<>> \in Seq(S) /\ <<q>> \in Seq(S)
  OBVIOUS
<1>3. Append(<<>>, q) = <<>> \o <<q>> /\ Append(<<q>>, r) = <<q>> \o <<r>>
  BY <1>2, AppendIsConcat
<1>4. <<>> \o <<q>> = <<q>>
  BY <1>2, ConcatEmptySeq
<1> QED
  BY <1>1, <1>3, <1>4, Pair

\* The requests of the login.
LEMMA LoginStep ==
  ASSUME ApiInv, LoginOK \/ Identify \/ Ask(1) \/ Ask(2) \/ Fail
  PROVE  ApiInv' /\ UNCHANGED <<statics, g_staticOK>>
<1>1. UNCHANGED <<statics, g_staticOK>>
  BY DEF LoginOK, Identify, Ask, Fail
<1>2. StaticsInv'
  BY <1>1 DEF ApiInv, StaticsInv
<1>3. CASE LoginOK \/ Identify
  <2>1. Unasked' /\ (api' = "identified" => identified')
    BY <1>3 DEF ApiInv, Unasked, AskedOne, OnlyOne, BothOpen, SecondOpen, Settled, LoginOK, Identify
  <2>2. api' \in {"flagged", "identified"}
    BY <1>3 DEF LoginOK, Identify
  <2> QED
    BY <1>1, <1>2, <2>1, <2>2 DEF ApiInv
<1>4. CASE Ask(1)
  <2>1. /\ api = "identified" /\ api' = "asked" /\ UNCHANGED identified
        /\ queries' = Append(queries, Full("SSE"))
    BY <1>4 DEF Ask, Asked, Full, Query
  <2>2. Unasked
    BY <2>1 DEF ApiInv, Unasked, AskedOne, OnlyOne, BothOpen, SecondOpen, Settled
  <2>3. queries' = <<Full("SSE")>>
    BY <2>1, <2>2, QueriesAsked DEF Unasked
  <2>4. AskedOne'
    BY <1>1, <2>1, <2>2, <2>3 DEF Unasked, AskedOne, Full, Query
  <2> QED
    BY <1>1, <1>2, <2>1, <2>4 DEF ApiInv
<1>5. CASE Ask(2)
  <2>1. /\ api = "asked" /\ api' = "done" /\ UNCHANGED identified
        /\ queries' = Append(queries, Full("SZSE"))
    BY <1>5 DEF Ask, Asked, Full, Query
  <2>2. AskedOne
    BY <2>1 DEF ApiInv, Unasked, AskedOne, OnlyOne, BothOpen, SecondOpen, Settled
  <2>3. queries' = <<Full("SSE"), Full("SZSE")>>
    BY <2>1, <2>2, QueriesAsked DEF AskedOne
  <2>4. OnlySSE' /\ Got("SSE", Listed["SSE"])'
    <3>1. Len(statics') = 0
      BY <1>1, <2>2, EmptySeq DEF AskedOne
    <3> QED
      BY <3>1 DEF OnlySSE, Got
  <2>5. BothOpen'
    BY <1>1, <2>1, <2>2, <2>3, <2>4 DEF AskedOne, BothOpen, Full, Query
  <2> QED
    BY <1>1, <1>2, <2>1, <2>2, <2>5 DEF ApiInv, AskedOne
<1>6. CASE Fail
  <2>1. api' = "failed" /\ UNCHANGED queries /\ api \in {"login", "identified", "asked"}
    BY <1>6 DEF Fail
  <2>2. CASE Unasked
    BY <1>1, <1>2, <2>1, <2>2 DEF ApiInv, Unasked, Settled
  <2>3. CASE AskedOne
    <3>1. OnlySSE'
      <4>1. Len(statics') = 0
        BY <1>1, <2>3, EmptySeq DEF AskedOne
      <4> QED
        BY <4>1 DEF OnlySSE
    <3>2. OnlyOne'
      BY <1>1, <2>1, <2>3, <3>1 DEF AskedOne, OnlyOne, Full
    <3> QED
      BY <1>1, <1>2, <2>1, <3>2 DEF ApiInv
  <2> QED
    BY <1>1, <2>1, <2>2, <2>3 DEF ApiInv, OnlyOne, BothOpen, SecondOpen, Settled
<1> QED
  BY <1>1, <1>3, <1>4, <1>5, <1>6

\* An error instead of an answer.
LEMMA ErrorStep ==
  ASSUME ApiInv, OnRspQryError
  PROVE  ApiInv' /\ UNCHANGED <<statics, g_staticOK>> /\ g_staticOK # 2
<1>1. /\ UNCHANGED <<statics, g_staticOK, api, identified>>
      /\ api \in {"done", "failed"} \/ api \notin {"login", "flagged", "identified", "asked"}
      /\ queries # <<>> /\ queries' = Tail(queries)
  BY DEF OnRspQryError, InLogin
<1>2. StaticsInv'
  BY <1>1 DEF ApiInv, StaticsInv
<1>3. \A x, l : Got(x, l)' <=> Got(x, l)
  BY <1>1 DEF Got
<1>4. CASE OnlyOne
  <2>1. queries' = <<>>
    BY <1>1, <1>4, QueriesAnswered DEF OnlyOne
  <2> QED
    BY <1>1, <1>2, <1>4, <2>1 DEF ApiInv, OnlyOne, Settled
<1>5. CASE BothOpen
  <2>1. queries' = <<Full("SZSE")>>
    BY <1>1, <1>5, QueriesAnswered DEF BothOpen
  <2>2. Got("SZSE", Listed["SZSE"])'
    BY DEF Got
  <2>3. SecondOpen'
    BY <1>1, <1>5, <2>1, <2>2 DEF BothOpen, SecondOpen, Full
  <2> QED
    BY <1>1, <1>2, <1>5, <2>3 DEF ApiInv, BothOpen
<1>6. CASE SecondOpen
  <2>1. queries' = <<>>
    BY <1>1, <1>6, QueriesAnswered DEF SecondOpen
  <2>2. Settled'
    BY <1>1, <1>6, <2>1 DEF SecondOpen, Settled
  <2> QED
    BY <1>1, <1>2, <1>6, <2>2 DEF ApiInv, SecondOpen
<1> QED
  BY <1>1, <1>4, <1>5, <1>6 DEF ApiInv, Unasked, AskedOne, Settled

\* An instrument comes.
LEMMA AnswerStep ==
  ASSUME ApiInv, NEW c \in Listed["SSE"] \cup Listed["SZSE"], OnRspQryDepthMarketData(c)
  PROVE  ApiInv' /\ g_staticOK # 2
<1> DEFINE x == Head(queries).exchange
           left == Head(queries).left \ {c}
<1>1. /\ UNCHANGED <<api, identified>>
      /\ api \notin {"login", "flagged", "identified", "asked"}
      /\ queries # <<>> /\ c \in Head(queries).left
      /\ statics' = Append(statics, [exchange |-> x, code |-> c])
      /\ g_staticOK' = IF left = {} THEN g_staticOK + 1 ELSE g_staticOK
      /\ queries' = IF left = {} THEN Tail(queries)
                    ELSE <<[Head(queries) EXCEPT !.left = left]>> \o Tail(queries)
  BY DEF OnRspQryDepthMarketData, InLogin, Counted
<1>2. StaticsInv /\ (api \in {"identified", "asked", "done"} => identified)'
  BY <1>1 DEF ApiInv
<1>3. CASE OnlyOne \/ BothOpen
  <2>1. PICK l \in SUBSET Listed["SSE"] :
          \/ OnlyOne /\ queries = <<Query("SSE", l)>>
          \/ BothOpen /\ queries = <<Query("SSE", l), Full("SZSE")>> /\ Got("SSE", l)
    BY <1>3 DEF OnlyOne, BothOpen
  <2>2. Head(queries) = Query("SSE", l)
    BY <2>1, QueriesAnswered
  <2>3. x = "SSE" /\ left = l \ {c} /\ c \in Listed["SSE"] /\ g_staticOK = 0 /\ OnlySSE
    BY <1>1, <2>1, <2>2 DEF Query, OnlyOne, BothOpen
  <2>4. [Head(queries) EXCEPT !.left = left] = Query("SSE", l \ {c})
    BY <2>2, <2>3 DEF Query
  <2> HIDE DEF x, left
  <2>5. StaticsInv' /\ OnlySSE' /\ (Got("SSE", l) => Got("SSE", l \ {c})')
    BY <1>1, <1>2, <2>3, OneMore DEF Exchange
  <2>6. CASE OnlyOne /\ queries = <<Query("SSE", l)>>
    <3>1. queries' = IF left = {} THEN <<>> ELSE <<Query("SSE", l \ {c})>>
      BY <1>1, <2>4, <2>6, QueriesAnswered
    <3>2. CASE left = {}
      <4>1. Settled'
        BY <1>1, <2>3, <2>6, <3>1, <3>2 DEF Settled, OnlyOne
      <4> QED
        BY <1>2, <2>3, <2>5, <4>1 DEF ApiInv
    <3>3. CASE left # {}
      <4>1. OnlyOne'
        BY <1>1, <2>3, <2>5, <2>6, <3>1, <3>3 DEF OnlyOne
      <4> QED
        BY <1>2, <2>3, <2>5, <4>1 DEF ApiInv
    <3> QED
      BY <3>2, <3>3
  <2>7. CASE BothOpen /\ queries = <<Query("SSE", l), Full("SZSE")>> /\ Got("SSE", l)
    <3>1. queries' = IF left = {} THEN <<Full("SZSE")>> ELSE <<Query("SSE", l \ {c}), Full("SZSE")>>
      BY <1>1, <2>4, <2>7, QueriesAnswered
    <3>2. CASE left = {}
      <4>1. Got("SZSE", Listed["SZSE"])'
        BY DEF Got
      <4>2. Got("SSE", {})'
        BY <2>3, <2>5, <2>7, <3>2
      <4>3. SecondOpen'
        BY <1>1, <2>3, <2>7, <3>1, <3>2, <4>1, <4>2 DEF SecondOpen, BothOpen, Full
      <4> QED
        BY <1>2, <2>3, <2>5, <4>3 DEF ApiInv
    <3>3. CASE left # {}
      <4>1. BothOpen'
        BY <1>1, <2>3, <2>5, <2>7, <3>1, <3>3 DEF BothOpen
      <4> QED
        BY <1>2, <2>3, <2>5, <4>1 DEF ApiInv
    <3> QED
      BY <3>2, <3>3
  <2> QED
    BY <2>1, <2>6, <2>7
<1>4. CASE SecondOpen
  <2>1. PICK l \in SUBSET Listed["SZSE"] : queries = <<Query("SZSE", l)>> /\ Got("SZSE", l)
    BY <1>4 DEF SecondOpen
  <2>2. Head(queries) = Query("SZSE", l)
    BY <2>1, QueriesAnswered
  <2>3. x = "SZSE" /\ left = l \ {c} /\ c \in Listed["SZSE"] /\ g_staticOK \in 0 .. 1
    BY <1>1, <1>4, <2>1, <2>2 DEF Query, SecondOpen
  <2>4. [Head(queries) EXCEPT !.left = left] = Query("SZSE", l \ {c})
    BY <2>2, <2>3 DEF Query
  <2> HIDE DEF x, left
  <2>5. StaticsInv' /\ Got("SZSE", l \ {c})' /\ (Got("SSE", {}) => Got("SSE", {})')
    BY <1>1, <1>2, <2>1, <2>3, OneMore DEF Exchange
  <2>6. queries' = IF left = {} THEN <<>> ELSE <<Query("SZSE", l \ {c})>>
    BY <1>1, <2>1, <2>4, QueriesAnswered
  <2>7. CASE left = {}
    <3>1. Got("SZSE", {})'
      BY <2>3, <2>5, <2>7
    <3>2. Settled'
      BY <1>1, <1>4, <2>3, <2>5, <2>6, <2>7, <3>1 DEF Settled, SecondOpen
    <3> QED
      BY <1>2, <2>3, <2>5, <3>2 DEF ApiInv
  <2>8. CASE left # {}
    <3>1. SecondOpen'
      BY <1>1, <1>4, <2>3, <2>5, <2>6, <2>8 DEF SecondOpen
    <3> QED
      BY <1>2, <2>3, <2>5, <3>1 DEF ApiInv
  <2> QED
    BY <2>7, <2>8
<1> QED
  BY <1>1, <1>3, <1>4 DEF ApiInv, Unasked, AskedOne, Settled

-----------------------------------------------------------------------------
(***************************************************************************)
(* main.                                                                   *)
(***************************************************************************)
\* What the stocks know does not change if nothing is handed to them.
LEMMA NothingHanded ==
  ASSUME MainInv, UNCHANGED <<statics, handed, stateVars>>,
         main' \in {"logging in", "waiting", "handing", "receiving"},
         main' \in {"logging in", "waiting"} => main \in {"logging in", "waiting"},
         main' \in {"handing", "receiving"} => g_staticOK' = 2,
         main' = "receiving" => handed = Len(statics)
  PROVE  MainInv'
<1>1. UNCHANGED <<statics, handed, limit, alive, anonymous>>
  BY DEF stateVars
<1>2. KnowsLast'
  <2>1. \A i : Price(i)' = Price(i)
    BY <1>1 DEF Price
  <2>2. KnowsLast
    BY DEF MainInv
  <2>3. ASSUME NEW s \in Stock, NEW i \in 0 .. handed,
               i > 0 => statics[i].code = s /\ limit[s] = Price(i),
               \A j \in i + 1 .. handed : statics[j].code # s
        PROVE  /\ i > 0 => statics'[i].code = s /\ limit'[s] = Price(i)'
               /\ \A j \in i + 1 .. handed' : statics'[j].code # s
    BY <1>1, <2>1, <2>3
  <2> QED
    BY <1>1, <2>2, <2>3 DEF KnowsLast
<1>3. AliveIfPriced'
  BY <1>1 DEF MainInv, AliveIfPriced, Price
<1>4. /\ handed' \in 0 .. Len(statics') /\ limit' \in [Stock -> Nat]
      /\ alive' \subseteq Stock /\ anonymous' = {}
      /\ main \in {"logging in", "waiting"} => handed' = 0
  BY <1>1 DEF MainInv
<1> QED
  BY <1>1, <1>2, <1>3, <1>4 DEF MainInv

\* No callback comes while main walks the statics.
LEMMA CallbackStep == StartInv /\ Callback => StartInv'
<1> SUFFICES ASSUME StartInv, Callback PROVE StartInv'
  OBVIOUS
<1>1. ApiInv /\ MainInv
  BY DEF StartInv
<1>2. UNCHANGED <<main, handed, stateVars>>
  BY DEF Callback, LoginOK, Identify, Ask, Fail, OnRspQryDepthMarketData, OnRspQryError
<1>3. CASE LoginOK \/ Identify \/ Ask(1) \/ Ask(2) \/ Fail \/ OnRspQryError
  <2>1. ApiInv' /\ UNCHANGED <<statics, g_staticOK>>
    BY <1>1, <1>3, LoginStep, ErrorStep
  <2>2. /\ main' \in {"logging in", "waiting", "handing", "receiving"} /\ main' = main
        /\ main' \in {"handing", "receiving"} => g_staticOK' = 2
        /\ main' = "receiving" => handed = Len(statics)
    BY <1>1, <1>2, <2>1 DEF MainInv
  <2>3. MainInv'
    BY <1>1, <1>2, <2>1, <2>2, NothingHanded
  <2> QED
    BY <2>1, <2>3 DEF StartInv
<1>4. ASSUME NEW c \in Listed["SSE"] \cup Listed["SZSE"], OnRspQryDepthMarketData(c)
      PROVE  StartInv'
  <2>1. ApiInv' /\ g_staticOK # 2
    BY <1>1, <1>4, AnswerStep
  <2>2. main \in {"logging in", "waiting"} /\ handed = 0
    <3>1. main \in {"logging in", "waiting"}
      BY <1>1, <2>1 DEF MainInv
    <3> QED
      BY <1>1, <3>1 DEF MainInv
  <2>3. Len(statics') \in Nat
    BY <2>1, LenProperties DEF ApiInv, StaticsInv
  <2>4. KnowsLast'
    <3>1. handed' = 0
      BY <1>2, <2>2
    <3>2. 0 \in 0 .. handed'
      BY <3>1
    <3>3. \A j \in 0 + 1 .. handed' : FALSE
      BY <3>1
    <3> QED
      BY <3>2, <3>3 DEF KnowsLast
  <2>5. AliveIfPriced'
    <3>1. handed = 0
      BY <2>2
    <3>2. \A i \in 1 .. handed : FALSE
      BY <3>1
    <3> QED
      BY <1>1, <1>2, <3>2 DEF MainInv, AliveIfPriced, stateVars
  <2>6. UNCHANGED <<main, handed, limit, alive, anonymous>>
    BY <1>2 DEF stateVars
  <2>7. limit \in [Stock -> Nat] /\ alive \subseteq Stock /\ anonymous = {}
    BY <1>1 DEF MainInv
  <2>8. MainInv'
    <3>1. main' \in {"logging in", "waiting"} /\ handed' = 0
      BY <2>2, <2>6
    <3>2. handed' = 0
      BY <3>1
    <3>3. handed' \in 0 .. Len(statics')
      BY <2>3, <3>2
    <3> QED
      BY <3>1, <3>3, <2>3, <2>4, <2>5, <2>6, <2>7 DEF MainInv
  <2> QED
    BY <2>1, <2>8 DEF StartInv
<1> QED
  BY <1>3, <1>4 DEF Callback

\* main hands one instrument on.
LEMMA HandleStep == StartInv /\ HandleStatic => StartInv'
<1> SUFFICES ASSUME StartInv, HandleStatic PROVE StartInv'
  OBVIOUS
<1> DEFINE k == handed + 1
           s == statics[k].code
<1>1. ApiInv /\ MainInv
  BY DEF StartInv
<1>2. /\ main = "handing" /\ handed < Len(statics) /\ handed' = k
      /\ UNCHANGED <<api, identified, queries, statics, g_staticOK, main>>
  BY DEF HandleStatic, apiVars
<1>3. handed \in Nat /\ Len(statics) \in Nat /\ k \in 1 .. Len(statics) /\ k = handed + 1
  BY <1>1, <1>2, LenProperties DEF MainInv, ApiInv, StaticsInv
<1>4. Price(k) \in Nat
  <2>1. statics[k] \in Static /\ s \in Listed[statics[k].exchange]
    BY <1>1, <1>3, ElementOfSeq DEF ApiInv, StaticsInv
  <2>2. statics[k].exchange \in Exchange
    BY <2>1 DEF Static
  <2> QED
    BY <2>1, <2>2, ListedAssumption DEF Price
\* By now the login is over.
<1>5. identified
  BY <1>1, <1>2 DEF ApiInv, MainInv, Unasked, AskedOne, OnlyOne, BothOpen, SecondOpen, Settled
<1>6. IF s \in Stock
      THEN /\ limit' = [limit EXCEPT ![s] = Price(k)]
           /\ alive' = IF Price(k) = 0 THEN alive ELSE alive \cup {s}
           /\ anonymous' = anonymous
      ELSE UNCHANGED <<limit, alive, anonymous>>
  BY <1>5 DEF HandleStatic, Price, stateVars
<1>7. ApiInv'
  BY <1>1, <1>2 DEF ApiInv, StaticsInv, Unasked, AskedOne, OnlyOne, BothOpen, SecondOpen, Settled,
     OnlySSE, Got
<1>8. \A i : Price(i)' = Price(i)
  BY <1>2 DEF Price
<1> HIDE DEF s, k
<1>9. 1 .. handed' = (1 .. handed) \cup {k} /\ k \notin 1 .. handed
  BY <1>2, <1>3
<1>10. s = statics[k].code /\ UNCHANGED statics
  BY <1>2 DEF s
<1>11. KnowsLast'
  <2> SUFFICES ASSUME NEW t \in Stock
               PROVE  \E i \in 0 .. handed' :
                        /\ i > 0 => statics[i].code = t /\ limit'[t] = Price(i)
                        /\ \A j \in i + 1 .. handed' : statics[j].code # t
    BY <1>8, <1>10 DEF KnowsLast
  <2>1. CASE s = t
    <3>1. k \in 0 .. handed' /\ \A j \in k + 1 .. handed' : FALSE
      BY <1>2, <1>3
    <3>2. limit'[t] = Price(k)
      BY <1>1, <1>6, <2>1 DEF MainInv
    <3> QED
      BY <1>10, <2>1, <3>1, <3>2
  <2>2. CASE s # t
    <3>1. PICK i \in 0 .. handed :
            /\ i > 0 => statics[i].code = t /\ limit[t] = Price(i)
            /\ \A j \in i + 1 .. handed : statics[j].code # t
      BY <1>1 DEF MainInv, KnowsLast
    <3>2. limit'[t] = limit[t]
      BY <1>1, <1>6, <2>2 DEF MainInv
    <3>3. i \in 0 .. handed' /\ \A j \in i + 1 .. handed' : j \in i + 1 .. handed \/ j = k
      BY <1>2, <1>3
    <3> QED
      BY <1>10, <2>2, <3>1, <3>2, <3>3
  <2> QED
    BY <2>1, <2>2
<1>12. AliveIfPriced'
  <2> SUFFICES ASSUME NEW t \in Stock
               PROVE  t \in alive' <=> \E i \in 1 .. handed' : statics[i].code = t /\ Price(i) > 0
    BY <1>8, <1>10 DEF AliveIfPriced
  <2>1. t \in alive <=> \E i \in 1 .. handed : statics[i].code = t /\ Price(i) > 0
    BY <1>1 DEF MainInv, AliveIfPriced
  <2>2. t \in alive' <=> t \in alive \/ (s = t /\ Price(k) > 0)
    BY <1>4, <1>6
  <2> QED
    BY <1>9, <1>10, <2>1, <2>2
<1>13. limit' \in [Stock -> Nat] /\ alive' \subseteq Stock /\ anonymous' = {}
  BY <1>1, <1>4, <1>6 DEF MainInv
<1>14. MainInv'
  BY <1>1, <1>2, <1>3, <1>11, <1>12, <1>13 DEF MainInv
<1> QED
  BY <1>7, <1>14 DEF StartInv

\* Every step keeps the invariant.
LEMMA StepStart == StartInv /\ [Next]_vars => StartInv'
<1> SUFFICES ASSUME StartInv, [Next]_vars PROVE StartInv'
  OBVIOUS
<1>1. ASSUME UNCHANGED <<api, identified, queries, statics, g_staticOK>>
      PROVE  ApiInv'
  BY <1>1 DEF StartInv, ApiInv, StaticsInv, Unasked, AskedOne, OnlyOne, BothOpen, SecondOpen,
     Settled, OnlySSE, Got
<1>2. MainInv /\ main \in {"logging in", "waiting", "handing", "receiving"}
  BY DEF StartInv, MainInv
<1>3. CASE IsStarted
  <2>1. /\ main = "logging in" /\ main' = "waiting" /\ handed = 0
        /\ UNCHANGED <<apiVars, handed, stateVars>>
    BY <1>2, <1>3 DEF IsStarted, MainInv
  <2>2. MainInv'
    BY <1>2, <2>1, NothingHanded DEF apiVars
  <2> QED
    BY <1>1, <2>1, <2>2 DEF apiVars, StartInv
<1>4. CASE GetDepthMarketData
  <2>1. g_staticOK = 2
    BY <1>4 DEF GetDepthMarketData, StaticsReady, StartInv, ApiInv, Unasked, AskedOne, OnlyOne,
       BothOpen, SecondOpen, Settled
  <2>2. main' = "handing" /\ UNCHANGED <<apiVars, handed, stateVars>>
    BY <1>4 DEF GetDepthMarketData
  <2>3. MainInv'
    BY <1>2, <2>1, <2>2, NothingHanded DEF apiVars
  <2> QED
    BY <1>1, <2>2, <2>3 DEF apiVars, StartInv
<1>5. CASE OstStart
  <2>1. /\ main = "handing" /\ main' = "receiving" /\ handed = Len(statics) /\ g_staticOK = 2
        /\ UNCHANGED <<apiVars, handed, stateVars>>
    BY <1>2, <1>5 DEF OstStart, MainInv
  <2>2. MainInv'
    BY <1>2, <2>1, NothingHanded DEF apiVars
  <2> QED
    BY <1>1, <2>1, <2>2 DEF apiVars, StartInv
<1>6. CASE UNCHANGED vars
  <2>1. UNCHANGED <<main, statics, handed, stateVars, g_staticOK>> /\ ApiInv'
    BY <1>1, <1>6 DEF vars, apiVars
  <2>2. /\ main' \in {"handing", "receiving"} => g_staticOK' = 2
        /\ main' = "receiving" => handed = Len(statics)
    BY <1>2, <2>1 DEF MainInv
  <2> QED
    BY <1>2, <2>1, <2>2, NothingHanded DEF StartInv
<1> QED
  BY <1>3, <1>4, <1>5, <1>6, CallbackStep, HandleStep DEF Next, Main

\* StartInv is an invariant.
LEMMA StartHolds == Spec => []StartInv
BY InitStart, StepStart, PTL DEF Spec

\* No callback can move the statics while main walks them.
THEOREM SettledHolds == Spec => []StaticsSettled
<1>1. StartInv => StaticsSettled
  <2> SUFFICES ASSUME StartInv, main \in {"handing", "receiving"} PROVE api = "done" /\ queries = <<>>
    BY DEF StaticsSettled
  <2>1. g_staticOK = 2
    BY DEF StartInv, MainInv
  <2> QED
    BY <2>1 DEF StartInv, ApiInv, Unasked, AskedOne, OnlyOne, BothOpen, SecondOpen, Settled
<1> QED
  BY StartHolds, <1>1, PTL

\* Whenever a stock prepares its cancel request, the session is known.
THEOREM IdentityHolds == Spec => []IdentityKnown
<1>1. StartInv => IdentityKnown
  BY DEF StartInv, MainInv, IdentityKnown
<1> QED
  BY StartHolds, <1>1, PTL

-----------------------------------------------------------------------------
(***************************************************************************)
(* Every stock ends with the price of its own market.                      *)
(***************************************************************************)
\* Of the statics with the code of a stock in the daily file the last is that
\* of its own market; the stock is alive with any one that has a price.
LEMMA OwnMarketLast ==
  ASSUME StartInv, main = "receiving", NEW s \in Stock
  PROVE  /\ limit[s] = UpperLimit[Market][s]
         /\ s \in alive <=> Priced(s)
<1>1. ApiInv /\ MainInv /\ handed = Len(statics) /\ g_staticOK = 2
  BY DEF StartInv, MainInv
<1>2. Got("SSE", {}) /\ Got("SZSE", {})
  BY <1>1 DEF ApiInv, Unasked, AskedOne, OnlyOne, BothOpen, SecondOpen, Settled
<1>3. StaticsInv /\ Len(statics) \in Nat
  BY <1>1, LenProperties DEF ApiInv, StaticsInv
<1>4. Market \in Exchange /\ s \in Listed[Market] /\ UpperLimit[Market][s] \in Nat
  BY ListedAssumption
<1>5. PICK m \in 1 .. Len(statics) : statics[m].exchange = Market /\ statics[m].code = s
  BY <1>2, <1>4 DEF Got, Exchange
<1>6. \A i \in 1 .. Len(statics) :
        statics[i].code = s => statics[i].exchange \in Exchange /\ s \in Listed[statics[i].exchange]
  <2>1. \A i \in 1 .. Len(statics) : statics[i] \in Static
    BY <1>3, ElementOfSeq DEF StaticsInv
  <2> QED
    BY <1>3, <2>1 DEF StaticsInv, Static
<1>7. ASSUME NEW i \in 1 .. Len(statics), statics[i].code = s, i >= m
      PROVE  statics[i].exchange = Market
  <2>1. CASE Market = "SSE"
    BY <1>6, <1>7, <2>1, ListedAssumption DEF Exchange
  <2>2. CASE Market = "SZSE"
    BY <1>3, <1>5, <1>7, <2>2 DEF StaticsInv
  <2> QED
    BY <1>4, <2>1, <2>2 DEF Exchange
<1>8. limit[s] = UpperLimit[Market][s]
  <2>1. PICK i \in 0 .. handed :
          /\ i > 0 => statics[i].code = s /\ limit[s] = Price(i)
          /\ \A j \in i + 1 .. handed : statics[j].code # s
    BY <1>1 DEF MainInv, KnowsLast
  <2>2. m \notin i + 1 .. handed
    BY <1>5, <2>1
  <2>3. i >= m /\ i \in 1 .. Len(statics)
    BY <1>1, <1>3, <2>2
  <2>4. statics[i].code = s /\ limit[s] = Price(i)
    BY <2>1, <2>3
  <2>5. statics[i].exchange = Market
    BY <1>7, <2>3, <2>4
  <2> QED
    BY <2>4, <2>5 DEF Price
<1>9. ASSUME Priced(s) PROVE s \in alive
  <2>1. PICK x \in Exchange : s \in Listed[x] /\ UpperLimit[x][s] > 0
    BY <1>9 DEF Priced
  <2>2. PICK i \in 1 .. Len(statics) : statics[i].exchange = x /\ statics[i].code = s
    BY <1>2, <2>1 DEF Got, Exchange
  <2>3. Price(i) > 0 /\ i \in 1 .. handed
    BY <1>1, <2>1, <2>2 DEF Price
  <2> QED
    BY <1>1, <2>2, <2>3 DEF MainInv, AliveIfPriced
<1>10. ASSUME s \in alive PROVE Priced(s)
  <2>1. PICK i \in 1 .. handed : statics[i].code = s /\ Price(i) > 0
    BY <1>1, <1>10 DEF MainInv, AliveIfPriced
  <2>2. statics[i].exchange \in Exchange /\ s \in Listed[statics[i].exchange]
    BY <1>1, <1>6, <2>1
  <2> QED
    BY <2>1, <2>2 DEF Price, Priced
<1> QED
  BY <1>8, <1>9, <1>10

\* Once the ticks flow every stock watches for the price of its own market, and
\* is alive exactly if its code has a limit price on some exchange.
THEOREM OwnLimitHolds == Spec => []OwnLimit
<1>1. StartInv => OwnLimit
  BY OwnMarketLast DEF OwnLimit
<1> QED
  BY StartHolds, <1>1, PTL
=============================================================================
