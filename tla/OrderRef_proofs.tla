--------------------------- MODULE OrderRef_proofs ----------------------------
(***************************************************************************)
(* Theorems about OrderRef for any daily file, batch and number of orders: *)
(* an answer goes to the stock of its order, it is found once recorded,    *)
(* and the local numbers of the orders are fresh.                          *)
(***************************************************************************)
EXTENDS OrderRef, SequenceTheorems, WellFoundedInduction, TLAPS

-----------------------------------------------------------------------------
Code == {Config[i] : i \in DOMAIN Config}

Order == [ref : Nat, n : Nat \ {0}, stock : Code, UserLocalID : Nat]

(***************************************************************************)
(* The invariant.  Orders have intervals of request numbers, one after the *)
(* other; the table holds at a number the stock of the order that begins   *)
(* there or nothing, and ends before the order to be recorded; a look-up   *)
(* knows its order.                                                        *)
(***************************************************************************)
SessionInv ==
  /\ api \in {"manager", "login", "counter", "trader", "answers"}
  /\ "canOrder" \in flags => api = "answers"
  /\ api \in {"trader", "answers"} => g_maxUserLocalID = SessionMax
  /\ started => api = "answers"

OrdersInv ==
  /\ orders \in Seq(Order) /\ g_requestID \in Nat /\ g_requestID >= 2
  /\ \A k \in 1 .. Len(orders) :
       /\ orders[k].ref >= 2 /\ orders[k].ref + orders[k].n <= g_requestID
       /\ orders[k].UserLocalID = SessionMax + orders[k].ref
  /\ \A j, k \in 1 .. Len(orders) :
       j < k => orders[j].ref + orders[j].n <= orders[k].ref

\* The table has the stock of the order k at r.
Holds(k, r) ==
  /\ k \in 1 .. Len(orders) /\ orders[k].ref = r
  /\ r \in DOMAIN g_orderRefLut /\ g_orderRefLut[r] = orders[k].stock

TableInv ==
  /\ sender \in {"idle", "sent", "resizing"}
  /\ sender # "idle" => Len(orders) > 0
  /\ \A r \in DOMAIN g_orderRefLut :
       /\ r \in Nat /\ r < g_requestID
       /\ sender # "idle" => r <= orders[Len(orders)].ref
       /\ g_orderRefLut[r] = -1 \/ \E k \in 1 .. Len(orders) : Holds(k, r)
  /\ \A r \in recorded : \E k \in 1 .. Len(orders) : Holds(k, r)

LookInv ==
  looking # Nothing =>
    /\ looking.order \in 1 .. Len(orders)
    /\ looking.ref \in Nat
    /\ orders[looking.order].ref <= looking.ref
    /\ looking.ref < orders[looking.order].ref + orders[looking.order].n
    /\ looking.found => looking.ref \in recorded

AnswerInv ==
  answer # Nothing =>
    /\ answer.order \in 1 .. Len(orders)
    /\ ~answer.torn => answer.id = -1 \/ Config[answer.id] = orders[answer.order].stock
    /\ ~answer.torn /\ answer.found => answer.id # -1

OrderInv == SessionInv /\ OrdersInv /\ TableInv /\ LookInv /\ AnswerInv

-----------------------------------------------------------------------------
(***************************************************************************)
(* StockIndex: a code of the daily file leads to a place that holds it,    *)
(* and -1, which stands for no code, leads nowhere.                        *)
(***************************************************************************)
LEMMA Least == ASSUME NEW S \in SUBSET Nat, S # {} PROVE \E x \in S : \A y \in S : x <= y
<1> DEFINE R == OpToRel(<, Nat)
<1>1. IsWellFoundedOn(R, Nat)
  BY NatLessThanWellFounded
<1>2. \A x, y \in Nat : x < y => <<x, y>> \in R
  BY DEF OpToRel
<1> HIDE DEF R
<1>3. PICK x \in S : \A y \in S : <<y, x>> \notin R
  BY <1>1, WFMin
<1>4. ASSUME NEW y \in S PROVE x <= y
  <2>1. ~(y < x)
    BY <1>2, <1>3
  <2> QED
    BY <2>1
<1> QED
  BY <1>4

\* A set of numbers with a bound has a greatest one.
LEMMA Greatest ==
  ASSUME NEW n \in Nat, NEW S \in SUBSET (1 .. n), S # {}
  PROVE  \E x \in S : \A y \in S : y <= x
<1> DEFINE T == {n - x : x \in S}
<1>1. T \in SUBSET Nat /\ T # {}
  <2>1. \A x \in S : n - x \in Nat
    OBVIOUS
  <2> QED
    BY <2>1
<1>2. PICK t \in T : \A u \in T : t <= u
  <2> HIDE DEF T
  <2> QED
    BY <1>1, Least
<1>3. PICK x \in S : t = n - x
  BY <1>2
<1>4. ASSUME NEW y \in S PROVE y <= x
  <2>1. n - y \in T
    BY <1>4
  <2>2. n - x <= n - y
    BY <1>2, <1>3, <2>1
  <2> QED
    BY <2>2
<1> QED
  BY <1>4

\* Every code of the daily file is below the last entry, which -1 has.
LEMMA CodesInRange ==
  /\ \A c \in Code : c \in Nat /\ linearizeStockId(c) = c - Base /\ linearizeStockId(c) < 8191
  /\ linearizeStockId(-1) = 8191
  /\ DOMAIN Config = 1 .. Len(Config) /\ Len(Config) \in Nat
<1>1. DOMAIN Config = 1 .. Len(Config) /\ Len(Config) \in Nat
  BY ConfigAssumption, LenProperties
<1>2. \A i \in DOMAIN Config : Config[i] \in Nat
  BY <1>1, ConfigAssumption, ElementOfSeq
<1>3. ASSUME NEW c \in Code
      PROVE  c \in Nat /\ linearizeStockId(c) = c - Base /\ linearizeStockId(c) < 8191
  <2>1. c \in Nat /\ Base <= c /\ c < Base + 8191
    BY <1>2, ConfigAssumption DEF Code
  <2> QED
    BY <2>1, BaseAssumption DEF linearizeStockId
<1>4. linearizeStockId(-1) = 8191
  BY BaseAssumption DEF linearizeStockId
<1> QED
  BY <1>1, <1>3, <1>4

\* A code of the file is found, at a place that holds it.
LEMMA FoundIsOwn ==
  ASSUME NEW c \in Code
  PROVE  stockId(c) \in DOMAIN Config /\ Config[stockId(c)] = c
<1> DEFINE same == {i \in DOMAIN Config : linearizeStockId(Config[i]) = linearizeStockId(c)}
           Last(i) == \A j \in same : j <= i
<1>1. same \in SUBSET (1 .. Len(Config)) /\ Len(Config) \in Nat
  BY CodesInRange
<1>2. same # {}
  BY DEF Code
<1>3. ASSUME NEW i \in same PROVE i \in DOMAIN Config /\ Config[i] = c
  <2>1. i \in DOMAIN Config /\ Config[i] \in Code /\ linearizeStockId(Config[i]) = linearizeStockId(c)
    BY DEF Code
  <2>2. Config[i] - Base = c - Base /\ Config[i] \in Nat /\ c \in Nat
    BY <2>1, CodesInRange
  <2> QED
    BY <2>1, <2>2, BaseAssumption
<1>4. stockId(c) = CHOOSE i \in same : Last(i)
  BY <1>2 DEF stockId, g_stockIdLut
<1> HIDE DEF same
<1>5. \E i \in same : Last(i)
  BY <1>1, <1>2, Greatest
<1>6. stockId(c) \in same
  BY <1>4, <1>5
<1> QED
  BY <1>3, <1>6

\* The filler of the table is the code of no stock.
LEMMA NoCodeNowhere == stockId(-1) = -1
<1>1. ASSUME NEW i \in DOMAIN Config PROVE linearizeStockId(Config[i]) # 8191
  <2>1. Config[i] \in Code
    BY DEF Code
  <2>2. linearizeStockId(Config[i]) < 8191
    BY <2>1, CodesInRange
  <2> QED
    BY <2>2
<1> QED
  BY <1>1, CodesInRange DEF stockId, g_stockIdLut

-----------------------------------------------------------------------------
(***************************************************************************)
(* The invariant holds.                                                    *)
(***************************************************************************)
LEMMA InitOrder == Init => OrderInv
<1> SUFFICES ASSUME Init PROVE OrderInv
  OBVIOUS
<1>1. orders = <<>> /\ Len(orders) = 0 /\ orders \in Seq(Order) /\ DOMAIN g_orderRefLut = {}
  BY EmptySeq DEF Init
<1>2. SessionInv
  BY DEF Init, SessionInv
<1>3. OrdersInv
  BY <1>1 DEF Init, OrdersInv
<1>4. TableInv
  BY <1>1 DEF Init, TableInv
<1>5. LookInv /\ AnswerInv
  BY DEF Init, LookInv, AnswerInv
<1> QED
  BY <1>2, <1>3, <1>4, <1>5 DEF OrderInv

\* The logins are over when main goes on.
LEMMA SessionStep == OrderInv /\ [Next]_vars => SessionInv'
<1> SUFFICES ASSUME SessionInv, [Next]_vars PROVE SessionInv'
  BY DEF OrderInv
<1>1. CASE onRspLoginManager
  BY <1>1 DEF onRspLoginManager, SessionInv
<1>2. CASE onRspLogin
  BY <1>2 DEF onRspLogin, SessionInv
<1>3. CASE onRspLoginCounter
  BY <1>3 DEF onRspLoginCounter, SessionInv
<1>4. CASE onRspInitTrader
  BY <1>4 DEF onRspInitTrader, SessionInv
<1>5. CASE Started
  BY <1>5 DEF Started, isStarted, SessionInv
<1>6. CASE UNCHANGED sessionVars
  BY <1>6 DEF sessionVars, SessionInv
<1>7. \/ onRspLoginManager \/ onRspLogin \/ onRspLoginCounter \/ onRspInitTrader \/ Started
      \/ UNCHANGED sessionVars
  BY DEF Next, vars, Send, Resize, Store, Lookup, handleRspOrder
<1> QED
  BY <1>1, <1>2, <1>3, <1>4, <1>5, <1>6, <1>7

\* What stays as it is when no order is sent and nothing is recorded.
LEMMA SameOrders ==
  ASSUME OrderInv, UNCHANGED sendVars
  PROVE  OrdersInv' /\ TableInv' /\ (UNCHANGED looking => LookInv') /\ (UNCHANGED answer => AnswerInv')
<1>1. UNCHANGED <<g_requestID, sender, orders, g_orderRefLut, recorded>>
  BY DEF sendVars
<1>2. OrdersInv'
  BY <1>1 DEF OrderInv, OrdersInv
<1>3. TableInv'
  BY <1>1 DEF OrderInv, TableInv, Holds
<1>4. UNCHANGED looking => LookInv'
  BY <1>1 DEF OrderInv, LookInv
<1>5. UNCHANGED answer => AnswerInv'
  BY <1>1 DEF OrderInv, AnswerInv
<1> QED
  BY <1>2, <1>3, <1>4, <1>5

\* An order is sent.
LEMMA SendStep ==
  ASSUME OrderInv, NEW i \in DOMAIN Config, NEW n \in {1, Fronts}, Send(Config[i], n)
  PROVE  OrdersInv' /\ TableInv' /\ LookInv' /\ AnswerInv'
<1> DEFINE o == [ref |-> g_requestID, n |-> n, stock |-> Config[i],
                 UserLocalID |-> g_maxUserLocalID + g_requestID]
           m == Len(orders)
<1>1. /\ orders' = Append(orders, o) /\ g_requestID' = g_requestID + n /\ sender' = "sent"
      /\ UNCHANGED <<g_orderRefLut, recorded, looking, answer>>
      /\ started /\ sender = "idle"
  BY DEF Send
<1>2. /\ n \in Nat \ {0} /\ Config[i] \in Code /\ SessionMax \in Nat
      /\ g_requestID \in Nat /\ g_requestID >= 2
  BY FrontsAssumption, SessionAssumption DEF Code, OrderInv, OrdersInv
<1>3. g_maxUserLocalID = SessionMax
  BY <1>1 DEF OrderInv, SessionInv
<1>4. /\ o \in Order /\ o.ref = g_requestID /\ o.n = n
      /\ o.UserLocalID = SessionMax + g_requestID
  BY <1>2, <1>3 DEF Order
<1>5. OrdersInv
  BY DEF OrderInv
<1> HIDE DEF o
<1>6. /\ orders' \in Seq(Order) /\ Len(orders') = m + 1 /\ m \in Nat
      /\ \A k \in 1 .. m : orders'[k] = orders[k]
      /\ orders'[m + 1] = o
  BY <1>1, <1>4, <1>5, AppendProperties, LenProperties DEF OrdersInv
<1> HIDE DEF m
<1>7. 1 .. m + 1 = (1 .. m) \cup {m + 1} /\ m = Len(orders)
  BY <1>6 DEF m
<1>8. \A k \in 1 .. m : orders[k].ref \in Nat /\ orders[k].n \in Nat \ {0}
  <2>1. \A k \in 1 .. m : orders[k] \in Order
    BY <1>5, <1>7, ElementOfSeq DEF OrdersInv
  <2> QED
    BY <2>1 DEF Order
<1>9. OrdersInv'
  <2>1. ASSUME NEW k \in 1 .. m + 1
        PROVE  /\ orders'[k].ref >= 2 /\ orders'[k].ref + orders'[k].n <= g_requestID'
               /\ orders'[k].UserLocalID = SessionMax + orders'[k].ref
    <3>1. CASE k \in 1 .. m
      BY <1>1, <1>2, <1>5, <1>6, <1>7, <1>8, <3>1 DEF OrdersInv
    <3>2. CASE k = m + 1
      BY <1>1, <1>2, <1>4, <1>6, <3>2
    <3> QED
      BY <1>7, <3>1, <3>2
  <2>2. ASSUME NEW j \in 1 .. m + 1, NEW k \in 1 .. m + 1, j < k
        PROVE  orders'[j].ref + orders'[j].n <= orders'[k].ref
    <3>1. j \in 1 .. m
      BY <1>6, <2>2
    <3>2. CASE k \in 1 .. m
      BY <1>5, <1>6, <1>7, <2>2, <3>1, <3>2 DEF OrdersInv
    <3>3. CASE k = m + 1
      BY <1>4, <1>5, <1>6, <1>7, <3>1, <3>3 DEF OrdersInv
    <3> QED
      BY <1>7, <3>2, <3>3
  <2>3. g_requestID' \in Nat /\ g_requestID' >= 2
    BY <1>1, <1>2
  <2> QED
    BY <1>6, <2>1, <2>2, <2>3 DEF OrdersInv
<1>10. ASSUME NEW k, NEW r, Holds(k, r)
       PROVE  Holds(k, r)' /\ k \in 1 .. m + 1
  BY <1>1, <1>6, <1>7, <1>10 DEF Holds
<1>11. TableInv'
  <2>1. ASSUME NEW r \in DOMAIN g_orderRefLut
        PROVE  /\ r \in Nat /\ r < g_requestID' /\ r <= orders'[m + 1].ref
               /\ g_orderRefLut[r] = -1 \/ \E k \in 1 .. m + 1 : Holds(k, r)'
    <3>1. r \in Nat /\ r < g_requestID
      BY <2>1 DEF OrderInv, TableInv
    <3>2. r < g_requestID' /\ r <= orders'[m + 1].ref
      BY <1>1, <1>2, <1>4, <1>6, <3>1
    <3>3. g_orderRefLut[r] = -1 \/ \E k \in 1 .. m : Holds(k, r)
      BY <1>7, <2>1 DEF OrderInv, TableInv
    <3> QED
      BY <1>10, <3>1, <3>2, <3>3
  <2>2. \A r \in recorded : \E k \in 1 .. m + 1 : Holds(k, r)'
    BY <1>10 DEF OrderInv, TableInv
  <2> QED
    BY <1>1, <1>6, <2>1, <2>2 DEF TableInv
<1>12. LookInv'
  BY <1>1, <1>6, <1>7 DEF OrderInv, LookInv
<1>13. AnswerInv'
  BY <1>1, <1>6, <1>7 DEF OrderInv, AnswerInv
<1> QED
  BY <1>9, <1>11, <1>12, <1>13

\* The table is about to grow.
LEMMA ResizeStep ==
  ASSUME OrderInv, Resize
  PROVE  OrdersInv' /\ TableInv' /\ LookInv' /\ AnswerInv'
<1>1. /\ sender = "sent" /\ sender' = "resizing"
      /\ UNCHANGED <<g_requestID, orders, g_orderRefLut, recorded, answer>>
      /\ looking' = IF looking = Nothing THEN Nothing ELSE [looking EXCEPT !.torn = TRUE]
  BY DEF Resize
<1>2. OrdersInv' /\ AnswerInv'
  BY <1>1 DEF OrderInv, OrdersInv, AnswerInv
<1>3. TableInv'
  BY <1>1 DEF OrderInv, TableInv, Holds
<1>4. LookInv'
  <2>1. CASE looking = Nothing
    BY <1>1, <2>1 DEF LookInv
  <2>2. CASE looking # Nothing
    <3>1. looking'.order = looking.order /\ looking'.ref = looking.ref /\ looking'.found = looking.found
      BY <1>1, <2>2
    <3> QED
      BY <1>1, <2>2, <3>1 DEF OrderInv, LookInv
  <2> QED
    BY <2>1, <2>2
<1> QED
  BY <1>2, <1>3, <1>4

\* The entry of the order is stored.
LEMMA StoreStep ==
  ASSUME OrderInv, Store
  PROVE  OrdersInv' /\ TableInv' /\ LookInv' /\ AnswerInv'
<1> DEFINE m == Len(orders)
           o == orders[m]
<1>1. /\ sender = "resizing" /\ sender' = "idle"
      /\ UNCHANGED <<g_requestID, orders, looking, answer>>
      /\ g_orderRefLut' = Grown(g_orderRefLut, o.ref, o.stock)
      /\ recorded' = recorded \cup {o.ref}
  BY DEF Store, Current
<1>2. OrdersInv /\ TableInv /\ m \in Nat /\ m > 0
  BY <1>1, LenProperties DEF OrderInv, OrdersInv, TableInv
<1>3. /\ m \in 1 .. m /\ o.ref \in Nat /\ o.n \in Nat \ {0} /\ o.ref + o.n <= g_requestID
      /\ g_requestID \in Nat
  <2>1. m \in 1 .. m
    BY <1>2
  <2>2. o \in Order
    BY <1>2, <2>1, ElementOfSeq DEF OrdersInv
  <2> QED
    BY <1>2, <2>1, <2>2 DEF OrdersInv, Order
<1> HIDE DEF m, o
<1>4. /\ DOMAIN g_orderRefLut' = 0 .. o.ref
      /\ \A r \in 0 .. o.ref :
           g_orderRefLut'[r] = IF r = o.ref THEN o.stock
                               ELSE IF r \in DOMAIN g_orderRefLut THEN g_orderRefLut[r] ELSE -1
  BY <1>1 DEF Grown
\* The table never gets shorter.
<1>5. \A r \in DOMAIN g_orderRefLut : r \in 0 .. o.ref
  BY <1>1, <1>2, <1>3 DEF TableInv, o, m
<1>6. ASSUME NEW r, r = o.ref
      PROVE  \E l \in 1 .. Len(orders) : Holds(l, r)'
  <2>1. PICK l \in 1 .. Len(orders) : l = m
    BY <1>3 DEF m
  <2>2. r \in 0 .. o.ref /\ orders[l] = o
    BY <1>3, <1>6, <2>1 DEF o
  <2>3. Holds(l, r)'
    BY <1>1, <1>4, <1>6, <2>1, <2>2 DEF Holds
  <2> QED
    BY <2>3
<1>7. ASSUME NEW k, NEW r, Holds(k, r)
      PROVE  \E l \in 1 .. Len(orders) : Holds(l, r)'
  <2>1. CASE r = o.ref
    BY <1>6, <2>1
  <2>2. CASE r # o.ref
    BY <1>1, <1>4, <1>5, <1>7, <2>2 DEF Holds
  <2> QED
    BY <2>1, <2>2
<1>8. ASSUME NEW r \in 0 .. o.ref
      PROVE  /\ r \in Nat /\ r < g_requestID'
             /\ g_orderRefLut'[r] = -1 \/ \E k \in 1 .. Len(orders) : Holds(k, r)'
  <2>1. r \in Nat /\ r < g_requestID'
    BY <1>1, <1>3
  <2>2. CASE r = o.ref
    BY <1>6, <2>1, <2>2
  <2>3. CASE r # o.ref /\ r \in DOMAIN g_orderRefLut
    BY <1>2, <1>4, <1>7, <2>1, <2>3 DEF TableInv
  <2>4. CASE r # o.ref /\ r \notin DOMAIN g_orderRefLut
    BY <1>4, <2>1, <2>4
  <2> QED
    BY <2>2, <2>3, <2>4
<1>9. \A r \in recorded' : \E k \in 1 .. Len(orders) : Holds(k, r)'
  BY <1>1, <1>2, <1>6, <1>7 DEF TableInv
<1>10. TableInv'
  BY <1>1, <1>4, <1>8, <1>9 DEF TableInv
<1>11. OrdersInv' /\ AnswerInv'
  BY <1>1 DEF OrderInv, OrdersInv, AnswerInv
<1>12. LookInv'
  BY <1>1 DEF OrderInv, LookInv
<1> QED
  BY <1>10, <1>11, <1>12

\* A look-up begins.
LEMMA LookupStep ==
  ASSUME OrderInv, NEW k \in DOMAIN orders, NEW ref \in 2 .. MaxRequest, Lookup(k, ref)
  PROVE  LookInv' /\ UNCHANGED <<sendVars, answer>>
<1>1. /\ looking' = [ref |-> ref, order |-> k, torn |-> sender = "resizing",
                     found |-> ref \in recorded]
      /\ UNCHANGED <<sendVars, answer>> /\ UNCHANGED <<orders, recorded>>
      /\ ref \in orders[k].ref .. orders[k].ref + orders[k].n - 1
  BY DEF Lookup, sendVars
<1>2. looking'.ref = ref /\ looking'.order = k /\ (looking'.found <=> ref \in recorded)
  BY <1>1
<1>3. k \in 1 .. Len(orders) /\ orders[k] \in Order
  BY LenProperties, ElementOfSeq DEF OrderInv, OrdersInv
<1>4. orders[k].ref <= ref /\ ref < orders[k].ref + orders[k].n /\ ref \in Nat
  BY <1>1, <1>3, SessionAssumption DEF Order
<1> QED
  BY <1>1, <1>2, <1>3, <1>4 DEF LookInv

\* The request of a look-up belongs to its order and to no other, and what the
\* table has at it is the stock of an order that begins there.
LEMMA AnswerStep ==
  ASSUME OrderInv, handleRspOrder
  PROVE  AnswerInv' /\ LookInv' /\ UNCHANGED sendVars
<1>1. PICK u \in IF looking.torn THEN AnyCode ELSE {orderRefLookup(looking.ref)} :
        answer' = [ref |-> looking.ref, order |-> looking.order, torn |-> looking.torn,
                   found |-> looking.found, id |-> stockId(u)]
  BY DEF handleRspOrder
<1>2. looking # Nothing /\ looking' = Nothing /\ UNCHANGED sendVars /\ UNCHANGED orders
  BY DEF handleRspOrder, sendVars
<1> DEFINE k == looking.order
           r == looking.ref
<1>3. /\ k \in 1 .. Len(orders) /\ r \in Nat
      /\ orders[k].ref <= r /\ r < orders[k].ref + orders[k].n
      /\ looking.found => r \in recorded
  BY <1>2 DEF OrderInv, LookInv
<1>4. /\ answer'.order = k /\ (answer'.torn = looking.torn) /\ (answer'.found = looking.found)
      /\ answer'.id = stockId(u)
  BY <1>1
<1> HIDE DEF k, r
<1>5. \A l \in 1 .. Len(orders) : orders[l] \in Order
  BY ElementOfSeq DEF OrderInv, OrdersInv
<1>0. \A i, j \in 1 .. Len(orders) : i < j => orders[i].ref + orders[i].n <= orders[j].ref
  BY DEF OrderInv, OrdersInv
<1>6. ASSUME NEW l, Holds(l, r) PROVE l = k
  <2>1. l \in 1 .. Len(orders) /\ orders[l].ref = r
    BY <1>6 DEF Holds
  <2>2. orders[l].ref \in Nat /\ orders[l].n \in Nat \ {0} /\ orders[k].ref \in Nat
        /\ orders[k].n \in Nat \ {0}
    BY <1>3, <1>5, <2>1 DEF Order
  <2>3. ~(l < k)
    BY <1>0, <1>3, <2>1, <2>2
  <2>4. ~(k < l)
    BY <1>0, <1>3, <2>1, <2>2
  <2> QED
    BY <1>3, <2>1, <2>3, <2>4
<1>7. ASSUME ~looking.torn
      PROVE  /\ answer'.id = -1 \/ Config[answer'.id] = orders[k].stock
             /\ looking.found => answer'.id # -1
  <2>1. u = orderRefLookup(r)
    BY <1>1, <1>7 DEF r
  <2>2. CASE r \in DOMAIN g_orderRefLut /\ \E l \in 1 .. Len(orders) : Holds(l, r)
    <3>1. Holds(k, r)
      BY <1>6, <2>2
    <3>2. u = orders[k].stock /\ u \in Code
      BY <1>3, <1>5, <2>1, <2>2, <3>1 DEF Holds, orderRefLookup, Order
    <3>3. stockId(u) \in DOMAIN Config /\ Config[stockId(u)] = u
      BY <3>2, FoundIsOwn
    <3>4. stockId(u) # -1
      BY <3>3, CodesInRange
    <3> QED
      BY <1>4, <3>2, <3>3, <3>4
  <2>3. CASE ~\E l \in 1 .. Len(orders) : Holds(l, r)
    <3>1. r \in DOMAIN g_orderRefLut => g_orderRefLut[r] = -1
      BY <2>3 DEF OrderInv, TableInv
    <3>2. u = -1
      BY <2>1, <3>1 DEF orderRefLookup
    <3>3. ~looking.found
      BY <1>3, <2>3 DEF OrderInv, TableInv
    <3> QED
      BY <1>4, <3>2, <3>3, NoCodeNowhere
  <2>4. (\E l \in 1 .. Len(orders) : Holds(l, r)) => r \in DOMAIN g_orderRefLut
    BY DEF Holds
  <2> QED
    BY <2>2, <2>3, <2>4
<1>8. AnswerInv'
  BY <1>2, <1>3, <1>4, <1>7 DEF AnswerInv
<1> QED
  BY <1>2, <1>8 DEF LookInv

\* Every step keeps the invariant.
LEMMA StepOrder == OrderInv /\ [Next]_vars => OrderInv'
<1> SUFFICES ASSUME OrderInv, [Next]_vars PROVE OrdersInv' /\ TableInv' /\ LookInv' /\ AnswerInv'
  BY SessionStep DEF OrderInv
<1>1. CASE onRspLoginManager \/ onRspLogin \/ onRspLoginCounter \/ onRspInitTrader \/ Started
           \/ UNCHANGED vars
  <2>1. UNCHANGED <<sendVars, looking, answer>>
    BY <1>1 DEF onRspLoginManager, onRspLogin, onRspLoginCounter, onRspInitTrader, Started, vars
  <2> QED
    BY <2>1, SameOrders
<1>2. ASSUME NEW i \in DOMAIN Config, NEW n \in {1, Fronts}, Send(Config[i], n)
      PROVE  OrdersInv' /\ TableInv' /\ LookInv' /\ AnswerInv'
  BY <1>2, SendStep
<1>3. CASE Resize
  BY <1>3, ResizeStep
<1>4. CASE Store
  BY <1>4, StoreStep
<1>5. ASSUME NEW k \in DOMAIN orders, NEW ref \in 2 .. MaxRequest, Lookup(k, ref)
      PROVE  OrdersInv' /\ TableInv' /\ LookInv' /\ AnswerInv'
  BY <1>5, LookupStep, SameOrders
<1>6. CASE handleRspOrder
  BY <1>6, AnswerStep, SameOrders
<1> QED
  BY <1>1, <1>2, <1>3, <1>4, <1>5, <1>6 DEF Next

\* OrderInv is an invariant.
LEMMA OrderHolds == Spec => []OrderInv
BY InitOrder, StepOrder, PTL DEF Spec

\* An answer goes to the stock of its order or nowhere, unless its look-up
\* overlapped with a resize.
THEOREM AnswerHolds == Spec => []AnswerToOwnStock
<1>1. OrderInv => AnswerToOwnStock
  BY DEF OrderInv, AnswerInv, AnswerToOwnStock
<1> QED
  BY OrderHolds, <1>1, PTL

\* Once an order is recorded its answers are not dropped.
THEOREM FoundHolds == Spec => []FoundOnceRecorded
<1>1. OrderInv => FoundOnceRecorded
  BY DEF OrderInv, AnswerInv, FoundOnceRecorded
<1> QED
  BY OrderHolds, <1>1, PTL

\* The local numbers of the orders grow, past those of the earlier sessions.
THEOREM FreshHolds == Spec => []LocalIdsFresh
<1>1. OrderInv => LocalIdsFresh
  <2> SUFFICES ASSUME OrderInv, NEW k \in DOMAIN orders
               PROVE  /\ orders[k].UserLocalID > SessionMax
                      /\ k > 1 => orders[k].UserLocalID >= orders[k - 1].UserLocalID + orders[k - 1].n
    BY DEF LocalIdsFresh
  <2>1. OrdersInv /\ k \in 1 .. Len(orders) /\ SessionMax \in Nat
    BY LenProperties, SessionAssumption DEF OrderInv, OrdersInv
  <2>2. \A l \in 1 .. Len(orders) : orders[l].ref \in Nat /\ orders[l].n \in Nat
    <3>1. \A l \in 1 .. Len(orders) : orders[l] \in Order
      BY <2>1, ElementOfSeq DEF OrdersInv
    <3> QED
      BY <3>1 DEF Order
  <2>3. orders[k].UserLocalID > SessionMax
    BY <2>1, <2>2 DEF OrdersInv
  <2>4. ASSUME k > 1 PROVE orders[k].UserLocalID >= orders[k - 1].UserLocalID + orders[k - 1].n
    <3>1. k - 1 \in 1 .. Len(orders) /\ k - 1 < k
      BY <2>1, <2>4
    <3>2. orders[k - 1].ref + orders[k - 1].n <= orders[k].ref
      BY <2>1, <3>1 DEF OrdersInv
    <3>3. /\ orders[k].UserLocalID = SessionMax + orders[k].ref
          /\ orders[k - 1].UserLocalID = SessionMax + orders[k - 1].ref
      BY <2>1, <3>1 DEF OrdersInv
    <3>4. /\ orders[k].ref \in Nat /\ orders[k - 1].ref \in Nat
          /\ orders[k - 1].n \in Nat /\ SessionMax \in Nat
      BY <2>1, <2>2, <3>1
    <3> QED
      BY <3>2, <3>3, <3>4
  <2> QED
    BY <2>3, <2>4
<1> QED
  BY OrderHolds, <1>1, PTL
=============================================================================
