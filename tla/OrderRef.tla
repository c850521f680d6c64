------------------------------- MODULE OrderRef -------------------------------
(***************************************************************************)
(* Orders and their answers in the live builds (OES_xele.cpp, OES_ost.cpp, *)
(* OrderRefLut.h).  An answer names the request only; a table that grows   *)
(* with the requests leads from the request to the stock.                  *)
(*                                                                         *)
(*  - The thread of the trade api runs the callbacks: first the logins,    *)
(*    then the answers.                                                    *)
(*  - main waits for the logins (MDD::start), then the market data starts. *)
(*  - The market data thread sends an order and records it in the table,   *)
(*    in this order, with no lock.                                         *)
(*                                                                         *)
(* The session is that of Xele, which also numbers the orders by           *)
(* UserLocalID; in the OST build one flag takes the place of three, and    *)
(* only sendReqOrder exists.  The api is external: callbacks come one at   *)
(* a time, the logins in the order of the connections, and an answer may   *)
(* name any request of a batch, any number of times.                       *)
(***************************************************************************)
EXTENDS StockIndex

CONSTANTS
  Stray,        \* a value that is nobody's code
  Fronts,       \* kExchangeFronts.size(): the orders in a batch
  SessionMax,   \* MaxUserLocalID of the login: used in an earlier session
  MaxRequest    \* bound: the last request number

ASSUME StrayAssumption == Stray \in Int /\ \A i \in DOMAIN Config : Config[i] # Stray
ASSUME FrontsAssumption == Fronts \in Nat \ {0}
ASSUME SessionAssumption == SessionMax \in Nat /\ MaxRequest \in Nat

VARIABLES
  api,               \* the callback the api runs next, "answers" after the logins
  flags,             \* canFundTransfer, canQuery, canOrder: those that are set
  g_maxUserLocalID,
  started,           \* main has seen OES::isStarted
  g_requestID,       \* the next request number
  sender,            \* the sending thread: "idle", "sent", "resizing"
  orders,            \* ghost: the orders sent, in their order
  g_orderRefLut,     \* the table, by request number
  recorded,          \* ghost: the requests whose store is complete
  looking,           \* the look-up in progress, or none
  answer             \* where the last answer went, or none

sessionVars == <<api, flags, g_maxUserLocalID, started>>
sendVars == <<g_requestID, sender, orders, g_orderRefLut, recorded>>
vars == <<sessionVars, sendVars, looking, answer>>

Nothing == [ref |-> 0]

\* The login has taken request number 1.
Init ==
  /\ api = "manager" /\ flags = {} /\ g_maxUserLocalID = 0 /\ started = FALSE
  /\ g_requestID = 2 /\ sender = "idle" /\ orders = <<>>
  /\ g_orderRefLut = <<>> /\ recorded = {}
  /\ looking = Nothing /\ answer = Nothing

-----------------------------------------------------------------------------
(***************************************************************************)
(* The logins, and main's wait.  A login that fails sets nothing, and the  *)
(* program waits on.                                                       *)
(***************************************************************************)
onRspLoginManager ==
  /\ api = "manager"
  /\ flags' = flags \cup {"canFundTransfer"} /\ api' = "login"
  /\ UNCHANGED <<g_maxUserLocalID, started, sendVars, looking, answer>>

\* The flag is set before the number it stands for.
onRspLogin ==
  /\ api = "login"
  /\ flags' = flags \cup {"canQuery"} /\ api' = "counter"
  /\ UNCHANGED <<g_maxUserLocalID, started, sendVars, looking, answer>>

onRspLoginCounter ==
  /\ api = "counter"
  /\ g_maxUserLocalID' = SessionMax /\ api' = "trader"
  /\ UNCHANGED <<flags, started, sendVars, looking, answer>>

onRspInitTrader ==
  /\ api = "trader"
  /\ flags' = flags \cup {"canOrder"} /\ api' = "answers"
  /\ UNCHANGED <<g_maxUserLocalID, started, sendVars, looking, answer>>

\* Mutant of isStarted: it does not wait for the order link.
isStartedEarly == {"canQuery", "canFundTransfer"} \subseteq flags

isStarted == {"canOrder", "canQuery", "canFundTransfer"} \subseteq flags

Started ==
  /\ ~started /\ isStarted
  /\ started' = TRUE
  /\ UNCHANGED <<api, flags, g_maxUserLocalID, sendVars, looking, answer>>

-----------------------------------------------------------------------------
(***************************************************************************)
(* The sending thread: sendReqOrder (one order), sendReqOrderBatch (an     *)
(* order to each front).                                                   *)
(***************************************************************************)
\* From here on an answer may come.
Send(stock, n) ==
  /\ started /\ sender = "idle" /\ g_requestID + n - 1 <= MaxRequest
  /\ orders' = Append(orders, [ref |-> g_requestID, n |-> n, stock |-> stock,
                               UserLocalID |-> g_maxUserLocalID + g_requestID])
  /\ g_requestID' = g_requestID + n
  /\ sender' = "sent"
  /\ UNCHANGED <<sessionVars, g_orderRefLut, recorded, looking, answer>>

Current == orders[Len(orders)]

\* setOrderRef: request numbers grow, so each is beyond the end and the
\* vector is resized, which may move it.  A look-up that overlaps with that
\* may read anything.
Resize ==
  /\ sender = "sent"
  /\ sender' = "resizing"
  /\ looking' = IF looking = Nothing THEN Nothing ELSE [looking EXCEPT !.torn = TRUE]
  /\ UNCHANGED <<sessionVars, g_requestID, orders, g_orderRefLut, recorded, answer>>

\* Mutant of Grown: the new entries are filled with the stock.
GrownFilled(lut, ref, stock) ==
  [r \in 0 .. ref |-> IF r \in DOMAIN lut THEN lut[r] ELSE stock]

Grown(lut, ref, stock) ==
  [r \in 0 .. ref |-> IF r = ref THEN stock ELSE IF r \in DOMAIN lut THEN lut[r] ELSE -1]

Store ==
  /\ sender = "resizing"
  /\ g_orderRefLut' = Grown(g_orderRefLut, Current.ref, Current.stock)
  /\ recorded' = recorded \cup {Current.ref}
  /\ sender' = "idle"
  /\ UNCHANGED <<sessionVars, g_requestID, orders, looking, answer>>

-----------------------------------------------------------------------------
(***************************************************************************)
(* The thread of the api: an answer to a request, or to part of a batch.   *)
(* All ten callbacks look the request up and call MDD::handleRspOrder,     *)
(* where StockState::onRspOrder logs the answer.                           *)
(***************************************************************************)
Lookup(k, ref) ==
  /\ api = "answers" /\ looking = Nothing
  /\ ref \in orders[k].ref .. orders[k].ref + orders[k].n - 1
  /\ looking' = [ref |-> ref, order |-> k, torn |-> sender = "resizing",
                 found |-> ref \in recorded]
  /\ UNCHANGED <<sessionVars, sendVars, answer>>

\* Mutant of orderRefLookup: the last entry is taken for the end.
orderRefLookupShort(ref) ==
  IF ref + 1 \in DOMAIN g_orderRefLut THEN g_orderRefLut[ref] ELSE -1

orderRefLookup(ref) == IF ref \in DOMAIN g_orderRefLut THEN g_orderRefLut[ref] ELSE -1

AnyCode == {Config[i] : i \in DOMAIN Config} \cup {-1, Stray}

handleRspOrder ==
  /\ looking # Nothing
  /\ \E userLocalID \in IF looking.torn THEN AnyCode ELSE {orderRefLookup(looking.ref)} :
       answer' = [ref |-> looking.ref, order |-> looking.order, torn |-> looking.torn,
                  found |-> looking.found, id |-> stockId(userLocalID)]
  /\ looking' = Nothing
  /\ UNCHANGED <<sessionVars, sendVars>>

Next ==
  \/ onRspLoginManager \/ onRspLogin \/ onRspLoginCounter \/ onRspInitTrader
  \/ Started
  \/ \E i \in DOMAIN Config, n \in {1, Fronts} : Send(Config[i], n)
  \/ Resize \/ Store
  \/ \E k \in DOMAIN orders, ref \in 2 .. MaxRequest : Lookup(k, ref)
  \/ handleRspOrder

Spec == Init /\ [][Next]_vars

-----------------------------------------------------------------------------
(***************************************************************************)
(* An answer whose look-up did not overlap with a resize goes to the stock *)
(* of its order or nowhere, although it may come before the order is       *)
(* recorded and may name a request that never is.                          *)
(***************************************************************************)
AnswerToOwnStock ==
  answer # Nothing /\ ~answer.torn =>
    answer.id = -1 \/ Config[answer.id] = orders[answer.order].stock

(***************************************************************************)
(* An answer that comes after the order is recorded is not dropped.        *)
(***************************************************************************)
FoundOnceRecorded ==
  answer # Nothing /\ ~answer.torn /\ answer.found => answer.id # -1

(***************************************************************************)
(* No two orders have one UserLocalID, and none has one of an earlier      *)
(* session, although the flags that main waits for include one set before  *)
(* the number is known.                                                    *)
(***************************************************************************)
LocalIdsFresh ==
  \A k \in DOMAIN orders :
    /\ orders[k].UserLocalID > SessionMax
    /\ k > 1 => orders[k].UserLocalID >= orders[k - 1].UserLocalID + orders[k - 1].n
=============================================================================
