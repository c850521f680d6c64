------------------------------ MODULE OstSession ------------------------------
(***************************************************************************)
(* The start of the OST build: the login, the static data of the day, and  *)
(* what a stock takes from them (OES_ost.cpp, MDS_ost.cpp, MDD::start,     *)
(* StockState::onStatic).                                                  *)
(*                                                                         *)
(* The trade api runs the callbacks one at a time on a thread of its own;  *)
(* it answers the queries in the order in which they were sent, with the   *)
(* instruments of the exchange in any order or with an error.  It is       *)
(* external.  The program asks both exchanges, whatever market it is       *)
(* built for, and does not look at the exchange of an answer: codes such   *)
(* as 000001 exist on both.                                                *)
(***************************************************************************)
EXTENDS Naturals, Sequences

CONSTANTS
  Stock,       \* the stocks in the daily file
  Market,      \* the market the program is built for
  Listed,      \* the instruments of each exchange
  UpperLimit   \* the limit price of each instrument, 0 for none

Exchange == {"SSE", "SZSE"}

\* The statics of the own exchange have to be the last: SZ codes exist on both
\* exchanges, and SH codes on one.
ASSUME ListedAssumption ==
  /\ Market \in Exchange /\ Stock \subseteq Listed[Market]
  /\ Market = "SSE" => Stock \cap Listed["SZSE"] = {}
  /\ \A x \in Exchange : Listed[x] # {} /\ UpperLimit[x] \in [Listed[x] -> Nat]

VARIABLES
  api,          \* how far the callback of the login is: "login", "flagged",
                \* "identified", "asked", "done", or "failed"
  m_loginOK,
  identified,   \* m_frontID and m_sessionID are set
  queries,      \* the queries at the server, each with what it has still to send
  statics,      \* g_marketStatics
  g_staticOK,
  refused,      \* ghost: the server has answered with an error
  main,         \* "logging in", "waiting", "handing", "receiving"
  handed,       \* how many statics went to handleStatic
  limit,        \* upperLimitPrice10000 of each stock
  alive,        \* the stocks with StockState::alive
  anonymous     \* the stocks whose requests carry no identity

apiVars == <<api, m_loginOK, identified, queries, statics, g_staticOK, refused>>
stateVars == <<limit, alive, anonymous>>
vars == <<apiVars, main, handed, stateVars>>

Init ==
  /\ api = "login" /\ m_loginOK = FALSE /\ identified = FALSE
  /\ queries = <<>> /\ statics = <<>> /\ g_staticOK = 0 /\ refused = FALSE
  /\ main = "logging in" /\ handed = 0
  /\ limit = [s \in Stock |-> 0] /\ alive = {} /\ anonymous = {}

-----------------------------------------------------------------------------
(***************************************************************************)
(* The callbacks.  OnRspLogin takes four steps, main may run between them. *)
(***************************************************************************)
LoginOK ==
  /\ api = "login"
  /\ m_loginOK' = TRUE /\ api' = "flagged"
  /\ UNCHANGED <<identified, queries, statics, g_staticOK, refused, main, handed, stateVars>>

\* Mutant of Identify: the fields are left as they are.
IdentifyNot ==
  /\ api = "flagged"
  /\ api' = "identified"
  /\ UNCHANGED <<m_loginOK, identified, queries, statics, g_staticOK, refused, main, handed, stateVars>>

Identify ==
  /\ api = "flagged"
  /\ identified' = TRUE /\ api' = "identified"
  /\ UNCHANGED <<m_loginOK, queries, statics, g_staticOK, refused, main, handed, stateVars>>

\* Mutant of Asked: the other exchange first.
AskedSwapped == <<"SZSE", "SSE">>

Asked == <<"SSE", "SZSE">>

Ask(k) ==
  /\ api = <<"identified", "asked">>[k]
  /\ queries' = Append(queries, [exchange |-> Asked[k], left |-> Listed[Asked[k]]])
  /\ api' = <<"asked", "done">>[k]
  /\ UNCHANGED <<m_loginOK, identified, statics, g_staticOK, refused, main, handed, stateVars>>

\* An error, of the login or of a request: the callback returns.
Fail ==
  /\ api \in {"login", "identified", "asked"}
  /\ api' = "failed"
  /\ UNCHANGED <<m_loginOK, identified, queries, statics, g_staticOK, refused, main, handed, stateVars>>

\* Mutant of Counted: every answer counts.
CountedEach(left) == g_staticOK + 1

\* g_staticOK counts the last answer of each query.
Counted(left) == IF left = {} THEN g_staticOK + 1 ELSE g_staticOK

InLogin == api \in {"login", "flagged", "identified", "asked"}

OnRspQryDepthMarketData(c) ==
  /\ ~InLogin /\ queries # <<>> /\ c \in Head(queries).left
  /\ statics' = Append(statics, [exchange |-> Head(queries).exchange, code |-> c])
  /\ LET left == Head(queries).left \ {c}
     IN  /\ g_staticOK' = Counted(left)
         /\ queries' = IF left = {} THEN Tail(queries)
                       ELSE <<[Head(queries) EXCEPT !.left = left]>> \o Tail(queries)
  /\ UNCHANGED <<api, m_loginOK, identified, refused, main, handed, stateVars>>

\* Instead of the statics of an exchange: logged, and not counted.
OnRspQryError ==
  /\ ~InLogin /\ queries # <<>>
  /\ Head(queries).left = Listed[Head(queries).exchange]
  /\ refused' = TRUE
  /\ queries' = Tail(queries)
  /\ UNCHANGED <<api, m_loginOK, identified, statics, g_staticOK, main, handed, stateVars>>

Callback ==
  \/ LoginOK \/ Identify \/ Ask(1) \/ Ask(2) \/ Fail
  \/ \E c \in Listed["SSE"] \cup Listed["SZSE"] : OnRspQryDepthMarketData(c)
  \/ OnRspQryError

-----------------------------------------------------------------------------
(***************************************************************************)
(* main.                                                                   *)
(***************************************************************************)
\* MDD::start waits for OES::isStarted.
IsStarted ==
  /\ main = "logging in" /\ m_loginOK
  /\ main' = "waiting"
  /\ UNCHANGED <<apiVars, handed, stateVars>>

\* Mutants of StaticsReady: one answer is enough; two are not.
StaticsReadyOne == g_staticOK >= 1
StaticsReadyMore == g_staticOK > 2

StaticsReady == g_staticOK >= 2

\* OES::getDepthMarketData spins.
GetDepthMarketData ==
  /\ main = "waiting" /\ StaticsReady
  /\ main' = "handing"
  /\ UNCHANGED <<apiVars, handed, stateVars>>

\* MDD::handleStatic and StockState::onStatic, which sets the limit price
\* before it looks whether there is one, and without one leaves the rest as an
\* earlier answer for the same code has set it.
HandleStatic ==
  /\ main = "handing" /\ handed < Len(statics)
  /\ handed' = handed + 1
  /\ LET stat  == statics[handed + 1]
         price == UpperLimit[stat.exchange][stat.code]
     IN  IF stat.code \in Stock
         THEN /\ limit' = [limit EXCEPT ![stat.code] = price]
              /\ alive' = IF price = 0 THEN alive ELSE alive \cup {stat.code}
              /\ anonymous' = IF price = 0 \/ identified THEN anonymous
                              ELSE anonymous \cup {stat.code}
         ELSE UNCHANGED stateVars
  /\ UNCHANGED <<apiVars, main>>

OstStart ==
  /\ main = "handing" /\ handed = Len(statics)
  /\ main' = "receiving"
  /\ UNCHANGED <<apiVars, handed, stateVars>>

Main == IsStarted \/ GetDepthMarketData \/ HandleStatic \/ OstStart

Next == Callback \/ Main

Spec == Init /\ [][Next]_vars

\* main never stops on its way; the server sends what was asked, or an error.
FairSpec == Spec /\ WF_vars(Main) /\ WF_vars(Callback)

-----------------------------------------------------------------------------
(***************************************************************************)
(* The cancel request of a stock carries the identity of the session,      *)
(* although the login flag that main waits for is set before it is known.  *)
(***************************************************************************)
IdentityKnown == anonymous = {}

(***************************************************************************)
(* Once the ticks flow every stock watches for the price of its own        *)
(* market, whatever else has its code.  It is alive if it has that price,  *)
(* and, though it has none, if the code has one on the other exchange: the *)
(* answer for its own market comes last but does not undo what the other   *)
(* one has prepared.  Any other stock is not alive.                        *)
(***************************************************************************)
Priced(s) == \E x \in Exchange : s \in Listed[x] /\ UpperLimit[x][s] > 0

OwnLimit ==
  main = "receiving" =>
    \A s \in Stock : /\ limit[s] = UpperLimit[Market][s]
                     /\ s \in alive <=> Priced(s)

(***************************************************************************)
(* The vector of statics is complete before main takes its address and     *)
(* length: no callback can move it while main walks it.                    *)
(***************************************************************************)
StaticsSettled ==
  main \in {"handing", "receiving"} => api = "done" /\ queries = <<>>

(***************************************************************************)
(* The start comes to an end unless something was refused.  (If so, main   *)
(* waits for ever.)                                                        *)
(***************************************************************************)
StartsIfAnswered == <>(main = "receiving" \/ api = "failed" \/ refused)
=============================================================================
