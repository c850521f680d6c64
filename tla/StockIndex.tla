------------------------------ MODULE StockIndex ------------------------------
(***************************************************************************)
(* From the code of a stock to its place in the arrays (MDD.cpp).  A table *)
(* of 8192 entries is indexed with the code less the base of the market;   *)
(* all codes for which that is out of range share the last entry.          *)
(***************************************************************************)
EXTENDS Integers, Sequences

CONSTANTS
  Base,     \* 600000 in the SH build, 0 in the SZ build
  Config    \* g_stockCodes: the codes in the daily file, in its order

\* What the comment in linearizeStockId lists, SH 600xxx to 605xxx and SZ
\* 000xxx to 003xxx, is in range and below the last entry.
ASSUME BaseAssumption == Base \in Nat
ASSUME ConfigAssumption ==
  /\ Config \in Seq(Nat)
  /\ \A i \in DOMAIN Config : Base <= Config[i] /\ Config[i] < Base + 8191

\* The subtraction is unsigned: a code below the base becomes a huge number.
linearizeStockId(stock) == IF 0 <= stock - Base /\ stock - Base < 8192 THEN stock - Base ELSE 8191

\* g_stockIdLut: of two codes with one entry the later one in the file stays.
\* No stock has -1; the others have their place in the file.
g_stockIdLut(u) ==
  LET same == {i \in DOMAIN Config : linearizeStockId(Config[i]) = u}
  IN  IF same = {} THEN -1 ELSE CHOOSE i \in same : \A j \in same : j <= i

\* How handleTick, handleRspOrder, handleSnap and handleStatic find a stock.
stockId(stock) == g_stockIdLut(linearizeStockId(stock))
=============================================================================
