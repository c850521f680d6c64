----------------------------- MODULE MCOstSession -----------------------------
(***************************************************************************)
(* OstSession for the SZ market.  The codes 1 and 2 are on both exchanges, *)
(* and 2 has no limit price on its own; 3 has none and is on one exchange; *)
(* 4 is there alone.  600000 is not in the daily file.                     *)
(***************************************************************************)
EXTENDS OstSession

MCListed == [SSE |-> {1, 2, 600000}, SZSE |-> {1, 2, 3, 4}]

MCUpperLimit == [SSE  |-> [c \in MCListed.SSE |-> 9],
                 SZSE |-> [c \in MCListed.SZSE |-> IF c \in {2, 3} THEN 0 ELSE c]]
=============================================================================
