------------------------------ MODULE MCChannel ------------------------------
(***************************************************************************)
(* The stocks of the channel are interchangeable.                          *)
(***************************************************************************)
EXTENDS Channel, TLC

StockSymmetry == Permutations(Stock)

=============================================================================
