------------------------------ MODULE MCOrderRef ------------------------------
(***************************************************************************)
(* OrderRef with the lowest and the highest code of the SH market.         *)
(***************************************************************************)
EXTENDS OrderRef

MCConfig == <<600000, 605999, 603001>>
=============================================================================
