---------------------------- MODULE MCPrintQueue ----------------------------
(* Instances of PrintQueue: two PCs in one shop. *)
EXTENDS PrintQueue, TLC

CONSTANTS a1, a2, b1

TwoAgents == {a1, a2}
SameShop == a1 :> b1 @@ a2 :> b1
=============================================================================
