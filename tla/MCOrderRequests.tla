-------------------------- MODULE MCOrderRequests ---------------------------
(* Instances of OrderRequests: which clients the shop floor has. *)
EXTENDS OrderRequests, TLC

CONSTANTS p1, p2, saw1, bench1, bench2, office

TwoPieces == {p1, p2}
Second == {p2}
TheSaw == {saw1}
TheBench == {bench1}
TwoBenches == {bench1, bench2}
TheOffice == {office}
FloorSymmetry == Permutations(Banders)
=============================================================================
