------------------------------ MODULE MCOrder -------------------------------
(* Instances of Order for the model checker. *)
EXTENDS Order

CONSTANTS p1, p2, p3, inv1, inv2

\* p1 is only banded, p2 is banded and then worked on, p3 is only worked on.
ThreePieces == {p1, p2, p3}
BandedPieces == {p1, p2}
WorkedPieces == {p2, p3}
OnePiece == {p1}
TwoInvoices == {inv1, inv2}
=============================================================================
