-------------------------- MODULE MCPreOrderReview --------------------------
(* Instances of PreOrderReview: how many requests are in flight at once. *)
EXTENDS PreOrderReview, TLC

CONSTANTS s1, s2

OneSession == {s1}

TwoSessions == {s1, s2}
SessionSymmetry == Permutations(Sessions)
=============================================================================
