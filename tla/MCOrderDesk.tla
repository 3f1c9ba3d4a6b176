---------------------------- MODULE MCOrderDesk -----------------------------
(* Instances of OrderDesk: how many ask at once, and where. *)
EXTENDS OrderDesk, TLC

CONSTANTS c1, c2, here, there, q1, q2

TwoClients == {c1, c2}
OneBranch == {here}
TwoBranches == {here, there}
OneQuote == {q1}
TwoQuotes == {q1, q2}
DeskSymmetry ==
    Permutations(Branches) \union Permutations(Quotes) \union Permutations(Clients)
=============================================================================
