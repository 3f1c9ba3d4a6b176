-------------------------------- MODULE Sums ---------------------------------
(* Adding up and putting in order: SUM and ORDER BY in the queries, sum() and *)
(* sorted() in the services.                                                  *)
EXTENDS FiniteSetsExt

\* What f is worth over the finite set S.
Total(f, S) == MapThenSumSet(LAMBDA x : f[x], S)

\* The numbers of S from the least up.
InOrder(S) ==
    [n \in 1..Cardinality(S) |-> CHOOSE i \in S : Cardinality({j \in S : j <= i}) = n]
=============================================================================
