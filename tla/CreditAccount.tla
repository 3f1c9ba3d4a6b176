--------------------------- MODULE CreditAccount ----------------------------
(***************************************************************************)
(* What an order promises about the money sold on credit: it is agreed     *)
(* once, it is collected down and never past zero, a voided payment gives  *)
(* back at most what was agreed, and a cancelled order owes nothing.       *)
(***************************************************************************)
EXTENDS Naturals

VARIABLES state, agreed, debt

vars == <<state, agreed, debt>>

Init == state = "unsold" /\ agreed = 0 /\ debt = 0

Sell ==
    /\ state = "unsold"
    /\ state' = "sold"
    /\ agreed' \in Nat
    /\ debt' = agreed'

Collect ==
    /\ state = "sold"
    /\ debt' \in 0..debt
    /\ UNCHANGED <<state, agreed>>

Reverse ==
    /\ state = "sold"
    /\ debt' \in debt..agreed
    /\ UNCHANGED <<state, agreed>>

WriteOff ==
    /\ state' = "void"
    /\ debt' = 0
    /\ UNCHANGED agreed

Next == Sell \/ Collect \/ Reverse \/ WriteOff

Spec == Init /\ [][Next]_vars

=============================================================================
