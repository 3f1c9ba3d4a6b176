----------------------------- MODULE FrontDesk ------------------------------
(***************************************************************************)
(* The desk and what it answers, side by side: the orders of OrderDesk, the *)
(* quotes that become orders and the sales reports that add them up. The    *)
(* behaviour is about one of them, chosen at the start, and the others rest. *)
(***************************************************************************)
EXTENDS OrderDesk, SalesReports, Quote

VARIABLE focus

frontVars == <<focus, vars, salesVars, quoteVars>>

FrontDeskInit ==
    /\ focus \in {"orders", "sales", "quotes"}
    /\ Init /\ SalesInit /\ QuoteInit

FrontDeskNext ==
    /\ UNCHANGED focus
    /\ \/ focus = "orders" /\ Next /\ UNCHANGED <<salesVars, quoteVars>>
       \/ focus = "sales" /\ SalesNext /\ UNCHANGED <<vars, quoteVars>>
       \/ focus = "quotes" /\ QuoteNext /\ UNCHANGED <<vars, salesVars>>

FrontDeskSpec == FrontDeskInit /\ [][FrontDeskNext]_frontVars

\* What a client is told and what an order freezes is the plan of what the request
\* read, billed sheet by sheet, whatever the cache held and staff edited in between;
\* and what the sales reports add up of the orders agrees across branches, sellers and
\* days while the office goes on collecting, voiding, cancelling and moving them.
MoneyAddsUp ==
    /\ focus = "quotes" => QuoteTyped /\ QuotesAgree
    /\ focus = "sales" => SalesTyped /\ SalesAgree
=============================================================================
