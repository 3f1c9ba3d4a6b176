---------------------------- MODULE SalesReports ----------------------------
(***************************************************************************)
(* The money half of performance.py: the sales of a range, the credit      *)
(* collected in it and what is owed today, as the branch comparison and    *)
(* the sellers' report read them off the orders while the office goes on   *)
(* collecting, cancelling, voiding and moving orders between branches.     *)
(* Cash and transfer are one amount received.                              *)
(***************************************************************************)
EXTENDS Integers, Sequences, Sums

CONSTANTS
    Sales,       \* the orders
    SoldBy,      \* orders.created_by
    Shops,       \* the branches
    Terms,       \* BOUND: what a sale may receive and leave owed, <<paid, credit>>
    MaxReceipts, \* BOUND: payment rows
    LastDay      \* BOUND: business days after the first

ASSUME SalesReportsAssumption ==
    /\ Terms \subseteq Nat \X Nat /\ IsFiniteSet(Terms) /\ Terms # {}
    /\ MaxReceipts \in Nat /\ LastDay \in Nat
    /\ DOMAIN SoldBy = Sales /\ IsFiniteSet(Sales) /\ IsFiniteSet(Shops)

VARIABLES
    date,      \* the business day
    standing,  \* orders.status: "confirmed", "queued", "in_process", "cancelled"
    shop,      \* orders.branch_id
    soldOn,    \* the day of orders.queued_at
    received,  \* payment_cash_amount + payment_transfer_amount
    owed,      \* payment_credit_amount
    receipts   \* order_payments: order, day of paid_at, amount, voided

salesVars == <<date, standing, shop, soldOn, received, owed, receipts>>

NotYet == -1
MostOwed == Max({t[2] : t \in Terms})
Sellers == {SoldBy[o] : o \in Sales}

\* collected_expr and credit_balance_expr.
Amounts == [i \in DOMAIN receipts |-> receipts[i].amount]
ReceiptsOf(o) == {i \in DOMAIN receipts : receipts[i].order = o /\ ~receipts[i].voided}
Collected(o) == Total(Amounts, ReceiptsOf(o))
CreditBalance(o) == IF standing[o] = "cancelled" THEN 0 ELSE owed[o] - Collected(o)
Balances == [o \in Sales |-> CreditBalance(o)]

-----------------------------------------------------------------------------
(* What the office does *)

\* The sale: the amounts are frozen on entering the queue.
SellOrder(o, paid, credit) ==
    /\ standing[o] = "confirmed"
    /\ standing' = [standing EXCEPT ![o] = "queued"]
    /\ soldOn' = [soldOn EXCEPT ![o] = date]
    /\ received' = [received EXCEPT ![o] = paid]
    /\ owed' = [owed EXCEPT ![o] = credit]
    /\ UNCHANGED <<date, shop, receipts>>

CancelSale(o) ==
    /\ standing[o] \in {"confirmed", "queued"}
    /\ standing' = [standing EXCEPT ![o] = "cancelled"]
    /\ UNCHANGED <<date, shop, soldOn, received, owed, receipts>>

\* The shop takes the order: it is neither cancelled nor moved any more.
TakeOrder(o) ==
    /\ standing[o] = "queued"
    /\ standing' = [standing EXCEPT ![o] = "in_process"]
    /\ UNCHANGED <<date, shop, soldOn, received, owed, receipts>>

MoveOrder(o, s) ==
    /\ standing[o] \in {"confirmed", "queued"} /\ shop[o] # s
    /\ shop' = [shop EXCEPT ![o] = s]
    /\ UNCHANGED <<date, standing, soldOn, received, owed, receipts>>

PayBack(o, amount) ==
    /\ standing[o] # "cancelled" /\ soldOn[o] # NotYet
    /\ amount \in 1..CreditBalance(o)
    /\ Len(receipts) < MaxReceipts
    /\ receipts' = Append(receipts, [order |-> o, day |-> date, amount |-> amount,
                                     voided |-> FALSE])
    /\ UNCHANGED <<date, standing, shop, soldOn, received, owed>>

Void(i) ==
    /\ ~receipts[i].voided
    /\ receipts' = [receipts EXCEPT ![i].voided = TRUE]
    /\ UNCHANGED <<date, standing, shop, soldOn, received, owed>>

Midnight ==
    /\ date < LastDay
    /\ date' = date + 1
    /\ UNCHANGED <<standing, shop, soldOn, received, owed, receipts>>

SalesInit ==
    /\ date = 0
    /\ standing = [o \in Sales |-> "confirmed"]
    /\ \E s \in Shops : shop = [o \in Sales |-> s]
    /\ soldOn = [o \in Sales |-> NotYet]
    /\ received = [o \in Sales |-> 0]
    /\ owed = [o \in Sales |-> 0]
    /\ receipts = <<>>

SalesNext ==
    \/ \E o \in Sales :
          \/ \E t \in Terms : SellOrder(o, t[1], t[2])
          \/ CancelSale(o) \/ TakeOrder(o)
          \/ \E s \in Shops : MoveOrder(o, s)
          \/ \E amount \in 1..MostOwed : PayBack(o, amount)
    \/ \E i \in DOMAIN receipts : Void(i)
    \/ Midnight

SalesSpec == SalesInit /\ [][SalesNext]_salesVars

-----------------------------------------------------------------------------
(* The reports; a range is the set of its days, s the branch or all of them *)

\* _sale_filters
SaleRows(range, s) ==
    {o \in Sales : soldOn[o] \in range /\ standing[o] # "cancelled" /\ shop[o] \in s}
\* _pending_filters: still to collect today.
PendingRows(s) == {o \in Sales : standing[o] = "confirmed" /\ shop[o] \in s}
\* Mistake: the money of a cancelled order goes on being collected.
StandingReceipts(range, s) ==
    {i \in DOMAIN receipts :
        receipts[i].day \in range /\ ~receipts[i].voided /\ shop[receipts[i].order] \in s}
\* _collection_filters
CollectionRows(range, s) ==
    {i \in DOMAIN receipts :
        /\ receipts[i].day \in range /\ ~receipts[i].voided
        /\ standing[receipts[i].order] # "cancelled" /\ shop[receipts[i].order] \in s}
\* _outstanding and has_balance
OutstandingRows(s) == {o \in Sales : CreditBalance(o) > 0 /\ shop[o] \in s}

\* _Sales: what the rows of the chosen orders and their receipts add to.
Figures(range, s, chosen) ==
    [received  |-> Total(received, SaleRows(range, s) \cap chosen),
     credit    |-> Total(owed, SaleRows(range, s) \cap chosen),
     paid      |-> Cardinality(SaleRows(range, s) \cap chosen),
     collected |-> Total(Amounts, {i \in CollectionRows(range, s) : receipts[i].order \in chosen}),
     owing     |-> Total(Balances, OutstandingRows(s) \cap chosen),
     pending   |-> Cardinality(PendingRows(s) \cap chosen)]

\* branch_comparison: a branch's row and the total; sellers: a seller's, of one
\* branch or of all.
BranchRow(range, s) == Figures(range, {s}, Sales)
TotalRow(range) == Figures(range, Shops, Sales)
SellerRow(range, s, u) == Figures(range, s, {o \in Sales : SoldBy[o] = u})

\* seller_orders: the sales behind a row, each with what it still owes.
SellerDetail(range, u) ==
    {[order |-> o, credit |-> owed[o], collected |-> Collected(o),
      balance |-> IF owed[o] > Collected(o) THEN owed[o] - Collected(o) ELSE 0] :
        o \in {p \in SaleRows(range, Shops) : SoldBy[p] = u}}

-----------------------------------------------------------------------------
(* Properties *)

SalesTyped ==
    /\ date \in 0..LastDay
    /\ standing \in [Sales -> {"confirmed", "queued", "in_process", "cancelled"}]
    /\ shop \in [Sales -> Shops]
    /\ soldOn \in [Sales -> {NotYet} \union 0..LastDay]
    /\ received \in [Sales -> Nat] /\ owed \in [Sales -> 0..MostOwed]
    /\ \A i \in DOMAIN receipts :
          /\ receipts[i].order \in Sales /\ receipts[i].day \in 0..LastDay
          /\ receipts[i].amount \in 1..MostOwed /\ receipts[i].voided \in BOOLEAN

AllDays == 0..LastDay
Columns == {"received", "credit", "paid", "collected", "owing", "pending"}

\* The branches' rows and the sellers' rows add up to one total, and a seller's
\* row to what each branch shows of it.
RowsAddUp(range) ==
    LET total == TotalRow(range)
        branch == [s \in Shops |-> BranchRow(range, s)]
        seller == [u \in Sellers |-> SellerRow(range, Shops, u)]
        part == [u \in Sellers |-> [s \in Shops |-> SellerRow(range, {s}, u)]]
    IN \A c \in Columns :
          /\ Total([s \in Shops |-> branch[s][c]], Shops) = total[c]
          /\ Total([u \in Sellers |-> seller[u][c]], Sellers) = total[c]
          /\ \A u \in Sellers : Total([s \in Shops |-> part[u][s][c]], Shops) = seller[u][c]

\* What is owed today is every credit ever reported less every collection ever
\* reported, for the shop and for each seller's sales one by one: a void, a
\* cancellation and a move take the same rows out of the three figures.
DebtIsWhatWasNotCollected ==
    /\ LET total == TotalRow(AllDays)
       IN  total.owing = total.credit - total.collected
    /\ \A u \in Sellers :
          LET detail == SellerDetail(AllDays, u)
          IN  Total([d \in detail |-> d.balance], detail) = SellerRow({date}, Shops, u).owing

\* The days of a range add up to it, and no order is both sold and to collect.
DaysAddUp ==
    /\ \A c \in {"received", "credit", "paid", "collected"} :
          Total([d \in AllDays |-> TotalRow({d})[c]], AllDays) = TotalRow(AllDays)[c]
    /\ SaleRows(AllDays, Shops) \cap PendingRows(Shops) = {}

\* The sales figures agree with each other however the office went on.
SalesAgree ==
    /\ \A range \in {{date}, AllDays} : RowsAddUp(range)
    /\ DebtIsWhatWasNotCollected
    /\ DaysAddUp
=============================================================================
