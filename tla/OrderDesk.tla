----------------------------- MODULE OrderDesk ------------------------------
(***************************************************************************)
(* The office side of OrderService, over many orders: they are raised,     *)
(* deduplicated, moved between branches, prioritized, taken along their    *)
(* status graph and collected. A request loads what it needs and checks it *)
(* in one step and commits in another; nothing locks the orders between.   *)
(* Requests about different quotes interleave; whether two may be in flight *)
(* about one quote, which the code does not prevent, is OneAtATime.         *)
(***************************************************************************)
EXTENDS Integers, Sequences, FiniteSets

CONSTANTS
    Clients,      \* browser tabs, each with at most one request in flight
    Branches,
    Quotes,       \* the rest of the dedupe key: client, plan hash and money
    OneAtATime,   \* whether a quote has one request in flight at most
    Credit,       \* payment_credit_amount of every order, in currency units
    MaxOrders     \* BOUND: orders ever created

ASSUME DeskAssumption ==
    /\ Clients # {} /\ Branches # {}
    /\ OneAtATime \in BOOLEAN
    /\ Credit \in Nat /\ MaxOrders \in Nat

VARIABLES
    orders,  \* the orders table, an order's id its index
    clock,   \* instants passed: every creation and every arrival has its own
    req      \* per client, the request in flight

vars == <<orders, clock, req>>

-----------------------------------------------------------------------------
NoRequest == [op |-> "none"]

Ids == DOMAIN orders

Terminal == {"finished", "dispatched", "cancelled"}

Edges == {<<"confirmed", "queued">>, <<"confirmed", "cancelled">>,
          <<"queued", "in_process">>, <<"queued", "cancelled">>,
          <<"in_process", "finished">>, <<"in_process", "queued">>,
          <<"finished", "dispatched">>}

\* _find_active_duplicate
ActiveDuplicates(q, b) ==
    {i \in Ids : /\ orders[i].quote = q
                 /\ orders[i].branch = b
                 /\ orders[i].status \notin Terminal}

Balance(o) == IF o.status = "cancelled" THEN 0 ELSE o.credit - o.collected

\* list_workshop_queue: whether i is listed before j; arrival is queued_at, and
\* created_at for an order never dated.
Arrival(o) == IF o.queuedAt # 0 THEN o.queuedAt ELSE o.createdAt

\* Mistake: the order of creation instead of the order of arrival.
ByCreation(i, j) ==
    LET o == orders[i] p == orders[j] IN
    (o.priority /\ ~p.priority) \/ (o.priority = p.priority /\ i < j)

ListedBefore(i, j) ==
    LET o == orders[i] p == orders[j] IN
    \/ o.priority /\ ~p.priority
    \/ /\ o.priority = p.priority
       /\ Arrival(o) < Arrival(p) \/ (Arrival(o) = Arrival(p) /\ i < j)

Board(b) == {i \in Ids : /\ orders[i].branch = b
                         /\ orders[i].status \in {"queued", "in_process"}}

-----------------------------------------------------------------------------
(* Loading: what the request reads and the checks it makes on it *)

About(r) == IF r.op = "create" THEN r.quote ELSE orders[r.id].quote

Load(c, r) ==
    /\ req[c] = NoRequest
    /\ OneAtATime => \A d \in Clients : req[d] # NoRequest => About(req[d]) # About(r)
    /\ req' = [req EXCEPT ![c] = r]
    /\ UNCHANGED <<orders, clock>>

\* An identical active order is returned as it is, and nothing written.
LoadCreate(c, q, b) ==
    /\ Len(orders) + Cardinality({d \in Clients : req[d].op = "create"}) < MaxOrders
    /\ ActiveDuplicates(q, b) = {}
    /\ Load(c, [op |-> "create", quote |-> q, branch |-> b])

\* change_branch, before the shop floor starts.
Movable(o) == o.status \in {"confirmed", "queued"}

\* Mistake: the target branch's orders not looked at.
NoCheckAtTheTarget(i, b) == b # orders[i].branch

FreeAtTheTarget(i, b) ==
    /\ b # orders[i].branch
    /\ ActiveDuplicates(orders[i].quote, b) \ {i} = {}

LoadChangeBranch(c, i, b) ==
    /\ Movable(orders[i])
    /\ FreeAtTheTarget(i, b)
    /\ Load(c, [op |-> "branch", id |-> i, branch |-> b])

LoadPriority(c, i) ==
    /\ orders[i].status \notin Terminal
    /\ Load(c, [op |-> "priority", id |-> i, flag |-> ~orders[i].priority])

LoadTransition(c, i, to) ==
    /\ <<orders[i].status, to>> \in Edges
    /\ Load(c, [op |-> "move", id |-> i, from |-> orders[i].status, to |-> to])

WithinTheBalance(o, amount) == amount <= Balance(o)

LoadPayment(c, i, amount) ==
    /\ orders[i].status # "cancelled"
    /\ orders[i].queuedAt # 0
    /\ WithinTheBalance(orders[i], amount)
    /\ Load(c, [op |-> "pay", id |-> i, amount |-> amount])

-----------------------------------------------------------------------------
(* Committing: an INSERT, or an UPDATE of the columns the request changed *)

Committing(c, op) ==
    /\ req[c].op = op
    /\ req' = [req EXCEPT ![c] = NoRequest]

CommitCreate(c) ==
    /\ Committing(c, "create")
    /\ clock' = clock + 1
    /\ orders' = Append(orders,
           [quote |-> req[c].quote, branch |-> req[c].branch,
            status |-> "confirmed", priority |-> FALSE,
            createdAt |-> clock', queuedAt |-> 0, credit |-> 0, collected |-> 0])

CommitChangeBranch(c) ==
    /\ Committing(c, "branch")
    /\ orders' = [orders EXCEPT ![req[c].id].branch = req[c].branch]
    /\ UNCHANGED clock

CommitPriority(c) ==
    /\ Committing(c, "priority")
    /\ orders' = [orders EXCEPT ![req[c].id].priority = req[c].flag]
    /\ UNCHANGED clock

\* Mistake: every way into the queue dates the arrival.
IntoTheQueue(r) == r.to = "queued"

\* The payment capture is the way from confirmed alone: the rollback keeps the
\* place in the queue.
Captures(r) == r.from = "confirmed" /\ r.to = "queued"

CommitTransition(c) ==
    LET r == req[c] IN
    /\ Committing(c, "move")
    /\ clock' = IF Captures(r) THEN clock + 1 ELSE clock
    /\ orders' = [orders EXCEPT ![r.id] =
           IF Captures(r)
           THEN [@ EXCEPT !.status = r.to, !.queuedAt = clock', !.credit = Credit]
           ELSE [@ EXCEPT !.status = r.to]]

CommitPayment(c) ==
    /\ Committing(c, "pay")
    /\ orders' = [orders EXCEPT ![req[c].id].collected = @ + req[c].amount]
    /\ UNCHANGED clock

-----------------------------------------------------------------------------
Init ==
    /\ orders = <<>>
    /\ clock = 0
    /\ req = [c \in Clients |-> NoRequest]

Next == \E c \in Clients :
    \/ \E q \in Quotes, b \in Branches : LoadCreate(c, q, b)
    \/ \E i \in Ids :
          \/ \E b \in Branches : LoadChangeBranch(c, i, b)
          \/ LoadPriority(c, i)
          \/ \E to \in {"queued", "in_process", "finished", "dispatched", "cancelled"} :
                LoadTransition(c, i, to)
          \/ \E amount \in 1..Credit : LoadPayment(c, i, amount)
    \/ CommitCreate(c)
    \/ CommitChangeBranch(c)
    \/ CommitPriority(c)
    \/ CommitTransition(c)
    \/ CommitPayment(c)

Spec == Init /\ [][Next]_vars

-----------------------------------------------------------------------------
(* Properties, under OneAtATime.  Nothing locks an order between a load and  *)
(* its commit, so two requests about one quote at once break the middle four. *)

Order == [quote : Quotes, branch : Branches,
          status : {"confirmed", "queued", "in_process"} \union Terminal,
          priority : BOOLEAN, createdAt : Nat, queuedAt : Nat,
          credit : {0, Credit}, collected : Nat]

\* Every column holds a value of its domain; the instants are past ones, and an
\* order takes two: its creation and a single arrival.
TypeOK ==
    /\ orders \in Seq(Order)
    /\ clock \in 0..(2 * MaxOrders)
    /\ \A i \in Ids : orders[i].createdAt <= clock /\ orders[i].queuedAt <= clock
    /\ \A i \in Ids : orders[i].status # "confirmed" => orders[i].queuedAt # 0
                                   \/ orders[i].status = "cancelled"
    /\ DOMAIN req = Clients

\* change_branch's invariant: a single active identical order per branch, kept
\* between creations, moves and orders that close, whatever happens meanwhile to
\* the orders of other quotes.
OneActivePerBranch ==
    \A q \in Quotes, b \in Branches : Cardinality(ActiveDuplicates(q, b)) <= 1

\* check_against_balance: no payments add up to more than the credit sold.
NeverOvercollected ==
    \A i \in Ids : orders[i].collected <= orders[i].credit

\* The board is first come, first served: two orders on it change places only
\* when sales change a priority. Neither a rollback nor a move to the branch
\* and back, nor a later payment, loses anybody their place.
NobodyOvertakes ==
    [][\A b \in Branches : \A i, j \in Board(b) \cap Board(b)' :
         /\ orders'[i].priority = orders[i].priority
         /\ orders'[j].priority = orders[j].priority
         => (ListedBefore(i, j) <=> ListedBefore(i, j)')]_vars

\* Whoever reaches the board without a priority goes behind everybody of theirs
\* who is already there: the order of arrival, whatever the order of creation
\* and whatever else is in flight.
ArrivalsGoLast ==
    [][\A i, j \in Ids :
         /\ orders[i].queuedAt = 0 /\ orders'[i].queuedAt # 0
         /\ j \in Board(orders[j].branch)
         /\ j # i /\ orders[j].priority = orders[i].priority
         => ListedBefore(j, i)']_vars

=============================================================================
