--------------------------- MODULE PreOrderReview ---------------------------
(***************************************************************************)
(* One quote (pre-order) and its client review links: staff edits it and   *)
(* sends it, the client confirms, rejects or asks for changes from a link, *)
(* its validity runs out, and the confirmation mints the order in a        *)
(* transaction of its own before a second one closes the quote. Requests   *)
(* load, and commit later; one session is the system without concurrency.  *)
(***************************************************************************)
EXTENDS Integers, Sequences, FiniteSets

CONSTANTS
    Sessions,     \* requests that may be in flight at once
    MaxLinks,     \* BOUND: links generated
    MaxEdits,     \* BOUND: edits of the inputs
    MaxPrices,    \* BOUND: versions of the catalog prices and the tax rate
    MaxOrders,    \* BOUND: orders minted
    MaxCrashes    \* BOUND: requests lost half way (the process dies)

ASSUME ReviewAssumption ==
    /\ Sessions # {}
    /\ {MaxLinks, MaxEdits, MaxPrices, MaxOrders, MaxCrashes} \subseteq Nat

VARIABLES
    status,   \* preorders.status; "gone" once the row is deleted
    stale,    \* expires_at has passed
    inputs,   \* version of the materials, requirements and services
    prices,   \* version of what live prices are read from
    links,    \* preorder_review_links.status, oldest first
    orders,   \* the orders minted here: their dedupe key and whether active
    orderId,  \* preorders.order_id; 0 is NULL
    crashes,  \* requests lost so far
    crossed,  \* whether two requests were ever in flight together
    req       \* per session, the request in flight

quote == <<status, stale, inputs, links, orderId>>
trouble == <<crashes, crossed>>
vars == <<quote, prices, orders, trouble, req>>

-----------------------------------------------------------------------------
Open == {"draft", "sent", "changes_requested"}
Terminal == {"confirmed", "rejected", "expired"}

NoRequest == [op |-> "none"]
NoOrder == 0

Begin(c, r) ==
    /\ req[c] = NoRequest
    /\ req' = [req EXCEPT ![c] = r]
    /\ crossed' = (crossed \/ \E d \in Sessions : req[d] # NoRequest)
    /\ UNCHANGED <<quote, prices, orders, crashes>>

Committing(c, op) == req[c].op = op /\ status # "gone"
End(c) == req' = [req EXCEPT ![c] = NoRequest]

\* A request whose read finds the validity over only expires the quote.
Readable == status # "gone" /\ ~(status \in Open /\ stale)

\* _get_by_token_or_404: a used link still reads, a revoked one does not.
Opens(i) == links[i] # "revoked"

-----------------------------------------------------------------------------
(* get_or_404 on a quote past its validity: the lazy expiry and its commit *)

LoadExpire(c) ==
    /\ status \in Open /\ stale
    /\ Begin(c, [op |-> "expire"])

CommitExpire(c) ==
    /\ Committing(c, "expire")
    /\ status' = "expired"
    /\ End(c)
    /\ UNCHANGED <<stale, inputs, links, orderId, prices, orders, trouble>>

-----------------------------------------------------------------------------
(* The staff: PreOrderService.update, delete; PreOrderReviewService.generate *)

Editable == status \in Open

LoadUpdate(c) ==
    /\ Readable
    /\ Editable
    /\ Begin(c, [op |-> "update", status |-> status])

\* An edit of a quote the client wanted changed hands it back.
CommitUpdate(c) ==
    /\ Committing(c, "update")
    /\ inputs' \in {inputs, inputs + 1}
    /\ inputs' <= MaxEdits
    /\ status' = IF req[c].status = "changes_requested" THEN "sent" ELSE status
    /\ End(c)
    /\ UNCHANGED <<stale, links, orderId, prices, orders, trouble>>

\* Mistake: delete does not look at the status.
DeletableAlways == TRUE

Deletable == status # "confirmed"

LoadDelete(c) ==
    /\ Readable
    /\ Deletable
    /\ Begin(c, [op |-> "delete"])

CommitDelete(c) ==
    /\ Committing(c, "delete")
    /\ status' = "gone"
    /\ links' = <<>>
    /\ End(c)
    /\ UNCHANGED <<stale, inputs, orderId, prices, orders, trouble>>

\* Mistake: the links of a quote that is not "sent" taken for dead.
ActiveLinksIfSent ==
    IF status = "sent" THEN {i \in DOMAIN links : links[i] = "active"} ELSE {}

ActiveLinks == {i \in DOMAIN links : links[i] = "active"}

LoadGenerate(c) ==
    /\ Readable
    /\ status \in Open
    /\ Len(links) < MaxLinks
    /\ Begin(c, [op |-> "generate", status |-> status, revoke |-> ActiveLinks])

\* The status column is written only if it was not already "sent".
CommitGenerate(c) ==
    /\ Committing(c, "generate")
    /\ status' = IF req[c].status = "sent" THEN status ELSE "sent"
    /\ stale' = FALSE
    /\ links' = Append([i \in DOMAIN links |->
                           IF i \in req[c].revoke THEN "revoked" ELSE links[i]],
                       "active")
    /\ End(c)
    /\ UNCHANGED <<inputs, orderId, prices, orders, trouble>>

-----------------------------------------------------------------------------
(* The client, with the token of link i *)

Decidable == status \in Open

LoadDecision(c, i, op) ==
    /\ Readable
    /\ Opens(i)
    /\ Decidable
    /\ Begin(c, [op |-> op, link |-> i, status |-> status, inputs |-> inputs])

CommitReject(c) ==
    /\ Committing(c, "reject")
    /\ status' = "rejected"
    /\ links' = [links EXCEPT ![req[c].link] = "used"]
    /\ End(c)
    /\ UNCHANGED <<stale, inputs, orderId, prices, orders, trouble>>

CommitRequestChanges(c) ==
    /\ Committing(c, "changes")
    /\ status' = IF req[c].status = "changes_requested" THEN status
                 ELSE "changes_requested"
    /\ End(c)
    /\ UNCHANGED <<stale, inputs, links, orderId, prices, orders, trouble>>

\* Mistake: only the order the quote names is compared.
LinkedDuplicates(key) ==
    {i \in DOMAIN orders : orders[i].key = key /\ orders[i].active /\ i = orderId}

\* _find_active_duplicate, among the orders of this quote.
Duplicates(key) == {i \in DOMAIN orders : orders[i].key = key /\ orders[i].active}

\* OrderService.create: the inputs as loaded, priced now, then the dedupe.
Price(c) ==
    LET key == <<req[c].inputs, prices>> IN
    /\ req[c].op = "confirm"
    /\ req' = [req EXCEPT ![c] =
                 IF Duplicates(key) # {}
                 THEN [op |-> "confirmed", link |-> req[c].link,
                       order |-> CHOOSE i \in Duplicates(key) : TRUE]
                 ELSE [op |-> "priced", link |-> req[c].link, key |-> key]]
    /\ UNCHANGED <<quote, prices, orders, trouble>>

\* The first commit: the order.
Mint(c) ==
    /\ req[c].op = "priced"
    /\ Len(orders) < MaxOrders
    /\ orders' = Append(orders, [key |-> req[c].key, active |-> TRUE])
    /\ req' = [req EXCEPT ![c] = [op |-> "confirmed", link |-> req[c].link,
                                  order |-> Len(orders')]]
    /\ UNCHANGED <<quote, prices, trouble>>

\* The second commit: the quote, whatever its status is by now.
CommitConfirm(c) ==
    /\ Committing(c, "confirmed")
    /\ status' = "confirmed"
    /\ orderId' = req[c].order
    /\ links' = [links EXCEPT ![req[c].link] = "used"]
    /\ End(c)
    /\ UNCHANGED <<stale, inputs, prices, orders, trouble>>

-----------------------------------------------------------------------------
(* The world around it *)

\* The validity of an open quote runs out.
Elapse ==
    /\ ~stale
    /\ status \in Open
    /\ stale' = TRUE
    /\ UNCHANGED <<status, inputs, links, orderId, prices, orders, trouble, req>>

\* A price of the catalog or the tax rate changes.
Reprice ==
    /\ prices < MaxPrices
    /\ prices' = prices + 1
    /\ UNCHANGED <<quote, orders, trouble, req>>

\* The order is finished, dispatched or cancelled.
OrderCloses(i) ==
    /\ orders[i].active
    /\ orders' = [orders EXCEPT ![i].active = FALSE]
    /\ UNCHANGED <<quote, prices, trouble, req>>

\* The request dies where it stands, or its commit finds the row deleted; what
\* it committed before stays. BOUND: none is lost after two requests crossed,
\* where a lost one is one that stays in flight.
Crash(c) ==
    /\ req[c] # NoRequest
    /\ crashes < MaxCrashes /\ ~crossed
    /\ crashes' = crashes + 1
    /\ End(c)
    /\ UNCHANGED <<quote, prices, orders, crossed>>

RowGone(c) ==
    /\ req[c] # NoRequest
    /\ req[c].op \notin {"confirm", "priced"}
    /\ status = "gone"
    /\ End(c)
    /\ UNCHANGED <<quote, prices, orders, trouble>>

-----------------------------------------------------------------------------
Init ==
    /\ status = "draft"
    /\ stale = FALSE
    /\ inputs = 0
    /\ prices = 0
    /\ links = <<>>
    /\ orders = <<>>
    /\ orderId = NoOrder
    /\ crashes = 0
    /\ crossed = FALSE
    /\ req = [c \in Sessions |-> NoRequest]

Next ==
    \/ \E c \in Sessions :
          \/ LoadExpire(c) \/ CommitExpire(c)
          \/ LoadUpdate(c) \/ CommitUpdate(c)
          \/ LoadDelete(c) \/ CommitDelete(c)
          \/ LoadGenerate(c) \/ CommitGenerate(c)
          \/ \E i \in DOMAIN links, op \in {"confirm", "reject", "changes"} :
                LoadDecision(c, i, op)
          \/ CommitReject(c) \/ CommitRequestChanges(c)
          \/ Price(c) \/ Mint(c) \/ CommitConfirm(c)
          \/ Crash(c) \/ RowGone(c)
    \/ Elapse
    \/ Reprice
    \/ \E i \in DOMAIN orders : OrderCloses(i)

Spec == Init /\ [][Next]_vars

-----------------------------------------------------------------------------
(* Properties *)

\* Every column holds a value of its domain.
TypeOK ==
    /\ status \in Open \union Terminal \union {"gone"}
    /\ stale \in BOOLEAN
    /\ inputs \in 0..MaxEdits
    /\ prices \in 0..MaxPrices
    /\ links \in Seq({"active", "used", "revoked"})
    /\ orderId \in {NoOrder} \union DOMAIN orders
    /\ \A i \in DOMAIN orders : orders[i].active \in BOOLEAN
    /\ crashes \in 0..MaxCrashes /\ crossed \in BOOLEAN
    /\ DOMAIN req = Sessions

\* A single active link per pre-order, enforced in the service: no request by
\* itself leaves two that work, whatever it finds the quote in.
OneActiveLink == ~crossed => Cardinality(ActiveLinks) <= 1

\* TERMINAL_STATUSES, "no way out": a decided quote stays decided; only one that
\* came to nothing is ever deleted.
TerminalIsFinal ==
    [][~crossed =>
         /\ status = "confirmed" => status' = "confirmed"
         /\ status \in {"rejected", "expired"} => status' \in {status, "gone"}]_vars

\* What the client confirmed is what the order froze: the quote's inputs do not
\* move under it, and the order is not exchanged; not even when a confirmation
\* was lost half way, the quote edited and confirmed again.
ConfirmedShowsItsOrder ==
    ~crossed /\ status = "confirmed" => orders[orderId].key[1] = inputs

\* Whatever requests cross each other, a quote is never confirmed with no order
\* to show for it.
ConfirmedHasItsOrder == status = "confirmed" => orderId \in DOMAIN orders

\* A used link is one whose client decided, and nothing else consumes it.
UsedLinkMeansDecided ==
    ~crossed /\ (\E i \in DOMAIN links : links[i] = "used")
        => status \in {"confirmed", "rejected"}

\* confirm: a retry of what was lost half way never leaves two active orders of
\* the same inputs at the same prices.
OneOrderPerKey ==
    \A i, j \in DOMAIN orders :
        /\ ~crossed
        /\ orders[i].active /\ orders[j].active
        /\ orders[i].key = orders[j].key
        => i = j

\* What confirm promises of the dedupe: a retry after a crash between the two
\* commits leaves one order to work on.
OneOrderPerQuote ==
    ~crossed => Cardinality({i \in DOMAIN orders : orders[i].active}) <= 1

\* Unless a request was lost, an order is the outcome of a confirmation, or of
\* one about to be written.
NoOrphanOrder ==
    ~crossed /\ crashes = 0 /\ orders # <<>> =>
        \/ status = "confirmed"
        \/ \E c \in Sessions : req[c].op = "confirmed"

\* The quote, its links and its orders agree through the two commits of a
\* confirmation, the retries and the edits in between.
ConfirmationsAgree ==
    /\ TypeOK
    /\ ConfirmedShowsItsOrder /\ ConfirmedHasItsOrder /\ UsedLinkMeansDecided
    /\ OneOrderPerKey /\ NoOrphanOrder

=============================================================================
