------------------------------- MODULE Order --------------------------------
(***************************************************************************)
(* One order on the shop floor: its status machine, its parallel           *)
(* activities (the cut, the banding, the additional work), their pauses,   *)
(* the pieces the saw marks and the money that comes in after the sale.    *)
(* Every action is one request of OrderService, taken to its commit; the   *)
(* module OrderRequests takes the same requests apart.                     *)
(***************************************************************************)
EXTENDS Integers, Sequences, Sums

CONSTANTS
    Pieces,       \* the placed pieces of the order's frozen cutting plan
    Banded,       \* those with edge banding
    Worked,       \* those with a workshop code
    Invoices,     \* external invoice ids a caller may send
    NoInvoice,    \* external_invoice_id IS NULL
    MaxCredit,    \* BOUND: credit sold on the order, in currency units
    MaxPayments,  \* BOUND: payment rows
    MaxMoves      \* BOUND: history length past which no rollback is taken

ASSUME OrderAssumption ==
    /\ Pieces # {}
    /\ Banded \subseteq Pieces
    /\ Worked \subseteq Pieces
    /\ NoInvoice \notin Invoices
    /\ MaxCredit \in Nat
    /\ MaxPayments \in Nat
    /\ MaxMoves \in Nat

VARIABLES
    status,      \* orders.status
    history,     \* the statuses of the real moves in order_status_history
    work,        \* order_activities.status, one row per applicable activity
    readyAt,     \* order_activities.ready_at
    startedAt,   \* order_activities.started_at
    finishedAt,  \* order_activities.finished_at
    pause,       \* order_activities.pause_reason, the mirror of the pause rows
    openPauses,  \* order_activity_pauses with ended_at IS NULL, per activity
    cut,         \* the placed pieces with cut_at set
    queuedAt,    \* orders.queued_at
    assignedAt,  \* orders.assigned_at
    credit,      \* orders.payment_credit_amount
    payments,    \* order_payments.amount
    voided,      \* the payments with voided_at set
    invoice      \* orders.external_invoice_id

clockVars == <<readyAt, startedAt, finishedAt>>
pauseVars == <<pause, openPauses>>
shopVars == <<work, clockVars, pauseVars, cut>>
saleVars == <<credit, payments, voided, invoice>>
vars == <<status, history, shopVars, queuedAt, assignedAt, saleVars>>

-----------------------------------------------------------------------------
(* The tables of model.py *)

OrderStatus ==
    {"confirmed", "queued", "in_process", "finished", "dispatched", "cancelled"}

Roles == {"admin", "seller", "operator", "bander"}

\* TRANSITIONS and TRANSITION_ROLES: the roles that may take each move of the
\* graph; no role at all where the graph has no edge.
TransitionRoles(from, to) ==
    CASE <<from, to>> \in {<<"confirmed", "queued">>,
                           <<"confirmed", "cancelled">>,
                           <<"finished", "dispatched">>} -> {"admin", "seller"}
      [] <<from, to>> \in {<<"queued", "cancelled">>,
                           <<"in_process", "queued">>} -> {"admin"}
      [] <<from, to>> = <<"queued", "in_process">> -> {"admin", "operator"}
      [] <<from, to>> = <<"in_process", "finished">> -> Roles
      [] OTHER -> {}

\* A banding row exists when something is billed as edge banding, an additional
\* row when some piece carries a workshop code; the cut always.
Activities ==
    {"cutting"} \union (IF Banded # {} THEN {"banding"} ELSE {})
                \union (IF Worked # {} THEN {"additional"} ELSE {})

ActivityRoles(a) ==
    IF a = "cutting" THEN {"admin", "operator"} ELSE {"admin", "bander"}

ActivityPieces(a) ==
    CASE a = "cutting" -> Pieces
      [] a = "banding" -> Banded
      [] a = "additional" -> Worked

PauseReasons(a) ==
    CASE a = "cutting" -> {"no_boards", "machine_failure"}
      [] a = "banding" -> {"waiting_for_pieces", "no_edge_banding",
                           "machine_failure"}
      [] a = "additional" -> {"waiting_for_pieces", "machine_failure"}

\* A NULL timestamp. A set one is the number of real moves the order had made.
Null == 0

-----------------------------------------------------------------------------
(* What the requests read *)

Paused(a) == pause[a] # "none"
Waiting(a) == pause[a] = "waiting_for_pieces"
\* Mistake: taking for granted that a closed cut has every piece marked.
PendingByDefinition(a) ==
    IF work["cutting"] # "pending" THEN {} ELSE ActivityPieces(a) \ cut
Pending(a) == ActivityPieces(a) \ cut
AllDone == \A a \in Activities : work[a] = "done"

BandingOpen == "banding" \in Activities /\ work["banding"] # "done"

\* Whether the stations before still owe the activity pieces.
OwesPieces(a) ==
    /\ "waiting_for_pieces" \in PauseReasons(a)
    /\ Pending(a) # {} \/ (a = "additional" /\ BandingOpen)

\* Mistake: asking it of the cut as well.
NeedsACutPiece(a) == ActivityPieces(a) \cap cut # {}

\* START_NEEDS: the banding and the additional work need a piece of theirs cut.
MayStart(a) == a # "cutting" => NeedsACutPiece(a)

\* Whether the piece p, just cut, reaches the activity: a banded piece goes
\* through the edge bander first.
PieceArrives(a, p) ==
    /\ p \in ActivityPieces(a)
    /\ ~(p \in Banded /\ BandingOpen /\ a = "additional")

StandingRows == DOMAIN payments \ voided
CreditCollected == Total(payments, StandingRows)
\* Mistake: a cancelled order keeps its debt.
BalanceOfAnyOrder == IF CreditCollected > credit THEN 0 ELSE credit - CreditCollected
CreditBalance ==
    IF status = "cancelled" \/ CreditCollected > credit
    THEN 0 ELSE credit - CreditCollected

-----------------------------------------------------------------------------
(* What the requests write *)

\* Mistake: the row names the status the order leaves.
MoveFrom(to) == status' = to /\ history' = Append(history, status)

\* _apply_transition: the history row and the status. The event's instant is
\* the length the history has once the request commits.
Move(to) ==
    /\ status' = to
    /\ history' = Append(history, to)

StayPut == UNCHANGED <<status, history>>
Now == Len(history')

\* _close_pause, on every activity of S.
ClosePauses(S) ==
    /\ pause' = [a \in Activities |-> IF a \in S THEN "none" ELSE pause[a]]
    /\ openPauses' = [a \in Activities |-> IF a \in S THEN 0 ELSE openPauses[a]]

\* One row per method with an amount above zero.
PaymentRow(amount) ==
    IF amount > 0 THEN <<amount>> ELSE <<>>

\* Mistake: each method checked against the balance by itself.
RegisterEachPayment(cash, transfer) ==
    /\ cash <= CreditBalance /\ transfer <= CreditBalance
    /\ payments' = payments \o PaymentRow(cash) \o PaymentRow(transfer)
    /\ Len(payments') <= MaxPayments
    /\ UNCHANGED voided
RegisterPayments(cash, transfer) ==
    /\ cash + transfer <= CreditBalance
    /\ payments' = payments \o PaymentRow(cash) \o PaymentRow(transfer)
    /\ Len(payments') <= MaxPayments
    /\ UNCHANGED voided

-----------------------------------------------------------------------------
Init ==
    /\ status = "confirmed"
    /\ history = <<"confirmed">>
    /\ work = [a \in Activities |-> "pending"]
    /\ readyAt = [a \in Activities |-> Null]
    /\ startedAt = [a \in Activities |-> Null]
    /\ finishedAt = [a \in Activities |-> Null]
    /\ pause = [a \in Activities |-> "none"]
    /\ openPauses = [a \in Activities |-> 0]
    /\ cut = {}
    /\ queuedAt = Null
    /\ assignedAt = Null
    /\ credit = 0
    /\ payments = <<>>
    /\ voided = {}
    /\ invoice = NoInvoice

-----------------------------------------------------------------------------
(* PATCH /orders/{id}/status: OrderService.transition, one action per edge. *)
(* The edge in_process -> finished by hand is missing: its gate wants every *)
(* activity closed, and LastClosingFinishes says that no order in process   *)
(* is ever there. OrderRequests has it, where racing closings get there.    *)

\* confirmed -> queued: the sale is collected (on credit, c of it) and invoiced,
\* and the cut stops being blocked.
EnterQueue(role, c, inv) ==
    /\ status = "confirmed"
    /\ role \in TransitionRoles(status, "queued")
    /\ inv # NoInvoice \/ invoice # NoInvoice
    /\ inv # NoInvoice => invoice \in {NoInvoice, inv}
    /\ Move("queued")
    /\ credit' = c
    /\ invoice' = IF inv # NoInvoice THEN inv ELSE invoice
    /\ queuedAt' = Now
    /\ readyAt' = [readyAt EXCEPT !["cutting"] = IF @ = Null THEN Now ELSE @]
    /\ UNCHANGED <<work, startedAt, finishedAt, pauseVars, cut, assignedAt,
                   payments, voided>>

\* queued -> in_process driven by hand, the cut still unstarted.
Take(role) ==
    /\ status = "queued"
    /\ role \in TransitionRoles(status, "in_process")
    /\ Move("in_process")
    /\ assignedAt' = Now
    /\ UNCHANGED <<shopVars, queuedAt, saleVars>>

\* in_process -> queued: the rollback of an order taken by mistake. Only the
\* cut is reopened; the marked pieces, the other activities and queued_at stay.
Rollback(role) ==
    /\ status = "in_process"
    /\ role \in TransitionRoles(status, "queued")
    /\ Len(history) <= MaxMoves
    /\ Move("queued")
    /\ assignedAt' = Null
    /\ ClosePauses({"cutting"})
    /\ work' = [work EXCEPT !["cutting"] = "pending"]
    /\ startedAt' = [startedAt EXCEPT !["cutting"] = Null]
    /\ UNCHANGED <<readyAt, finishedAt, cut, queuedAt, saleVars>>

\* finished -> dispatched: what is paid on delivery, never on credit; a balance
\* left needs a note.
Dispatch(role, cash, transfer, note) ==
    /\ status = "finished"
    /\ role \in TransitionRoles(status, "dispatched")
    /\ cash + transfer < CreditBalance => note
    /\ Move("dispatched")
    /\ RegisterPayments(cash, transfer)
    /\ UNCHANGED <<shopVars, queuedAt, assignedAt, credit, invoice>>

\* Mistake: the graph not consulted.
CancelAnyOrder(role) ==
    /\ role = "admin"
    /\ Move("cancelled")
    /\ UNCHANGED <<shopVars, queuedAt, assignedAt, saleVars>>

\* confirmed or queued -> cancelled, with its reason.
Cancel(role) ==
    /\ role \in TransitionRoles(status, "cancelled")
    /\ Move("cancelled")
    /\ UNCHANGED <<shopVars, queuedAt, assignedAt, saleVars>>

-----------------------------------------------------------------------------
(* PATCH /orders/{id}/activities/{type}: OrderService.transition_activity.  *)

\* pending -> in_progress. Starting the cut also takes the order out of the
\* queue; the other two need a piece of their own set cut.
StartAccepted(role, a) ==
    /\ role \in ActivityRoles(a)
    /\ work[a] = "pending"
    /\ ~Paused(a)
    /\ MayStart(a)
    /\ \/ status = "in_process"
       \/ /\ a = "cutting"
          /\ status = "queued"
          /\ role \in TransitionRoles(status, "in_process")

StartActivity(role, a) ==
    /\ StartAccepted(role, a)
    /\ IF status = "in_process" THEN StayPut /\ UNCHANGED assignedAt
                                ELSE Move("in_process") /\ assignedAt' = Now
    /\ work' = [work EXCEPT ![a] = "in_progress"]
    /\ startedAt' = [startedAt EXCEPT ![a] = Now]
    /\ UNCHANGED <<readyAt, finishedAt, pauseVars, cut, queuedAt, saleVars>>

\* in_progress -> done, with every piece of the activity cut. The banding
\* delivers its pieces to a waiting additional work; the last activity to close
\* finishes the order in the same transaction.
LastOpen(a) == \A b \in Activities \ {a} : work[b] = "done"

CloseAccepted(role, a) ==
    /\ role \in ActivityRoles(a)
    /\ work[a] = "in_progress"
    /\ ~Paused(a)
    /\ status = "in_process"
    /\ Pending(a) = {}
    /\ LastOpen(a) => role \in TransitionRoles(status, "finished")

CloseActivity(role, a) ==
    LET delivered ==
            IF a = "banding"
            THEN {b \in Activities \cap {"additional"} : Waiting(b)} ELSE {}
    IN  /\ CloseAccepted(role, a)
        /\ IF LastOpen(a) THEN Move("finished") ELSE StayPut
        /\ work' = [work EXCEPT ![a] = "done"]
        /\ finishedAt' = [finishedAt EXCEPT ![a] = Now]
        /\ ClosePauses(delivered)
        /\ UNCHANGED <<readyAt, startedAt, cut, queuedAt, assignedAt, saleVars>>

\* POST .../pause
PauseActivity(role, a, reason) ==
    /\ role \in ActivityRoles(a)
    /\ ~Paused(a)
    /\ status = "in_process"
    /\ work[a] = "in_progress"
    /\ reason \in PauseReasons(a)
    /\ reason = "waiting_for_pieces" => OwesPieces(a)
    /\ pause' = [pause EXCEPT ![a] = reason]
    /\ openPauses' = [openPauses EXCEPT ![a] = @ + 1]
    /\ UNCHANGED <<status, history, work, clockVars, cut, queuedAt, assignedAt,
                   saleVars>>

\* POST .../resume: whatever the order's status is.
ResumeAccepted(role, a) == role \in ActivityRoles(a) /\ Paused(a)

ResumeActivity(role, a) ==
    /\ ResumeAccepted(role, a)
    /\ ClosePauses({a})
    /\ UNCHANGED <<status, history, work, clockVars, cut, queuedAt, assignedAt,
                   saleVars>>

-----------------------------------------------------------------------------
(* PATCH /orders/{id}/pieces/{piece}: OrderService.mark_piece_cut.          *)

CutUnderWay ==
    status = "in_process" /\ work["cutting"] = "in_progress" /\ ~Paused("cutting")

MarkAccepted(p) == CutUnderWay /\ p \notin cut

\* Marking seals ready_at on what the piece unblocks and lifts the waits it ends.
MarkPieceCut(p) ==
    LET unblocked == {a \in Activities \ {"cutting"} :
                         readyAt[a] = Null /\ p \in ActivityPieces(a)}
    IN  /\ MarkAccepted(p)
        /\ cut' = cut \union {p}
        /\ StayPut
        /\ readyAt' = [a \in Activities |->
                          IF a \in unblocked THEN Now ELSE readyAt[a]]
        /\ ClosePauses({a \in Activities : Waiting(a) /\ PieceArrives(a, p)})
        /\ UNCHANGED <<work, startedAt, finishedAt, queuedAt, assignedAt,
                       saleVars>>

\* Mistake: taking ready_at back with the mark.
UnmarkAndBlock(p) ==
    /\ CutUnderWay
    /\ p \in cut
    /\ cut' = cut \ {p}
    /\ readyAt' = [a \in Activities |->
                      IF a # "cutting" /\ p \in ActivityPieces(a)
                      THEN Null ELSE readyAt[a]]
    /\ UNCHANGED <<status, history, work, startedAt, finishedAt, pauseVars,
                   queuedAt, assignedAt, saleVars>>

\* Unmarking gives nothing back: neither the waits nor ready_at.
UnmarkPieceCut(p) ==
    /\ CutUnderWay
    /\ p \in cut
    /\ cut' = cut \ {p}
    /\ UNCHANGED <<status, history, work, clockVars, pauseVars, queuedAt,
                   assignedAt, saleVars>>

-----------------------------------------------------------------------------
(* Money and billing after the sale *)

\* POST /orders/{id}/payments: OrderService.add_payment
AddPayment(cash, transfer) ==
    /\ status # "cancelled"
    /\ queuedAt # Null
    /\ cash + transfer > 0
    /\ RegisterPayments(cash, transfer)
    /\ UNCHANGED <<status, history, shopVars, queuedAt, assignedAt, credit,
                   invoice>>

\* POST /orders/{id}/payments/{payment}/void: the row stays, flagged.
VoidPayment(i) ==
    /\ i \in StandingRows
    /\ voided' = voided \union {i}
    /\ UNCHANGED <<status, history, shopVars, queuedAt, assignedAt, credit,
                   payments, invoice>>

\* PATCH /orders/{id}/invoice: never over a different issued invoice.
SetExternalInvoiceId(inv) ==
    /\ invoice = NoInvoice
    /\ invoice' = inv
    /\ UNCHANGED <<status, history, shopVars, queuedAt, assignedAt, credit,
                   payments, voided>>

-----------------------------------------------------------------------------
Amount == 0..MaxCredit

ShopNext ==
    \/ \E role \in Roles, a \in Activities :
          \/ StartActivity(role, a)
          \/ CloseActivity(role, a)
          \/ \E reason \in PauseReasons(a) : PauseActivity(role, a, reason)
          \/ ResumeActivity(role, a)
    \/ \E p \in Pieces : MarkPieceCut(p) \/ UnmarkPieceCut(p)

OfficeNext ==
    \/ \E role \in Roles :
          \/ \E c \in Amount, inv \in Invoices \union {NoInvoice} :
                EnterQueue(role, c, inv)
          \/ Take(role)
          \/ Rollback(role)
          \/ \E cash, transfer \in Amount, note \in BOOLEAN :
                Dispatch(role, cash, transfer, note)
          \/ Cancel(role)
    \/ \E cash, transfer \in Amount : AddPayment(cash, transfer)
    \/ \E i \in DOMAIN payments : VoidPayment(i)
    \/ \E inv \in Invoices : SetExternalInvoiceId(inv)

Next == ShopNext \/ OfficeNext

Spec == Init /\ [][Next]_vars

-----------------------------------------------------------------------------
(* Properties *)

Reasons == {"none"} \union UNION {PauseReasons(a) : a \in Activities}

\* Every column holds a value of its domain.
TypeOK ==
    /\ status \in OrderStatus
    /\ history \in Seq(OrderStatus)
    /\ work \in [Activities -> {"pending", "in_progress", "done"}]
    /\ readyAt \in [Activities -> Nat]
    /\ startedAt \in [Activities -> Nat]
    /\ finishedAt \in [Activities -> Nat]
    /\ pause \in [Activities -> Reasons]
    /\ openPauses \in [Activities -> Nat]
    /\ cut \subseteq Pieces
    /\ queuedAt \in Nat
    /\ assignedAt \in Nat
    /\ credit \in Nat
    /\ payments \in Seq(Nat)
    /\ voided \subseteq DOMAIN payments
    /\ invoice \in Invoices \union {NoInvoice}

\* mark_piece_cut: once the operator closed the cut every piece is marked. The
\* marks, the closing floor and the rollback have to agree for it.
ClosedCutMarksEveryPiece == work["cutting"] = "done" => cut = Pieces

\* The closing gate: an order past the shop has every activity closed and every
\* piece cut, even though pieces can be unmarked after the banding closed and
\* the cut can be reopened by a rollback.
FinishedWorkIsComplete ==
    status \in {"finished", "dispatched"} => AllDone /\ cut = Pieces

\* pauses.py: a wait for pieces cannot outlive what it waits for, whatever
\* marks, unmarks, closings and rollbacks happen while it stands.
WaitHeldToItsCause == \A a \in Activities : Waiting(a) => OwesPieces(a)

\* transition_activity: closing the last applicable activity finishes the order,
\* and nothing else does; off the shop floor the cut is always unstarted.
LastClosingFinishes ==
    /\ AllDone <=> status \in {"finished", "dispatched"}
    /\ status \in {"confirmed", "queued", "cancelled"} => work["cutting"] = "pending"

\* OrderActivityPauseModel: a paused activity is one in progress, and its mirror
\* columns agree with the one pause row that is open.
PauseMirrorsOneOpenRow ==
    \A a \in Activities :
        /\ Paused(a) => work[a] = "in_progress"
        /\ openPauses[a] = IF Paused(a) THEN 1 ELSE 0

\* The history is the order's biography: it ends where the order is, and each of
\* its steps is an edge of the graph.
HistoryTellsTheStatus ==
    /\ history[Len(history)] = status
    /\ \A i \in 1..(Len(history) - 1) :
           TransitionRoles(history[i], history[i + 1]) # {}

\* assigned_to is somebody exactly from taking the order on; a rolled back or a
\* cancelled order keeps nobody's name.
AssignedWhileTheShopHasIt ==
    assignedAt # Null <=> status \in {"in_process", "finished", "dispatched"}

\* Nobody works before their work stopped being blocked: the cut not before the
\* order was paid into the queue, the others not before a piece of theirs was
\* cut. The waiting time a panel shows is started_at - ready_at.
StartedAfterReady ==
    \A a \in Activities :
        /\ startedAt[a] # Null =>
             readyAt[a] # Null /\ readyAt[a] <= startedAt[a]
        /\ a = "cutting" => readyAt[a] = queuedAt

\* Sealed once: queued_at, ready_at, what was sold on credit, the invoice, and
\* the clocks of the banding and the additional work survive rollbacks and
\* unmarked pieces untouched.
SealedNow ==
    /\ queuedAt # Null => UNCHANGED <<queuedAt, credit>>
    /\ invoice # NoInvoice => UNCHANGED invoice
    /\ \A a \in Activities :
         /\ readyAt[a] # Null => readyAt'[a] = readyAt[a]
         /\ a # "cutting" /\ startedAt[a] # Null => startedAt'[a] = startedAt[a]
         /\ a # "cutting" /\ finishedAt[a] # Null => finishedAt'[a] = finishedAt[a]
SealedOnce == [][SealedNow]_vars

\* Nobody is left waiting on everybody: an order in process always has a request
\* of the shop floor, by somebody, that is accepted and moves it forward.
NobodyWaitsForEver ==
    status = "in_process" =>
        \/ \E role \in Roles, a \in Activities :
              \/ StartAccepted(role, a)
              \/ CloseAccepted(role, a)
              \/ ResumeAccepted(role, a)
        \/ \E p \in Pieces : MarkAccepted(p)

\* payments.py: what stands collected never exceeds what was sold on credit, in
\* any order of payments, voids and the payment made on delivery.
NeverOvercollected == CreditCollected <= credit

\* What the code says of an order in the queue, and so of one cancelled there:
\* nobody has touched it, no piece is cut and its activities are pending.
QueuedIsUntouched ==
    status \in {"queued", "cancelled"} =>
        cut = {} /\ \A a \in Activities : work[a] = "pending"

\* The strengthening the safety proofs carry: what the status says of the
\* clocks, and the clocks of each other.
ClocksAgree ==
    /\ history # <<>>
    /\ queuedAt # Null => status # "confirmed"
    /\ status \notin {"confirmed", "cancelled"} => queuedAt # Null
    /\ \A a \in Activities :
         /\ readyAt[a] <= Len(history)
         /\ a # "cutting" =>
              /\ ActivityPieces(a) \cap cut # {} => readyAt[a] # Null
              /\ startedAt[a] # Null => work[a] # "pending"
              /\ finishedAt[a] # Null => work[a] = "done"

\* The strengthening the account carries: before the sale nothing is registered,
\* and nothing is owed.
MoneyInv ==
    /\ queuedAt = Null => payments = <<>> /\ credit = 0
    /\ NeverOvercollected

\* What every request relies on and leaves behind it: the parts above are
\* inductive only together, for a closing believes the marks, a wait believes the
\* activities they owe, and the clocks follow the status they were written in.
ShopAgrees ==
    /\ ClosedCutMarksEveryPiece
    /\ LastClosingFinishes
    /\ PauseMirrorsOneOpenRow
    /\ WaitHeldToItsCause
    /\ AssignedWhileTheShopHasIt
    /\ ClocksAgree
    /\ StartedAfterReady

\* The columns in their domains, and all of that.
ShopInv == TypeOK /\ ShopAgrees

\* An order is the abstract lifecycle over the pieces not yet cut.
Lifecycle == INSTANCE OrderLifecycle WITH uncut <- Pieces \ cut
ImplementsLifecycle == Lifecycle!Spec

\* And the abstract account over its credit and its balance.
Account == INSTANCE CreditAccount WITH
    state <- IF status = "confirmed" THEN "unsold"
             ELSE IF status = "cancelled" THEN "void" ELSE "sold",
    agreed <- credit,
    debt <- CreditBalance
ImplementsAccount == Account!Spec

=============================================================================
