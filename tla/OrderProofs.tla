---------------------------- MODULE OrderProofs -----------------------------
(***************************************************************************)
(* Proofs about Order, for every cutting plan and every bound.             *)
(***************************************************************************)
EXTENDS Order, SumTheorems, TLAPS

\* The cut always applies, and no fourth activity exists.
LEMMA ActivitiesFact ==
    /\ "cutting" \in Activities
    /\ Activities \subseteq {"cutting", "banding", "additional"}
BY DEF Activities

\* A registered method is a row of payments, or none.
LEMMA PaymentRowType ==
    ASSUME NEW amount \in Nat
    PROVE  PaymentRow(amount) \in Seq(Nat)
BY DEF PaymentRow

\* Registering payments appends rows, and voids none.
LEMMA RegisterPaymentsType ==
    ASSUME NEW cash \in Amount, NEW transfer \in Amount,
           payments \in Seq(Nat), voided \subseteq DOMAIN payments,
           RegisterPayments(cash, transfer)
    PROVE  payments' \in Seq(Nat) /\ voided' \subseteq DOMAIN payments'
<1> DEFINE new == PaymentRow(cash) \o PaymentRow(transfer)
<1>1. new \in Seq(Nat)
  BY PaymentRowType, OrderAssumption DEF Amount
<1>2. PaymentRow(cash) \in Seq(Nat) /\ PaymentRow(transfer) \in Seq(Nat)
  BY PaymentRowType, OrderAssumption DEF Amount
<1>3. payments' = payments \o new
  BY <1>2 DEF RegisterPayments
<1> HIDE DEF new
<1>4. QED
  BY <1>1, <1>3 DEF RegisterPayments

\* What one registration may do to the status and the history.
LEMMA MoveType ==
    ASSUME status \in OrderStatus, history \in Seq(OrderStatus),
           NEW to \in OrderStatus, Move(to) \/ StayPut
    PROVE  /\ status' \in OrderStatus
           /\ history' \in Seq(OrderStatus)
           /\ Len(history') \in Nat
           /\ Len(history') >= Len(history)
           /\ history # <<>> => history' # <<>>
<1>1. CASE Move(to)
  BY <1>1 DEF Move
<1>2. CASE StayPut
  BY <1>2 DEF StayPut
<1>3. QED
  BY <1>1, <1>2

\* Every column keeps a value of its domain.
THEOREM TypeCorrect == Spec => []TypeOK
<1> USE OrderAssumption, ActivitiesFact
<1>1. Init => TypeOK
  BY DEF Init, TypeOK, OrderStatus, Null, Reasons
<1>2. TypeOK /\ [Next]_vars => TypeOK'
  <2> SUFFICES ASSUME TypeOK, [Next]_vars PROVE TypeOK'
    OBVIOUS
  <2> USE DEF TypeOK, OrderStatus, Move, StayPut, Now, shopVars, saleVars,
             clockVars, pauseVars
  <2>1. ASSUME NEW role, NEW a \in Activities, StartActivity(role, a)
        PROVE TypeOK'
    <3>1. Move("in_process") \/ StayPut
      BY <2>1 DEF StartActivity, StartAccepted
    <3>2. /\ status' \in OrderStatus
          /\ history' \in Seq(OrderStatus)
          /\ Len(history') \in Nat
      BY <3>1, MoveType
    <3>5. assignedAt' \in Nat
      BY <2>1, <3>2 DEF StartActivity, StartAccepted
    <3>3. /\ work' = [work EXCEPT ![a] = "in_progress"]
          /\ startedAt' = [startedAt EXCEPT ![a] = Len(history')]
          /\ UNCHANGED <<readyAt, finishedAt, pauseVars, cut, queuedAt, saleVars>>
      BY <2>1 DEF StartActivity, StartAccepted
    <3>4. QED
      BY <3>2, <3>5, <3>3
  <2>2. ASSUME NEW role, NEW a \in Activities, CloseActivity(role, a)
        PROVE TypeOK'
    <3>1. Move("finished") \/ StayPut
      BY <2>2 DEF CloseActivity, CloseAccepted, LastOpen
    <3>2. /\ status' \in OrderStatus
          /\ history' \in Seq(OrderStatus)
          /\ Len(history') \in Nat
      BY <3>1, MoveType
    <3>3. /\ work' = [work EXCEPT ![a] = "done"]
          /\ finishedAt' = [finishedAt EXCEPT ![a] = Len(history')]
          /\ pause' \in [Activities -> Reasons]
          /\ openPauses' \in [Activities -> Nat]
          /\ UNCHANGED <<readyAt, startedAt, cut, queuedAt, assignedAt, saleVars>>
      BY <2>2 DEF CloseActivity, CloseAccepted, LastOpen, ClosePauses, Reasons
    <3>4. QED
      BY <3>2, <3>3
  <2>3. ASSUME NEW role, NEW a \in Activities, NEW reason \in PauseReasons(a),
               PauseActivity(role, a, reason)
        PROVE TypeOK'
    <3>1. reason \in Reasons
      BY <2>3 DEF Reasons
    <3>2. QED
      BY <2>3, <3>1 DEF PauseActivity
  <2>4. ASSUME NEW role, NEW a \in Activities, ResumeActivity(role, a)
        PROVE TypeOK'
    BY <2>4 DEF ResumeActivity, ResumeAccepted, ClosePauses, Reasons
  <2>5. ASSUME NEW p \in Pieces, MarkPieceCut(p) PROVE TypeOK'
    BY <2>5 DEF MarkPieceCut, MarkAccepted, ClosePauses, Reasons
  <2>6. ASSUME NEW p \in Pieces, UnmarkPieceCut(p) PROVE TypeOK'
    BY <2>6 DEF UnmarkPieceCut
  <2>7. ASSUME NEW role, NEW c \in Amount, NEW inv \in Invoices \union {NoInvoice},
               EnterQueue(role, c, inv)
        PROVE TypeOK'
    BY <2>7 DEF EnterQueue, Amount
  <2>8. ASSUME NEW role, Take(role) PROVE TypeOK'
    BY <2>8 DEF Take
  <2>9. ASSUME NEW role, Rollback(role) PROVE TypeOK'
    BY <2>9 DEF Rollback, ClosePauses, Reasons, Null
  <2>10. ASSUME NEW role, NEW cash \in Amount, NEW transfer \in Amount, NEW note,
                Dispatch(role, cash, transfer, note)
         PROVE TypeOK'
    BY <2>10, RegisterPaymentsType DEF Dispatch
  <2>11. ASSUME NEW role, Cancel(role) PROVE TypeOK'
    BY <2>11 DEF Cancel
  <2>12. ASSUME NEW cash \in Amount, NEW transfer \in Amount,
                AddPayment(cash, transfer)
         PROVE TypeOK'
    BY <2>12, RegisterPaymentsType DEF AddPayment
  <2>13. ASSUME NEW i \in DOMAIN payments, VoidPayment(i) PROVE TypeOK'
    BY <2>13 DEF VoidPayment, StandingRows
  <2>14. ASSUME NEW inv \in Invoices, SetExternalInvoiceId(inv) PROVE TypeOK'
    BY <2>14 DEF SetExternalInvoiceId
  <2>15. CASE UNCHANGED vars
    BY <2>15 DEF vars
  <2>16. QED
    BY <2>1, <2>2, <2>3, <2>4, <2>5, <2>6, <2>7, <2>8, <2>9, <2>10,
       <2>11, <2>12, <2>13, <2>14, <2>15 DEF Next, ShopNext, OfficeNext
<1>3. QED
  BY <1>1, <1>2, PTL DEF Spec


-----------------------------------------------------------------------------
(* The safety of the shop floor *)

\* A confirmed order has nothing assigned, cut, started or paused.
LEMMA ShopInit == Init => ShopAgrees
BY OrderAssumption, ActivitiesFact
   DEF Init, ShopAgrees, ClosedCutMarksEveryPiece, LastClosingFinishes,
       PauseMirrorsOneOpenRow, WaitHeldToItsCause, AssignedWhileTheShopHasIt,
       ClocksAgree, StartedAfterReady, Null, Paused, Waiting, AllDone

\* The requests that only move the sale: they leave the shop floor alone.
OfficeStep ==
    \/ \E role \in Roles :
          \/ \E cash, transfer \in Amount, note \in BOOLEAN :
                Dispatch(role, cash, transfer, note)
          \/ Cancel(role)
    \/ \E cash, transfer \in Amount : AddPayment(cash, transfer)
    \/ \E i \in DOMAIN payments : VoidPayment(i)
    \/ \E inv \in Invoices : SetExternalInvoiceId(inv)
    \/ UNCHANGED vars

\* What such a request can do: nothing, or close an order the shop is done with
\* or never began.
LEMMA OfficeEffect ==
    ASSUME OfficeStep
    PROVE  /\ UNCHANGED <<work, readyAt, startedAt, finishedAt, pause, openPauses,
                          cut, queuedAt, assignedAt>>
           /\ \/ UNCHANGED <<status, history>>
              \/ status = "finished" /\ Move("dispatched")
              \/ status \in {"confirmed", "queued"} /\ Move("cancelled")
<1>1. ASSUME NEW role, NEW cash, NEW transfer, NEW note \in BOOLEAN,
             Dispatch(role, cash, transfer, note)
      PROVE  /\ UNCHANGED <<work, readyAt, startedAt, finishedAt, pause, openPauses,
                            cut, queuedAt, assignedAt>>
             /\ status = "finished" /\ Move("dispatched")
  BY <1>1 DEF Dispatch, shopVars, clockVars, pauseVars
<1>2. ASSUME NEW role, Cancel(role)
      PROVE  /\ UNCHANGED <<work, readyAt, startedAt, finishedAt, pause, openPauses,
                            cut, queuedAt, assignedAt>>
             /\ status \in {"confirmed", "queued"} /\ Move("cancelled")
  BY <1>2 DEF Cancel, TransitionRoles, shopVars, clockVars, pauseVars
<1>3. ASSUME \/ \E cash, transfer \in Amount : AddPayment(cash, transfer)
             \/ \E i \in DOMAIN payments : VoidPayment(i)
             \/ \E inv \in Invoices : SetExternalInvoiceId(inv)
             \/ UNCHANGED vars
      PROVE  UNCHANGED <<work, readyAt, startedAt, finishedAt, pause, openPauses,
                         cut, queuedAt, assignedAt, status, history>>
  BY <1>3 DEF AddPayment, VoidPayment, SetExternalInvoiceId, vars, shopVars,
              clockVars, pauseVars
<1>4. CASE \E role \in Roles, cash, transfer \in Amount, note \in BOOLEAN :
             Dispatch(role, cash, transfer, note)
  BY <1>1, <1>4
<1>5. CASE \E role \in Roles : Cancel(role)
  BY <1>2, <1>5
<1>6. QED
  BY <1>3, <1>4, <1>5 DEF OfficeStep

\* A closed cut keeps every piece marked, and the last closing finishes the order.
LEMMA CutStep ==
    TypeOK /\ ShopAgrees /\ [Next]_vars => (ClosedCutMarksEveryPiece /\ LastClosingFinishes)'
<1> SUFFICES ASSUME TypeOK, ClosedCutMarksEveryPiece, LastClosingFinishes, [Next]_vars
             PROVE  (ClosedCutMarksEveryPiece /\ LastClosingFinishes)'
  BY DEF ShopAgrees
<1> USE ActivitiesFact DEF TypeOK, ClosedCutMarksEveryPiece, LastClosingFinishes, AllDone,
        Pending, ActivityPieces, Move, StayPut, shopVars, saleVars, clockVars, pauseVars
<1>1. ASSUME NEW role, NEW a \in Activities, StartActivity(role, a)
      PROVE  (ClosedCutMarksEveryPiece /\ LastClosingFinishes)'
  <2>1. /\ work' = [work EXCEPT ![a] = "in_progress"]
        /\ work[a] = "pending"
        /\ UNCHANGED cut
        /\ status \in {"queued", "in_process"}
        /\ status' = "in_process"
    BY <1>1 DEF StartActivity, StartAccepted
  <2>2. ~AllDone'
    BY <2>1
  <2>3. QED
    BY <2>1, <2>2
<1>2. ASSUME NEW role, NEW a \in Activities, CloseActivity(role, a)
      PROVE  (ClosedCutMarksEveryPiece /\ LastClosingFinishes)'
  <2>1. /\ work' = [work EXCEPT ![a] = "done"]
        /\ UNCHANGED cut
        /\ status = "in_process"
        /\ a = "cutting" => cut = Pieces
    BY <1>2 DEF CloseActivity, CloseAccepted, LastOpen
  <2>2. AllDone' <=> \A b \in Activities \ {a} : work[b] = "done"
    BY <2>1
  <2>3. IF \A b \in Activities \ {a} : work[b] = "done"
        THEN status' = "finished" ELSE status' = "in_process"
    BY <1>2, <2>1 DEF CloseActivity, CloseAccepted, LastOpen
  <2>4. QED
    BY <2>1, <2>2, <2>3
<1>3. ASSUME NEW role, NEW a \in Activities, NEW reason \in PauseReasons(a), PauseActivity(role, a, reason)
      PROVE  (ClosedCutMarksEveryPiece /\ LastClosingFinishes)'
  BY <1>3 DEF PauseActivity
<1>4. ASSUME NEW role, NEW a \in Activities, ResumeActivity(role, a)
      PROVE  (ClosedCutMarksEveryPiece /\ LastClosingFinishes)'
  BY <1>4 DEF ResumeActivity, ResumeAccepted, ClosePauses
<1>5. ASSUME NEW p \in Pieces, MarkPieceCut(p)
      PROVE  (ClosedCutMarksEveryPiece /\ LastClosingFinishes)'
  BY <1>5 DEF MarkPieceCut, MarkAccepted, ClosePauses, CutUnderWay
<1>6. ASSUME NEW p \in Pieces, UnmarkPieceCut(p)
      PROVE  (ClosedCutMarksEveryPiece /\ LastClosingFinishes)'
  BY <1>6 DEF UnmarkPieceCut, CutUnderWay
<1>7. ASSUME NEW role, NEW c \in Amount,
             NEW inv \in Invoices \union {NoInvoice}, EnterQueue(role, c, inv)
      PROVE  (ClosedCutMarksEveryPiece /\ LastClosingFinishes)'
  BY <1>7 DEF EnterQueue
<1>8. ASSUME NEW role, Take(role)
      PROVE  (ClosedCutMarksEveryPiece /\ LastClosingFinishes)'
  BY <1>8 DEF Take
<1>9. ASSUME NEW role, Rollback(role)
      PROVE  (ClosedCutMarksEveryPiece /\ LastClosingFinishes)'
  BY <1>9 DEF Rollback, ClosePauses
<1>10. ASSUME OfficeStep PROVE (ClosedCutMarksEveryPiece /\ LastClosingFinishes)'
  BY <1>10, OfficeEffect
<1>11. QED
  BY <1>1, <1>2, <1>3, <1>4, <1>5, <1>6, <1>7, <1>8, <1>9, <1>10 DEF Next, ShopNext, OfficeNext, OfficeStep

\* A paused activity is one in progress, with its one open row.
LEMMA PauseStep ==
    TypeOK /\ ShopAgrees /\ [Next]_vars => PauseMirrorsOneOpenRow'
<1> SUFFICES ASSUME TypeOK, PauseMirrorsOneOpenRow, [Next]_vars
             PROVE  PauseMirrorsOneOpenRow'
  BY DEF ShopAgrees
<1> USE ActivitiesFact DEF TypeOK, PauseMirrorsOneOpenRow, Paused,
        Move, StayPut, shopVars, saleVars, clockVars, pauseVars
<1>1. ASSUME NEW role, NEW a \in Activities, StartActivity(role, a)
      PROVE  PauseMirrorsOneOpenRow'
  BY <1>1 DEF StartActivity, StartAccepted
<1>2. ASSUME NEW role, NEW a \in Activities, CloseActivity(role, a)
      PROVE  PauseMirrorsOneOpenRow'
  BY <1>2 DEF CloseActivity, CloseAccepted, LastOpen, ClosePauses
<1>3. ASSUME NEW role, NEW a \in Activities, NEW reason \in PauseReasons(a), PauseActivity(role, a, reason)
      PROVE  PauseMirrorsOneOpenRow'
  <2>1. /\ pause' = [pause EXCEPT ![a] = reason]
        /\ openPauses' = [openPauses EXCEPT ![a] = @ + 1]
        /\ work' = work /\ work[a] = "in_progress" /\ ~Paused(a)
    BY <1>3 DEF PauseActivity
  <2>2. reason # "none"
    BY DEF PauseReasons
  <2>3. Paused(a)' /\ openPauses'[a] = 1
    BY <2>1, <2>2
  <2>4. \A b \in Activities \ {a} : (Paused(b)' <=> Paused(b)) /\ openPauses'[b] = openPauses[b]
    BY <2>1
  <2>5. QED
    BY <2>1, <2>3, <2>4
<1>4. ASSUME NEW role, NEW a \in Activities, ResumeActivity(role, a)
      PROVE  PauseMirrorsOneOpenRow'
  BY <1>4 DEF ResumeActivity, ResumeAccepted, ClosePauses
<1>5. ASSUME NEW p \in Pieces, MarkPieceCut(p)
      PROVE  PauseMirrorsOneOpenRow'
  BY <1>5 DEF MarkPieceCut, MarkAccepted, ClosePauses, CutUnderWay
<1>6. ASSUME NEW p \in Pieces, UnmarkPieceCut(p)
      PROVE  PauseMirrorsOneOpenRow'
  BY <1>6 DEF UnmarkPieceCut, CutUnderWay
<1>7. ASSUME NEW role, NEW c \in Amount,
             NEW inv \in Invoices \union {NoInvoice}, EnterQueue(role, c, inv)
      PROVE  PauseMirrorsOneOpenRow'
  BY <1>7 DEF EnterQueue
<1>8. ASSUME NEW role, Take(role)
      PROVE  PauseMirrorsOneOpenRow'
  BY <1>8 DEF Take
<1>9. ASSUME NEW role, Rollback(role)
      PROVE  PauseMirrorsOneOpenRow'
  BY <1>9 DEF Rollback, ClosePauses
<1>10. ASSUME OfficeStep PROVE PauseMirrorsOneOpenRow'
  BY <1>10, OfficeEffect
<1>11. QED
  BY <1>1, <1>2, <1>3, <1>4, <1>5, <1>6, <1>7, <1>8, <1>9, <1>10 DEF Next, ShopNext, OfficeNext, OfficeStep

\* The name on the order comes and goes with the shop having it.
LEMMA AssignedStep ==
    TypeOK /\ ShopAgrees /\ [Next]_vars => AssignedWhileTheShopHasIt'
<1> SUFFICES ASSUME TypeOK, AssignedWhileTheShopHasIt, [Next]_vars
             PROVE  AssignedWhileTheShopHasIt'
  BY DEF ShopAgrees
<1> USE ActivitiesFact DEF TypeOK, AssignedWhileTheShopHasIt, OrderStatus, Null, Now,
        Move, StayPut, shopVars, saleVars, clockVars, pauseVars
<1>1. ASSUME NEW role, NEW a \in Activities, StartActivity(role, a)
      PROVE  AssignedWhileTheShopHasIt'
  BY <1>1 DEF StartActivity, StartAccepted
<1>2. ASSUME NEW role, NEW a \in Activities, CloseActivity(role, a)
      PROVE  AssignedWhileTheShopHasIt'
  BY <1>2 DEF CloseActivity, CloseAccepted, LastOpen, ClosePauses
<1>3. ASSUME NEW role, NEW a \in Activities, NEW reason \in PauseReasons(a), PauseActivity(role, a, reason)
      PROVE  AssignedWhileTheShopHasIt'
  BY <1>3 DEF PauseActivity
<1>4. ASSUME NEW role, NEW a \in Activities, ResumeActivity(role, a)
      PROVE  AssignedWhileTheShopHasIt'
  BY <1>4 DEF ResumeActivity, ResumeAccepted, ClosePauses
<1>5. ASSUME NEW p \in Pieces, MarkPieceCut(p)
      PROVE  AssignedWhileTheShopHasIt'
  BY <1>5 DEF MarkPieceCut, MarkAccepted, ClosePauses, CutUnderWay
<1>6. ASSUME NEW p \in Pieces, UnmarkPieceCut(p)
      PROVE  AssignedWhileTheShopHasIt'
  BY <1>6 DEF UnmarkPieceCut, CutUnderWay
<1>7. ASSUME NEW role, NEW c \in Amount,
             NEW inv \in Invoices \union {NoInvoice}, EnterQueue(role, c, inv)
      PROVE  AssignedWhileTheShopHasIt'
  BY <1>7 DEF EnterQueue
<1>8. ASSUME NEW role, Take(role)
      PROVE  AssignedWhileTheShopHasIt'
  BY <1>8 DEF Take
<1>9. ASSUME NEW role, Rollback(role)
      PROVE  AssignedWhileTheShopHasIt'
  BY <1>9 DEF Rollback, ClosePauses
<1>10. ASSUME OfficeStep PROVE AssignedWhileTheShopHasIt'
  BY <1>10, OfficeEffect
<1>11. QED
  BY <1>1, <1>2, <1>3, <1>4, <1>5, <1>6, <1>7, <1>8, <1>9, <1>10 DEF Next, ShopNext, OfficeNext, OfficeStep

\* A wait for pieces still has its cause after every step.
LEMMA WaitStep ==
    TypeOK /\ ShopAgrees /\ [Next]_vars => WaitHeldToItsCause'
<1> SUFFICES ASSUME TypeOK, PauseMirrorsOneOpenRow, WaitHeldToItsCause, [Next]_vars
             PROVE  WaitHeldToItsCause'
  BY DEF ShopAgrees
<1> USE ActivitiesFact DEF TypeOK, WaitHeldToItsCause, PauseMirrorsOneOpenRow, Waiting, Paused,
        OwesPieces, BandingOpen, Pending, Move, StayPut, shopVars, saleVars, clockVars, pauseVars
<1>1. ASSUME NEW role, NEW a \in Activities, StartActivity(role, a)
      PROVE  WaitHeldToItsCause'
  BY <1>1 DEF StartActivity, StartAccepted
<1>2. ASSUME NEW role, NEW a \in Activities, CloseActivity(role, a)
      PROVE  WaitHeldToItsCause'
  BY <1>2 DEF CloseActivity, CloseAccepted, LastOpen, ClosePauses
<1>3. ASSUME NEW role, NEW a \in Activities, NEW reason \in PauseReasons(a), PauseActivity(role, a, reason)
      PROVE  WaitHeldToItsCause'
  BY <1>3 DEF PauseActivity
<1>4. ASSUME NEW role, NEW a \in Activities, ResumeActivity(role, a)
      PROVE  WaitHeldToItsCause'
  BY <1>4 DEF ResumeActivity, ResumeAccepted, ClosePauses
<1>5. ASSUME NEW p \in Pieces, MarkPieceCut(p)
      PROVE  WaitHeldToItsCause'
  BY <1>5 DEF MarkPieceCut, MarkAccepted, ClosePauses, CutUnderWay, PieceArrives
<1>6. ASSUME NEW p \in Pieces, UnmarkPieceCut(p)
      PROVE  WaitHeldToItsCause'
  BY <1>6 DEF UnmarkPieceCut, CutUnderWay
<1>7. ASSUME NEW role, NEW c \in Amount,
             NEW inv \in Invoices \union {NoInvoice}, EnterQueue(role, c, inv)
      PROVE  WaitHeldToItsCause'
  BY <1>7 DEF EnterQueue
<1>8. ASSUME NEW role, Take(role)
      PROVE  WaitHeldToItsCause'
  BY <1>8 DEF Take
<1>9. ASSUME NEW role, Rollback(role)
      PROVE  WaitHeldToItsCause'
  BY <1>9 DEF Rollback, ClosePauses
<1>10. ASSUME OfficeStep PROVE WaitHeldToItsCause'
  BY <1>10, OfficeEffect
<1>11. QED
  BY <1>1, <1>2, <1>3, <1>4, <1>5, <1>6, <1>7, <1>8, <1>9, <1>10 DEF Next, ShopNext, OfficeNext, OfficeStep

\* The clocks stay in order.
LEMMA ClocksStep ==
    TypeOK /\ ShopAgrees /\ [Next]_vars => (ClocksAgree /\ StartedAfterReady)'
<1> SUFFICES ASSUME TypeOK, ClocksAgree, StartedAfterReady, [Next]_vars
             PROVE  (ClocksAgree /\ StartedAfterReady)'
  BY DEF ShopAgrees
<1> USE ActivitiesFact DEF TypeOK, ClocksAgree, StartedAfterReady, OrderStatus, Null, Now,
        Move, StayPut, shopVars, saleVars, clockVars, pauseVars
<1>1. ASSUME NEW role, NEW a \in Activities, StartActivity(role, a)
      PROVE  (ClocksAgree /\ StartedAfterReady)'
  BY <1>1 DEF StartActivity, StartAccepted, MayStart, NeedsACutPiece
<1>2. ASSUME NEW role, NEW a \in Activities, CloseActivity(role, a)
      PROVE  (ClocksAgree /\ StartedAfterReady)'
  <2>1. Move("finished") \/ StayPut
    BY <1>2 DEF CloseActivity, CloseAccepted, LastOpen
  <2>2. /\ Len(history') \in Nat
        /\ Len(history') >= Len(history)
        /\ history' # <<>>
    BY <2>1, MoveType
  <2>3. status' \in {"in_process", "finished"} /\ status = "in_process"
    BY <1>2, <2>1 DEF CloseActivity, CloseAccepted, LastOpen
  <2>4. /\ work' = [work EXCEPT ![a] = "done"]
        /\ finishedAt' = [finishedAt EXCEPT ![a] = Len(history')]
        /\ UNCHANGED <<readyAt, startedAt, cut, queuedAt>>
    BY <1>2 DEF CloseActivity, CloseAccepted, LastOpen
  <2>5. QED
    BY <2>2, <2>3, <2>4
<1>3. ASSUME NEW role, NEW a \in Activities, NEW reason \in PauseReasons(a), PauseActivity(role, a, reason)
      PROVE  (ClocksAgree /\ StartedAfterReady)'
  BY <1>3 DEF PauseActivity
<1>4. ASSUME NEW role, NEW a \in Activities, ResumeActivity(role, a)
      PROVE  (ClocksAgree /\ StartedAfterReady)'
  BY <1>4 DEF ResumeActivity, ResumeAccepted, ClosePauses
<1>5. ASSUME NEW p \in Pieces, MarkPieceCut(p)
      PROVE  (ClocksAgree /\ StartedAfterReady)'
  BY <1>5 DEF MarkPieceCut, MarkAccepted, ClosePauses, CutUnderWay
<1>6. ASSUME NEW p \in Pieces, UnmarkPieceCut(p)
      PROVE  (ClocksAgree /\ StartedAfterReady)'
  BY <1>6 DEF UnmarkPieceCut, CutUnderWay
<1>7. ASSUME NEW role, NEW c \in Amount,
             NEW inv \in Invoices \union {NoInvoice}, EnterQueue(role, c, inv)
      PROVE  (ClocksAgree /\ StartedAfterReady)'
  BY <1>7 DEF EnterQueue
<1>8. ASSUME NEW role, Take(role)
      PROVE  (ClocksAgree /\ StartedAfterReady)'
  BY <1>8 DEF Take
<1>9. ASSUME NEW role, Rollback(role)
      PROVE  (ClocksAgree /\ StartedAfterReady)'
  BY <1>9 DEF Rollback, ClosePauses
<1>10. ASSUME OfficeStep PROVE (ClocksAgree /\ StartedAfterReady)'
  BY <1>10, OfficeEffect
<1>11. QED
  BY <1>1, <1>2, <1>3, <1>4, <1>5, <1>6, <1>7, <1>8, <1>9, <1>10 DEF Next, ShopNext, OfficeNext, OfficeStep

\* The parts that are inductive only together hold in every state.
LEMMA ShopKeepsAgreeing == Spec => []ShopAgrees
<1>1. TypeOK /\ ShopAgrees /\ [Next]_vars => ShopAgrees'
  BY CutStep, PauseStep, AssignedStep, WaitStep, ClocksStep DEF ShopAgrees
<1>2. QED
  BY <1>1, ShopInit, TypeCorrect, PTL DEF Spec

\* The invariant the run checks: the columns in their domains, and the parts that rely on
\* one another.
THEOREM ShopSafe == Spec => []ShopInv
  BY TypeCorrect, ShopKeepsAgreeing, PTL DEF ShopInv

\* An order past the shop has every activity closed and every piece cut.
THEOREM FinishedComplete == Spec => []FinishedWorkIsComplete
<1>1. ShopAgrees => FinishedWorkIsComplete
  BY ActivitiesFact
     DEF ShopAgrees, FinishedWorkIsComplete, LastClosingFinishes,
         ClosedCutMarksEveryPiece, AllDone
<1>2. QED
  BY <1>1, ShopKeepsAgreeing, PTL

\* No wait for pieces outlives its cause.
THEOREM WaitsHeld == Spec => []WaitHeldToItsCause
<1>1. ShopAgrees => WaitHeldToItsCause
  BY DEF ShopAgrees
<1>2. QED
  BY <1>1, ShopKeepsAgreeing, PTL

\* The mirror columns of a pause agree with its rows.
THEOREM PausesMirrored == Spec => []PauseMirrorsOneOpenRow
<1>1. ShopAgrees => PauseMirrorsOneOpenRow
  BY DEF ShopAgrees
<1>2. QED
  BY <1>1, ShopKeepsAgreeing, PTL

-----------------------------------------------------------------------------
(* The history *)

\* A step that moves the order moves it along an edge of the graph, and no other
\* step writes the history.
LEMMA MovesAreEdges ==
    ASSUME TypeOK, Next
    PROVE  StayPut \/ \E to \in OrderStatus : TransitionRoles(status, to) # {} /\ Move(to)
<1> USE DEF OrderStatus
<1>1. ASSUME NEW role, NEW a, StartActivity(role, a)
      PROVE  StayPut \/ \E to \in OrderStatus : TransitionRoles(status, to) # {} /\ Move(to)
  BY <1>1 DEF StartActivity, StartAccepted
<1>2. ASSUME NEW role, NEW a, CloseActivity(role, a)
      PROVE  StayPut \/ \E to \in OrderStatus : TransitionRoles(status, to) # {} /\ Move(to)
  BY <1>2 DEF CloseActivity, CloseAccepted, LastOpen
<1>3. ASSUME NEW role, NEW a, NEW reason, PauseActivity(role, a, reason) PROVE StayPut
  BY <1>3 DEF PauseActivity, StayPut
<1>4. ASSUME NEW role, NEW a, ResumeActivity(role, a) PROVE StayPut
  BY <1>4 DEF ResumeActivity, ResumeAccepted, StayPut
<1>5. ASSUME NEW p, MarkPieceCut(p) \/ UnmarkPieceCut(p) PROVE StayPut
  BY <1>5 DEF MarkPieceCut, MarkAccepted, UnmarkPieceCut, StayPut
<1>6. ASSUME NEW role, NEW c, NEW inv, EnterQueue(role, c, inv)
      PROVE  TransitionRoles(status, "queued") # {} /\ Move("queued")
  BY <1>6 DEF EnterQueue
<1>7. ASSUME NEW role, Take(role)
      PROVE  TransitionRoles(status, "in_process") # {} /\ Move("in_process")
  BY <1>7 DEF Take
<1>8. ASSUME NEW role, Rollback(role)
      PROVE  TransitionRoles(status, "queued") # {} /\ Move("queued")
  BY <1>8 DEF Rollback
<1>9. ASSUME NEW role, NEW cash, NEW transfer, NEW note, Dispatch(role, cash, transfer, note)
      PROVE  TransitionRoles(status, "dispatched") # {} /\ Move("dispatched")
  BY <1>9 DEF Dispatch
<1>10. ASSUME NEW role, Cancel(role)
       PROVE  TransitionRoles(status, "cancelled") # {} /\ Move("cancelled")
  BY <1>10 DEF Cancel
<1>11. ASSUME NEW cash, NEW transfer, AddPayment(cash, transfer) PROVE StayPut
  BY <1>11 DEF AddPayment, StayPut
<1>12. ASSUME NEW i, VoidPayment(i) PROVE StayPut
  BY <1>12 DEF VoidPayment, StayPut
<1>13. ASSUME NEW inv, SetExternalInvoiceId(inv) PROVE StayPut
  BY <1>13 DEF SetExternalInvoiceId, StayPut
<1>14. QED
  BY <1>1, <1>2, <1>3, <1>4, <1>5, <1>6, <1>7, <1>8, <1>9, <1>10, <1>11, <1>12, <1>13
  DEF Next, ShopNext, OfficeNext

\* A move along an edge is one step more of the biography.
LEMMA BiographyStep ==
    ASSUME TypeOK, history # <<>>, HistoryTellsTheStatus, [Next]_vars
    PROVE  history' # <<>> /\ HistoryTellsTheStatus'
<1>1. CASE StayPut \/ UNCHANGED vars
  BY <1>1 DEF StayPut, vars, HistoryTellsTheStatus
<1>2. ASSUME NEW to \in OrderStatus, TransitionRoles(status, to) # {}, Move(to)
      PROVE  history' # <<>> /\ HistoryTellsTheStatus'
  <2>1. /\ history \in Seq(OrderStatus) /\ Len(history) \in Nat \ {0}
        /\ history' = Append(history, to) /\ status' = to
    BY <1>2 DEF TypeOK, Move
  <2>2. /\ Len(history') = Len(history) + 1 /\ history'[Len(history) + 1] = to
        /\ \A i \in 1..Len(history) : history'[i] = history[i]
    BY <2>1
  <2>3. \A i \in 1..(Len(history') - 1) : TransitionRoles(history'[i], history'[i + 1]) # {}
    <3> SUFFICES ASSUME NEW i \in 1..Len(history)
                 PROVE  TransitionRoles(history'[i], history'[i + 1]) # {}
      BY <2>1, <2>2
    <3>1. CASE i = Len(history)
      <4>1. history[i] = status
        BY <3>1 DEF HistoryTellsTheStatus
      <4>2. QED
        BY <1>2, <2>2, <3>1, <4>1
    <3>2. CASE i # Len(history)
      <4>1. i \in 1..(Len(history) - 1) /\ i + 1 \in 1..Len(history)
        BY <2>1, <3>2
      <4>2. TransitionRoles(history[i], history[i + 1]) # {}
        BY <4>1 DEF HistoryTellsTheStatus
      <4>3. QED
        BY <2>2, <4>1, <4>2
    <3>3. QED
      BY <3>1, <3>2
  <2>4. history' # <<>>
    BY <2>1, <2>2
  <2>5. QED
    BY <2>1, <2>2, <2>3, <2>4 DEF HistoryTellsTheStatus, TransitionRoles, Roles
<1>3. QED
  BY <1>1, <1>2, MovesAreEdges

\* The history ends where the order is and never skips an edge of the graph, whatever
\* the requests of shop and office and in whichever order.
THEOREM HistoryTold == Spec => []HistoryTellsTheStatus
<1> DEFINE Biography == history # <<>> /\ HistoryTellsTheStatus
<1>1. Init => Biography
  BY DEF Init, HistoryTellsTheStatus
<1>2. TypeOK /\ Biography /\ [Next]_vars => Biography'
  BY BiographyStep
<1>3. Biography => HistoryTellsTheStatus
  OBVIOUS
<1> HIDE DEF Biography
<1>4. QED
  BY <1>1, <1>2, <1>3, TypeCorrect, PTL DEF Spec

-----------------------------------------------------------------------------
(* The refinement of OrderLifecycle *)

\* A confirmed order is a new lifecycle, all its pieces uncut.
LEMMA LifecycleInit == Init => Lifecycle!Init
BY DEF Init, Lifecycle!Init

\* Every request is a step of the lifecycle or leaves it alone: the marks are the
\* saw's, and only the closing that finds every piece cut finishes.
LEMMA LifecycleStep ==
    TypeOK /\ ShopAgrees /\ [Next]_vars => [Lifecycle!Next]_(Lifecycle!vars)
<1> SUFFICES ASSUME TypeOK, ClosedCutMarksEveryPiece, [Next]_vars
             PROVE  [Lifecycle!Next]_(Lifecycle!vars)
  BY DEF ShopAgrees
<1> USE DEF Lifecycle!Next, Lifecycle!vars, Lifecycle!Step, Move, StayPut
<1>1. ASSUME NEW role, NEW a \in Activities, StartActivity(role, a)
      PROVE  [Lifecycle!Next]_(Lifecycle!vars)
  BY <1>1 DEF StartActivity, StartAccepted, Lifecycle!Take
<1>2. ASSUME NEW role, NEW a \in Activities, CloseActivity(role, a)
      PROVE  [Lifecycle!Next]_(Lifecycle!vars)
  <2>1. UNCHANGED cut /\ status = "in_process"
    BY <1>2 DEF CloseActivity, CloseAccepted, LastOpen
  <2>2. CASE StayPut
    BY <2>1, <2>2
  <2>3. CASE Move("finished") /\ \A b \in Activities \ {a} : work[b] = "done"
    <3>1. cut = Pieces
      BY <1>2, <2>3, ActivitiesFact
         DEF CloseActivity, CloseAccepted, LastOpen, TypeOK, ClosedCutMarksEveryPiece, Pending, ActivityPieces
    <3>2. QED
      BY <2>1, <2>3, <3>1 DEF Lifecycle!Finish
  <2>4. QED
    BY <1>2, <2>2, <2>3 DEF CloseActivity, CloseAccepted, LastOpen
<1>3. ASSUME NEW role, NEW a \in Activities, NEW reason \in PauseReasons(a),
             PauseActivity(role, a, reason)
      PROVE  [Lifecycle!Next]_(Lifecycle!vars)
  BY <1>3 DEF PauseActivity
<1>4. ASSUME NEW role, NEW a \in Activities, ResumeActivity(role, a)
      PROVE  [Lifecycle!Next]_(Lifecycle!vars)
  BY <1>4 DEF ResumeActivity, ResumeAccepted
<1>5. ASSUME NEW p \in Pieces, MarkPieceCut(p)
      PROVE  [Lifecycle!Next]_(Lifecycle!vars)
  BY <1>5 DEF MarkPieceCut, MarkAccepted, CutUnderWay, Lifecycle!Saw
<1>6. ASSUME NEW p \in Pieces, UnmarkPieceCut(p)
      PROVE  [Lifecycle!Next]_(Lifecycle!vars)
  BY <1>6 DEF UnmarkPieceCut, CutUnderWay, Lifecycle!Saw
<1>7. ASSUME NEW role, NEW c \in Amount, NEW inv \in Invoices \union {NoInvoice},
             EnterQueue(role, c, inv)
      PROVE  [Lifecycle!Next]_(Lifecycle!vars)
  BY <1>7 DEF EnterQueue, Lifecycle!Pay
<1>8. ASSUME NEW role, Take(role)
      PROVE  [Lifecycle!Next]_(Lifecycle!vars)
  BY <1>8 DEF Take, shopVars, Lifecycle!Take
<1>9. ASSUME NEW role, Rollback(role)
      PROVE  [Lifecycle!Next]_(Lifecycle!vars)
  BY <1>9 DEF Rollback, Lifecycle!SendBack
<1>10. ASSUME OfficeStep PROVE [Lifecycle!Next]_(Lifecycle!vars)
  BY <1>10, OfficeEffect DEF Lifecycle!HandOver, Lifecycle!Cancel
<1>11. QED
  BY <1>1, <1>2, <1>3, <1>4, <1>5, <1>6, <1>7, <1>8, <1>9, <1>10
     DEF Next, ShopNext, OfficeNext, OfficeStep

\* Every behaviour of the order is one of the abstract lifecycle: nothing is
\* finished with a piece on the saw, whatever the activities do in between.
THEOREM RefinesLifecycle == Spec => ImplementsLifecycle
BY LifecycleInit, LifecycleStep, TypeCorrect, ShopKeepsAgreeing, PTL
   DEF Spec, ImplementsLifecycle, Lifecycle!Spec

-----------------------------------------------------------------------------
(* What is sealed stays sealed *)

\* No request rewrites what is sealed: the clocks agree with the status, so each
\* is written from a status, or for an activity, that has none yet.
LEMMA SealedStep ==
    TypeOK /\ ShopAgrees /\ [Next]_vars => [SealedNow]_vars
<1> SUFFICES ASSUME TypeOK, ClocksAgree, [Next]_vars PROVE SealedNow
  BY DEF ShopAgrees
<1> USE ActivitiesFact DEF TypeOK, ClocksAgree, SealedNow, Null, Now, Move, StayPut,
        shopVars, saleVars, clockVars, pauseVars
<1>1. ASSUME NEW role, NEW a \in Activities, StartActivity(role, a) PROVE SealedNow
  BY <1>1 DEF StartActivity, StartAccepted
<1>2. ASSUME NEW role, NEW a \in Activities, CloseActivity(role, a) PROVE SealedNow
  BY <1>2 DEF CloseActivity, CloseAccepted, LastOpen
<1>3. ASSUME NEW role, NEW a \in Activities, NEW reason \in PauseReasons(a),
             PauseActivity(role, a, reason)
      PROVE  SealedNow
  BY <1>3 DEF PauseActivity
<1>4. ASSUME NEW role, NEW a \in Activities, ResumeActivity(role, a) PROVE SealedNow
  BY <1>4 DEF ResumeActivity, ResumeAccepted
<1>5. ASSUME NEW p \in Pieces, MarkPieceCut(p) PROVE SealedNow
  BY <1>5 DEF MarkPieceCut, MarkAccepted
<1>6. ASSUME NEW p \in Pieces, UnmarkPieceCut(p) PROVE SealedNow
  BY <1>6 DEF UnmarkPieceCut
<1>7. ASSUME NEW role, NEW c \in Amount, NEW inv \in Invoices \union {NoInvoice},
             EnterQueue(role, c, inv)
      PROVE  SealedNow
  BY <1>7 DEF EnterQueue
<1>8. ASSUME NEW role, Take(role) PROVE SealedNow
  BY <1>8 DEF Take
<1>9. ASSUME NEW role, Rollback(role) PROVE SealedNow
  BY <1>9 DEF Rollback
<1>10. ASSUME OfficeStep PROVE SealedNow
  <2>1. invoice # NoInvoice => UNCHANGED invoice
    BY <1>10 DEF OfficeStep, Dispatch, Cancel, AddPayment, VoidPayment,
                 SetExternalInvoiceId, vars
  <2>2. UNCHANGED credit
    BY <1>10 DEF OfficeStep, Dispatch, Cancel, AddPayment, VoidPayment,
                 SetExternalInvoiceId, vars
  <2>3. QED
    BY <1>10, <2>1, <2>2, OfficeEffect
<1>11. QED
  BY <1>1, <1>2, <1>3, <1>4, <1>5, <1>6, <1>7, <1>8, <1>9, <1>10
     DEF Next, ShopNext, OfficeNext, OfficeStep

\* queued_at, ready_at, the credit, the invoice and the bander's clocks are
\* written once, whatever is rolled back or unmarked afterwards.
THEOREM Sealed == Spec => SealedOnce
BY SealedStep, TypeCorrect, ShopKeepsAgreeing, PTL DEF Spec, SealedOnce

-----------------------------------------------------------------------------
(* Nobody waits on everybody *)

\* In an order in process a paused activity can be resumed; without pauses the
\* cut can be started, marked or closed; with the cut closed every piece is
\* marked, so whatever is not closed can be started or closed.
THEOREM NobodyStuck == Spec => []NobodyWaitsForEver
<1>1. TypeOK /\ ShopAgrees => NobodyWaitsForEver
  <2> SUFFICES ASSUME TypeOK, ShopAgrees, status = "in_process"
               PROVE  \/ \E role \in Roles, a \in Activities :
                            \/ StartAccepted(role, a)
                            \/ CloseAccepted(role, a)
                            \/ ResumeAccepted(role, a)
                      \/ \E p \in Pieces : MarkAccepted(p)
    BY DEF NobodyWaitsForEver
  <2> DEFINE boss == "admin"
  <2>1. boss \in Roles /\ \A a \in Activities : boss \in ActivityRoles(a)
    BY DEF Roles, ActivityRoles
  <2>2. CASE \E a \in Activities : Paused(a)
    BY <2>1, <2>2 DEF ResumeAccepted
  <2>3. CASE \A a \in Activities : ~Paused(a)
    <3>1. boss \in TransitionRoles(status, "finished")
      BY DEF TransitionRoles, Roles
    <3>2. CASE work["cutting"] = "pending"
      BY <2>1, <2>3, <3>2, ActivitiesFact DEF StartAccepted, MayStart
    <3>3. CASE work["cutting"] = "in_progress" /\ cut # Pieces
      BY <2>3, <3>3, ActivitiesFact DEF TypeOK, MarkAccepted, CutUnderWay
    <3>4. CASE work["cutting"] = "in_progress" /\ cut = Pieces
      BY <2>1, <2>3, <3>1, <3>4, ActivitiesFact DEF CloseAccepted, Pending, ActivityPieces
    <3>5. CASE work["cutting"] = "done"
      <4>1. cut = Pieces
        BY <3>5 DEF ShopAgrees, ClosedCutMarksEveryPiece
      <4>2. ~AllDone
        BY DEF ShopAgrees, LastClosingFinishes
      <4>3. PICK a \in Activities : work[a] # "done"
        BY <4>2 DEF AllDone
      <4>4. a # "cutting" /\ ActivityPieces(a) \subseteq Pieces /\ ActivityPieces(a) # {}
        BY <3>5, <4>3, OrderAssumption DEF Activities, ActivityPieces
      <4>5. CASE work[a] = "pending"
        <5>1. MayStart(a)
          BY <4>1, <4>4 DEF MayStart, NeedsACutPiece
        <5>2. StartAccepted(boss, a)
          BY <2>1, <2>3, <4>5, <5>1 DEF StartAccepted
        <5>3. QED
          BY <2>1, <5>2
      <4>6. CASE work[a] = "in_progress"
        <5>1. Pending(a) = {}
          BY <4>1, <4>4 DEF Pending
        <5>2. CloseAccepted(boss, a)
          BY <2>1, <2>3, <3>1, <4>6, <5>1 DEF CloseAccepted
        <5>3. QED
          BY <2>1, <5>2
      <4>7. QED
        BY <4>3, <4>5, <4>6 DEF TypeOK
    <3>6. QED
      BY <3>2, <3>3, <3>4, <3>5, ActivitiesFact DEF TypeOK
  <2>4. QED
    BY <2>2, <2>3
<1>2. QED
  BY <1>1, TypeCorrect, ShopKeepsAgreeing, PTL

-----------------------------------------------------------------------------
(* The account *)

\* A sum of payments over any of their rows is a number.
LEMMA RowsAddUp ==
    ASSUME NEW p \in Seq(Nat), NEW rows \in SUBSET DOMAIN p
    PROVE  IsFiniteSet(rows) /\ Total(p, rows) \in Nat
<1>1. DOMAIN p = 1..Len(p) /\ Len(p) \in Nat
  OBVIOUS
<1>2. IsFiniteSet(rows)
  <2>1. IsFiniteSet(1..Len(p))
    BY <1>1, FS_Interval
  <2>2. QED
    BY <1>1, <2>1, FS_Subset
<1>3. \A i \in rows : p[i] \in Nat
  BY <1>1
<1>4. QED
  BY <1>2, <1>3, TotalIsNatural

\* The rows p with one method registered are the rows q.
Registered(p, amount, q) == q = p \o PaymentRow(amount)

\* What stands of the rows p with those of gone voided.
Standing(p, gone) == Total(p, DOMAIN p \ gone)

\* One more row adds its amount to what stands, and an amount of zero adds no row.
LEMMA RowAdds ==
    ASSUME NEW p \in Seq(Nat), NEW gone \in SUBSET DOMAIN p, NEW amount \in Nat,
           NEW q, Registered(p, amount, q)
    PROVE  /\ q \in Seq(Nat) /\ gone \in SUBSET DOMAIN q
           /\ Standing(q, gone) = Standing(p, gone) + amount
<1> USE DEF Registered, Standing
<1> DEFINE rows == DOMAIN p \ gone
<1>1. Total(p, rows) \in Nat /\ IsFiniteSet(rows)
  BY RowsAddUp
<1>2. CASE amount = 0
  <2>1. q = p
    BY <1>2 DEF PaymentRow
  <2>2. Total(q, DOMAIN q \ gone) = Total(p, rows)
    BY <2>1, Zenon
  <2>3. Total(p, rows) + amount = Total(p, rows)
    BY <1>1, <1>2
  <2>4. QED
    BY <2>1, <2>2, <2>3, Zenon
<1>3. CASE amount > 0
  <2> DEFINE n == Len(p) + 1
  <2>1. q = Append(p, amount)
    BY <1>3 DEF PaymentRow
  <2>2. /\ q \in Seq(Nat) /\ DOMAIN q = DOMAIN p \union {n} /\ n \notin DOMAIN p
        /\ q[n] = amount
        /\ \A i \in DOMAIN p : q[i] = p[i] /\ p[i] \in Nat
    BY <2>1
  <2>3. DOMAIN q \ gone = rows \union {n} /\ n \notin rows /\ rows \subseteq DOMAIN p
    BY <2>2
  <2> HIDE DEF n
  <2>4. Total(q, rows) = Total(p, rows)
    <3>1. \A i \in rows : q[i] \in Int /\ q[i] = p[i]
      BY <2>2, <2>3
    <3> HIDE DEF rows
    <3>2. QED
      BY <1>1, <3>1, TotalAgrees
  <2>5. Total(q, rows \union {n}) = amount + Total(q, rows)
    <3>1. \A i \in rows \union {n} : q[i] \in Int
      BY <2>2, <2>3
    <3>2. Total(q, rows \union {n}) = q[n] + Total(q, rows)
      <4> HIDE DEF rows
      <4>1. QED
        BY <1>1, <2>3, <3>1, TotalOfOneMore
    <3>3. QED
      BY <2>2, <3>2
  <2>6. Total(q, DOMAIN q \ gone) = Total(p, rows) + amount
    <3>1. Total(q, DOMAIN q \ gone) = Total(q, rows \union {n})
      BY <2>3, Zenon
    <3>2. Total(q, rows \union {n}) = amount + Total(p, rows)
      BY <2>4, <2>5, Zenon
    <3>3. amount + Total(p, rows) = Total(p, rows) + amount
      BY <1>1
    <3>4. QED
      BY <3>1, <3>2, <3>3, Zenon
  <2>7. QED
    BY <2>2, <2>6
<1>4. QED
  BY <1>2, <1>3

\* What stands collected is a number.
LEMMA CollectedType ==
    ASSUME payments \in Seq(Nat) PROVE CreditCollected \in Nat
BY RowsAddUp DEF CreditCollected, StandingRows

\* A registration collects the cash and the transfer, and never past the balance.
LEMMA RegistrationCollects ==
    ASSUME TypeOK, NEW cash \in Amount, NEW transfer \in Amount,
           RegisterPayments(cash, transfer)
    PROVE  CreditCollected' = CreditCollected + cash + transfer
<1>1. cash \in Nat /\ transfer \in Nat /\ payments \in Seq(Nat) /\ voided \subseteq DOMAIN payments
  BY OrderAssumption DEF Amount, TypeOK
<1> DEFINE p == payments \o PaymentRow(cash)
<1>2. Registered(payments, cash, p) /\ Registered(p, transfer, payments') /\ voided' = voided
  BY DEF RegisterPayments, Registered
<1> HIDE DEF p
<1>3. /\ p \in Seq(Nat) /\ voided \in SUBSET DOMAIN p
      /\ Standing(p, voided) = Standing(payments, voided) + cash
  BY <1>1, <1>2, RowAdds
<1>4. Standing(payments', voided) = Standing(p, voided) + transfer
  BY <1>1, <1>2, <1>3, RowAdds
<1>5. QED
  BY <1>2, <1>3, <1>4 DEF CreditCollected, StandingRows, Standing

\* A void takes its row out of what stands.
LEMMA VoidGivesBack ==
    ASSUME TypeOK, NEW i, VoidPayment(i)
    PROVE  CreditCollected' <= CreditCollected /\ payments # <<>>
<1>1. payments \in Seq(Nat) /\ IsFiniteSet(StandingRows) /\ i \in StandingRows
  BY RowsAddUp DEF TypeOK, VoidPayment, StandingRows
<1>2. \A j \in StandingRows : payments[j] \in Nat
  BY <1>1 DEF StandingRows
<1>3. /\ Total(payments, StandingRows) = payments[i] + Total(payments, StandingRows \ {i})
      /\ Total(payments, StandingRows) \in Int
  BY <1>1, <1>2, TotalSplits
<1>4. Total(payments, StandingRows \ {i}) \in Nat
  BY <1>1, RowsAddUp DEF StandingRows
<1>5. StandingRows' = StandingRows \ {i} /\ payments' = payments
  BY DEF VoidPayment, StandingRows
<1>6. CreditCollected' = Total(payments, StandingRows \ {i})
  BY <1>5 DEF CreditCollected
<1>7. payments # <<>>
  BY <1>1 DEF StandingRows
<1>8. QED
  BY <1>1, <1>2, <1>3, <1>4, <1>6, <1>7 DEF CreditCollected

\* An order is neither sold nor cancelled by this step.
StaysSold ==
    \/ UNCHANGED status
    \/ {status, status'} \cap {"confirmed", "cancelled"} = {}

\* What the requests do to the money: nothing, or cancel; sell; register within the balance;
\* or give a row back.
MoneyMoves ==
    \/ UNCHANGED <<payments, voided, credit>> /\ (status' = "cancelled" \/ StaysSold)
    \/ /\ status = "confirmed" /\ status' = "queued" /\ queuedAt' # Null
       /\ credit' \in Nat /\ UNCHANGED <<payments, voided>>
    \/ /\ status \notin {"confirmed", "cancelled"}
       /\ status' \notin {"confirmed", "cancelled"}
       /\ queuedAt' # Null
       /\ UNCHANGED credit
       /\ \E cash, transfer \in Amount : RegisterPayments(cash, transfer)
    \/ \E i \in DOMAIN payments : VoidPayment(i)

\* Every request is one of those moves, and only a sale leaves the confirmed.
LEMMA MoneyMovesAll ==
    ASSUME TypeOK, ShopAgrees, [Next]_vars
    PROVE  MoneyMoves
<1> USE DEF saleVars, StaysSold, Move, StayPut
<1>1. ASSUME NEW role, NEW a \in Activities,
             \/ StartActivity(role, a) \/ CloseActivity(role, a) \/ ResumeActivity(role, a)
             \/ \E reason \in PauseReasons(a) : PauseActivity(role, a, reason)
      PROVE  UNCHANGED <<payments, voided, credit>> /\ (status' = "cancelled" \/ StaysSold)
  BY <1>1 DEF StartActivity, StartAccepted, CloseActivity, CloseAccepted, ResumeActivity, PauseActivity
<1>2. ASSUME NEW p \in Pieces, MarkPieceCut(p) \/ UnmarkPieceCut(p)
      PROVE  UNCHANGED <<payments, voided, credit>> /\ (status' = "cancelled" \/ StaysSold)
  BY <1>2 DEF MarkPieceCut, UnmarkPieceCut
<1>3. ASSUME NEW role, NEW c \in Amount, NEW inv, EnterQueue(role, c, inv)
      PROVE  /\ status = "confirmed" /\ status' = "queued" /\ queuedAt' # Null
             /\ credit' \in Nat /\ UNCHANGED <<payments, voided>>
  BY <1>3, OrderAssumption DEF EnterQueue, Move, Now, Null, TypeOK, Amount
<1>4. ASSUME NEW role, Take(role) \/ Rollback(role) \/ Cancel(role)
      PROVE  UNCHANGED <<payments, voided, credit>> /\ (status' = "cancelled" \/ StaysSold)
  BY <1>4 DEF Take, Rollback, Cancel
<1>5. queuedAt # Null => status # "confirmed"
  BY DEF ShopAgrees, ClocksAgree
<1>6. status = "finished" => queuedAt # Null
  BY DEF ShopAgrees, ClocksAgree
<1>7. ASSUME NEW role, NEW cash \in Amount, NEW transfer \in Amount, NEW note,
             Dispatch(role, cash, transfer, note)
      PROVE  MoneyMoves
  BY <1>6, <1>7 DEF Dispatch, Move, MoneyMoves
<1>8. ASSUME NEW cash \in Amount, NEW transfer \in Amount, AddPayment(cash, transfer)
      PROVE  MoneyMoves
  BY <1>5, <1>8 DEF AddPayment, MoneyMoves
<1>9. ASSUME NEW inv, SetExternalInvoiceId(inv)
      PROVE  UNCHANGED <<payments, voided, credit>> /\ (status' = "cancelled" \/ StaysSold)
  BY <1>9 DEF SetExternalInvoiceId
<1>10. CASE UNCHANGED vars
  BY <1>10 DEF vars, MoneyMoves
<1>11. QED
  BY <1>1, <1>2, <1>3, <1>4, <1>7, <1>8, <1>9, <1>10
     DEF Next, ShopNext, OfficeNext, MoneyMoves

\* Rows and credit stay within one another: rows are appended within the balance
\* and the credit is set while there are none.
LEMMA MoneyStep ==
    TypeOK /\ ShopAgrees /\ MoneyInv /\ [Next]_vars => MoneyInv'
<1> SUFFICES ASSUME TypeOK, ShopAgrees, MoneyInv, [Next]_vars PROVE MoneyInv'
  OBVIOUS
<1>1. credit \in Nat /\ CreditCollected \in Nat /\ CreditCollected <= credit
  BY CollectedType DEF TypeOK, MoneyInv, NeverOvercollected
<1>2. queuedAt # Null => queuedAt' # Null
  BY SealedStep DEF SealedNow, vars, Null
<1>3. CASE UNCHANGED <<payments, voided, credit>>
  <2>1. CreditCollected' = CreditCollected
    BY <1>3 DEF CreditCollected, StandingRows
  <2>2. QED
    BY <1>1, <1>2, <1>3, <2>1 DEF MoneyInv, NeverOvercollected
<1>4. CASE /\ status = "confirmed" /\ status' = "queued" /\ queuedAt' # Null
           /\ credit' \in Nat /\ UNCHANGED <<payments, voided>>
  <2>1. queuedAt = Null
    BY <1>4 DEF ShopAgrees, ClocksAgree
  <2>2. payments = <<>>
    BY <2>1 DEF MoneyInv
  <2>3. StandingRows' = {}
    BY <1>4, <2>2 DEF StandingRows
  <2>4. CreditCollected' = 0
    BY <2>3, TotalOfNothing DEF CreditCollected
  <2>5. QED
    BY <1>4, <2>4 DEF MoneyInv, NeverOvercollected
<1>5. ASSUME UNCHANGED credit, queuedAt' # Null,
             NEW cash \in Amount, NEW transfer \in Amount, RegisterPayments(cash, transfer)
      PROVE  MoneyInv'
  <2>1. CreditCollected' = CreditCollected + cash + transfer
    BY <1>5, RegistrationCollects
  <2>2. cash + transfer <= CreditBalance /\ cash \in Nat /\ transfer \in Nat
    BY <1>5, OrderAssumption DEF RegisterPayments, Amount
  <2>3. CreditBalance <= credit - CreditCollected
    BY <1>1 DEF CreditBalance
  <2>4. CreditBalance \in Nat
    BY <1>1 DEF CreditBalance
  <2>5. CreditCollected' <= credit'
    BY <1>1, <1>5, <2>1, <2>2, <2>3, <2>4
  <2>6. QED
    BY <1>5, <2>5 DEF MoneyInv, NeverOvercollected
<1>6. ASSUME NEW i, VoidPayment(i) PROVE MoneyInv'
  <2>1. CreditCollected' <= CreditCollected /\ payments # <<>>
    BY <1>6, VoidGivesBack
  <2>2. payments' \in Seq(Nat) /\ credit' = credit /\ queuedAt' = queuedAt
    BY <1>6 DEF VoidPayment, TypeOK
  <2>3. CreditCollected' \in Nat
    BY <2>2, <1>6, RowsAddUp DEF CreditCollected, StandingRows
  <2>4. QED
    BY <1>1, <2>1, <2>2, <2>3 DEF MoneyInv, NeverOvercollected
<1>7. QED
  BY <1>3, <1>4, <1>5, <1>6, MoneyMovesAll DEF MoneyMoves

\* Before the sale there is no money.
LEMMA MoneyInit == Init => MoneyInv
<1> SUFFICES ASSUME Init PROVE MoneyInv
  OBVIOUS
<1>1. StandingRows = {}
  BY DEF Init, StandingRows
<1>2. CreditCollected = 0
  BY <1>1, TotalOfNothing DEF CreditCollected
<1>3. QED
  BY <1>2 DEF Init, MoneyInv, NeverOvercollected

\* The rows and the credit agree in every state.
LEMMA MoneySafe == Spec => []MoneyInv
BY MoneyInit, MoneyStep, TypeCorrect, ShopKeepsAgreeing, PTL DEF Spec

\* However the payments, the voids and the payment on delivery interleave, what
\* stands collected is never more than what was sold on credit.
THEOREM NeverTooMuch == Spec => []NeverOvercollected
<1>1. MoneyInv => NeverOvercollected
  BY DEF MoneyInv
<1>2. QED
  BY <1>1, MoneySafe, PTL

-----------------------------------------------------------------------------
(* The refinement of CreditAccount *)

\* Before the sale the account is empty.
LEMMA AccountInit == Init => Account!Init
<1> SUFFICES ASSUME Init PROVE Account!Init
  OBVIOUS
<1>1. StandingRows = {}
  BY DEF Init, StandingRows
<1>2. CreditCollected = 0
  BY <1>1, TotalOfNothing DEF CreditCollected
<1>3. QED
  BY <1>2 DEF Init, CreditBalance, Account!Init

\* Every request sells, collects, gives back, writes off or leaves the account
\* alone; the balance the code cuts at zero is never cut while the order stands.
LEMMA AccountStep ==
    TypeOK /\ ShopAgrees /\ MoneyInv /\ [Next]_vars => [Account!Next]_(Account!vars)
<1> SUFFICES ASSUME TypeOK, ShopAgrees, MoneyInv, [Next]_vars
             PROVE  [Account!Next]_(Account!vars)
  OBVIOUS
<1> USE DEF Account!Next, Account!vars
<1>1. /\ credit \in Nat /\ CreditCollected \in Nat /\ CreditCollected <= credit
      /\ CreditBalance = IF status = "cancelled" THEN 0 ELSE credit - CreditCollected
  BY CollectedType DEF TypeOK, MoneyInv, NeverOvercollected, CreditBalance
<1>2. CreditBalance' = IF status' = "cancelled" \/ CreditCollected' > credit'
                       THEN 0 ELSE credit' - CreditCollected'
  BY DEF CreditBalance
<1>3. CASE UNCHANGED <<payments, voided, credit>> /\ (status' = "cancelled" \/ StaysSold)
  <2>1. CreditCollected' = CreditCollected
    BY <1>3 DEF CreditCollected, StandingRows
  <2>2. CASE status' = "cancelled"
    BY <1>3, <2>2 DEF Account!WriteOff, CreditBalance
  <2>3. CASE StaysSold
    BY <1>1, <1>3, <2>1, <2>3 DEF StaysSold, CreditBalance
  <2>4. QED
    BY <1>3, <2>2, <2>3
<1>4. CASE /\ status = "confirmed" /\ status' = "queued" /\ queuedAt' # Null
           /\ credit' \in Nat /\ UNCHANGED <<payments, voided>>
  <2>1. queuedAt = Null
    BY <1>4 DEF ShopAgrees, ClocksAgree
  <2>2. payments = <<>>
    BY <2>1 DEF MoneyInv
  <2>3. StandingRows' = {}
    BY <1>4, <2>2 DEF StandingRows
  <2>4. CreditCollected' = 0
    BY <2>3, TotalOfNothing DEF CreditCollected
  <2>5. CreditBalance' = credit'
    <3> DEFINE c == credit'
               l == CreditCollected'
               d == CreditBalance'
    <3>1. c \in Nat /\ l = 0 /\ d = IF l > c THEN 0 ELSE c - l
      BY <1>2, <1>4, <2>4
    <3> HIDE DEF c, l, d
    <3>2. d = c
      BY <3>1
    <3>3. QED
      BY <3>2 DEF c, d
  <2>6. QED
    BY <1>4, <2>5 DEF Account!Sell
<1>5. ASSUME status \notin {"confirmed", "cancelled"}, status' \notin {"confirmed", "cancelled"},
             UNCHANGED credit,
             NEW cash \in Amount, NEW transfer \in Amount, RegisterPayments(cash, transfer)
      PROVE  Account!Collect
  <2>1. CreditCollected' = CreditCollected + cash + transfer
    BY <1>5, RegistrationCollects
  <2>2. cash + transfer <= CreditBalance /\ cash \in Nat /\ transfer \in Nat
    BY <1>5, OrderAssumption DEF RegisterPayments, Amount
  <2>3. CreditBalance' = CreditBalance - (cash + transfer)
    BY <1>1, <1>5, <2>1, <2>2 DEF CreditBalance
  <2>4. CreditBalance' \in 0..CreditBalance
    BY <1>1, <2>2, <2>3
  <2>5. QED
    BY <1>5, <2>4 DEF Account!Collect
<1>6. ASSUME NEW i, VoidPayment(i) PROVE [Account!Next]_(Account!vars)
  <2>1. CreditCollected' <= CreditCollected /\ payments # <<>>
    BY <1>6, VoidGivesBack
  <2>2. payments' \in Seq(Nat) /\ credit' = credit /\ status' = status
    BY <1>6 DEF VoidPayment, TypeOK
  <2>3. CreditCollected' \in Nat
    BY <2>2, <1>6, RowsAddUp DEF CreditCollected, StandingRows
  <2>4. status # "confirmed"
    BY <2>1 DEF MoneyInv, ShopAgrees, ClocksAgree
  <2>5. CASE status = "cancelled"
    BY <2>2, <2>5, <1>1 DEF CreditBalance
  <2>6. CASE status # "cancelled"
    <3>1. CreditBalance' \in CreditBalance..credit
      <4> DEFINE k == CreditCollected
                 l == CreditCollected'
                 b == CreditBalance
                 d == CreditBalance'
      <4>1. credit \in Nat /\ k \in Nat /\ l \in Nat /\ l <= k /\ k <= credit
        BY <1>1, <2>1, <2>3
      <4>2. b = credit - k /\ d = IF l > credit THEN 0 ELSE credit - l
        BY <1>1, <1>2, <2>2, <2>6
      <4> HIDE DEF k, l, b, d
      <4>3. d \in b..credit
        BY <4>1, <4>2
      <4>4. QED
        BY <4>3 DEF b, d
    <3>2. QED
      BY <2>2, <2>4, <2>6, <3>1 DEF Account!Reverse
  <2>7. QED
    BY <2>5, <2>6
<1>7. QED
  BY <1>3, <1>4, <1>5, <1>6, MoneyMovesAll DEF MoneyMoves

\* The order keeps the promises of the abstract account: agreed once, collected
\* down and never past zero, given back at most to what was agreed.
THEOREM RefinesAccount == Spec => ImplementsAccount
BY AccountInit, AccountStep, TypeCorrect, ShopKeepsAgreeing, MoneySafe, PTL
   DEF Spec, ImplementsAccount, Account!Spec

=============================================================================
