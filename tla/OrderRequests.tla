--------------------------- MODULE OrderRequests ----------------------------
(***************************************************************************)
(* The requests of the shop floor on one order in process, taken apart.    *)
(* Order runs each request of OrderService as one step; here a client's    *)
(* request loads the order and its activities, later counts the pieces and *)
(* reads the pause rows, and later still commits. Nothing locks the order: *)
(* PostgreSQL runs READ COMMITTED, there is no version column, and a flush *)
(* updates by primary key the columns the request changed. Every client    *)
(* (a tablet, a browser tab) has at most one request in flight.            *)
(***************************************************************************)
EXTENDS Integers, FiniteSets

CONSTANTS
    Pieces, Banded, Worked,
    Operators, Banders,          \* the tablets on the saw and on the bench
    Admins,                      \* the office screens, moving the order itself
    MaxCrew,                     \* BOUND: clients at work on this order
    MaxPauses                    \* BOUND: pause rows ever inserted

ASSUME RequestsAssumption ==
    /\ Banded \subseteq Pieces /\ Banded # {}
    /\ Worked \subseteq Pieces /\ Worked # {}
    /\ IsFiniteSet(Operators) /\ IsFiniteSet(Banders) /\ Operators \cap Banders = {}
    /\ (Operators \union Banders) \cap Admins = {}
    /\ MaxCrew \in Nat /\ MaxPauses \in Nat

Clients == Operators \union Banders \union Admins
Activities == {"cutting", "banding", "additional"}
PiecesOf == [cutting |-> Pieces, banding |-> Banded, additional |-> Worked]

VARIABLES
    status,    \* orders.status, committed
    work,      \* order_activities.status
    waiting,   \* the activities whose mirror says waiting_for_pieces
    openRows,  \* per activity, the pause rows with ended_at IS NULL
    inserted,  \* pause rows inserted so far
    cut,       \* the placed pieces with cut_at set
    crew,      \* the clients at work on this order; it does not change
    req        \* per client, the request in flight

vars == <<status, work, waiting, openRows, inserted, cut, crew, req>>
pauseTables == <<waiting, openRows, inserted>>

-----------------------------------------------------------------------------
NoRequest == [op |-> "none"]

\* What a request holds: its operation and target, the order and activities it
\* loaded, and, once it has counted, the pause rows it will close.
Loaded(op, target) ==
    [op |-> op, target |-> target, step |-> "loaded", status |-> status,
     work |-> work, waiting |-> waiting, rows |-> {}]

BandingOpen(w) == w["banding"] # "done"

MayRegister(c, a) == c \in (IF a = "cutting" THEN Operators ELSE Banders)

\* Mistake: a done activity can be started again.
IdleActivity(a) == work[a] # "in_progress"

StartsFrom(a) == work[a] = "pending"

\* Mistake: a paused activity can be closed.
AnyInProgress(a) == work[a] = "in_progress"

ClosesFrom(a) == work[a] = "in_progress" /\ a \notin waiting

\* The guards each endpoint evaluates on what it loaded.
Accepts(op, a) ==
    CASE op = "start" ->
            /\ StartsFrom(a)
            /\ status = "in_process" \/ (a = "cutting" /\ status = "queued")
      [] op = "close" ->
            ClosesFrom(a) /\ status = "in_process"
      [] op = "wait" ->
            /\ a # "cutting" /\ a \notin waiting
            /\ work[a] = "in_progress" /\ status = "in_process"
      [] op = "resume" -> a \in waiting

LoadActivity(c, op, a) ==
    /\ c \in crew /\ req[c] = NoRequest
    /\ MayRegister(c, a)
    /\ Accepts(op, a)
    /\ req' = [req EXCEPT ![c] = Loaded(op, a)]
    /\ UNCHANGED <<status, work, pauseTables, cut, crew>>

LoadPiece(c, op, p) ==
    /\ c \in crew \cap Operators /\ req[c] = NoRequest
    /\ status = "in_process" /\ work["cutting"] = "in_progress"
    /\ "cutting" \notin waiting
    /\ req' = [req EXCEPT ![c] = Loaded(op, p)]
    /\ UNCHANGED <<status, work, pauseTables, cut, crew>>

\* The admin's own moves: the rollback, and closing the order by hand.
LoadMove(c, op) ==
    /\ c \in crew \cap Admins /\ req[c] = NoRequest
    /\ status = "in_process"
    /\ op = "finish" => \A a \in Activities : work[a] = "done"
    /\ req' = [req EXCEPT ![c] = Loaded(op, "order")]
    /\ UNCHANGED <<status, work, pauseTables, cut, crew>>

-----------------------------------------------------------------------------
(* Second step: the piece counts and the pause rows, as committed by now. *)

\* The waits the request lifts, on the activities as it loaded them.
Lifts(r) ==
    CASE r.op = "resume" -> {r.target}
      [] r.op = "rollback" -> {"cutting"}
      [] r.op = "close" /\ r.target = "banding" -> r.waiting \cap {"additional"}
      [] r.op = "mark" ->
            {a \in r.waiting :
                /\ r.target \in PiecesOf[a]
                /\ ~(a = "additional" /\ r.target \in Banded /\ BandingOpen(r.work))}
      [] OTHER -> {}

EveryPieceCut(a) == PiecesOf[a] \subseteq cut

\* The floors and the pause reason, on the pieces as counted.
PiecesAllow(r) ==
    CASE r.op = "start" -> r.target = "cutting" \/ PiecesOf[r.target] \cap cut # {}
      [] r.op = "close" -> EveryPieceCut(r.target)
      [] r.op = "wait" ->
            \/ ~EveryPieceCut(r.target)
            \/ r.target = "additional" /\ BandingOpen(r.work)
      [] r.op = "mark" -> r.target \notin cut
      [] r.op = "unmark" -> r.target \in cut
      [] OTHER -> TRUE

Count(c) ==
    LET r == req[c] IN
    /\ r # NoRequest
    /\ r.step = "loaded"
    /\ req' = [req EXCEPT ![c] =
                 IF PiecesAllow(r)
                 THEN [r EXCEPT !.step = "counted",
                                !.rows = UNION {openRows[a] : a \in Lifts(r)}]
                 ELSE NoRequest]
    /\ UNCHANGED <<status, work, pauseTables, cut, crew>>

-----------------------------------------------------------------------------
(* Third step: the flush and the commit, one action per endpoint. *)

Committing(c, op) == req[c] # NoRequest /\ req[c].op = op /\ req[c].step = "counted"
Done(c) == req' = [req EXCEPT ![c] = NoRequest]

\* _close_pause: the mirror, and the rows the request had read.
CloseReadPauses(r) ==
    /\ waiting' = waiting \ Lifts(r)
    /\ openRows' = [a \in Activities |-> openRows[a] \ r.rows]
    /\ UNCHANGED inserted

Start(c) ==
    /\ Committing(c, "start")
    /\ work' = [work EXCEPT ![req[c].target] = "in_progress"]
    /\ status' = IF req[c].status = "queued" THEN "in_process" ELSE status
    /\ Done(c)
    /\ UNCHANGED <<pauseTables, cut, crew>>

\* Whether the order is finished is decided on the activities as loaded.
StatusAfterClosing(r) ==
    IF \A a \in Activities \ {r.target} : r.work[a] = "done"
    THEN "finished" ELSE status

Close(c) ==
    LET r == req[c] IN
    /\ Committing(c, "close")
    /\ work' = [work EXCEPT ![r.target] = "done"]
    /\ status' = StatusAfterClosing(r)
    /\ CloseReadPauses(r)
    /\ Done(c)
    /\ UNCHANGED <<cut, crew>>

Mark(c) ==
    /\ Committing(c, "mark")
    /\ cut' = cut \union {req[c].target}
    /\ CloseReadPauses(req[c])
    /\ Done(c)
    /\ UNCHANGED <<status, work, crew>>

Unmark(c) ==
    /\ Committing(c, "unmark")
    /\ cut' = cut \ {req[c].target}
    /\ Done(c)
    /\ UNCHANGED <<status, work, pauseTables, crew>>

\* The INSERT of a second open row breaks the partial unique index, and the
\* whole request with it.
Wait(c) ==
    LET a == req[c].target IN
    /\ Committing(c, "wait")
    /\ IF openRows[a] = {} /\ inserted < MaxPauses
       THEN /\ waiting' = waiting \union {a}
            /\ inserted' = inserted + 1
            /\ openRows' = [openRows EXCEPT ![a] = {inserted'}]
       ELSE UNCHANGED pauseTables
    /\ Done(c)
    /\ UNCHANGED <<status, work, cut, crew>>

Resume(c) ==
    /\ Committing(c, "resume")
    /\ CloseReadPauses(req[c])
    /\ Done(c)
    /\ UNCHANGED <<status, work, cut, crew>>

Rollback(c) ==
    /\ Committing(c, "rollback")
    /\ status' = "queued"
    /\ work' = IF req[c].work["cutting"] # "pending"
               THEN [work EXCEPT !["cutting"] = "pending"] ELSE work
    /\ CloseReadPauses(req[c])
    /\ Done(c)
    /\ UNCHANGED <<cut, crew>>

Finish(c) ==
    /\ Committing(c, "finish")
    /\ status' = "finished"
    /\ Done(c)
    /\ UNCHANGED <<work, pauseTables, cut, crew>>

-----------------------------------------------------------------------------
\* The order as the operator has just taken it.
Init ==
    /\ status = "in_process"
    /\ work = [a \in Activities |-> IF a = "cutting" THEN "in_progress" ELSE "pending"]
    /\ waiting = {}
    /\ openRows = [a \in Activities |-> {}]
    /\ inserted = 0
    /\ cut = {}
    /\ crew \in {some \in SUBSET Clients : Cardinality(some) <= MaxCrew}
    /\ req = [c \in Clients |-> NoRequest]

Next == \E c \in Clients :
    \/ \E a \in Activities, op \in {"start", "close", "wait", "resume"} :
          LoadActivity(c, op, a)
    \/ \E p \in Pieces, op \in {"mark", "unmark"} : LoadPiece(c, op, p)
    \/ \E op \in {"rollback", "finish"} : LoadMove(c, op)
    \/ Count(c)
    \/ Start(c) \/ Close(c) \/ Mark(c) \/ Unmark(c) \/ Wait(c) \/ Resume(c)
    \/ Rollback(c) \/ Finish(c)

Spec == Init /\ [][Next]_vars

-----------------------------------------------------------------------------
(* Properties *)

TypeOK ==
    /\ status \in {"queued", "in_process", "finished"}
    /\ work \in [Activities -> {"pending", "in_progress", "done"}]
    /\ waiting \subseteq Activities
    /\ openRows \in [Activities -> SUBSET (1..MaxPauses)]
    /\ inserted \in 0..MaxPauses
    /\ cut \subseteq Pieces
    /\ crew \subseteq Clients
    /\ DOMAIN req = Clients

AllDone == \A a \in Activities : work[a] = "done"
Quiet == \A c \in Clients : req[c] = NoRequest

OneBench == Cardinality(crew \cap Banders) <= 1
OneTablet == Cardinality(crew \cap Operators) <= 1 /\ OneBench

\* One tablet on the saw, one on the bench, and nobody moving the order itself.
OneEach == OneTablet /\ crew \cap Admins = {}

\* With one tablet at each station, whatever their requests interleave, what is
\* finished is complete: every activity closed, every piece cut. (An office
\* screen that rolls the order back meanwhile breaks it.)
FinishedWorkIsComplete ==
    OneEach /\ status = "finished" => AllDone /\ cut = Pieces

\* mark_piece_cut, "every piece is marked by definition": with one tablet at each
\* station a closed cut keeps its pieces marked. (With two on the saw, an unmark
\* that loaded the cut open lands after the closing.)
ClosedCutMarksEveryPiece == OneEach /\ work["cutting"] = "done" => cut = Pieces

\* ACTIVITY_TRANSITIONS: with one tablet at each station, and an office screen
\* besides, no activity goes back; only the rollback reopens one, and only the
\* cut. (Of two saws, one may start a rolled back cut the other just closed.)
ActivitiesOnlyAdvance ==
    [][OneTablet =>
         \A a \in Activities :
             (work[a] = "done" \/ (work[a] = "in_progress" /\ work'[a] = "pending"))
             /\ work'[a] # work[a]
                => a = "cutting" /\ \E c \in Admins : Rollback(c)]_vars

\* uq_order_activity_pauses_open whoever is at work; and, with one tablet at the
\* bench, a done activity is never left paused by a request that came late. (Of
\* two, one may pause what the other is closing.)
ClosedActivitiesDoNotWait ==
    \A a \in Activities :
        /\ Cardinality(openRows[a]) <= 1
        /\ OneBench /\ work[a] = "done" => a \notin waiting

\* What the requests of the shop floor keep in agreement, whatever they interleave:
\* the order's status, its activities, the marks of its pieces and the waits.
FloorAgrees ==
    /\ TypeOK /\ FinishedWorkIsComplete
    /\ ClosedCutMarksEveryPiece /\ ClosedActivitiesDoNotWait

\* Closing the last applicable activity finishes the order: with nothing in
\* flight, no order is left in process with all its work closed.
LastClosingFinishes == Quiet /\ AllDone => status = "finished"
=============================================================================
