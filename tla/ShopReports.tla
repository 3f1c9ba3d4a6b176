----------------------------- MODULE ShopReports -----------------------------
(***************************************************************************)
(* What the shop floor registers and what the reports read in it: the cuts *)
(* and the bandings of one branch, as the timestamps and authors on their  *)
(* rows (production_service.py), and the figures of performance.py. No two *)
(* requests fall on the same instant. A user is never deleted.             *)
(***************************************************************************)
EXTENDS WorkClock

CONSTANTS
    Orders,      \* the orders of the branch, in process or queued
    Banding,     \* those with a banding activity
    Sheets,      \* their sheets
    Slips,       \* the placed pieces
    SheetOf,     \* order_placed_pieces.board_id
    OrderOf,     \* order_boards.order_id
    SheetKind,   \* sheet_kind: "whole", "half" or "offcut"
    Staff,       \* the operators and banders
    Instants,    \* BOUND: when a request may arrive
    IdleGap      \* PRODUCTION_IDLE_MINUTES

\* An author that is NULL: no user's id.
Nobody == "nobody"

\* A sheet is one somebody has to cut something from; the events the live state
\* reads go back a day (_LIVE_WINDOW).
ASSUME ShopReportsAssumption ==
    /\ \A S \in {Orders, Sheets, Slips, Staff, Instants} : IsFiniteSet(S)
    /\ Banding \subseteq Orders
    /\ Nobody \notin Staff
    /\ SheetOf \in [Slips -> Sheets]
    /\ \A b \in Sheets : \E p \in Slips : SheetOf[p] = b
    /\ OrderOf \in [Sheets -> Orders]
    /\ SheetKind \in [Sheets -> {"whole", "half", "offcut"}]
    /\ Instants \subseteq Nat \ {Never}
    /\ IdleGap \in 0..DayTicks

Acts == {<<o, "cutting">> : o \in Orders} \union {<<o, "banding">> : o \in Banding}
Cut(o) == <<o, "cutting">>

VARIABLES
    clock,    \* the last instant a request came at
    stage,    \* order_activities.status
    begun,    \* order_activities.started_at
    ended,    \* order_activities.finished_at
    ender,    \* order_activities.finished_by
    stops,    \* order_activity_pauses: from, to (Never while in force), user
    marked,   \* order_placed_pieces.cut_at
    marker,   \* order_placed_pieces.cut_by
    ready,    \* the orders whose banding has its ready_at
    told      \* HISTORY: what each day read before the last request

reportVars == <<clock, stage, begun, ended, ender, stops, marked, marker, ready,
                told>>
pauseless == <<stage, begun, ended, ender>>

-----------------------------------------------------------------------------
(* The requests of OrderService, as far as they leave a timestamp *)

Stopped(a) == \E s \in stops[a] : s.to = Never
Unfinished(o) == \E a \in Acts : a[1] = o /\ stage[a] # "done"
InProcess(o) == stage[Cut(o)] # "pending" /\ Unfinished(o)
CutRuns(o) == stage[Cut(o)] = "in_progress" /\ ~Stopped(Cut(o))
SlipsOf(o) == {p \in Slips : OrderOf[SheetOf[p]] = o}

Ended(a) ==
    {IF s.to = Never THEN [s EXCEPT !.to = clock'] ELSE s : s \in stops[a]}

\* The next request comes at a later instant.
Passes == \E t \in Instants : t > clock /\ clock' = t

Start(a) ==
    /\ stage[a] = "pending"
    /\ a[2] = "banding" => InProcess(a[1]) /\ \E p \in SlipsOf(a[1]) : marked[p] # Never
    /\ Passes
    /\ stage' = [stage EXCEPT ![a] = "in_progress"]
    /\ begun' = [begun EXCEPT ![a] = clock']
    /\ UNCHANGED <<ended, ender, stops, marked, marker, ready>>

Mark(p, u) ==
    /\ CutRuns(OrderOf[SheetOf[p]])
    /\ marked[p] = Never
    /\ Passes
    /\ marked' = [marked EXCEPT ![p] = clock']
    /\ marker' = [marker EXCEPT ![p] = u]
    /\ ready' = ready \union ({OrderOf[SheetOf[p]]} \cap Banding)
    /\ UNCHANGED <<pauseless, stops>>

Unmark(p) ==
    /\ CutRuns(OrderOf[SheetOf[p]])
    /\ marked[p] # Never
    /\ Passes
    /\ marked' = [marked EXCEPT ![p] = Never]
    /\ marker' = [marker EXCEPT ![p] = Nobody]
    /\ UNCHANGED <<pauseless, stops, ready>>

Pause(a, u) ==
    /\ stage[a] = "in_progress" /\ ~Stopped(a) /\ InProcess(a[1])
    /\ Passes
    /\ stops' = [stops EXCEPT ![a] = @ \union {[from |-> clock', to |-> Never, user |-> u]}]
    /\ UNCHANGED <<pauseless, marked, marker, ready>>

Resume(a) ==
    /\ Stopped(a)
    /\ Passes
    /\ stops' = [stops EXCEPT ![a] = Ended(a)]
    /\ UNCHANGED <<pauseless, marked, marker, ready>>

\* Closing needs every piece of the set cut; a banding is of the whole order here.
Finish(a, u) ==
    /\ stage[a] = "in_progress" /\ ~Stopped(a) /\ InProcess(a[1])
    /\ \A p \in SlipsOf(a[1]) : marked[p] # Never
    /\ Passes
    /\ stage' = [stage EXCEPT ![a] = "done"]
    /\ ended' = [ended EXCEPT ![a] = clock']
    /\ ender' = [ender EXCEPT ![a] = u]
    /\ UNCHANGED <<begun, stops, marked, marker, ready>>

\* Back to the queue: the cut loses its start and its pause ends; its marks and
\* an old closing stay.
SendBack(o) ==
    LET a == Cut(o)
    IN  /\ InProcess(o)
        /\ Passes
        /\ stage' = [stage EXCEPT ![a] = "pending"]
        /\ begun' = [begun EXCEPT ![a] = Never]
        /\ stops' = [stops EXCEPT ![a] = Ended(a)]
        /\ UNCHANGED <<ended, ender, marked, marker, ready>>

RowsInit ==
    /\ clock = 0
    /\ stage = [a \in Acts |-> "pending"]
    /\ begun = [a \in Acts |-> Never]
    /\ ended = [a \in Acts |-> Never]
    /\ ender = [a \in Acts |-> Nobody]
    /\ stops = [a \in Acts |-> {}]
    /\ marked = [p \in Slips |-> Never]
    /\ marker = [p \in Slips |-> Nobody]
    /\ ready = {}

RowsNext ==
    \/ \E a \in Acts :
          \/ Start(a)
          \/ Resume(a)
          \/ \E u \in Staff : Pause(a, u) \/ Finish(a, u)
    \/ \E p \in Slips : Unmark(p) \/ \E u \in Staff : Mark(p, u)
    \/ \E o \in Orders : SendBack(o)

-----------------------------------------------------------------------------
(* ProductionService *)

Within(t, from, to) == from <= t /\ t < to

\* open_days: the days somebody marked a piece or took an order on.
open_days(from, to) ==
    {local_date(t) : t \in {u \in {marked[p] : p \in Slips}
                                  \union {begun[Cut(o)] : o \in Orders} :
                               u # Never /\ Within(u, from, to)}}

Marks(o) == {[at |-> marked[p], kind |-> "mark", user |-> marker[p]] :
                p \in {q \in SlipsOf(o) : marked[q] # Never}}
Timeline(o) ==
    LET a == Cut(o)
    IN  Marks(o)
        \union (IF begun[a] = Never THEN {} ELSE {[at |-> begun[a], kind |-> "take"]})
        \union {[at |-> s.from, kind |-> "pause", user |-> s.user] : s \in stops[a]}
        \union {[at |-> s.to, kind |-> "resume"] :
                   s \in {q \in stops[a] : q.to # Never}}

\* order_cuts: the orders being cut at some point of the range, each with its
\* whole timeline; a timeline opens its own days, and their orders' days before
\* the range count from the earliest event of them all.
BeingCut(from, to) ==
    {o \in Orders :
        LET ats == {e.at : e \in Marks(o)}
            first == IF begun[Cut(o)] = Never THEN ats ELSE ats \union {begun[Cut(o)]}
        IN  ats # {} /\ Max(ats) >= from /\ Min(first) < to}
OpenFor(from, to) ==
    LET events == UNION {Timeline(o) : o \in BeingCut(from, to)}
    IN  open_days(Sooner(from, Min({e.at : e \in events} \union {from})), to)
        \union {local_date(e.at) : e \in events}
order_cuts(from, to) ==
    LET open == OpenFor(from, to)
    IN  {[order |-> o, segments |-> cut_segments(Timeline(o), open)] :
            o \in BeingCut(from, to)}
Segments(cuts) == UNION {c.segments : c \in cuts}

Whole(b) == \A p \in Slips : SheetOf[p] = b => marked[p] # Never
LastMark(b) ==
    CHOOSE p \in Slips : SheetOf[p] = b /\ \A q \in Slips :
        SheetOf[q] = b => marked[q] <= marked[p]
\* Mistake: a sheet processed whenever a piece of it was marked in the range.
TouchedBoards(from, to) ==
    {b \in Sheets : Whole(b) /\ \E p \in Slips :
        SheetOf[p] = b /\ Within(marked[p], from, to)}

\* processed_boards: dated by the last mark, for whoever made it.
processed_boards(from, to) ==
    {b \in Sheets : Whole(b) /\ Within(marked[LastMark(b)], from, to)}
\* board_weight, in half boards.
Weight(b) ==
    CASE SheetKind[b] = "whole" -> 2 [] SheetKind[b] = "half" -> 1
      [] SheetKind[b] = "offcut" -> 0
Boards(sheets) == Total([b \in sheets |-> Weight(b)], sheets)

\* operator_sheets and sheet_credit: the sheets one operator touched, and where
\* each one stands.
operator_sheets(u, from, to) ==
    {b \in Sheets : \E p \in Slips :
        SheetOf[p] = b /\ marker[p] = u /\ Within(marked[p], from, to)}
sheet_credit(u, b, from, to) ==
    IF ~Whole(b) THEN "incomplete"
    ELSE IF marker[LastMark(b)] # u THEN "credited_to_other"
    ELSE IF ~Within(marked[LastMark(b)], from, to) THEN "outside_range"
    ELSE "credited"

\* pauses: those that overlap the range; one in force overlaps every later one.
PausesIn(kind, from, to) ==
    UNION {{s \in stops[a] : s.from < to /\ (s.to = Never \/ s.to >= from)} :
           a \in {b \in Acts : b[2] = kind}}
interval(s) == <<s.from, IF s.to = Never THEN clock ELSE s.to>>

\* cut_events: marks, takings and closings, an old closing included.
CutEvents ==
    {t \in {marked[p] : p \in Slips}
           \union {begun[Cut(o)] : o \in Orders} \union {ended[Cut(o)] : o \in Orders} :
        t # Never}

-----------------------------------------------------------------------------
(* The live state, asked at an instant *)

Runs(a) == stage[a] = "in_progress" /\ ~Stopped(a)
Cutting == {o \in Orders : InProcess(o) /\ Runs(Cut(o))}
PausedCuts == {o \in Orders : InProcess(o) /\ stage[Cut(o)] = "in_progress" /\ Stopped(Cut(o))}
Queued == {o \in Orders : stage[Cut(o)] = "pending"}
PauseOf(a) == CHOOSE s \in stops[a] : s.to = Never

\* A paused cut explains a quiet saw only when it is the only cut open.
live_state(now) ==
    IF CutEvents # {} /\ now - Max(CutEvents) <= IdleGap THEN "cutting"
    ELSE IF PausedCuts # {} /\ Cutting = {} THEN "paused"
    ELSE IF Queued \union Cutting \union PausedCuts # {} THEN "stopped" ELSE "idle"
since(now) ==
    CASE live_state(now) = "cutting" ->
            run_start({t \in CutEvents : t >= now - DayTicks}, IdleGap)
      [] live_state(now) = "paused" -> Min({PauseOf(Cut(o)).from : o \in PausedCuts})
      [] OTHER -> Max(CutEvents \union {Never})

\* The banding's: read off the rows, since it leaves no marks.
Benches == {a \in Acts : a[2] = "banding" /\ InProcess(a[1])}
activity_live_state ==
    IF \E a \in Benches : Runs(a) THEN "working"
    ELSE IF \E a \in Benches : Stopped(a) THEN "paused"
    ELSE IF \E a \in Benches : stage[a] = "pending" /\ a[1] \in ready
    THEN "waiting" ELSE "idle"

-----------------------------------------------------------------------------
(* PerformanceService: the figures of a range *)

\* _work_days: the branch as one saw; operators: each one's own segments.
OfUser(segments, u) == {s \in segments : s.user = u}
BranchDay(cuts, day, from, to) == work_by_day(Segments(cuts), day, from, to)
OperatorDay(cuts, u, day, from, to) ==
    work_by_day(OfUser(Segments(cuts), u), day, from, to)

PausedDay(day, from, to) ==
    paused_by_day({interval(s) : s \in PausesIn("cutting", from, to)}, day, from,
                  Sooner(to, clock))

PiecesCut(u, from, to) ==
    Cardinality({p \in Slips : marker[p] = u /\ Within(marked[p], from, to)})
OperatorBoards(u, from, to) ==
    {b \in processed_boards(from, to) : marker[LastMark(b)] = u}
CreditedSheets(u, from, to) ==
    {b \in operator_sheets(u, from, to) : sheet_credit(u, b, from, to) = "credited"}

\* _closed_activities and _bander_open_days: a banding's time, on the days the
\* branch's banders started or closed something.
ClosedBandings(from, to) ==
    {a \in Acts : a[2] = "banding" /\ ended[a] # Never /\ Within(ended[a], from, to)}
BanderDays(from, to) ==
    LET first == Min({begun[a] : a \in ClosedBandings(from, to)})
    IN  {local_date(t) : t \in {u \in {begun[a] : a \in {b \in Acts : b[2] = "banding"}}
                                      \union {ended[a] : a \in {b \in Acts : b[2] = "banding"}} :
                                   u # Never /\ Within(u, first, to)}}
BandingTicks(a, from, to) ==
    IF ~Clocked(begun[a], ended[a]) THEN 0
    ELSE activity_seconds(begun[a], ended[a], stops[a], BanderDays(from, to))

-----------------------------------------------------------------------------
(* Properties *)

ReportsTyped ==
    /\ clock \in Instants \union {0}
    /\ stage \in [Acts -> {"pending", "in_progress", "done"}]
    /\ begun \in [Acts -> Instants \union {Never}]
    /\ ended \in [Acts -> Instants \union {Never}]
    /\ ender \in [Acts -> Staff \union {Nobody}]
    /\ \A a \in Acts : \A s \in stops[a] :
          s.from \in Instants /\ s.to \in Instants \union {Never} /\ s.user \in Staff
    /\ marked \in [Slips -> Instants \union {Never}]
    /\ marker \in [Slips -> Staff \union {Nobody}]
    /\ ready \subseteq Orders

Days == {local_date(t) : t \in Instants}
From(day) == day * DayTicks
To(day) == (day + 1) * DayTicks
AllFrom == From(Min(Days))
AllTo == To(Max(Days))

TicksOf(s) == s.start .. s.end - 1
StoppedTicks(a) == UNION {interval(s)[1] .. interval(s)[2] - 1 : s \in stops[a]}

\* An order's minutes are read once, none of them in a registered pause of its
\* cut, and none before a cut that was never paused nor sent back was taken.
MinutesAreWork(cuts) ==
    \A c \in cuts :
        LET a == Cut(c.order)
        IN  /\ \A s \in c.segments :
                  /\ TicksOf(s) \cap StoppedTicks(a) = {}
                  /\ s.user \in Staff
                  /\ begun[a] # Never /\ (\A e \in Timeline(c.order) : begun[a] <= e.at)
                        => s.start >= begun[a]
            /\ \A s, q \in c.segments : s # q => TicksOf(s) \cap TicksOf(q) = {}

\* What the loading of a range overlooks: a pause left first on a timeline, its
\* cut sent back since (the range of order_cuts looks at the taking and the
\* marks); and a pause or its end on a day nobody marked or took anything, which
\* opens the day for the whole branch once its order is in the range.
PausesOverlooked ==
    \E o \in Orders : \E e \in Timeline(o) :
        /\ e.kind \in {"pause", "resume"}
        /\ \/ \A f \in Timeline(o) : e.at <= f.at
           \/ local_date(e.at) \notin open_days(AllFrom, AllTo)

\* The branch is one saw: a day holds no minute twice and no more minutes than
\* it has, at least each operator's and at most all of theirs together.
OneSaw(cuts, day) ==
    LET whole == BranchDay(cuts, day, AllFrom, AllTo)
        staff == [u \in Staff |-> DayWork(OperatorDay(cuts, u, day, AllFrom, AllTo))]
        minutes == UNION {TicksOf(s) : s \in Segments(cuts)}
    IN  /\ DayWork(whole) = Cardinality(minutes \cap From(day) .. To(day) - 1)
        /\ \A u \in Staff : staff[u] <= DayWork(whole)
        /\ DayWork(whole) <= Total(staff, Staff)

\* A day reads the same whichever range it is asked in.
SameInEveryRange(cuts, day) ==
    \/ PausesOverlooked
    \/ BranchDay(cuts, day, AllFrom, AllTo)
         = BranchDay(order_cuts(From(day), To(day)), day, From(day), To(day))

\* The ledger behind an operator's row holds exactly the sheets the row counts,
\* a finished sheet is counted on one day, for one operator, and the rows of the
\* days and of the operators add up to the range's boards and pieces.
SheetsCountOnce ==
    /\ \A u \in Staff, day \in Days :
          CreditedSheets(u, From(day), To(day)) = OperatorBoards(u, From(day), To(day))
    /\ Total([k \in Staff \X Days |-> Boards(OperatorBoards(k[1], From(k[2]), To(k[2])))],
             Staff \X Days)
         = Boards(processed_boards(AllFrom, AllTo))
    /\ Total([k \in Staff \X Days |-> PiecesCut(k[1], From(k[2]), To(k[2]))], Staff \X Days)
         = Cardinality({p \in Slips : marked[p] # Never})
    /\ \A b \in Sheets : Whole(b) =>
          Cardinality({k \in Staff \X Days :
                          b \in CreditedSheets(k[1], From(k[2]), To(k[2]))}) = 1

\* A closed banding reads the same in every range that holds its closing, and
\* leaves its registered pauses out.
BandingReadsTheSame ==
    \A a \in ClosedBandings(AllFrom, AllTo) :
        LET day == local_date(ended[a])
            took == BandingTicks(a, AllFrom, AllTo)
        IN  /\ took = BandingTicks(a, From(day), To(day))
            /\ took <= ended[a] - begun[a] - Cardinality(StoppedTicks(a))

\* The paused time of a day is the same in every range.
PausesReadTheSame ==
    \A day \in Days :
        PausedDay(day, AllFrom, AllTo) = PausedDay(day, From(day), To(day))

\* A pause in force is one of an activity somebody started, so a saw reads
\* paused only with nobody left at a running cut, and idle only with nothing
\* stopped half way; its run in progress never bridges a silence; and a banding
\* under way reads idle only while its order is back in the queue.
QuietHasItsReason ==
    /\ \A a \in Acts : Stopped(a) => stage[a] = "in_progress"
    /\ \A now \in {t \in Instants : t >= clock} :
          live_state(now) \in {"paused", "idle"} =>
              \A o \in Orders : stage[Cut(o)] = "in_progress" => Stopped(Cut(o))
    /\ \A now \in {t \in Instants : t >= clock} :
          /\ since(now) <= clock
          /\ live_state(now) = "cutting" =>
                \A t \in since(now) .. now : \E e \in CutEvents : e - t \in -IdleGap .. IdleGap
    /\ activity_live_state = "idle" =>
          \A a \in Acts : a[2] = "banding" /\ stage[a] = "in_progress" => a[1] \in Queued

\* What each day reads, asked day by day.
WorkRead ==
    [day \in Days |->
        DayWork(BranchDay(order_cuts(From(day), To(day)), day, From(day), To(day)))]

\* A request that takes back a mark or sends an order back to the queue.
TakesBack ==
    \/ \E p \in Slips : marked[p] # Never /\ marked'[p] = Never
    \/ \E o \in Orders : begun[Cut(o)] # Never /\ begun'[Cut(o)] = Never

\* HISTORY: what the days read before the last request, nothing if it took back.
ToldInit == told = [day \in Days |-> 0]
ToldNext == told' = IF TakesBack THEN [day \in Days |-> 0] ELSE WorkRead

\* Work once read stands: any other request only adds to what a day reads.
WorkOnlyGrows == \A day \in Days : WorkRead[day] >= told[day]

\* What the reports say of the shop floor agrees with itself and with the rows.
ReportsAgree ==
    LET cuts == order_cuts(AllFrom, AllTo)
    IN  /\ MinutesAreWork(cuts)
        /\ \A day \in Days : OneSaw(cuts, day) /\ SameInEveryRange(cuts, day)
        /\ SheetsCountOnce
        /\ BandingReadsTheSame
        /\ PausesReadTheSame
        /\ QuietHasItsReason
        /\ WorkOnlyGrows

-----------------------------------------------------------------------------
ReportsInit == RowsInit /\ ToldInit
ReportsNext == RowsNext /\ ToldNext
ReportsSpec == ReportsInit /\ [][ReportsNext]_reportVars
=============================================================================
