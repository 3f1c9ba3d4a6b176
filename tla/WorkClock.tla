------------------------------ MODULE WorkClock ------------------------------
(***************************************************************************)
(* The shop's working hours and the cut's time: the pure half of the       *)
(* production reports, work_schedule.py and production.py. Instants are    *)
(* ticks; an interval <<a, b>> is the ticks a .. b - 1, and a list of      *)
(* intervals the code sorts and merges is the set of them.                 *)
(***************************************************************************)
EXTENDS Integers, Sums

CONSTANTS
    DayTicks,  \* the ticks of a day
    Week,      \* WorkSchedule.days: the windows of each weekday, a sequence
    Overtime,  \* OVERTIME_LIMIT
    MinClocked \* MIN_CLOCKED

ASSUME WorkClockAssumption ==
    /\ DayTicks \in Nat \ {0}
    /\ Overtime \in 0..DayTicks - 1
    /\ MinClocked \in Nat
    /\ Cardinality(DOMAIN Week) \in Nat \ {0} /\ DOMAIN Week = 1..Cardinality(DOMAIN Week)
    /\ \A d \in DOMAIN Week :
          /\ Week[d] \subseteq (0..DayTicks - 1) \X (1..DayTicks)
          /\ \A w \in Week[d] : w[1] < w[2]
          /\ \A v, w \in Week[d] : v # w => v[2] <= w[1] \/ w[2] <= v[1]

\* A timestamp that is NULL; every other instant is 1 or later.
Never == 0

local_date(t) == t \div DayTicks
Later(a, b) == IF a > b THEN a ELSE b
Sooner(a, b) == IF a < b THEN a ELSE b

-----------------------------------------------------------------------------
(* WorkSchedule *)

\* The windows around the stretch, whole, of the days somebody worked.
windows(start, end, open) ==
    UNION {{<<d * DayTicks + w[1], d * DayTicks + w[2]>> :
               w \in Week[1 + (d % Cardinality(DOMAIN Week))]} :
           d \in (local_date(start) - 1 .. local_date(end) + 1) \cap open}

overlap(start, end, open) ==
    {<<Later(start, w[1]), Sooner(end, w[2])>> :
        w \in {v \in windows(start, end, open) : v[2] > start /\ v[1] < end}}

\* The part of the stretch between two events that counts as work: all of a
\* short one; of a longer one its hours, and the time off it ends in while that
\* stays within the limit.
worked(start, end, open) ==
    LET pieces == overlap(start, end, open)
        final == CHOOSE p \in pieces : \A q \in pieces : q[2] <= p[2]
        inHours == \E w \in windows(start, end, open) : w[1] <= end /\ end < w[2]
    IN  IF end <= start THEN {}
        ELSE IF end - start <= Overtime THEN {<<start, end>>}
        ELSE IF pieces # {} /\ ~inHours /\ end - final[2] <= Overtime
        THEN (pieces \ {final}) \union {<<final[1], end>>}
        ELSE pieces

\* _union_seconds: each interval, oldest first, adds what it reaches past the
\* ones before it.
Reach(intervals, i) ==
    Max({i[1]} \union {j[2] : j \in {k \in intervals :
            k[1] < i[1] \/ (k[1] = i[1] /\ k[2] < i[2])}})
UnionTicks(intervals) ==
    Total([i \in intervals |-> Later(0, i[2] - Reach(intervals, i))], intervals)

\* seconds: each on its own.
Ticks(intervals) == Total([i \in intervals |-> i[2] - i[1]], intervals)

-----------------------------------------------------------------------------
(* The cut's time *)

\* _KIND_ORDER: two events of one instant, in the order they happened.
KindOrder(kind) ==
    CASE kind = "take" -> 0 [] kind = "resume" -> 1
      [] kind = "mark" -> 2 [] kind = "pause" -> 3

Before(e, f) ==
    e.at < f.at \/ (e.at = f.at /\ KindOrder(e.kind) < KindOrder(f.kind))

\* Neighbours in the ordered timeline.
Consecutive(events) ==
    {pair \in events \X events :
        /\ Before(pair[1], pair[2])
        /\ ~ \E e \in events : Before(pair[1], e) /\ Before(e, pair[2])}

\* _worked_stretches: a stretch counts when it ends in work registered and did
\* not start at a pause.
WorkedStretches(events) ==
    {pair \in Consecutive(events) :
        pair[2].kind \in {"mark", "pause"} /\ pair[1].kind # "pause"}

\* cut_segments: up to the first mark the cut is loading, then sawing, and what
\* comes after the last mark is no cutting. Whoever registered the event that
\* closes a stretch gets it.
cut_segments(events, open) ==
    LET marks == {e.at : e \in {f \in events : f.kind = "mark"}}
        counted == {e \in events : e.at <= Max(marks)}
    IN  IF marks = {} THEN {}
        ELSE UNION {{[start |-> i[1], end |-> i[2], user |-> s[2].user,
                      phase |-> IF s[2].at <= Min(marks)
                                THEN "loading" ELSE "sawing"] :
                         i \in worked(s[1].at, s[2].at, open)} :
                    s \in WorkedStretches(counted)}

\* clocked_seconds: a start and a close together are a registration after the
\* fact, not a duration.
Clocked(start, end) ==
    start # Never /\ end # Never /\ end - start >= MinClocked

\* activity_seconds: the time of an activity that marks no pieces.
activity_seconds(start, end, pauses, open) ==
    LET events == {[at |-> start, kind |-> "take"], [at |-> end, kind |-> "mark"]}
                  \union {[at |-> s.from, kind |-> "pause"] : s \in pauses}
                  \union {[at |-> s.to, kind |-> "resume"] :
                             s \in {q \in pauses : q.to # Never}}
        stretches == WorkedStretches(events)
    IN  Total([s \in stretches |-> Ticks(worked(s[1].at, s[2].at, open))], stretches)

-----------------------------------------------------------------------------
(* Days of a report *)

\* _clip and _split_by_day: what of an interval falls in a day of the range.
OnDay(intervals, day, from, to) ==
    {<<Later(i[1], Later(from, day * DayTicks)),
       Sooner(i[2], Sooner(to, (day + 1) * DayTicks))>> :
        i \in {j \in intervals :
                  Later(j[1], Later(from, day * DayTicks))
                    < Sooner(j[2], Sooner(to, (day + 1) * DayTicks))}}

\* work_by_day: one saw's segments as a day's loading and sawing. A union, and
\* a minute that is both is sawing.
work_by_day(segments, day, from, to) ==
    LET In(phases) ==
            UnionTicks(OnDay({<<s.start, s.end>> :
                                 s \in {q \in segments : q.phase \in phases}},
                             day, from, to))
        sawing == In({"sawing"})
    IN  [loading |-> In({"loading", "sawing"}) - sawing, sawing |-> sawing]

DayWork(w) == w.loading + w.sawing

\* paused_by_day: working hours only, whether or not anybody came.
paused_by_day(pauses, day, from, to) ==
    UnionTicks(UNION {overlap(i[1], i[2], local_date(from) - 1 .. local_date(to) + 1) :
                         i \in OnDay(pauses, day, from, to)})

\* run_start: back from the last event while every gap fits.
run_start(times, gap) ==
    Min({t \in times : \A u \in times :
            u > t => \E v \in times : t <= v /\ v < u /\ u - v <= gap})
=============================================================================
