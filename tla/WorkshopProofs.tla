--------------------------- MODULE WorkshopProofs ----------------------------
(***************************************************************************)
(* Proofs about the cutting engine: PoolExecutor, for any threads, jobs,    *)
(* executors and faults; Packer, for any pieces, sheet, blade and point of  *)
(* the portfolio; PlanSearch, for any bins, list, blade and number of       *)
(* passes; OffcutPool, for any pool, pieces, blade and cap.                *)
(***************************************************************************)
EXTENDS PoolExecutor, Packer, PlanSearch, OffcutPool, SumTheorems, TLAPS

Batches == [step : ThreadSteps, on : 0..MaxExecutors, next : JobIds]

\* What the lock of _get_executor and the swap keep apart.
PoolShaped ==
    /\ current \in 0..MaxExecutors
    /\ pool \in [1..MaxExecutors -> {"unborn", "running", "broken", "shut"}]
    /\ breaker \in BOOLEAN /\ faults \in 0..MaxFaults
    /\ thread \in [Threads -> Batches]

\* The executor of the moment has been built.
CurrentIsBuilt == current # 0 => pool[current] # "unborn"

\* The inductive invariant.
PoolInv == PoolShaped /\ CurrentIsBuilt /\ NoPoolIsLeaked

-----------------------------------------------------------------------------
\* A batch that takes another step keeps its executor and its job.
LEMMA StepFacts ==
    ASSUME NEW r \in Batches, NEW step \in ThreadSteps
    PROVE  /\ [r EXCEPT !.step = step] \in Batches
           /\ [r EXCEPT !.step = step].step = step
  BY DEF Batches

\* A batch all submitted waits for its first result.
LEMMA WaitFacts ==
    ASSUME NEW r \in Batches, 1 \in JobIds
    PROVE  [r EXCEPT !.step = "wait", !.next = 1] \in Batches
  BY DEF Batches, ThreadSteps

\* What a step that neither builds, breaks nor takes an executor leaves of it.
LEMMA PoolStands ==
    ASSUME PoolInv, NEW t \in Threads, NEW r \in Batches,
           ~ThreadIs(t, "kill"),
           thread' = [thread EXCEPT ![t] = r],
           current' = current, pool' = pool,
           breaker' \in BOOLEAN, faults' \in 0..MaxFaults
    PROVE  PoolInv'
<1> USE DEF PoolInv
<1>1. PoolShaped'
  BY DEF PoolShaped
<1>2. CurrentIsBuilt'
  BY DEF CurrentIsBuilt
<1>3. \A s \in Threads : ThreadIs(s, "kill") => thread'[s] = thread[s]
  BY DEF PoolShaped, ThreadIs
<1>4. NoPoolIsLeaked'
  BY <1>3 DEF NoPoolIsLeaked, ThreadIs
<1>5. QED
  BY <1>1, <1>2, <1>4

\* Every step keeps the invariant.
LEMMA PoolStep == PoolInv /\ [PoolNext]_poolVars => PoolInv'
<1> SUFFICES ASSUME PoolInv, [PoolNext]_poolVars PROVE PoolInv'
  OBVIOUS
<1> USE PoolAssumption
<1>0. /\ PoolShaped /\ CurrentIsBuilt /\ NoPoolIsLeaked
      /\ 1 \in JobIds
      /\ \A t \in Threads : thread[t] \in Batches
      /\ \A x \in ThreadSteps, t \in Threads : [thread[t] EXCEPT !.step = x] \in Batches
  BY StepFacts DEF PoolInv, PoolShaped, JobIds
<1>1. ASSUME NEW t \in Threads, BatchArrives(t) PROVE PoolInv'
  <2>1. PICK x \in {"inline", "get"} : thread' = [thread EXCEPT ![t].step = x]
    BY <1>1 DEF BatchArrives, GoesTo
  <2>2. QED
    BY <1>0, <1>1, <2>1, PoolStands DEF BatchArrives, ThreadIs, PoolShaped, ThreadSteps
<1>2. ASSUME NEW t \in Threads, GetExecutor(t) PROVE PoolInv'
  <2>1. [step |-> "submit", on |-> current, next |-> 1] \in Batches
    BY <1>0 DEF PoolShaped, Batches, ThreadSteps
  <2>2. QED
    BY <1>0, <1>2, <2>1, PoolStands DEF GetExecutor, ThreadIs, PoolShaped
<1>3. ASSUME NEW t \in Threads, BuildExecutor(t) PROVE PoolInv'
  <2>1. PICK e \in 1..MaxExecutors :
           /\ pool[e] = "unborn"
           /\ pool' = [pool EXCEPT ![e] = "running"]
           /\ current' = e
           /\ thread' = [thread EXCEPT ![t] = [step |-> "submit", on |-> e, next |-> 1]]
    BY <1>3 DEF BuildExecutor
  <2>2. [step |-> "submit", on |-> e, next |-> 1] \in Batches
    BY <1>0 DEF Batches, ThreadSteps
  <2>3. PoolShaped'
    BY <1>0, <1>3, <2>1, <2>2 DEF PoolShaped, BuildExecutor
  <2>4. pool'[e] = "running" /\ \A d \in (1..MaxExecutors) \ {e} : pool'[d] = pool[d]
    BY <1>0, <2>1 DEF PoolShaped
  <2>5. \A s \in Threads : ThreadIs(s, "kill") => thread'[s] = thread[s]
    BY <1>0, <1>3, <2>1 DEF BuildExecutor, PoolShaped, ThreadIs
  <2>6. NoPoolIsLeaked'
    BY <1>0, <1>3, <2>1, <2>4, <2>5 DEF NoPoolIsLeaked, BuildExecutor, ThreadIs
  <2>7. CurrentIsBuilt'
    BY <2>1, <2>4 DEF CurrentIsBuilt
  <2>8. QED
    BY <2>3, <2>6, <2>7 DEF PoolInv
<1>4. ASSUME NEW t \in Threads, FailToBuild(t) PROVE PoolInv'
  <2>1. faults' \in 0..MaxFaults
    BY <1>0, <1>4 DEF FailToBuild, PoolShaped
  <2>2. QED
    BY <1>0, <1>4, <2>1, PoolStands DEF FailToBuild, GoesTo, ThreadIs, ThreadSteps
<1>5. ASSUME NEW t \in Threads, Submit(t) PROVE PoolInv'
  <2> DEFINE r == thread[t]
  <2>1. r.next < Jobs => [r EXCEPT !.next = @ + 1] \in Batches
    BY <1>0 DEF Batches, JobIds
  <2>2. [r EXCEPT !.step = "wait", !.next = 1] \in Batches
    BY <1>0, WaitFacts
  <2>3. PICK q \in Batches : thread' = [thread EXCEPT ![t] = q]
    BY <1>0, <1>5, <2>1, <2>2 DEF Submit, GoesTo, GivenUp, ThreadSteps
  <2>4. QED
    BY <1>0, <1>5, <2>3, PoolStands DEF Submit, ThreadIs, PoolShaped
<1>6. ASSUME NEW t \in Threads, Collect(t) PROVE PoolInv'
  <2> DEFINE r == thread[t]
  <2>1. r.next < Jobs => [r EXCEPT !.next = @ + 1] \in Batches
    BY <1>0 DEF Batches, JobIds
  <2>2. PICK q \in Batches : thread' = [thread EXCEPT ![t] = q]
    BY <1>0, <1>6, <2>1 DEF Collect, GoesTo, GivenUp, ThreadSteps
  <2>3. QED
    BY <1>0, <1>6, <2>2, PoolStands DEF Collect, ThreadIs, PoolShaped
<1>7. ASSUME NEW t \in Threads, SwapOut(t) PROVE PoolInv'
  <2>1. thread' = [thread EXCEPT ![t] = [step |-> "kill", on |-> current, next |-> 1]]
        /\ current' = 0 /\ breaker' = FALSE /\ pool' = pool /\ faults' = faults
    BY <1>7 DEF SwapOut, Taken
  <2>2. [step |-> "kill", on |-> current, next |-> 1] \in Batches
    BY <1>0 DEF Batches, ThreadSteps, PoolShaped
  <2>3. PoolShaped'
    <3>1. thread' \in [Threads -> Batches]
      BY <2>1, <2>2, <1>0 DEF PoolShaped
    <3>2. 0 \in 0..MaxExecutors /\ FALSE \in BOOLEAN
      OBVIOUS
    <3>3. QED
      BY <1>0, <2>1, <3>1, <3>2 DEF PoolShaped
  <2>4. thread'[t] = [step |-> "kill", on |-> current, next |-> 1]
        /\ \A s \in Threads : ThreadIs(s, "kill") => thread'[s] = thread[s]
    BY <1>0, <1>7, <2>1 DEF SwapOut, PoolShaped, ThreadIs
  <2>5. NoPoolIsLeaked'
    BY <1>0, <2>1, <2>4 DEF NoPoolIsLeaked, ThreadIs
  <2>6. QED
    BY <2>1, <2>3, <2>5 DEF PoolInv, CurrentIsBuilt
<1>8. ASSUME NEW t \in Threads, Kill(t) PROVE PoolInv'
  <2> DEFINE e == thread[t].on
  <2>1. [step |-> "trip", on |-> 0, next |-> 1] \in Batches
    BY <1>0 DEF Batches, ThreadSteps
  <2>2. e \in 0..MaxExecutors
    BY <1>0 DEF Batches
  <2>3. /\ thread' = [thread EXCEPT ![t] = [step |-> "trip", on |-> 0, next |-> 1]]
        /\ pool' \in [1..MaxExecutors -> {"unborn", "running", "broken", "shut"}]
        /\ \A d \in 1..MaxExecutors : pool'[d] = IF d = e THEN "shut" ELSE pool[d]
        /\ UNCHANGED <<current, breaker, faults>>
    BY <1>0, <1>8, <2>2 DEF Kill, PoolShaped
  <2>4. PoolShaped'
    BY <1>0, <2>1, <2>3 DEF PoolShaped
  <2>5. CurrentIsBuilt'
    BY <1>0, <2>3 DEF CurrentIsBuilt, PoolShaped
  <2>6. \A s \in Threads \ {t} : thread'[s] = thread[s]
    BY <1>0, <2>3 DEF PoolShaped
  <2>7. NoPoolIsLeaked'
    <3> SUFFICES ASSUME NEW d \in 1..MaxExecutors, pool'[d] \in {"running", "broken"}
                 PROVE  d = current \/ \E s \in Threads : thread'[s].step = "kill" /\ thread'[s].on = d
      BY <2>3 DEF NoPoolIsLeaked, ThreadIs
    <3>1. d # e /\ pool[d] \in {"running", "broken"}
      BY <2>3
    <3>2. QED
      BY <1>0, <2>6, <3>1 DEF NoPoolIsLeaked, ThreadIs
  <2>8. QED
    BY <2>4, <2>5, <2>7 DEF PoolInv
<1>9. ASSUME NEW t \in Threads, TripBreaker(t) \/ RunInline(t) PROVE PoolInv'
  <2>1. PICK x \in {"inline", "answered"} : thread' = [thread EXCEPT ![t].step = x]
    BY <1>9 DEF TripBreaker, RunInline, GoesTo
  <2>2. QED
    BY <1>0, <1>9, <2>1, PoolStands DEF TripBreaker, RunInline, ThreadIs, PoolShaped, ThreadSteps
<1>10. ASSUME NEW t \in Threads, Return(t) PROVE PoolInv'
  <2>1. Resting \in Batches
    BY <1>0 DEF Resting, Batches, ThreadSteps
  <2>2. QED
    BY <1>0, <1>10, <2>1, PoolStands DEF Return, ThreadIs, PoolShaped
<1>11. ASSUME NEW t \in Threads, (\E j \in JobIds : Work(t, j)) \/ Deadline(t) PROVE PoolInv'
  <2>1. /\ UNCHANGED <<current, pool, breaker, thread>>
        /\ faults' \in 0..MaxFaults
    BY <1>0, <1>11 DEF Work, Deadline, PoolShaped
  <2>2. QED
    BY <1>0, <2>1 DEF PoolInv, PoolShaped, CurrentIsBuilt, NoPoolIsLeaked, ThreadIs
<1>12. ASSUME NEW e \in 1..MaxExecutors, WorkerDies(e) PROVE PoolInv'
  <2>1. /\ UNCHANGED <<current, breaker, thread>>
        /\ faults' \in 0..MaxFaults
        /\ pool[e] = "running" /\ pool' = [pool EXCEPT ![e] = "broken"]
    BY <1>0, <1>12 DEF WorkerDies, PoolShaped
  <2>2. /\ pool' \in [1..MaxExecutors -> {"unborn", "running", "broken", "shut"}]
        /\ \A d \in 1..MaxExecutors : pool'[d] = IF d = e THEN "broken" ELSE pool[d]
    BY <1>0, <2>1 DEF PoolShaped
  <2>3. QED
    BY <1>0, <2>1, <2>2 DEF PoolInv, PoolShaped, CurrentIsBuilt, NoPoolIsLeaked, ThreadIs
<1>13. ASSUME CoolDown PROVE PoolInv'
  BY <1>0, <1>13 DEF CoolDown, PoolInv, PoolShaped, CurrentIsBuilt, NoPoolIsLeaked, ThreadIs
<1>14. CASE UNCHANGED poolVars
  BY <1>0, <1>14 DEF poolVars, PoolInv, PoolShaped, CurrentIsBuilt, NoPoolIsLeaked, ThreadIs
<1>15. QED
  BY <1>1, <1>2, <1>3, <1>4, <1>5, <1>6, <1>7, <1>8, <1>9, <1>10, <1>11, <1>12, <1>13, <1>14
  DEF PoolNext, Serve

\* The inductive invariant holds of every run of the threads and their pools.
THEOREM PoolSafe == PoolSpec => []PoolInv
<1>1. PoolInit => PoolInv
  <2> SUFFICES ASSUME PoolInit PROVE PoolInv
    OBVIOUS
  <2>1. Resting \in Batches
    BY PoolAssumption DEF Resting, Batches, ThreadSteps, JobIds
  <2>2. PoolShaped
    <3>0. current = 0 /\ breaker = FALSE /\ faults = 0
      BY DEF PoolInit
    <3>1. 0 \in 0..MaxExecutors /\ 0 \in 0..MaxFaults
      BY PoolAssumption
    <3>2. pool \in [1..MaxExecutors -> {"unborn", "running", "broken", "shut"}]
      BY DEF PoolInit
    <3>3. thread \in [Threads -> Batches]
      BY <2>1 DEF PoolInit
    <3>4. QED
      BY <3>0, <3>1, <3>2, <3>3 DEF PoolShaped
  <2>3. NoPoolIsLeaked
    BY DEF PoolInit, NoPoolIsLeaked
  <2>4. QED
    BY <2>2, <2>3 DEF PoolInv, CurrentIsBuilt, PoolInit
<1>2. QED
  BY <1>1, PoolStep, PTL DEF PoolSpec

\* What a batch may have been told of a job.
Futures == [Threads -> [JobIds -> {"none", "pending", "done", "refused", "broken", "late", "cancelled"}]]
FuturesTyped == future \in Futures

\* Every future is in one of its states, whoever settles it.
LEMMA FuturesStep == PoolInv /\ FuturesTyped /\ [PoolNext]_poolVars => FuturesTyped'
<1> SUFFICES ASSUME PoolInv, future \in Futures, [PoolNext]_poolVars PROVE future' \in Futures
  BY DEF FuturesTyped, Futures, JobIds
<1>1. ASSUME NEW t \in Threads, NEW j \in JobIds,
             NEW state \in {"none", "pending", "done", "refused", "broken", "late", "cancelled"},
             future' = [future EXCEPT ![t][j] = state]
      PROVE  future' \in Futures
  BY <1>1 DEF Futures
<1>2. ASSUME NEW t \in Threads, future' = [future EXCEPT ![t] = [j \in JobIds |-> "none"]]
      PROVE  future' \in Futures
  BY <1>2 DEF Futures
<1>3. ASSUME NEW e, Settle(e, {"broken", "cancelled"}) \/ Settle(e, {"broken"})
      PROVE  future' \in Futures
  <2>1. PICK result \in [Threads -> {"broken", "cancelled"}] :
           future' = [t \in Threads |-> [j \in JobIds |->
                         IF thread[t].on = e /\ future[t][j] = "pending" THEN result[t]
                                                                         ELSE future[t][j]]]
    BY <1>3 DEF Settle
  <2>2. QED
    BY <2>1 DEF Futures
<1>4. \A t \in Threads : thread[t].next \in JobIds
  BY DEF PoolInv, PoolShaped, Batches
<1>5. ASSUME NEW t \in Threads, Submit(t) PROVE future' \in Futures
  BY <1>1, <1>4, <1>5 DEF Submit
<1>6. ASSUME NEW t \in Threads, Serve(t) PROVE future' \in Futures
  <2>1. CASE SwapOut(t) \/ Return(t)
    BY <1>2, <2>1 DEF SwapOut, Return
  <2>2. CASE Kill(t)
    BY <1>3, <2>2 DEF Kill
  <2>3. CASE Submit(t)
    BY <1>5, <2>3
  <2>4. CASE \E j \in JobIds : Work(t, j)
    BY <1>1, <2>4 DEF Work
  <2>5. CASE GetExecutor(t) \/ BuildExecutor(t) \/ FailToBuild(t) \/ Collect(t) \/ TripBreaker(t)
             \/ RunInline(t)
    BY <2>5 DEF GetExecutor, BuildExecutor, FailToBuild, Collect, TripBreaker, RunInline
  <2>6. QED
    BY <1>6, <2>1, <2>2, <2>3, <2>4, <2>5 DEF Serve
<1>7. ASSUME NEW t \in Threads, Deadline(t) PROVE future' \in Futures
  BY <1>1, <1>4, <1>7 DEF Deadline
<1>8. ASSUME NEW e \in 1..MaxExecutors, WorkerDies(e) PROVE future' \in Futures
  BY <1>3, <1>8 DEF WorkerDies
<1>9. CASE CoolDown \/ UNCHANGED poolVars \/ \E t \in Threads : BatchArrives(t)
  BY <1>9 DEF CoolDown, poolVars, BatchArrives
<1>10. QED
  BY <1>6, <1>7, <1>8, <1>9 DEF PoolNext

\* Threads, executors and futures keep their domains.
THEOREM PoolTypeCorrect == PoolSpec => []PoolTyped
<1>1. PoolInit => FuturesTyped
  BY DEF PoolInit, Futures, FuturesTyped
<1>2. PoolInv /\ FuturesTyped => PoolTyped
  BY DEF PoolInv, PoolShaped, Batches, Futures, FuturesTyped, PoolTyped
<1>3. QED
  BY <1>1, <1>2, FuturesStep, PoolSafe, PTL DEF PoolSpec

\* At most one pool has workers beyond the ones a thread is about to kill: no
\* executor is dropped with its workers alive.
THEOREM NoWorkersLeaked == PoolSpec => []NoPoolIsLeaked
<1>1. PoolInv => NoPoolIsLeaked
  BY DEF PoolInv
<1>2. QED
  BY <1>1, PoolSafe, PTL

-----------------------------------------------------------------------------
Boxed == [x : Int, y : Int, w : Nat \ {0}, h : Nat \ {0}]

PackerShaped ==
    /\ config \in Configs
    /\ todo \subseteq Pieces
    /\ DOMAIN placed \subseteq Pieces \ todo
    /\ \A p \in DOMAIN placed : placed[p] \in Rectangle
    /\ Free \subseteq Boxed
    /\ strip \in Rectangle /\ room \in Rectangle

\* The room left to the strips runs across the usable sheet.
RoomAcross ==
    /\ Within(room, Usable)
    /\ IF Along THEN room.y = Usable.y /\ room.h = Usable.h
                ELSE room.x = Usable.x /\ room.w = Usable.w

ApartFromAll(r) ==
    /\ \A p \in DOMAIN placed : Apart(placed[p], r, Kerf)
    /\ \A f \in Free : Apart(f, r, Kerf)

\* The strip in hand starts the room, and what is not in it is apart from the room.
StripInHand ==
    /\ Depth(room) >= MinRect
    /\ Depth(strip) \in 1..Depth(room) /\ strip = StripOf(Depth(strip))
    /\ \A p \in DOMAIN placed : Within(placed[p], strip) \/ Apart(placed[p], room, Kerf)
    /\ \A f \in finished : Apart(f, room, Kerf)

\* What is free in the strip is in it, and apart from what the other strips left.
StripsAgree ==
    /\ \A r \in remainders : Within(r, strip)
    /\ strip = NoStrip => remainders = {}
    /\ config.fill = "greedy" /\ ~sheetDone => strip = Usable /\ finished = {} /\ room = NoStrip
    /\ sheetDone => strip = NoStrip
    /\ config.fill # "greedy" /\ ~sheetDone =>
          /\ RoomAcross
          /\ strip = NoStrip /\ Depth(room) >= MinRect => ApartFromAll(room)
          /\ strip # NoStrip => StripInHand

\* The inductive invariant of a sheet being packed.
PackerInv == PackerShaped /\ PackedApart /\ StripsAgree

-----------------------------------------------------------------------------
\* What lies in a rectangle is as far from the others as the rectangle is.
LEMMA InsideIsApart ==
    ASSUME NEW a \in Rectangle, NEW b \in Rectangle, NEW c \in Rectangle,
           Within(a, b), Apart(b, c, Kerf)
    PROVE  Apart(a, c, Kerf) /\ Apart(c, a, Kerf)
  BY SheetAssumption DEF Within, Apart, Rectangle

\* Being apart is mutual.
LEMMA ApartBothWays ==
    ASSUME NEW a, NEW b, Apart(a, b, Kerf) PROVE Apart(b, a, Kerf)
  BY DEF Apart

\* What lies within a rectangle lies within what holds that one.
LEMMA WithinWithin ==
    ASSUME NEW a \in Rectangle, NEW b \in Rectangle, NEW c \in Rectangle, Within(a, b), Within(b, c)
    PROVE  Within(a, c)
  BY DEF Within, Rectangle

\* Nothing with an area is apart from itself.
LEMMA NotApartFromItself ==
    ASSUME NEW a \in Boxed PROVE ~Apart(a, a, Kerf)
  BY SheetAssumption DEF Apart, Boxed

\* A box is a rectangle.
LEMMA BoxedFact == ASSUME NEW a \in Boxed PROVE a \in Rectangle
  BY DEF Boxed, Rectangle

-----------------------------------------------------------------------------
Placing(o) == Rect(o.rect.x, o.rect.y, o.w, o.h)

\* An option puts the piece, one way round or the other, in a corner of a free rectangle.
LEMMA OptionFact ==
    ASSUME NEW p \in Pieces, NEW rects \in SUBSET Boxed, NEW o \in Options(p, rects)
    PROVE  /\ o.rect \in rects /\ o.w \in Nat \ {0} /\ o.h \in Nat \ {0}
           /\ o.w <= o.rect.w /\ o.h <= o.rect.h
           /\ {o.w, o.h} = {Width[p], Height[p]}
           /\ Placing(o) \in Rectangle /\ Within(Placing(o), o.rect)
<1>1. Width[p] \in Nat \ {0} /\ Height[p] \in Nat \ {0}
  BY PackerAssumption
<1>2. PICK r \in rects, t \in BOOLEAN : o = Option(p, r, t) /\ o.w <= o.rect.w /\ o.h <= o.rect.h
  <2> DEFINE ways == IF p \in Turns THEN BOOLEAN ELSE {FALSE}
             all == {Option(p, r, t) : r \in rects, t \in ways}
  <2>1. Options(p, rects) = {z \in all : z.w <= z.rect.w /\ z.h <= z.rect.h}
    BY DEF Options
  <2>2. ways \subseteq BOOLEAN
    OBVIOUS
  <2> HIDE DEF ways
  <2>3. all \subseteq {Option(p, r, t) : r \in rects, t \in BOOLEAN}
    BY <2>2
  <2> HIDE DEF all
  <2>4. o \in all /\ o.w <= o.rect.w /\ o.h <= o.rect.h
    BY <2>1
  <2>5. o \in {Option(p, r, t) : r \in rects, t \in BOOLEAN}
    BY <2>3, <2>4
  <2>6. QED
    BY <2>4, <2>5
<1>3. o.rect = r /\ o.w = (IF t THEN Height[p] ELSE Width[p]) /\ o.h = (IF t THEN Width[p] ELSE Height[p])
  BY <1>2 DEF Option
<1>4. r \in Boxed
  OBVIOUS
<1>5. Placing(o) = [x |-> r.x, y |-> r.y, w |-> o.w, h |-> o.h]
  BY <1>3 DEF Placing, Rect
<1>6. o.w \in Nat \ {0} /\ o.h \in Nat \ {0} /\ {o.w, o.h} = {Width[p], Height[p]}
  BY <1>1, <1>3
<1>7. Placing(o) \in Rectangle
  BY <1>4, <1>5, <1>6 DEF Rectangle, Boxed
<1>8. Within(Placing(o), r)
  BY <1>2, <1>3, <1>4, <1>5, <1>6 DEF Within, Boxed
<1>9. QED
  BY <1>2, <1>3, <1>6, <1>7, <1>8

\* What is left of the rectangle, for either cut made first, is in it, a blade away
\* from the piece and from the other half.
LEMMA SplitFact ==
    ASSUME NEW o, o.rect \in Boxed, o.w \in Nat \ {0}, o.h \in Nat \ {0},
           o.w <= o.rect.w, o.h <= o.rect.h
    PROVE  \A r \in Split(o) : /\ r \in Boxed /\ Within(r, o.rect)
                               /\ Apart(Placing(o), r, Kerf)
                               /\ \A s \in Split(o) \ {r} : Apart(r, s, Kerf)
<1> DEFINE b == o.rect
<1>1. /\ b.x \in Int /\ b.y \in Int /\ b.w \in Nat /\ b.h \in Nat /\ Kerf \in Nat
      /\ MinRect \in Nat \ {0} /\ o.w \in Nat \ {0} /\ o.h \in Nat \ {0} /\ o.w <= b.w /\ o.h <= b.h
  BY SheetAssumption DEF Boxed
<1>2. ASSUME NEW w \in Nat, NEW h \in Nat, w <= b.w, h <= b.h, o.w <= w, o.h <= h,
             w = o.w \/ h = o.h,
             NEW r \in Kept({RightOf(o, h), AboveOf(o, w)})
      PROVE  /\ r \in Boxed /\ Within(r, b) /\ Apart(Placing(o), r, Kerf)
             /\ \A s \in Kept({RightOf(o, h), AboveOf(o, w)}) \ {r} : Apart(r, s, Kerf)
  <2> DEFINE right == RightOf(o, h)
             above == AboveOf(o, w)
  <2>1. right = [x |-> b.x + o.w + Kerf, y |-> b.y, w |-> b.w - o.w - Kerf, h |-> h]
    BY DEF RightOf, Rect
  <2>2. above = [x |-> b.x, y |-> b.y + o.h + Kerf, w |-> w, h |-> b.h - o.h - Kerf]
    BY DEF AboveOf, Rect
  <2>3. Placing(o) = [x |-> b.x, y |-> b.y, w |-> o.w, h |-> o.h]
    BY DEF Placing, Rect
  <2> HIDE DEF b
  <2>4. right \in Rectangle /\ above \in Rectangle
    BY <1>1, <1>2, <2>1, <2>2 DEF Rectangle
  <2>5. Within(right, b) /\ Within(above, b)
    BY <1>1, <1>2, <2>1, <2>2 DEF Within
  <2>6. Apart(Placing(o), right, Kerf) /\ Apart(Placing(o), above, Kerf)
    BY <1>1, <1>2, <2>1, <2>2, <2>3 DEF Apart
  <2>7. Apart(right, above, Kerf) /\ Apart(above, right, Kerf)
    BY <1>1, <1>2, <2>1, <2>2 DEF Apart
  <2> HIDE DEF right, above
  <2>8. r \in {right, above} /\ r.w >= MinRect /\ r.h >= MinRect
    BY <1>2 DEF Kept, right, above
  <2>9. r \in Boxed
    <3>1. r = [x |-> r.x, y |-> r.y, w |-> r.w, h |-> r.h] /\ r.x \in Int /\ r.y \in Int
          /\ r.w \in Int /\ r.h \in Int
      BY <2>4, <2>8 DEF Rectangle
    <3>2. r.w \in Nat \ {0} /\ r.h \in Nat \ {0}
      BY <1>1, <2>8, <3>1
    <3>3. QED
      BY <3>1, <3>2 DEF Boxed
  <2>10. \A s \in Kept({RightOf(o, h), AboveOf(o, w)}) \ {r} : Apart(r, s, Kerf)
    BY <2>7, <2>8 DEF Kept, right, above
  <2>11. QED
    BY <2>5, <2>6, <2>8, <2>9, <2>10
<1>3. CASE VerticalFirst(o)
  <2>1. Split(o) = Kept({RightOf(o, o.h), AboveOf(o, b.w)})
    BY <1>3 DEF Split, Vertical
  <2>2. QED
    BY <1>1, <1>2, <2>1
<1>4. CASE ~VerticalFirst(o)
  <2>1. Split(o) = Kept({RightOf(o, b.h), AboveOf(o, o.w)})
    <3>1. {RightOf(o, b.h), AboveOf(o, o.w)} = {AboveOf(o, o.w), RightOf(o, b.h)}
      OBVIOUS
    <3>2. QED
      BY <1>4, <3>1 DEF Split, Horizontal
  <2>2. QED
    BY <1>1, <1>2, <2>1
<1>5. QED
  BY <1>3, <1>4

\* The strip in hand is in the room.
LEMMA StripWithinRoom ==
    ASSUME PackerShaped, StripInHand
    PROVE  Within(strip, room)
<1>1. /\ room.x \in Int /\ room.y \in Int /\ room.w \in Int /\ room.h \in Int
      /\ room = [x |-> room.x, y |-> room.y, w |-> room.w, h |-> room.h]
  BY DEF PackerShaped, Rectangle
<1>2. CASE Along
  BY <1>1, <1>2 DEF StripInHand, Depth, StripOf, Rect, Within
<1>3. CASE ~Along
  BY <1>1, <1>3 DEF StripInHand, Depth, StripOf, Rect, Within
<1>4. QED
  BY <1>2, <1>3

-----------------------------------------------------------------------------
\* A piece goes in a corner of a free rectangle of the strip in hand.
LEMMA PlacePieceKeeps ==
    ASSUME PackerInv, NEW p \in Pieces, PlacePiece(p)
    PROVE  PackerInv'
<1> USE DEF PackerInv
<1>1. PICK o \in Best(p) :
          /\ placed' = [q \in DOMAIN placed \union {p} |->
                 IF q = p THEN Rect(o.rect.x, o.rect.y, o.w, o.h) ELSE placed[q]]
          /\ remainders' = (remainders \ {o.rect}) \union Split(o)
  BY DEF PlacePiece
<1>2. /\ p \in todo /\ ~sheetDone /\ todo' = todo \ {p}
      /\ UNCHANGED <<config, finished, strip, room, sheetDone>>
  BY DEF PlacePiece
<1>3. o \in Options(p, remainders) /\ remainders \in SUBSET Boxed
  BY DEF Best, PackerShaped, Free
<1>4. /\ o.rect \in remainders /\ o.w \in Nat \ {0} /\ o.h \in Nat \ {0}
      /\ o.w <= o.rect.w /\ o.h <= o.rect.h /\ {o.w, o.h} = {Width[p], Height[p]}
      /\ Placing(o) \in Rectangle /\ Within(Placing(o), o.rect)
  BY <1>3, OptionFact
<1> DEFINE box == Placing(o)
           b == o.rect
           halves == Split(o)
<1>5. b \in Boxed /\ b \in Rectangle /\ b \in Free
  BY <1>3, <1>4, BoxedFact DEF Free
<1>6. \A r \in halves : /\ r \in Boxed /\ r \in Rectangle /\ Within(r, b)
                        /\ Apart(box, r, Kerf) /\ \A s \in halves \ {r} : Apart(r, s, Kerf)
  BY <1>4, <1>5, SplitFact, BoxedFact
<1>7. box.w = o.w /\ box.h = o.h
  BY DEF Placing, Rect
<1>8. p \notin DOMAIN placed /\ DOMAIN placed' = DOMAIN placed \union {p} /\ placed'[p] = box
      /\ \A q \in DOMAIN placed : placed'[q] = placed[q] /\ placed[q] \in Rectangle
  BY <1>1, <1>2 DEF PackerShaped, Placing
<1>9. b \notin finished
  <2>1. CASE b \in finished
    <3>1. CASE config.fill = "greedy"
      BY <1>2, <2>1, <3>1 DEF StripsAgree
    <3>2. CASE config.fill # "greedy"
      <4>1. strip # NoStrip
        BY <1>4 DEF StripsAgree
      <4>2. StripInHand /\ Within(b, strip)
        BY <1>2, <1>4, <3>2, <4>1 DEF StripsAgree
      <4>3. Apart(b, room, Kerf) /\ Within(strip, room)
        BY <2>1, <4>2, StripWithinRoom DEF StripInHand
      <4>4. Within(b, room)
        BY <1>5, <4>2, <4>3, WithinWithin DEF PackerShaped
      <4>5. Apart(b, b, Kerf)
        BY <1>5, <4>3, <4>4, InsideIsApart, ApartBothWays DEF PackerShaped
      <4>6. QED
        BY <1>5, <4>5, NotApartFromItself
    <3>3. QED
      BY <3>1, <3>2
  <2>2. QED
    BY <2>1
<1>10. Free' = (Free \ {b}) \union halves
  BY <1>1, <1>2, <1>9 DEF Free
<1> HIDE DEF box, b, halves
<1>11. \A r \in Free \ {b} : r \in Rectangle /\ Apart(b, r, Kerf) /\ Apart(r, b, Kerf)
  BY <1>5, BoxedFact DEF PackedApart, PackerShaped
<1>12. \A q \in DOMAIN placed : Apart(placed[q], b, Kerf) /\ Apart(b, placed[q], Kerf)
  BY <1>5, ApartBothWays DEF PackedApart
<1>13. \A r \in Free \ {b} : Apart(box, r, Kerf) /\ \A s \in halves : Apart(s, r, Kerf) /\ Apart(r, s, Kerf)
  BY <1>4, <1>5, <1>6, <1>11, InsideIsApart DEF box, b
<1>14. \A q \in DOMAIN placed :
          /\ Apart(box, placed[q], Kerf) /\ Apart(placed[q], box, Kerf)
          /\ \A s \in halves : Apart(placed[q], s, Kerf)
  BY <1>4, <1>5, <1>6, <1>8, <1>12, InsideIsApart DEF box, b
<1>15. Usable \in Rectangle /\ Within(b, Usable)
  BY <1>5, PackerAssumption DEF PackedApart
<1>16. Within(box, Usable) /\ \A s \in halves : Within(s, Usable)
  BY <1>4, <1>5, <1>6, <1>15, WithinWithin DEF box, b
<1>17. PackerShaped'
  <2>1. DOMAIN placed' \subseteq Pieces \ todo'
    BY <1>2, <1>8 DEF PackerShaped
  <2>2. \A q \in DOMAIN placed' : placed'[q] \in Rectangle
    BY <1>4, <1>8 DEF box
  <2>3. Free' \subseteq Boxed
    BY <1>6, <1>10 DEF PackerShaped
  <2>4. QED
    BY <1>2, <2>1, <2>2, <2>3 DEF PackerShaped
<1>18. PackedApart'
  <2>1. ASSUME NEW q \in DOMAIN placed'
        PROVE  /\ Within(placed'[q], Usable)
               /\ {placed'[q].w, placed'[q].h} = {Width[q], Height[q]}
               /\ \A z \in DOMAIN placed' \ {q} : Apart(placed'[q], placed'[z], Kerf)
               /\ \A r \in Free' : Apart(placed'[q], r, Kerf)
    <3>1. CASE q = p
      BY <1>4, <1>6, <1>7, <1>8, <1>10, <1>13, <1>14, <1>16, <3>1
    <3>2. CASE q # p
      <4>1. q \in DOMAIN placed /\ placed'[q] = placed[q]
        BY <1>8, <3>2
      <4>2. Within(placed[q], Usable) /\ {placed[q].w, placed[q].h} = {Width[q], Height[q]}
        BY <4>1 DEF PackedApart
      <4>3. \A z \in DOMAIN placed \ {q} : Apart(placed[q], placed[z], Kerf)
        BY <4>1 DEF PackedApart
      <4>4. \A r \in Free : Apart(placed[q], r, Kerf)
        BY <4>1 DEF PackedApart
      <4>5. QED
        BY <1>8, <1>10, <1>14, <4>1, <4>2, <4>3, <4>4
    <3>3. QED
      BY <3>1, <3>2
  <2>2. ASSUME NEW r \in Free' PROVE Within(r, Usable) /\ \A s \in Free' \ {r} : Apart(r, s, Kerf)
    <3>1. CASE r \in halves
      BY <1>6, <1>10, <1>13, <1>16, <3>1
    <3>2. CASE r \in Free \ {b}
      BY <1>10, <1>13, <3>2 DEF PackedApart
    <3>3. QED
      BY <1>10, <3>1, <3>2
  <2>3. QED
    BY <2>1, <2>2 DEF PackedApart
<1>19. StripsAgree'
  <2>1. Within(b, strip) /\ strip # NoStrip /\ strip \in Rectangle
    BY <1>4 DEF StripsAgree, PackerShaped, b
  <2>2. \A r \in remainders' : Within(r, strip')
    BY <1>1, <1>2, <1>5, <1>6, <2>1, WithinWithin DEF StripsAgree, halves
  <2>3. Within(box, strip)
    BY <1>4, <1>5, <2>1, WithinWithin DEF box, b
  <2>4. StripInHand => StripInHand'
    BY <1>2, <1>8, <2>3 DEF StripInHand, Depth, Along, StripOf
  <2>5. RoomAcross => RoomAcross'
    BY <1>2 DEF RoomAcross, Along
  <2>6. QED
    BY <1>2, <2>1, <2>2, <2>4, <2>5 DEF StripsAgree
<1>20. QED
  BY <1>17, <1>18, <1>19

\* A strip is opened in the room, where nothing is yet.
LEMMA OpenStripKeeps ==
    ASSUME PackerInv, NEW size \in Sizes, OpenStrip(size)
    PROVE  PackerInv'
<1> USE DEF PackerInv
<1> DEFINE new == StripOf(size)
<1>1. /\ config.fill # "greedy" /\ ~sheetDone /\ strip = NoStrip /\ Depth(room) >= MinRect
      /\ strip' = new /\ remainders' = {new}
      /\ UNCHANGED <<config, todo, placed, turned, finished, room, cuts, sheetDone>>
  BY DEF OpenStrip
<1>2. /\ room \in Rectangle /\ RoomAcross /\ ApartFromAll(room) /\ remainders = {}
      /\ Usable \in Rectangle /\ Usable.w > 0 /\ Usable.h > 0 /\ MinRect \in Nat \ {0}
  BY <1>1, PackerAssumption, SheetAssumption DEF StripsAgree, PackerShaped
<1>3. Depth(room) \in Int /\ size \in 1..Depth(room)
  <2>1. Depth(room) \in Int
    BY <1>2 DEF Depth, Rectangle
  <2>2. size = Depth(room) \/ size \in 1..Depth(room)
    BY DEF Sizes
  <2>3. QED
    BY <1>1, <1>2, <2>1, <2>2
<1>4. new \in Boxed /\ new \in Rectangle /\ Within(new, room) /\ Depth(new) = size /\ new # NoStrip
  <2>1. CASE Along
    <3>1. new = [x |-> room.x, y |-> room.y, w |-> size, h |-> room.h]
      BY <2>1 DEF StripOf, Rect
    <3>2. Depth(room) = room.w /\ room.h = Usable.h
      BY <1>2, <2>1 DEF Depth, RoomAcross
    <3>3. new \in Boxed /\ new \in Rectangle /\ Within(new, room)
      BY <1>2, <1>3, <3>1, <3>2 DEF Rectangle, Boxed, Within
    <3>4. Depth(new) = size
      BY <2>1, <3>1 DEF Depth
    <3>5. new # NoStrip
      BY <1>3, <3>1 DEF NoStrip, Rect
    <3>6. QED
      BY <3>3, <3>4, <3>5
  <2>2. CASE ~Along
    <3>1. new = [x |-> room.x, y |-> room.y, w |-> room.w, h |-> size]
      BY <2>2 DEF StripOf, Rect
    <3>2. Depth(room) = room.h /\ room.w = Usable.w
      BY <1>2, <2>2 DEF Depth, RoomAcross
    <3>3. new \in Boxed /\ new \in Rectangle /\ Within(new, room)
      BY <1>2, <1>3, <3>1, <3>2 DEF Rectangle, Boxed, Within
    <3>4. Depth(new) = size
      BY <2>2, <3>1 DEF Depth
    <3>5. new # NoStrip
      BY <1>3, <3>1 DEF NoStrip, Rect
    <3>6. QED
      BY <3>3, <3>4, <3>5
  <2>3. QED
    BY <2>1, <2>2
<1>5. Free = finished /\ Free' = Free \union {new}
  BY <1>1, <1>2 DEF Free
<1>6. new = StripOf(Depth(new))
  BY <1>4
<1> HIDE DEF new
<1>7. \A p \in DOMAIN placed : placed[p] \in Rectangle /\ Apart(placed[p], new, Kerf)
  BY <1>2, <1>4, InsideIsApart, ApartBothWays DEF ApartFromAll, PackerShaped
<1>8. \A f \in Free : f \in Rectangle /\ Apart(f, new, Kerf) /\ Apart(new, f, Kerf)
  BY <1>2, <1>4, BoxedFact, InsideIsApart, ApartBothWays DEF ApartFromAll, PackerShaped
<1>9. Within(new, Usable)
  BY <1>2, <1>4, WithinWithin DEF RoomAcross
<1>10. PackerShaped'
  BY <1>1, <1>4, <1>5 DEF PackerShaped
<1>11. PackedApart'
  BY <1>1, <1>5, <1>7, <1>8, <1>9 DEF PackedApart
<1>12. StripInHand'
  BY <1>1, <1>2, <1>3, <1>4, <1>5, <1>6
     DEF StripInHand, ApartFromAll, Depth, Along, StripOf
<1>13. RoomAcross'
  BY <1>1, <1>2 DEF RoomAcross, Along
<1>14. \A r \in remainders' : Within(r, strip')
  <2>1. Within(new, new)
    BY <1>4 DEF Within, Rectangle
  <2>2. QED
    BY <1>1, <2>1
<1>15. StripsAgree'
  BY <1>1, <1>4, <1>12, <1>13, <1>14 DEF StripsAgree
<1>16. QED
  BY <1>10, <1>11, <1>15

\* The strip done, the room starts a blade further.
LEMMA CloseStripKeeps ==
    ASSUME PackerInv, CloseStrip
    PROVE  PackerInv'
<1> USE DEF PackerInv
<1> DEFINE size == Depth(strip)
           left == RoomAfter(size)
<1>1. /\ config.fill # "greedy" /\ strip # NoStrip
      /\ finished' = finished \union remainders /\ remainders' = {}
      /\ room' = left /\ strip' = NoStrip
      /\ UNCHANGED <<config, todo, placed, turned, sheetDone>>
  BY DEF CloseStrip
<1>2. ~sheetDone /\ RoomAcross /\ StripInHand /\ room \in Rectangle /\ strip \in Rectangle
  BY <1>1 DEF StripsAgree, PackerShaped
<1>3. /\ size \in Nat \ {0} /\ size <= Depth(room) /\ Depth(room) \in Int /\ strip = StripOf(size)
      /\ Kerf \in Nat /\ MinRect \in Nat \ {0} /\ Usable \in Rectangle
  BY <1>2, SheetAssumption, PackerAssumption DEF StripInHand, Depth, Rectangle
<1> HIDE DEF size
<1>4. left \in Rectangle /\ Within(left, room) /\ Within(left, Usable)
      /\ (IF Along THEN left.y = Usable.y /\ left.h = Usable.h
                   ELSE left.x = Usable.x /\ left.w = Usable.w)
  <2> DEFINE step == size + IF size < Depth(room) THEN Kerf ELSE 0
  <2>1. step \in Nat
    BY <1>3
  <2>2. left = IF Along THEN [x |-> room.x + step, y |-> room.y, w |-> room.w - step, h |-> room.h]
                        ELSE [x |-> room.x, y |-> room.y + step, w |-> room.w, h |-> room.h - step]
    BY DEF RoomAfter, Rect
  <2> HIDE DEF step, left
  <2>3. left \in Rectangle /\ Within(left, room)
    BY <1>2, <2>1, <2>2 DEF Rectangle, Within
  <2>4. IF Along THEN left.y = Usable.y /\ left.h = Usable.h
                 ELSE left.x = Usable.x /\ left.w = Usable.w
    BY <1>2, <2>2 DEF RoomAcross
  <2>5. Within(left, Usable)
    BY <1>2, <1>3, <2>3, WithinWithin DEF RoomAcross
  <2>6. QED
    BY <2>3, <2>4, <2>5
<1>5. Depth(left) >= MinRect => Apart(strip, left, Kerf)
  <2> SUFFICES ASSUME Depth(left) >= MinRect PROVE Apart(strip, left, Kerf)
    OBVIOUS
  <2>1. CASE Along
    <3>1. size < Depth(room)
      BY <1>2, <1>3, <2>1 DEF Depth, RoomAfter, Rect, Rectangle
    <3>2. left.x = room.x + (size + Kerf) /\ strip.x = room.x /\ strip.w = size
      BY <1>3, <2>1, <3>1 DEF RoomAfter, StripOf, Rect
    <3>3. strip.x + strip.w + Kerf <= left.x
      BY <1>2, <1>3, <3>2 DEF Rectangle
    <3>4. QED
      BY <3>3 DEF Apart
  <2>2. CASE ~Along
    <3>1. size < Depth(room)
      BY <1>2, <1>3, <2>2 DEF Depth, RoomAfter, Rect, Rectangle
    <3>2. left.y = room.y + (size + Kerf) /\ strip.y = room.y /\ strip.h = size
      BY <1>3, <2>2, <3>1 DEF RoomAfter, StripOf, Rect
    <3>3. strip.y + strip.h + Kerf <= left.y
      BY <1>2, <1>3, <3>2 DEF Rectangle
    <3>4. QED
      BY <3>3 DEF Apart
  <2>3. QED
    BY <2>1, <2>2
<1> HIDE DEF left
<1>6. Free' = Free
  BY <1>1 DEF Free
<1>7. ASSUME Depth(left) >= MinRect,
             NEW r \in Rectangle, Within(r, strip) \/ Apart(r, room, Kerf)
      PROVE  Apart(r, left, Kerf)
  BY <1>2, <1>4, <1>5, <1>7, InsideIsApart, ApartBothWays
<1>8. \A p \in DOMAIN placed : placed[p] \in Rectangle /\ (Within(placed[p], strip) \/ Apart(placed[p], room, Kerf))
  BY <1>2 DEF StripInHand, PackerShaped
<1>9. \A f \in Free : f \in Rectangle /\ (Within(f, strip) \/ Apart(f, room, Kerf))
  BY <1>2, BoxedFact DEF StripInHand, PackerShaped, StripsAgree, Free
<1>10. PackerShaped'
  <2>1. NoStrip \in Rectangle
    BY DEF NoStrip, Rect, Rectangle
  <2>2. QED
    BY <1>1, <1>4, <1>6, <2>1 DEF PackerShaped
<1>11. PackedApart'
  BY <1>1, <1>6 DEF PackedApart
<1>12. Depth(left) >= MinRect => ApartFromAll(left)
  BY <1>7, <1>8, <1>9 DEF ApartFromAll
<1>13. StripsAgree'
  <2>1. RoomAcross'
    BY <1>1, <1>4 DEF RoomAcross, Along
  <2>2. Depth(room)' >= MinRect => ApartFromAll(room)'
    BY <1>1, <1>6, <1>12 DEF ApartFromAll, Depth, Along
  <2>3. QED
    BY <1>1, <1>2, <2>1, <2>2 DEF StripsAgree
<1>14. QED
  BY <1>10, <1>11, <1>13

\* The tail of the sheet is one leftover more, as far from the others as the room was.
LEMMA CloseSheetKeeps ==
    ASSUME PackerInv, CloseSheet
    PROVE  PackerInv'
<1> USE DEF PackerInv
<1>1. /\ ~sheetDone /\ sheetDone' = TRUE
      /\ strip = NoStrip \/ config.fill = "greedy"
      /\ finished' = finished \union remainders \union Kept({room}) /\ remainders' = {}
      /\ strip' = NoStrip /\ room' = NoStrip
      /\ UNCHANGED <<config, todo, placed, turned, cuts>>
  BY DEF CloseSheet
<1>2. Free' = Free \union Kept({room})
  BY <1>1 DEF Free
<1>3. MinRect \in Nat \ {0} /\ room \in Rectangle
  BY SheetAssumption DEF PackerShaped
<1>4. room \in Kept({room}) => /\ room \in Boxed /\ Within(room, Usable) /\ ApartFromAll(room)
  <2> SUFFICES ASSUME room \in Kept({room})
               PROVE  room \in Boxed /\ Within(room, Usable) /\ ApartFromAll(room)
    OBVIOUS
  <2>1. room.w >= MinRect /\ room.h >= MinRect
    BY DEF Kept
  <2>2. room # NoStrip
    BY <1>3, <2>1 DEF NoStrip, Rect
  <2>3. config.fill # "greedy" /\ strip = NoStrip
    BY <1>1, <2>2 DEF StripsAgree
  <2>4. Depth(room) >= MinRect
    BY <2>1 DEF Depth
  <2>5. RoomAcross /\ ApartFromAll(room)
    BY <1>1, <2>3, <2>4 DEF StripsAgree
  <2>6. room \in Boxed
    BY <1>3, <2>1 DEF Rectangle, Boxed
  <2>7. QED
    BY <2>5, <2>6 DEF RoomAcross
<1>5. Kept({room}) \subseteq {room}
  BY DEF Kept
<1>6. ASSUME NEW r \in Kept({room})
      PROVE  /\ r \in Boxed /\ Within(r, Usable) /\ \A p \in DOMAIN placed : Apart(placed[p], r, Kerf)
             /\ \A f \in Free : Apart(f, r, Kerf) /\ Apart(r, f, Kerf)
  BY <1>4, <1>5, ApartBothWays DEF ApartFromAll
<1>7. PackerShaped'
  <2>1. NoStrip \in Rectangle
    BY DEF NoStrip, Rect, Rectangle
  <2>2. Free' \subseteq Boxed
    BY <1>2, <1>6 DEF PackerShaped
  <2>3. QED
    BY <1>1, <2>1, <2>2 DEF PackerShaped
<1>8. PackedApart'
  <2>1. \A r, s \in Kept({room}) : r = s
    BY <1>5
  <2>2. \A r \in Free' : Within(r, Usable) /\ \A s \in Free' \ {r} : Apart(r, s, Kerf)
    BY <1>2, <1>6, <2>1 DEF PackedApart
  <2>3. \A p \in DOMAIN placed : \A r \in Free' : Apart(placed[p], r, Kerf)
    BY <1>2, <1>6 DEF PackedApart
  <2>4. QED
    BY <1>1, <2>2, <2>3 DEF PackedApart
<1>9. StripsAgree'
  BY <1>1 DEF StripsAgree
<1>10. QED
  BY <1>7, <1>8, <1>9

\* The inductive invariant holds of every sheet the portfolio packs.
THEOREM PackerSafe == PackerSpec => []PackerInv
<1>1. PackerInit => PackerInv
  <2> SUFFICES ASSUME PackerInit PROVE PackerInv
    OBVIOUS
  <2>1. Usable \in Rectangle /\ Usable.w > 0 /\ Usable.h > 0 /\ NoStrip \in Rectangle /\ Usable \in Boxed
    BY PackerAssumption DEF NoStrip, Rect, Rectangle, Boxed
  <2>2. /\ config \in Configs /\ todo = Pieces /\ DOMAIN placed = {} /\ finished = {} /\ sheetDone = FALSE
        /\ IF config.fill = "greedy"
           THEN remainders = {Usable} /\ strip = Usable /\ room = NoStrip
           ELSE remainders = {} /\ strip = NoStrip /\ room = Usable
    BY DEF PackerInit
  <2>3. Free = remainders /\ (Free = {} \/ Free = {Usable})
    BY <2>2 DEF Free
  <2>4. Within(Usable, Usable)
    BY <2>1 DEF Within, Rectangle
  <2>5. PackerShaped
    BY <2>1, <2>2, <2>3 DEF PackerShaped
  <2>6. PackedApart
    BY <2>2, <2>3, <2>4 DEF PackedApart
  <2>7. Usable # NoStrip
    BY <2>1 DEF NoStrip, Rect
  <2>8. StripsAgree
    BY <2>2, <2>3, <2>4, <2>7 DEF StripsAgree, RoomAcross, ApartFromAll
  <2>9. QED
    BY <2>5, <2>6, <2>8 DEF PackerInv
<1>2. PackerInv /\ [PackerNext]_packerVars => PackerInv'
  <2> SUFFICES ASSUME PackerInv, [PackerNext]_packerVars PROVE PackerInv'
    OBVIOUS
  <2>1. CASE UNCHANGED packerVars
    BY <2>1 DEF packerVars, PackerInv, PackerShaped, PackedApart, StripsAgree, Free, RoomAcross,
                ApartFromAll, StripInHand, Depth, Along, StripOf
  <2>2. QED
    BY <2>1, PlacePieceKeeps, OpenStripKeeps, CloseStripKeeps, CloseSheetKeeps DEF PackerNext
<1>3. QED
  BY <1>1, <1>2, PTL DEF PackerSpec

\* The pieces, their places and the rectangles left keep their domains.
THEOREM PackerTypeCorrect == PackerSpec => []PackerTyped
<1> DEFINE Turned == turned \subseteq Turns \ todo /\ sheetDone \in BOOLEAN
<1>1. PackerInit => Turned
  BY DEF PackerInit
<1>2. Turned /\ [PackerNext]_packerVars => Turned'
  <2> SUFFICES ASSUME Turned, [PackerNext]_packerVars PROVE Turned'
    OBVIOUS
  <2>1. ASSUME NEW p \in Pieces, PlacePiece(p) PROVE Turned'
    <3>1. PICK o \in Best(p) : turned' = IF o.turned THEN turned \union {p} ELSE turned
      BY <2>1 DEF PlacePiece
    <3> DEFINE ways == IF p \in Turns THEN BOOLEAN ELSE {FALSE}
               all == {Option(p, r, t) : r \in remainders, t \in ways}
    <3>2. ~(p \in Turns) => ways = {FALSE}
      OBVIOUS
    <3> HIDE DEF ways
    <3>3. PICK r \in remainders, t \in ways : o = Option(p, r, t)
      <4>1. Options(p, remainders) = {z \in all : z.w <= z.rect.w /\ z.h <= z.rect.h}
        BY DEF Options, ways
      <4> HIDE DEF all
      <4>2. o \in all
        BY <3>1, <4>1 DEF Best
      <4>3. QED
        BY <4>2 DEF all
    <3>4. o.turned => p \in Turns
      BY <3>2, <3>3 DEF Option
    <3>5. todo' = todo \ {p} /\ sheetDone' = sheetDone
      BY <2>1 DEF PlacePiece
    <3>6. QED
      BY <3>1, <3>4, <3>5
  <2>2. CASE \E size \in Sizes : OpenStrip(size)
    BY <2>2 DEF OpenStrip
  <2>3. CASE CloseStrip \/ CloseSheet \/ UNCHANGED packerVars
    BY <2>3 DEF CloseStrip, CloseSheet, packerVars
  <2>4. QED
    BY <2>1, <2>2, <2>3 DEF PackerNext
<1>3. PackerInv /\ Turned => PackerTyped
  <2> SUFFICES ASSUME PackerInv, Turned PROVE PackerTyped
    OBVIOUS
  <2>1. Free \subseteq Rectangle
    BY BoxedFact DEF PackerInv, PackerShaped
  <2>2. QED
    BY <2>1 DEF PackerInv, PackerShaped, PackerTyped
<1> HIDE DEF Turned
<1>4. QED
  BY <1>1, <1>2, <1>3, PackerSafe, PTL DEF PackerSpec

\* However the pieces are ordered, the strips sized and the ties broken, what is placed
\* and what is left lie on the usable sheet, a blade's width apart, every piece of its size.
THEOREM EverySheetIsPhysical == PackerSpec => []PackedApart
<1>1. PackerInv => PackedApart
  BY DEF PackerInv
<1>2. QED
  BY <1>1, PackerSafe, PTL

-----------------------------------------------------------------------------
(* PlanSearch: sheets and what they cost *)

Offers == [long : Nat \ {0}, cost : Nat, half : BOOLEAN, count : Nat, key : Nat]
LaidOn(P, i) == {f \in P : f.on = i}

\* What the shop offers.
LEMMA ShopFact ==
    ASSUME shop \in Shops
    PROVE  /\ shop # <<>> /\ 1 \in DOMAIN shop /\ IsFiniteSet(DOMAIN shop)
           /\ \A i \in DOMAIN shop :
                 /\ shop[i] \in Offers
                 /\ shop[i].long \in Nat \ {0} /\ shop[i].cost \in Nat /\ shop[i].half \in BOOLEAN
                 /\ shop[i].cost % shop[i].long = 0
                 /\ shop[i].half => shop[i].count = Endless
           /\ \A i, j \in DOMAIN shop :
                 shop[i].half /\ shop[j].half /\ shop[j].key = shop[i].key => j = i
<1>1. shop \in Seq(Offers) /\ shop # <<>>
  BY PlanAssumption DEF Offers
<1>2. Len(shop) \in Nat /\ DOMAIN shop = 1..Len(shop) /\ Len(shop) # 0
  BY <1>1
<1>3. IsFiniteSet(DOMAIN shop) /\ 1 \in DOMAIN shop
  BY <1>2, FS_Interval
<1>4. ASSUME NEW i \in DOMAIN shop
      PROVE  /\ shop[i] \in Offers
             /\ shop[i].long \in Nat \ {0} /\ shop[i].cost \in Nat /\ shop[i].half \in BOOLEAN
  <2>1. shop[i] \in Offers
    BY <1>1
  <2>2. QED
    BY <2>1 DEF Offers
<1>5. ASSUME NEW i \in DOMAIN shop
      PROVE  /\ shop[i].cost % shop[i].long = 0
             /\ shop[i].half => shop[i].count = Endless
             /\ \A j \in DOMAIN shop : shop[i].half /\ shop[j].half /\ shop[j].key = shop[i].key => j = i
  BY PlanAssumption
<1>6. QED
  BY <1>1, <1>3, <1>4, <1>5

\* Lengths are numbers, and parts have one.
LEMMA LengthFact ==
    ASSUME NEW S \in SUBSET Parts
    PROVE  /\ IsFiniteSet(S) /\ LengthOf(S) \in Nat /\ LengthOf({}) = 0
           /\ \A p \in S : Span[p] \in Nat \ {0}
           /\ S # {} => LengthOf(S) > 0
<1>1. IsFiniteSet(S) /\ \A p \in S : Span[p] \in Nat \ {0}
  BY PlanAssumption, FS_Subset
<1>2. LengthOf(S) \in Nat
  BY <1>1, TotalIsNatural DEF LengthOf
<1>3. LengthOf({}) = 0
  BY TotalOfNothing DEF LengthOf
<1>4. ASSUME NEW p \in S PROVE LengthOf(S) > 0
  <2>1. LengthOf(S) = Span[p] + LengthOf(S \ {p})
    BY <1>1, TotalSplits DEF LengthOf
  <2>2. IsFiniteSet(S \ {p}) /\ \A q \in S \ {p} : Span[q] \in Nat
    BY <1>1, FS_Subset
  <2>3. LengthOf(S \ {p}) \in Nat
    BY <2>2, TotalIsNatural DEF LengthOf
  <2>4. QED
    BY <1>1, <2>1, <2>3
<1>5. QED
  BY <1>1, <1>2, <1>3, <1>4

\* What fits is no longer than the sheet.
LEMMA FitsFact ==
    ASSUME NEW S \in SUBSET Parts, S # {}, NEW long \in Nat, NEW blade \in Nat, Fits(S, long, blade)
    PROVE  LengthOf(S) <= long
<1>1. LengthOf(S) \in Nat /\ IsFiniteSet(S)
  BY LengthFact
<1>2. Cardinality(S) \in Nat /\ Cardinality(S) # 0
  BY <1>1, FS_CardinalityType, FS_EmptySet
<1> DEFINE more == Cardinality(S) - 1
<1>3. more \in Nat
  BY <1>2
<1>4. LengthOf(S) + blade * more <= long
  BY DEF Fits
<1> HIDE DEF more
<1>5. blade * more \in Nat
  BY <1>3
<1>6. QED
  BY <1>1, <1>4, <1>5

\* There are finitely many sheets to think of, so every plan is a finite set.
LEMMA FillsFinite ==
    ASSUME shop \in Shops
    PROVE  IsFiniteSet(Fills) /\ \A P \in SUBSET Fills : IsFiniteSet(P)
<1> DEFINE pairs == (DOMAIN shop) \X (SUBSET Parts)
           made == [x \in pairs |-> Fill(x[1], x[2])]
<1>1. IsFiniteSet(DOMAIN shop) /\ IsFiniteSet(SUBSET Parts)
  BY ShopFact, PlanAssumption, FS_SUBSET
<1>2. IsFiniteSet(pairs)
  BY <1>1, FS_Product
<1>3. Fills \subseteq {made[x] : x \in pairs}
  <2> SUFFICES ASSUME NEW f \in Fills PROVE f \in {made[x] : x \in pairs}
    OBVIOUS
  <2>1. f.on \in DOMAIN shop /\ f.parts \in SUBSET Parts /\ f = Fill(f.on, f.parts)
    BY DEF Fills, Fill
  <2>2. <<f.on, f.parts>> \in pairs /\ made[<<f.on, f.parts>>] = f
    BY <2>1
  <2>3. QED
    BY <2>2
<1> HIDE DEF pairs, made
<1>4. IsFiniteSet({made[x] : x \in pairs})
  BY <1>2, ImageIsFinite
<1>5. IsFiniteSet(Fills)
  BY <1>3, <1>4, FS_Subset
<1>6. QED
  BY <1>5, FS_Subset

\* A plan's fills and their parts.
LEMMA PlanFact ==
    ASSUME shop \in Shops, NEW P \in SUBSET Fills
    PROVE  /\ IsFiniteSet(P) /\ Cardinality(P) \in Nat /\ Bill(P) \in Nat
           /\ PartsOf(P) \in SUBSET Parts
           /\ \A f \in P : f.on \in DOMAIN shop /\ f.parts \in SUBSET Parts /\ f = Fill(f.on, f.parts)
           /\ \A i : IsFiniteSet(LaidOn(P, i)) /\ On(P, i) = Cardinality(LaidOn(P, i)) /\ On(P, i) \in Nat
<1>1. IsFiniteSet(P) /\ Cardinality(P) \in Nat
  BY FillsFinite, FS_CardinalityType
<1>2. \A f \in P : f.on \in DOMAIN shop /\ f.parts \in SUBSET Parts /\ f = Fill(f.on, f.parts)
  BY DEF Fills, Fill
<1>3. Bill(P) \in Nat
  <2> DEFINE price == [f \in P |-> shop[f.on].cost]
  <2>1. \A f \in P : price[f] \in Nat
    BY <1>2, ShopFact
  <2>2. Bill(P) = Total(price, P)
    BY DEF Bill
  <2> HIDE DEF price
  <2>3. QED
    BY <1>1, <2>1, <2>2, TotalIsNatural
<1>4. PartsOf(P) \in SUBSET Parts
  BY <1>2 DEF PartsOf
<1>5. ASSUME NEW i
      PROVE  IsFiniteSet(LaidOn(P, i)) /\ On(P, i) = Cardinality(LaidOn(P, i)) /\ On(P, i) \in Nat
  <2>1. LaidOn(P, i) \in SUBSET P /\ On(P, i) = Cardinality(LaidOn(P, i))
    BY DEF LaidOn, On
  <2>2. QED
    BY <1>1, <2>1, FS_Subset, FS_CardinalityType
<1>6. QED
  BY <1>1, <1>2, <1>3, <1>4, <1>5

\* Part of a sound plan is sound.
LEMMA SoundPart ==
    ASSUME shop \in Shops, NEW P \in SUBSET Fills, NEW Q \in SUBSET P, Sound(P)
    PROVE  Sound(Q) /\ Q \in SUBSET Fills
<1>1. Q \in SUBSET Fills
  OBVIOUS
<1>2. ASSUME NEW i \in DOMAIN shop, shop[i].count # Endless PROVE On(Q, i) <= shop[i].count
  <2>1. LaidOn(Q, i) \in SUBSET LaidOn(P, i)
    BY DEF LaidOn
  <2>2. IsFiniteSet(LaidOn(P, i)) /\ On(P, i) = Cardinality(LaidOn(P, i)) /\ On(P, i) \in Nat
    BY PlanFact
  <2>3. On(Q, i) = Cardinality(LaidOn(Q, i)) /\ On(Q, i) \in Nat
    BY <1>1, PlanFact
  <2>4. On(Q, i) <= On(P, i)
    BY <2>1, <2>2, <2>3, FS_Subset
  <2>5. shop[i] \in Offers
    BY ShopFact
  <2>6. On(P, i) <= shop[i].count /\ shop[i].count \in Nat
    BY <1>2, <2>5 DEF Sound, Offers
  <2>7. QED
    BY <2>2, <2>3, <2>4, <2>6
<1>3. QED
  BY <1>1, <1>2 DEF Sound

\* A sheet more, of parts not cut yet, in stock.
LEMMA OneMoreSheet ==
    ASSUME shop \in Shops, NEW P \in SUBSET Fills, Sound(P),
           NEW i \in DOMAIN shop, InStockFor(P, i),
           NEW S \in SUBSET Parts, S # {}, S \intersect PartsOf(P) = {}, Fits(S, shop[i].long, Blade)
    PROVE  /\ P \union {Fill(i, S)} \in SUBSET Fills /\ Sound(P \union {Fill(i, S)})
           /\ PartsOf(P \union {Fill(i, S)}) = PartsOf(P) \union S
           /\ Fill(i, S) \notin P
<1> DEFINE f == Fill(i, S)
           more == P \union {f}
<1>1. f \in Fills /\ f.on = i /\ f.parts = S
  BY DEF Fill, Fills
<1>2. f \notin P
  BY <1>1 DEF PartsOf
<1>3. PartsOf(more) = PartsOf(P) \union S
  BY <1>1 DEF PartsOf
<1>4. \A g, h \in more : g # h => g.parts \intersect h.parts = {}
  <2>1. \A g \in P : g.parts \intersect S = {}
    BY DEF PartsOf
  <2>2. \A g, h \in P : g # h => g.parts \intersect h.parts = {}
    BY DEF Sound
  <2>3. QED
    BY <1>1, <2>1, <2>2
<1>5. \A g \in more : g.parts # {} /\ Fits(g.parts, shop[g.on].long, Blade)
  BY <1>1 DEF Sound
<1>6. ASSUME NEW j \in DOMAIN shop, shop[j].count # Endless PROVE On(more, j) <= shop[j].count
  <2>1. On(P, j) <= shop[j].count /\ shop[j].count \in Nat
    BY <1>6, ShopFact DEF Sound, Offers
  <2>2. On(P, j) \in Nat /\ IsFiniteSet(LaidOn(P, j)) /\ On(P, j) = Cardinality(LaidOn(P, j))
    BY PlanFact
  <2>3. On(more, j) = Cardinality(LaidOn(more, j))
    BY DEF On, LaidOn
  <2>4. CASE j = i
    <3>1. LaidOn(more, j) = LaidOn(P, j) \union {f} /\ f \notin LaidOn(P, j)
      BY <1>1, <1>2, <2>4 DEF LaidOn
    <3>2. Cardinality(LaidOn(P, j) \union {f}) = Cardinality(LaidOn(P, j)) + 1
      <4> HIDE DEF f
      <4>1. QED
        BY <2>2, <3>1, FS_AddElement
    <3> HIDE DEF more
    <3>3. On(more, j) = On(P, j) + 1
      BY <2>2, <2>3, <3>1, <3>2
    <3>4. On(P, j) < shop[j].count
      BY <1>6, <2>4 DEF InStockFor
    <3>5. QED
      BY <2>1, <2>2, <3>3, <3>4
  <2>5. CASE j # i
    <3>1. LaidOn(more, j) = LaidOn(P, j)
      BY <1>1, <2>5 DEF LaidOn
    <3>2. QED
      BY <2>1, <2>2, <2>3, <3>1
  <2>6. QED
    BY <2>4, <2>5
<1>7. Sound(more)
  BY <1>4, <1>5, <1>6 DEF Sound
<1>8. QED
  BY <1>1, <1>2, <1>3, <1>7

\* What a sheet costs, and what is cut from it.
Price == [f \in Fills |-> shop[f.on].cost]
Load == [f \in Fills |-> LengthOf(f.parts)]

\* A filled sheet has a bin, pieces, a price and a load.
LEMMA SheetFact ==
    ASSUME shop \in Shops, NEW f \in Fills
    PROVE  /\ Price[f] = shop[f.on].cost /\ Price[f] \in Nat
           /\ Load[f] = LengthOf(f.parts) /\ Load[f] \in Nat
           /\ f.on \in DOMAIN shop /\ f.parts \in SUBSET Parts /\ f = Fill(f.on, f.parts)
<1>1. f.on \in DOMAIN shop /\ f.parts \in SUBSET Parts /\ f = Fill(f.on, f.parts)
  BY DEF Fills, Fill
<1>2. Price[f] = shop[f.on].cost /\ Load[f] = LengthOf(f.parts)
  BY DEF Price, Load
<1>3. QED
  BY <1>1, <1>2, ShopFact, LengthFact

\* The bill of a plan, sheet by sheet.
LEMMA BillIsTotal ==
    ASSUME shop \in Shops, NEW P \in SUBSET Fills
    PROVE  Bill(P) = Total(Price, P)
<1> DEFINE here == [f \in P |-> shop[f.on].cost]
<1>1. \A f \in P : here[f] = Price[f] /\ Price[f] \in Int
  BY SheetFact
<1>2. Bill(P) = Total(here, P)
  BY DEF Bill
<1> HIDE DEF here
<1>3. IsFiniteSet(P)
  BY PlanFact
<1>4. /\ \A f \in P : here[f] \in Int /\ Price[f] \in Int /\ here[f] <= Price[f]
      /\ \A f \in P : Price[f] \in Int /\ here[f] \in Int /\ Price[f] <= here[f]
  BY <1>1
<1>5. Total(here, P) <= Total(Price, P) /\ Total(here, P) \in Int
  BY <1>3, <1>4, TotalIsMonotone, TotalSplits
<1>6. Total(Price, P) <= Total(here, P) /\ Total(Price, P) \in Int
  BY <1>3, <1>4, TotalIsMonotone, TotalSplits
<1>7. QED
  BY <1>2, <1>5, <1>6

\* Bills and numbers of sheets add up.
LEMMA BillsAddUp ==
    ASSUME shop \in Shops, NEW P \in SUBSET Fills, NEW Q \in SUBSET Fills, P \intersect Q = {}
    PROVE  /\ Bill(P \union Q) = Bill(P) + Bill(Q)
           /\ Cardinality(P \union Q) = Cardinality(P) + Cardinality(Q)
<1>1. IsFiniteSet(P) /\ IsFiniteSet(Q)
  BY PlanFact
<1>2. \A f \in P \union Q : Price[f] \in Int
  BY SheetFact
<1>3. Total(Price, P \union Q) = Total(Price, P) + Total(Price, Q)
  BY <1>1, <1>2, TotalOfUnion
<1>4. Bill(P \union Q) = Bill(P) + Bill(Q)
  BY <1>3, BillIsTotal
<1>5. Cardinality(P \union Q) = Cardinality(P) + Cardinality(Q) - Cardinality(P \intersect Q)
  BY <1>1, FS_Union
<1>6. Cardinality(P) \in Nat /\ Cardinality(Q) \in Nat /\ Cardinality(P \intersect Q) = 0
  BY <1>1, FS_CardinalityType, FS_EmptySet
<1>7. Cardinality(P \union Q) = Cardinality(P) + Cardinality(Q)
  BY <1>5, <1>6
<1>8. QED
  BY <1>4, <1>7

\* No part on two sheets, and none empty.
Parted(P) ==
    /\ \A f, g \in P : f # g => f.parts \intersect g.parts = {}
    /\ \A f \in P : f.parts # {}

\* What is cut from a plan's sheets is as long as what they are loaded with.
LEMMA PlanMeasure ==
    ASSUME shop \in Shops, NEW P \in SUBSET Fills, Parted(P)
    PROVE  LengthOf(PartsOf(P)) = Total(Load, P)
<1> DEFINE S == PartsOf(P)
           key == [p \in S |-> CHOOSE f \in P : p \in f.parts]
<1>1. \A p \in S : key[p] \in P /\ p \in key[p].parts
  BY DEF PartsOf
<1>2. \A f \in P : \A p \in S : key[p] = f <=> p \in f.parts
  BY <1>1 DEF Parted
<1>3. \A f \in P : Part(S, key, f) = f.parts
  <2> SUFFICES ASSUME NEW f \in P PROVE Part(S, key, f) = f.parts
    OBVIOUS
  <2>1. f.parts \subseteq S
    BY DEF PartsOf
  <2> HIDE DEF S, key
  <2>2. QED
    BY <1>2, <2>1 DEF Part
<1>4. S \in SUBSET Parts /\ IsFiniteSet(P)
  BY PlanFact
<1> HIDE DEF S, key
<1>5. IsFiniteSet(S) /\ \A p \in S : Span[p] \in Int /\ key[p] \in P
  BY <1>1, <1>4, LengthFact
<1>6. \A f \in P : Load[f] = Total(Span, Part(S, key, f))
  BY <1>3, SheetFact DEF LengthOf
<1>7. Total(Load, P) = Total(Span, S)
  BY <1>4, <1>5, <1>6, TotalOfParts
<1>8. QED
  BY <1>7 DEF S, LengthOf

\* A number of units holds what a quotient rounded up says.
LEMMA CeilDivFact ==
    ASSUME NEW a \in Nat, NEW b \in Nat \ {0}
    PROVE  /\ CeilDiv(a, b) \in Nat /\ CeilDiv(a, b) * b >= a
           /\ \A m \in Nat : a <= m * b => CeilDiv(a, b) <= m
           /\ a = 0 => CeilDiv(a, b) = 0
<1>1. CeilDiv(a, b) \in Nat /\ CeilDiv(a, b) * b >= a
  BY DEF CeilDiv
<1>2. ASSUME NEW m \in Nat, a <= m * b PROVE CeilDiv(a, b) <= m
  <2> DEFINE q == CeilDiv(a, b)
  <2>1. q \in Int /\ b * q <= a + b - 1
    BY DEF CeilDiv
  <2>2. SUFFICES ASSUME q >= m + 1 PROVE FALSE
    BY <2>1
  <2> HIDE DEF q
  <2>3. b * q >= b * (m + 1)
    BY <2>1, <2>2
  <2>4. b * (m + 1) = m * b + b
    OBVIOUS
  <2>5. b * q \in Int /\ m * b \in Int
    BY <2>1
  <2>6. QED
    BY <1>2, <2>1, <2>3, <2>4, <2>5
<1>3. a = 0 => CeilDiv(a, b) <= 0
  BY <1>2
<1>4. QED
  BY <1>1, <1>2, <1>3

\* Every sheet of a plan holds what is on it.
Holding(P) == \A f \in P : LengthOf(f.parts) <= shop[f.on].long

\* No plan takes fewer sheets than the longest bin would.
LEMMA BinsBoundHolds ==
    ASSUME shop \in Shops, NEW P \in SUBSET Fills, Parted(P), Holding(P)
    PROVE  /\ BinsBound(LengthOf(PartsOf(P))) <= Cardinality(P)
           /\ BinsBound(LengthOf(PartsOf(P))) \in Nat
<1> DEFINE longs == [i \in DOMAIN shop |-> shop[i].long]
           M == Max({shop[i].long : i \in DOMAIN shop})
           most == [f \in P |-> M]
           area == LengthOf(PartsOf(P))
           n == Cardinality(P)
<1>1. IsFiniteSet({longs[i] : i \in DOMAIN shop})
  BY ShopFact, ImageIsFinite
<1>2. {longs[i] : i \in DOMAIN shop} = {shop[i].long : i \in DOMAIN shop}
  OBVIOUS
<1>3. {shop[i].long : i \in DOMAIN shop} \in SUBSET Int /\ {shop[i].long : i \in DOMAIN shop} # {}
  BY ShopFact
<1>4. M \in {shop[i].long : i \in DOMAIN shop} /\ \A i \in DOMAIN shop : shop[i].long <= M
  BY <1>1, <1>2, <1>3, GreatestIsThere
<1>5. M \in Nat \ {0}
  BY <1>4, ShopFact
<1>6. \A f \in P : most[f] = M
  OBVIOUS
<1> HIDE DEF M, most, longs
<1>7. \A f \in P : Load[f] \in Int /\ most[f] \in Int /\ Load[f] <= most[f]
  <2> SUFFICES ASSUME NEW f \in P PROVE Load[f] \in Int /\ most[f] \in Int /\ Load[f] <= most[f]
    OBVIOUS
  <2>1. Load[f] \in Nat /\ Load[f] = LengthOf(f.parts) /\ f.on \in DOMAIN shop
    BY SheetFact
  <2>2. Load[f] <= shop[f.on].long /\ shop[f.on].long \in Nat
    BY <2>1, ShopFact DEF Holding
  <2>3. QED
    BY <1>4, <1>5, <1>6, <2>1, <2>2
<1>8. IsFiniteSet(P) /\ n \in Nat
  BY PlanFact
<1>9. Total(Load, P) <= Total(most, P)
  BY <1>7, <1>8, TotalIsMonotone
<1>10. Total(most, P) = M * n
  BY <1>5, <1>6, <1>8, TotalOfConstant
<1>11. area = Total(Load, P) /\ area \in Nat
  BY PlanMeasure, PlanFact, LengthFact
<1> HIDE DEF area, n
<1>12. area <= n * M
  BY <1>5, <1>8, <1>9, <1>10, <1>11
<1>13. CeilDiv(area, M) <= n /\ CeilDiv(area, M) \in Nat
  BY <1>5, <1>8, <1>11, <1>12, CeilDivFact
<1>14. QED
  BY <1>13 DEF BinsBound, M, area, n

\* No plan is cheaper than its length at the best price there is.
LEMMA UnitPriceHolds ==
    ASSUME shop \in Shops, NEW P \in SUBSET Fills, Parted(P), Holding(P)
    PROVE  /\ LengthOf(PartsOf(P)) * Min({shop[i].cost \div shop[i].long : i \in DOMAIN shop}) <= Bill(P)
           /\ LengthOf(PartsOf(P)) * Min({shop[i].cost \div shop[i].long : i \in DOMAIN shop}) \in Int
<1> DEFINE rates == [i \in DOMAIN shop |-> shop[i].cost \div shop[i].long]
           u == Min({shop[i].cost \div shop[i].long : i \in DOMAIN shop})
           least == [f \in P |-> u * Load[f]]
<1>1. IsFiniteSet({rates[i] : i \in DOMAIN shop})
  BY ShopFact, ImageIsFinite
<1>2. {rates[i] : i \in DOMAIN shop} = {shop[i].cost \div shop[i].long : i \in DOMAIN shop}
  OBVIOUS
<1>3. ASSUME NEW i \in DOMAIN shop
      PROVE  /\ rates[i] \in Nat /\ rates[i] = shop[i].cost \div shop[i].long
             /\ shop[i].long * rates[i] = shop[i].cost
  <2>1. shop[i].long \in Nat \ {0} /\ shop[i].cost \in Nat /\ shop[i].cost % shop[i].long = 0
    BY ShopFact
  <2>2. rates[i] = shop[i].cost \div shop[i].long
    OBVIOUS
  <2> HIDE DEF rates
  <2>3. QED
    BY <2>1, <2>2
<1>4. {shop[i].cost \div shop[i].long : i \in DOMAIN shop} \in SUBSET Int
  BY <1>3
<1>5. {shop[i].cost \div shop[i].long : i \in DOMAIN shop} # {}
  BY ShopFact
<1>6. /\ u \in {shop[i].cost \div shop[i].long : i \in DOMAIN shop}
      /\ \A y \in {shop[i].cost \div shop[i].long : i \in DOMAIN shop} : u <= y
  BY <1>1, <1>2, <1>4, <1>5, LeastIsThere
<1>7. u \in Nat /\ \A i \in DOMAIN shop : u <= rates[i]
  BY <1>3, <1>6
<1>8. \A f \in P : least[f] = u * Load[f]
  OBVIOUS
<1> HIDE DEF rates, u, least
<1>9. \A f \in P : /\ least[f] \in Int /\ Price[f] \in Int /\ Load[f] \in Int
                    /\ least[f] = u * Load[f] /\ least[f] <= Price[f]
  <2> SUFFICES ASSUME NEW f \in P
               PROVE  /\ least[f] \in Int /\ Price[f] \in Int /\ Load[f] \in Int
                      /\ least[f] = u * Load[f] /\ least[f] <= Price[f]
    OBVIOUS
  <2>1. /\ Price[f] = shop[f.on].cost /\ Price[f] \in Nat
        /\ Load[f] = LengthOf(f.parts) /\ Load[f] \in Nat /\ f.on \in DOMAIN shop
    BY SheetFact
  <2>2. Load[f] <= shop[f.on].long /\ shop[f.on].long \in Nat
    BY <2>1, ShopFact DEF Holding
  <2>3. u <= rates[f.on] /\ rates[f.on] \in Nat /\ shop[f.on].long * rates[f.on] = Price[f]
    BY <1>3, <1>7, <2>1
  <2>4. least[f] = u * Load[f]
    BY <1>8
  <2>5. u * Load[f] <= shop[f.on].long * rates[f.on]
    BY <1>7, <2>1, <2>2, <2>3
  <2>6. u * Load[f] \in Nat
    BY <1>7, <2>1
  <2>7. QED
    BY <2>1, <2>3, <2>4, <2>5, <2>6
<1>10. IsFiniteSet(P)
  BY PlanFact
<1>11. Total(least, P) <= Total(Price, P)
  BY <1>9, <1>10, TotalIsMonotone
<1>12. Total(least, P) = u * Total(Load, P)
  BY <1>7, <1>9, <1>10, TotalScaled
<1>13. Total(Load, P) \in Int
  BY <1>9, <1>10, TotalSplits
<1>14. LengthOf(PartsOf(P)) = Total(Load, P) /\ Bill(P) = Total(Price, P)
  BY PlanMeasure, BillIsTotal
<1>15. LengthOf(PartsOf(P)) * u <= Bill(P) /\ LengthOf(PartsOf(P)) * u \in Int
  BY <1>7, <1>11, <1>12, <1>13, <1>14
<1>16. QED
  BY <1>15 DEF u

\* The sheets of one bin cost as many times its price, and hold no more than that many.
LEMMA OneBinFact ==
    ASSUME shop \in Shops, NEW P \in SUBSET Fills, Holding(P), NEW i \in DOMAIN shop,
           \A f \in P : f.on = i
    PROVE  /\ Total(Price, P) = shop[i].cost * Cardinality(P)
           /\ Total(Load, P) <= shop[i].long * Cardinality(P)
           /\ Total(Load, P) \in Nat
<1> DEFINE most == [f \in P |-> shop[i].long]
<1>1. IsFiniteSet(P)
  BY PlanFact
<1>2. shop[i].long \in Nat /\ shop[i].cost \in Nat
  BY ShopFact
<1>3. ASSUME NEW f \in P
      PROVE  /\ Price[f] = shop[i].cost /\ most[f] = shop[i].long
             /\ Load[f] \in Nat /\ Load[f] <= most[f]
  BY SheetFact DEF Holding
<1> HIDE DEF most
<1>4. Total(Price, P) = shop[i].cost * Cardinality(P)
  BY <1>1, <1>2, <1>3, TotalOfConstant
<1>5. Total(most, P) = shop[i].long * Cardinality(P)
  BY <1>1, <1>2, <1>3, TotalOfConstant
<1>6. \A f \in P : Load[f] \in Int /\ most[f] \in Int /\ Load[f] <= most[f]
  BY <1>2, <1>3
<1>7. Total(Load, P) <= Total(most, P)
  BY <1>1, <1>6, TotalIsMonotone
<1>8. Total(Load, P) \in Nat
  BY <1>1, <1>3, TotalIsNatural
<1>9. QED
  BY <1>4, <1>5, <1>7, <1>8

\* What an area costs with k full boards and halves for the rest.
MixedAt(area, k, full, half) ==
    LET rest == area - k * full.long IN
    k * full.cost + (IF rest > 0 THEN CeilDiv(rest, half.long) * half.cost ELSE 0)

\* Enough full boards and halves cost no less than the mix with as many full boards, or
\* with as many as the area fills.
LEMMA MixHolds ==
    ASSUME NEW full \in Offers, NEW half \in Offers, NEW area \in Nat, NEW n \in Nat, NEW m \in Nat,
           area <= n * full.long + m * half.long
    PROVE  \E k \in 0..CeilDiv(area, full.long) :
              /\ MixedAt(area, k, full, half) <= n * full.cost + m * half.cost
              /\ m = 0 => k * full.long >= area
<1> DEFINE most == CeilDiv(area, full.long)
           F == full.long
           H == half.long
           cf == full.cost
           ch == half.cost
<1>1. F \in Nat \ {0} /\ H \in Nat \ {0} /\ cf \in Nat /\ ch \in Nat
  BY DEF Offers
<1>2. most \in Nat /\ most * F >= area
  BY <1>1, CeilDivFact
<1> DEFINE rest == area - n * F
<1>3. rest \in Int /\ rest <= m * H
  BY <1>1
<1>4. CASE n <= most
  <2>1. n \in 0..most
    BY <1>2, <1>4
  <2>2. MixedAt(area, n, full, half) = n * cf + (IF rest > 0 THEN CeilDiv(rest, H) * ch ELSE 0)
    BY DEF MixedAt
  <2> HIDE DEF most, F, H, cf, ch, rest
  <2>3. rest > 0 => CeilDiv(rest, H) \in Nat /\ CeilDiv(rest, H) <= m
    BY <1>1, <1>3, CeilDivFact
  <2>4. rest > 0 => CeilDiv(rest, H) * ch <= m * ch /\ CeilDiv(rest, H) * ch \in Nat
    BY <1>1, <2>3
  <2>5. n * cf \in Nat /\ m * ch \in Nat
    BY <1>1
  <2>6. MixedAt(area, n, full, half) <= n * cf + m * ch
    BY <2>2, <2>4, <2>5
  <2>7. m = 0 => n * F >= area
    BY <1>1, <1>3 DEF rest
  <2>8. QED
    BY <2>1, <2>6, <2>7 DEF most, F, cf, ch
<1>5. CASE n > most
  <2>1. most \in 0..most
    BY <1>2
  <2> DEFINE over == area - most * F
  <2>2. MixedAt(area, most, full, half) = most * cf + (IF over > 0 THEN CeilDiv(over, H) * ch ELSE 0)
    BY DEF MixedAt
  <2> HIDE DEF most, F, H, cf, ch, rest
  <2>3. over <= 0 /\ over \in Int
    BY <1>1, <1>2
  <2> HIDE DEF over
  <2>4. MixedAt(area, most, full, half) = most * cf /\ most * cf \in Nat
    BY <1>1, <1>2, <2>2, <2>3
  <2>5. most * cf <= n * cf /\ n * cf \in Nat /\ m * ch \in Nat
    BY <1>1, <1>2, <1>5
  <2>6. MixedAt(area, most, full, half) <= n * cf + m * ch
    BY <2>4, <2>5
  <2>7. QED
    BY <1>2, <2>1, <2>6 DEF most, F, cf, ch
<1>6. QED
  BY <1>2, <1>4, <1>5

\* Where there are one full board and a half of it, at most, no plan is cheaper than the
\* cheapest mix of the two.
LEMMA FullAndHalfHolds ==
    ASSUME shop \in Shops, NEW P \in SUBSET Fills, Parted(P), Holding(P),
           Cardinality(Fulls) = 1, Cardinality(Halves) <= 1
    PROVE  /\ FullAndHalf(LengthOf(PartsOf(P))) <= Bill(P)
           /\ FullAndHalf(LengthOf(PartsOf(P))) \in Int
<1> DEFINE area == LengthOf(PartsOf(P))
           f == CHOOSE i \in Fulls : TRUE
           h == CHOOSE i \in Halves : TRUE
           Mixed(k) == LET rest == area - k * shop[f].long IN
               k * shop[f].cost
               + (IF rest > 0 THEN CeilDiv(rest, shop[h].long) * shop[h].cost ELSE 0)
           ks == {k \in 0..CeilDiv(area, shop[f].long) : k * shop[f].long >= area \/ Halves # {}}
           mixes == {Mixed(k) : k \in ks}
           priced == [k \in ks |-> Mixed(k)]
           OnF == {x \in P : x.on = f}
           OnH == P \ OnF
           n == Cardinality(OnF)
           m == Cardinality(OnH)
<1>1. FullAndHalf(area) = Min(mixes)
  BY Zenon DEF FullAndHalf
<1>2. Fulls = {f} /\ (Halves = {} \/ Halves = {h})
  <2>1. IsFiniteSet(Fulls) /\ IsFiniteSet(Halves)
    BY ShopFact, FS_Subset DEF Fulls, Halves
  <2>2. \E i : Fulls = {i}
    BY <2>1, FS_Singleton
  <2>3. Cardinality(Halves) \in Nat
    BY <2>1, FS_CardinalityType
  <2>4. Cardinality(Halves) = 0 \/ Cardinality(Halves) = 1
    BY <2>3
  <2>5. Halves = {} \/ \E i : Halves = {i}
    BY <2>1, <2>4, FS_Singleton, FS_EmptySet
  <2>6. QED
    BY <2>2, <2>5
<1>3. f \in DOMAIN shop /\ shop[f] \in Offers /\ (Halves # {} => h \in DOMAIN shop /\ shop[h] \in Offers)
  BY <1>2, ShopFact DEF Fulls, Halves
<1>4. DOMAIN shop = Fulls \union Halves /\ Fulls \intersect Halves = {}
  BY ShopFact DEF Fulls, Halves
<1>5. Halves = {} => OnH = {}
  BY <1>2, <1>4, PlanFact
<1>6. Halves # {} => \A x \in OnH : x.on = h
  BY <1>2, <1>4, PlanFact
<1>7. \A k : Halves # {} => Mixed(k) = MixedAt(area, k, shop[f], shop[h])
  BY DEF MixedAt
<1>8. \A k \in ks : Halves = {} => Mixed(k) = k * shop[f].cost
  <2> SUFFICES ASSUME NEW k \in ks, Halves = {} PROVE Mixed(k) = k * shop[f].cost
    OBVIOUS
  <2> DEFINE rest == area - k * shop[f].long
  <2>1. k \in Nat /\ k * shop[f].long >= area
    OBVIOUS
  <2>2. area \in Nat /\ shop[f].long \in Nat /\ shop[f].cost \in Nat
    BY <1>3, PlanFact, LengthFact DEF Offers
  <2>3. rest <= 0 /\ rest \in Int
    BY <2>1, <2>2
  <2>4. Mixed(k) = k * shop[f].cost + (IF rest > 0 THEN CeilDiv(rest, shop[h].long) * shop[h].cost ELSE 0)
    OBVIOUS
  <2> HIDE DEF rest, area, ks, f, h, Mixed
  <2>5. k * shop[f].cost \in Nat
    BY <2>1, <2>2
  <2>6. QED
    BY <2>3, <2>4, <2>5
<1>9. \A k \in ks : k \in 0..CeilDiv(area, shop[f].long) /\ priced[k] = Mixed(k)
  OBVIOUS
<1>10. \A k \in 0..CeilDiv(area, shop[f].long) :
          k * shop[f].long >= area \/ Halves # {} => k \in ks
  OBVIOUS
<1>11. mixes = {priced[k] : k \in ks}
  OBVIOUS
<1>12. ks \in SUBSET (0..CeilDiv(area, shop[f].long))
  OBVIOUS
<1>13. OnF \in SUBSET Fills /\ OnH \in SUBSET Fills /\ P = OnF \union OnH /\ OnF \intersect OnH = {}
       /\ \A x \in OnF : x.on = f
  OBVIOUS
<1>14. \A k \in ks : Mixed(k) \in mixes
  OBVIOUS
<1>15. \A y \in mixes : \E k \in ks : y = Mixed(k)
  OBVIOUS
<1> HIDE DEF f, h, Mixed, ks, mixes, priced, OnF, OnH
<1>16. area \in Nat /\ area = Total(Load, P)
  BY PlanFact, PlanMeasure, LengthFact
<1>17. Holding(OnF) /\ Holding(OnH)
  BY <1>13 DEF Holding
<1>18. IsFiniteSet(OnF) /\ IsFiniteSet(OnH) /\ n \in Nat /\ m \in Nat
  BY <1>13, PlanFact
<1>19. \A x \in P : Load[x] \in Int /\ Price[x] \in Int
  BY SheetFact
<1>20. Total(Load, P) = Total(Load, OnF) + Total(Load, OnH)
  BY <1>13, <1>18, <1>19, TotalOfUnion
<1>21. Total(Price, P) = Total(Price, OnF) + Total(Price, OnH)
  BY <1>13, <1>18, <1>19, TotalOfUnion
<1>22. /\ Total(Price, OnF) = shop[f].cost * n /\ Total(Load, OnF) <= shop[f].long * n
       /\ Total(Load, OnF) \in Nat
  BY <1>3, <1>13, <1>17, OneBinFact
<1>23. Halves # {} => /\ Total(Price, OnH) = shop[h].cost * m /\ Total(Load, OnH) <= shop[h].long * m
                     /\ Total(Load, OnH) \in Nat
  BY <1>3, <1>6, <1>13, <1>17, OneBinFact
<1>24. Halves = {} => Total(Price, OnH) = 0 /\ Total(Load, OnH) = 0 /\ m = 0
  BY <1>5, TotalOfNothing, FS_EmptySet
<1>25. Bill(P) = Total(Price, P)
  BY BillIsTotal
<1>26. shop[f].long \in Nat /\ shop[f].cost \in Nat
  BY <1>3 DEF Offers
<1> HIDE DEF area, n, m
<1>27. \A k \in ks : Mixed(k) \in Int
  <2> SUFFICES ASSUME NEW k \in ks PROVE Mixed(k) \in Int
    OBVIOUS
  <2>1. CeilDiv(area, shop[f].long) \in Nat /\ k \in Nat
    BY <1>3, <1>9, <1>16, CeilDivFact DEF Offers
  <2>2. CASE Halves = {}
    BY <1>8, <1>26, <2>1, <2>2
  <2>3. CASE Halves # {}
    <3> DEFINE rest == area - k * shop[f].long
               H == shop[h].long
    <3>1. H \in Nat \ {0} /\ shop[h].cost \in Nat
      BY <1>3, <2>3 DEF Offers
    <3>2. rest \in Int
      BY <1>16, <1>26, <2>1
    <3>3. MixedAt(area, k, shop[f], shop[h])
              = k * shop[f].cost + (IF rest > 0 THEN CeilDiv(rest, H) * shop[h].cost ELSE 0)
      BY DEF MixedAt
    <3> HIDE DEF rest, H
    <3>4. ASSUME rest > 0 PROVE CeilDiv(rest, H) \in Nat
      <4>1. rest \in Nat
        BY <3>2, <3>4
      <4>2. QED
        BY <3>1, <4>1, CeilDivFact
    <3>5. k * shop[f].cost \in Int /\ (rest > 0 => CeilDiv(rest, H) * shop[h].cost \in Int)
      BY <1>26, <2>1, <3>1, <3>4
    <3>6. QED
      BY <1>7, <2>3, <3>3, <3>5
  <2>4. QED
    BY <2>2, <2>3
<1>28. \E k \in ks : Mixed(k) <= Bill(P)
  <2>1. CASE Halves = {}
    <3>1. area <= n * shop[f].long + 0 * shop[f].long
      BY <1>16, <1>18, <1>20, <1>22, <1>24, <1>26, <2>1
    <3>2. PICK k \in 0..CeilDiv(area, shop[f].long) :
             /\ MixedAt(area, k, shop[f], shop[f]) <= n * shop[f].cost + 0 * shop[f].cost
             /\ k * shop[f].long >= area
      BY <1>3, <1>16, <1>18, <3>1, MixHolds
    <3>3. k \in ks /\ Mixed(k) = k * shop[f].cost
      BY <1>8, <1>10, <2>1, <3>2
    <3>4. CeilDiv(area, shop[f].long) \in Nat /\ k \in Nat
      BY <1>3, <1>16, CeilDivFact DEF Offers
    <3>5. MixedAt(area, k, shop[f], shop[f]) = k * shop[f].cost
      <4> DEFINE rest == area - k * shop[f].long
                 L == shop[f].long
      <4>1. rest <= 0 /\ rest \in Int
        BY <1>16, <1>26, <3>2, <3>4
      <4>2. MixedAt(area, k, shop[f], shop[f])
              = k * shop[f].cost + (IF rest > 0 THEN CeilDiv(rest, L) * shop[f].cost ELSE 0)
        BY DEF MixedAt
      <4> HIDE DEF rest, L
      <4>3. k * shop[f].cost \in Nat
        BY <1>26, <3>4
      <4>4. QED
        BY <4>1, <4>2, <4>3
    <3>6. Mixed(k) <= n * shop[f].cost
      BY <1>18, <1>26, <3>2, <3>3, <3>5
    <3>7. Bill(P) = n * shop[f].cost
      BY <1>18, <1>21, <1>22, <1>24, <1>25, <1>26, <2>1
    <3>8. QED
      BY <3>3, <3>6, <3>7
  <2>2. CASE Halves # {}
    <3>1. shop[h] \in Offers /\ shop[h].long \in Nat /\ shop[h].cost \in Nat
      BY <1>3, <2>2 DEF Offers
    <3>2. area <= n * shop[f].long + m * shop[h].long
      BY <1>16, <1>18, <1>20, <1>22, <1>23, <1>26, <2>2, <3>1
    <3>3. PICK k \in 0..CeilDiv(area, shop[f].long) :
             MixedAt(area, k, shop[f], shop[h]) <= n * shop[f].cost + m * shop[h].cost
      BY <1>3, <1>16, <1>18, <3>1, <3>2, MixHolds
    <3>4. k \in ks /\ Mixed(k) = MixedAt(area, k, shop[f], shop[h])
      BY <1>7, <1>10, <2>2
    <3>5. Bill(P) = n * shop[f].cost + m * shop[h].cost
      BY <1>18, <1>21, <1>22, <1>23, <1>25, <1>26, <2>2, <3>1
    <3>6. QED
      BY <3>3, <3>4, <3>5
  <2>3. QED
    BY <2>1, <2>2
<1>29. IsFiniteSet(mixes)
  <2> DEFINE top == CeilDiv(area, shop[f].long)
  <2>1. top \in Nat
    BY <1>3, <1>16, CeilDivFact DEF Offers
  <2> HIDE DEF top
  <2>2. IsFiniteSet(0..top)
    BY <2>1, FS_Interval
  <2>3. IsFiniteSet(ks)
    BY <1>12, <2>2, FS_Subset DEF top
  <2>4. QED
    BY <1>11, <2>3, ImageIsFinite
<1>30. mixes \in SUBSET Int /\ mixes # {}
  BY <1>14, <1>15, <1>27, <1>28
<1>31. Min(mixes) \in Int /\ \A y \in mixes : Min(mixes) <= y
  BY <1>29, <1>30, LeastIsThere
<1>32. Bill(P) \in Int
  BY PlanFact
<1>33. FullAndHalf(area) <= Bill(P) /\ FullAndHalf(area) \in Int
  BY <1>1, <1>14, <1>27, <1>28, <1>31, <1>32
<1>34. QED
  BY <1>33 DEF area

\* No plan is cheaper than the bound.
LEMMA CostBoundHolds ==
    ASSUME shop \in Shops, NEW P \in SUBSET Fills, Parted(P), Holding(P)
    PROVE  /\ CostBound(LengthOf(PartsOf(P))) <= Bill(P)
           /\ CostBound(LengthOf(PartsOf(P))) \in Int
<1> DEFINE area == LengthOf(PartsOf(P))
           free == area = 0 \/ \E i \in DOMAIN shop : shop[i].cost = 0
           mixed == /\ Cardinality(Fulls) = 1 /\ Cardinality(Halves) <= 1
                    /\ \A i \in Fulls : shop[i].count = Endless
<1>1. Bill(P) \in Nat
  BY PlanFact
<1>2. CostBound(area) = IF free THEN 0 ELSE IF mixed THEN FullAndHalf(area)
                       ELSE area * Min({shop[i].cost \div shop[i].long : i \in DOMAIN shop})
  BY Zenon DEF CostBound
<1>3. mixed => FullAndHalf(area) <= Bill(P) /\ FullAndHalf(area) \in Int
  BY FullAndHalfHolds
<1>4. /\ area * Min({shop[i].cost \div shop[i].long : i \in DOMAIN shop}) <= Bill(P)
      /\ area * Min({shop[i].cost \div shop[i].long : i \in DOMAIN shop}) \in Int
  BY UnitPriceHolds
<1> DEFINE byUnit == area * Min({shop[i].cost \div shop[i].long : i \in DOMAIN shop})
<1> HIDE DEF free, mixed, byUnit
<1>5. QED
  BY <1>1, <1>2, <1>3, <1>4 DEF byUnit

\* A sound plan is parted, and its sheets hold what is on them.
LEMMA SoundIsHolding ==
    ASSUME shop \in Shops, NEW P \in SUBSET Fills, Sound(P)
    PROVE  Parted(P) /\ Holding(P)
<1>1. Parted(P)
  BY DEF Sound, Parted
<1>2. ASSUME NEW f \in P PROVE LengthOf(f.parts) <= shop[f.on].long
  <2>1. f.parts # {} /\ Fits(f.parts, shop[f.on].long, Blade)
    BY DEF Sound
  <2>2. f.parts \in SUBSET Parts /\ shop[f.on].long \in Nat
    BY SheetFact, ShopFact
  <2>3. QED
    BY <2>1, <2>2, PlanAssumption, FitsFact
<1>3. QED
  BY <1>1, <1>2 DEF Holding

\* What is wanted of a shop is on the list.
LEMMA WantedFact ==
    ASSUME shop \in Shops
    PROVE  Placeable \in SUBSET Parts
BY PlanAssumption DEF Placeable, Wanted

\* A complete plan cuts all that fits, within stock.
LEMMA CompleteFact ==
    ASSUME shop \in Shops, NEW blade \in 0..Blade, NEW P \in Completes[shop][blade]
    PROVE  /\ P \in SUBSET Fills /\ Parted(P) /\ PartsOf(P) = Placeable
           /\ \A f \in P : Fits(f.parts, shop[f.on].long, blade)
           /\ \A i \in DOMAIN shop : shop[i].count # Endless => On(P, i) <= shop[i].count
<1>1. Completes[shop][blade] =
          UNION {{{Fill(g[b], b) : b \in split} : g \in BinsOf(shop, split, blade)} :
                    split \in Splits(Wanted(shop))}
  BY Zenon DEF Completes
<1> PICK split \in Splits(Placeable) :
       P \in {{Fill(g[b], b) : b \in split} : g \in BinsOf(shop, split, blade)}
  BY <1>1 DEF Placeable
<1>2. PICK g \in BinsOf(shop, split, blade) : P = {Fill(g[b], b) : b \in split}
  OBVIOUS
<1>3. /\ \A b \in split : b \in SUBSET Placeable /\ b # {}
      /\ \A b, c \in split : b # c => b \intersect c = {}
      /\ UNION split = Placeable
  <2>1. PICK label \in [Placeable -> Placeable] :
           split = {{q \in Placeable : label[q] = label[p]} : p \in Placeable}
    BY <1>2 DEF Splits
  <2>2. QED
    BY <2>1
<1>4. /\ g \in [split -> DOMAIN shop]
      /\ \A b \in split : Fits(b, shop[g[b]].long, blade)
      /\ \A i \in DOMAIN shop : shop[i].count # Endless =>
            Cardinality({b \in split : g[b] = i}) <= shop[i].count
  BY <1>2 DEF BinsOf
<1>5. \A b \in split : Fill(g[b], b).on = g[b] /\ Fill(g[b], b).parts = b
  BY DEF Fill
<1>6. Placeable \in SUBSET Parts
  BY WantedFact
<1>7. P \in SUBSET Fills
  BY <1>2, <1>3, <1>4, <1>6 DEF Fill, Fills
<1>8. \A f \in P : \E b \in split : f = Fill(g[b], b) /\ f.on = g[b] /\ f.parts = b
  BY <1>2, <1>5
<1>9. Parted(P)
  <2>1. \A f \in P : f.parts # {}
    BY <1>3, <1>8
  <2>2. ASSUME NEW f \in P, NEW h \in P, f # h PROVE f.parts \intersect h.parts = {}
    <3>1. PICK b \in split : f = Fill(g[b], b) /\ f.parts = b
      BY <1>8
    <3>2. PICK c \in split : h = Fill(g[c], c) /\ h.parts = c
      BY <1>8
    <3>3. b # c
      BY <2>2, <3>1, <3>2
    <3>4. QED
      BY <1>3, <3>1, <3>2, <3>3
  <2>3. QED
    BY <2>1, <2>2 DEF Parted
<1>10. PartsOf(P) = Placeable
  <2>1. PartsOf(P) \subseteq UNION split
    BY <1>8 DEF PartsOf
  <2>2. \A b \in split : b \subseteq PartsOf(P)
    BY <1>2, <1>5 DEF PartsOf
  <2>3. QED
    BY <1>3, <2>1, <2>2
<1>11. \A f \in P : Fits(f.parts, shop[f.on].long, blade)
  BY <1>4, <1>8
<1>12. ASSUME NEW i \in DOMAIN shop, shop[i].count # Endless PROVE On(P, i) <= shop[i].count
  <2> DEFINE blocks == {b \in split : g[b] = i}
             made == [b \in blocks |-> Fill(i, b)]
  <2>1. Cardinality(blocks) <= shop[i].count
    BY <1>4, <1>12
  <2>2. blocks \in SUBSET (SUBSET Parts)
    BY <1>3, <1>6
  <2>3. IsFiniteSet(SUBSET Parts)
    BY PlanAssumption, FS_SUBSET
  <2>4. LaidOn(P, i) = {made[b] : b \in blocks}
    <3>1. ASSUME NEW f \in LaidOn(P, i) PROVE f \in {made[b] : b \in blocks}
      <4>1. f \in P /\ f.on = i
        BY DEF LaidOn
      <4>2. PICK b \in split : f = Fill(g[b], b) /\ f.on = g[b]
        BY <1>8, <4>1
      <4>3. b \in blocks /\ f = made[b]
        BY <4>1, <4>2
      <4>4. QED
        BY <4>3
    <3>2. ASSUME NEW b \in blocks PROVE made[b] \in LaidOn(P, i)
      <4>1. made[b] = Fill(g[b], b) /\ b \in split /\ g[b] = i
        OBVIOUS
      <4>2. made[b] \in P /\ made[b].on = i
        BY <1>2, <1>5, <4>1
      <4>3. QED
        BY <4>2 DEF LaidOn
    <3>3. QED
      BY <3>1, <3>2
  <2> HIDE DEF blocks, made
  <2>5. IsFiniteSet(blocks)
    BY <2>2, <2>3, FS_Subset
  <2>6. Cardinality({made[b] : b \in blocks}) <= Cardinality(blocks)
    BY <2>5, ImageIsFinite
  <2>7. On(P, i) = Cardinality({made[b] : b \in blocks})
    BY <2>4 DEF On, LaidOn
  <2>8. Cardinality(blocks) \in Nat /\ On(P, i) \in Nat
    BY <1>7, <2>5, FS_CardinalityType, PlanFact
  <2>9. shop[i] \in Offers
    BY ShopFact
  <2>10. shop[i].count \in Nat
    BY <2>9 DEF Offers
  <2>11. QED
    BY <2>1, <2>6, <2>7, <2>8, <2>10
<1>13. QED
  BY <1>7, <1>9, <1>10, <1>11, <1>12

\* One whose every sheet is cut with the real blade is sound.
LEMMA CompleteIsSound ==
    ASSUME shop \in Shops, NEW blade \in 0..Blade, NEW P \in Completes[shop][blade],
           \A f \in P : Fits(f.parts, shop[f.on].long, Blade)
    PROVE  P \in SUBSET Fills /\ Sound(P) /\ PartsOf(P) = Placeable
BY CompleteFact DEF Sound, Parted

\* The sheets of D on their halves.
HalfHeld(f) == Fill(CHOOSE h \in HalfOf(f) : TRUE, f.parts)
Halved(P, D) == (P \ D) \union {HalfHeld(f) : f \in D}

\* Sheets moved to halves that take them leave a sound plan, of the same parts, that is
\* no dearer.
LEMMA HalvedFact ==
    ASSUME shop \in Shops, NEW P \in SUBSET Fills, Sound(P), NEW D \in SUBSET P,
           \A f \in D : \E h \in HalfOf(f) : Fits(f.parts, shop[h].long, Blade)
    PROVE  /\ Halved(P, D) \in SUBSET Fills /\ Sound(Halved(P, D))
           /\ PartsOf(Halved(P, D)) = PartsOf(P) /\ Bill(Halved(P, D)) <= Bill(P)
<1> DEFINE moved == {HalfHeld(f) : f \in D}
           kept == P \ D
<1>1. ASSUME NEW f \in D
      PROVE  /\ HalfHeld(f) \in Fills /\ HalfHeld(f).parts = f.parts
             /\ Fits(f.parts, shop[HalfHeld(f).on].long, Blade)
             /\ shop[HalfHeld(f).on].count = Endless
             /\ Price[HalfHeld(f)] \in Nat /\ Price[f] \in Nat /\ Price[HalfHeld(f)] <= Price[f]
  <2>1. PICK h \in HalfOf(f) : Fits(f.parts, shop[h].long, Blade)
    OBVIOUS
  <2>2. \A j \in HalfOf(f) : j = h
    BY <2>1, ShopFact DEF HalfOf, Halves
  <2>3. (CHOOSE j \in HalfOf(f) : TRUE) = h
    BY <2>1, <2>2
  <2>4. h \in DOMAIN shop /\ shop[h].half /\ shop[h].cost < shop[f.on].cost
    BY <2>1 DEF HalfOf, Halves
  <2>5. HalfHeld(f) = Fill(h, f.parts)
    BY <2>3 DEF HalfHeld
  <2>6. HalfHeld(f).on = h /\ HalfHeld(f).parts = f.parts
    BY <2>5 DEF Fill
  <2>7. HalfHeld(f) \in Fills
    BY <2>4, <2>5, SheetFact DEF Fill, Fills
  <2>8. shop[h].count = Endless
    BY <2>4, ShopFact
  <2>9. Price[HalfHeld(f)] = shop[h].cost /\ Price[f] = shop[f.on].cost
    BY <2>6, <2>7, SheetFact
  <2>10. Price[HalfHeld(f)] \in Nat /\ Price[f] \in Nat
    BY <2>7, SheetFact
  <2>11. QED
    BY <2>1, <2>4, <2>6, <2>7, <2>8, <2>9, <2>10
<1>2. Halved(P, D) = kept \union moved
  BY DEF Halved
<1>3. kept \in SUBSET Fills /\ moved \in SUBSET Fills /\ kept \in SUBSET P
  BY <1>1
<1>4. \A x \in moved : \E f \in D : x = HalfHeld(f) /\ x.parts = f.parts
  BY <1>1
<1>5. /\ \A f, g \in P : f # g => f.parts \intersect g.parts = {}
      /\ \A f \in P : f.parts # {}
  BY DEF Sound
<1>6. kept \intersect moved = {}
  BY <1>4, <1>5
<1>7. \A f, g \in D : HalfHeld(f) = HalfHeld(g) => f = g
  <2> SUFFICES ASSUME NEW f \in D, NEW g \in D, HalfHeld(f) = HalfHeld(g) PROVE f = g
    OBVIOUS
  <2>1. f.parts = g.parts /\ f.parts # {}
    BY <1>1, <1>5
  <2>2. QED
    BY <1>5, <2>1
<1>8. PartsOf(kept \union moved) = PartsOf(P)
  <2>1. PartsOf(kept \union moved) \subseteq PartsOf(P)
    BY <1>4 DEF PartsOf
  <2>2. ASSUME NEW p \in PartsOf(P) PROVE p \in PartsOf(kept \union moved)
    <3>1. PICK f \in P : p \in f.parts
      BY DEF PartsOf
    <3>2. CASE f \in D
      <4>1. HalfHeld(f) \in moved /\ p \in HalfHeld(f).parts
        BY <1>1, <3>1, <3>2
      <4>2. QED
        BY <4>1 DEF PartsOf
    <3>3. CASE f \notin D
      <4>1. f \in kept
        BY <3>3
      <4>2. QED
        BY <3>1, <4>1 DEF PartsOf
    <3>4. QED
      BY <3>2, <3>3
  <2>3. QED
    BY <2>1, <2>2
<1>9. Sound(kept \union moved)
  <2>1. ASSUME NEW x \in kept \union moved, NEW y \in kept \union moved, x # y
        PROVE  x.parts \intersect y.parts = {}
    <3>1. \E f \in P : x.parts = f.parts /\ (f \in D => x = HalfHeld(f)) /\ (f \notin D => x = f)
      BY <1>4
    <3>2. \E g \in P : y.parts = g.parts /\ (g \in D => y = HalfHeld(g)) /\ (g \notin D => y = g)
      BY <1>4
    <3>3. PICK f \in P : x.parts = f.parts /\ (f \in D => x = HalfHeld(f)) /\ (f \notin D => x = f)
      BY <3>1
    <3>4. PICK g \in P : y.parts = g.parts /\ (g \in D => y = HalfHeld(g)) /\ (g \notin D => y = g)
      BY <3>2
    <3>5. f # g
      BY <2>1, <3>3, <3>4
    <3>6. QED
      BY <1>5, <3>3, <3>4, <3>5
  <2>2. \A x \in kept \union moved : x.parts # {} /\ Fits(x.parts, shop[x.on].long, Blade)
    <3>1. \A x \in kept : x.parts # {} /\ Fits(x.parts, shop[x.on].long, Blade)
      BY DEF Sound
    <3>2. \A f \in D : HalfHeld(f).parts # {} /\ Fits(HalfHeld(f).parts, shop[HalfHeld(f).on].long, Blade)
      BY <1>1, <1>5
    <3>3. QED
      BY <3>1, <3>2
  <2>3. ASSUME NEW i \in DOMAIN shop, shop[i].count # Endless
        PROVE  On(kept \union moved, i) <= shop[i].count
    <3>1. \A x \in moved : x.on # i
      BY <1>1, <2>3
    <3>2. {x \in kept \union moved : x.on = i} = {x \in kept : x.on = i}
      BY <3>1
    <3>3. On(kept \union moved, i) = On(kept, i)
      BY <3>2 DEF On
    <3>4. Sound(kept)
      BY <1>3, SoundPart
    <3>5. On(kept, i) <= shop[i].count
      BY <2>3, <3>4 DEF Sound
    <3>6. QED
      BY <3>3, <3>5
  <2>4. QED
    BY <2>1, <2>2, <2>3 DEF Sound
<1> DEFINE name == [f \in D |-> HalfHeld(f)]
           now == [f \in D |-> Price[HalfHeld(f)]]
<1>10. moved = {name[f] : f \in D}
  OBVIOUS
<1>11. /\ \A f \in D : /\ now[f] \in Int /\ Price[name[f]] = now[f]
                        /\ Price[f] \in Int /\ now[f] <= Price[f]
       /\ \A f, g \in D : name[f] = name[g] => f = g
  BY <1>1, <1>7
<1>12. D \in SUBSET Fills /\ P = kept \union D /\ kept \intersect D = {}
  OBVIOUS
<1> HIDE DEF moved, kept, name, now
<1>13. IsFiniteSet(D)
  BY <1>12, PlanFact
<1>14. Total(Price, {name[f] : f \in D}) = Total(now, D)
  <2>1. \A f \in D : now[f] \in Int /\ Price[name[f]] = now[f]
    BY <1>11
  <2>2. \A f, g \in D : name[f] = name[g] => f = g
    BY <1>11
  <2>3. QED
    BY <1>13, <2>1, <2>2, TotalRenamed
<1>15. Total(now, D) <= Total(Price, D)
  BY <1>11, <1>13, TotalIsMonotone
<1>16. Bill(moved) <= Bill(D)
  BY <1>3, <1>10, <1>12, <1>14, <1>15, BillIsTotal
<1>17. Bill(kept \union moved) = Bill(kept) + Bill(moved)
  BY <1>3, <1>6, BillsAddUp
<1>18. Bill(P) = Bill(kept) + Bill(D)
  BY <1>3, <1>12, BillsAddUp
<1>19. Bill(kept) \in Nat /\ Bill(moved) \in Nat /\ Bill(D) \in Nat
  BY <1>3, <1>12, PlanFact
<1>20. Bill(kept \union moved) <= Bill(P)
  BY <1>16, <1>17, <1>18, <1>19
<1>21. QED
  BY <1>2, <1>3, <1>8, <1>9, <1>20

-----------------------------------------------------------------------------
(* PlanSearch: what every step leaves in hand *)

Stages == {"fill", "idle", "beam", "rounds", "ruined", "downgrade", "repair", "repartition", "lanes", "done"}
Late == {"downgrade", "repair", "repartition", "lanes", "done"}

\* The invariant after a step, from what the step left: the shop never changes.
LEMMA InvAfter ==
    ASSUME shop \in Shops, shop' = shop,
           stranded' \in SUBSET Parts, pass' \in 0..MaxPasses, limit' \in Nat, stage' \in Stages,
           plan' \in SUBSET Fills, baseline' \in SUBSET Fills, out' \in SUBSET Fills,
           spared' \in SUBSET Fills, trial' \in SUBSET Fills,
           Sound(plan'), Sound(baseline'), Sound(out'), Sound(spared' \union trial'),
           stage' = "fill" => PartsOf(plan') \subseteq Placeable /\ baseline' = {} /\ out' = {},
           stage' \in {"idle", "beam", "rounds", "ruined"} =>
              PartsOf(plan') = Placeable /\ PartsOf(baseline') = Placeable,
           stage' \in {"beam", "rounds", "ruined"} => PartsOf(out') = Placeable,
           stage' \in {"beam", "ruined"} =>
              /\ spared' \subseteq out' /\ spared' \intersect trial' = {}
              /\ PartsOf(trial') \subseteq Placeable
              /\ Placeable \ PartsOf(spared' \union trial') # {},
           stage' \notin {"beam", "ruined"} => spared' = {} /\ trial' = {},
           stage' \in Late => PartsOf(plan') \in {Placeable \ stranded', Placeable}
    PROVE  PlanInv'
<1>1. Fills' = Fills /\ Placeable' = Placeable
  BY DEF Fills, Placeable
<1>2. (Sound(plan) /\ Sound(baseline) /\ Sound(out) /\ Sound(spared \union trial))'
  BY DEF Sound
<1>3. PlanTyped'
  BY <1>1 DEF PlanTyped, Stages
<1>4. Searching' <=> stage' \in {"beam", "ruined"}
  BY DEF Searching
<1>5. Pool' = Placeable \ PartsOf(spared' \union trial')
  BY <1>1 DEF Pool, Rest
<1>6. (stage = "fill" => PartsOf(plan) \subseteq Placeable /\ baseline = {} /\ out = {})'
  BY <1>1
<1>7. (stage \in {"idle", "beam", "rounds", "ruined"} =>
          PartsOf(plan) = Placeable /\ PartsOf(baseline) = Placeable)'
  BY <1>1
<1>8. (stage \in {"beam", "rounds", "ruined"} => PartsOf(out) = Placeable)'
  BY <1>1
<1>9. (IF Searching THEN /\ spared \subseteq out /\ spared \intersect trial = {}
                        /\ PartsOf(trial) \subseteq Placeable /\ Pool # {}
       ELSE spared = {} /\ trial = {})'
  <2>1. CASE stage' \in {"beam", "ruined"}
    BY <1>1, <1>4, <1>5, <2>1
  <2>2. CASE stage' \notin {"beam", "ruined"}
    BY <1>4, <2>2
  <2>3. QED
    BY <2>1, <2>2
<1>10. (stage \in {"downgrade", "repair", "repartition", "lanes", "done"} =>
          PartsOf(plan) \in {Placeable \ stranded, Placeable})'
  BY <1>1 DEF Late
<1>11. InHand'
  BY <1>2, <1>6, <1>7, <1>8, <1>9, <1>10, Zenon DEF InHand
<1>12. QED
  BY <1>3, <1>11 DEF PlanInv

\* The invariant, in the same words.
LEMMA InvNow ==
    ASSUME PlanInv
    PROVE  /\ shop \in Shops /\ stranded \in SUBSET Parts /\ pass \in 0..MaxPasses /\ limit \in Nat
           /\ stage \in Stages
           /\ plan \in SUBSET Fills /\ baseline \in SUBSET Fills /\ out \in SUBSET Fills
           /\ spared \in SUBSET Fills /\ trial \in SUBSET Fills
           /\ Sound(plan) /\ Sound(baseline) /\ Sound(out) /\ Sound(spared \union trial)
           /\ stage = "fill" => PartsOf(plan) \subseteq Placeable /\ baseline = {} /\ out = {}
           /\ stage \in {"idle", "beam", "rounds", "ruined"} =>
                 PartsOf(plan) = Placeable /\ PartsOf(baseline) = Placeable
           /\ stage \in {"beam", "rounds", "ruined"} => PartsOf(out) = Placeable
           /\ stage \in {"beam", "ruined"} =>
                 /\ spared \subseteq out /\ spared \intersect trial = {}
                 /\ PartsOf(trial) \subseteq Placeable /\ Pool # {}
                 /\ Pool = Placeable \ PartsOf(spared \union trial)
           /\ stage \notin {"beam", "ruined"} => spared = {} /\ trial = {}
           /\ stage \in Late => PartsOf(plan) \in {Placeable \ stranded, Placeable}
<1>1. PlanTyped /\ InHand
  BY DEF PlanInv
<1>2. Searching <=> stage \in {"beam", "ruined"}
  BY DEF Searching
<1>3. Pool = Placeable \ PartsOf(spared \union trial)
  BY DEF Pool, Rest
<1>4. QED
  BY <1>1, <1>2, <1>3 DEF PlanTyped, InHand, Stages, Late

\* An empty plan is sound.
LEMMA NothingIsSound ==
    ASSUME shop \in Shops
    PROVE  Sound({}) /\ {} \in SUBSET Fills /\ PartsOf({}) = {} /\ Bill({}) = 0 /\ Cardinality({}) = 0
<1>1. ASSUME NEW i \in DOMAIN shop PROVE On({}, i) <= shop[i].count
  <2>1. On({}, i) = 0
    BY FS_EmptySet DEF On
  <2>2. shop[i] \in Offers
    BY ShopFact
  <2>3. QED
    BY <2>1, <2>2 DEF Offers
<1>2. Sound({})
  BY <1>1 DEF Sound
<1>3. Bill({}) = 0
  BY BillIsTotal, TotalOfNothing
<1>4. QED
  BY <1>2, <1>3, FS_EmptySet DEF PartsOf

\* A sheet more of the baseline.
LEMMA FillBaselineKeeps ==
    ASSUME PlanInv, FillBaseline PROVE PlanInv' /\ stage = "fill"
<1>1. stage = "fill" /\ UNCHANGED <<shop, stage, stranded, baseline, out, spared, limit, trial, pass>>
  BY DEF FillBaseline
<1> DEFINE i == CHOOSE i \in DOMAIN shop : Takes(i) /\ \A j \in 1..(i - 1) : ~Takes(j)
<1>2. PICK S \in (SUBSET Rest(plan)) \ {{}} :
         Fits(S, shop[i].long, Blade) /\ plan' = plan \union {Fill(i, S)}
  BY DEF FillBaseline
<1>3. i \in DOMAIN shop /\ Takes(i)
  <2>1. PICK k \in DOMAIN shop : Takes(k)
    BY <1>1 DEF FillBaseline, CanFill
  <2>2. \E k2 \in DOMAIN shop : Takes(k2) /\ \A j \in 1..(k2 - 1) : ~Takes(j)
    <3> DEFINE those == {k2 \in DOMAIN shop : Takes(k2)}
    <3>1. DOMAIN shop \in SUBSET Int /\ IsFiniteSet(DOMAIN shop)
          /\ \A m \in DOMAIN shop : m \in Nat /\ 1..m \subseteq DOMAIN shop
      <4>1. shop \in Seq(Offers)
        BY InvNow, PlanAssumption DEF Offers
      <4>2. Len(shop) \in Nat /\ DOMAIN shop = 1..Len(shop)
        BY <4>1
      <4>3. IsFiniteSet(DOMAIN shop)
        BY InvNow, ShopFact
      <4>4. QED
        BY <4>2, <4>3
    <3>2. those \in SUBSET Int /\ those # {} /\ IsFiniteSet(those)
      BY <2>1, <3>1, FS_Subset
    <3>3. \A k2 : k2 \in those <=> k2 \in DOMAIN shop /\ Takes(k2)
      OBVIOUS
    <3> HIDE DEF those
    <3>4. Min(those) \in those /\ \A y \in those : Min(those) <= y
      BY <3>2, LeastIsThere
    <3> DEFINE m == Min(those)
    <3>5. m \in those /\ \A y \in those : m <= y
      BY <3>4
    <3> HIDE DEF m
    <3>6. m \in DOMAIN shop /\ Takes(m)
      BY <3>3, <3>5
    <3>7. \A j \in 1..(m - 1) : ~Takes(j)
      <4> SUFFICES ASSUME NEW j \in 1..(m - 1), Takes(j) PROVE FALSE
        OBVIOUS
      <4>1. j \in Int /\ m \in Nat /\ j < m /\ j \in 1..m
        BY <3>1, <3>6
      <4>2. j \in those
        BY <3>1, <3>3, <3>6, <4>1
      <4>3. QED
        BY <3>5, <4>1, <4>2
    <3>8. QED
      BY <3>6, <3>7
  <2>3. QED
    BY <2>2
<1> HIDE DEF i
<1>4. InStockFor(plan, i)
  BY <1>3 DEF Takes
<1>5. S \in SUBSET Placeable /\ S # {} /\ S \intersect PartsOf(plan) = {}
  BY <1>2 DEF Rest
<1>6. S \in SUBSET Parts
  BY <1>5, InvNow, WantedFact
<1>7. plan' \in SUBSET Fills /\ Sound(plan') /\ PartsOf(plan') = PartsOf(plan) \union S
  BY <1>2, <1>3, <1>4, <1>5, <1>6, InvNow, OneMoreSheet
<1>8. PartsOf(plan') \subseteq Placeable
  BY <1>1, <1>5, <1>7, InvNow
<1>9. QED
  BY <1>1, <1>7, <1>8, InvNow, InvAfter DEF Late

\* The baseline is what the search has.
LEMMA EndBaselineKeeps ==
    ASSUME PlanInv, EndBaseline PROVE PlanInv' /\ plan' = plan
<1>1. /\ stage = "fill" /\ baseline' = plan /\ stranded' = Placeable \ PartsOf(plan)
      /\ stage' = (IF stranded' = {} THEN "idle" ELSE "downgrade")
      /\ UNCHANGED <<shop, plan, out, spared, limit, trial, pass>>
  BY DEF EndBaseline, Rest
<1>2. PartsOf(plan) \subseteq Placeable /\ out = {} /\ spared = {} /\ trial = {}
  BY <1>1, InvNow
<1>3. stranded' \in SUBSET Parts
  BY <1>1, InvNow, WantedFact
<1>4. CASE stranded' = {}
  <2>1. PartsOf(plan) = Placeable
    BY <1>1, <1>2, <1>4
  <2>2. stage' = "idle"
    BY <1>1, <1>4
  <2>3. QED
    BY <1>1, <1>2, <1>3, <2>1, <2>2, InvNow, InvAfter DEF Late, Stages
<1>5. CASE stranded' # {}
  <2>1. PartsOf(plan) = Placeable \ stranded'
    BY <1>1, <1>2
  <2>2. stage' = "downgrade"
    BY <1>1, <1>5
  <2>3. QED
    BY <1>1, <1>2, <1>3, <2>1, <2>2, InvNow, InvAfter DEF Late, Stages
<1>6. QED
  BY <1>4, <1>5

\* Nothing to place is proven optimal at once.
LEMMA SomethingToPlace ==
    ASSUME PlanInv, stage = "idle", ~Proven(plan) PROVE Placeable # {}
<1> SUFFICES ASSUME Placeable = {} PROVE FALSE
  OBVIOUS
<1>1. PartsOf(plan) = {} /\ plan \in SUBSET Fills /\ shop \in Shops /\ Parted(plan) /\ Holding(plan)
  BY InvNow, SoundIsHolding
<1>2. plan = {}
  <2> SUFFICES ASSUME NEW f \in plan PROVE FALSE
    OBVIOUS
  <2>1. f.parts # {} /\ f.parts \subseteq PartsOf(plan)
    BY <1>1 DEF Parted, PartsOf
  <2>2. QED
    BY <1>1, <2>1
<1>3. Bill(plan) = 0 /\ Cardinality(plan) = 0
  BY <1>1, <1>2, NothingIsSound
<1>4. LengthOf(Placeable) = 0
  BY LengthFact
<1>5. CostBound(LengthOf(Placeable)) = 0
  BY <1>4 DEF CostBound
<1>6. BinsBound(LengthOf(Placeable)) \in Nat
  BY <1>1, BinsBoundHolds
<1>7. QED
  BY <1>3, <1>5, <1>6 DEF Proven

\* A pass starts from the plan, or from the baseline.
LEMMA StartPassKeeps ==
    ASSUME PlanInv, StartPass PROVE PlanInv' /\ plan' = plan
<1>1. /\ stage = "idle" /\ pass < MaxPasses /\ ~Proven(plan)
      /\ pass' = pass + 1 /\ stage' = "beam" /\ limit' = MaxBoards
      /\ out' = (IF pass' = 2 THEN baseline ELSE plan)
      /\ UNCHANGED <<shop, plan, stranded, baseline, spared, trial>>
  BY DEF StartPass
<1>2. Placeable # {} /\ shop \in Shops
  BY <1>1, SomethingToPlace, InvNow
<1>3. spared = {} /\ trial = {} /\ PartsOf({}) = {} /\ Sound({})
  BY <1>1, <1>2, InvNow, NothingIsSound
<1>4. PartsOf(plan) = Placeable /\ PartsOf(baseline) = Placeable
  BY <1>1, InvNow
<1>5. out' \in SUBSET Fills /\ Sound(out') /\ PartsOf(out') = Placeable
  <2>1. out' = baseline \/ out' = plan
    BY <1>1
  <2>2. QED
    BY <1>4, <2>1, InvNow
<1>6. pass' \in 0..MaxPasses /\ limit' \in Nat
  BY <1>1, InvNow, PlanAssumption
<1>7. Placeable \ PartsOf(spared' \union trial') # {}
  <2>1. spared' \union trial' = {}
    BY <1>1, <1>3
  <2>2. QED
    BY <1>2, <1>3, <2>1
<1>8. QED
  BY <1>1, <1>3, <1>4, <1>5, <1>6, <1>7, InvNow, InvAfter DEF Late, Stages

\* Where a search stands: what is spared and tried makes a sound plan of some of what is
\* wanted.
LEMMA SearchFact ==
    ASSUME PlanInv, Searching
    PROVE  /\ stage \in {"beam", "ruined"} /\ shop \in Shops
           /\ spared \union trial \in SUBSET Fills /\ Sound(spared \union trial)
           /\ PartsOf(spared \union trial) \subseteq Placeable
           /\ PartsOf(spared \union trial) \union Pool = Placeable
           /\ PartsOf(spared \union trial) \intersect Pool = {}
           /\ Pool \in SUBSET Parts /\ Pool # {}
           /\ spared \in SUBSET Fills /\ Sound(spared) /\ PartsOf(spared \union {}) \subseteq PartsOf(spared \union trial)
<1>1. stage \in {"beam", "ruined"}
  BY DEF Searching
<1>2. shop \in Shops /\ Pool = Placeable \ PartsOf(spared \union trial) /\ Pool # {}
  BY <1>1, InvNow
<1>3. PartsOf(spared \union trial) \subseteq PartsOf(out) \union PartsOf(trial)
  BY <1>1, InvNow DEF PartsOf
<1>4. PartsOf(out) = Placeable /\ PartsOf(trial) \subseteq Placeable
  BY <1>1, InvNow
<1>5. spared \union trial \in SUBSET Fills /\ Sound(spared \union trial)
  BY InvNow
<1>6. spared \in SUBSET (spared \union trial)
  OBVIOUS
<1>7. Sound(spared) /\ spared \in SUBSET Fills
  BY <1>2, <1>5, <1>6, SoundPart
<1>8. PartsOf(spared \union {}) \subseteq PartsOf(spared \union trial)
  BY DEF PartsOf
<1>9. QED
  BY <1>1, <1>2, <1>3, <1>4, <1>5, <1>7, <1>8, WantedFact

\* What is registered is sound, cuts everything, and keeps what is spared.
LEMMA RegisterFact ==
    ASSUME PlanInv, Searching, NEW new \in SUBSET Fills,
           Sound(spared \union new), PartsOf(spared \union new) = Placeable, Register(new)
    PROVE  out' \in SUBSET Fills /\ Sound(out') /\ PartsOf(out') = Placeable /\ spared \subseteq out'
<1>1. out' = spared \union new \/ out' = out
  BY DEF Register
<1>2. out \in SUBSET Fills /\ Sound(out) /\ PartsOf(out) = Placeable /\ spared \subseteq out
  BY InvNow DEF Searching
<1>3. spared \union new \in SUBSET Fills
  BY SearchFact
<1>4. QED
  BY <1>1, <1>2, <1>3

\* The search goes on from what is spared.
LEMMA BackToSpared ==
    ASSUME PlanInv, Searching, UNCHANGED <<shop, stage, plan, stranded, baseline, spared, limit, pass>>,
           out' \in SUBSET Fills, Sound(out'), PartsOf(out') = Placeable, spared \subseteq out', trial' = {}
    PROVE  PlanInv'
<1>1. stage \in {"beam", "ruined"}
  BY DEF Searching
<1>2. spared' \union trial' = spared /\ Sound(spared)
  BY SearchFact
<1>3. Placeable \ PartsOf(spared' \union trial') # {}
  <2>1. PartsOf(spared) \subseteq PartsOf(spared \union trial)
    BY DEF PartsOf
  <2>2. QED
    BY <1>2, <2>1, SearchFact
<1>4. PartsOf(trial') \subseteq Placeable /\ trial' \in SUBSET Fills
  BY SearchFact, NothingIsSound
<1>5. spared' \subseteq out' /\ spared' \intersect trial' = {}
  OBVIOUS
<1>6. Sound(spared' \union trial')
  BY <1>2
<1>7. PartsOf(plan') = Placeable /\ PartsOf(baseline') = Placeable
  BY <1>1, InvNow
<1>8. stage' \in {"beam", "ruined"}
  BY <1>1
<1>9. QED
  BY <1>3, <1>4, <1>5, <1>6, <1>7, <1>8, InvNow, InvAfter DEF Late, Stages

\* One more bin of a state, which may be its last.
LEMMA OpenBinKeeps ==
    ASSUME PlanInv, NEW i \in DOMAIN shop, OpenBin(i) PROVE PlanInv' /\ plan' = plan
<1>1. /\ Searching /\ UNCHANGED <<shop, stage, plan, stranded, baseline, spared, limit, pass>>
      /\ i \in OpenSpecs(spared \union trial, LengthOf(Pool))
  BY DEF OpenBin
<1>2. PICK S \in FillsOf(i) :
         IF S = Pool THEN Register(trial \union {Fill(i, S)}) /\ trial' = {}
         ELSE trial' = trial \union {Fill(i, S)} /\ UNCHANGED out
  BY DEF OpenBin
<1> DEFINE had == spared \union trial
           new == trial \union {Fill(i, S)}
<1>3. InStockFor(had, i)
  BY <1>1 DEF OpenSpecs
<1>4. S \in SUBSET Pool /\ S # {} /\ Fits(S, shop[i].long, Blade)
  BY DEF FillsOf
<1>5. S \in SUBSET Parts /\ S \intersect PartsOf(had) = {}
  BY <1>1, <1>4, SearchFact
<1>6. shop \in Shops /\ had \in SUBSET Fills /\ Sound(had)
  BY <1>1, SearchFact
<1>7. spared \union new = had \union {Fill(i, S)} /\ new \subseteq had \union {Fill(i, S)}
  OBVIOUS
<1>8. /\ had \union {Fill(i, S)} \in SUBSET Fills /\ Sound(had \union {Fill(i, S)})
      /\ PartsOf(had \union {Fill(i, S)}) = PartsOf(had) \union S /\ Fill(i, S) \notin had
  <2> HIDE DEF had
  <2>1. QED
    BY <1>3, <1>4, <1>5, <1>6, OneMoreSheet
<1>9. new \in SUBSET Fills /\ Sound(spared \union new) /\ PartsOf(spared \union new) = PartsOf(had) \union S
  BY <1>7, <1>8
<1>10. CASE S = Pool
  <2>1. Register(new) /\ trial' = {}
    BY <1>2, <1>10
  <2>2. PartsOf(spared \union new) = Placeable
    BY <1>1, <1>9, <1>10, SearchFact
  <2> HIDE DEF new
  <2>3. out' \in SUBSET Fills /\ Sound(out') /\ PartsOf(out') = Placeable /\ spared \subseteq out'
    BY <1>1, <1>9, <2>1, <2>2, RegisterFact
  <2>4. QED
    BY <1>1, <2>1, <2>3, BackToSpared
<1>11. CASE S # Pool
  <2>1. trial' = new /\ out' = out
    BY <1>2, <1>11
  <2>2. Placeable \ PartsOf(spared' \union trial') # {}
    <3>1. PartsOf(spared' \union trial') = PartsOf(had) \union S
      BY <1>1, <1>9, <2>1
    <3>2. QED
      BY <1>1, <1>4, <1>11, <3>1, SearchFact
  <2>3. PartsOf(trial') \subseteq Placeable
    <3>1. PartsOf(trial') \subseteq PartsOf(spared \union new)
      BY <2>1 DEF PartsOf
    <3>2. QED
      BY <1>1, <1>4, <1>9, <3>1, SearchFact
  <2>4. stage' \in {"beam", "ruined"} /\ stage' = stage
    BY <1>1, SearchFact
  <2>5. spared' \subseteq out' /\ spared' \intersect trial' = {}
    <3>1. spared \subseteq out /\ spared \intersect trial = {}
      BY <2>4, InvNow
    <3>2. QED
      BY <1>1, <1>8, <2>1, <3>1
  <2>6. Sound(spared' \union trial') /\ trial' \in SUBSET Fills
    BY <1>1, <1>9, <2>1
  <2>7. PartsOf(plan') = Placeable /\ PartsOf(baseline') = Placeable /\ PartsOf(out') = Placeable
    BY <1>1, <2>1, <2>4, InvNow
  <2>8. QED
    BY <1>1, <2>1, <2>2, <2>3, <2>4, <2>5, <2>6, <2>7, InvNow, InvAfter DEF Late, Stages
<1>12. QED
  BY <1>1, <1>10, <1>11

\* The tail in one more bin.
LEMMA CloseTailKeeps ==
    ASSUME PlanInv, NEW i \in DOMAIN shop, CloseTail(i) PROVE PlanInv' /\ plan' = plan
<1>1. /\ Searching /\ UNCHANGED <<shop, stage, plan, stranded, baseline, spared, limit, pass>>
      /\ i \in OpenSpecs(spared \union trial, 0) /\ TakesAll(i)
      /\ Register(trial \union {Fill(i, Pool)}) /\ trial' = {}
  BY DEF CloseTail
<1> DEFINE had == spared \union trial
           new == trial \union {Fill(i, Pool)}
<1>2. InStockFor(had, i) /\ Fits(Pool, shop[i].long, Blade)
  BY <1>1 DEF OpenSpecs, TakesAll
<1>3. /\ shop \in Shops /\ had \in SUBSET Fills /\ Sound(had) /\ Pool \in SUBSET Parts /\ Pool # {}
      /\ Pool \intersect PartsOf(had) = {} /\ PartsOf(had) \union Pool = Placeable
  BY <1>1, SearchFact
<1>4. spared \union new = had \union {Fill(i, Pool)}
  OBVIOUS
<1>5. /\ had \union {Fill(i, Pool)} \in SUBSET Fills /\ Sound(had \union {Fill(i, Pool)})
      /\ PartsOf(had \union {Fill(i, Pool)}) = PartsOf(had) \union Pool
  <2> HIDE DEF had
  <2>1. QED
    BY <1>2, <1>3, OneMoreSheet
<1>6. new \in SUBSET Fills /\ Sound(spared \union new) /\ PartsOf(spared \union new) = Placeable /\ Register(new)
  BY <1>1, <1>3, <1>4, <1>5
<1> HIDE DEF new
<1>7. out' \in SUBSET Fills /\ Sound(out') /\ PartsOf(out') = Placeable /\ spared \subseteq out'
  BY <1>1, <1>6, RegisterFact
<1>8. QED
  BY <1>1, <1>7, BackToSpared

\* A state given up.
LEMMA AbandonKeeps ==
    ASSUME PlanInv, Abandon PROVE PlanInv' /\ plan' = plan
<1>1. /\ Searching /\ UNCHANGED <<shop, stage, plan, stranded, baseline, out, spared, limit, pass>>
      /\ trial' = {}
  BY DEF Abandon
<1>2. out' \in SUBSET Fills /\ Sound(out') /\ PartsOf(out') = Placeable /\ spared \subseteq out'
  BY <1>1, InvNow DEF Searching
<1>3. QED
  BY <1>1, <1>2, BackToSpared

\* The end of a search, and the end of a pass.
LEMMA EndBeamKeeps ==
    ASSUME PlanInv, EndBeam PROVE PlanInv' /\ plan' = plan
<1>1. /\ Searching /\ trial = {} /\ spared' = {} /\ limit' = 0 /\ stage' = "rounds"
      /\ UNCHANGED <<shop, plan, stranded, baseline, out, trial, pass>>
  BY DEF EndBeam
<1>2. stage \in {"beam", "ruined"} /\ shop \in Shops
  BY <1>1, SearchFact
<1>3. PartsOf(plan) = Placeable /\ PartsOf(baseline) = Placeable /\ PartsOf(out) = Placeable
  BY <1>2, InvNow
<1>4. spared' \union trial' = {} /\ Sound({}) /\ {} \in SUBSET Fills
  BY <1>1, <1>2, NothingIsSound
<1>5. Sound(spared' \union trial')
  BY <1>4
<1>6. limit' \in Nat
  BY <1>1
<1>7. QED
  BY <1>1, <1>3, <1>4, <1>5, <1>6, InvNow, InvAfter DEF Late, Stages

\* Two sheets or three are taken out, the others are spared.
LEMMA RuinKeeps ==
    ASSUME PlanInv, NEW R \in SUBSET out, Ruin(R) PROVE PlanInv' /\ plan' = plan
<1>1. /\ stage = "rounds" /\ Cardinality(R) \in {2, 3}
      /\ spared' = out \ R /\ limit' = Cardinality(R) /\ stage' = "ruined"
      /\ UNCHANGED <<shop, plan, stranded, baseline, out, trial, pass>>
  BY DEF Ruin
<1>2. /\ PartsOf(plan) = Placeable /\ PartsOf(baseline) = Placeable /\ PartsOf(out) = Placeable
      /\ trial = {} /\ out \in SUBSET Fills /\ Sound(out) /\ shop \in Shops
  BY <1>1, InvNow
<1>3. R # {}
  BY <1>1, FS_EmptySet
<1>4. PICK f \in R : TRUE
  BY <1>3
<1>5. f.parts # {} /\ f.parts \subseteq Placeable
  BY <1>2 DEF Sound, PartsOf
<1>6. f.parts \intersect PartsOf(out \ R) = {}
  BY <1>2 DEF Sound, PartsOf
<1>7. spared' \union trial' = out \ R
  BY <1>1, <1>2
<1>8. Placeable \ PartsOf(spared' \union trial') # {}
  BY <1>5, <1>6, <1>7
<1>9. Sound(spared' \union trial') /\ spared' \in SUBSET Fills
  <2>1. out \ R \in SUBSET out
    OBVIOUS
  <2>2. Sound(out \ R) /\ out \ R \in SUBSET Fills
    BY <1>2, <2>1, SoundPart
  <2>3. QED
    BY <1>1, <1>7, <2>2
<1>10. spared' \subseteq out' /\ spared' \intersect trial' = {} /\ PartsOf(trial') \subseteq Placeable
  BY <1>1, <1>2, NothingIsSound
<1>11. limit' \in Nat
  BY <1>1
<1>12. QED
  BY <1>1, <1>2, <1>8, <1>9, <1>10, <1>11, InvNow, InvAfter DEF Late, Stages

\* A pass leaves the better of its plan and the one there was.
LEMMA EndPassKeeps ==
    ASSUME PlanInv, EndPass PROVE PlanInv' /\ Bill(plan') <= Bill(plan)
<1>1. /\ stage = "rounds" /\ plan' = BetterOf(out, plan) /\ out' = {} /\ stage' = "idle"
      /\ UNCHANGED <<shop, stranded, baseline, spared, limit, trial, pass>>
  BY DEF EndPass
<1>2. /\ PartsOf(plan) = Placeable /\ PartsOf(baseline) = Placeable /\ PartsOf(out) = Placeable
      /\ spared = {} /\ trial = {} /\ shop \in Shops
      /\ out \in SUBSET Fills /\ Sound(out) /\ plan \in SUBSET Fills /\ Sound(plan)
  BY <1>1, InvNow
<1>3. plan' = plan \/ (plan' = out /\ Beats(out, plan))
  BY <1>1 DEF BetterOf
<1>4. plan' \in SUBSET Fills /\ Sound(plan') /\ PartsOf(plan') = Placeable
  BY <1>2, <1>3
<1>5. Bill(plan) \in Nat /\ Bill(out) \in Nat
  BY <1>2, PlanFact
<1>6. Beats(out, plan) => Bill(out) <= Bill(plan)
  BY <1>5 DEF Beats
<1>7. Bill(plan') <= Bill(plan)
  BY <1>3, <1>5, <1>6
<1>8. Sound(out') /\ out' \in SUBSET Fills
  BY <1>1, <1>2, NothingIsSound
<1>9. Sound(spared' \union trial')
  BY <1>1, InvNow
<1>10. QED
  BY <1>1, <1>2, <1>4, <1>7, <1>8, <1>9, InvNow, InvAfter DEF Late, Stages

\* The end of the passes.
LEMMA EndSearchKeeps ==
    ASSUME PlanInv, EndSearch PROVE PlanInv' /\ plan' = plan
<1>1. /\ stage = "idle" /\ stage' = "downgrade"
      /\ UNCHANGED <<shop, plan, stranded, baseline, out, spared, limit, trial, pass>>
  BY DEF EndSearch
<1>2. PartsOf(plan) = Placeable /\ spared = {} /\ trial = {}
  BY <1>1, InvNow
<1>3. QED
  BY <1>1, <1>2, InvNow, InvAfter DEF Late, Stages

\* A step that takes another plan, once the passes are over.
LEMMA LateStepKeeps ==
    ASSUME PlanInv, stage \in Late, stage' \in Late, plan' \in SUBSET Fills, Sound(plan'),
           PartsOf(plan') \in {PartsOf(plan), Placeable},
           UNCHANGED <<shop, stranded, baseline, out, spared, limit, trial, pass>>
    PROVE  PlanInv'
<1>1. spared = {} /\ trial = {} /\ PartsOf(plan) \in {Placeable \ stranded, Placeable}
  BY InvNow DEF Late
<1>2. /\ stage' # "fill" /\ stage' \notin {"idle", "beam", "rounds", "ruined"} /\ stage' \in Stages
      /\ stage' \notin {"beam", "rounds", "ruined"} /\ stage' \notin {"beam", "ruined"}
  BY DEF Late, Stages
<1>3. PartsOf(plan') \in {Placeable \ stranded', Placeable}
  BY <1>1
<1>4. QED
  BY <1>1, <1>2, <1>3, InvNow, InvAfter

\* Full sheets on their halves.
LEMMA HalfDowngradeKeeps ==
    ASSUME PlanInv, NEW D \in SUBSET plan, HalfDowngrade(D) PROVE PlanInv' /\ Bill(plan') <= Bill(plan)
<1>1. /\ stage = "downgrade" /\ stage' = "repair" /\ plan' = Halved(plan, D)
      /\ \A f \in D : \E h \in HalfOf(f) : Fits(f.parts, shop[h].long, Blade)
      /\ UNCHANGED <<shop, stranded, baseline, out, spared, limit, trial, pass>>
  BY DEF HalfDowngrade, Halved, HalfHeld
<1>2. shop \in Shops /\ plan \in SUBSET Fills /\ Sound(plan)
  BY InvNow
<1>3. /\ plan' \in SUBSET Fills /\ Sound(plan') /\ PartsOf(plan') = PartsOf(plan)
      /\ Bill(plan') <= Bill(plan)
  BY <1>1, <1>2, HalvedFact
<1>4. QED
  BY <1>1, <1>3, LateStepKeeps DEF Late

\* A repair takes a complete plan that is cheaper and cut with the real blade, or none.
LEMMA AdoptKeeps ==
    ASSUME PlanInv, stage \in Late, NEW next \in Late, NEW plans, MayAdopt(plans, next),
           \A P \in plans : /\ P \in SUBSET Fills /\ Sound(P) /\ PartsOf(P) = Placeable
                             /\ Bill(P) < Bill(plan)
    PROVE  PlanInv' /\ Bill(plan') <= Bill(plan)
<1>1. /\ plan' \in plans \/ plan' = plan
      /\ stage' = next
      /\ UNCHANGED <<shop, stranded, baseline, out, spared, limit, trial, pass>>
  BY DEF MayAdopt
<1>2. shop \in Shops /\ plan \in SUBSET Fills /\ Sound(plan)
  BY InvNow
<1>3. plan' \in SUBSET Fills /\ Sound(plan') /\ PartsOf(plan') \in {PartsOf(plan), Placeable}
  BY <1>1, <1>2
<1>4. Bill(plan') <= Bill(plan)
  BY <1>1, <1>2, <1>3, PlanFact
<1>5. QED
  BY <1>1, <1>3, <1>4, LateStepKeeps

\* What the repair with a thinner blade may come up with.
LEMMA RelaxedKerfRepairKeeps ==
    ASSUME PlanInv, RelaxedKerfRepair PROVE PlanInv' /\ Bill(plan') <= Bill(plan)
<1>1. stage = "repair" /\ MayAdopt(Repaired, "repartition")
  BY DEF RelaxedKerfRepair
<1>2. shop \in Shops
  BY InvNow
<1>3. ASSUME NEW P \in Repaired
      PROVE  P \in SUBSET Fills /\ Sound(P) /\ PartsOf(P) = Placeable /\ Bill(P) < Bill(plan)
  <2>1. PICK d \in {1, 2} \intersect 1..Blade : P \in Completes[shop][Blade - d]
    BY <1>3 DEF Repaired
  <2>2. Bill(P) < Bill(plan) /\ \A f \in P : Fits(f.parts, shop[f.on].long, Blade)
    BY <1>3 DEF Repaired, Recut
  <2>3. Blade - d \in 0..Blade
    BY PlanAssumption
  <2>4. QED
    BY <1>2, <2>1, <2>2, <2>3, CompleteIsSound
<1>4. QED
  BY <1>1, <1>3, AdoptKeeps DEF Late

\* A complete plan with the real blade.
LEMMA CutWithTheBlade ==
    ASSUME shop \in Shops, NEW P \in Completes[shop][Blade]
    PROVE  P \in SUBSET Fills /\ Sound(P) /\ PartsOf(P) = Placeable
<1>1. Blade \in 0..Blade
  BY PlanAssumption
<1>2. QED
  BY <1>1, CompleteFact, CompleteIsSound

\* What the repartition may come up with.
LEMMA HalfRepartitionKeeps ==
    ASSUME PlanInv, HalfRepartition PROVE PlanInv' /\ Bill(plan') <= Bill(plan)
<1> DEFINE once == IF EmptierThan(55) THEN Repartitioned(plan) ELSE {}
           twice == UNION {Repartitioned(P) : P \in once}
           plans == {P \in once \union twice : Bill(P) < Bill(plan)}
<1>1. stage = "repartition" /\ MayAdopt(plans, "lanes")
  BY Zenon DEF HalfRepartition
<1>2. \A Q : Repartitioned(Q) \subseteq Completes[shop][Blade]
  BY DEF Repartitioned
<1>3. \A P \in plans : P \in Completes[shop][Blade] /\ Bill(P) < Bill(plan)
  BY <1>2
<1> HIDE DEF plans
<1>4. shop \in Shops
  BY InvNow
<1>5. \A P \in plans : /\ P \in SUBSET Fills /\ Sound(P) /\ PartsOf(P) = Placeable
                        /\ Bill(P) < Bill(plan)
  BY <1>3, <1>4, CutWithTheBlade
<1>6. QED
  BY <1>1, <1>5, AdoptKeeps DEF Late

\* What the lane plan may come up with.
LEMMA LanePlanKeeps ==
    ASSUME PlanInv, LanePlan PROVE PlanInv' /\ Bill(plan') <= Bill(plan)
<1> DEFINE plans == IF ~EmptierThan(55) THEN {}
                    ELSE {P \in Completes[shop][Blade] : /\ Bill(P) < Bill(plan)
                                                         /\ \A f \in P : shop[f.on].count = Endless}
<1>1. stage = "lanes" /\ MayAdopt(plans, "done")
  BY Zenon DEF LanePlan
<1>2. \A P \in plans : P \in Completes[shop][Blade] /\ Bill(P) < Bill(plan)
  OBVIOUS
<1> HIDE DEF plans
<1>3. shop \in Shops
  BY InvNow
<1>4. \A P \in plans : /\ P \in SUBSET Fills /\ Sound(P) /\ PartsOf(P) = Placeable
                        /\ Bill(P) < Bill(plan)
  BY <1>2, <1>3, CutWithTheBlade
<1>5. QED
  BY <1>1, <1>4, AdoptKeeps DEF Late

\* Every step keeps what is in hand, and from the baseline on none adds to the bill.
LEMMA PlanStepKeeps ==
    ASSUME PlanInv, PlanNext PROVE PlanInv' /\ (stage # "fill" => Bill(plan') <= Bill(plan))
<1>1. shop \in Shops /\ plan \in SUBSET Fills
  BY InvNow
<1>2. Bill(plan) \in Nat
  BY <1>1, PlanFact
<1>3. CASE FillBaseline
  BY <1>3, FillBaselineKeeps
<1>4. ASSUME PlanInv' /\ plan' = plan PROVE PlanInv' /\ (stage # "fill" => Bill(plan') <= Bill(plan))
  <2>1. Bill(plan') = Bill(plan)
    BY <1>4
  <2>2. QED
    BY <1>2, <1>4, <2>1
<1>5. CASE EndBaseline
  BY <1>4, <1>5, EndBaselineKeeps
<1>6. CASE StartPass
  BY <1>4, <1>6, StartPassKeeps
<1>7. CASE Abandon
  BY <1>4, <1>7, AbandonKeeps
<1>8. CASE EndBeam
  BY <1>4, <1>8, EndBeamKeeps
<1>9. CASE EndPass
  BY <1>9, EndPassKeeps
<1>10. CASE EndSearch
  BY <1>4, <1>10, EndSearchKeeps
<1>11. CASE \E i \in DOMAIN shop : CloseTail(i) \/ OpenBin(i)
  BY <1>4, <1>11, CloseTailKeeps, OpenBinKeeps
<1>12. CASE \E R \in SUBSET out : Ruin(R)
  BY <1>4, <1>12, RuinKeeps
<1>13. CASE \E D \in SUBSET plan : HalfDowngrade(D)
  BY <1>13, HalfDowngradeKeeps
<1>14. CASE RelaxedKerfRepair
  BY <1>14, RelaxedKerfRepairKeeps
<1>15. CASE HalfRepartition
  BY <1>15, HalfRepartitionKeeps
<1>16. CASE LanePlan
  BY <1>16, LanePlanKeeps
<1>17. QED
  BY <1>3, <1>5, <1>6, <1>7, <1>8, <1>9, <1>10, <1>11, <1>12, <1>13, <1>14, <1>15, <1>16 DEF PlanNext

\* A search starts with nothing in hand.
LEMMA PlanStarts ==
    ASSUME PlanInit PROVE PlanInv
<1>1. /\ shop \in Shops /\ stage = "fill" /\ plan = {} /\ stranded = {} /\ baseline = {}
      /\ out = {} /\ spared = {} /\ limit = 0 /\ trial = {} /\ pass = 0
  BY DEF PlanInit
<1>2. Sound({}) /\ {} \in SUBSET Fills /\ PartsOf({}) = {}
  BY <1>1, NothingIsSound
<1>3. pass \in 0..MaxPasses /\ limit \in Nat
  BY <1>1, PlanAssumption
<1>4. PlanTyped
  BY <1>1, <1>2, <1>3 DEF PlanTyped
<1>5. ~Searching
  BY <1>1 DEF Searching
<1>6. spared \union trial = {}
  BY <1>1
<1>7. InHand
  BY <1>1, <1>2, <1>5, <1>6 DEF InHand
<1>8. QED
  BY <1>4, <1>7 DEF PlanInv

\* What the engine has in hand, at every stage of every search.
THEOREM PlanSafe == PlanSpec => []PlanInv
<1>1. PlanInit => PlanInv
  BY PlanStarts
<1>2. PlanInv /\ [PlanNext]_planVars => PlanInv'
  <2> SUFFICES ASSUME PlanInv, [PlanNext]_planVars PROVE PlanInv'
    OBVIOUS
  <2>1. CASE PlanNext
    BY <2>1, PlanStepKeeps
  <2>2. CASE UNCHANGED planVars
    BY <2>2 DEF planVars, PlanInv, PlanTyped, InHand, Fills, Sound, Searching, Pool, Rest, Placeable
  <2>3. QED
    BY <2>1, <2>2
<1>3. QED
  BY <1>1, <1>2, PTL DEF PlanSpec

\* Once there is a baseline, nothing the engine does makes the quote dearer: not a pass, a
\* half board, nor a repair.
THEOREM BillNeverRises == PlanSpec => BillOnlyFalls
<1>1. PlanInv /\ [PlanNext]_planVars => [stage # "fill" => Bill(plan') <= Bill(plan)]_planVars
  BY PlanStepKeeps
<1>2. QED
  BY <1>1, PlanSafe, PTL DEF PlanSpec, BillOnlyFalls

-----------------------------------------------------------------------------
(* PlanSearch: the bounds *)

\* A plan proven optimal is as cheap as any, and of the free ones none takes fewer sheets.
LEMMA ProvenIsBest ==
    ASSUME PlanInv, stage = "idle", Proven(plan), NEW P \in Completes[shop][Blade]
    PROVE  /\ Bill(P) >= Bill(plan)
           /\ Bill(plan) = 0 => Cardinality(P) >= Cardinality(plan)
<1>1. shop \in Shops /\ plan \in SUBSET Fills
  BY InvNow
<1>2. P \in SUBSET Fills /\ Sound(P) /\ PartsOf(P) = Placeable
  BY <1>1, CutWithTheBlade
<1>3. Parted(P) /\ Holding(P)
  BY <1>1, <1>2, SoundIsHolding
<1>4. Bill(plan) \in Nat /\ Bill(P) \in Nat /\ Cardinality(plan) \in Nat /\ Cardinality(P) \in Nat
  BY <1>1, <1>2, PlanFact
<1> DEFINE cost == CostBound(LengthOf(Placeable))
           bins == BinsBound(LengthOf(Placeable))
<1>5. cost <= Bill(P)
  BY <1>1, <1>2, <1>3, CostBoundHolds
<1>6. bins <= Cardinality(P) /\ bins \in Nat
  BY <1>1, <1>2, <1>3, BinsBoundHolds
<1>7. Bill(plan) <= cost /\ (Bill(plan) > 0 \/ Cardinality(plan) <= bins)
  BY DEF Proven
<1>8. cost \in Int
  BY <1>1, <1>2, <1>3, CostBoundHolds
<1> HIDE DEF cost, bins
<1>9. QED
  BY <1>4, <1>5, <1>6, <1>7, <1>8

\* A state that is dropped could not have ended in anything better.
LEMMA PrunedIsLost ==
    ASSUME PlanInv, Searching, Pruned, NEW P \in Completes[shop][Blade], spared \union trial \subseteq P
    PROVE  \/ Bill(P \ spared) > Bill(ToBeat)
           \/ Bill(P \ spared) = Bill(ToBeat) /\ Cardinality(P \ spared) >= Cardinality(ToBeat)
<1> DEFINE tail == (P \ spared) \ trial
<1>1. /\ shop \in Shops /\ spared \in SUBSET Fills /\ trial \in SUBSET Fills /\ out \in SUBSET Fills
      /\ spared \intersect trial = {}
  BY SearchFact, InvNow
<1>2. P \in SUBSET Fills /\ Sound(P) /\ PartsOf(P) = Placeable
  BY <1>1, CutWithTheBlade
<1>3. /\ tail \in SUBSET P /\ tail \in SUBSET Fills
      /\ P \ spared = trial \union tail /\ trial \intersect tail = {} /\ ToBeat \in SUBSET Fills
  BY <1>1, <1>2 DEF ToBeat
<1>4. PartsOf(tail) = Pool
  <2>1. P = (spared \union trial) \union tail
    OBVIOUS
  <2>2. PartsOf(P) = PartsOf(spared \union trial) \union PartsOf(tail)
    BY <2>1 DEF PartsOf
  <2>3. \A f, g \in P : f # g => f.parts \intersect g.parts = {}
    BY <1>2 DEF Sound
  <2>4. PartsOf(spared \union trial) \intersect PartsOf(tail) = {}
    <3>1. \A f \in spared \union trial : \A g \in tail : f # g /\ f \in P /\ g \in P
      OBVIOUS
    <3> HIDE DEF tail
    <3>2. \A f \in spared \union trial : \A g \in tail : f.parts \intersect g.parts = {}
      BY <2>3, <3>1
    <3>3. QED
      BY <3>2 DEF PartsOf
  <2>5. Pool = Placeable \ PartsOf(spared \union trial)
    BY SearchFact
  <2>6. QED
    BY <1>2, <2>2, <2>4, <2>5
<1> HIDE DEF tail
<1>5. Sound(tail) /\ Parted(tail) /\ Holding(tail)
  BY <1>1, <1>2, <1>3, SoundPart, SoundIsHolding
<1>6. Bill(P \ spared) = Bill(trial) + Bill(tail)
  BY <1>1, <1>3, BillsAddUp
<1>7. Cardinality(P \ spared) = Cardinality(trial) + Cardinality(tail)
  BY <1>1, <1>3, BillsAddUp
<1>8. /\ Bill(trial) \in Nat /\ Bill(tail) \in Nat /\ Bill(ToBeat) \in Nat
      /\ Cardinality(trial) \in Nat /\ Cardinality(tail) \in Nat /\ Cardinality(ToBeat) \in Nat
  BY <1>1, <1>3, PlanFact
<1> DEFINE cost == CostBound(LengthOf(Pool))
           bins == BinsBound(LengthOf(Pool))
<1>9. cost <= Bill(tail) /\ cost \in Int
  BY <1>1, <1>3, <1>4, <1>5, CostBoundHolds
<1>10. bins <= Cardinality(tail) /\ bins \in Nat
  BY <1>1, <1>3, <1>4, <1>5, BinsBoundHolds
<1>11. \/ Bill(trial) + cost > Bill(ToBeat)
       \/ Bill(trial) + cost = Bill(ToBeat) /\ Cardinality(trial) + bins > Cardinality(ToBeat)
  BY DEF Pruned
<1> HIDE DEF cost, bins
<1>12. QED
  BY <1>6, <1>7, <1>8, <1>9, <1>10, <1>11

\* Whatever the passes and repairs do, a plan cuts each part of the list once, on a sheet
\* that takes it with the real blade, out of bins in stock, or the part is stranded; where
\* the search stops at a plan none is cheaper, and what it drops led to nothing better.
THEOREM NoPartIsLost == PlanSpec => []PlansLoseNothing
<1>1. PlanInv => PlansLoseNothing
  <2> SUFFICES ASSUME PlanInv PROVE PlansLoseNothing
    OBVIOUS
  <2>1. Sound(plan) /\ Sound(out) /\ Sound(spared \union trial)
    BY InvNow
  <2>2. Searching => PartsOf(out) = Placeable /\ spared \subseteq out
    BY InvNow DEF Searching
  <2>3. stage # "fill" => PartsOf(plan) \in {Placeable \ stranded, Placeable}
    BY InvNow DEF Stages, Late
  <2>4. stage = "idle" /\ Proven(plan) =>
          \A P \in Completes[shop][Blade] :
             /\ Bill(P) >= Bill(plan)
             /\ Bill(plan) = 0 => Cardinality(P) >= Cardinality(plan)
    BY ProvenIsBest
  <2>5. Searching /\ Pruned =>
          \A P \in Completes[shop][Blade] : spared \union trial \subseteq P =>
             \/ Bill(P \ spared) > Bill(ToBeat)
             \/ Bill(P \ spared) = Bill(ToBeat) /\ Cardinality(P \ spared) >= Cardinality(ToBeat)
    BY PrunedIsLost
  <2>6. QED
    BY <2>1, <2>2, <2>3, <2>4, <2>5 DEF PlansLoseNothing
<1>2. QED
  BY <1>1, PlanSafe, PTL

-----------------------------------------------------------------------------
(* OffcutPool: sheets, and what they hold *)

\* What a piece takes of a lane, as drawn or turned.
Reach(p, t) == IF t THEN Upright[p] ELSE Lying[p]

\* The bins of a pool.
LEMMA PoolFact ==
    ASSUME asked \in Pools
    PROVE  /\ 1 \in DOMAIN asked.bins /\ Half \notin DOMAIN asked.bins
           /\ \A i \in {Half} \union DOMAIN asked.bins : Bin(i) \in Stocks
           /\ \A i \in {Half} \union DOMAIN asked.bins : Bin(i).long \in Nat /\ Bin(i).count \in Nat
           /\ DOMAIN asked.bins = 1..Len(asked.bins) /\ Len(asked.bins) \in Nat
           /\ Bin(Half) = asked.half /\ Bin(Half).long <= Bin(1).long
           /\ asked.order \in {"offcuts_first", "catalog_first", "auto"}
<1>1. /\ asked \in [bins : Seq(Stocks), half : Stocks, order : {"offcuts_first", "catalog_first", "auto"}]
      /\ asked.bins # <<>> /\ asked.half.long <= asked.bins[1].long
  BY OffcutAssumption
<1>2. asked.bins \in Seq(Stocks) /\ asked.half \in Stocks
  BY <1>1
<1>3. Len(asked.bins) \in Nat /\ DOMAIN asked.bins = 1..Len(asked.bins) /\ Len(asked.bins) # 0
  BY <1>1, <1>2
<1>4. 1 \in DOMAIN asked.bins /\ Half \notin DOMAIN asked.bins
  BY <1>3 DEF Half
<1>5. \A i \in DOMAIN asked.bins : Bin(i) = asked.bins[i] /\ Bin(i) \in Stocks
  BY <1>2, <1>3 DEF Bin, Half
<1>6. Bin(Half) = asked.half
  BY DEF Bin
<1>7. \A i \in {Half} \union DOMAIN asked.bins : Bin(i) \in Stocks
  BY <1>2, <1>5, <1>6
<1>8. QED
  BY <1>1, <1>3, <1>4, <1>5, <1>6, <1>7 DEF Stocks

\* A piece has a length, turned or not.
LEMMA ReachFact ==
    ASSUME NEW p \in Slats, NEW t \in BOOLEAN
    PROVE  Reach(p, t) \in Nat
<1>1. Upright[p] \in Nat /\ Lying[p] \in Nat
  BY OffcutAssumption
<1>2. CASE t
  BY <1>1, <1>2 DEF Reach
<1>3. CASE ~t
  BY <1>1, <1>3 DEF Reach
<1>4. QED
  BY <1>2, <1>3

\* What lies on a sheet: pieces, each as drawn or turned.
Laid(lay) == DOMAIN lay \in SUBSET Slats /\ lay \in [DOMAIN lay -> BOOLEAN]

\* The pieces on a sheet are finitely many; what they take is no less than what each takes.
LEMMA ConsumedFact ==
    ASSUME NEW lay, Laid(lay)
    PROVE  /\ IsFiniteSet(DOMAIN lay) /\ Consumed(lay) \in Nat
           /\ \A p \in DOMAIN lay : /\ Reach(p, lay[p]) \in Nat /\ Reach(p, lay[p]) <= Consumed(lay)
                                    /\ DOMAIN lay = {p} => Consumed(lay) = Reach(p, lay[p])
<1> DEFINE T == DOMAIN lay
           size == [p \in T |-> Reach(p, lay[p])]
<1>1. Consumed(lay) = Total(size, T)
  BY DEF Consumed, Reach
<1>2. IsFiniteSet(T)
  BY OffcutAssumption, FS_Subset DEF Laid
<1>3. \A p \in T : p \in Slats /\ lay[p] \in BOOLEAN
  BY DEF Laid
<1>4. \A p \in T : size[p] = Reach(p, lay[p]) /\ size[p] \in Nat
  BY <1>3, ReachFact
<1> HIDE DEF T, size
<1>5. Total(size, T) \in Nat
  BY <1>2, <1>4, TotalIsNatural
<1>6. ASSUME NEW p \in T
      PROVE  size[p] <= Total(size, T) /\ (T = {p} => Total(size, T) = size[p])
  <2>1. Total(size, T) = size[p] + Total(size, T \ {p})
    BY <1>2, <1>4, TotalSplits
  <2>2. IsFiniteSet(T \ {p}) /\ \A q \in T \ {p} : size[q] \in Nat
    BY <1>2, <1>4, FS_Subset
  <2>3. Total(size, T \ {p}) \in Nat
    BY <2>2, TotalIsNatural
  <2>4. T = {p} => Total(size, T \ {p}) = 0
    <3>1. T = {p} => T \ {p} = {}
      OBVIOUS
    <3>2. QED
      BY <3>1, TotalOfNothing
  <2>5. size[p] \in Nat
    BY <1>4
  <2>6. QED
    BY <2>1, <2>3, <2>4, <2>5
<1>7. QED
  BY <1>1, <1>2, <1>4, <1>5, <1>6 DEF T

\* A sheet of a plan.
LEMMA SheetFacts ==
    ASSUME NEW s \in Sheets
    PROVE  /\ s.on \in {Half} \union DOMAIN asked.bins /\ Laid(s.lay)
           /\ s = OnSheet(s.on, s.lay)
<1>1. s.on \in {Half} \union DOMAIN asked.bins /\ s.lay \in UNION {[T -> BOOLEAN] : T \in SUBSET Slats}
  BY DEF Sheets
<1>2. Laid(s.lay)
  BY <1>1 DEF Laid
<1>3. s = OnSheet(s.on, s.lay)
  BY DEF Sheets, OnSheet
<1>4. QED
  BY <1>1, <1>2, <1>3

\* No piece too large for a board is on a board or on a half.
LEMMA TooLargeStaysOut ==
    ASSUME asked \in Pools, NEW i \in Catalog, NEW lay, Laid(lay), HoldsAll(i, lay),
           \A p \in DOMAIN lay : lay[p] => p \in Revolving
    PROVE  DOMAIN lay \intersect TooLarge = {}
<1> SUFFICES ASSUME NEW p \in DOMAIN lay, p \in TooLarge PROVE FALSE
  OBVIOUS
<1>1. p \in Slats /\ lay[p] \in BOOLEAN
  BY DEF Laid
<1>2. Reach(p, lay[p]) > Bin(1).long
  BY <1>1 DEF TooLarge, Reach
<1>3. Reach(p, lay[p]) <= Consumed(lay) /\ Consumed(lay) \in Nat /\ Reach(p, lay[p]) \in Nat
  BY ConsumedFact
<1>4. IsFiniteSet(DOMAIN lay) /\ DOMAIN lay # {}
  BY ConsumedFact
<1>5. Cardinality(DOMAIN lay) \in Nat /\ Cardinality(DOMAIN lay) # 0
  BY <1>4, FS_CardinalityType, FS_EmptySet
<1> DEFINE more == Cardinality(DOMAIN lay) - 1
           taken == Reach(p, lay[p])
           all == Consumed(lay)
<1>6. more \in Nat
  BY <1>5
<1>7. all + Loss * more <= Bin(i).long
  BY DEF HoldsAll
<1> HIDE DEF more
<1>8. Loss * more \in Nat
  BY <1>6, OffcutAssumption
<1>9. Bin(i).long <= Bin(1).long /\ Bin(i).long \in Nat /\ Bin(1).long \in Nat
  BY PoolFact DEF Catalog
<1>10. taken > Bin(1).long /\ taken <= all /\ all \in Nat /\ taken \in Nat
  BY <1>2, <1>3
<1> HIDE DEF taken, all
<1>11. QED
  BY <1>7, <1>8, <1>9, <1>10

\* A piece that is not goes on a board of its own, turned if need be.
LEMMA NotTooLargeFits ==
    ASSUME asked \in Pools, Turning = Revolving, NEW p \in Slats, p \notin TooLarge
    PROVE  FitsAlone(p, 1)
<1>1. PICK t \in BOOLEAN : (t => p \in Revolving) /\ ~(Reach(p, t) > Bin(1).long)
  BY DEF TooLarge, Reach
<1> DEFINE lay == [q \in {p} |-> t]
<1>2. DOMAIN lay = {p} /\ lay[p] = t /\ lay \in [{p} -> BOOLEAN]
  OBVIOUS
<1>3. Laid(lay)
  BY <1>2 DEF Laid
<1> HIDE DEF lay
<1>4. Consumed(lay) = Reach(p, t)
  BY <1>2, <1>3, ConsumedFact
<1>5. Cardinality(DOMAIN lay) = 1
  BY <1>2, FS_Singleton
<1>6. Reach(p, t) \in Nat /\ Bin(1).long \in Nat
  BY ReachFact, PoolFact
<1>7. HoldsAll(1, lay)
  <2> DEFINE taken == Reach(p, t)
  <2>1. taken <= Bin(1).long /\ taken \in Nat
    BY <1>1, <1>6
  <2>2. Consumed(lay) = taken
    BY <1>4
  <2> HIDE DEF taken
  <2>3. Loss * (1 - 1) = 0
    BY OffcutAssumption
  <2>4. QED
    BY <1>5, <1>6, <2>1, <2>2, <2>3 DEF HoldsAll
<1>8. lay \in UNION {[T -> BOOLEAN] : T \in (SUBSET {p}) \ {{}}}
  BY <1>2
<1>9. \A q \in DOMAIN lay : lay[q] => q \in Turning
  BY <1>1, <1>2
<1>10. lay \in Lays({p}, 1)
  BY <1>7, <1>8, <1>9 DEF Lays
<1>11. QED
  BY <1>10 DEF FitsAlone

\* What a search lays.
LEMMA LaysFact ==
    ASSUME NEW S \in SUBSET Slats, NEW i, NEW lay \in Lays(S, i)
    PROVE  /\ DOMAIN lay \in SUBSET S /\ DOMAIN lay # {} /\ Laid(lay) /\ HoldsAll(i, lay)
           /\ \A p \in DOMAIN lay : lay[p] => p \in Revolving
<1>1. PICK T \in (SUBSET S) \ {{}} : lay \in [T -> BOOLEAN]
  BY DEF Lays
<1>2. DOMAIN lay = T
  BY <1>1
<1>3. HoldsAll(i, lay) /\ \A p \in DOMAIN lay : lay[p] => p \in Turning
  BY DEF Lays
<1>4. Turning \subseteq Revolving
  BY DEF Turning
<1>5. QED
  BY <1>1, <1>2, <1>3, <1>4 DEF Laid

\* The sheets of a plan are finitely many, and no more than its pieces.
LEMMA CuttableFact ==
    ASSUME asked \in Pools, NEW sheets \in SUBSET Sheets, CuttablePlan(sheets)
    PROVE  /\ IsFiniteSet(sheets) /\ Cardinality(sheets) \in Nat
           /\ Held(sheets) \in SUBSET Slats /\ IsFiniteSet(Held(sheets))
           /\ Cardinality(sheets) <= Cardinality(Held(sheets))
<1> DEFINE S == Held(sheets)
           ofPiece == [p \in S |-> CHOOSE s \in sheets : p \in DOMAIN s.lay]
<1>1. S \in SUBSET Slats
  BY SheetFacts DEF Held, Laid
<1>2. \A p \in S : ofPiece[p] \in sheets /\ p \in DOMAIN ofPiece[p].lay
  BY DEF Held
<1>3. \A s \in sheets : \A p \in DOMAIN s.lay : p \in S
  BY DEF Held
<1>4. {ofPiece[p] : p \in S} = sheets
  <2>1. ASSUME NEW s \in sheets PROVE s \in {ofPiece[p] : p \in S}
    <3>1. PICK p \in DOMAIN s.lay : TRUE
      BY DEF CuttablePlan
    <3>2. p \in S
      BY <1>3
    <3>3. ofPiece[p] = s
      BY <1>2, <3>2 DEF CuttablePlan
    <3>4. QED
      BY <3>2, <3>3
  <2>2. QED
    BY <1>2, <2>1
<1> HIDE DEF S, ofPiece
<1>5. IsFiniteSet(S)
  BY <1>1, OffcutAssumption, FS_Subset
<1>6. IsFiniteSet(sheets) /\ Cardinality(sheets) <= Cardinality(S)
  BY <1>4, <1>5, ImageIsFinite
<1>7. QED
  BY <1>1, <1>5, <1>6, FS_CardinalityType DEF S

UsedOf(sheets, i) == {s \in sheets : s.on = i}

\* Some sheets of a plan make a plan.
LEMMA CuttablePart ==
    ASSUME asked \in Pools, NEW sheets \in SUBSET Sheets, CuttablePlan(sheets), NEW some \in SUBSET sheets
    PROVE  some \in SUBSET Sheets /\ CuttablePlan(some)
<1>1. some \in SUBSET Sheets
  OBVIOUS
<1>2. ASSUME NEW i \in DOMAIN asked.bins, Bin(i).count > 0 PROVE Uses(some, i) <= Bin(i).count
  <2>1. IsFiniteSet(sheets)
    BY CuttableFact
  <2>2. UsedOf(sheets, i) \in SUBSET sheets /\ UsedOf(some, i) \in SUBSET UsedOf(sheets, i)
    BY DEF UsedOf
  <2>3. IsFiniteSet(UsedOf(sheets, i)) /\ IsFiniteSet(UsedOf(some, i))
    BY <2>1, <2>2, FS_Subset
  <2>4. Cardinality(UsedOf(some, i)) <= Cardinality(UsedOf(sheets, i))
    BY <2>2, <2>3, FS_Subset
  <2>5. Cardinality(UsedOf(some, i)) \in Nat /\ Cardinality(UsedOf(sheets, i)) \in Nat
    BY <2>3, FS_CardinalityType
  <2>6. Uses(some, i) = Cardinality(UsedOf(some, i)) /\ Uses(sheets, i) = Cardinality(UsedOf(sheets, i))
    BY DEF Uses, UsedOf
  <2>7. Uses(sheets, i) <= Bin(i).count /\ Bin(i).count \in Nat
    BY <1>2, PoolFact DEF CuttablePlan
  <2>8. QED
    BY <2>4, <2>5, <2>6, <2>7
<1>3. QED
  BY <1>1, <1>2 DEF CuttablePlan

\* A plan without sheets.
LEMMA NoSheets ==
    ASSUME asked \in Pools
    PROVE  {} \in SUBSET Sheets /\ CuttablePlan({}) /\ Held({}) = {} /\ Bought({}) = {} /\ Cardinality({}) = 0
<1>1. \A i : Uses({}, i) = 0
  BY FS_EmptySet DEF Uses
<1>2. \A i \in DOMAIN asked.bins : Bin(i).count \in Nat
  BY PoolFact
<1>3. QED
  BY <1>1, <1>2, FS_EmptySet DEF CuttablePlan, Held, Bought

\* There is a sheet more of that bin.
InStock(sheets, i) == Bin(i).count > 0 => Uses(sheets, i) < Bin(i).count

\* A sheet more holds its pieces more, and is bought when its bin is of the catalog.
OneSheetAdded(sheets, i, lay) ==
    LET more == sheets \union {OnSheet(i, lay)} IN
    /\ more \in SUBSET Sheets /\ CuttablePlan(more)
    /\ Held(more) = Held(sheets) \union DOMAIN lay
    /\ IF i \in Catalog THEN /\ Bought(more) = Bought(sheets) \union {OnSheet(i, lay)}
                             /\ Cardinality(Bought(more)) = Cardinality(Bought(sheets)) + 1
       ELSE Bought(more) = Bought(sheets)

\* A sheet more, of pieces not laid yet, in stock.
LEMMA OneSheetMore ==
    ASSUME asked \in Pools, NEW sheets \in SUBSET Sheets, CuttablePlan(sheets),
           NEW i \in {Half} \union DOMAIN asked.bins, InStock(sheets, i),
           NEW S \in SUBSET Slats, S \intersect Held(sheets) = {}, NEW lay \in Lays(S, i)
    PROVE  OneSheetAdded(sheets, i, lay)
<1> DEFINE new == OnSheet(i, lay)
           more == sheets \union {new}
<1>1. /\ DOMAIN lay \in SUBSET S /\ DOMAIN lay # {} /\ Laid(lay) /\ HoldsAll(i, lay)
      /\ \A p \in DOMAIN lay : lay[p] => p \in Revolving
  BY LaysFact
<1>2. new.on = i /\ new.lay = lay /\ new \in Sheets
  BY <1>1 DEF OnSheet, Sheets, Laid
<1>3. \A s \in sheets : DOMAIN s.lay \intersect DOMAIN lay = {}
  BY <1>1 DEF Held
<1>4. new \notin sheets
  BY <1>1, <1>2, <1>3
<1>5. Held(more) = Held(sheets) \union DOMAIN lay
  BY <1>2 DEF Held
<1>6. ASSUME NEW j \in DOMAIN asked.bins, Bin(j).count > 0 PROVE Uses(more, j) <= Bin(j).count
  <2>1. IsFiniteSet(sheets)
    BY CuttableFact
  <2>2. IsFiniteSet(UsedOf(sheets, j)) /\ Uses(sheets, j) = Cardinality(UsedOf(sheets, j))
    BY <2>1, FS_Subset DEF UsedOf, Uses
  <2>3. Cardinality(UsedOf(sheets, j)) \in Nat
    BY <2>2, FS_CardinalityType
  <2>4. Uses(more, j) = Cardinality(UsedOf(more, j))
    BY DEF Uses, UsedOf
  <2>5. Bin(j).count \in Nat /\ Uses(sheets, j) <= Bin(j).count
    BY <1>6, PoolFact DEF CuttablePlan
  <2>6. CASE j = i
    <3>1. UsedOf(more, j) = UsedOf(sheets, j) \union {new} /\ new \notin UsedOf(sheets, j)
      BY <1>2, <1>4, <2>6 DEF UsedOf
    <3> HIDE DEF more, new
    <3>2. Cardinality(UsedOf(sheets, j) \union {new}) = Cardinality(UsedOf(sheets, j)) + 1
      BY <2>2, <3>1, FS_AddElement
    <3>3. Uses(more, j) = Uses(sheets, j) + 1
      BY <2>2, <2>4, <3>1, <3>2
    <3>4. QED
      BY <1>6, <2>2, <2>3, <2>5, <2>6, <3>3 DEF InStock
  <2>7. CASE j # i
    <3>1. UsedOf(more, j) = UsedOf(sheets, j)
      BY <1>2, <2>7 DEF UsedOf
    <3>2. QED
      BY <2>2, <2>4, <2>5, <3>1
  <2>8. QED
    BY <2>6, <2>7
<1>7. CuttablePlan(more)
  <2>1. \A s, z \in more : s # z => DOMAIN s.lay \intersect DOMAIN z.lay = {}
    <3>1. \A s, z \in sheets : s # z => DOMAIN s.lay \intersect DOMAIN z.lay = {}
      BY DEF CuttablePlan
    <3>2. QED
      BY <1>2, <1>3, <3>1
  <2>2. \A s \in more : /\ DOMAIN s.lay # {} /\ HoldsAll(s.on, s.lay)
                        /\ \A p \in DOMAIN s.lay : s.lay[p] => p \in Revolving
    <3>1. \A s \in sheets : /\ DOMAIN s.lay # {} /\ HoldsAll(s.on, s.lay)
                            /\ \A p \in DOMAIN s.lay : s.lay[p] => p \in Revolving
      BY DEF CuttablePlan
    <3>2. QED
      BY <1>1, <1>2, <3>1
  <2>3. QED
    BY <1>6, <2>1, <2>2 DEF CuttablePlan
<1>8. IF i \in Catalog THEN Bought(more) = Bought(sheets) \union {new} ELSE Bought(more) = Bought(sheets)
  BY <1>2 DEF Bought
<1>9. i \in Catalog => Cardinality(Bought(sheets) \union {new}) = Cardinality(Bought(sheets)) + 1
  <2>1. IsFiniteSet(sheets) /\ Bought(sheets) \in SUBSET sheets
    BY CuttableFact DEF Bought
  <2>2. IsFiniteSet(Bought(sheets)) /\ new \notin Bought(sheets)
    BY <1>4, <2>1, FS_Subset
  <2> HIDE DEF new
  <2>3. QED
    BY <2>2, FS_AddElement
<1>10. more \in SUBSET Sheets
  BY <1>2
<1> HIDE DEF more, new
<1>11. QED
  BY <1>5, <1>7, <1>8, <1>9, <1>10 DEF more, new, OneSheetAdded

\* What of a sheet's bin its pieces do not take.
ScrapOf == [s \in Sheets |-> Bin(s.on).long - Consumed(s.lay)]

\* The waste of a plan is what its sheets' bins have over what their pieces take.
LEMMA ScrapIsTotal ==
    ASSUME asked \in Pools, NEW sheets \in SUBSET Sheets, IsFiniteSet(sheets)
    PROVE  /\ Scrap(sheets) = Total(ScrapOf, sheets) /\ Scrap(sheets) \in Int
           /\ \A s \in Sheets : ScrapOf[s] \in Int /\ ScrapOf[s] = Bin(s.on).long - Consumed(s.lay)
<1> DEFINE here == [s \in sheets |-> Bin(s.on).long - Consumed(s.lay)]
<1>1. ASSUME NEW s \in Sheets
      PROVE  ScrapOf[s] = Bin(s.on).long - Consumed(s.lay) /\ ScrapOf[s] \in Int
  <2>1. Bin(s.on).long \in Nat /\ Consumed(s.lay) \in Nat
    BY SheetFacts, PoolFact, ConsumedFact
  <2>2. ScrapOf[s] = Bin(s.on).long - Consumed(s.lay)
    BY DEF ScrapOf
  <2>3. QED
    BY <2>1, <2>2
<1>2. \A s \in sheets : here[s] = ScrapOf[s]
  BY DEF ScrapOf
<1>3. Scrap(sheets) = Total(here, sheets)
  BY DEF Scrap
<1> HIDE DEF here
<1>4. /\ \A s \in sheets : here[s] \in Int /\ ScrapOf[s] \in Int /\ here[s] <= ScrapOf[s]
      /\ \A s \in sheets : ScrapOf[s] \in Int /\ here[s] \in Int /\ ScrapOf[s] <= here[s]
  BY <1>1, <1>2
<1>5. Total(here, sheets) <= Total(ScrapOf, sheets) /\ Total(here, sheets) \in Int
  BY <1>4, TotalIsMonotone, TotalSplits
<1>6. Total(ScrapOf, sheets) <= Total(here, sheets) /\ Total(ScrapOf, sheets) \in Int
  BY <1>4, TotalIsMonotone, TotalSplits
<1>7. QED
  BY <1>1, <1>3, <1>5, <1>6

\* Sheets of a board on its half.
LEMMA OnHalfFact ==
    ASSUME asked \in Pools, Anchored, NEW sheets \in SUBSET Sheets, CuttablePlan(sheets),
           NEW D \in SUBSET Downgradable(sheets)
    PROVE  /\ OnHalf(D, sheets) \in SUBSET Sheets /\ CuttablePlan(OnHalf(D, sheets))
           /\ Held(OnHalf(D, sheets)) = Held(sheets)
           /\ Cardinality(Bought(OnHalf(D, sheets))) <= Cardinality(Bought(sheets))
           /\ Scrap(Bought(OnHalf(D, sheets))) <= Scrap(Bought(sheets))
           /\ Bought(sheets) = sheets => Bought(OnHalf(D, sheets)) = OnHalf(D, sheets)
<1> DEFINE to == [s \in sheets |-> IF s \in D THEN OnSheet(Half, s.lay) ELSE s]
           moved == {to[s] : s \in sheets}
           B == Bought(sheets)
<1>1. \A s \in D : s \in sheets /\ s.on = 1 /\ HoldsAll(Half, s.lay)
  BY DEF Downgradable
<1>2. OnHalf(D, sheets) = moved
  <2>1. ASSUME NEW x \in OnHalf(D, sheets) PROVE x \in moved
    <3>1. CASE x \in sheets \ D
      <4>1. to[x] = x /\ x \in sheets
        BY <3>1
      <4>2. QED
        BY <4>1
    <3>2. CASE x \notin sheets \ D
      <4>1. PICK s \in D : x = OnSheet(Half, s.lay)
        BY <3>2 DEF OnHalf
      <4>2. s \in sheets /\ to[s] = x
        BY <1>1, <4>1
      <4>3. QED
        BY <4>2
    <3>3. QED
      BY <3>1, <3>2
  <2>2. ASSUME NEW s \in sheets PROVE to[s] \in OnHalf(D, sheets)
    BY DEF OnHalf
  <2>3. QED
    BY <2>1, <2>2
<1>3. ASSUME NEW s \in sheets
      PROVE  /\ to[s] \in Sheets /\ to[s].lay = s.lay /\ HoldsAll(to[s].on, to[s].lay)
             /\ to[s].on = s.on \/ (to[s].on = Half /\ s.on = 1)
  <2>1. s.on \in {Half} \union DOMAIN asked.bins /\ Laid(s.lay) /\ s \in Sheets
    BY SheetFacts
  <2>2. CASE s \in D
    <3>1. to[s] = OnSheet(Half, s.lay)
      BY <2>2
    <3>2. to[s].on = Half /\ to[s].lay = s.lay
      BY <3>1 DEF OnSheet
    <3>3. OnSheet(Half, s.lay) \in Sheets
      BY <2>1 DEF OnSheet, Sheets, Laid
    <3>4. QED
      BY <1>1, <2>2, <3>1, <3>2, <3>3
  <2>3. CASE s \notin D
    BY <2>1, <2>3 DEF CuttablePlan
  <2>4. QED
    BY <2>2, <2>3
<1>4. \A x \in moved : \E s \in sheets : x = to[s]
  OBVIOUS
<1>5. \A s \in sheets : to[s] \in moved
  OBVIOUS
<1> HIDE DEF to, moved
<1>6. \A s, z \in sheets : s # z => to[s] # to[z] /\ DOMAIN to[s].lay \intersect DOMAIN to[z].lay = {}
  <2> SUFFICES ASSUME NEW s \in sheets, NEW z \in sheets, s # z
               PROVE  to[s] # to[z] /\ DOMAIN to[s].lay \intersect DOMAIN to[z].lay = {}
    OBVIOUS
  <2>1. DOMAIN s.lay \intersect DOMAIN z.lay = {} /\ DOMAIN s.lay # {}
    BY DEF CuttablePlan
  <2>2. to[s].lay = s.lay /\ to[z].lay = z.lay
    BY <1>3
  <2>3. QED
    BY <2>1, <2>2
<1>7. moved \in SUBSET Sheets
  BY <1>3, <1>4
<1>8. Held(moved) = Held(sheets)
  <2>1. ASSUME NEW p \in Held(moved) PROVE p \in Held(sheets)
    BY <1>3, <1>4 DEF Held
  <2>2. ASSUME NEW p \in Held(sheets) PROVE p \in Held(moved)
    BY <1>3, <1>5 DEF Held
  <2>3. QED
    BY <2>1, <2>2
<1>9. IsFiniteSet(sheets) /\ B \in SUBSET sheets /\ IsFiniteSet(B)
  BY CuttableFact, FS_Subset DEF Bought
<1>10. Half \in Catalog /\ 1 \in Catalog /\ Half # 1
  BY DEF Catalog, Half
<1>11. Bought(moved) = {to[s] : s \in B}
  <2>1. \A s \in sheets : to[s].on \in Catalog <=> s.on \in Catalog
    BY <1>3, <1>10
  <2>2. ASSUME NEW x \in Bought(moved) PROVE x \in {to[s] : s \in B}
    BY <1>4, <2>1 DEF Bought
  <2>3. ASSUME NEW s \in B PROVE to[s] \in Bought(moved)
    BY <1>5, <2>1 DEF Bought
  <2>4. QED
    BY <2>2, <2>3
<1>12. CuttablePlan(moved)
  <2>1. \A x, y \in moved : x # y => DOMAIN x.lay \intersect DOMAIN y.lay = {}
    <3> SUFFICES ASSUME NEW x \in moved, NEW y \in moved, x # y
                 PROVE  DOMAIN x.lay \intersect DOMAIN y.lay = {}
      OBVIOUS
    <3>1. PICK s \in sheets : x = to[s]
      BY <1>4
    <3>2. PICK z \in sheets : y = to[z]
      BY <1>4
    <3>3. QED
      BY <1>6, <3>1, <3>2
  <2>2. \A x \in moved : /\ DOMAIN x.lay # {} /\ HoldsAll(x.on, x.lay)
                         /\ \A p \in DOMAIN x.lay : x.lay[p] => p \in Revolving
    <3> SUFFICES ASSUME NEW x \in moved
                 PROVE  /\ DOMAIN x.lay # {} /\ HoldsAll(x.on, x.lay)
                        /\ \A p \in DOMAIN x.lay : x.lay[p] => p \in Revolving
      OBVIOUS
    <3>1. PICK s \in sheets : x = to[s]
      BY <1>4
    <3>2. x.lay = s.lay /\ HoldsAll(x.on, x.lay)
      BY <1>3, <3>1
    <3>3. DOMAIN s.lay # {} /\ \A p \in DOMAIN s.lay : s.lay[p] => p \in Revolving
      BY DEF CuttablePlan
    <3>4. QED
      BY <3>2, <3>3
  <2>3. ASSUME NEW i \in DOMAIN asked.bins, Bin(i).count > 0 PROVE Uses(moved, i) <= Bin(i).count
    <3>1. i # 1
      BY <2>3, PoolFact DEF Anchored, Bin, Half
    <3>2. i # Half
      BY PoolFact
    <3>3. UsedOf(moved, i) \in SUBSET UsedOf(sheets, i)
      <4> SUFFICES ASSUME NEW x \in UsedOf(moved, i) PROVE x \in UsedOf(sheets, i)
        OBVIOUS
      <4>1. PICK s \in sheets : x = to[s]
        BY <1>4 DEF UsedOf
      <4>2. x.on = i /\ s.on = i
        BY <1>3, <3>1, <3>2, <4>1 DEF UsedOf
      <4>3. x = s
        <5>1. to[s].on = s.on /\ to[s].lay = s.lay /\ to[s] \in Sheets /\ s \in Sheets
          BY <1>3, <4>1, <4>2
        <5>2. to[s] = OnSheet(s.on, s.lay) /\ s = OnSheet(s.on, s.lay)
          BY <5>1, SheetFacts
        <5>3. QED
          BY <4>1, <5>2
      <4>4. QED
        BY <4>2, <4>3 DEF UsedOf
    <3>4. IsFiniteSet(UsedOf(sheets, i))
      BY <1>9, FS_Subset DEF UsedOf
    <3>5. IsFiniteSet(UsedOf(moved, i)) /\ Cardinality(UsedOf(moved, i)) <= Cardinality(UsedOf(sheets, i))
      BY <3>3, <3>4, FS_Subset
    <3>6. Cardinality(UsedOf(moved, i)) \in Nat /\ Cardinality(UsedOf(sheets, i)) \in Nat
      BY <3>4, <3>5, FS_CardinalityType
    <3>7. Uses(moved, i) = Cardinality(UsedOf(moved, i)) /\ Uses(sheets, i) = Cardinality(UsedOf(sheets, i))
      BY DEF Uses, UsedOf
    <3>8. Uses(sheets, i) <= Bin(i).count /\ Bin(i).count \in Nat
      BY <2>3, PoolFact DEF CuttablePlan
    <3>9. QED
      BY <3>5, <3>6, <3>7, <3>8
  <2>4. QED
    BY <2>1, <2>2, <2>3 DEF CuttablePlan
<1>13. Cardinality(Bought(moved)) <= Cardinality(B)
  BY <1>9, <1>11, ImageIsFinite
<1>14. Scrap(Bought(moved)) <= Scrap(B)
  <2> DEFINE was == [s \in B |-> ScrapOf[to[s]]]
  <2>1. B \in SUBSET Sheets /\ Bought(moved) \in SUBSET Sheets
    BY <1>7, <1>9 DEF Bought
  <2>2. IsFiniteSet(Bought(moved))
    BY <1>9, <1>11, ImageIsFinite
  <2>3. ASSUME NEW s \in B
        PROVE  was[s] \in Int /\ ScrapOf[to[s]] = was[s] /\ ScrapOf[s] \in Int /\ was[s] <= ScrapOf[s]
    <3>1. s \in sheets /\ s \in Sheets /\ to[s] \in Sheets /\ to[s].lay = s.lay
          /\ (to[s].on = s.on \/ (to[s].on = Half /\ s.on = 1))
      BY <1>3, <1>9, <2>1
    <3>2. /\ ScrapOf[s] = Bin(s.on).long - Consumed(s.lay) /\ ScrapOf[s] \in Int
          /\ ScrapOf[to[s]] = Bin(to[s].on).long - Consumed(s.lay) /\ ScrapOf[to[s]] \in Int
      BY <2>1, <1>9, <3>1, ScrapIsTotal
    <3>3. Bin(to[s].on).long <= Bin(s.on).long
      BY <3>1, PoolFact, SheetFacts
    <3>4. Bin(to[s].on).long \in Nat /\ Bin(s.on).long \in Nat /\ Consumed(s.lay) \in Nat
      BY <3>1, PoolFact, SheetFacts, ConsumedFact
    <3>5. QED
      BY <3>2, <3>3, <3>4
  <2>4. \A s, z \in B : to[s] = to[z] => s = z
    BY <1>6, <1>9
  <2> HIDE DEF was, B
  <2>5. Total(ScrapOf, {to[s] : s \in B}) = Total(was, B)
    BY <1>9, <2>3, <2>4, TotalRenamed
  <2>6. Total(was, B) <= Total(ScrapOf, B)
    BY <1>9, <2>3, TotalIsMonotone
  <2>7. Scrap(B) = Total(ScrapOf, B) /\ Scrap(B) \in Int
    BY <1>9, <2>1, ScrapIsTotal
  <2>8. Scrap(Bought(moved)) = Total(ScrapOf, Bought(moved)) /\ Scrap(Bought(moved)) \in Int
    BY <2>1, <2>2, ScrapIsTotal
  <2>9. QED
    BY <1>11, <2>5, <2>6, <2>7, <2>8
<1>15. Bought(sheets) = sheets => Bought(moved) = moved
  BY <1>2, <1>11 DEF moved
<1>16. QED
  BY <1>2, <1>7, <1>8, <1>12, <1>13, <1>14, <1>15

-----------------------------------------------------------------------------
(* OffcutPool: what every step leaves in hand *)

\* WithBoards and WithOffcutsOnly, of any plans.
BoardsAt(r, ph, now, riv, fb, ch, b) ==
    /\ ph = "full only" => Sorted(riv, Slats) /\ (r # "probe" => NothingForABoard(riv))
    /\ r \in {"whole", "probe"} /\ ph \in {"catalog", "full only"} => OnBoards(now) /\ OnBoards(riv)
    /\ r = "offcuts_first" => asked.order # "catalog_first"
    /\ r \in {"whole", "probe"} => asked.order # "offcuts_first"
    /\ r \in {"whole", "probe"} /\ asked.order = "auto" => Sorted(ch, Slats) /\ NothingForABoard(ch)
    /\ r = "probe" =>
          /\ Sorted(fb, Slats) /\ OnBoards(fb) /\ NothingForABoard(fb)
          /\ b <= Cardinality(fb.laid)
          /\ ph \notin {"downgrade", "done"} =>
                Cardinality(Bought(now.laid)) <= b /\ Cardinality(Bought(riv.laid)) <= b
    /\ ph \in {"downgrade", "done"} =>
          /\ Held(now.laid) \union now.left = Slats
          /\ r # "probe" => asked.order # "auto" /\ Held(now.laid) \intersect now.left = {}
          /\ NothingForABoard(now)
          /\ asked.order = "catalog_first" =>
                now.left = fb.left /\ Cardinality(Bought(now.laid)) <= Cardinality(fb.laid)
          /\ asked.order = "auto" => Scrap(Bought(now.laid)) <= Scrap(Bought(ch.laid))

OffcutsAt(r, ph, now, riv, ch, done) ==
    /\ ph = "rerun" => Sorted(riv, Slats)
    /\ \A n \in done : Cardinality(ch.left) <= n
    /\ IF r = "plan" /\ ph # "done" THEN done = {} ELSE Sorted(ch, Slats)
    /\ ph = "done" => now.laid = ch.laid /\ now.left = ch.left

\* Where a pool may be.
Routed(r, ph) ==
    IF Anchored
    THEN \/ r = "offcuts_first" /\ ph \in {"offcuts", "catalog", "full only", "downgrade", "done"}
         \/ r = "whole" /\ ph \in {"catalog", "full only"}
         \/ r = "probe" /\ ph \in {"catalog", "full only", "offcuts", "downgrade", "done"}
    ELSE r \in {"plan", "plan firm", "yield", "yield firm"} /\ ph \in {"run", "rerun", "done"}

\* A plan of sheets there are, which can be cut.
Fine(made) == made.left \subseteq Slats /\ made.laid \subseteq Sheets /\ CuttablePlan(made.laid)

\* The invariant, in these words.
LEMMA PoolInvNow ==
    ASSUME OffcutInv
    PROVE  /\ asked \in Pools /\ Routed(route, phase)
           /\ Fine(Now) /\ Fine(rival) /\ Fine(fallback) /\ Fine(champion)
           /\ filling \in Nat /\ buying \in Nat /\ tried \subseteq Nat
           /\ phase \in {"offcuts", "catalog", "full only", "run"} => Sorted(Now, Slats)
           /\ phase = "rerun" => Sorted(Now, Held(rival.laid))
           /\ Anchored => BoardsAt(route, phase, Now, rival, fallback, champion, buying) /\ tried = {}
           /\ ~Anchored => OffcutsAt(route, phase, Now, rival, champion, tried)
           /\ Now.laid = loaded /\ Now.left = spill
<1>1. Now.laid = loaded /\ Now.left = spill
  BY DEF Now, APlan
<1>2. OffcutTyped
  BY DEF OffcutInv
<1>3. asked \in Pools /\ Routed(route, phase) /\ filling \in Nat /\ buying \in Nat /\ tried \subseteq Nat
  BY <1>2 DEF OffcutTyped, Routed
<1>4. Fine(Now) /\ Fine(rival) /\ Fine(fallback) /\ Fine(champion)
  BY <1>2 DEF OffcutInv, OffcutTyped, Fine
<1>5. /\ phase \in {"offcuts", "catalog", "full only", "run"} => Sorted(Now, Slats)
      /\ phase = "rerun" => Sorted(Now, Held(rival.laid))
  BY DEF OffcutInv
<1>6. ASSUME Anchored PROVE BoardsAt(route, phase, Now, rival, fallback, champion, buying) /\ tried = {}
  <2>1. WithBoards /\ tried = {}
    BY <1>6 DEF OffcutInv
  <2>2. QED
    BY <1>1, <2>1 DEF WithBoards, BoardsAt
<1>7. ASSUME ~Anchored PROVE OffcutsAt(route, phase, Now, rival, champion, tried)
  <2>1. WithOffcutsOnly
    BY <1>7 DEF OffcutInv
  <2>2. QED
    BY <1>1, <2>1 DEF WithOffcutsOnly, OffcutsAt
<1>8. QED
  BY <1>1, <1>3, <1>4, <1>5, <1>6, <1>7

\* The invariant after a step, from what the step left: the pool never changes.
LEMMA PoolInvAfter ==
    ASSUME asked \in Pools, asked' = asked, Routed(route', phase'),
           Fine(APlan(loaded', spill')), Fine(rival'), Fine(fallback'), Fine(champion'),
           filling' \in Nat, buying' \in Nat, tried' \subseteq Nat,
           phase' \in {"offcuts", "catalog", "full only", "run"} => Sorted(APlan(loaded', spill'), Slats),
           phase' = "rerun" => Sorted(APlan(loaded', spill'), Held(rival'.laid)),
           Anchored => /\ BoardsAt(route', phase', APlan(loaded', spill'), rival', fallback', champion', buying')
                       /\ tried' = {},
           ~Anchored => OffcutsAt(route', phase', APlan(loaded', spill'), rival', champion', tried')
    PROVE  OffcutInv'
<1> DEFINE now == APlan(loaded', spill')
<1>1. Now' = now /\ now.laid = loaded' /\ now.left = spill'
  BY DEF Now, APlan
<1>2. Anchored' = Anchored /\ Sheets' = Sheets /\ TooLarge' = TooLarge
  BY DEF Anchored, Sheets, TooLarge, Bin
<1>3. OffcutTyped'
  BY <1>1, <1>2 DEF OffcutTyped, Routed, Fine
<1>4. (\A m \in {Now, rival, fallback, champion} : CuttablePlan(m.laid))'
  <2>1. /\ CuttablePlan(now.laid) /\ CuttablePlan(rival'.laid)
        /\ CuttablePlan(fallback'.laid) /\ CuttablePlan(champion'.laid)
    BY DEF Fine
  <2>2. QED
    BY <1>1, <2>1 DEF CuttablePlan, HoldsAll, Bin
<1>5. (phase \in {"offcuts", "catalog", "full only", "run"} => Sorted(Now, Slats))'
  BY <1>1
<1>6. (phase = "rerun" => Sorted(Now, Held(rival.laid)))'
  BY <1>1
<1>7. ASSUME Anchored PROVE WithBoards' /\ tried' = {}
  <2>1. BoardsAt(route', phase', now, rival', fallback', champion', buying') /\ tried' = {}
    BY <1>7
  <2>2. \A m : NothingForABoard(m) <=> (ShortList => m.left \subseteq TooLarge)
    BY DEF NothingForABoard
  <2>3. QED
    BY <1>1, <1>2, <2>1, <2>2 DEF WithBoards, BoardsAt, NothingForABoard, Scrap, Bin
<1>8. ASSUME ~Anchored PROVE WithOffcutsOnly'
  BY <1>1, <1>8 DEF WithOffcutsOnly, OffcutsAt
<1>9. QED
  BY <1>2, <1>3, <1>4, <1>5, <1>6, <1>7, <1>8 DEF OffcutInv

-----------------------------------------------------------------------------
(* OffcutPool: the searches *)

\* Numbers.
LEMMA NumberFacts ==
    /\ 0 \in Nat /\ \A n \in Nat : 0 <= n
    /\ \A n \in Nat : n - 1 \in Int /\ n \in Int
    /\ \A m, n \in Nat : ~(n <= m /\ m <= n - 1)
    /\ \A a, b, c \in Int : a <= b /\ b <= c => a <= c
  OBVIOUS

\* The first place where two scores differ decides: the one before does not start worse.
LEMMA PrecedesFact ==
    ASSUME NEW a, NEW b, 1 \in DOMAIN a, DOMAIN a \subseteq Nat \ {0}, a[1] \in Int, b[1] \in Int
    PROVE  IF Precedes(a, b) THEN a[1] <= b[1] ELSE b[1] <= a[1]
<1>1. ASSUME Precedes(a, b) PROVE a[1] <= b[1]
  <2>1. PICK i \in DOMAIN a : a[i] < b[i] /\ \A j \in 1..(i - 1) : a[j] = b[j]
    BY <1>1 DEF Precedes
  <2>2. CASE i = 1
    BY <2>1, <2>2
  <2>3. CASE i # 1
    <3>1. i \in Nat /\ i # 0
      BY <2>1
    <3>2. 1 \in 1..(i - 1)
      BY <2>3, <3>1
    <3>3. QED
      BY <2>1, <3>2
  <2>4. QED
    BY <2>2, <2>3
<1>2. ASSUME ~(b[1] <= a[1]) PROVE Precedes(a, b)
  <2>1. a[1] < b[1] /\ \A j \in 1..(1 - 1) : a[j] = b[j]
    BY <1>2
  <2>2. QED
    BY <2>1 DEF Precedes
<1>3. QED
  BY <1>1, <1>2

\* A search on boards without a cap of its own ends with nothing a board takes.
LEMMA SearchedFact ==
    ASSUME OffcutInv, Anchored, phase \in {"catalog", "full only"}, route # "probe", Searched
    PROVE  NothingForABoard(Now)
<1> SUFFICES ASSUME ShortList, NEW p \in spill, p \notin TooLarge PROVE FALSE
  BY PoolInvNow DEF NothingForABoard
<1>1. /\ asked \in Pools /\ Routed(route, phase) /\ Fine(Now) /\ Sorted(Now, Slats)
      /\ Now.laid = loaded /\ Now.left = spill
  BY PoolInvNow
<1>2. p \in Slats /\ loaded \in SUBSET Sheets /\ CuttablePlan(loaded)
  BY <1>1 DEF Fine
<1>3. Turning = Revolving
  BY <1>1 DEF Turning, Routed
<1>4. FitsAlone(p, 1)
  BY <1>1, <1>2, <1>3, NotTooLargeFits
<1>5. Available(1)
  BY <1>1, PoolFact DEF Available, Anchored, Bin, Half
<1>6. 1 \in Open
  BY DEF Open
<1>7. p \in Fitting
  BY <1>4, <1>5, <1>6 DEF Fitting
<1>8. Cardinality(Bought(loaded)) = MostSheets
  BY <1>7 DEF Searched, Opened, Cap
<1> DEFINE others == Slats \ {p}
<1>9. Held(loaded) \subseteq others
  BY <1>1 DEF Sorted
<1>10. IsFiniteSet(Slats) /\ IsFiniteSet(others)
  BY OffcutAssumption, FS_Subset
<1>11. Cardinality(others) = Cardinality(Slats) - 1
  BY <1>2, <1>10, FS_RemoveElement
<1> HIDE DEF others
<1>12. /\ IsFiniteSet(loaded) /\ Cardinality(loaded) \in Nat
       /\ IsFiniteSet(Held(loaded)) /\ Cardinality(loaded) <= Cardinality(Held(loaded))
  BY <1>1, <1>2, CuttableFact
<1>13. Cardinality(Held(loaded)) <= Cardinality(others)
  BY <1>9, <1>10, FS_Subset
<1>14. Cardinality(Bought(loaded)) <= Cardinality(loaded)
  <2>1. Bought(loaded) \in SUBSET loaded
    BY DEF Bought
  <2>2. QED
    BY <1>12, <2>1, FS_Subset
<1>15. /\ Cardinality(Held(loaded)) \in Nat /\ Cardinality(Slats) \in Nat
       /\ MostSheets \in Nat /\ Cardinality(Slats) <= MostSheets
  BY <1>10, <1>12, FS_CardinalityType, OffcutAssumption DEF ShortList
<1>16. Cardinality(Bought(loaded)) \in Nat
  BY <1>8, <1>15
<1>17. MostSheets <= Cardinality(Slats) - 1
  <2>1. /\ MostSheets \in Int /\ Cardinality(loaded) \in Int /\ Cardinality(Held(loaded)) \in Int
        /\ Cardinality(Slats) \in Int /\ Cardinality(Slats) - 1 \in Int
    BY <1>12, <1>15, NumberFacts, Zenon
  <2>2. MostSheets <= Cardinality(Held(loaded))
    BY <1>8, <1>12, <1>14, <2>1, NumberFacts, Zenon
  <2>3. MostSheets <= Cardinality(Slats) - 1
    BY <1>11, <1>13, <2>1, <2>2, NumberFacts, Zenon
  <2>4. QED
    BY <2>3
<1>18. QED
  BY <1>15, <1>17, NumberFacts, Zenon

\* Fine plans, and the empty one.
LEMMA FinePlans ==
    ASSUME asked \in Pools
    PROVE  /\ Fine(NoPlan) /\ NoPlan.laid = {} /\ NoPlan.left = {}
           /\ OnBoards(NoPlan) /\ Cardinality(Bought(NoPlan.laid)) = 0
           /\ \A S \in SUBSET Slats : Fine(APlan({}, S)) /\ Sorted(APlan({}, S), S) /\ OnBoards(APlan({}, S))
           /\ \A S : APlan({}, S).laid = {} /\ APlan({}, S).left = S
           /\ Cardinality(Bought({})) = 0
           /\ \A m : Fine(m) => /\ IsFiniteSet(m.laid) /\ Cardinality(m.laid) \in Nat
                                /\ IsFiniteSet(m.left) /\ Cardinality(m.left) \in Nat
                                /\ Held(m.laid) \in SUBSET Slats
                                /\ Cardinality(Bought(m.laid)) \in Nat
<1>1. {} \in SUBSET Sheets /\ CuttablePlan({}) /\ Held({}) = {} /\ Bought({}) = {} /\ Cardinality({}) = 0
  BY NoSheets
<1>2. NoPlan.laid = {} /\ NoPlan.left = {} /\ \A S : APlan({}, S).laid = {} /\ APlan({}, S).left = S
  BY DEF NoPlan, APlan
<1>3. ASSUME NEW m, Fine(m)
      PROVE  /\ IsFiniteSet(m.laid) /\ Cardinality(m.laid) \in Nat
             /\ IsFiniteSet(m.left) /\ Cardinality(m.left) \in Nat
             /\ Held(m.laid) \in SUBSET Slats
             /\ Cardinality(Bought(m.laid)) \in Nat
  <2>1. m.laid \in SUBSET Sheets /\ CuttablePlan(m.laid) /\ m.left \in SUBSET Slats
    BY <1>3 DEF Fine
  <2>2. IsFiniteSet(m.laid) /\ Cardinality(m.laid) \in Nat /\ Held(m.laid) \in SUBSET Slats
    BY <2>1, CuttableFact
  <2>3. IsFiniteSet(m.left) /\ IsFiniteSet(Bought(m.laid))
    BY <2>1, <2>2, OffcutAssumption, FS_Subset DEF Bought
  <2>4. QED
    BY <2>2, <2>3, FS_CardinalityType
<1>4. QED
  BY <1>1, <1>2, <1>3 DEF Fine, Sorted, OnBoards

\* A fill order ended: another begins, or what it came up with is downgraded.
LEMMA CandidateKeeps ==
    ASSUME OffcutInv, Anchored, route \in {"offcuts_first", "probe"}, NEW made, Candidate(made), Fine(made),
           Held(made.laid) \union made.left = Slats,
           route # "probe" => Held(made.laid) \intersect made.left = {},
           NothingForABoard(made),
           route = "probe" /\ asked.order = "catalog_first" =>
               made.left = fallback.left /\ Cardinality(Bought(made.laid)) <= Cardinality(fallback.laid)
    PROVE  OffcutInv'
<1>1. /\ asked \in Pools /\ Fine(rival) /\ Fine(fallback) /\ Fine(champion)
      /\ filling \in Nat /\ buying \in Nat /\ tried \subseteq Nat
      /\ BoardsAt(route, phase, Now, rival, fallback, champion, buying) /\ tried = {}
  BY PoolInvNow
<1>2. /\ route = "offcuts_first" => asked.order # "catalog_first"
      /\ route = "probe" => asked.order # "offcuts_first"
      /\ route = "probe" /\ asked.order = "auto" => Sorted(champion, Slats) /\ NothingForABoard(champion)
      /\ route = "probe" => /\ Sorted(fallback, Slats) /\ OnBoards(fallback) /\ NothingForABoard(fallback)
                            /\ buying <= Cardinality(fallback.laid)
  BY <1>1 DEF BoardsAt
<1>3. asked.order \in {"offcuts_first", "catalog_first", "auto"}
  BY <1>1, PoolFact
<1>4. CASE route = "offcuts_first" /\ asked.order = "auto"
  <2>1. /\ asked' = asked /\ route' = "whole" /\ phase' = "catalog" /\ loaded' = {} /\ spill' = Slats
        /\ filling' = 2 /\ rival' = NoPlan /\ champion' = made /\ buying' = buying
        /\ fallback' = fallback /\ tried' = tried
    BY <1>4 DEF Candidate, Begin
  <2>2. Sorted(made, Slats)
    BY <1>4 DEF Sorted
  <2> DEFINE now == APlan({}, Slats)
  <2>3. Fine(now) /\ Sorted(now, Slats) /\ OnBoards(now) /\ Fine(NoPlan) /\ OnBoards(NoPlan)
    BY <1>1, FinePlans
  <2> HIDE DEF now
  <2>4. BoardsAt("whole", "catalog", now, NoPlan, fallback, made, buying)
    BY <1>4, <2>2, <2>3 DEF BoardsAt
  <2>5. Routed("whole", "catalog")
    BY DEF Routed
  <2>6. QED
    BY <1>1, <2>1, <2>3, <2>4, <2>5, PoolInvAfter DEF now
<1>5. CASE ~(route = "offcuts_first" /\ asked.order = "auto")
  <2> DEFINE better == Precedes(catalog_waste_score(made), catalog_waste_score(champion))
             chosen == IF asked.order = "auto" /\ ~better THEN champion ELSE made
             now == APlan(chosen.laid, chosen.left)
  <2>1. /\ asked' = asked /\ route' = route /\ phase' = "downgrade"
        /\ loaded' = chosen.laid /\ spill' = chosen.left
        /\ filling' = filling /\ rival' = rival /\ champion' = champion /\ buying' = buying
        /\ fallback' = fallback /\ tried' = tried
    BY <1>5 DEF Candidate
  <2>2. now.laid = chosen.laid /\ now.left = chosen.left
    BY DEF APlan
  <2>3. asked.order = "auto" => route = "probe"
    BY <1>5
  <2>4. ASSUME asked.order = "auto" PROVE Scrap(Bought(chosen.laid)) <= Scrap(Bought(champion.laid))
    <3> DEFINE a == catalog_waste_score(made)
               b == catalog_waste_score(champion)
    <3>1. IsFiniteSet(made.laid) /\ IsFiniteSet(champion.laid)
      BY <1>1, FinePlans
    <3>2. /\ Bought(made.laid) \in SUBSET Sheets /\ IsFiniteSet(Bought(made.laid))
          /\ Bought(champion.laid) \in SUBSET Sheets /\ IsFiniteSet(Bought(champion.laid))
      BY <1>1, <3>1, FS_Subset DEF Fine, Bought
    <3>3. Scrap(Bought(made.laid)) \in Int /\ Scrap(Bought(champion.laid)) \in Int
      BY <1>1, <3>2, ScrapIsTotal
    <3>4. a[1] = Scrap(Bought(made.laid)) /\ b[1] = Scrap(Bought(champion.laid)) /\ DOMAIN a = 1..3
      BY DEF catalog_waste_score
    <3> HIDE DEF a, b
    <3>5. better => a[1] <= b[1]
      <4>1. 1 \in DOMAIN a /\ DOMAIN a \subseteq Nat \ {0} /\ a[1] \in Int /\ b[1] \in Int
        BY <3>3, <3>4
      <4>2. IF Precedes(a, b) THEN a[1] <= b[1] ELSE b[1] <= a[1]
        BY <4>1, PrecedesFact
      <4>3. QED
        BY <4>2 DEF a, b
    <3>6. CASE better
      BY <3>4, <3>5, <3>6
    <3>7. CASE ~better
      BY <2>4, <3>3, <3>7
    <3>8. QED
      BY <3>6, <3>7
  <2> HIDE DEF better
  <2>5. chosen = made \/ (chosen = champion /\ asked.order = "auto")
    OBVIOUS
  <2>6. /\ Fine(chosen) /\ NothingForABoard(chosen) /\ Held(chosen.laid) \union chosen.left = Slats
        /\ route # "probe" => Held(chosen.laid) \intersect chosen.left = {}
        /\ asked.order = "catalog_first" =>
              chosen.left = fallback.left /\ Cardinality(Bought(chosen.laid)) <= Cardinality(fallback.laid)
    BY <1>1, <1>2, <2>3, <2>5 DEF Sorted
  <2> HIDE DEF chosen
  <2>7. Fine(now) /\ NothingForABoard(now)
    BY <2>2, <2>6 DEF Fine, NothingForABoard
  <2> HIDE DEF now
  <2>8. BoardsAt(route, "downgrade", now, rival, fallback, champion, buying)
    BY <1>2, <2>2, <2>3, <2>4, <2>6, <2>7 DEF BoardsAt
  <2>9. Routed(route, "downgrade")
    BY DEF Routed
  <2>10. QED
    BY <1>1, <2>1, <2>7, <2>8, <2>9, PoolInvAfter DEF now
<1>6. QED
  BY <1>4, <1>5

\* The catalogue part of a plan is there.
LEMMA FilledKeeps ==
    ASSUME OffcutInv, Anchored, phase \in {"catalog", "full only"}, NEW made, Filled(made), Fine(made),
           Sorted(made, Slats), route # "probe" => NothingForABoard(made),
           route # "offcuts_first" => OnBoards(made),
           route = "probe" => Cardinality(Bought(made.laid)) <= buying
    PROVE  OffcutInv'
<1>1. /\ asked \in Pools /\ Fine(rival) /\ Fine(fallback) /\ Fine(champion) /\ Routed(route, phase)
      /\ filling \in Nat /\ buying \in Nat /\ tried \subseteq Nat
      /\ BoardsAt(route, phase, Now, rival, fallback, champion, buying) /\ tried = {}
  BY PoolInvNow
<1>2. /\ Fine(NoPlan) /\ OnBoards(NoPlan) /\ Cardinality(Bought(NoPlan.laid)) = 0
      /\ Cardinality(made.laid) \in Nat
  BY <1>1, FinePlans
<1>3. CASE route = "offcuts_first"
  <2>1. Candidate(made)
    BY <1>3 DEF Filled
  <2>2. QED
    BY <1>3, <2>1, CandidateKeeps DEF Sorted
<1>4. CASE route = "whole"
  <2>1. /\ asked' = asked /\ route' = "probe" /\ phase' = "catalog" /\ loaded' = {} /\ spill' = Slats
        /\ filling' = 2 /\ rival' = NoPlan /\ champion' = champion /\ buying' = 0
        /\ fallback' = made /\ tried' = tried
    BY <1>4 DEF Filled, Begin
  <2> DEFINE now == APlan({}, Slats)
  <2>2. Fine(now) /\ Sorted(now, Slats) /\ OnBoards(now) /\ Cardinality(Bought(now.laid)) = 0
    BY <1>1, FinePlans
  <2> HIDE DEF now
  <2>3. BoardsAt("probe", "catalog", now, NoPlan, made, champion, 0)
    <3>1. /\ asked.order # "offcuts_first"
          /\ asked.order = "auto" => Sorted(champion, Slats) /\ NothingForABoard(champion)
      BY <1>1, <1>4 DEF BoardsAt
    <3>2. NothingForABoard(made) /\ OnBoards(made)
      BY <1>4
    <3>3. 0 <= Cardinality(made.laid) /\ Cardinality(Bought(now.laid)) <= 0 /\ Cardinality(Bought(NoPlan.laid)) <= 0
      <4>1. 0 \in Nat /\ \A n \in Nat : 0 <= n
        BY NumberFacts
      <4>2. QED
        BY <1>2, <2>2, <4>1, Zenon
    <3>4. QED
      BY <1>2, <2>2, <3>1, <3>2, <3>3 DEF BoardsAt
  <2>4. Routed("probe", "catalog")
    BY DEF Routed
  <2>5. QED
    BY <1>1, <1>2, <2>1, <2>2, <2>3, <2>4, PoolInvAfter DEF now
<1>5. CASE route = "probe"
  <2>1. /\ asked' = asked /\ route' = "probe" /\ phase' = "offcuts"
        /\ loaded' = made.laid /\ spill' = made.left
        /\ filling' = filling /\ rival' = NoPlan /\ champion' = champion /\ buying' = buying
        /\ fallback' = fallback /\ tried' = tried
    BY <1>5 DEF Filled
  <2> DEFINE now == APlan(made.laid, made.left)
  <2>2. now.laid = made.laid /\ now.left = made.left
    BY DEF APlan
  <2>3. Fine(now) /\ Sorted(now, Slats)
    BY <2>2 DEF Fine, Sorted
  <2> HIDE DEF now
  <2>4. BoardsAt("probe", "offcuts", now, NoPlan, fallback, champion, buying)
    <3>1. /\ asked.order # "offcuts_first"
          /\ asked.order = "auto" => Sorted(champion, Slats) /\ NothingForABoard(champion)
          /\ Sorted(fallback, Slats) /\ OnBoards(fallback) /\ NothingForABoard(fallback)
          /\ buying <= Cardinality(fallback.laid)
      BY <1>1, <1>5 DEF BoardsAt
    <3>2. Cardinality(Bought(now.laid)) <= buying /\ Cardinality(Bought(NoPlan.laid)) <= buying
      <4>1. \A n \in Nat : 0 <= n
        BY NumberFacts
      <4>2. QED
        BY <1>1, <1>2, <1>5, <2>2, <4>1, Zenon
    <3>3. QED
      BY <3>1, <3>2 DEF BoardsAt
  <2>5. Routed("probe", "offcuts")
    BY DEF Routed
  <2>6. QED
    BY <1>1, <1>2, <2>1, <2>3, <2>4, <2>5, PoolInvAfter DEF now
<1>6. QED
  BY <1>1, <1>3, <1>4, <1>5 DEF Routed

\* Another sheet of a search.
LEMMA LaySheetKeeps ==
    ASSUME OffcutInv, NEW i \in Open, LaySheet(i)
    PROVE  OffcutInv'
<1>1. /\ asked \in Pools /\ Fine(Now) /\ Fine(rival) /\ Fine(fallback) /\ Fine(champion) /\ Routed(route, phase)
      /\ filling \in Nat /\ buying \in Nat /\ tried \subseteq Nat
      /\ phase \in {"offcuts", "catalog", "full only", "run"} => Sorted(Now, Slats)
      /\ phase = "rerun" => Sorted(Now, Held(rival.laid))
      /\ Anchored => BoardsAt(route, phase, Now, rival, fallback, champion, buying) /\ tried = {}
      /\ ~Anchored => OffcutsAt(route, phase, Now, rival, champion, tried)
      /\ Now.laid = loaded /\ Now.left = spill
  BY PoolInvNow
<1>2. phase \in {"catalog", "full only", "run", "rerun"}
  BY DEF Open
<1>3. PICK lay \in Lays(spill, i) :
          /\ loaded' = loaded \union {OnSheet(i, lay)} /\ spill' = spill \ DOMAIN lay
          /\ asked' = asked /\ route' = route /\ phase' = phase /\ filling' = filling /\ buying' = buying
          /\ rival' = rival /\ fallback' = fallback /\ champion' = champion /\ tried' = tried
  BY DEF LaySheet
<1>4. Cardinality(Opened) < Cap /\ Available(i)
  BY DEF LaySheet
<1>5. spill \in SUBSET Slats /\ loaded \in SUBSET Sheets /\ CuttablePlan(loaded)
  BY <1>1 DEF Fine
<1>6. /\ i \in {Half} \union DOMAIN asked.bins
      /\ Anchored => i \in Catalog
  BY <1>1, PoolFact DEF Open, Routed, Catalog
<1> DEFINE pieces == IF phase = "rerun" THEN Held(rival.laid) ELSE Slats
           more == loaded \union {OnSheet(i, lay)}
           now == APlan(more, spill \ DOMAIN lay)
<1>7. Held(loaded) \union spill = pieces /\ Held(loaded) \intersect spill = {}
  BY <1>1, <1>2 DEF Sorted
<1>8. spill \intersect Held(loaded) = {}
  BY <1>7
<1>9. InStock(loaded, i)
  <2> DEFINE c == Bin(i).count
  <2>1. c \in Nat
    BY <1>1, <1>6, PoolFact
  <2>2. c = 0 \/ Uses(loaded, i) < c
    BY <1>4 DEF Available
  <2> HIDE DEF c
  <2>3. c > 0 => Uses(loaded, i) < c
    BY <2>1, <2>2
  <2>4. QED
    BY <2>3 DEF InStock, c
<1>10. /\ more \in SUBSET Sheets /\ CuttablePlan(more) /\ Held(more) = Held(loaded) \union DOMAIN lay
       /\ IF i \in Catalog THEN /\ Bought(more) = Bought(loaded) \union {OnSheet(i, lay)}
                                /\ Cardinality(Bought(more)) = Cardinality(Bought(loaded)) + 1
          ELSE Bought(more) = Bought(loaded)
  <2>1. asked \in Pools /\ lay \in Lays(spill, i)
    BY <1>1, <1>3
  <2>2. OneSheetAdded(loaded, i, lay)
    BY <1>5, <1>6, <1>8, <1>9, <2>1, OneSheetMore
  <2>3. QED
    BY <2>2 DEF OneSheetAdded
<1>11. DOMAIN lay \in SUBSET spill
  BY <1>3, <1>5, LaysFact
<1>12. now.laid = more /\ now.left = spill \ DOMAIN lay
  BY DEF APlan
<1> HIDE DEF more
<1>13. Fine(now)
  BY <1>5, <1>10, <1>12 DEF Fine
<1>14. Sorted(now, pieces)
  BY <1>7, <1>10, <1>11, <1>12 DEF Sorted
<1>15. ASSUME Anchored PROVE BoardsAt(route, phase, now, rival, fallback, champion, buying)
  <2>1. BoardsAt(route, phase, Now, rival, fallback, champion, buying)
    BY <1>1, <1>15
  <2>2. phase \in {"catalog", "full only"}
    BY <1>1, <1>2, <1>15 DEF Routed
  <2>3. OnBoards(Now) => OnBoards(now)
    BY <1>1, <1>6, <1>10, <1>12, <1>15 DEF OnBoards, more
  <2>4. ASSUME route = "probe" PROVE Cardinality(Bought(now.laid)) <= buying
    <3>1. Cardinality(Bought(loaded)) < buying
      BY <1>4, <1>15, <2>4 DEF Opened, Cap
    <3>2. Cardinality(Bought(loaded)) \in Nat
      BY <1>1, FinePlans
    <3>3. Cardinality(Bought(now.laid)) = Cardinality(Bought(loaded)) + 1
      BY <1>6, <1>10, <1>12, <1>15
    <3> DEFINE n == Cardinality(Bought(loaded))
               m == Cardinality(Bought(now.laid))
    <3>4. n < buying /\ n \in Nat /\ m = n + 1 /\ buying \in Nat
      BY <1>1, <3>1, <3>2, <3>3
    <3> HIDE DEF n, m
    <3>5. m <= buying
      BY <3>4
    <3>6. QED
      BY <3>5 DEF m
  <2> HIDE DEF now
  <2>5. QED
    BY <2>1, <2>2, <2>3, <2>4, Zenon DEF BoardsAt
<1>16. ASSUME ~Anchored PROVE OffcutsAt(route, phase, now, rival, champion, tried)
  <2>1. phase # "done"
    BY <1>2
  <2>2. QED
    BY <1>1, <1>16, <2>1 DEF OffcutsAt
<1>17. /\ phase \in {"offcuts", "catalog", "full only", "run"} => Sorted(now, Slats)
       /\ phase = "rerun" => Sorted(now, Held(rival.laid))
  BY <1>14
<1>18. APlan(loaded', spill') = now
  BY <1>3 DEF more
<1> HIDE DEF now
<1>19. Fine(APlan(loaded', spill'))
  BY <1>13, <1>18
<1>20. QED
  BY <1>1, <1>3, <1>15, <1>16, <1>17, <1>18, <1>19, PoolInvAfter

\* Another unit of an offcut is filled.
LEMMA FillOffcutKeeps ==
    ASSUME OffcutInv, FillOffcut
    PROVE  OffcutInv'
<1>1. /\ asked \in Pools /\ Fine(Now) /\ Fine(rival) /\ Fine(fallback) /\ Fine(champion) /\ Routed(route, phase)
      /\ filling \in Nat /\ buying \in Nat /\ tried \subseteq Nat
      /\ phase \in {"offcuts", "catalog", "full only", "run"} => Sorted(Now, Slats)
      /\ Anchored => BoardsAt(route, phase, Now, rival, fallback, champion, buying) /\ tried = {}
      /\ Now.laid = loaded /\ Now.left = spill
  BY PoolInvNow
<1>2. /\ phase = "offcuts" /\ filling \in Attached /\ Uses(loaded, filling) < Bin(filling).count
  BY DEF FillOffcut
<1>3. PICK lay \in Lays(spill, filling) :
          /\ loaded' = loaded \union {OnSheet(filling, lay)} /\ spill' = spill \ DOMAIN lay
          /\ asked' = asked /\ route' = route /\ phase' = phase /\ filling' = filling /\ buying' = buying
          /\ rival' = rival /\ fallback' = fallback /\ champion' = champion /\ tried' = tried
  BY DEF FillOffcut
<1>4. Anchored
  BY <1>1, <1>2 DEF Routed
<1>5. spill \in SUBSET Slats /\ loaded \in SUBSET Sheets /\ CuttablePlan(loaded)
  BY <1>1 DEF Fine
<1>6. filling \in {Half} \union DOMAIN asked.bins /\ filling \notin Catalog
  BY <1>1, <1>2, PoolFact DEF Attached, Catalog, Half
<1> DEFINE more == loaded \union {OnSheet(filling, lay)}
           now == APlan(more, spill \ DOMAIN lay)
<1>7. Held(loaded) \union spill = Slats /\ Held(loaded) \intersect spill = {} /\ spill \intersect Held(loaded) = {}
  BY <1>1, <1>2 DEF Sorted
<1>8. InStock(loaded, filling)
  BY <1>2 DEF InStock
<1>9. /\ more \in SUBSET Sheets /\ CuttablePlan(more) /\ Held(more) = Held(loaded) \union DOMAIN lay
      /\ Bought(more) = Bought(loaded)
  <2>1. asked \in Pools /\ lay \in Lays(spill, filling)
    BY <1>1, <1>3
  <2>2. spill \in SUBSET Slats /\ spill \intersect Held(loaded) = {}
    BY <1>5, <1>7
  <2>3. loaded \in SUBSET Sheets /\ CuttablePlan(loaded) /\ InStock(loaded, filling)
    BY <1>5, <1>8
  <2> HIDE DEF now
  <2>4. OneSheetAdded(loaded, filling, lay)
    BY <1>6, <2>1, <2>2, <2>3, OneSheetMore
  <2>5. QED
    BY <1>6, <2>4 DEF OneSheetAdded
<1>10. DOMAIN lay \in SUBSET spill
  BY <1>3, <1>5, LaysFact
<1>11. now.laid = more /\ now.left = spill \ DOMAIN lay
  BY DEF APlan
<1> HIDE DEF more
<1>12. Fine(now) /\ Sorted(now, Slats)
  BY <1>5, <1>7, <1>9, <1>10, <1>11 DEF Fine, Sorted
<1> HIDE DEF now
<1>13. BoardsAt(route, phase, now, rival, fallback, champion, buying)
  <2>1. BoardsAt(route, phase, Now, rival, fallback, champion, buying) /\ phase = "offcuts"
    BY <1>1, <1>2, <1>4
  <2>2. Bought(now.laid) = Bought(Now.laid)
    BY <1>1, <1>9, <1>11
  <2>3. QED
    BY <2>1, <2>2 DEF BoardsAt
<1>14. APlan(loaded', spill') = now
  BY <1>3 DEF more, now
<1>15. Fine(APlan(loaded', spill')) /\ Sorted(APlan(loaded', spill'), Slats)
  BY <1>12, <1>14
<1>16. QED
  BY <1>1, <1>2, <1>3, <1>4, <1>13, <1>14, <1>15, PoolInvAfter

\* The next offcut.
LEMMA NextOffcutKeeps ==
    ASSUME OffcutInv, NextOffcut
    PROVE  OffcutInv'
<1>1. /\ asked \in Pools /\ Fine(Now) /\ Fine(rival) /\ Fine(fallback) /\ Fine(champion) /\ Routed(route, phase)
      /\ filling \in Nat /\ buying \in Nat /\ tried \subseteq Nat
      /\ phase \in {"offcuts", "catalog", "full only", "run"} => Sorted(Now, Slats)
      /\ Anchored => BoardsAt(route, phase, Now, rival, fallback, champion, buying) /\ tried = {}
      /\ Now.laid = loaded /\ Now.left = spill
  BY PoolInvNow
<1>2. /\ phase = "offcuts" /\ filling' = filling + 1
      /\ asked' = asked /\ route' = route /\ phase' = phase /\ loaded' = loaded /\ spill' = spill
      /\ buying' = buying /\ rival' = rival /\ fallback' = fallback /\ champion' = champion /\ tried' = tried
  BY DEF NextOffcut
<1>3. filling' \in Nat
  BY <1>1, <1>2
<1>4. Anchored
  BY <1>1, <1>2 DEF Routed
<1>5. APlan(loaded', spill') = Now
  BY <1>2 DEF Now
<1>6. Fine(APlan(loaded', spill')) /\ Sorted(APlan(loaded', spill'), Slats)
  BY <1>1, <1>2, <1>5
<1>7. QED
  BY <1>1, <1>2, <1>3, <1>4, <1>5, <1>6, PoolInvAfter

\* The first search ended.
LEMMA FirstSearchKeeps ==
    ASSUME OffcutInv, FirstSearchDone
    PROVE  OffcutInv'
<1>1. /\ asked \in Pools /\ Fine(Now) /\ Fine(rival) /\ Fine(fallback) /\ Fine(champion) /\ Routed(route, phase)
      /\ filling \in Nat /\ buying \in Nat /\ tried \subseteq Nat
      /\ phase \in {"offcuts", "catalog", "full only", "run"} => Sorted(Now, Slats)
      /\ Anchored => BoardsAt(route, phase, Now, rival, fallback, champion, buying) /\ tried = {}
      /\ Now.laid = loaded /\ Now.left = spill
  BY PoolInvNow
<1>2. phase = "catalog" /\ Searched
  BY DEF FirstSearchDone
<1>3. Anchored
  BY <1>1, <1>2 DEF Routed
<1>4. /\ BoardsAt(route, phase, Now, rival, fallback, champion, buying) /\ tried = {}
      /\ Sorted(Now, Slats)
  BY <1>1, <1>2, <1>3
<1>5. route # "probe" => NothingForABoard(Now)
  BY <1>2, <1>3, SearchedFact
<1>6. route # "offcuts_first" => OnBoards(Now)
  BY <1>1, <1>2, <1>3, <1>4 DEF BoardsAt, Routed
<1>7. route = "probe" => Cardinality(Bought(Now.laid)) <= buying
  <2>1. Cardinality(Bought(Now.laid)) \in Nat
    BY <1>1, FinePlans
  <2>2. QED
    BY <1>2, <1>4, Zenon DEF BoardsAt
<1>8. CASE Uses(loaded, Half) = 0
  <2>1. Filled(Now)
    BY <1>8 DEF FirstSearchDone
  <2>2. QED
    BY <1>1, <1>2, <1>3, <1>4, <1>5, <1>6, <1>7, <2>1, FilledKeeps
<1>9. CASE Uses(loaded, Half) # 0
  <2> DEFINE offcuts == loaded \ Bought(loaded)
             now == APlan(offcuts, Slats \ Held(offcuts))
  <2>1. /\ rival' = Now /\ phase' = "full only" /\ loaded' = offcuts /\ spill' = Slats \ Held(offcuts)
        /\ asked' = asked /\ route' = route /\ filling' = filling /\ buying' = buying
        /\ fallback' = fallback /\ champion' = champion /\ tried' = tried
    BY <1>9 DEF FirstSearchDone
  <2>2. loaded \in SUBSET Sheets /\ CuttablePlan(loaded) /\ offcuts \in SUBSET loaded
    BY <1>1 DEF Fine
  <2>3. Bought(offcuts) = {}
    BY DEF Bought
  <2>4. OnBoards(Now) => offcuts = {}
    BY <1>1 DEF OnBoards
  <2>5. now.laid = offcuts /\ now.left = Slats \ Held(offcuts)
    BY DEF APlan
  <2> HIDE DEF offcuts
  <2>6. offcuts \in SUBSET Sheets /\ CuttablePlan(offcuts)
    BY <1>1, <2>2, CuttablePart
  <2>7. Held(offcuts) \in SUBSET Slats
    BY <1>1, <2>6, CuttableFact
  <2>8. Fine(now) /\ Sorted(now, Slats)
    BY <2>5, <2>6, <2>7 DEF Fine, Sorted
  <2>9. Cardinality(Bought(now.laid)) = 0 /\ (OnBoards(Now) => OnBoards(now))
    BY <1>1, <2>3, <2>4, <2>5, FinePlans DEF OnBoards
  <2>10. APlan(loaded', spill') = now
    BY <2>1
  <2> HIDE DEF now
  <2>11. BoardsAt(route, "full only", now, Now, fallback, champion, buying)
    <3>1. Cardinality(Bought(now.laid)) <= buying
      <4>1. \A n \in Nat : 0 <= n
        BY NumberFacts
      <4>2. QED
        BY <1>1, <2>9, <4>1, Zenon
    <3>2. QED
      BY <1>2, <1>4, <1>5, <1>6, <1>7, <2>9, <3>1, Zenon DEF BoardsAt
  <2>12. Routed(route, "full only")
    BY <1>1, <1>2 DEF Routed
  <2>13. Fine(APlan(loaded', spill')) /\ Sorted(APlan(loaded', spill'), Slats)
    BY <2>8, <2>10
  <2>14. QED
    BY <1>1, <1>3, <1>4, <2>1, <2>10, <2>11, <2>12, <2>13, PoolInvAfter
<1>10. QED
  BY <1>8, <1>9

\* The plan without halves, downgraded, against the one with them.
LEMMA SecondSearchKeeps ==
    ASSUME OffcutInv, NEW D, SecondSearchDone(D)
    PROVE  OffcutInv'
<1>1. /\ asked \in Pools /\ Fine(Now) /\ Fine(rival) /\ Routed(route, phase) /\ buying \in Nat
      /\ phase \in {"offcuts", "catalog", "full only", "run"} => Sorted(Now, Slats)
      /\ Anchored => BoardsAt(route, phase, Now, rival, fallback, champion, buying) /\ tried = {}
      /\ Now.laid = loaded /\ Now.left = spill
  BY PoolInvNow
<1>2. phase = "full only" /\ Searched /\ D \in SUBSET Downgradable(loaded)
  BY DEF SecondSearchDone
<1>3. Anchored
  BY <1>1, <1>2 DEF Routed
<1>4. BoardsAt(route, phase, Now, rival, fallback, champion, buying) /\ Sorted(Now, Slats)
  BY <1>1, <1>2, <1>3
<1>5. /\ Sorted(rival, Slats) /\ (route # "probe" => NothingForABoard(rival))
      /\ route # "offcuts_first" => OnBoards(rival) /\ OnBoards(Now)
      /\ route = "probe" => Cardinality(Bought(Now.laid)) <= buying /\ Cardinality(Bought(rival.laid)) <= buying
  <2>1. route # "offcuts_first" => route \in {"whole", "probe"}
    BY <1>1, <1>3 DEF Routed
  <2>2. "full only" \notin {"downgrade", "done"}
    OBVIOUS
  <2>3. QED
    BY <1>2, <1>4, <2>1, <2>2, Zenon DEF BoardsAt
<1>6. route # "probe" => NothingForABoard(Now)
  BY <1>2, <1>3, SearchedFact
<1> DEFINE full == APlan(OnHalf(D, loaded), spill)
           made == IF Precedes(plan_bill(rival), plan_bill(full)) THEN rival ELSE full
<1>7. full.laid = OnHalf(D, loaded) /\ full.left = spill
  BY DEF APlan
<1>8. loaded \in SUBSET Sheets /\ CuttablePlan(loaded)
  BY <1>1 DEF Fine
<1>9. /\ full.laid \in SUBSET Sheets /\ CuttablePlan(full.laid) /\ Held(full.laid) = Held(loaded)
      /\ Cardinality(Bought(full.laid)) <= Cardinality(Bought(loaded))
      /\ Bought(loaded) = loaded => Bought(full.laid) = full.laid
  BY <1>1, <1>2, <1>3, <1>7, <1>8, OnHalfFact
<1>10. Filled(made)
  BY DEF SecondSearchDone
<1>11. made = rival \/ made = full
  OBVIOUS
<1> HIDE DEF full
<1>12. Fine(full) /\ Sorted(full, Slats)
  BY <1>1, <1>4, <1>7, <1>9 DEF Fine, Sorted
<1>13. /\ route # "probe" => NothingForABoard(full)
       /\ route # "offcuts_first" => OnBoards(full)
  BY <1>1, <1>5, <1>6, <1>7, <1>9 DEF NothingForABoard, OnBoards
<1>14. ASSUME route = "probe" PROVE Cardinality(Bought(full.laid)) <= buying
  <2> DEFINE n == Cardinality(Bought(loaded))
             m == Cardinality(Bought(full.laid))
  <2>1. n \in Nat /\ m \in Nat
    BY <1>1, <1>12, FinePlans
  <2>2. m <= n /\ n <= buying /\ buying \in Nat
    BY <1>1, <1>5, <1>9, <1>14
  <2> HIDE DEF n, m
  <2>3. m <= buying
    BY <2>1, <2>2
  <2>4. QED
    BY <2>3 DEF m
<1> HIDE DEF made
<1>15. /\ Fine(made) /\ Sorted(made, Slats) /\ (route # "probe" => NothingForABoard(made))
       /\ route # "offcuts_first" => OnBoards(made)
       /\ route = "probe" => Cardinality(Bought(made.laid)) <= buying
  BY <1>1, <1>5, <1>11, <1>12, <1>13, <1>14, Zenon
<1>16. QED
  BY <1>2, <1>3, <1>10, <1>15, FilledKeeps

\* The offcuts are full, or nothing is left for them.
LEMMA EndOffcutsKeeps ==
    ASSUME OffcutInv, EndOffcuts
    PROVE  OffcutInv'
<1>1. /\ asked \in Pools /\ Fine(Now) /\ Fine(rival) /\ Fine(fallback) /\ Fine(champion) /\ Routed(route, phase)
      /\ filling \in Nat /\ buying \in Nat /\ tried \subseteq Nat
      /\ phase \in {"offcuts", "catalog", "full only", "run"} => Sorted(Now, Slats)
      /\ Anchored => BoardsAt(route, phase, Now, rival, fallback, champion, buying) /\ tried = {}
      /\ Now.laid = loaded /\ Now.left = spill
  BY PoolInvNow
<1>2. phase = "offcuts"
  BY DEF EndOffcuts, OffcutsDone
<1>3. Anchored /\ route \in {"offcuts_first", "probe"}
  BY <1>1, <1>2 DEF Routed
<1>4. BoardsAt(route, phase, Now, rival, fallback, champion, buying) /\ tried = {} /\ Sorted(Now, Slats)
  BY <1>1, <1>2, <1>3
<1>5. CASE route = "offcuts_first"
  <2>1. /\ phase' = "catalog"
        /\ asked' = asked /\ route' = route /\ loaded' = loaded /\ spill' = spill /\ filling' = filling
        /\ buying' = buying /\ rival' = rival /\ fallback' = fallback /\ champion' = champion /\ tried' = tried
    BY <1>5 DEF EndOffcuts
  <2>2. APlan(loaded', spill') = Now
    BY <2>1 DEF Now
  <2>3. BoardsAt(route, "catalog", Now, rival, fallback, champion, buying)
    BY <1>4, <1>5 DEF BoardsAt
  <2>4. Routed(route, "catalog")
    BY <1>3, <1>5 DEF Routed
  <2>5. Fine(APlan(loaded', spill')) /\ Sorted(APlan(loaded', spill'), Slats)
    BY <1>1, <1>4, <2>2
  <2>6. QED
    BY <1>1, <1>3, <1>4, <2>1, <2>2, <2>3, <2>4, <2>5, PoolInvAfter
<1>6. CASE route = "probe"
  <2>1. /\ Sorted(fallback, Slats) /\ OnBoards(fallback) /\ NothingForABoard(fallback)
        /\ buying <= Cardinality(fallback.laid) /\ Cardinality(Bought(loaded)) <= buying
        /\ asked.order # "offcuts_first"
        /\ asked.order = "auto" => Sorted(champion, Slats) /\ NothingForABoard(champion)
    BY <1>1, <1>2, <1>4, <1>6 DEF BoardsAt
  <2>2. Cardinality(Bought(loaded)) \in Nat /\ Cardinality(fallback.laid) \in Nat
    BY <1>1, FinePlans
  <2>3. CASE spill = {}
    <3> DEFINE made == APlan(loaded, fallback.left)
    <3>1. Candidate(made)
      BY <1>6, <2>3 DEF EndOffcuts
    <3>2. made.laid = loaded /\ made.left = fallback.left
      BY DEF APlan
    <3> HIDE DEF made
    <3>3. Fine(made)
      BY <1>1, <3>2 DEF Fine
    <3>4. Held(made.laid) \union made.left = Slats
      <4>1. Held(loaded) = Slats
        BY <1>1, <1>4, <2>3 DEF Sorted
      <4>2. fallback.left \subseteq Slats
        BY <1>1 DEF Fine
      <4>3. QED
        BY <3>2, <4>1, <4>2
    <3>5. NothingForABoard(made)
      BY <2>1, <3>2 DEF NothingForABoard
    <3>6. Cardinality(Bought(made.laid)) <= Cardinality(fallback.laid)
      <4> DEFINE n == Cardinality(Bought(loaded))
                 m == Cardinality(fallback.laid)
      <4>1. n \in Nat /\ m \in Nat /\ n <= buying /\ buying <= m /\ buying \in Nat
        BY <1>1, <2>1, <2>2
      <4>2. Cardinality(Bought(made.laid)) = n
        BY <3>2
      <4> HIDE DEF n, m
      <4>3. n <= m
        BY <4>1
      <4>4. QED
        BY <4>2, <4>3 DEF m
    <3>7. QED
      BY <1>3, <1>6, <3>1, <3>2, <3>3, <3>4, <3>5, <3>6, CandidateKeeps
  <2>4. CASE spill # {} /\ buying < Cardinality(fallback.laid)
    <3>1. /\ asked' = asked /\ route' = "probe" /\ phase' = "catalog" /\ loaded' = {} /\ spill' = Slats
          /\ filling' = 2 /\ rival' = NoPlan /\ champion' = champion /\ buying' = buying + 1
          /\ fallback' = fallback /\ tried' = tried
      BY <1>6, <2>4 DEF EndOffcuts, Begin
    <3> DEFINE now == APlan({}, Slats)
    <3>2. /\ Fine(now) /\ Sorted(now, Slats) /\ OnBoards(now) /\ Cardinality(Bought(now.laid)) = 0
          /\ Fine(NoPlan) /\ OnBoards(NoPlan) /\ Cardinality(Bought(NoPlan.laid)) = 0
      BY <1>1, FinePlans
    <3> HIDE DEF now
    <3>3. buying + 1 \in Nat /\ buying + 1 <= Cardinality(fallback.laid) /\ 0 <= buying + 1
      <4> DEFINE m == Cardinality(fallback.laid)
      <4>1. m \in Nat /\ buying \in Nat /\ buying < m
        BY <1>1, <2>2, <2>4
      <4> HIDE DEF m
      <4>2. buying + 1 <= m /\ buying + 1 \in Nat /\ 0 <= buying + 1
        BY <4>1
      <4>3. QED
        BY <4>2 DEF m
    <3> DEFINE b == buying + 1
    <3>4. b \in Nat /\ b <= Cardinality(fallback.laid) /\ 0 <= b /\ buying' = b
      BY <3>1, <3>3
    <3> HIDE DEF b
    <3>5. Cardinality(Bought(now.laid)) <= b /\ Cardinality(Bought(NoPlan.laid)) <= b
      BY <3>2, <3>4
    <3>6. BoardsAt("probe", "catalog", now, NoPlan, fallback, champion, b)
      BY <2>1, <3>2, <3>4, <3>5 DEF BoardsAt
    <3>7. Routed("probe", "catalog")
      BY <1>3 DEF Routed
    <3>8. QED
      BY <1>1, <1>3, <1>4, <3>1, <3>2, <3>4, <3>6, <3>7, PoolInvAfter DEF now
  <2>5. CASE spill # {} /\ ~(buying < Cardinality(fallback.laid))
    <3>1. Candidate(fallback)
      BY <1>6, <2>5 DEF EndOffcuts
    <3>2. Cardinality(Bought(fallback.laid)) <= Cardinality(fallback.laid)
      BY <2>1, <2>2 DEF OnBoards
    <3>3. Held(fallback.laid) \union fallback.left = Slats
      BY <2>1 DEF Sorted
    <3>4. QED
      BY <1>1, <1>3, <1>6, <2>1, <3>1, <3>2, <3>3, CandidateKeeps
  <2>6. QED
    BY <2>3, <2>4, <2>5
<1>7. QED
  BY <1>3, <1>5, <1>6

\* The sheets of the plan that go on halves.
LEMMA DowngradeKeeps ==
    ASSUME OffcutInv, NEW D, Downgrade(D)
    PROVE  OffcutInv'
<1>1. /\ asked \in Pools /\ Fine(Now) /\ Fine(rival) /\ Fine(fallback) /\ Fine(champion) /\ Routed(route, phase)
      /\ filling \in Nat /\ buying \in Nat /\ tried \subseteq Nat
      /\ Anchored => BoardsAt(route, phase, Now, rival, fallback, champion, buying) /\ tried = {}
      /\ Now.laid = loaded /\ Now.left = spill
  BY PoolInvNow
<1>2. /\ phase = "downgrade" /\ D \in SUBSET Downgradable(loaded)
      /\ loaded' = OnHalf(D, loaded) /\ phase' = "done"
      /\ asked' = asked /\ route' = route /\ spill' = spill /\ filling' = filling
      /\ buying' = buying /\ rival' = rival /\ fallback' = fallback /\ champion' = champion /\ tried' = tried
  BY DEF Downgrade
<1>3. Anchored
  BY <1>1, <1>2 DEF Routed
<1>4. BoardsAt(route, "downgrade", Now, rival, fallback, champion, buying) /\ tried = {}
  BY <1>1, <1>2, <1>3
<1> DEFINE now == APlan(OnHalf(D, loaded), spill)
<1>5. now.laid = OnHalf(D, loaded) /\ now.left = spill
  BY DEF APlan
<1>6. loaded \in SUBSET Sheets /\ CuttablePlan(loaded)
  BY <1>1 DEF Fine
<1>7. /\ now.laid \in SUBSET Sheets /\ CuttablePlan(now.laid) /\ Held(now.laid) = Held(Now.laid)
      /\ Cardinality(Bought(now.laid)) <= Cardinality(Bought(Now.laid))
      /\ Scrap(Bought(now.laid)) <= Scrap(Bought(Now.laid))
  BY <1>1, <1>2, <1>3, <1>5, <1>6, OnHalfFact
<1>8. now.left = Now.left /\ now = APlan(loaded', spill')
  BY <1>1, <1>2, <1>5
<1> HIDE DEF now
<1>9. Fine(now)
  BY <1>1, <1>7, <1>8 DEF Fine
<1>10. ASSUME Cardinality(Bought(Now.laid)) <= Cardinality(fallback.laid)
       PROVE  Cardinality(Bought(now.laid)) <= Cardinality(fallback.laid)
  <2> DEFINE n == Cardinality(Bought(now.laid))
             o == Cardinality(Bought(Now.laid))
             m == Cardinality(fallback.laid)
  <2>1. n \in Nat /\ o \in Nat /\ m \in Nat /\ n <= o /\ o <= m
    BY <1>1, <1>7, <1>9, <1>10, FinePlans
  <2> HIDE DEF n, o, m
  <2>2. n <= m
    BY <2>1
  <2>3. QED
    BY <2>2 DEF n, m
<1>11. ASSUME Scrap(Bought(Now.laid)) <= Scrap(Bought(champion.laid))
       PROVE  Scrap(Bought(now.laid)) <= Scrap(Bought(champion.laid))
  <2> DEFINE n == Scrap(Bought(now.laid))
             o == Scrap(Bought(Now.laid))
             m == Scrap(Bought(champion.laid))
  <2>1. \A p : Fine(p) => Bought(p.laid) \in SUBSET Sheets /\ IsFiniteSet(Bought(p.laid))
    <3> SUFFICES ASSUME NEW p, Fine(p)
                 PROVE  Bought(p.laid) \in SUBSET Sheets /\ IsFiniteSet(Bought(p.laid))
      OBVIOUS
    <3>1. IsFiniteSet(p.laid) /\ p.laid \in SUBSET Sheets
      BY <1>1, FinePlans DEF Fine
    <3>2. QED
      BY <3>1, FS_Subset DEF Bought
  <2>2. n \in Int /\ o \in Int /\ m \in Int
    BY <1>1, <1>9, <2>1, ScrapIsTotal
  <2>3. n <= o /\ o <= m
    BY <1>7, <1>11
  <2> HIDE DEF n, o, m
  <2>4. n <= m
    BY <2>2, <2>3
  <2>5. QED
    BY <2>4 DEF n, m
<1>12. NothingForABoard(Now) => NothingForABoard(now)
  BY <1>8 DEF NothingForABoard
<1>13. BoardsAt(route, "done", now, rival, fallback, champion, buying)
  BY <1>4, <1>7, <1>8, <1>10, <1>11, <1>12, Zenon DEF BoardsAt
<1>14. Routed(route, "done")
  BY <1>1, <1>2 DEF Routed
<1>15. Fine(APlan(loaded', spill'))
  BY <1>8, <1>9
<1>16. QED
  BY <1>1, <1>2, <1>3, <1>4, <1>8, <1>13, <1>14, <1>15, PoolInvAfter

-----------------------------------------------------------------------------
(* OffcutPool: a pool of offcuts only *)

\* A plan is weighed against the one to beat; what it leaves out is noted.
LEMMA ConcludeKeeps ==
    ASSUME OffcutInv, ~Anchored, phase \in {"run", "rerun"}, NEW made, Conclude(made), Fine(made), Sorted(made, Slats)
    PROVE  OffcutInv'
<1>1. /\ asked \in Pools /\ Fine(fallback) /\ Fine(champion) /\ Routed(route, phase)
      /\ filling \in Nat /\ buying \in Nat /\ tried \subseteq Nat
      /\ OffcutsAt(route, phase, Now, rival, champion, tried)
  BY PoolInvNow
<1> DEFINE now == Considered(made)
           better == Precedes(finite_plan_objective(made), finite_plan_objective(champion))
           left == Cardinality(made.left)
<1>2. now = made \/ (now = champion /\ route # "plan" /\ ~better)
  BY DEF Considered
<1>3. now = champion \/ route = "plan" \/ better
  BY DEF Considered
<1>4. IF route = "plan" THEN tried = {} ELSE Sorted(champion, Slats)
  BY <1>1 DEF OffcutsAt
<1>5. \A n \in tried : Cardinality(champion.left) <= n
  BY <1>1 DEF OffcutsAt
<1>6. left \in Nat /\ Cardinality(champion.left) \in Nat
  BY <1>1, FinePlans
<1>7. IF better THEN left <= Cardinality(champion.left) ELSE Cardinality(champion.left) <= left
  <2> DEFINE a == finite_plan_objective(made)
             b == finite_plan_objective(champion)
  <2>1. a[1] = left /\ b[1] = Cardinality(champion.left) /\ DOMAIN a = 1..6
    BY DEF finite_plan_objective
  <2> HIDE DEF a, b
  <2>2. 1 \in DOMAIN a /\ DOMAIN a \subseteq Nat \ {0} /\ a[1] \in Int /\ b[1] \in Int
    BY <1>6, <2>1
  <2>3. IF Precedes(a, b) THEN a[1] <= b[1] ELSE b[1] <= a[1]
    BY <2>2, PrecedesFact
  <2>4. QED
    BY <2>1, <2>3 DEF a, b
<1>8. Fine(now) /\ Sorted(now, Slats)
  BY <1>1, <1>2, <1>4
<1> HIDE DEF now, better, left
<1>9. \A n \in tried \union {left} : Cardinality(now.left) <= n
  <2>1. left \in Int /\ Cardinality(champion.left) \in Int /\ left <= left /\ \A n \in tried : n \in Int
    BY <1>1, <1>6
  <2>2. ASSUME NEW n \in tried \union {left} PROVE Cardinality(now.left) <= n
    <3>1. CASE now = champion
      <4>1. CASE n \in tried
        BY <1>5, <3>1, <4>1
      <4>2. CASE n = left /\ now = made
        BY <2>1, <4>2 DEF left
      <4>3. CASE n = left /\ now # made
        BY <1>2, <1>7, <3>1, <4>3
      <4>4. QED
        BY <4>1, <4>2, <4>3
    <3>2. CASE now # champion
      <4>1. now = made /\ (route = "plan" \/ better)
        BY <1>2, <1>3, <3>2
      <4>2. Cardinality(now.left) = left
        BY <4>1 DEF left
      <4>3. CASE n = left
        BY <2>1, <4>2, <4>3
      <4>4. CASE n \in tried
        <5>1. route # "plan" /\ better
          BY <1>4, <4>1, <4>4
        <5>2. left <= Cardinality(champion.left) /\ Cardinality(champion.left) <= n
          BY <1>5, <1>7, <4>4, <5>1
        <5>3. left <= n
          BY <2>1, <4>4, <5>2, NumberFacts, Zenon
        <5>4. QED
          BY <4>2, <5>3
      <4>5. QED
        BY <4>3, <4>4
    <3>3. QED
      BY <3>1, <3>2
  <2>3. QED
    BY <2>2
<1>10. tried' = tried \union {left} /\ tried' \subseteq Nat
  BY <1>1, <1>6 DEF Conclude, left
<1>11. \/ \E next \in {"plan firm", "yield", "yield firm"} : GoOn(next, now)
       \/ Finish(now)
  BY DEF Conclude, now
<1>12. CASE \E next \in {"plan firm", "yield", "yield firm"} : GoOn(next, now)
  <2>1. PICK next \in {"plan firm", "yield", "yield firm"} : GoOn(next, now)
    BY <1>12
  <2>2. /\ route' = next /\ phase' = "run" /\ loaded' = {} /\ spill' = Slats
        /\ filling' = 2 /\ rival' = NoPlan /\ champion' = now /\ buying' = buying /\ fallback' = fallback
        /\ asked' = asked
    BY <2>1 DEF GoOn, Begin
  <2> DEFINE made0 == APlan({}, Slats)
  <2>3. Fine(made0) /\ Sorted(made0, Slats) /\ Fine(NoPlan)
    BY <1>1, FinePlans
  <2> HIDE DEF made0
  <2>4. OffcutsAt(next, "run", made0, NoPlan, now, tried')
    BY <1>8, <1>9, <1>10, <2>1 DEF OffcutsAt
  <2>5. Routed(next, "run")
    BY <2>1 DEF Routed
  <2>6. QED
    BY <1>1, <1>8, <1>10, <2>2, <2>3, <2>4, <2>5, PoolInvAfter DEF made0
<1>13. CASE Finish(now)
  <2>1. /\ phase' = "done" /\ loaded' = now.laid /\ spill' = now.left /\ champion' = now /\ rival' = NoPlan
        /\ asked' = asked /\ route' = route /\ filling' = filling /\ buying' = buying /\ fallback' = fallback
    BY <1>13 DEF Finish
  <2> DEFINE done == APlan(now.laid, now.left)
  <2>2. done.laid = now.laid /\ done.left = now.left
    BY DEF APlan
  <2>3. APlan(loaded', spill') = done
    BY <2>1
  <2> HIDE DEF done
  <2>4. OffcutsAt(route, "done", done, NoPlan, now, tried')
    BY <1>8, <1>9, <1>10, <2>2 DEF OffcutsAt
  <2>5. Routed(route, "done")
    BY <1>1 DEF Routed
  <2>6. Fine(NoPlan)
    BY <1>1, FinePlans
  <2>7. Fine(APlan(loaded', spill'))
    BY <1>8, <2>2, <2>3 DEF Fine
  <2>8. QED
    BY <1>1, <1>8, <1>10, <2>1, <2>3, <2>4, <2>5, <2>6, <2>7, PoolInvAfter
<1>14. QED
  BY <1>11, <1>12, <1>13

\* A first search of a whole pool ended.
LEMMA RunKeeps ==
    ASSUME OffcutInv, RunDone
    PROVE  OffcutInv'
<1>1. /\ asked \in Pools /\ Fine(Now) /\ Fine(fallback) /\ Fine(champion) /\ Routed(route, phase)
      /\ filling \in Nat /\ buying \in Nat /\ tried \subseteq Nat
      /\ phase \in {"offcuts", "catalog", "full only", "run"} => Sorted(Now, Slats)
      /\ ~Anchored => OffcutsAt(route, phase, Now, rival, champion, tried)
      /\ Now.laid = loaded /\ Now.left = spill
  BY PoolInvNow
<1>2. phase = "run"
  BY DEF RunDone
<1>3. ~Anchored /\ Sorted(Now, Slats)
  BY <1>1, <1>2 DEF Routed
<1>4. CASE Conclude(Now)
  BY <1>1, <1>2, <1>3, <1>4, ConcludeKeeps
<1>5. CASE ~Conclude(Now)
  <2>1. /\ rival' = Now /\ phase' = "rerun" /\ loaded' = {} /\ spill' = Held(loaded)
        /\ asked' = asked /\ route' = route /\ filling' = filling /\ buying' = buying
        /\ fallback' = fallback /\ champion' = champion /\ tried' = tried
    BY <1>5 DEF RunDone
  <2> DEFINE now == APlan({}, Held(loaded))
  <2>2. Held(loaded) \in SUBSET Slats
    BY <1>1, FinePlans
  <2>3. Fine(now) /\ Sorted(now, Held(Now.laid))
    BY <1>1, <2>2, FinePlans
  <2>4. APlan(loaded', spill') = now
    BY <2>1
  <2> HIDE DEF now
  <2>5. OffcutsAt(route, "rerun", now, Now, champion, tried)
    BY <1>1, <1>2, <1>3 DEF OffcutsAt
  <2>6. Routed(route, "rerun")
    BY <1>1, <1>3 DEF Routed
  <2>7. Fine(APlan(loaded', spill')) /\ Sorted(APlan(loaded', spill'), Held(rival'.laid))
    BY <2>1, <2>3, <2>4
  <2>8. QED
    BY <1>1, <1>3, <2>1, <2>4, <2>5, <2>6, <2>7, PoolInvAfter
<1>6. QED
  BY <1>4, <1>5

\* A second search of what did fit ended.
LEMMA RerunKeeps ==
    ASSUME OffcutInv, RerunDone
    PROVE  OffcutInv'
<1>1. /\ Fine(Now) /\ Fine(rival) /\ Routed(route, phase)
      /\ phase = "rerun" => Sorted(Now, Held(rival.laid))
      /\ ~Anchored => OffcutsAt(route, phase, Now, rival, champion, tried)
      /\ Now.laid = loaded /\ Now.left = spill
  BY PoolInvNow
<1>2. phase = "rerun" /\ Conclude(Refined)
  BY DEF RerunDone
<1>3. ~Anchored
  BY <1>1, <1>2 DEF Routed
<1>4. Sorted(rival, Slats) /\ Sorted(Now, Held(rival.laid))
  BY <1>1, <1>2, <1>3 DEF OffcutsAt
<1> DEFINE again == APlan(loaded, rival.left)
<1>5. Refined = rival \/ (Refined = again /\ spill = {})
  BY DEF Refined
<1>6. again.laid = loaded /\ again.left = rival.left
  BY DEF APlan
<1> HIDE DEF again
<1>7. spill = {} => Fine(again) /\ Sorted(again, Slats)
  <2>1. spill = {} => Held(loaded) = Held(rival.laid)
    BY <1>1, <1>4 DEF Sorted
  <2>2. QED
    BY <1>1, <1>4, <1>6, <2>1 DEF Fine, Sorted
<1>8. Fine(Refined) /\ Sorted(Refined, Slats)
  BY <1>1, <1>4, <1>5, <1>7
<1>9. QED
  BY <1>2, <1>3, <1>8, ConcludeKeeps

\* A pool as it starts.
LEMMA PoolStarts == OffcutInit => OffcutInv
<1> SUFFICES ASSUME OffcutInit PROVE OffcutInv
  OBVIOUS
<1>1. /\ asked \in Pools /\ loaded = {} /\ spill = Slats /\ filling = 2 /\ buying = 0
      /\ rival = NoPlan /\ fallback = NoPlan /\ champion = NoPlan /\ tried = {}
  BY DEF OffcutInit
<1>2. /\ Fine(NoPlan) /\ NoPlan.laid = {} /\ NoPlan.left = {} /\ OnBoards(NoPlan)
      /\ Fine(APlan({}, Slats)) /\ Sorted(APlan({}, Slats), Slats) /\ OnBoards(APlan({}, Slats))
  BY <1>1, FinePlans
<1>3. Now = APlan({}, Slats) /\ Now.laid = {} /\ Now.left = Slats
  BY <1>1 DEF Now, APlan
<1>4. CASE Anchored
  <2>1. IF asked.order = "catalog_first" THEN route = "whole" /\ phase = "catalog"
        ELSE route = "offcuts_first" /\ phase = "offcuts"
    BY <1>4 DEF OffcutInit
  <2>2. OffcutTyped
    BY <1>1, <1>2, <1>3, <1>4, <2>1 DEF OffcutTyped, Fine
  <2>3. WithBoards
    BY <1>1, <1>2, <1>3, <2>1 DEF WithBoards
  <2>4. QED
    BY <1>1, <1>2, <1>3, <1>4, <2>1, <2>2, <2>3 DEF OffcutInv, Fine
<1>5. CASE ~Anchored
  <2>1. route = "plan" /\ phase = "run"
    BY <1>5 DEF OffcutInit
  <2>2. OffcutTyped
    BY <1>1, <1>2, <1>3, <1>5, <2>1 DEF OffcutTyped, Fine
  <2>3. WithOffcutsOnly
    BY <1>1, <1>2, <1>3, <2>1 DEF WithOffcutsOnly
  <2>4. QED
    BY <1>1, <1>2, <1>3, <1>5, <2>1, <2>2, <2>3 DEF OffcutInv, Fine
<1>6. QED
  BY <1>4, <1>5

\* What a pool keeps of its plans, whatever the searches come up with.
THEOREM PoolsSafe == OffcutSpec => []OffcutInv
<1>1. OffcutInit => OffcutInv
  BY PoolStarts
<1>2. OffcutInv /\ [OffcutNext]_offcutVars => OffcutInv'
  <2> SUFFICES ASSUME OffcutInv, [OffcutNext]_offcutVars PROVE OffcutInv'
    OBVIOUS
  <2>1. CASE UNCHANGED offcutVars
    <3>1. /\ asked' = asked /\ route' = route /\ phase' = phase /\ loaded' = loaded /\ spill' = spill
          /\ filling' = filling /\ buying' = buying /\ rival' = rival /\ fallback' = fallback
          /\ champion' = champion /\ tried' = tried
      BY <2>1 DEF offcutVars
    <3>2. APlan(loaded', spill') = Now
      BY <3>1 DEF Now
    <3>3. QED
      BY <3>1, <3>2, PoolInvNow, PoolInvAfter
  <2>2. CASE FillOffcut
    BY <2>2, FillOffcutKeeps
  <2>3. CASE NextOffcut
    BY <2>3, NextOffcutKeeps
  <2>4. CASE EndOffcuts
    BY <2>4, EndOffcutsKeeps
  <2>5. ASSUME NEW i \in Open, LaySheet(i) PROVE OffcutInv'
    BY <2>5, LaySheetKeeps
  <2>6. CASE FirstSearchDone
    BY <2>6, FirstSearchKeeps
  <2>7. ASSUME NEW D \in SUBSET loaded, SecondSearchDone(D) PROVE OffcutInv'
    BY <2>7, SecondSearchKeeps
  <2>8. ASSUME NEW D \in SUBSET loaded, Downgrade(D) PROVE OffcutInv'
    BY <2>8, DowngradeKeeps
  <2>9. CASE RunDone
    BY <2>9, RunKeeps
  <2>10. CASE RerunDone
    BY <2>10, RerunKeeps
  <2>11. QED
    BY <2>1, <2>2, <2>3, <2>4, <2>5, <2>6, <2>7, <2>8, <2>9, <2>10 DEF OffcutNext
<1>3. QED
  BY <1>1, <1>2, PTL DEF OffcutSpec

\* PoolsLoseNothing, of every pool: it follows from the invariant.
THEOREM NoPieceOfAPoolIsLost == OffcutSpec => []PoolsLoseNothing
<1>1. OffcutInv => PoolsLoseNothing
  <2> SUFFICES ASSUME OffcutInv, phase = "done" PROVE PoolsLoseNothing
    BY DEF PoolsLoseNothing
  <2>1. /\ asked \in Pools /\ Fine(Now) /\ Fine(fallback) /\ Fine(champion) /\ Routed(route, phase)
        /\ Anchored => BoardsAt(route, phase, Now, rival, fallback, champion, buying) /\ tried = {}
        /\ ~Anchored => OffcutsAt(route, phase, Now, rival, champion, tried)
        /\ Now.laid = loaded /\ Now.left = spill
    BY PoolInvNow
  <2>2. CuttablePlan(loaded)
    BY <2>1 DEF Fine
  <2>3. CASE Anchored
    <3>1. /\ Held(loaded) \union spill = Slats
          /\ route # "probe" => asked.order # "auto" /\ Held(loaded) \intersect spill = {}
          /\ NothingForABoard(Now)
          /\ asked.order = "catalog_first" =>
                spill = fallback.left /\ Cardinality(Bought(loaded)) <= Cardinality(fallback.laid)
          /\ asked.order = "auto" => Scrap(Bought(loaded)) <= Scrap(Bought(champion.laid))
      BY <2>1, <2>3 DEF BoardsAt
    <3>2. ShortList => spill \subseteq TooLarge
      BY <2>1, <3>1 DEF NothingForABoard
    <3>3. ASSUME asked.order = "catalog_first" PROVE TooLarge \subseteq spill
      <4>1. route = "probe" /\ Sorted(fallback, Slats) /\ OnBoards(fallback)
        BY <2>1, <2>3, <3>3 DEF BoardsAt, Routed
      <4> SUFFICES ASSUME NEW p \in TooLarge, p \notin fallback.left PROVE FALSE
        BY <3>1, <3>3
      <4>2. p \in Slats
        BY DEF TooLarge
      <4>3. p \in Held(fallback.laid)
        BY <4>1, <4>2 DEF Sorted
      <4>4. PICK s \in fallback.laid : p \in DOMAIN s.lay
        BY <4>3 DEF Held
      <4>5. s \in Sheets /\ s.on \in Catalog
        BY <2>1, <4>1, <4>4 DEF Fine, OnBoards, Bought
      <4>6. HoldsAll(s.on, s.lay) /\ \A q \in DOMAIN s.lay : s.lay[q] => q \in Revolving
        BY <2>1, <4>4 DEF Fine, CuttablePlan
      <4>7. Laid(s.lay)
        BY <4>5, SheetFacts
      <4>8. DOMAIN s.lay \intersect TooLarge = {}
        BY <2>1, <4>5, <4>6, <4>7, TooLargeStaysOut
      <4>9. QED
        BY <4>4, <4>8
    <3>4. \A n \in tried : Cardinality(spill) <= n
      BY <2>1, <2>3
    <3>5. asked.order = "catalog_first" /\ ShortList => spill = TooLarge
      BY <3>2, <3>3
    <3>6. QED
      BY <2>2, <3>1, <3>2, <3>4, <3>5, Zenon DEF PoolsLoseNothing
  <2>4. CASE ~Anchored
    <3>1. /\ Sorted(champion, Slats) /\ loaded = champion.laid /\ spill = champion.left
          /\ \A n \in tried : Cardinality(champion.left) <= n
      BY <2>1, <2>4 DEF OffcutsAt
    <3>2. Held(loaded) \union spill = Slats /\ Held(loaded) \intersect spill = {}
      BY <3>1 DEF Sorted
    <3>3. \A n \in tried : Cardinality(spill) <= n
      BY <3>1
    <3>4. QED
      BY <2>2, <2>4, <3>2, <3>3, Zenon DEF PoolsLoseNothing
  <2>5. QED
    BY <2>3, <2>4
<1>2. QED
  BY <1>1, PoolsSafe, PTL
=============================================================================
