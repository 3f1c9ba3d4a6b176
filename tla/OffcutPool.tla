----------------------------- MODULE OffcutPool ------------------------------
(***************************************************************************)
(* A group of pieces cut from several sheets of one material: a catalogue   *)
(* board without end and the client's offcuts, or offcuts only, and then    *)
(* what does not fit is part of the answer. A sheet is one lane and a piece *)
(* a length of it, another length when it is turned. Each search of the     *)
(* engine goes sheet by sheet and may end in any plan it could come up with *)
(* (PlanSearch says which).                                                 *)
(***************************************************************************)
EXTENDS Integers, Sequences, Sums, TLC

CONSTANTS
    Slats, Lying, Upright,  \* pieces, and the length of each as drawn and turned
    Revolving,               \* the pieces with permission to turn
    Pools,                   \* the bins, anchor first; the half board; the fill order
    Loss,                    \* what the blade takes between neighbours
    MostSheets                \* BOUND: max_sheets

Stocks == [long : Nat, cost : Nat, count : Nat]

\* There is an anchor; the half of it is no longer than it is.
ASSUME OffcutAssumption ==
    /\ {Lying, Upright} \subseteq [Slats -> Nat \ {0}] /\ Revolving \subseteq Slats /\ IsFiniteSet(Slats)
    /\ Loss \in Nat /\ MostSheets \in Nat \ {0}
    /\ Pools \subseteq [bins : Seq(Stocks), half : Stocks,
                       order : {"offcuts_first", "catalog_first", "auto"}]
    /\ \A a \in Pools : a.bins # <<>> /\ a.half.long <= a.bins[1].long

VARIABLES
    asked,     \* the pool being cut
    route,     \* which of the plans it is at
    phase,     \* and how far that plan is
    loaded,    \* its sheets
    spill,     \* what they do not hold
    filling,   \* the offcut being filled
    buying,    \* the catalogue boards a probe may buy
    rival,     \* the plan the search under way is held against
    fallback,  \* the plan without offcuts
    champion,  \* the plan to beat
    tried      \* what the plans so far, of offcuts only, left out

offcutVars == <<asked, route, phase, loaded, spill, filling, buying, rival, fallback,
                champion, tried>>

-----------------------------------------------------------------------------
Half == 0
Bin(i) == IF i = Half THEN asked.half ELSE asked.bins[i]

Anchored == asked.bins[1].count = 0
Attached == 2..Len(asked.bins)
Catalog == {1, Half}

OnSheet(i, lay) == [on |-> i, lay |-> lay]

Held(sheets) == UNION {DOMAIN s.lay : s \in sheets}

Consumed(lay) == Total([p \in DOMAIN lay |-> IF lay[p] THEN Upright[p] ELSE Lying[p]], DOMAIN lay)

HoldsAll(i, lay) == Consumed(lay) + Loss * (Cardinality(DOMAIN lay) - 1) <= Bin(i).long

\* Whether the pieces of this plan may turn; _without_rotation revokes it.
Turning == IF route \in {"plan firm", "yield firm"} THEN {} ELSE Revolving

Lays(S, i) ==
    {lay \in UNION {[T -> BOOLEAN] : T \in (SUBSET S) \ {{}}} :
        (\A p \in DOMAIN lay : lay[p] => p \in Turning) /\ HoldsAll(i, lay)}

FitsAlone(p, i) == Lays({p}, i) # {}

Cost(sheets) == Total([s \in sheets |-> Bin(s.on).cost], sheets)
SheetArea(sheets) == Total([s \in sheets |-> Bin(s.on).long], sheets)
Scrap(sheets) == Total([s \in sheets |-> Bin(s.on).long - Consumed(s.lay)], sheets)
TurnedOn(sheets) == Total([s \in sheets |-> Cardinality({p \in DOMAIN s.lay : s.lay[p]})], sheets)

Bought(sheets) == {s \in sheets : s.on \in Catalog}

Uses(sheets, i) == Cardinality({s \in sheets : s.on = i})

Precedes(a, b) == \E i \in DOMAIN a : a[i] < b[i] /\ \A j \in 1..(i - 1) : a[j] = b[j]

\* finite_plan_objective; the cut length, its last tie-break, is left out.
finite_plan_objective(made) ==
    <<Cardinality(made.left), Cost(made.laid), Cardinality(made.laid), SheetArea(made.laid),
      TurnedOn(made.laid), Scrap(made.laid)>>

plan_bill(made) == <<Cardinality(made.left), Cost(made.laid)>>

catalog_waste_score(made) ==
    <<Scrap(Bought(made.laid)), Cardinality(Bought(made.laid)), Cardinality(made.laid)>>

APlan(sheets, rest) == [laid |-> sheets, left |-> rest]
Now == APlan(loaded, spill)
NoPlan == APlan({}, {})

-----------------------------------------------------------------------------
\* _pack_offcut, unit after unit: what stays out would not have gone in.
FillOffcut ==
    /\ phase = "offcuts" /\ filling \in Attached
    /\ Uses(loaded, filling) < Bin(filling).count
    /\ \E lay \in Lays(spill, filling) :
          /\ \A p \in spill \ DOMAIN lay, t \in BOOLEAN :
                (t => p \in Turning) => ~HoldsAll(filling, lay @@ p :> t)
          /\ loaded' = loaded \union {OnSheet(filling, lay)}
          /\ spill' = spill \ DOMAIN lay
    /\ UNCHANGED <<asked, route, phase, filling, buying, rival, fallback, champion, tried>>

NextOffcut ==
    /\ phase = "offcuts" /\ filling \in Attached /\ spill # {}
    /\ Uses(loaded, filling) = Bin(filling).count \/ \A p \in spill : ~FitsAlone(p, filling)
    /\ filling' = filling + 1
    /\ UNCHANGED <<asked, route, phase, loaded, spill, buying, rival, fallback, champion, tried>>

OffcutsDone == phase = "offcuts" /\ (spill = {} \/ filling \notin Attached)

-----------------------------------------------------------------------------
\* optimize_bins, on the bins and up to the sheets each search is given.
Open == CASE phase = "catalog" -> {1} \union (IF asked.half.long > 0 THEN {Half} ELSE {})
          [] phase = "full only" -> {1}
          [] phase \in {"run", "rerun"} -> DOMAIN asked.bins
          [] OTHER -> {}

Opened == IF Anchored THEN Bought(loaded) ELSE loaded

Cap == IF route = "probe" THEN buying ELSE MostSheets

Available(i) == Bin(i).count = 0 \/ Uses(loaded, i) < Bin(i).count

Fitting == {p \in spill : \E i \in Open : Available(i) /\ FitsAlone(p, i)}

LaySheet(i) ==
    /\ Cardinality(Opened) < Cap
    /\ Available(i)
    /\ \E lay \in Lays(spill, i) :
          /\ loaded' = loaded \union {OnSheet(i, lay)}
          /\ spill' = spill \ DOMAIN lay
    /\ UNCHANGED <<asked, route, phase, filling, buying, rival, fallback, champion, tried>>

Searched == Open # {} /\ (Fitting = {} \/ Cardinality(Opened) = Cap)

-----------------------------------------------------------------------------
\* Sheets whose content the half takes, where the packer gets it in.
OnHalf(D, sheets) == (sheets \ D) \union {OnSheet(Half, s.lay) : s \in D}

Downgradable(sheets) ==
    {s \in sheets : /\ s.on = 1 /\ asked.half.long > 0 /\ asked.half.cost < Bin(1).cost
                    /\ HoldsAll(Half, s.lay)}

\* The steps of one plan, from its start; the pieces it starts with.
Begin(next, first) ==
    /\ route' = next /\ phase' = first
    /\ loaded' = {} /\ spill' = Slats /\ filling' = 2
    /\ rival' = NoPlan

\* optimize_pool: what a fill order came up with.
Candidate(made) ==
    IF route = "offcuts_first" /\ asked.order = "auto"
    THEN /\ Begin("whole", "catalog") /\ champion' = made
         /\ UNCHANGED <<asked, buying, fallback, tried>>
    ELSE LET chosen == IF /\ asked.order = "auto"
                          /\ ~Precedes(catalog_waste_score(made), catalog_waste_score(champion))
                       THEN champion ELSE made IN
         /\ loaded' = chosen.laid /\ spill' = chosen.left
         /\ phase' = "downgrade"
         /\ UNCHANGED <<asked, route, filling, buying, rival, fallback, champion, tried>>

\* _fill_catalog ended: the catalogue part of this plan.
Filled(made) ==
    CASE route = "offcuts_first" -> Candidate(made)
      [] route = "whole" ->
            /\ Begin("probe", "catalog") /\ buying' = 0 /\ fallback' = made
            /\ UNCHANGED <<asked, champion, tried>>
      [] route = "probe" ->
            /\ loaded' = made.laid /\ spill' = made.left /\ phase' = "offcuts" /\ rival' = NoPlan
            /\ UNCHANGED <<asked, route, filling, buying, fallback, champion, tried>>

\* A plan with half boards is held against one without, whose sheets may be
\* downgraded afterwards; a tie goes to the second.
FirstSearchDone ==
    /\ phase = "catalog" /\ Searched
    /\ IF Uses(loaded, Half) = 0 THEN Filled(Now)
       ELSE LET offcuts == loaded \ Bought(loaded) IN
            /\ rival' = Now /\ phase' = "full only"
            /\ loaded' = offcuts /\ spill' = Slats \ Held(offcuts)
            /\ UNCHANGED <<asked, route, filling, buying, fallback, champion, tried>>

SecondSearchDone(D) ==
    /\ phase = "full only" /\ Searched
    /\ D \subseteq Downgradable(loaded)
    /\ LET full == APlan(OnHalf(D, loaded), spill) IN
       Filled(IF Precedes(plan_bill(rival), plan_bill(full)) THEN rival ELSE full)

\* _offcuts_first goes on to the catalogue; a probe that leaves something tries one
\* board more, and what the boards alone could not take is what is unplaced.
EndOffcuts ==
    /\ OffcutsDone
    /\ CASE route = "offcuts_first" ->
              /\ phase' = "catalog"
              /\ UNCHANGED <<asked, route, loaded, spill, filling, buying, rival, fallback,
                             champion, tried>>
         [] route = "probe" /\ spill = {} -> Candidate(APlan(loaded, fallback.left))
         [] route = "probe" /\ spill # {} /\ buying < Cardinality(fallback.laid) ->
              /\ Begin("probe", "catalog") /\ buying' = buying + 1
              /\ UNCHANGED <<asked, fallback, champion, tried>>
         [] OTHER -> Candidate(fallback)

Downgrade(D) ==
    /\ phase = "downgrade"
    /\ D \subseteq Downgradable(loaded)
    /\ loaded' = OnHalf(D, loaded)
    /\ phase' = "done"
    /\ UNCHANGED <<asked, route, spill, filling, buying, rival, fallback, champion, tried>>

-----------------------------------------------------------------------------
\* optimize_offcut_pool: the plan, the plan with nothing turned, and while something is
\* left over, as much as the offcuts yield, turned and not.
AnyTurned(made) == TurnedOn(made.laid) > 0

Finish(made) ==
    /\ phase' = "done"
    /\ loaded' = made.laid /\ spill' = made.left
    /\ champion' = made /\ rival' = NoPlan
    /\ UNCHANGED <<asked, route, filling, buying, fallback>>

GoOn(next, made) ==
    /\ Begin(next, "run")
    /\ champion' = made
    /\ UNCHANGED <<asked, buying, fallback>>

\* consider: only a better plan is adopted.
Considered(made) ==
    IF route = "plan" \/ Precedes(finite_plan_objective(made), finite_plan_objective(champion))
    THEN made ELSE champion

Conclude(made) ==
    LET now == Considered(made) IN
    /\ tried' = tried \union {Cardinality(made.left)}
    /\ IF route = "plan" /\ Revolving # {} /\ (now.left # {} \/ AnyTurned(now))
       THEN GoOn("plan firm", now)
       ELSE IF route = "yield" /\ Revolving # {} THEN GoOn("yield firm", now)
       ELSE IF route \in {"plan", "plan firm"} /\ now.left # {} THEN GoOn("yield", now)
       ELSE Finish(now)

\* What did fit is searched again, a whole list this time.
RunDone ==
    /\ phase = "run" /\ Searched
    /\ IF loaded = {} \/ (spill = {} /\ route \in {"plan", "plan firm"}) THEN Conclude(Now)
       ELSE /\ rival' = Now /\ phase' = "rerun"
            /\ loaded' = {} /\ spill' = Held(loaded)
            /\ UNCHANGED <<asked, route, filling, buying, fallback, champion, tried>>

\* Mistake: a second search that strands a piece is taken.
TakenAnyway == APlan(loaded, rival.left)

\* One that strands a piece is not; of a yield, only a better one is.
Refined ==
    LET again == APlan(loaded, rival.left) IN
    IF \/ spill # {}
       \/ /\ route \in {"yield", "yield firm"}
          /\ ~Precedes(finite_plan_objective(again), finite_plan_objective(rival))
    THEN rival ELSE again

RerunDone ==
    /\ phase = "rerun" /\ Searched
    /\ Conclude(Refined)

-----------------------------------------------------------------------------
OffcutInit ==
    /\ asked \in Pools
    /\ route = IF ~Anchored THEN "plan"
             ELSE IF asked.order = "catalog_first" THEN "whole" ELSE "offcuts_first"
    /\ phase = CASE route = "plan" -> "run" [] route = "whole" -> "catalog" [] OTHER -> "offcuts"
    /\ loaded = {} /\ spill = Slats /\ filling = 2 /\ buying = 0
    /\ rival = NoPlan /\ fallback = NoPlan /\ champion = NoPlan /\ tried = {}

OffcutNext ==
    \/ FillOffcut \/ NextOffcut \/ EndOffcuts
    \/ \E i \in Open : LaySheet(i)
    \/ FirstSearchDone
    \/ \E D \in SUBSET loaded : SecondSearchDone(D) \/ Downgrade(D)
    \/ RunDone \/ RerunDone

OffcutSpec == OffcutInit /\ [][OffcutNext]_offcutVars

-----------------------------------------------------------------------------
Sheets == [on : {Half} \union DOMAIN asked.bins, lay : UNION {[T -> BOOLEAN] : T \in SUBSET Slats}]

OffcutTyped ==
    /\ asked \in Pools
    /\ IF Anchored
       THEN \/ route = "offcuts_first" /\ phase \in {"offcuts", "catalog", "full only", "downgrade", "done"}
            \/ route = "whole" /\ phase \in {"catalog", "full only"}
            \/ route = "probe" /\ phase \in {"catalog", "full only", "offcuts", "downgrade", "done"}
       ELSE route \in {"plan", "plan firm", "yield", "yield firm"} /\ phase \in {"run", "rerun", "done"}
    /\ \A m \in {Now, rival, fallback, champion} : m.left \subseteq Slats /\ m.laid \subseteq Sheets
    /\ filling \in Nat /\ buying \in Nat /\ tried \subseteq Nat

\* On no two sheets, turned only with permission, on a sheet that takes it, out of as
\* many offcuts as there are.
CuttablePlan(sheets) ==
    /\ \A s, z \in sheets : s # z => DOMAIN s.lay \intersect DOMAIN z.lay = {}
    /\ \A s \in sheets :
          /\ DOMAIN s.lay # {} /\ HoldsAll(s.on, s.lay)
          /\ \A p \in DOMAIN s.lay : s.lay[p] => p \in Revolving
    /\ \A i \in DOMAIN asked.bins : Bin(i).count > 0 => Uses(sheets, i) <= Bin(i).count

TooLarge == {p \in Slats : \A t \in BOOLEAN : (t => p \in Revolving) =>
                (IF t THEN Upright[p] ELSE Lying[p]) > Bin(1).long}

\* max_sheets never cuts the plan of so few pieces short.
ShortList == Cardinality(Slats) <= MostSheets

\* Every piece is cut once or left, of those there are.
Sorted(made, pieces) == Held(made.laid) \union made.left = pieces /\ Held(made.laid) \intersect made.left = {}

\* What of a plan is bought holds all that a board takes.
NothingForABoard(made) == ShortList => made.left \subseteq TooLarge

OnBoards(made) == Bought(made.laid) = made.laid

\* The plans of a pool with boards, on the way and at the end of it.
WithBoards ==
    /\ phase = "full only" => Sorted(rival, Slats) /\ (route # "probe" => NothingForABoard(rival))
    /\ route \in {"whole", "probe"} /\ phase \in {"catalog", "full only"} => OnBoards(Now) /\ OnBoards(rival)
    /\ route = "offcuts_first" => asked.order # "catalog_first"
    /\ route \in {"whole", "probe"} => asked.order # "offcuts_first"
    /\ route \in {"whole", "probe"} /\ asked.order = "auto" =>
          Sorted(champion, Slats) /\ NothingForABoard(champion)
    /\ route = "probe" =>
          /\ Sorted(fallback, Slats) /\ OnBoards(fallback) /\ NothingForABoard(fallback)
          /\ buying <= Cardinality(fallback.laid)
          /\ phase \notin {"downgrade", "done"} =>
                Cardinality(Bought(loaded)) <= buying /\ Cardinality(Bought(rival.laid)) <= buying
    /\ phase \in {"downgrade", "done"} =>
          /\ Held(loaded) \union spill = Slats
          /\ route # "probe" => asked.order # "auto" /\ Held(loaded) \intersect spill = {}
          /\ NothingForABoard(Now)
          /\ asked.order = "catalog_first" =>
                spill = fallback.left /\ Cardinality(Bought(loaded)) <= Cardinality(fallback.laid)
          /\ asked.order = "auto" => Scrap(Bought(loaded)) <= Scrap(Bought(champion.laid))

\* The plans of offcuts only.
WithOffcutsOnly ==
    /\ phase = "rerun" => Sorted(rival, Slats)
    /\ \A n \in tried : Cardinality(champion.left) <= n
    /\ IF route = "plan" /\ phase # "done" THEN tried = {} ELSE Sorted(champion, Slats)
    /\ phase = "done" => loaded = champion.laid /\ spill = champion.left

OffcutInv ==
    /\ OffcutTyped
    /\ \A m \in {Now, rival, fallback, champion} : CuttablePlan(m.laid)
    /\ phase \in {"offcuts", "catalog", "full only", "run"} => Sorted(Now, Slats)
    /\ phase = "rerun" => Sorted(Now, Held(rival.laid))
    /\ IF Anchored THEN WithBoards /\ tried = {} ELSE WithOffcutsOnly

\* A pool cuts every piece or reports it. With a board to fall back on it only
\* reports what no board takes, which it may do though an offcut takes the piece; when
\* boards go first they are no more than without the offcuts. With offcuts only, no
\* plan tried on the way left less out.
PoolsLoseNothing ==
    phase = "done" =>
        /\ CuttablePlan(loaded)
        /\ Held(loaded) \union spill = Slats
        /\ route # "probe" => Held(loaded) \intersect spill = {}
        /\ Anchored /\ ShortList => spill \subseteq TooLarge
        /\ Anchored /\ asked.order = "catalog_first" =>
              /\ ShortList => spill = TooLarge
              /\ Cardinality(Bought(loaded)) <= Cardinality(fallback.laid)
        /\ Anchored /\ asked.order = "auto" =>
              Scrap(Bought(loaded)) <= Scrap(Bought(champion.laid))
        /\ \A n \in tried : Cardinality(spill) <= n

=============================================================================
