----------------------------- MODULE PlanSearch ------------------------------
(***************************************************************************)
(* The search for the cheapest sheets a cut list can be cut from. A sheet   *)
(* is one lane and a piece a length of it, which keeps what the partition   *)
(* has to decide: the blade is paid between neighbours, halves and offcuts  *)
(* compete with whole boards, stock may run out. Which of the sets that fit *)
(* a packer comes up with is left open.                                     *)
(***************************************************************************)
EXTENDS Integers, Sequences, Sums

CONSTANTS
    Parts, Span,   \* pieces and the length of each
    Blade,
    Shops,         \* the bins a list may be quoted against, in the order given
    List,          \* per shop, the pieces to cut
    Endless,       \* the count of a bin without a limit
    MaxBoards,     \* BOUND: max_sheets
    MaxPasses      \* BOUND: the two pipelines and the restarts

\* The unit of money makes every price per length a whole number; a search has bins;
\* of each material there is one half board at most, and no end of it (_half_spec).
ASSUME PlanAssumption ==
    /\ Span \in [Parts -> Nat \ {0}] /\ Blade \in Nat /\ List \in [Shops -> SUBSET Parts]
    /\ MaxBoards \in Nat \ {0} /\ MaxPasses \in Nat /\ IsFiniteSet(Parts)
    /\ Shops \subseteq Seq([long : Nat \ {0}, cost : Nat, half : BOOLEAN, count : Nat, key : Nat])
    /\ \A s \in Shops : s # <<>> /\ \A i \in DOMAIN s :
          /\ s[i].cost % s[i].long = 0
          /\ s[i].half => /\ s[i].count = Endless
                         /\ \A j \in DOMAIN s : s[j].half /\ s[j].key = s[i].key => j = i

VARIABLES
    shop,      \* the bins of this search
    stage,
    plan,      \* the solution: a set of fills
    stranded,  \* what the baseline could not place
    baseline,
    out,       \* the solution of the pass under way
    spared,    \* the fills of it a ruin leaves alone
    limit,     \* the bins the beam may open
    trial,     \* the fills of the state the beam is at
    pass

planVars == <<shop, stage, plan, stranded, baseline, out, spared, limit, trial, pass>>

-----------------------------------------------------------------------------
Fill(i, S) == [on |-> i, parts |-> S]

LengthOf(S) == Total(Span, S)

Fits(S, long, blade) == LengthOf(S) + blade * (Cardinality(S) - 1) <= long

PartsOf(P) == UNION {f.parts : f \in P}

On(P, i) == Cardinality({f \in P : f.on = i})

Bill(P) == Total([f \in P |-> shop[f.on].cost], P)

Waste(P) == MapThenSumSet(LAMBDA f : shop[f.on].long - LengthOf(f.parts), P)

\* _Solution.objective; the cut length, its last tie-break, is left out.
Beats(P, Q) ==
    \/ Bill(P) < Bill(Q)
    \/ Bill(P) = Bill(Q) /\ Cardinality(P) < Cardinality(Q)
    \/ Bill(P) = Bill(Q) /\ Cardinality(P) = Cardinality(Q) /\ Waste(P) < Waste(Q)

\* What fits some bin of the shop.
Wanted(s) == {p \in List[s] : \E i \in DOMAIN s : Span[p] <= s[i].long}
Placeable == Wanted(shop)

InStockFor(P, i) == shop[i].count = Endless \/ On(P, i) < shop[i].count

Fulls == {i \in DOMAIN shop : ~shop[i].half}
Halves == {i \in DOMAIN shop : shop[i].half}

CeilDiv(a, b) == (a + b - 1) \div b

-----------------------------------------------------------------------------
\* The cheapest mix of full boards and halves the area could need.
FullAndHalf(area) ==
    LET f == CHOOSE i \in Fulls : TRUE
        Mixed(k) == LET rest == area - k * shop[f].long IN
            k * shop[f].cost
            + (IF rest > 0 THEN CeilDiv(rest, shop[CHOOSE i \in Halves : TRUE].long)
                                * shop[CHOOSE i \in Halves : TRUE].cost ELSE 0)
        ks == {k \in 0..CeilDiv(area, shop[f].long) : k * shop[f].long >= area \/ Halves # {}} IN
    Min({Mixed(k) : k \in ks})

\* _cost_lower_bound: nothing when a bin is free; full and half boards mixed when they
\* are all there is; the best price per length otherwise.
CostBound(area) ==
    IF area = 0 \/ \E i \in DOMAIN shop : shop[i].cost = 0 THEN 0
    ELSE IF /\ Cardinality(Fulls) = 1 /\ Cardinality(Halves) <= 1
            /\ \A i \in Fulls : shop[i].count = Endless
         THEN FullAndHalf(area)
         ELSE area * Min({shop[i].cost \div shop[i].long : i \in DOMAIN shop})

BinsBound(area) == CeilDiv(area, Max({shop[i].long : i \in DOMAIN shop}))

\* _proven_optimal
Proven(P) ==
    /\ Bill(P) <= CostBound(LengthOf(Placeable))
    /\ Bill(P) > 0 \/ Cardinality(P) <= BinsBound(LengthOf(Placeable))

\* open_specs
OpenSpecs(P, area) ==
    {i \in DOMAIN shop : InStockFor(P, i) /\ (shop[i].half => 4 * area <= 5 * shop[i].long)}

-----------------------------------------------------------------------------
Rest(P) == Placeable \ PartsOf(P)

\* _sequential_fill: the first bin, in order, that takes anything.
Takes(i) ==
    /\ Fulls # {} => i \in Fulls
    /\ InStockFor(plan, i)
    /\ \E p \in Rest(plan) : Span[p] <= shop[i].long

CanFill == Cardinality(plan) < MaxBoards /\ \E i \in DOMAIN shop : Takes(i)

FillBaseline ==
    /\ stage = "fill" /\ CanFill
    /\ LET i == CHOOSE i \in DOMAIN shop : Takes(i) /\ \A j \in 1..(i - 1) : ~Takes(j) IN
       \E S \in (SUBSET Rest(plan)) \ {{}} :
          /\ Fits(S, shop[i].long, Blade)
          /\ \A p \in Rest(plan) \ S : ~Fits(S \union {p}, shop[i].long, Blade)
          /\ plan' = plan \union {Fill(i, S)}
    /\ UNCHANGED <<shop, stage, stranded, baseline, out, spared, limit, trial, pass>>

\* The search only runs on a baseline that placed everything.
EndBaseline ==
    /\ stage = "fill" /\ ~CanFill
    /\ baseline' = plan /\ stranded' = Rest(plan)
    /\ stage' = IF Rest(plan) = {} THEN "idle" ELSE "downgrade"
    /\ UNCHANGED <<shop, plan, out, spared, limit, trial, pass>>

-----------------------------------------------------------------------------
\* A pass improves on what there is; the second pipeline starts from the baseline again.
StartPass ==
    /\ stage = "idle" /\ pass < MaxPasses /\ ~Proven(plan)
    /\ pass' = pass + 1 /\ stage' = "beam" /\ limit' = MaxBoards
    /\ out' = IF pass' = 2 THEN baseline ELSE plan
    /\ UNCHANGED <<shop, plan, stranded, baseline, spared, trial>>

Searching == stage \in {"beam", "ruined"}

Pool == Rest(spared \union trial)

\* beam: a solution has to beat upper_objective, then the best one registered. Which is
\* what the pass has, with a new solution put in its place at once: the objective adds up
\* over the fills, so lns comparing again finds the same.
ToBeat == out \ spared

Register(P) == out' = IF Beats(P, ToBeat) THEN spared \union P ELSE out

\* A state that cannot end in anything better is not expanded.
Pruned ==
    LET cost == Bill(trial) + CostBound(LengthOf(Pool))
        bins == Cardinality(trial) + BinsBound(LengthOf(Pool)) IN
    /\ trial # {}
    /\ \/ cost > Bill(ToBeat)
       \/ cost = Bill(ToBeat) /\ bins > Cardinality(ToBeat)

\* gen_fills, and the solver's densest: what one bin may be cut into, any set that goes in.
FillsOf(i) == {S \in (SUBSET Pool) \ {{}} : Fits(S, shop[i].long, Blade)}

OpenBin(i) ==
    /\ Searching /\ ~Pruned
    /\ Cardinality(trial) < limit
    /\ i \in OpenSpecs(spared \union trial, LengthOf(Pool))
    /\ \E S \in FillsOf(i) :
       LET new == trial \union {Fill(i, S)} IN
       IF S = Pool THEN Register(new) /\ trial' = {}
                   ELSE trial' = new /\ UNCHANGED out
    /\ UNCHANGED <<shop, stage, plan, stranded, baseline, spared, limit, pass>>

\* _probe_fill and exact_fill: whether a bin takes the whole tail.
TakesAll(i) == Fits(Pool, shop[i].long, Blade)

\* complete_probe: the tail in one more bin, looked for before a state is pruned.
CloseTail(i) ==
    /\ Searching
    /\ trial = {} \/ stage = "beam" \/ Cardinality(trial) < limit
    /\ i \in OpenSpecs(spared \union trial, 0)
    /\ TakesAll(i)
    /\ Register(trial \union {Fill(i, Pool)})
    /\ trial' = {}
    /\ UNCHANGED <<shop, stage, plan, stranded, baseline, spared, limit, pass>>

Abandon ==
    /\ Searching /\ trial # {}
    /\ trial' = {}
    /\ UNCHANGED <<shop, stage, plan, stranded, baseline, out, spared, limit, pass>>

EndBeam ==
    /\ Searching /\ trial = {}
    /\ spared' = {} /\ limit' = 0 /\ stage' = "rounds"
    /\ UNCHANGED <<shop, plan, stranded, baseline, out, trial, pass>>

-----------------------------------------------------------------------------
\* lns: two sheets, or the two worst and a third.
Ruin(R) ==
    /\ stage = "rounds" /\ ~Proven(out)
    /\ R \subseteq out /\ Cardinality(R) \in {2, 3}
    /\ Cardinality(R) = 3 => \E f \in R : \A g \in R \ {f}, h \in out \ R : Waste({g}) >= Waste({h})
    /\ spared' = out \ R /\ limit' = Cardinality(R) /\ stage' = "ruined"
    /\ UNCHANGED <<shop, plan, stranded, baseline, out, trial, pass>>

\* Mistake: the last pass wins.
Latest(P, Q) == P

BetterOf(P, Q) == IF Beats(P, Q) THEN P ELSE Q

EndPass ==
    /\ stage = "rounds"
    /\ plan' = BetterOf(out, plan)
    /\ out' = {} /\ stage' = "idle"
    /\ UNCHANGED <<shop, stranded, baseline, spared, limit, trial, pass>>

EndSearch ==
    /\ stage = "idle" /\ (pass >= 2 \/ Proven(plan))
    /\ stage' = "downgrade"
    /\ UNCHANGED <<shop, plan, stranded, baseline, out, spared, limit, trial, pass>>

-----------------------------------------------------------------------------
\* half_downgrade: the content of a full sheet on its cheaper half, where a packer gets
\* it in.
HalfOf(f) == {h \in Halves : shop[h].key = shop[f.on].key /\ shop[h].cost < shop[f.on].cost}

HalfDowngrade(D) ==
    /\ stage = "downgrade"
    /\ D \subseteq {f \in plan : f.on \in Fulls /\ \E h \in HalfOf(f) : Fits(f.parts, shop[h].long, Blade)}
    /\ plan' = (plan \ D) \union {Fill(CHOOSE h \in HalfOf(f) : TRUE, f.parts) : f \in D}
    /\ stage' = "repair"
    /\ UNCHANGED <<shop, stranded, baseline, out, spared, limit, trial, pass>>

-----------------------------------------------------------------------------
\* Every way to split a set of parts.
Splits(S) == {{{q \in S : label[q] = label[p]} : p \in S} : label \in [S -> S]}

\* The bins a split may be cut from, within stock.
BinsOf(s, split, blade) ==
    {g \in [split -> DOMAIN s] :
        /\ \A b \in split : Fits(b, s[g[b]].long, blade)
        /\ \A i \in DOMAIN s : s[i].count # Endless =>
              Cardinality({b \in split : g[b] = i}) <= s[i].count}

\* Every plan for all that fits some bin, cut with a blade.
Completes ==
    [s \in Shops |-> [blade \in 0..Blade |->
        UNION {{{Fill(g[b], b) : b \in split} : g \in BinsOf(s, split, blade)} :
                  split \in Splits(Wanted(s))}]]

\* _emptiest_sheet under a share, in percent.
EmptierThan(percent) == \E f \in plan : 100 * LengthOf(f.parts) < percent * shop[f.on].long

\* Mistake: the plan of the thinner blade is taken as it comes.
TakenAsItComes(P) == TRUE

\* _recut: every sheet again, alone, with the real blade.
Recut(P) == \A f \in P : Fits(f.parts, shop[f.on].long, Blade)

\* _relaxed_kerf_repair
Repaired ==
    IF ~EmptierThan(30) THEN {}
    ELSE {P \in UNION {Completes[shop][Blade - d] : d \in {1, 2} \intersect 1..Blade} :
              Bill(P) < Bill(plan) /\ Recut(P)}

\* A fallible step: it comes up with one of these, or with nothing.
MayAdopt(plans, next) ==
    /\ plan' \in plans \union {plan}
    /\ stage' = next
    /\ UNCHANGED <<shop, stranded, baseline, out, spared, limit, trial, pass>>

RelaxedKerfRepair == stage = "repair" /\ MayAdopt(Repaired, "repartition")

EndlessAmong(S) == {i \in S : shop[i].count = Endless /\ \A j \in S : j < i => shop[j].count # Endless}

\* _half_repartition_repair, one round: a full board fewer and a half more.
Repartitioned(P) ==
    {Q \in Completes[shop][Blade] :
        \E full \in EndlessAmong(Fulls), half \in EndlessAmong(Halves) :
            LET n == Cardinality({f \in P : f.on \in Fulls})
                m == Cardinality(P) - n + 1 IN
            /\ n > 0 /\ shop[half].cost < shop[full].cost
            /\ (n - 1) * shop[full].cost + m * shop[half].cost < Bill(P)
            /\ \A f \in Q : f.on \in {full, half}
            /\ On(Q, full) < n /\ On(Q, half) <= m}

HalfRepartition ==
    /\ stage = "repartition"
    /\ LET once == IF EmptierThan(55) THEN Repartitioned(plan) ELSE {}
           twice == UNION {Repartitioned(P) : P \in once} IN
       MayAdopt({P \in once \union twice : Bill(P) < Bill(plan)}, "lanes")

\* lane_plan: bins without a limit, every piece, a smaller bill.
LanePlan ==
    /\ stage = "lanes"
    /\ MayAdopt(IF ~EmptierThan(55) THEN {}
                ELSE {P \in Completes[shop][Blade] : /\ Bill(P) < Bill(plan)
                                                     /\ \A f \in P : shop[f.on].count = Endless},
                "done")

-----------------------------------------------------------------------------
PlanInit ==
    /\ shop \in Shops
    /\ stage = "fill" /\ plan = {} /\ stranded = {} /\ baseline = {}
    /\ out = {} /\ spared = {} /\ limit = 0 /\ trial = {} /\ pass = 0

PlanNext ==
    \/ FillBaseline \/ EndBaseline \/ StartPass \/ Abandon \/ EndBeam \/ EndPass \/ EndSearch
    \/ \E i \in DOMAIN shop : CloseTail(i) \/ OpenBin(i)
    \/ \E R \in SUBSET out : Ruin(R)
    \/ \E D \in SUBSET plan : HalfDowngrade(D)
    \/ RelaxedKerfRepair \/ HalfRepartition \/ LanePlan

PlanSpec == PlanInit /\ [][PlanNext]_planVars

-----------------------------------------------------------------------------
Fills == [on : DOMAIN shop, parts : SUBSET Parts]

PlanTyped ==
    /\ shop \in Shops /\ stranded \subseteq Parts /\ pass \in 0..MaxPasses /\ limit \in Nat
    /\ stage \in {"fill", "idle", "beam", "rounds", "ruined", "downgrade", "repair",
                  "repartition", "lanes", "done"}
    /\ \A P \in {plan, baseline, out, spared, trial} : P \subseteq Fills

\* No part twice, every sheet cut with the real blade, no more of a bin than there is.
Sound(P) ==
    /\ \A f, g \in P : f # g => f.parts \intersect g.parts = {}
    /\ \A f \in P : f.parts # {} /\ Fits(f.parts, shop[f.on].long, Blade)
    /\ \A i \in DOMAIN shop : shop[i].count # Endless => On(P, i) <= shop[i].count

\* What the engine has in hand at each stage.
InHand ==
    /\ Sound(plan) /\ Sound(baseline) /\ Sound(out) /\ Sound(spared \union trial)
    /\ stage = "fill" => PartsOf(plan) \subseteq Placeable /\ baseline = {} /\ out = {}
    /\ stage \in {"idle", "beam", "rounds", "ruined"} =>
          PartsOf(plan) = Placeable /\ PartsOf(baseline) = Placeable
    /\ stage \in {"beam", "rounds", "ruined"} => PartsOf(out) = Placeable
    /\ IF Searching THEN /\ spared \subseteq out /\ spared \intersect trial = {}
                        /\ PartsOf(trial) \subseteq Placeable /\ Pool # {}
       ELSE spared = {} /\ trial = {}
    /\ stage \in {"downgrade", "repair", "repartition", "lanes", "done"} =>
          PartsOf(plan) \in {Placeable \ stranded, Placeable}

PlanInv == PlanTyped /\ InHand

\* Whatever the passes and repairs do, a plan cuts each part of the list once, on a sheet
\* that takes it with the real blade, out of bins in stock, or the part is stranded; a
\* plan the search stops at is as cheap as any; a state it drops led to nothing better.
\* A repair may still place what the baseline had stranded.
PlansLoseNothing ==
    /\ Sound(plan) /\ Sound(out) /\ Sound(spared \union trial)
    /\ Searching => PartsOf(out) = Placeable /\ spared \subseteq out
    /\ stage # "fill" => PartsOf(plan) \in {Placeable \ stranded, Placeable}
    /\ stage = "idle" /\ Proven(plan) =>
          \A P \in Completes[shop][Blade] :
             /\ Bill(P) >= Bill(plan)
             /\ Bill(plan) = 0 => Cardinality(P) >= Cardinality(plan)
    /\ Searching /\ Pruned =>
          \A P \in Completes[shop][Blade] : spared \union trial \subseteq P =>
             \/ Bill(P \ spared) > Bill(ToBeat)
             \/ Bill(P \ spared) = Bill(ToBeat) /\ Cardinality(P \ spared) >= Cardinality(ToBeat)

\* Once there is a baseline, nothing the engine does makes the quote dearer.
BillOnlyFalls == [][stage # "fill" => Bill(plan') <= Bill(plan)]_planVars

=============================================================================
