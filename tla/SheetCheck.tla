------------------------------ MODULE SheetCheck -----------------------------
(***************************************************************************)
(* Whether the saw can free what lies on a sheet, the cut tree it would     *)
(* follow, and where one more piece may go: what the engine tidies its own  *)
(* sheets with and what a sheet arranged by hand is held to.                *)
(***************************************************************************)
EXTENDS Sheet, Sequences, FiniteSets

LOCAL INSTANCE FiniteSetsExt

CONSTANTS
    MinUsable    \* a leftover thinner than this is scrap

-----------------------------------------------------------------------------
\* One axis of a box: the cut is horizontal, so the axis is y; or the other way.
Lo(b, horizontal) == IF horizontal THEN b.y ELSE b.x
Hi(b, horizontal) == IF horizontal THEN b.y + b.h ELSE b.x + b.w

NearSide(region, horizontal, at) ==
    IF horizontal THEN [region EXCEPT !.h = at - region.y] ELSE [region EXCEPT !.w = at - region.x]

\* The blade may overhang the far edge, and then nothing is left there.
FarSide(region, horizontal, at) ==
    LET from == Min({at + Kerf, Hi(region, horizontal)})
        left == Hi(region, horizontal) - from IN
    IF horizontal THEN [region EXCEPT !.y = from, !.h = left]
    ELSE [region EXCEPT !.x = from, !.w = left]

CutAt(region, horizontal, at) ==
    IF horizontal THEN Cut(region.x, at, region.w, TRUE) ELSE Cut(at, region.y, region.h, FALSE)

\* Mistake: the far edges alone.
PastTheFarEdge(region, boxes, horizontal) ==
    {at \in {Hi(b, horizontal) : b \in boxes} :
        /\ Lo(region, horizontal) < at /\ at < Hi(region, horizontal)
        /\ \A b \in boxes : Lo(b, horizontal) >= at + Kerf \/ Hi(b, horizontal) <= at}

\* A cut worth trying: past the far edge of a box, or a blade before its near edge;
\* inside the region and through no box.
Candidates(region, boxes, horizontal) ==
    {at \in {Hi(b, horizontal) : b \in boxes} \union {Lo(b, horizontal) - Kerf : b \in boxes} :
        /\ Lo(region, horizontal) < at /\ at < Hi(region, horizontal)
        /\ \A b \in boxes : Lo(b, horizontal) >= at + Kerf \/ Hi(b, horizontal) <= at}

\* Lower is better: usable area kept, then gathered in few large pieces, then fewer
\* leftovers, then less travel of the saw.
Rank(leftovers, length) ==
    LET usable == {r \in leftovers : r.w >= MinUsable /\ r.h >= MinUsable} IN
    <<-MapThenSumSet(Area, usable), -MapThenSumSet(LAMBDA r : Area(r) * Area(r), usable),
      Cardinality(leftovers), length>>

Plan(list, leftovers, length) == [cuts |-> list, leftovers |-> leftovers, length |-> length]

\* solve: the best tree that frees the boxes of a region, or none.
RECURSIVE Trees(_, _)
Trees(region, boxes) ==
    IF boxes = {} THEN {Plan(<<>>, Kept({region}), 0)}
    ELSE IF boxes = {region} THEN {Plan(<<>>, {}, 0)}
    ELSE LET Split(hz, at) ==
                 LET near == {b \in boxes : Hi(b, hz) <= at}
                     cut == CutAt(region, hz, at) IN
                 {[key |-> Rank(n.leftovers \union f.leftovers, cut.length + n.length + f.length)
                              \o <<at, IF hz THEN 1 ELSE 0>>,
                   plan |-> Plan(<<cut>> \o n.cuts \o f.cuts, n.leftovers \union f.leftovers,
                                 cut.length + n.length + f.length)] :
                    n \in Trees(NearSide(region, hz, at), near),
                    f \in Trees(FarSide(region, hz, at), boxes \ near)}
             splits == UNION {Split(hz, at) : <<hz, at>> \in
                 UNION {{hz} \X Candidates(region, boxes, hz) : hz \in BOOLEAN}} IN
         {s.plan : s \in {s \in splits : \A t \in splits : ~LexLess(t.key, s.key)}}

\* consolidate_layout: the tree of the same placements, if it leaves more.
Consolidated(usable, boxes, packed) ==
    LET better == {t \in Trees(usable, boxes) :
            LexLess(Rank(t.leftovers, t.length), Rank(packed.leftovers, packed.length))} IN
    IF better = {} THEN packed ELSE CHOOSE t \in better : TRUE

-----------------------------------------------------------------------------
\* iter_violations, on boxes: pieces, each of the size it should have, and offcuts
\* to be kept whole.
Violations(sheet, usable, boxes, wholes) ==
    {"out_of_bounds" : b \in {b \in boxes : ~Within(b, sheet)}}
    \union {"inside_trim" : b \in {b \in boxes : Within(b, sheet) /\ ~Within(b, usable)}}
    \union {IF Apart(b, c, 0) THEN "kerf" ELSE "overlap" :
                <<b, c>> \in {bc \in boxes \X boxes : bc[1] # bc[2] /\ ~Apart(bc[1], bc[2], Kerf)}}
    \union {"whole_offcut_overlap" : r \in {r \in wholes :
                \/ ~Within(r, usable)
                \/ \E b \in boxes \union (wholes \ {r}) : ~Apart(r, b, Kerf)}}

\* realize_sheet: the tree, or every reason there is none.
Realized(sheet, usable, boxes, wholes) ==
    LET wrong == Violations(sheet, usable, boxes, wholes)
        trees == IF wrong = {} THEN Trees(usable, boxes \union wholes) ELSE {} IN
    [wrong |-> IF wrong = {} /\ trees = {} THEN {"not_guillotine"} ELSE wrong, trees |-> trees]

Holds(sheet, usable, boxes, wholes) == Realized(sheet, usable, boxes, wholes).wrong = {}

-----------------------------------------------------------------------------
\* free_rectangles: every obstacle, a blade larger on all sides, is carved out.
Carved(ob, free) ==
    LET hit == {f \in free : ~Apart(f, ob, Kerf)}
        Left(f) == [f EXCEPT !.w = ob.x - Kerf - f.x]
        Below(f) == [f EXCEPT !.h = ob.y - Kerf - f.y]
        Right(f) == LET from == ob.x + ob.w + Kerf IN [f EXCEPT !.x = from, !.w = f.x + f.w - from]
        Above(f) == LET from == ob.y + ob.h + Kerf IN [f EXCEPT !.y = from, !.h = f.y + f.h - from]
        pieces == {r \in UNION {{Left(f), Below(f), Right(f), Above(f)} : f \in hit} :
                      r.w > 0 /\ r.h > 0} IN
    (free \ hit) \union
        {r \in pieces : \A o \in ((free \ hit) \union pieces) \ {r} : ~Within(r, o)}

FreeRectangles(usable, boxes) == FoldSet(Carved, {usable}, boxes)

\* Mistake: any place inside a leftover.
Inside(box, leftovers) == \E r \in leftovers : Within(box, r)

\* Inside one leftover, flush with its near edges or more than a blade away.
Freeable(box, leftovers) ==
    \E r \in leftovers :
        /\ Within(box, r)
        /\ box.x = r.x \/ box.x - r.x > Kerf
        /\ box.y = r.y \/ box.y - r.y > Kerf

Used(box, wholes) == {r \in wholes : ~Apart(box, r, Kerf)}

\* placement_candidates, for one orientation of the piece.
Corners(usable, others, w, h) ==
    UNION {{Rect(x, y, w, h) : x \in {f.x, f.x + f.w - w}, y \in {f.y, f.y + f.h - h}} :
              f \in {f \in FreeRectangles(usable, others) : f.w >= w /\ f.h >= h}}

Places(sheet, usable, others, wholes, w, h) ==
    LET base == Realized(sheet, usable, others, wholes)
        kept == UNION {t.leftovers : t \in base.trees} IN
    {box \in Corners(usable, others, w, h) :
        \/ Used(box, wholes) = {} /\ Freeable(box, kept)
        \/ /\ base.wrong = {}
           /\ Holds(sheet, usable, others \union {box}, wholes \ Used(box, wholes))}

\* leftover_extensions: the leftover grown one way, up to what stands there.
Grown(usable, leftover, obstacles) ==
    LET l == leftover
        beside == {o \in obstacles : o.y - Kerf < l.y + l.h /\ l.y < o.y + o.h + Kerf}
        above == {o \in obstacles : o.x - Kerf < l.x + l.w /\ l.x < o.x + o.w + Kerf}
        right == Min({usable.x + usable.w}
                     \union {o.x - Kerf : o \in {o \in beside : o.x - Kerf >= l.x + l.w}})
        left == Max({usable.x} \union
                    {o.x + o.w + Kerf : o \in {o \in beside : o.x + o.w + Kerf <= l.x}})
        top == Min({usable.y + usable.h}
                   \union {o.y - Kerf : o \in {o \in above : o.y - Kerf >= l.y + l.h}})
        bottom == Max({usable.y} \union
                      {o.y + o.h + Kerf : o \in {o \in above : o.y + o.h + Kerf <= l.y}}) IN
    {r \in {[l EXCEPT !.w = right - l.x], [l EXCEPT !.x = left, !.w = l.x + l.w - left],
            [l EXCEPT !.h = top - l.y], [l EXCEPT !.y = bottom, !.h = l.y + l.h - bottom]} :
        Area(r) > Area(l)}

Extensions(sheet, usable, boxes, wholes, leftover) ==
    LET others == wholes \ {leftover} IN
    {r \in Grown(usable, leftover, boxes \union others) :
        Holds(sheet, usable, boxes, others \union {r})}

-----------------------------------------------------------------------------
\* The saw itself, from nothing above: a cut goes edge to edge through one panel, at
\* any place, and the blade may overhang the far edge.
Sawn(panels, cut) ==
    LET Across(p) == IF cut.horizontal THEN cut.x = p.x /\ cut.length = p.w /\ p.y < cut.y /\ cut.y < p.y + p.h
                     ELSE cut.y = p.y /\ cut.length = p.h /\ p.x < cut.x /\ cut.x < p.x + p.w
        at == IF cut.horizontal THEN cut.y ELSE cut.x
        through == {p \in panels : Across(p)} IN
    (panels \ through) \union UNION {{NearSide(p, cut.horizontal, at), FarSide(p, cut.horizontal, at)} : p \in through}

\* The panels after the cuts of a list, in its order.
RECURSIVE SawnInOrder(_, _)
SawnInOrder(panels, list) ==
    IF list = <<>> THEN panels ELSE SawnInOrder(Sawn(panels, Head(list)), Tail(list))

\* The same, in whatever order the list can be run.
RECURSIVE SawnSomehow(_, _)
SawnSomehow(panels, list) ==
    LET ready == {i \in DOMAIN list : Sawn(panels, list[i]) # panels} IN
    IF ready = {} THEN panels
    ELSE LET i == Min(ready) IN
         SawnSomehow(Sawn(panels, list[i]), SubSeq(list, 1, i - 1) \o SubSeq(list, i + 1, Len(list)))

\* Whether any cuts at all free the boxes.
RECURSIVE Freed(_, _)
Freed(region, boxes) ==
    \/ boxes = {} \/ boxes = {region}
    \/ \E hz \in BOOLEAN : \E at \in Lo(region, hz)..Hi(region, hz) :
          /\ Lo(region, hz) < at /\ at < Hi(region, hz)
          /\ \A b \in boxes : Lo(b, hz) >= at + Kerf \/ Hi(b, hz) <= at
          /\ Freed(NearSide(region, hz, at), {b \in boxes : Hi(b, hz) <= at})
          /\ Freed(FarSide(region, hz, at), {b \in boxes : Hi(b, hz) > at})

=============================================================================
