----------------------------- MODULE MCWorkshop ------------------------------
(***************************************************************************)
(* The parts of the cutting engine that share no state, side by side: the  *)
(* behaviour is about one of them, chosen at the start, and the others     *)
(* rest. The bench is any few boxes laid on a sheet, to hold the checks of  *)
(* a sheet against the saw itself.                                         *)
(***************************************************************************)
EXTENDS PoolExecutor, LayoutEditor, PlanSearch, OffcutPool, TLC

CONSTANTS thread1, thread2, p1, p2, p3

TwoThreads == {thread1, thread2}

\* Three pieces of 3x3, 1x2 and 3x1; the last two may be turned.
ThreePieces == {p1, p2, p3}
Widths == p1 :> 3 @@ p2 :> 1 @@ p3 :> 3
Heights == p1 :> 3 @@ p2 :> 2 @@ p3 :> 1
Turnable == {p2, p3}

SheetWidth == [whole |-> 12, half |-> 6, offcut |-> 5]
SheetHeight == [whole |-> 7, half |-> 7, offcut |-> 5]
SheetKinds == DOMAIN SheetWidth
FourTrims == [left |-> 1, right |-> 0, top |-> 0, bottom |-> 1]
WholeUsable == Rect(1, 1, 11, 6)

Portfolio ==
    [fill : {"greedy"}, selection : {"best_area", "bottom_left"},
     split : {"SHORTER_LEFTOVER_AXIS", "LONGER_AXIS", "MAXIMIZE_AREA"}]
    \union [fill : {"vertical", "horizontal"}, selection : {"best_area"}, split : {"SHORTER_LEFTOVER_AXIS"}]

\* BOUND: the editor opens what one point of the portfolio packs, the largest first.
Greedy == [fill |-> "greedy", selection |-> "best_area", split |-> "SHORTER_LEFTOVER_AXIS"]

LargestFirst(packed) ==
    \A p \in packed, q \in todo : Width[q] * Height[q] <= Width[p] * Height[p]

\* The quote as it is laid out, and the ways it may change afterwards.
Quoted == [width |-> Widths, height |-> Heights, turns |-> Turnable, trimmed |-> TRUE,
           count |-> [whole |-> 9, half |-> 9, offcut |-> 1]]

QuoteInputs ==
    {Quoted, [Quoted EXCEPT !.count["offcut"] = 0], [Quoted EXCEPT !.count = [whole |-> 1, half |-> 0, offcut |-> 1]],
     [Quoted EXCEPT !.trimmed = FALSE], [Quoted EXCEPT !.width[p2] = 2], [Quoted EXCEPT !.turns = {}],
     [Quoted EXCEPT !.width = p1 :> 3 @@ p2 :> 1, !.height = p1 :> 3 @@ p2 :> 2, !.turns = {p2}]}

Offer(long, cost, half, count, key) ==
    [long |-> long, cost |-> cost, half |-> half, count |-> count, key |-> key]

BoardAndHalf == <<Offer(12, 24, FALSE, 9, 1), Offer(6, 18, TRUE, 9, 1)>>
PricedOffcuts == <<Offer(4, 4, FALSE, 1, 2), Offer(7, 7, FALSE, 1, 3), Offer(10, 10, FALSE, 1, 4)>>
FreeOffcuts == <<Offer(8, 0, FALSE, 1, 2), Offer(10, 0, FALSE, 2, 3)>>
FreeAndBoard == <<Offer(8, 0, FALSE, 1, 2)>> \o BoardAndHalf

FourShops == {BoardAndHalf, PricedOffcuts, FreeOffcuts, FreeAndBoard}
Lists == BoardAndHalf :> {3, 4, 5, 6} @@ PricedOffcuts :> {1, 3, 4, 5}
         @@ FreeOffcuts :> {2, 3, 4, 6} @@ FreeAndBoard :> {4, 5, 6, 9}
Lengths == [p \in Parts |-> p]

\* Three slats, the first of which may be turned; boards, with a half board or without,
\* and the client's offcuts, one of them larger than the board.
ThreeSlats == {1, 2, 3}
SlatsLying == <<3, 6, 7>>
SlatsUpright == <<2, 6, 7>>

Stock(long, cost, count) == [long |-> long, cost |-> cost, count |-> count]
NoHalf == Stock(0, 0, 0)
FillOrders == {"offcuts_first", "catalog_first", "auto"}

PoolOf(bins, half, order) == [bins |-> bins, half |-> half, order |-> order]
EightPools ==
    {PoolOf(<<Stock(12, 24, 0), Stock(5, 0, 2)>>, Stock(6, 18, 0), o) : o \in FillOrders}
    \union {PoolOf(<<Stock(6, 12, 0), Stock(8, 0, 1)>>, NoHalf, o) : o \in FillOrders}
    \union {PoolOf(bins, NoHalf, "auto") :
               bins \in {<<Stock(6, 0, 1), Stock(8, 0, 1)>>,
                         <<Stock(6, 0, 2), Stock(4, 3, 1), Stock(7, 0, 1)>>}}

-----------------------------------------------------------------------------
VARIABLES focus, bench

workshopVars == <<focus, bench, poolVars, packerVars, layoutVars, planVars, offcutVars>>

BenchSheet == Rect(0, 0, 5, 4)

BenchBoxes == {b \in [x : 0..4, y : 0..3, w : 1..3, h : 1..2] : Within(b, BenchSheet)}

\* BOUND: three boxes.
LayBox(b) ==
    /\ Cardinality(bench) < 3
    /\ \A c \in bench : Apart(b, c, Kerf) /\ LexLess(<<c.x, c.y>>, <<b.x, b.y>>)
    /\ bench' = bench \union {b}

Init ==
    /\ focus \in {"pool", "sheet", "editor", "bench", "plans", "offcuts"}
    /\ bench = {}
    /\ PoolInit /\ PackerInit /\ LayoutInit /\ PlanInit /\ OffcutInit
    /\ focus # "sheet" => config = Greedy
    /\ focus # "plans" => shop = BoardAndHalf
    /\ focus # "offcuts" => asked = PoolOf(<<Stock(12, 24, 0), Stock(5, 0, 2)>>, Stock(6, 18, 0), "auto")

Next ==
    /\ UNCHANGED focus
    /\ \/ focus = "pool" /\ PoolNext /\ UNCHANGED <<bench, packerVars, layoutVars, planVars, offcutVars>>
       \/ /\ focus \in {"sheet", "editor"}
          /\ PackerNext
          /\ focus = "editor" => LargestFirst(todo \ todo')
          /\ UNCHANGED <<bench, poolVars, layoutVars, planVars, offcutVars>>
       \/ focus = "editor" /\ LayoutNext /\ UNCHANGED <<bench, poolVars, planVars, offcutVars>>
       \/ /\ focus = "bench"
          /\ \E b \in BenchBoxes : LayBox(b)
          /\ UNCHANGED <<poolVars, packerVars, layoutVars, planVars, offcutVars>>
       \/ focus = "plans" /\ PlanNext /\ UNCHANGED <<bench, poolVars, packerVars, layoutVars, offcutVars>>
       \/ /\ focus = "offcuts"
          /\ OffcutNext
          /\ UNCHANGED <<bench, poolVars, packerVars, layoutVars, planVars>>

Spec ==
    /\ Init /\ [][Next]_workshopVars
    /\ \A t \in Threads : WF_workshopVars(focus = "pool" /\ Serve(t)
                                            /\ UNCHANGED <<focus, bench, packerVars, layoutVars, planVars,
                                                             offcutVars>>)

\* The types of every component's state; of the two searches, all they have in hand.
TypesOK == PoolTyped /\ PackerTyped /\ LayoutTyped /\ PlanInv /\ OffcutInv

Boxes == {placed[p] : p \in DOMAIN placed}

\* What the portfolio packs can be sawn: its own cuts, in some order, free every piece
\* and leftover it reports, and so does the tree the sheet is tidied with, in order.
PackedCanBeSawn ==
    sheetDone =>
        /\ Boxes \union finished \subseteq SawnSomehow({Usable}, cuts)
        /\ Trees(Usable, Boxes) # {}
        /\ \A t \in Trees(Usable, Boxes) :
              Boxes \union t.leftovers \subseteq SawnInOrder({Usable}, t.cuts)

Largest3 ==
    LET rects == {r \in [x : 0..4, y : 0..3, w : 1..5, h : 1..4] :
                     Within(r, BenchSheet) /\ \A b \in bench : Apart(r, b, Kerf)} IN
    {r \in rects : \A s \in rects \ {r} : ~Within(r, s)}

\* And any boxes at all: the check lets through just what some cuts free, and the free
\* rectangles it offers are all there are.
ChecksAreExact ==
    bench # {} =>
        /\ (Trees(BenchSheet, bench) # {}) = Freed(BenchSheet, bench)
        /\ FreeRectangles(BenchSheet, bench) = Largest3

\* Sheets, the engine's and others', are held to what the saw can do and to no more:
\* packed, laid on the bench, or arranged by hand and read back after the quote changed.
SheetsAreCuttable == PackedCanBeSawn /\ ChecksAreExact /\ EditsAndReadsHold
=============================================================================
