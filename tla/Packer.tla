------------------------------- MODULE Packer --------------------------------
(***************************************************************************)
(* One sheet filled with guillotine cuts, the way every constructor of the *)
(* engine fills it: greedily, or in first-stage strips each packed in its   *)
(* turn. The order of the pieces, the size of a strip and the winner of a   *)
(* tie are left open: the portfolio tries many of each.                     *)
(***************************************************************************)
EXTENDS Sheet, Sequences, FiniteSets

CONSTANTS
    Pieces,
    Width, Height, \* per piece, as typed
    Turns,         \* pieces that may be turned
    Usable,        \* the sheet less its trims
    Configs        \* the portfolio: how to fill, split and select

ASSUME PackerAssumption ==
    /\ IsFiniteSet(Pieces)
    /\ Width \in [Pieces -> Nat \ {0}] /\ Height \in [Pieces -> Nat \ {0}]
    /\ Turns \subseteq Pieces
    /\ Usable \in Rectangle /\ Usable.w > 0 /\ Usable.h > 0
    /\ \A c \in Configs : /\ c.fill \in {"greedy", "vertical", "horizontal"}
                          /\ c.selection \in {"best_area", "bottom_left"}

VARIABLES
    config,      \* the point of the portfolio
    todo,        \* pieces not placed
    placed,      \* per piece placed, where
    turned,      \* those placed the other way round
    remainders,  \* the free rectangles of the strip in hand
    finished,    \* those of the strips done
    strip,       \* the strip in hand, if any
    room,        \* what the strips have not reached
    cuts,
    sheetDone

packerVars == <<config, todo, placed, turned, remainders, finished, strip, room, cuts, sheetDone>>

-----------------------------------------------------------------------------
NoStrip == Rect(0, 0, 0, 0)

\* A piece in a free rectangle, as it is or turned.
Option(p, r, t) ==
    [rect |-> r, turned |-> t, w |-> IF t THEN Height[p] ELSE Width[p],
                               h |-> IF t THEN Width[p] ELSE Height[p]]

\* Mistake: a piece is turned whether or not it may be.
EitherWay(p, rects) ==
    {o \in {Option(p, r, t) : r \in rects, t \in BOOLEAN} : o.w <= o.rect.w /\ o.h <= o.rect.h}

Options(p, rects) ==
    {o \in {Option(p, r, t) : r \in rects, t \in IF p \in Turns THEN BOOLEAN ELSE {FALSE}} :
        o.w <= o.rect.w /\ o.h <= o.rect.h}

\* The leftover area, or first the position; then the leftover width.
Score(o) ==
    LET leftover == Area(o.rect) - o.w * o.h IN
    IF config.selection = "bottom_left"
    THEN <<o.rect.x, o.rect.y, leftover, o.rect.w - o.w>>
    ELSE <<leftover, o.rect.w - o.w>>

Best(p) ==
    {o \in Options(p, remainders) :
        \A other \in Options(p, remainders) : ~LexLess(Score(other), Score(o))}

-----------------------------------------------------------------------------
\* What is left beside the piece and above it, for the cut made first.
RightOf(o, h) == Rect(o.rect.x + o.w + Kerf, o.rect.y, o.rect.w - o.w - Kerf, h)
AboveOf(o, w) == Rect(o.rect.x, o.rect.y + o.h + Kerf, w, o.rect.h - o.h - Kerf)

\* The names are the code's: "vertical first" leaves the top at full width.
Vertical(o) == {RightOf(o, o.h), AboveOf(o, o.rect.w)}
Horizontal(o) == {AboveOf(o, o.w), RightOf(o, o.rect.h)}

Positive(rects) == {r \in rects : r.w > 0 /\ r.h > 0}

Largest(rects) ==
    IF Positive(rects) = {} THEN 0
    ELSE CHOOSE a \in {Area(r) : r \in Positive(rects)} : \A r \in Positive(rects) : Area(r) <= a

VerticalFirst(o) ==
    LET across == o.rect.w - o.w  along == o.rect.h - o.h IN
    CASE config.split = "SHORTER_LEFTOVER_AXIS" -> across <= along
      [] config.split = "LONGER_LEFTOVER_AXIS" -> across >= along
      [] config.split = "SHORTER_AXIS" -> o.rect.w <= o.rect.h
      [] config.split = "LONGER_AXIS" -> o.rect.w >= o.rect.h
      [] config.split = "MINIMIZE_AREA" -> Largest(Vertical(o)) <= Largest(Horizontal(o))
      [] OTHER -> Largest(Vertical(o)) >= Largest(Horizontal(o))

\* _cuts_for: no cut where nothing is left.
CutsFor(o) ==
    LET r == o.rect
        above(length) == IF r.h > o.h THEN <<Cut(r.x, r.y + o.h, length, TRUE)>> ELSE <<>>
        beside(length) == IF r.w > o.w THEN <<Cut(r.x + o.w, r.y, length, FALSE)>> ELSE <<>> IN
    IF VerticalFirst(o) THEN above(r.w) \o beside(o.h) ELSE beside(r.h) \o above(o.w)

\* Mistake: both cuts run through, so the two leftovers share the corner.
SharedCorner(o) == Kept({RightOf(o, o.rect.h), AboveOf(o, o.rect.w)})

Split(o) == Kept(IF VerticalFirst(o) THEN Vertical(o) ELSE Horizontal(o))

\* _place_piece and _split_remainder.
PlacePiece(p) ==
    /\ ~sheetDone
    /\ p \in todo
    /\ \E o \in Best(p) :
          /\ placed' = [q \in DOMAIN placed \union {p} |->
                 IF q = p THEN Rect(o.rect.x, o.rect.y, o.w, o.h) ELSE placed[q]]
          /\ turned' = IF o.turned THEN turned \union {p} ELSE turned
          /\ remainders' = (remainders \ {o.rect}) \union Split(o)
          /\ cuts' = cuts \o CutsFor(o)
    /\ todo' = todo \ {p}
    /\ UNCHANGED <<config, finished, strip, room, sheetDone>>

\* A piece that fits nowhere now never will: the packer is through its list.
NothingFits == \A p \in todo : Options(p, remainders) = {}

-----------------------------------------------------------------------------
\* strip_fill: the strips advance along the width, or along the height.
Along == config.fill = "vertical"

Depth(r) == IF Along THEN r.w ELSE r.h

\* The candidate sizes: every dimension of a piece left, and the whole room.
Sizes ==
    {Depth(room)} \union {n \in 1..Depth(room) : \E p \in todo :
        \/ n = IF Along THEN Width[p] ELSE Height[p]
        \/ p \in Turns /\ n = IF Along THEN Height[p] ELSE Width[p]}

StripOf(size) ==
    IF Along THEN Rect(room.x, room.y, size, room.h) ELSE Rect(room.x, room.y, room.w, size)

\* A blade further, if anything is left; what is left may be less than the blade.
RoomAfter(size) ==
    LET step == size + IF size < Depth(room) THEN Kerf ELSE 0 IN
    IF Along THEN Rect(room.x + step, room.y, room.w - step, room.h)
    ELSE Rect(room.x, room.y + step, room.w, room.h - step)

RipAfter(size) ==
    IF size >= Depth(room) THEN <<>>
    ELSE IF Along THEN <<Cut(room.x + size, room.y, room.h, FALSE)>>
    ELSE <<Cut(room.x, room.y + size, room.w, TRUE)>>

OpenStrip(size) ==
    /\ config.fill # "greedy" /\ ~sheetDone
    /\ strip = NoStrip
    /\ Depth(room) >= MinRect
    /\ size \in Sizes
    /\ \E p \in todo : Options(p, {StripOf(size)}) # {}
    /\ strip' = StripOf(size)
    /\ remainders' = {StripOf(size)}
    /\ UNCHANGED <<config, todo, placed, turned, finished, room, cuts, sheetDone>>

\* The strip's own cuts are listed first, and then the rip that frees it.
CloseStrip ==
    /\ config.fill # "greedy"
    /\ strip # NoStrip /\ NothingFits
    /\ finished' = finished \union remainders
    /\ remainders' = {}
    /\ room' = RoomAfter(Depth(strip))
    /\ cuts' = cuts \o RipAfter(Depth(strip))
    /\ strip' = NoStrip
    /\ UNCHANGED <<config, todo, placed, turned, sheetDone>>

\* The tail of the sheet is one leftover more. A portfolio point may cap the strips
\* of one make-up, so strips can end while a piece would still fit.
CloseSheet ==
    /\ ~sheetDone
    /\ strip = NoStrip \/ config.fill = "greedy"
    /\ NothingFits \/ config.fill # "greedy"
    /\ placed # <<>>
    /\ sheetDone' = TRUE
    /\ finished' = finished \union remainders \union Kept({room})
    /\ remainders' = {}
    /\ strip' = NoStrip /\ room' = NoStrip
    /\ UNCHANGED <<config, todo, placed, turned, cuts>>

-----------------------------------------------------------------------------
PackerInit ==
    /\ config \in Configs
    /\ todo = Pieces /\ placed = [p \in {} |-> NoStrip] /\ turned = {} /\ cuts = <<>>
    /\ finished = {} /\ sheetDone = FALSE
    /\ IF config.fill = "greedy"
       THEN remainders = {Usable} /\ strip = Usable /\ room = NoStrip
       ELSE remainders = {} /\ strip = NoStrip /\ room = Usable

PackerNext ==
    \/ \E p \in Pieces : PlacePiece(p)
    \/ \E size \in Sizes : OpenStrip(size)
    \/ CloseStrip
    \/ CloseSheet

PackerSpec == PackerInit /\ [][PackerNext]_packerVars
-----------------------------------------------------------------------------
Free == remainders \union finished

PackerTyped ==
    /\ config \in Configs /\ todo \subseteq Pieces /\ DOMAIN placed \subseteq Pieces \ todo
    /\ turned \subseteq Turns \ todo
    /\ \A p \in DOMAIN placed : placed[p] \in Rectangle
    /\ Free \subseteq Rectangle /\ strip \in Rectangle /\ room \in Rectangle
    /\ sheetDone \in BOOLEAN

\* A packed sheet is physical: what was placed and what is free lie on the usable
\* sheet, no two of them closer than the blade, and every piece has its size.
PackedApart ==
    /\ \A p \in DOMAIN placed :
          /\ Within(placed[p], Usable)
          /\ {placed[p].w, placed[p].h} = {Width[p], Height[p]}
          /\ \A q \in DOMAIN placed \ {p} : Apart(placed[p], placed[q], Kerf)
          /\ \A r \in Free : Apart(placed[p], r, Kerf)
    /\ \A r \in Free : Within(r, Usable) /\ \A s \in Free \ {r} : Apart(r, s, Kerf)

=============================================================================
