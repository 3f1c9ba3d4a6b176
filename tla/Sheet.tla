-------------------------------- MODULE Sheet --------------------------------
(***************************************************************************)
(* Rectangles on a sheet and the blade that separates them. Dimensions are *)
(* whole numbers (millimetres); x runs along the width, y along the height. *)
(***************************************************************************)
EXTENDS Integers

CONSTANTS
    Kerf,      \* the blade
    MinRect    \* what is thinner is not kept

ASSUME SheetAssumption == Kerf \in Nat /\ MinRect \in Nat \ {0}

Rect(x, y, w, h) == [x |-> x, y |-> y, w |-> w, h |-> h]

Rectangle == [x : Int, y : Int, w : Int, h : Int]

Area(r) == r.w * r.h

Kept(rects) == {r \in rects : r.w >= MinRect /\ r.h >= MinRect}

Within(r, outer) ==
    /\ outer.x <= r.x /\ r.x + r.w <= outer.x + outer.w
    /\ outer.y <= r.y /\ r.y + r.h <= outer.y + outer.h

\* _separation >= kerf: a blade's width apart on at least one axis.
Apart(a, b, gap) ==
    \/ a.x + a.w + gap <= b.x
    \/ b.x + b.w + gap <= a.x
    \/ a.y + a.h + gap <= b.y
    \/ b.y + b.h + gap <= a.y

LexLess(s, t) == \E i \in DOMAIN s : s[i] < t[i] /\ \A j \in 1..(i - 1) : s[j] = t[j]

\* A cut runs from its corner, along x or along y; a blade wide.
Cut(x, y, length, horizontal) ==
    [x |-> x, y |-> y, length |-> length, horizontal |-> horizontal]

=============================================================================
