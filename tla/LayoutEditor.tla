---------------------------- MODULE LayoutEditor -----------------------------
(***************************************************************************)
(* One pool's sheets rearranged by hand: the editor starts from what the    *)
(* engine packed, moves pieces where the service says they fit, and saves   *)
(* an adjustment that replaces the pool's plan for as long as it holds.     *)
(***************************************************************************)
EXTENDS Packer, SheetCheck

CONSTANTS
    Bins,          \* kinds of sheet: "whole" is the anchor, "half" its half
    BinWidth, BinHeight,
    Trims,         \* [left, right, top, bottom]
    Inputs,        \* the cut lists and materials the quote may have
    Plenty,        \* the count of a board: more than anyone cuts
    MaxSheets, MaxEdits, MaxRequotes

\* A quote's inputs: width and height per piece listed, the pieces that may turn,
\* sheets per bin (0: not in the quote), whether the sheets are trimmed.
ASSUME EditorAssumption ==
    /\ {"whole", "half"} \subseteq Bins /\ MaxSheets < Plenty
    /\ \A in \in Inputs : DOMAIN in.width = DOMAIN in.height /\ DOMAIN in.count = Bins

VARIABLES
    inputs,        \* the quote's inputs
    packedSheet,   \* what the engine packed for the first ones
    draft,         \* the editor's working sheets, <<>> when it is closed
    edits,
    saved,         \* the quote's adjustment, <<>> when it has none
    requotes

layoutVars == <<inputs, packedSheet, draft, edits, saved, requotes>>

-----------------------------------------------------------------------------
\* A spot is a corner and a way round; the size comes from the list.
Spot(x, y, t) == [x |-> x, y |-> y, turned |-> t]

WideOf(in, p, t) == IF t THEN in.height[p] ELSE in.width[p]
HighOf(in, p, t) == IF t THEN in.width[p] ELSE in.height[p]

BoxAt(in, p, s) == Rect(s.x, s.y, WideOf(in, p, s.turned), HighOf(in, p, s.turned))

SheetOf(b) == Rect(0, 0, BinWidth[b], BinHeight[b])

\* _pool_params: without trims the whole sheet is usable.
UsableOf(in, b) ==
    IF ~in.trimmed THEN SheetOf(b)
    ELSE Rect(Trims.left, Trims.bottom, BinWidth[b] - Trims.left - Trims.right,
              BinHeight[b] - Trims.top - Trims.bottom)

\* Pieces the list no longer has are skipped.
BoxesOf(in, sheet) ==
    {BoxAt(in, p, sheet.at[p]) : p \in DOMAIN sheet.at \intersect DOMAIN in.width}

Empty(sheet) == DOMAIN sheet.at = {}

OnSheets(sheets) == UNION {DOMAIN sheets[i].at : i \in DOMAIN sheets}

Pending(in, sheets) == DOMAIN in.width \ OnSheets(sheets)

-----------------------------------------------------------------------------
Exhausted(in, sheets, i) ==
    Cardinality({j \in 1..i : ~Empty(sheets[j]) /\ sheets[j].bin = sheets[i].bin})
        > in.count[sheets[i].bin]

\* realize_pool, one sheet: an empty one is neither cut nor billed.
SheetIssues(in, sheets, i) ==
    LET sheet == sheets[i]  b == sheet.bin IN
    IF in.count[b] = 0 THEN {"sheet_not_available"}
    ELSE IF Empty(sheet) THEN {}
    ELSE IF Exhausted(in, sheets, i) THEN {"offcut_exhausted"}
    ELSE LET listed == {"unknown_piece" : p \in DOMAIN sheet.at \ DOMAIN in.width}
                 \union {"duplicate_piece" : p \in {p \in DOMAIN sheet.at :
                            \E j \in 1..(i - 1) : p \in DOMAIN sheets[j].at}} IN
         IF listed # {} THEN listed
         ELSE {"rotation_not_allowed" : p \in {p \in DOMAIN sheet.at :
                    sheet.at[p].turned /\ p \notin in.turns}}
              \union Realized(SheetOf(b), UsableOf(in, b), BoxesOf(in, sheet), sheet.wholes).wrong

Finite(in) == in.count["whole"] < Plenty

\* Pieces may wait while the editor is open, or where the stock is finite.
Issues(in, sheets, mode) ==
    LET wrong == UNION {SheetIssues(in, sheets, i) : i \in DOMAIN sheets} IN
    IF wrong = {} /\ Pending(in, sheets) # {} /\ ~Finite(in) /\ mode # "editing"
    THEN {"pending_pieces"} ELSE wrong

-----------------------------------------------------------------------------
\* The engine's sheet, consolidated, is what the editor opens with.
OpenEditor ==
    /\ sheetDone /\ todo = {}
    /\ LET boxes == {placed[p] : p \in DOMAIN placed}
           tidy == Consolidated(Usable, boxes, Plan(cuts, finished, 0)) IN
       packedSheet' = [bin |-> "whole", wholes |-> {}, leftovers |-> tidy.leftovers,
                       at |-> [p \in DOMAIN placed |->
                                  Spot(placed[p].x, placed[p].y, p \in turned)]]
    /\ draft' = <<[bin |-> "whole", wholes |-> {}, at |-> packedSheet'.at]>>
    /\ config' = CHOOSE c \in Configs : TRUE
    /\ placed' = [p \in {} |-> NoStrip] /\ turned' = {} /\ cuts' = <<>>
    /\ finished' = {} /\ sheetDone' = FALSE
    /\ UNCHANGED <<todo, remainders, strip, room, inputs, edits, saved, requotes>>

\* The leftovers the editor draws: an untouched sheet is shown as it was packed.
LeftoversOf(sheet) ==
    IF sheet.at = packedSheet.at /\ sheet.bin = packedSheet.bin /\ sheet.wholes = {}
    THEN packedSheet.leftovers
    ELSE UNION {t.leftovers : t \in Trees(UsableOf(inputs, sheet.bin),
                                          BoxesOf(inputs, sheet) \union sheet.wholes)} \ sheet.wholes

Without(at, p) == [q \in DOMAIN at \ {p} |-> at[q]]
With(at, p, s) == [q \in DOMAIN at \union {p} |-> IF q = p THEN s ELSE at[q]]

\* layout_candidates for a piece on a sheet: the corners of the free space, and where
\* it is now, as it is or turned there, when that still holds.
Offered(p, sheet) ==
    LET b == sheet.bin
        others == BoxesOf(inputs, [sheet EXCEPT !.at = Without(@, p)])
        ways == IF p \in inputs.turns THEN BOOLEAN ELSE {FALSE}
        Placing(t) == Places(SheetOf(b), UsableOf(inputs, b), others, sheet.wholes,
                             WideOf(inputs, p, t), HighOf(inputs, p, t))
        Stays(s) == LET box == BoxAt(inputs, p, s) IN
            Holds(SheetOf(b), UsableOf(inputs, b), others \union {box},
                  sheet.wholes \ Used(box, sheet.wholes))
        here == IF p \in DOMAIN sheet.at
                THEN {s \in {Spot(sheet.at[p].x, sheet.at[p].y, t) : t \in ways} : Stays(s)} ELSE {} IN
    here \union UNION {{Spot(r.x, r.y, t) : r \in Placing(t)} : t \in ways}

Edit(sheets) ==
    /\ edits < MaxEdits
    /\ draft' = sheets /\ edits' = edits + 1
    /\ UNCHANGED <<packerVars, inputs, packedSheet, saved, requotes>>

TakenOff(p) == [i \in DOMAIN draft |-> [draft[i] EXCEPT !.at = Without(@, p)]]

\* A piece goes where it is offered; a whole offcut it lands on is given up.
MovePiece(p, i) ==
    /\ p \in DOMAIN inputs.width /\ edits < MaxEdits
    /\ \E s \in Offered(p, draft[i]) :
          Edit([TakenOff(p) EXCEPT ![i].at = With(@, p, s),
                                   ![i].wholes = @ \ Used(BoxAt(inputs, p, s), @)])

PutAside(p) == p \in OnSheets(draft) /\ Edit(TakenOff(p))

\* A leftover grown one way, to be cut out whole.
KeepWhole(i) ==
    /\ ~Empty(draft[i]) /\ edits < MaxEdits
    /\ \E leftover \in LeftoversOf(draft[i]) \union draft[i].wholes :
       LET b == draft[i].bin IN
       \E r \in Extensions(SheetOf(b), UsableOf(inputs, b), BoxesOf(inputs, draft[i]),
                           draft[i].wholes, leftover) :
          Edit([draft EXCEPT ![i].wholes = (@ \ {leftover}) \union {r}])

\* _sheet_conversions: as it lies, or shifted into the other half.
Shifts(b) ==
    LET dx == BinWidth["whole"] - BinWidth["half"]
        dy == BinHeight["whole"] - BinHeight["half"] IN
    {<<0, 0>>} \union (IF b = "whole" THEN {<<-dx, -dy>>} ELSE {})

Convert(i, shift) ==
    /\ draft[i].bin \in {"whole", "half"} /\ inputs.count["half"] > 0 /\ edits < MaxEdits
    /\ shift \in Shifts(draft[i].bin)
    /\ LET Moved(r) == [r EXCEPT !.x = @ + shift[1], !.y = @ + shift[2]]
           to == IF draft[i].bin = "whole" THEN "half" ELSE "whole"
           new == [bin |-> to, wholes |-> {Moved(r) : r \in draft[i].wholes},
                   at |-> [p \in DOMAIN draft[i].at |-> Moved(draft[i].at[p])]] IN
       /\ Holds(SheetOf(to), UsableOf(inputs, to), BoxesOf(inputs, new), new.wholes)
       /\ Edit([draft EXCEPT ![i] = new])

\* What is left of a bin, by the sheets in use.
AddSheet(b) ==
    /\ draft # <<>> /\ Len(draft) < MaxSheets
    /\ Cardinality({i \in DOMAIN draft : ~Empty(draft[i]) /\ draft[i].bin = b}) < inputs.count[b]
    /\ Edit(Append(draft, [bin |-> b, wholes |-> {}, at |-> [p \in {} |-> Spot(0, 0, FALSE)]]))

\* A write: strict, and no quote is saved with a piece left uncut.
SaveLayout ==
    /\ draft # <<>>
    /\ Issues(inputs, draft, "strict") = {} /\ Pending(inputs, draft) = {}
    /\ saved' = draft /\ draft' = <<>>
    /\ edits' = 0
    /\ UNCHANGED <<packerVars, inputs, packedSheet, requotes>>

-----------------------------------------------------------------------------
\* The quote edited elsewhere: an adjustment that no longer holds is pruned. With an
\* adjustment that holds but leaves a piece out, the edit is refused.
EditQuote(new) ==
    /\ draft = <<>> /\ saved # <<>> /\ requotes < MaxRequotes
    /\ LET kept == IF Issues(new, saved, "lenient") = {} THEN saved ELSE <<>> IN
       /\ kept # <<>> => Pending(new, kept) = {}
       /\ saved' = kept
    /\ inputs' = new /\ requotes' = requotes + 1
    /\ UNCHANGED <<packerVars, packedSheet, draft, edits>>

\* The catalog or the settings change under the quote, and nothing looks at it.
InputsChange(new) ==
    /\ draft = <<>> /\ saved # <<>> /\ requotes < MaxRequotes
    /\ inputs' = new /\ requotes' = requotes + 1
    /\ UNCHANGED <<packerVars, packedSheet, draft, edits, saved>>

LayoutInit ==
    /\ inputs \in {in \in Inputs : in.trimmed /\ in.width = Width /\ in.height = Height
                                   /\ in.turns = Turns /\ ~Finite(in)}
    /\ draft = <<>> /\ saved = <<>> /\ edits = 0 /\ requotes = 0
    /\ packedSheet = [bin |-> "whole", wholes |-> {}, leftovers |-> {},
                      at |-> [p \in {} |-> Spot(0, 0, FALSE)]]

LayoutNext ==
    \/ OpenEditor
    \/ \E p \in Pieces : PutAside(p) \/ \E i \in DOMAIN draft : MovePiece(p, i)
    \/ \E i \in DOMAIN draft : KeepWhole(i) \/ \E shift \in Shifts(draft[i].bin) : Convert(i, shift)
    \/ \E b \in Bins : AddSheet(b)
    \/ SaveLayout
    \/ \E new \in Inputs : EditQuote(new) \/ InputsChange(new)

-----------------------------------------------------------------------------
LayoutTyped ==
    /\ inputs \in Inputs /\ edits \in 0..MaxEdits /\ requotes \in 0..MaxRequotes
    /\ \A sheets \in {draft, saved, <<packedSheet>>} : \A i \in DOMAIN sheets :
          /\ sheets[i].bin \in Bins
          /\ \A p \in DOMAIN sheets[i].at : p \in Pieces /\ (sheets[i].at[p].turned => p \in Turns)
    /\ packedSheet.leftovers \subseteq Rectangle

\* A read is lenient: what no longer holds is left out, and the engine's plan shown.
Served == IF saved # <<>> /\ Issues(inputs, saved, "lenient") = {} THEN saved ELSE <<>>

\* A sheet the shop could cut, told without the checks above.
Cuttable(in, sheet) ==
    LET boxes == BoxesOf(in, sheet) \union sheet.wholes IN
    /\ \A p \in DOMAIN sheet.at : p \in DOMAIN in.width /\ (sheet.at[p].turned => p \in in.turns)
    /\ Cardinality(boxes) = Cardinality(DOMAIN sheet.at) + Cardinality(sheet.wholes)
    /\ \A b \in boxes : /\ Within(b, UsableOf(in, sheet.bin))
                        /\ \A c \in boxes \ {b} : Apart(b, c, Kerf)
    /\ Freed(UsableOf(in, sheet.bin), boxes)

InStock(in, sheets) ==
    \A b \in Bins : Cardinality({i \in DOMAIN sheets : ~Empty(sheets[i]) /\ sheets[i].bin = b}) <= in.count[b]

\* What the editor offers holds: after any edit it proposed, every sheet can be cut
\* and no piece is on two. And the adjustment a quote shows is one the shop can cut,
\* piece for piece, whatever happened to the inputs since it was saved.
EditsAndReadsHold ==
    /\ \A i \in DOMAIN draft : Cuttable(inputs, draft[i])
    /\ draft # <<>> => Issues(inputs, draft, "editing") \subseteq {"offcut_exhausted"}
    /\ \A sheets \in {draft, Served} : \A i, j \in DOMAIN sheets :
          i # j => DOMAIN sheets[i].at \intersect DOMAIN sheets[j].at = {}
    /\ \A i \in DOMAIN Served : ~Empty(Served[i]) => Cuttable(inputs, Served[i])
    /\ Served # <<>> => InStock(inputs, Served) /\ (~Finite(inputs) => Pending(inputs, Served) = {})

=============================================================================
