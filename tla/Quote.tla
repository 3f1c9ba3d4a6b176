-------------------------------- MODULE Quote --------------------------------
(***************************************************************************)
(* A quote, from the catalog to the order: a request is resolved against   *)
(* the settings and the catalog, its cut plan comes out of the cache or of *)
(* the search, and the price level and the boards taken whole are laid     *)
(* over it, while staff edit what it was resolved against and Redis fails  *)
(* or forgets. A cart has at most one catalog board, one client offcut and *)
(* one tape. The search is external: pieces too large to share a sheet,    *)
(* each on the cheapest one it fits. Measures and money are whole numbers. *)
(***************************************************************************)
EXTENDS Integers, SequencesExt, Sums

CONSTANTS
    Counters,   \* who asks: each has one request in flight
    Carts,      \* the requests: rows, offcut, flags of the materials, services
    Policies,   \* the values the settings row takes
    BoardRows,  \* the values the board's product takes
    TapeRows,   \* the values the tape's product takes
    Height, Width,  \* of the board
    MaxRevisions,   \* BOUND: edits of the settings and the catalog
    MaxCached,      \* BOUND: plans in Redis
    MaxMinted       \* BOUND: orders

\* OptimizeRequest: at least one row, of whole pieces of some size, a price level, and
\* what the seller may add to it.
IsCart(cart) ==
    /\ DOMAIN cart = {"rows", "level", "leveled", "whole", "untrimmed", "services", "offcut"}
    /\ cart.level \in 1..3 /\ {cart.leveled, cart.whole} \subseteq BOOLEAN
    /\ cart.untrimmed \subseteq {"board", "offcut"} /\ cart.services \in Nat
    /\ {cart.offcut.height, cart.offcut.width, cart.offcut.quantity} \subseteq Nat \ {0}
    /\ Len(cart.rows) \in Nat \ {0} /\ DOMAIN cart.rows = 1..Len(cart.rows)
    /\ \A i \in DOMAIN cart.rows :
          /\ cart.rows[i].on \in {"board", "offcut"}
          /\ {cart.rows[i].height, cart.rows[i].width, cart.rows[i].quantity} \subseteq Nat \ {0}
          /\ {cart.rows[i].turns, cart.rows[i].hardEdgeCut, cart.rows[i].marked} \subseteq BOOLEAN
          /\ cart.rows[i].sides \subseteq {"top", "bottom", "left", "right"}

ASSUME QuoteAssumption ==
    /\ Height \in Nat \ {0} /\ Width \in Nat \ {0}
    /\ Height % 2 = 0 /\ Width % 2 = 0
    /\ \A k \in DOMAIN Carts : IsCart(Carts[k])
    /\ \A p \in Policies :
          {p.markup, p.tax, p.hard, p.allowance, p.trim, p.waste} \subseteq Nat
    /\ \A b \in BoardRows : {b.price, b.price2, b.price3} \subseteq Nat
    /\ \A t \in TapeRows : t.price \in Nat /\ t.hard \in BOOLEAN
    /\ MaxRevisions \in Nat /\ MaxCached \in Nat /\ MaxMinted \in Nat

VARIABLES
    policy,     \* the settings row
    boardRow,   \* the board's product
    tapeRow,    \* the tape's product
    redis,      \* the cached plans, by hash
    seat,       \* per counter, the request in flight
    minted,     \* the orders
    revisions

quoteVars == <<policy, boardRow, tapeRow, redis, seat, minted, revisions>>

NoPrice == 0
NotWritten == "-"
Vacant == [at |-> "idle"]

\* round to the unit of a positive quotient.
Rounded(n, d) == (2 * n + d) \div (2 * d)

RowsOn(cart, key) == {i \in DOMAIN cart.rows : cart.rows[i].on = key}
UsedKeys(cart) == {cart.rows[i].on : i \in DOMAIN cart.rows}

-----------------------------------------------------------------------------
(* The size the saw cuts *)

Banded(row) == row.sides # {}
side_length(row, side) == IF side \in {"top", "bottom"} THEN row.width ELSE row.height

hard_edge_rule_applies(row, tape) == row.hardEdgeCut /\ Banded(row) /\ tape.hard

Shorten(size, sides, mm) == IF size > sides * mm THEN size - sides * mm ELSE size

OwnCut(row, tape, mm) ==
    IF hard_edge_rule_applies(row, tape)
    THEN << Shorten(row.height, Cardinality(row.sides \cap {"top", "bottom"}), mm),
            Shorten(row.width, Cardinality(row.sides \cap {"left", "right"}), mm) >>
    ELSE <<row.height, row.width>>

\* A row is a layer when it is marked and has a code; rows are told apart by it.
IsLayer(row) == row.marked /\ row.ens # NotWritten
Together(cart, i) ==
    {j \in DOMAIN cart.rows : IsLayer(cart.rows[j]) /\ cart.rows[j].ens = cart.rows[i].ens}
assembly_group(cart, i) == IF IsLayer(cart.rows[i]) THEN Min(Together(cart, i)) ELSE 0

\* The largest discount on an axis among the rows of i's assembly.
GroupDiscount(cart, i, tape, mm, axis) ==
    Min({0} \cup {OwnCut(cart.rows[j], tape, mm)[axis]
                    - <<cart.rows[j].height, cart.rows[j].width>>[axis] :
                  j \in Together(cart, i)})

cut_size(cart, i, tape, rules) ==
    LET row == cart.rows[i]
    IN IF IsLayer(row)
       THEN << row.height + rules.allowance + GroupDiscount(cart, i, tape, rules.hard, 1),
               row.width + rules.allowance + GroupDiscount(cart, i, tape, rules.hard, 2) >>
       ELSE OwnCut(row, tape, rules.hard)

\* Layers share their final size and quantity, one of them carries the canto,
\* and there are two at least.
assembly_issues(cart) ==
    \E i \in DOMAIN cart.rows :
        /\ IsLayer(cart.rows[i])
        /\ LET layers == {cart.rows[j] : j \in Together(cart, i)}
           IN \/ Cardinality(Together(cart, i)) < 2
              \/ Cardinality({<<l.height, l.width>> : l \in layers}) > 1
              \/ Cardinality({l.quantity : l \in layers}) > 1
              \/ Cardinality({j \in Together(cart, i) : Banded(cart.rows[j])}) > 1

rules_in_play(cart, read) ==
    [ hard |-> IF \E i \in DOMAIN cart.rows : hard_edge_rule_applies(cart.rows[i], read.tape)
               THEN {read.policy.hard} ELSE {},
      allowance |-> IF \E i \in DOMAIN cart.rows : IsLayer(cart.rows[i])
                    THEN {read.policy.allowance} ELSE {} ]

-----------------------------------------------------------------------------
(* The hash and the bins of a pool *)

\* What both forms of the hash keep of the rows: sizes and which go together,
\* never what the seller called an assembly.
HashedRows(cart) ==
    [i \in DOMAIN cart.rows |->
        LET row == cart.rows[i]
        IN << row.on, row.height, row.width, row.quantity, row.turns, row.sides,
              row.hardEdgeCut, assembly_group(cart, i) >>]

HashedRest(cart, read) ==
    << rules_in_play(cart, read), read.policy.trim, read.policy.markup, read.policy.waste,
       cart.untrimmed, cart.offcut,
       IF \E i \in DOMAIN cart.rows : Banded(cart.rows[i])
       THEN <<read.tape.price, read.tape.hard>> ELSE <<>> >>

\* What the shop halves, and along which side.
half_board_split(board) ==
    IF \/ board.subtype \in {"osb", "pine", "natural", "gloss", "math_soft", "veneer"}
       \/ board.subtype = "mdp" /\ board.thickness >= 36
    THEN "none"
    ELSE IF board.subtype \in {"plywood", "grooved"} THEN "short_side"
    ELSE "long_side"

\* Mistake: a board's half split is not in the hash.
SplitLeftOut(cart, read) ==
    << HashedRows(cart), HashedRest(cart, read),
       IF "board" \in UsedKeys(cart) THEN <<read.board.price>> ELSE <<>> >>

\* Neither the reduced prices nor the names, nor anything commercial, is in it.
compute_hash(cart, read) ==
    << HashedRows(cart), HashedRest(cart, read),
       IF "board" \in UsedKeys(cart) THEN <<read.board.price, half_board_split(read.board)>>
       ELSE <<>> >>

half_board_price(price, markup) == Rounded(price * (100 + markup), 200)

HalfSpec(board, markup) ==
    LET split == half_board_split(board)
    IN IF split = "none" THEN {}
       ELSE {[on |-> "board", half |-> TRUE,
              price |-> half_board_price(board.price, markup),
              height |-> IF split = "short_side" THEN Height \div 2 ELSE Height,
              width |-> IF split = "long_side" THEN Width \div 2 ELSE Width]}

\* The sheets of a pool. The client's offcut costs nothing and never halves.
Bins(cart, read, key) ==
    IF key = "board"
    THEN {[on |-> key, half |-> FALSE, price |-> read.board.price,
           height |-> Height, width |-> Width]}
         \cup HalfSpec(read.board, read.policy.markup)
    ELSE {[on |-> key, half |-> FALSE, price |-> 0,
           height |-> cart.offcut.height, width |-> cart.offcut.width]}

WholeSheet(bins) == CHOOSE b \in bins : ~b.half
Cheapest(bins) == CHOOSE b \in bins : \A other \in bins : b.price <= other.price

PoolTrim(cart, read, key) == IF key \in cart.untrimmed THEN 0 ELSE read.policy.trim

\* A piece fits a sheet, turned if it may be, within its useful area.
FitsStraight(cut, sheet, trim) ==
    cut[1] <= sheet.height - trim /\ cut[2] <= sheet.width - trim
FitsSheet(cut, turns, sheet, trim) ==
    FitsStraight(cut, sheet, trim) \/ (turns /\ FitsStraight(Reverse(cut), sheet, trim))

-----------------------------------------------------------------------------
(* The plan, as the cache holds it *)

\* A row's index for each physical instance cut from the sheets of key.
Wanted(cart, key, i) ==
    LET Of == RowsOn(cart, key) \cap 1..i IN Total([j \in Of |-> cart.rows[j].quantity], Of)
Instances(cart, key) ==
    [m \in 1..Wanted(cart, key, Len(cart.rows)) |->
        Min({i \in DOMAIN cart.rows : m <= Wanted(cart, key, i)})]

Supply(cart, key) ==
    IF key = "board" THEN Len(Instances(cart, key)) ELSE cart.offcut.quantity

CutOf(cart, read, i) == cut_size(cart, i, read.tape, read.policy)

BinsFor(cart, read, i) ==
    LET row == cart.rows[i]
    IN {b \in Bins(cart, read, row.on) :
            FitsSheet(CutOf(cart, read, i), row.turns, b, PoolTrim(cart, read, row.on))}

\* A piece that comes out turned is drawn with its bands one side clockwise.
Clockwise(side) ==
    CASE side = "top" -> "right" [] side = "right" -> "bottom"
      [] side = "bottom" -> "left" [] side = "left" -> "top"
geometric_edges(row, turned) ==
    IF turned THEN {Clockwise(side) : side \in row.sides} ELSE row.sides

SheetFor(cart, read, i) ==
    LET row == cart.rows[i]
        bin == Cheapest(BinsFor(cart, read, i))
        turned == ~FitsStraight(CutOf(cart, read, i), bin, PoolTrim(cart, read, row.on))
    IN [on |-> bin.on, half |-> bin.half, price |-> bin.price, height |-> bin.height,
        width |-> bin.width, row |-> i, turned |-> turned,
        edges |-> geometric_edges(row, turned), freed |-> {}]

\* The n-th instance gets a sheet if it fits one and the supply reaches it.
GetsSheet(cart, read, key, n) ==
    LET row(m) == Instances(cart, key)[m]
    IN /\ BinsFor(cart, read, row(n)) # {}
       /\ Cardinality({m \in 1..(n - 1) : BinsFor(cart, read, row(m)) # {}})
            < Supply(cart, key)

\* The whole sheets, or the half ones, as they come.
Sorted(sheets, half) ==
    LET at == InOrder({n \in DOMAIN sheets : sheets[n].half = half})
    IN [k \in DOMAIN at |-> sheets[at[k]]]
order_sheets(sheets) == Sorted(sheets, FALSE) \o Sorted(sheets, TRUE)

PoolSheets(cart, read, key) ==
    LET pieces == Instances(cart, key)
        placed == InOrder({n \in DOMAIN pieces : GetsSheet(cart, read, key, n)})
    IN order_sheets([k \in DOMAIN placed |-> SheetFor(cart, read, pieces[placed[k]])])

\* Pools come in the order of their first row.
AllSheets(cart, read) ==
    LET first == cart.rows[1].on
    IN PoolSheets(cart, read, first)
         \o (IF UsedKeys(cart) = {first} THEN <<>>
             ELSE PoolSheets(cart, read, CHOOSE key \in UsedKeys(cart) : key # first))

Uncut(cart, read, i) ==
    LET key == cart.rows[i].on
    IN Cardinality({m \in DOMAIN Instances(cart, key) :
                       Instances(cart, key)[m] = i /\ ~GetsSheet(cart, read, key, m)})

group_unplaced(cart, read) ==
    {[on |-> cart.rows[i].on, row |-> i, cut |-> CutOf(cart, read, i),
      quantity |-> Uncut(cart, read, i)] :
        i \in {j \in DOMAIN cart.rows : Uncut(cart, read, j) > 0}}

CostOf(sheets) == Total([n \in DOMAIN sheets |-> sheets[n].price], DOMAIN sheets)

\* The billing lines: whole and half sheets of a material apart, at the price
\* of the first.
build_materials_summary(sheets) ==
    {LET alike == {m \in DOMAIN sheets : sheets[m].on = sheets[n].on
                                         /\ sheets[m].half = sheets[n].half}
     IN [on |-> sheets[n].on, half |-> sheets[n].half, count |-> Cardinality(alike),
         price |-> sheets[Min(alike)].price,
         total |-> Total([m \in alike |-> sheets[m].price], alike)] :
        n \in DOMAIN sheets}

\* The sheets that draw alike, under the first of them.
layout_signature(sheet) == <<sheet.on, sheet.half, sheet.row, sheet.turned>>
group_layouts(sheets) ==
    {LET alike == {m \in DOMAIN sheets :
                       layout_signature(sheets[m]) = layout_signature(sheets[n])}
     IN [sheet |-> sheets[Min(alike)], numbers |-> alike] : n \in DOMAIN sheets}

\* The metres of tape of the cut list, waste included, and what they cost.
Contour(row, sides) == Total([s \in sides |-> side_length(row, s)], sides)
TapeLength(cart) ==
    Total([i \in DOMAIN cart.rows |->
              cart.rows[i].quantity * Contour(cart.rows[i], cart.rows[i].sides)],
          DOMAIN cart.rows)
BilledTape(cart, read) == Rounded(TapeLength(cart) * (100 + read.policy.waste), 100)

ResolvedMaterial(cart, read, key) ==
    LET whole == WholeSheet(Bins(cart, read, key))
    IN [price |-> whole.price, height |-> whole.height, width |-> whole.width,
        name |-> IF key = "board" THEN read.board.name ELSE NotWritten]

\* Offcuts are nobody's purchase: they do not count among the boards used.
BoardsUsed(sheets) == Cardinality({n \in DOMAIN sheets : sheets[n].on = "board"})

Payload(cart, read) ==
    LET sheets == AllSheets(cart, read)
    IN [ sheets |-> sheets,
         unplaced |-> group_unplaced(cart, read),
         materials |-> [key \in UsedKeys(cart) |-> ResolvedMaterial(cart, read, key)],
         boards |-> BoardsUsed(sheets),
         boardsCost |-> CostOf(sheets),
         tapeLength |-> BilledTape(cart, read),
         tapeCost |-> BilledTape(cart, read) * read.tape.price,
         cutRules |-> rules_in_play(cart, read),
         summary |-> build_materials_summary(sheets),
         groups |-> group_layouts(sheets) ]

-----------------------------------------------------------------------------
(* What is laid over the plan: the price level, then the boards taken whole *)

price_at_level(board, level) ==
    IF level = 2 /\ board.price2 # NoPrice THEN board.price2
    ELSE IF level = 3 /\ board.price3 # NoPrice THEN board.price3
    ELSE board.price

\* The plan with other sheets, its bill moved by the difference of the prices.
Resold(plan, sheets) ==
    [plan EXCEPT !.sheets = sheets,
                 !.boardsCost = @ + Total(
                     [n \in DOMAIN sheets |-> sheets[n].price - plan.sheets[n].price],
                     DOMAIN sheets),
                 !.summary = build_materials_summary(sheets),
                 !.groups = group_layouts(sheets)]

\* Half boards are billed off the list price at every level.
Leveled(sheet) == sheet.on = "board" /\ ~sheet.half

apply_price_level(plan, cart, read) ==
    LET unit == price_at_level(read.board, cart.level)
    IN IF cart.leveled /\ "board" \in UsedKeys(cart) /\ unit # plan.materials["board"].price
       THEN [Resold(plan, [n \in DOMAIN plan.sheets |->
                              IF Leveled(plan.sheets[n])
                              THEN [plan.sheets[n] EXCEPT !.price = unit]
                              ELSE plan.sheets[n]])
             EXCEPT !.materials["board"].price = unit]
       ELSE plan

\* The half and its whole sheet differ on one axis: the rest is handed over.
Promote(sheet, full) ==
    LET across == sheet.width < full.width /\ sheet.height = full.height
        along == sheet.height < full.height /\ sheet.width = full.width
    IN IF sheet.half /\ (across \/ along)
       THEN [sheet EXCEPT !.half = FALSE, !.price = full.price,
                          !.height = full.height, !.width = full.width,
                          !.freed = @ \cup {IF across
                                            THEN <<full.height, full.width - sheet.width>>
                                            ELSE <<full.height - sheet.height, full.width>>}]
       ELSE sheet

apply_whole_boards(plan, cart) ==
    LET sheets == [n \in DOMAIN plan.sheets |->
                      IF plan.sheets[n].on = "board"
                      THEN Promote(plan.sheets[n], plan.materials["board"])
                      ELSE plan.sheets[n]]
    IN IF cart.whole /\ sheets # plan.sheets THEN Resold(plan, sheets) ELSE plan

level_discount(plan, cart, read) ==
    IF ~cart.leveled THEN 0
    ELSE LET sold == {n \in DOMAIN plan.sheets : plan.sheets[n].on = "board"
                                                  /\ ~plan.sheets[n].half}
         IN Total([n \in sold |-> read.board.price - plan.sheets[n].price], sold)

Finished(plan, cart, read) ==
    apply_whole_boards(apply_price_level(plan, cart, read), cart)

\* Services are registered tax included, and billed net.
build_pricing(plan, cart, read, tax) ==
    LET final == Finished(plan, cart, read)
        services == Rounded(cart.services * 100, 100 + tax)
        subtotal == final.boardsCost + final.tapeCost + services
        discount == level_discount(final, cart, read)
    IN [ services |-> services, subtotal |-> subtotal, discount |-> discount,
         listSubtotal |-> subtotal + discount,
         total |-> subtotal + Rounded(subtotal * tax, 100) ]

-----------------------------------------------------------------------------
(* Why a piece is left out *)

\* Whether a piece may be turned is looked up by its cut size, among the rows
\* of its pool.
ReadAsRotatable(cart, read, group) ==
    \E i \in RowsOn(cart, group.on) :
        cart.rows[i].turns /\ CutOf(cart, read, i) = group.cut

explain(cart, read, group) ==
    LET turns == ReadAsRotatable(cart, read, group)
        whole == WholeSheet(Bins(cart, read, group.on))
        trim == PoolTrim(cart, read, group.on)
    IN IF FitsSheet(group.cut, turns, whole, trim) THEN "out_of_stock"
       ELSE IF trim > 0 /\ FitsSheet(group.cut, turns, whole, 0)
       THEN "larger_than_trimmed_sheet"
       ELSE "larger_than_sheet"

-----------------------------------------------------------------------------
(* A request *)

InFlight(c) == seat[c].at \notin {"idle", "answered"}
CartOf(c) == Carts[seat[c].cart]

\* The settings are read first. A write with an assembly that does not hold
\* together goes no further.
Ask(c, k, writes) ==
    /\ ~InFlight(c)
    /\ writes => ~assembly_issues(Carts[k])
    /\ seat' = [seat EXCEPT ![c] = [at |-> "board", cart |-> k, writes |-> writes,
                                    policy |-> policy]]
    /\ UNCHANGED <<policy, boardRow, tapeRow, redis, minted, revisions>>

\* Each product is a SELECT of its own.
ResolveBoard(c) ==
    /\ seat[c].at = "board"
    /\ seat' = [seat EXCEPT ![c] = [at |-> "tape", cart |-> @.cart, writes |-> @.writes,
                                    policy |-> @.policy, board |-> boardRow]]
    /\ UNCHANGED <<policy, boardRow, tapeRow, redis, minted, revisions>>

ResolveTape(c) ==
    /\ seat[c].at = "tape"
    /\ seat' = [seat EXCEPT ![c] = [at |-> "cache", cart |-> @.cart, writes |-> @.writes,
                                    read |-> [policy |-> @.policy, board |-> @.board,
                                              tape |-> tapeRow]]]
    /\ UNCHANGED <<policy, boardRow, tapeRow, redis, minted, revisions>>

HashOf(c) == compute_hash(CartOf(c), seat[c].read)

HasPlan(c, plan) ==
    seat' = [seat EXCEPT ![c] = [at |-> "plan", cart |-> @.cart, writes |-> @.writes,
                                 read |-> @.read, plan |-> plan]]

Hit(c) ==
    /\ seat[c].at = "cache" /\ HashOf(c) \in DOMAIN redis
    /\ HasPlan(c, redis[HashOf(c)])
    /\ UNCHANGED <<policy, boardRow, tapeRow, redis, minted, revisions>>

\* Nothing under the hash, or Redis does not answer.
Miss(c) ==
    /\ seat[c].at = "cache"
    /\ seat' = [seat EXCEPT ![c] = [at |-> "search", cart |-> @.cart, writes |-> @.writes,
                                    read |-> @.read]]
    /\ UNCHANGED <<policy, boardRow, tapeRow, redis, minted, revisions>>

\* The plan is cached before anything commercial touches it; Redis may fail.
Search(c) ==
    /\ seat[c].at = "search"
    /\ LET plan == Payload(CartOf(c), seat[c].read)
       IN /\ HasPlan(c, plan)
          /\ redis' \in {redis, [h \in DOMAIN redis \union {HashOf(c)} |->
                                     IF h = HashOf(c) THEN plan ELSE redis[h]]}
          /\ Cardinality(DOMAIN redis') <= MaxCached
    /\ UNCHANGED <<policy, boardRow, tapeRow, minted, revisions>>

\* The tax is read again for the bill.
Billed(c) ==
    seat' = [seat EXCEPT ![c] = [at |-> "answered", cart |-> @.cart, writes |-> @.writes,
                                 read |-> @.read, plan |-> @.plan, tax |-> policy.tax]]

Answer(c) ==
    /\ seat[c].at = "plan" /\ ~seat[c].writes
    /\ Billed(c)
    /\ UNCHANGED <<policy, boardRow, tapeRow, redis, minted, revisions>>

\* A write whose plan leaves a piece uncut.
Refuse(c) ==
    /\ seat[c].at = "plan" /\ seat[c].writes /\ seat[c].plan.unplaced # {}
    /\ seat' = [seat EXCEPT ![c] = Vacant]
    /\ UNCHANGED <<policy, boardRow, tapeRow, redis, minted, revisions>>

Complete(plan) == plan.unplaced = {}

\* What an order freezes of its answer.
Frozen(c) ==
    LET final == Finished(seat[c].plan, CartOf(c), seat[c].read)
        pricing == build_pricing(seat[c].plan, CartOf(c), seat[c].read, policy.tax)
    IN [ cart |-> seat[c].cart, hash |-> HashOf(c), services |-> pricing.services,
         subtotal |-> pricing.subtotal, total |-> pricing.total, sheets |-> final.sheets,
         lines |-> final.summary, tapeCost |-> final.tapeCost,
         banding |-> final.tapeLength > 0 ]

IsDuplicate(order) ==
    \E n \in DOMAIN minted :
        /\ minted[n].hash = order.hash /\ minted[n].services = order.services
        /\ minted[n].subtotal = order.subtotal /\ minted[n].total = order.total

CreateOrder(c) ==
    /\ seat[c].at = "plan" /\ seat[c].writes /\ Complete(seat[c].plan)
    /\ IF IsDuplicate(Frozen(c)) THEN UNCHANGED minted
       ELSE /\ Len(minted) < MaxMinted
            /\ minted' = Append(minted, Frozen(c))
    /\ Billed(c)
    /\ UNCHANGED <<policy, boardRow, tapeRow, redis, revisions>>

-----------------------------------------------------------------------------
(* What goes on meanwhile *)

Revised == revisions < MaxRevisions /\ revisions' = revisions + 1

update_cutting(p) ==
    /\ Revised /\ p # policy
    /\ policy' = p
    /\ UNCHANGED <<boardRow, tapeRow, redis, seat, minted>>

EditBoard(b) ==
    /\ Revised /\ b # boardRow
    /\ boardRow' = b
    /\ UNCHANGED <<policy, tapeRow, redis, seat, minted>>

EditTape(t) ==
    /\ Revised /\ t # tapeRow
    /\ tapeRow' = t
    /\ UNCHANGED <<policy, boardRow, redis, seat, minted>>

\* OPT_RESULT_TTL_SECONDS later.
ExpirePlan(hash) ==
    /\ redis' = [h \in DOMAIN redis \ {hash} |-> redis[h]]
    /\ UNCHANGED <<policy, boardRow, tapeRow, seat, minted, revisions>>

QuoteInit ==
    /\ policy \in Policies /\ boardRow \in BoardRows /\ tapeRow \in TapeRows
    /\ redis = <<>>
    /\ seat = [c \in Counters |-> Vacant]
    /\ minted = <<>> /\ revisions = 0

QuoteNext ==
    \/ \E c \in Counters :
        \/ \E k \in DOMAIN Carts, writes \in BOOLEAN : Ask(c, k, writes)
        \/ ResolveBoard(c) \/ ResolveTape(c) \/ Hit(c) \/ Miss(c) \/ Search(c)
        \/ Answer(c) \/ Refuse(c) \/ CreateOrder(c)
    \/ \E p \in Policies : update_cutting(p)
    \/ \E b \in BoardRows : EditBoard(b)
    \/ \E t \in TapeRows : EditTape(t)
    \/ \E hash \in DOMAIN redis : ExpirePlan(hash)

QuoteSpec == QuoteInit /\ [][QuoteNext]_quoteVars

-----------------------------------------------------------------------------
(* Types *)

QuoteTyped ==
    /\ policy \in Policies /\ boardRow \in BoardRows /\ tapeRow \in TapeRows
    /\ \A c \in Counters :
        /\ seat[c].at \in {"idle", "board", "tape", "cache", "search", "plan", "answered"}
        /\ seat[c].at # "idle" => seat[c].cart \in DOMAIN Carts /\ seat[c].writes \in BOOLEAN
    /\ Len(minted) \in 0..MaxMinted /\ revisions \in 0..MaxRevisions

(* Properties *)

Planned == {c \in Counters : seat[c].at \in {"plan", "answered"}}
Unnamed(plan) ==
    [plan EXCEPT !.materials =
        [k \in DOMAIN plan.materials |-> [plan.materials[k] EXCEPT !.name = NotWritten]]]

\* A plan that came out of the cache is the one a search would have found for
\* what this request read, whatever was edited since it was cached; only the
\* names of the catalog may be older.
AnswersAreFresh ==
    \A c \in Planned :
        Unnamed(seat[c].plan) = Unnamed(Payload(CartOf(c), seat[c].read))

\* The bill kept up by differences is the sum of its sheets and of its lines,
\* and what is off it is what the same request costs at the list price.
BillAddsUp(c) ==
    LET cart == CartOf(c)
        read == seat[c].read
        final == Finished(seat[c].plan, cart, read)
        bill == build_pricing(seat[c].plan, cart, read, policy.tax)
        listed == build_pricing(seat[c].plan, [cart EXCEPT !.level = 1], read, policy.tax)
    IN /\ final.boardsCost = CostOf(final.sheets)
       /\ final.boardsCost = Total([l \in final.summary |-> l.total], final.summary)
       /\ \A l \in final.summary : l.total = l.count * l.price
       /\ bill.listSubtotal = listed.subtotal /\ listed.discount = 0

\* A half is billed off the list price at every level, a half taken whole at the
\* level's, and what it hands over is the part of the board that was not cut;
\* the bands are drawn on sides as long as the ones they were asked for, and
\* the sheets that are drawn are the ones that are billed.
SheetsAreSoldAsCut(c) ==
    LET cart == CartOf(c)
        read == seat[c].read
        base == seat[c].plan.sheets
        final == Finished(seat[c].plan, cart, read)
    IN /\ \A n \in DOMAIN base :
            LET sold == final.sheets[n]
            IN base[n].on = "board" =>
                 /\ sold.half => /\ ~cart.whole
                                 /\ sold.price = half_board_price(read.board.price,
                                                                  read.policy.markup)
                 /\ ~sold.half =>
                      /\ sold.height = Height /\ sold.width = Width
                      /\ sold.price = IF cart.leveled
                                      THEN price_at_level(read.board, cart.level)
                                      ELSE read.board.price
                 /\ sold.height * sold.width
                      = base[n].height * base[n].width
                        + Total([f \in sold.freed |-> f[1] * f[2]], sold.freed)
       /\ \A n \in DOMAIN base :
            LET row == cart.rows[base[n].row]
                drawn == IF base[n].turned
                         THEN [height |-> row.width, width |-> row.height] ELSE row
            IN Contour(drawn, base[n].edges) = Contour(row, row.sides)
       /\ UNION {g.numbers : g \in final.groups} = DOMAIN final.sheets
       /\ \A g \in final.groups : \A n \in g.numbers :
            /\ g.sheet.price = final.sheets[n].price
            /\ g.sheet.height = final.sheets[n].height /\ g.sheet.width = final.sheets[n].width

\* The layers of an assembly that holds together come out of the saw alike.
LayersAreCutAlike(c) ==
    LET cart == CartOf(c)
    IN ~assembly_issues(cart) =>
         \A i, j \in DOMAIN cart.rows :
             IsLayer(cart.rows[i]) /\ j \in Together(cart, i) =>
                 CutOf(cart, seat[c].read, i) = CutOf(cart, seat[c].read, j)

\* The reason given for a piece left out is what would get it cut: more stock, or
\* the sheet untrimmed, or neither. Read off the cut size, it is another row's
\* where a row that turns and one that does not are cut alike.
ReasonsHold(c) ==
    LET cart == CartOf(c)
        read == seat[c].read
        ample == [cart EXCEPT !.offcut.quantity = Len(Instances(cart, "offcut"))]
        LeftOut(k, g) == {u \in group_unplaced(k, read) : u.row = g.row}
    IN \A g \in seat[c].plan.unplaced :
         ReadAsRotatable(cart, read, g) = cart.rows[g.row].turns =>
           LET reason == explain(cart, read, g)
               untrimmed == [ample EXCEPT !.untrimmed = {"board", "offcut"}]
           IN /\ (reason = "out_of_stock") = (LeftOut(ample, g) = {})
              /\ (reason = "larger_than_sheet") = (LeftOut(untrimmed, g) # {})

\* An order cuts every piece of its cut list, bills its sheets, and has banding
\* work exactly when a row is banded.
OrdersAreWhole ==
    \A n \in DOMAIN minted :
        LET order == minted[n]
            cart == Carts[order.cart]
        IN /\ \A i \in DOMAIN cart.rows :
                Cardinality({m \in DOMAIN order.sheets : order.sheets[m].row = i})
                  = cart.rows[i].quantity
           /\ order.subtotal = Total([l \in order.lines |-> l.total], order.lines)
                                 + order.tapeCost + order.services
           /\ order.banding <=> \E i \in DOMAIN cart.rows : Banded(cart.rows[i])

QuotesAgree ==
    /\ AnswersAreFresh
    /\ OrdersAreWhole
    /\ \A c \in Planned :
        BillAddsUp(c) /\ SheetsAreSoldAsCut(c) /\ LayersAreCutAlike(c) /\ ReasonsHold(c)
=============================================================================
