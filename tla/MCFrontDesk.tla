---------------------------- MODULE MCFrontDesk -----------------------------
(* The front desk for TLC: two orders on sale, two shops and sellers, one   *)
(* counter, four carts.                                                     *)
EXTENDS FrontDesk, MCOrderDesk

CONSTANTS order1, order2, seller1, seller2, shop1, shop2, counter, name1, name2

TwoShops == {shop1, shop2}
TwoOrders == {order1, order2}
OneSellerEach == order1 :> seller1 @@ order2 :> seller2
InFullOrOnCredit == {<<2, 0>>, <<1, 2>>}
OneCounter == {counter}

Piece(on, height, width, quantity, turns, sides, ens) ==
    [on |-> on, height |-> height, width |-> width, quantity |-> quantity,
     turns |-> turns, sides |-> sides, hardEdgeCut |-> TRUE, ens |-> ens,
     marked |-> ens # "-"]
Request(level, whole, untrimmed, pieces) ==
    [rows |-> pieces, level |-> level, leveled |-> level > 1, whole |-> whole,
     untrimmed |-> untrimmed, services |-> 23,
     offcut |-> [height |-> 5, width |-> 5, quantity |-> 1]]

\* A half and a whole board; the same taken whole; an assembly across materials,
\* with more pieces than the offcut yields; pieces too large in every way, one
\* with the size of a row that may be turned.
HalfAndWhole == << Piece("board", 9, 3, 1, FALSE, {"left", "right"}, "-"),
                   Piece("board", 6, 6, 1, FALSE, {}, "-") >>
FourRequests ==
    << Request(2, FALSE, {}, HalfAndWhole), Request(2, TRUE, {}, HalfAndWhole),
       Request(3, FALSE, {}, << Piece("board", 6, 4, 2, TRUE, {"left", "right"}, "e1"),
                                Piece("offcut", 6, 4, 2, TRUE, {}, "e1"),
                                Piece("offcut", 3, 5, 2, FALSE, {}, "-") >>),
       Request(1, TRUE, {"offcut"}, << Piece("offcut", 4, 4, 2, FALSE, {"top"}, "-"),
                                       Piece("board", 7, 9, 1, TRUE, {"left"}, "-"),
                                       Piece("board", 7, 9, 1, FALSE, {}, "-") >>) >>
TwoPolicies ==
    { [markup |-> 20, tax |-> 15, hard |-> 1, allowance |-> 2, trim |-> 1, waste |-> 10],
      [markup |-> 50, tax |-> 0, hard |-> 2, allowance |-> 1, trim |-> 0, waste |-> 0] }
FourBoardRows ==
    { [price |-> 40, price2 |-> 36, price3 |-> 0,
        subtype |-> "mdp", thickness |-> 18, name |-> name1],
      [price |-> 40, price2 |-> 32, price3 |-> 30,
        subtype |-> "mdp", thickness |-> 36, name |-> name1],
      [price |-> 50, price2 |-> 36, price3 |-> 30,
        subtype |-> "plywood", thickness |-> 18, name |-> name2],
      [price |-> 40, price2 |-> 32, price3 |-> 0,
        subtype |-> "new", thickness |-> 18, name |-> name2] }
TwoTapeRows == { [price |-> 2, hard |-> TRUE], [price |-> 3, hard |-> FALSE] }

\* Where the orders are sold first, the cart and the catalogue are pinned where the
\* steps reach the rest.
FrontInit ==
    /\ FrontDeskInit
    /\ shop \in [Sales -> {shop1}]
    /\ policy.tax = 15 /\ boardRow.thickness = 18 /\ boardRow.subtype = "mdp" /\ tapeRow.hard

\* The orders on sale are alike, and order1 is sold or cancelled first. Nothing more
\* is promised of a quote once its order is minted: the behaviour ends there.
FrontNext ==
    /\ focus = "quotes" => minted = <<>>
    /\ FrontDeskNext
    /\ focus = "sales" /\ standing'[order2] # "confirmed" => standing'[order1] # "confirmed"

FrontSpec == FrontInit /\ [][FrontNext]_frontVars
=============================================================================
