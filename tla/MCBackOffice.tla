---------------------------- MODULE MCBackOffice ----------------------------
(* The back office for TLC: two of each, a week of days, six rows of a list. *)
EXTENDS BackOffice, TLC

CONSTANTS order1, order2, sheet1, sheet2, slip1, slip2, slip3, operator1, operator2,
          user1, user2, client1, client2, key1, key2, key3, name1, name2, name3,
          board, band, code1, code2, byHand, design, tablet1, tablet2, press1, press2

TwoUsers == {user1, user2}
TwoClients == {client1, client2}
ThreeKeys == {key1, key2, key3}
ThreeNames == {name1, name2, name3}
TwoPresses == {press1, press2}
TwoTablets == {tablet1, tablet2}
OneManager == {tablet2}
WorkingInstants == {0, 1, 3}

\* Two boards, and a band with the code of the first.
ThreeCategories == <<board, board, band>>
ThreeCodes == <<code1, code2, code1>>
OneByHand == {byHand}
OneDesign == {design}

\* A working day is two windows round a lunch break; the shop closes at night.
EveryDay == <<{<<1, 3>>, <<4, 6>>}>>
TwoOrders == {order1, order2}
\* The one with banding is cut in one piece, so a pause of its banding fits as well.
SmallOrder == {order2}
TwoSheets == {sheet1, sheet2}
ThreeSlips == {slip1, slip2, slip3}
SlipSheets == slip1 :> sheet1 @@ slip2 :> sheet1 @@ slip3 :> sheet2
SheetOrders == sheet1 :> order1 @@ sheet2 :> order2
SheetKinds == sheet1 :> "whole" @@ sheet2 :> "half"
\* Three days: the end of a stretch in hours, at lunch and just past closing.
SixInstants == {2, 3, 7, 10, 13, 18}
TwoOperators == {operator1, operator2}

\* A cedula, the RUC of a company and of a public entity, a slip of the hand, and
\* the passport of a foreigner.
FiveNumbers ==
    << <<1, 7, 1, 0, 0, 3, 4, 0, 6, 5>>, <<1, 7, 9, 0, 0, 1, 1, 6, 7, 4, 0, 0, 1>>,
       <<1, 7, 6, 0, 0, 0, 1, 5, 5, 0, 0, 0, 1>>, <<1, 7, 1, 0, 0, 3, 4, 0, 6>>, <<Letter, 7>> >>
OnePhone == {<<7, 7>>}
OneMail == {"a@b"}

ListRow(est, cedula, name, phone, phone2, email) ==
    [est |-> est, cedula |-> cedula, name |-> name,
     phone |-> phone, phone2 |-> phone2, email |-> email]

\* A number with a space, one that is none with a second that is, mails without at
\* sign, rows without number, surname, name or service.
SixListRows ==
    << ListRow("1", 1, <<"ana", "paz">>, <<9, Letter, 9>>, <<>>, "A@B"),
       ListRow("null", 1, <<"ana", "eva", "paz", "gil">>, <<Letter, 1>>, <<8, 8>>, "ab"),
       ListRow("1", 2, <<"maderas", "sa">>, <<9, 9>>, <<>>, ""),
       ListRow("1", 4, <<"ana">>, <<>>, <<>>, ""),
       ListRow("1", 1, <<>>, <<9, 9>>, <<>>, "c@d"),
       ListRow("0", 2, <<"acme">>, <<8, 8>>, <<>>, "c@d") >>

\* The names are alike: one state stands for each. What the vendor's lists start as is
\* pinned where the steps reach the rest.
Init ==
    /\ BackOfficeInit
    /\ account[user1].admin
    /\ mcliente[1] = 1 /\ clients[1].identifier = 1
    /\ (focus = "clients" \/ mcliente[2] = 1)
    /\ [r \in Articles |-> vendor[r].name] = <<name1, name2, name3>>

\* The names on the floor's rows; the operators are alike, and operator1 signs first.
Signed ==
    ({marker[p] : p \in Slips} \union {ender[a] : a \in Acts}
     \union UNION {{s.user : s \in stops[a]} : a \in Acts}) \ {Nobody}

\* Once the requests about every account have crossed nothing more is promised of
\* the sessions: the behaviour ends there.
Next ==
    /\ focus = "sessions" => meddled # Users
    /\ BackOfficeNext
    /\ focus = "floor" /\ Signed = {} => operator2 \notin Signed'

Spec == Init /\ [][Next]_boVars
=============================================================================
