----------------------------- MODULE DeskProofs -----------------------------
(***************************************************************************)
(* Proofs about OrderDesk, for any clients, branches, quotes and orders,   *)
(* about SalesReports, for any orders, sellers, branches and payments, and *)
(* about Quote, for any carts, settings and prices.                        *)
(***************************************************************************)
EXTENDS FrontDesk, SumTheorems, SequenceTheorems, TLAPS

Statuses == {"confirmed", "queued", "in_process"} \union Terminal

Requests ==
    [op : {"none"}]
    \union [op : {"create"}, quote : Quotes, branch : Branches]
    \union [op : {"branch"}, id : Nat, branch : Branches]
    \union [op : {"priority"}, id : Nat, flag : BOOLEAN]
    \union [op : {"move"}, id : Nat, from : Statuses, to : Statuses]
    \union [op : {"pay"}, id : Nat, amount : Nat]

NamesAnOrder(r) == r.op \in {"branch", "priority", "move", "pay"}

\* Holds whatever is in flight: the instants are past ones.
Shaped ==
    /\ orders \in Seq(Order)
    /\ clock \in Nat
    /\ \A i \in Ids : orders[i].createdAt <= clock /\ orders[i].queuedAt <= clock
    /\ req \in [Clients -> Requests]
    /\ \A c \in Clients : NamesAnOrder(req[c]) => req[c].id \in Ids

\* What the request in flight about a quote checked is still so.
StillSo(r) ==
    /\ r.op = "create" => ActiveDuplicates(r.quote, r.branch) = {}
    /\ r.op = "branch" => ActiveDuplicates(orders[r.id].quote, r.branch) \subseteq {r.id}
    /\ r.op = "move" => r.from = orders[r.id].status /\ <<r.from, r.to>> \in Edges

Apart ==
    \A c, d \in Clients : c # d /\ req[c].op # "none" /\ req[d].op # "none"
                             => About(req[c]) # About(req[d])

Active(o) == o.status \notin Terminal

NoTwoAlike ==
    \A i, j \in Ids :
        /\ Active(orders[i]) /\ Active(orders[j])
        /\ orders[i].quote = orders[j].quote /\ orders[i].branch = orders[j].branch
        => i = j

ReadsStand == \A c \in Clients : StillSo(req[c])

\* The inductive invariant.
DeskInv == Shaped /\ (OneAtATime => Apart /\ ReadsStand /\ NoTwoAlike)

-----------------------------------------------------------------------------
\* No two kinds of request are confused.
LEMMA RequestFacts ==
    ASSUME NEW r \in Requests
    PROVE  /\ r = NoRequest <=> r.op = "none"
           /\ r.op = "create" => r.quote \in Quotes /\ r.branch \in Branches
           /\ r.op = "branch" => r.id \in Nat /\ r.branch \in Branches
           /\ r.op = "priority" => r.id \in Nat /\ r.flag \in BOOLEAN
           /\ r.op = "move" => r.id \in Nat /\ r.from \in Statuses /\ r.to \in Statuses
           /\ r.op = "pay" => r.id \in Nat /\ r.amount \in Nat
  BY DEF Requests, NoRequest

\* Nobody in flight is a request, of which nothing is asked.
LEMMA NoRequestFacts == NoRequest \in Requests /\ NoRequest.op = "none"
  BY DEF NoRequest, Requests

\* A request that starts is the only one about its quote, when there is to be one.
LEMMA LoadKeeps ==
    ASSUME DeskInv, NEW c \in Clients, NEW r \in Requests, Load(c, r), r.op # "none",
           NamesAnOrder(r) => r.id \in Ids,
           StillSo(r)
    PROVE  DeskInv'
<1> USE DEF DeskInv
<1>1. /\ req' = [req EXCEPT ![c] = r] /\ req[c] = NoRequest
      /\ orders' = orders /\ clock' = clock
      /\ OneAtATime => \A d \in Clients : req[d] # NoRequest => About(req[d]) # About(r)
  BY DEF Load
<1>2. req'[c] = r /\ \A d \in Clients \ {c} : req'[d] = req[d]
  BY <1>1 DEF Shaped
<1>3. Shaped'
  BY <1>1, <1>2 DEF Shaped, Ids
<1>4. ASSUME OneAtATime PROVE Apart' /\ ReadsStand' /\ NoTwoAlike'
  <2>1. \A d \in Clients : req[d].op # "none" => About(req[d]) # About(r)
    BY <1>1, <1>4, NoRequestFacts
  <2>2. Apart'
    <3> SUFFICES ASSUME NEW d \in Clients, NEW e \in Clients, d # e,
                        req'[d].op # "none", req'[e].op # "none"
                 PROVE  About(req[d])' # About(req[e])'
      BY DEF Apart
    <3>1. About(req[d])' = About(req'[d]) /\ About(req[e])' = About(req'[e])
      BY <1>1 DEF About
    <3>2. CASE d = c
      BY <1>2, <2>1, <3>1, <3>2
    <3>3. CASE e = c
      BY <1>2, <2>1, <3>1, <3>3
    <3>4. CASE d # c /\ e # c
      BY <1>2, <1>4, <3>1, <3>4 DEF Apart
    <3>5. QED
      BY <3>2, <3>3, <3>4
  <2>3. ReadsStand'
    <3> SUFFICES ASSUME NEW d \in Clients PROVE StillSo(req[d])'
      BY DEF ReadsStand
    <3>1. StillSo(req'[d])
      BY <1>2, <1>4 DEF ReadsStand
    <3>2. QED
      BY <1>1, <3>1 DEF StillSo, ActiveDuplicates, Ids
  <2>4. NoTwoAlike'
    BY <1>1, <1>4 DEF NoTwoAlike, Ids
  <2>5. QED
    BY <2>2, <2>3, <2>4
<1>5. QED
  BY <1>3, <1>4

\* A commit touches orders of one quote, and nobody else has it in hand.
LEMMA OthersStand ==
    ASSUME DeskInv, OneAtATime, NEW c \in Clients, req[c].op # "none",
           req' = [req EXCEPT ![c] = NoRequest],
           Ids \subseteq Ids',
           \A i \in Ids : /\ orders'[i].quote = orders[i].quote
                          /\ orders[i].quote # About(req[c]) => orders'[i] = orders[i],
           \A i \in Ids' \ Ids : orders'[i].quote = About(req[c])
    PROVE  Apart' /\ ReadsStand'
<1> DEFINE v == About(req[c])
<1> USE DEF DeskInv
<1>1. req'[c] = NoRequest /\ \A d \in Clients \ {c} : req'[d] = req[d]
  BY DEF Shaped
<1>2. \A d \in Clients \ {c} : req[d].op # "none" => About(req[d]) # v
  BY DEF Apart
<1>4. ASSUME NEW d \in Clients \ {c}, req[d].op # "none"
      PROVE  /\ About(req[d])' = About(req[d])
             /\ NamesAnOrder(req[d]) => /\ req[d].id \in Ids
                                        /\ orders'[req[d].id] = orders[req[d].id]
  <2>1. req[d] \in Requests /\ req'[d] = req[d]
    BY <1>1 DEF Shaped
  <2>2. NamesAnOrder(req[d]) => req[d].id \in Ids /\ orders[req[d].id].quote # v
    BY <1>2, <1>4 DEF Shaped, NamesAnOrder, About
  <2>3. ~NamesAnOrder(req[d]) => req[d].op = "create"
    BY <1>4, <2>1 DEF Requests, NamesAnOrder
  <2>4. QED
    BY <2>1, <2>2, <2>3 DEF About, NamesAnOrder
<1>5. Apart'
  <2> SUFFICES ASSUME NEW d \in Clients, NEW e \in Clients, d # e,
                      req'[d].op # "none", req'[e].op # "none"
               PROVE  About(req[d])' # About(req[e])'
    BY DEF Apart
  <2>1. d # c /\ e # c /\ req[d].op # "none" /\ req[e].op # "none"
    BY <1>1, NoRequestFacts
  <2>2. QED
    BY <1>4, <2>1 DEF Apart
<1>6. \A q \in Quotes, b \in Branches : q # v => ActiveDuplicates(q, b)' = ActiveDuplicates(q, b)
  BY DEF ActiveDuplicates
<1>7. ReadsStand'
  <2> SUFFICES ASSUME NEW d \in Clients PROVE StillSo(req[d])'
    BY DEF ReadsStand
  <2>1. CASE req'[d].op = "none"
    BY <2>1 DEF StillSo
  <2>2. CASE req'[d].op # "none"
    <3>1. d # c /\ req'[d] = req[d] /\ req[d].op # "none" /\ req[d] \in Requests
      BY <1>1, <2>2, NoRequestFacts DEF Shaped
    <3>2. StillSo(req[d]) /\ About(req[d]) # v
      BY <1>2, <3>1 DEF ReadsStand
    <3>3. CASE req[d].op = "create"
      BY <1>6, <3>1, <3>2, <3>3, RequestFacts DEF StillSo, About
    <3>4. CASE req[d].op = "branch"
      <4>1. /\ req[d].id \in Ids /\ req[d].branch \in Branches
            /\ orders'[req[d].id] = orders[req[d].id] /\ orders[req[d].id].quote # v
        BY <1>4, <3>1, <3>2, <3>4, RequestFacts DEF NamesAnOrder, About
      <4>2. orders[req[d].id].quote \in Quotes
        <5>1. orders[req[d].id] \in Order
          BY <4>1, ElementOfSeq DEF Shaped, Ids
        <5>2. QED
          BY <5>1 DEF Order
      <4>3. QED
        BY <1>6, <3>1, <3>2, <3>4, <4>1, <4>2 DEF StillSo
    <3>5. CASE req[d].op = "move"
      BY <1>4, <3>1, <3>2, <3>5 DEF StillSo, NamesAnOrder
    <3>6. CASE req[d].op \notin {"create", "branch", "move"}
      BY <3>1, <3>6 DEF StillSo
    <3>7. QED
      BY <3>3, <3>4, <3>5, <3>6
  <2>3. QED
    BY <2>1, <2>2
<1>8. QED
  BY <1>5, <1>7

-----------------------------------------------------------------------------
\* A new order is the only active one of its quote in its branch.
LEMMA CommitCreateKeeps ==
    ASSUME DeskInv, NEW c \in Clients, CommitCreate(c)
    PROVE  DeskInv'
<1> DEFINE row == [quote |-> req[c].quote, branch |-> req[c].branch,
                   status |-> "confirmed", priority |-> FALSE,
                   createdAt |-> clock + 1, queuedAt |-> 0, credit |-> 0, collected |-> 0]
           n == Len(orders) + 1
<1> USE DEF DeskInv
<1>1. /\ req[c].op = "create" /\ req' = [req EXCEPT ![c] = NoRequest]
      /\ clock' = clock + 1 /\ orders' = Append(orders, row)
  BY DEF CommitCreate, Committing
<1>2. req[c].quote \in Quotes /\ req[c].branch \in Branches
  BY <1>1, RequestFacts DEF Shaped
<1>3. /\ row \in Order /\ row.quote = req[c].quote /\ row.branch = req[c].branch
      /\ row.createdAt = clock + 1 /\ row.queuedAt = 0
  BY <1>2, DeskAssumption DEF Order, Shaped
<1> HIDE DEF row
<1>4. orders \in Seq(Order) /\ Len(orders) \in Nat /\ Ids = 1..Len(orders)
  BY DEF Shaped, Ids
<1>5. /\ orders' \in Seq(Order) /\ Ids' = Ids \union {n} /\ n \notin Ids
      /\ orders'[n] = row /\ \A i \in Ids : orders'[i] = orders[i]
  BY <1>1, <1>3, <1>4 DEF Ids
<1> HIDE DEF n
<1>6. req'[c] = NoRequest /\ \A d \in Clients \ {c} : req'[d] = req[d]
  BY <1>1 DEF Shaped
<1>7. Shaped'
  <2>1. req' \in [Clients -> Requests]
    BY <1>1, NoRequestFacts DEF Shaped
  <2>2. \A d \in Clients : NamesAnOrder(req'[d]) => req'[d].id \in Ids'
    BY <1>5, <1>6, NoRequestFacts DEF Shaped, NamesAnOrder
  <2>3. \A i \in Ids' : orders'[i].createdAt <= clock' /\ orders'[i].queuedAt <= clock'
    <3>1. \A i \in Ids : orders[i].createdAt \in Nat /\ orders[i].queuedAt \in Nat
      <4>1. \A i \in Ids : orders[i] \in Order
        BY <1>4, ElementOfSeq
      <4>2. QED
        BY <4>1 DEF Order
    <3>2. clock \in Nat /\ \A i \in Ids : orders[i].createdAt <= clock /\ orders[i].queuedAt <= clock
      BY DEF Shaped
    <3>3. \A i \in Ids : orders[i].createdAt <= clock + 1 /\ orders[i].queuedAt <= clock + 1
      BY <3>1, <3>2
    <3>4. row.createdAt <= clock + 1 /\ row.queuedAt <= clock + 1
      BY <1>3, <3>2
    <3>5. QED
      BY <1>1, <1>5, <3>3, <3>4
  <2>4. clock' \in Nat
    BY <1>1 DEF Shaped
  <2>5. QED
    BY <1>5, <2>1, <2>2, <2>3, <2>4 DEF Shaped
<1>8. ASSUME OneAtATime PROVE Apart' /\ ReadsStand' /\ NoTwoAlike'
  <2>1. About(req[c]) = req[c].quote
    BY <1>1 DEF About
  <2>2. Apart' /\ ReadsStand'
    BY <1>1, <1>3, <1>5, <1>8, <2>1, OthersStand
  <2>3. ActiveDuplicates(req[c].quote, req[c].branch) = {}
    BY <1>1, <1>8 DEF ReadsStand, StillSo
  <2>4. NoTwoAlike'
    BY <1>3, <1>5, <1>8, <2>3 DEF NoTwoAlike, ActiveDuplicates, Active
  <2>5. QED
    BY <2>2, <2>4
<1>9. QED
  BY <1>7, <1>8

\* A commit about one order rewrites its row: the quote, the creation and what the
\* others have in hand stay.
LEMMA RowKeeps ==
    ASSUME DeskInv, NEW c \in Clients, NEW row \in Order,
           NamesAnOrder(req[c]),
           req' = [req EXCEPT ![c] = NoRequest],
           clock' \in {clock, clock + 1},
           orders' = [orders EXCEPT ![req[c].id] = row],
           row.quote = orders[req[c].id].quote,
           row.createdAt = orders[req[c].id].createdAt,
           row.queuedAt \in {orders[req[c].id].queuedAt, clock'},
           OneAtATime /\ Active(row) =>
               /\ Active(orders[req[c].id])
               /\ \/ row.branch = orders[req[c].id].branch
                  \/ ActiveDuplicates(row.quote, row.branch) \subseteq {req[c].id}
    PROVE  DeskInv'
<1> DEFINE k == req[c].id
<1> USE DEF DeskInv
<1>1. orders \in Seq(Order) /\ Len(orders) \in Nat /\ Ids = 1..Len(orders) /\ k \in Ids
  BY DEF Shaped, Ids
<1>2. /\ orders' \in Seq(Order) /\ Ids' = Ids
      /\ orders'[k] = row /\ \A i \in Ids : i # k => orders'[i] = orders[i]
  BY <1>1, ExceptSeq DEF Ids
<1>3. req'[c] = NoRequest /\ \A d \in Clients \ {c} : req'[d] = req[d]
  BY DEF Shaped
<1>4. \A i \in Ids : orders[i] \in Order
  BY <1>1, ElementOfSeq
<1>5. Shaped'
  <2>1. req' \in [Clients -> Requests]
    BY NoRequestFacts DEF Shaped
  <2>2. \A d \in Clients : NamesAnOrder(req'[d]) => req'[d].id \in Ids'
    BY <1>2, <1>3, NoRequestFacts DEF Shaped, NamesAnOrder
  <2>3. \A i \in Ids' : orders'[i].createdAt <= clock' /\ orders'[i].queuedAt <= clock'
    <3>1. \A i \in Ids : orders[i].createdAt \in Nat /\ orders[i].queuedAt \in Nat
      BY <1>4 DEF Order
    <3>2. QED
      BY <1>1, <1>2, <3>1 DEF Shaped
  <2>4. clock' \in Nat
    BY DEF Shaped
  <2>5. QED
    BY <1>2, <2>1, <2>2, <2>3, <2>4 DEF Shaped
<1>6. ASSUME OneAtATime PROVE Apart' /\ ReadsStand' /\ NoTwoAlike'
  <2>1. About(req[c]) = orders[k].quote /\ req[c].op # "none"
    BY DEF About, NamesAnOrder
  <2>2. Apart' /\ ReadsStand'
    BY <1>2, <1>6, <2>1, OthersStand
  <2>3. NoTwoAlike'
    <3> SUFFICES ASSUME NEW i \in Ids, NEW j \in Ids,
                        Active(orders'[i]), Active(orders'[j]),
                        orders'[i].quote = orders'[j].quote,
                        orders'[i].branch = orders'[j].branch, i # j
                 PROVE  FALSE
      BY <1>2 DEF NoTwoAlike, Active
    <3>1. CASE i # k /\ j # k
      BY <1>2, <1>6, <3>1 DEF NoTwoAlike
    <3>2. ASSUME NEW n \in Ids, n # k, Active(row), Active(orders[n]),
                 row.quote = orders[n].quote, row.branch = orders[n].branch
          PROVE  FALSE
      <4>1. n \in ActiveDuplicates(row.quote, row.branch)
        BY <3>2 DEF ActiveDuplicates, Active
      <4>2. row.branch # orders[k].branch
        BY <1>1, <1>6, <3>2 DEF NoTwoAlike
      <4>3. QED
        BY <1>6, <3>2, <4>1, <4>2
    <3>3. QED
      BY <1>2, <3>1, <3>2
  <2>4. QED
    BY <2>2, <2>3
<1>7. QED
  BY <1>5, <1>6

\* The rows the commits write.
LEMMA RowFacts ==
    ASSUME NEW o \in Order, NEW b \in Branches, NEW flag \in BOOLEAN, NEW amount \in Nat,
           NEW to \in Statuses, NEW now \in Nat
    PROVE  /\ [o EXCEPT !.branch = b] \in Order
           /\ [o EXCEPT !.priority = flag] \in Order
           /\ [o EXCEPT !.collected = @ + amount] \in Order
           /\ [o EXCEPT !.status = to] \in Order
           /\ [o EXCEPT !.status = to, !.queuedAt = now, !.credit = Credit] \in Order
<1>1. [o EXCEPT !.branch = b] \in Order
  BY DEF Order
<1>2. [o EXCEPT !.priority = flag] \in Order
  BY DEF Order
<1>3. [o EXCEPT !.collected = @ + amount] \in Order
  <2>1. o.collected + amount \in Nat
    BY DEF Order
  <2>2. QED
    BY <2>1 DEF Order
<1>4. [o EXCEPT !.status = to] \in Order
  BY DEF Order, Statuses
<1>5. [o EXCEPT !.status = to, !.queuedAt = now, !.credit = Credit] \in Order
  BY DEF Order, Statuses
<1>6. QED
  BY <1>1, <1>2, <1>3, <1>4, <1>5

\* A move to a branch where no other order of the quote is active.
LEMMA CommitChangeBranchKeeps ==
    ASSUME DeskInv, NEW c \in Clients, CommitChangeBranch(c)
    PROVE  DeskInv'
<1> DEFINE k == req[c].id
           row == [orders[k] EXCEPT !.branch = req[c].branch]
<1>1. /\ req[c].op = "branch" /\ req' = [req EXCEPT ![c] = NoRequest]
      /\ clock' = clock /\ orders' = [orders EXCEPT ![k] = row]
  BY DEF CommitChangeBranch, Committing
<1>2. k \in Ids /\ req[c].branch \in Branches /\ NamesAnOrder(req[c])
  BY <1>1, RequestFacts DEF DeskInv, Shaped, NamesAnOrder
<1>3. orders[k] \in Order
  BY <1>2, ElementOfSeq DEF DeskInv, Shaped, Ids
<1>4. row \in Order
  BY <1>2, <1>3, RowFacts DEF Statuses
<1>5. /\ row.quote = orders[k].quote /\ row.createdAt = orders[k].createdAt
      /\ row.queuedAt = orders[k].queuedAt /\ row.status = orders[k].status
      /\ row.branch = req[c].branch
  BY <1>3 DEF Order
<1>6. OneAtATime => ActiveDuplicates(row.quote, row.branch) \subseteq {k}
  BY <1>1, <1>5 DEF DeskInv, ReadsStand, StillSo
<1> HIDE DEF row
<1>7. QED
  BY <1>1, <1>2, <1>4, <1>5, <1>6, RowKeeps DEF Active

\* The priority and the payments leave every duplicate what it was.
LEMMA CommitColumnKeeps ==
    ASSUME DeskInv, NEW c \in Clients, CommitPriority(c) \/ CommitPayment(c)
    PROVE  DeskInv'
<1> DEFINE k == req[c].id
           flagged == [orders[k] EXCEPT !.priority = req[c].flag]
           paid == [orders[k] EXCEPT !.collected = @ + req[c].amount]
<1>1. CASE CommitPriority(c)
  <2>1. /\ req[c].op = "priority" /\ req' = [req EXCEPT ![c] = NoRequest]
        /\ clock' = clock /\ orders' = [orders EXCEPT ![k] = flagged]
    BY <1>1 DEF CommitPriority, Committing
  <2>2. k \in Ids /\ req[c].flag \in BOOLEAN /\ NamesAnOrder(req[c])
    BY <2>1, RequestFacts DEF DeskInv, Shaped, NamesAnOrder
  <2>3. orders[k] \in Order
    BY <2>2, ElementOfSeq DEF DeskInv, Shaped, Ids
  <2>4. flagged \in Order
    <3>1. orders[k].branch \in Branches /\ 0 \in Nat /\ "queued" \in Statuses
      BY <2>3 DEF Order, Statuses
    <3>2. QED
      BY <2>2, <2>3, <3>1, RowFacts
  <2>5. /\ flagged.quote = orders[k].quote /\ flagged.createdAt = orders[k].createdAt
        /\ flagged.queuedAt = orders[k].queuedAt /\ flagged.status = orders[k].status
        /\ flagged.branch = orders[k].branch
    BY <2>3 DEF Order
  <2> HIDE DEF flagged
  <2>6. QED
    BY <2>1, <2>2, <2>4, <2>5, RowKeeps DEF Active
<1>2. CASE CommitPayment(c)
  <2>1. /\ req[c].op = "pay" /\ req' = [req EXCEPT ![c] = NoRequest]
        /\ clock' = clock /\ orders' = [orders EXCEPT ![k] = paid]
    BY <1>2 DEF CommitPayment, Committing
  <2>2. k \in Ids /\ req[c].amount \in Nat /\ NamesAnOrder(req[c])
    BY <2>1, RequestFacts DEF DeskInv, Shaped, NamesAnOrder
  <2>3. orders[k] \in Order
    BY <2>2, ElementOfSeq DEF DeskInv, Shaped, Ids
  <2>4. paid \in Order
    <3>1. orders[k].branch \in Branches /\ TRUE \in BOOLEAN /\ 0 \in Nat /\ "queued" \in Statuses
      BY <2>3 DEF Order, Statuses
    <3>2. QED
      BY <2>2, <2>3, <3>1, RowFacts
  <2>5. /\ paid.quote = orders[k].quote /\ paid.createdAt = orders[k].createdAt
        /\ paid.queuedAt = orders[k].queuedAt /\ paid.status = orders[k].status
        /\ paid.branch = orders[k].branch
    BY <2>3 DEF Order
  <2> HIDE DEF paid
  <2>6. QED
    BY <2>1, <2>2, <2>4, <2>5, RowKeeps DEF Active
<1>3. QED
  BY <1>1, <1>2

\* No edge of the status graph brings a closed order back.
LEMMA CommitTransitionKeeps ==
    ASSUME DeskInv, NEW c \in Clients, CommitTransition(c)
    PROVE  DeskInv'
<1> DEFINE k == req[c].id
           to == req[c].to
           moved == [orders[k] EXCEPT !.status = to]
           queued == [orders[k] EXCEPT !.status = to, !.queuedAt = clock + 1, !.credit = Credit]
           row == IF Captures(req[c]) THEN queued ELSE moved
<1>1. /\ req[c].op = "move" /\ req' = [req EXCEPT ![c] = NoRequest]
      /\ clock' = IF Captures(req[c]) THEN clock + 1 ELSE clock
      /\ orders' = [orders EXCEPT ![k] = row]
  BY DEF CommitTransition, Committing
<1>2. k \in Ids /\ to \in Statuses /\ NamesAnOrder(req[c]) /\ clock + 1 \in Nat
  BY <1>1, RequestFacts DEF DeskInv, Shaped, NamesAnOrder
<1>3. orders[k] \in Order
  BY <1>2, ElementOfSeq DEF DeskInv, Shaped, Ids
<1>4. row \in Order
  <2>1. orders[k].branch \in Branches /\ TRUE \in BOOLEAN
    BY <1>3 DEF Order
  <2>2. moved \in Order /\ queued \in Order
    BY <1>2, <1>3, <2>1, RowFacts
  <2>3. QED
    BY <2>2
<1>5. /\ row.quote = orders[k].quote /\ row.createdAt = orders[k].createdAt
      /\ row.queuedAt \in {orders[k].queuedAt, clock'}
      /\ row.status = to /\ row.branch = orders[k].branch
  <2>1. /\ moved.quote = orders[k].quote /\ moved.createdAt = orders[k].createdAt
        /\ moved.queuedAt = orders[k].queuedAt
        /\ moved.status = to /\ moved.branch = orders[k].branch
    BY <1>3 DEF Order
  <2>2. /\ queued.quote = orders[k].quote /\ queued.createdAt = orders[k].createdAt
        /\ queued.queuedAt = clock + 1
        /\ queued.status = to /\ queued.branch = orders[k].branch
    BY <1>3 DEF Order
  <2>3. QED
    BY <1>1, <2>1, <2>2
<1> HIDE DEF row
<1>6. OneAtATime => (Active(row) => Active(orders[k]))
  <2> SUFFICES ASSUME OneAtATime, Active(row) PROVE Active(orders[k])
    OBVIOUS
  <2>1. <<orders[k].status, to>> \in Edges
    BY <1>1 DEF DeskInv, ReadsStand, StillSo
  <2>2. QED
    BY <1>5, <2>1 DEF Active, Edges, Terminal
<1>7. clock' \in {clock, clock + 1}
  BY <1>1
<1>8. QED
  BY <1>1, <1>2, <1>4, <1>5, <1>6, <1>7, RowKeeps

-----------------------------------------------------------------------------
\* What each request finds when it loads is what StillSo asks of it.
LEMMA LoadsKeep ==
    ASSUME DeskInv, NEW c \in Clients, NEW i \in Ids, NEW b \in Branches,
           \/ LoadChangeBranch(c, i, b)
           \/ LoadPriority(c, i)
           \/ \E to \in {"queued", "in_process", "finished", "dispatched", "cancelled"} :
                 LoadTransition(c, i, to)
           \/ \E amount \in 1..Credit : LoadPayment(c, i, amount)
    PROVE  DeskInv'
<1>1. i \in Nat /\ orders[i] \in Order
  BY ElementOfSeq DEF DeskInv, Shaped, Ids
<1>2. orders[i].priority \in BOOLEAN /\ orders[i].status \in Statuses
  BY <1>1 DEF Order, Statuses
<1>3. CASE LoadChangeBranch(c, i, b)
  <2> DEFINE r == [op |-> "branch", id |-> i, branch |-> b]
  <2>1. r \in Requests /\ r.op # "none" /\ r.id \in Ids
    BY <1>1 DEF Requests
  <2>2. StillSo(r)
    BY <1>3 DEF LoadChangeBranch, FreeAtTheTarget, StillSo
  <2>3. Load(c, r)
    BY <1>3 DEF LoadChangeBranch
  <2> HIDE DEF r
  <2>4. QED
    BY <2>1, <2>2, <2>3, LoadKeeps
<1>4. CASE LoadPriority(c, i)
  <2> DEFINE r == [op |-> "priority", id |-> i, flag |-> ~orders[i].priority]
  <2>1. r \in Requests /\ r.op # "none" /\ r.id \in Ids
    <3>1. (~orders[i].priority) \in BOOLEAN
      BY <1>2
    <3>2. QED
      BY <1>1, <3>1 DEF Requests
  <2>2. StillSo(r)
    BY DEF StillSo
  <2>3. Load(c, r)
    BY <1>4 DEF LoadPriority
  <2> HIDE DEF r
  <2>4. QED
    BY <2>1, <2>2, <2>3, LoadKeeps
<1>5. ASSUME NEW to \in {"queued", "in_process", "finished", "dispatched", "cancelled"},
             LoadTransition(c, i, to)
      PROVE  DeskInv'
  <2> DEFINE r == [op |-> "move", id |-> i, from |-> orders[i].status, to |-> to]
  <2>1. r \in Requests /\ r.op # "none" /\ r.id \in Ids
    <3>1. to \in Statuses
      BY DEF Statuses, Terminal
    <3>2. QED
      BY <1>1, <1>2, <3>1 DEF Requests
  <2>2. StillSo(r)
    BY <1>5 DEF LoadTransition, StillSo
  <2>3. Load(c, r)
    BY <1>5 DEF LoadTransition
  <2> HIDE DEF r
  <2>4. QED
    BY <2>1, <2>2, <2>3, LoadKeeps
<1>6. ASSUME NEW amount \in 1..Credit, LoadPayment(c, i, amount) PROVE DeskInv'
  <2> DEFINE r == [op |-> "pay", id |-> i, amount |-> amount]
  <2>1. r \in Requests /\ r.op # "none" /\ r.id \in Ids
    <3>1. amount \in Nat
      BY DeskAssumption
    <3>2. QED
      BY <1>1, <3>1 DEF Requests
  <2>2. StillSo(r)
    BY DEF StillSo
  <2>3. Load(c, r)
    BY <1>6 DEF LoadPayment
  <2> HIDE DEF r
  <2>4. QED
    BY <2>1, <2>2, <2>3, LoadKeeps
<1>7. QED
  BY <1>3, <1>4, <1>5, <1>6

\* A creation found no active order like it.
LEMMA LoadCreateKeeps ==
    ASSUME DeskInv, NEW c \in Clients, NEW q \in Quotes, NEW b \in Branches, LoadCreate(c, q, b)
    PROVE  DeskInv'
<1> DEFINE r == [op |-> "create", quote |-> q, branch |-> b]
<1>1. r \in Requests /\ r.op # "none" /\ ~NamesAnOrder(r)
  BY DEF Requests, NamesAnOrder
<1>2. StillSo(r)
  BY DEF LoadCreate, StillSo
<1>3. Load(c, r)
  BY DEF LoadCreate
<1> HIDE DEF r
<1>4. QED
  BY <1>1, <1>2, <1>3, LoadKeeps

\* Every step keeps the invariant.
LEMMA DeskStep == DeskInv /\ [Next]_vars => DeskInv'
<1> SUFFICES ASSUME DeskInv, [Next]_vars PROVE DeskInv'
  OBVIOUS
<1>1. ASSUME NEW c \in Clients, NEW q \in Quotes, NEW b \in Branches, LoadCreate(c, q, b)
      PROVE  DeskInv'
  BY <1>1, LoadCreateKeeps
<1>2. ASSUME NEW c \in Clients, NEW i \in Ids,
             \/ \E b \in Branches : LoadChangeBranch(c, i, b)
             \/ LoadPriority(c, i)
             \/ \E to \in {"queued", "in_process", "finished", "dispatched", "cancelled"} :
                   LoadTransition(c, i, to)
             \/ \E amount \in 1..Credit : LoadPayment(c, i, amount)
      PROVE  DeskInv'
  <2>1. PICK b \in Branches : TRUE
    BY DeskAssumption
  <2>2. QED
    BY <1>2, <2>1, LoadsKeep
<1>3. ASSUME NEW c \in Clients,
             \/ CommitCreate(c) \/ CommitChangeBranch(c) \/ CommitPriority(c)
             \/ CommitTransition(c) \/ CommitPayment(c)
      PROVE  DeskInv'
  BY <1>3, CommitCreateKeeps, CommitChangeBranchKeeps, CommitColumnKeeps, CommitTransitionKeeps
<1>4. CASE UNCHANGED vars
  BY <1>4 DEF vars, DeskInv, Shaped, Apart, ReadsStand, StillSo, NoTwoAlike, ActiveDuplicates,
              About, Ids, Active, NamesAnOrder
<1>5. QED
  BY <1>1, <1>2, <1>3, <1>4 DEF Next

\* The desk opens with no order and nobody asking.
LEMMA DeskStarts == Init => DeskInv
<1> SUFFICES ASSUME Init PROVE DeskInv
  OBVIOUS
<1>1. orders = <<>> /\ Ids = {} /\ clock = 0 /\ req = [c \in Clients |-> NoRequest]
  BY DEF Init, Ids
<1>2. \A c \in Clients : req[c].op = "none"
  BY <1>1, NoRequestFacts
<1>3. Shaped
  BY <1>1, <1>2, NoRequestFacts DEF Shaped, NamesAnOrder
<1>4. Apart /\ ReadsStand /\ NoTwoAlike
  BY <1>1, <1>2 DEF Apart, ReadsStand, StillSo, NoTwoAlike
<1>5. QED
  BY <1>3, <1>4 DEF DeskInv

\* The inductive invariant holds of every run of the desk.
THEOREM DeskSafe == Spec => []DeskInv
  BY DeskStarts, DeskStep, PTL DEF Spec

\* With one request in flight per quote, no branch ever has two identical active
\* orders, for any clients, branches and quotes.
THEOREM OneActive == ASSUME OneAtATime PROVE Spec => []OneActivePerBranch
<1>1. DeskInv => OneActivePerBranch
  <2> SUFFICES ASSUME DeskInv, NEW q \in Quotes, NEW b \in Branches
               PROVE  Cardinality(ActiveDuplicates(q, b)) <= 1
    BY DEF OneActivePerBranch
  <2>1. CASE ActiveDuplicates(q, b) = {}
    BY <2>1, FS_EmptySet
  <2>2. CASE ActiveDuplicates(q, b) # {}
    <3>1. PICK i \in ActiveDuplicates(q, b) : TRUE
      BY <2>2
    <3>2. ActiveDuplicates(q, b) = {i}
      BY <3>1, OneAtATime DEF DeskInv, NoTwoAlike, ActiveDuplicates, Active
    <3>3. Cardinality({i}) = 1
      BY FS_Singleton
    <3>4. QED
      BY <3>2, <3>3
  <2>3. QED
    BY <2>1, <2>2
<1>2. QED
  BY <1>1, DeskSafe, PTL

-----------------------------------------------------------------------------
\* The clock counts the creations and the arrivals: an order is dated once, as it leaves
\* "confirmed" for the queue, and no more are raised than there is room for.
Creating == {d \in Clients : req[d].op = "create"}
Arrived == {i \in Ids : orders[i].queuedAt # 0}

DatedOnce(o) ==
    IF o.status = "confirmed" THEN o.queuedAt = 0 ELSE o.queuedAt # 0 \/ o.status = "cancelled"

DatesCount ==
    /\ IsFiniteSet(Creating) /\ Len(orders) + Cardinality(Creating) <= MaxOrders
    /\ clock = Len(orders) + Cardinality(Arrived)
    /\ \A i \in Ids : DatedOnce(orders[i])

\* The invariant behind TypeOK, with one request about a quote at a time.
DatesInv == DeskInv /\ DatesCount

\* The arrivals are some of the orders.
LEMMA ArrivalsFinite ==
    ASSUME DeskInv
    PROVE  IsFiniteSet(Arrived) /\ Cardinality(Arrived) \in Nat /\ Cardinality(Arrived) <= Len(orders)
<1>1. Len(orders) \in Nat /\ Ids = 1..Len(orders)
  BY DEF DeskInv, Shaped, Ids
<1>2. IsFiniteSet(Ids) /\ Cardinality(Ids) = Len(orders)
  <2>1. PICK n \in Nat : n = Len(orders) /\ Ids = 1..n
    BY <1>1
  <2>2. IsFiniteSet(1..n) /\ Cardinality(1..n) = IF 1 > n THEN 0 ELSE n - 1 + 1
    BY FS_Interval
  <2>3. Cardinality(1..n) = n
    BY <2>2
  <2>4. QED
    BY <2>1, <2>2, <2>3
<1>3. Arrived \subseteq Ids
  BY DEF Arrived
<1>4. QED
  BY <1>2, <1>3, FS_Subset, FS_CardinalityType

\* A load may be one creation more; it dates nobody.
LEMMA LoadCounts ==
    ASSUME DatesInv, NEW c \in Clients, NEW r, Load(c, r),
           r.op = "create" => Len(orders) + Cardinality(Creating) < MaxOrders
    PROVE  DatesCount'
<1>1. /\ req' = [req EXCEPT ![c] = r] /\ req[c] = NoRequest
      /\ orders' = orders /\ clock' = clock
  BY DEF Load
<1>2. req'[c] = r /\ \A d \in Clients \ {c} : req'[d] = req[d]
  BY <1>1 DEF DatesInv, DeskInv, Shaped
<1>3. Arrived' = Arrived /\ \A i \in Ids' : DatedOnce(orders'[i])
  BY <1>1 DEF DatesInv, DatesCount, Arrived, Ids
<1>4. c \notin Creating /\ IsFiniteSet(Creating)
  BY <1>1, NoRequestFacts DEF Creating, DatesInv, DatesCount
<1>5. Len(orders) \in Nat /\ Cardinality(Creating) \in Nat
  BY <1>4, FS_CardinalityType DEF DatesInv, DeskInv, Shaped
<1>6. IsFiniteSet(Creating') /\ Len(orders) + Cardinality(Creating') <= MaxOrders
  <2>1. CASE r.op = "create"
    <3>1. Creating' = Creating \union {c}
      BY <1>2, <2>1 DEF Creating
    <3>2. IsFiniteSet(Creating') /\ Cardinality(Creating') = Cardinality(Creating) + 1
      BY <1>4, <3>1, FS_AddElement
    <3>3. QED
      BY <1>5, <2>1, <3>2, DeskAssumption
  <2>2. CASE r.op # "create"
    <3>1. Creating' = Creating
      BY <1>2, <1>4, <2>2 DEF Creating
    <3>2. QED
      BY <3>1 DEF DatesInv, DatesCount
  <2>3. QED
    BY <2>1, <2>2
<1>7. QED
  BY <1>1, <1>3, <1>6 DEF DatesInv, DatesCount

\* Every load, of an order or of a creation.
LEMMA LoadsCount ==
    ASSUME DatesInv, NEW c \in Clients,
           \/ \E q \in Quotes, b \in Branches : LoadCreate(c, q, b)
           \/ \E i \in Ids :
                 \/ \E b \in Branches : LoadChangeBranch(c, i, b)
                 \/ LoadPriority(c, i)
                 \/ \E to \in {"queued", "in_process", "finished", "dispatched", "cancelled"} :
                       LoadTransition(c, i, to)
                 \/ \E amount \in 1..Credit : LoadPayment(c, i, amount)
    PROVE  DatesCount'
<1>1. ASSUME NEW q \in Quotes, NEW b \in Branches, LoadCreate(c, q, b) PROVE DatesCount'
  <2> DEFINE r == [op |-> "create", quote |-> q, branch |-> b]
  <2>1. Load(c, r) /\ Len(orders) + Cardinality(Creating) < MaxOrders
    BY <1>1 DEF LoadCreate, Creating
  <2> HIDE DEF r
  <2>2. QED
    BY <2>1, LoadCounts
<1>2. ASSUME NEW i \in Ids, NEW b \in Branches, LoadChangeBranch(c, i, b) PROVE DatesCount'
  <2> DEFINE r == [op |-> "branch", id |-> i, branch |-> b]
  <2>1. Load(c, r) /\ r.op # "create"
    BY <1>2 DEF LoadChangeBranch
  <2> HIDE DEF r
  <2>2. QED
    BY <2>1, LoadCounts
<1>3. ASSUME NEW i \in Ids, LoadPriority(c, i) PROVE DatesCount'
  <2> DEFINE r == [op |-> "priority", id |-> i, flag |-> ~orders[i].priority]
  <2>1. Load(c, r) /\ r.op # "create"
    BY <1>3 DEF LoadPriority
  <2> HIDE DEF r
  <2>2. QED
    BY <2>1, LoadCounts
<1>4. ASSUME NEW i \in Ids, NEW to, LoadTransition(c, i, to) PROVE DatesCount'
  <2> DEFINE r == [op |-> "move", id |-> i, from |-> orders[i].status, to |-> to]
  <2>1. Load(c, r) /\ r.op # "create"
    BY <1>4 DEF LoadTransition
  <2> HIDE DEF r
  <2>2. QED
    BY <2>1, LoadCounts
<1>5. ASSUME NEW i \in Ids, NEW amount, LoadPayment(c, i, amount) PROVE DatesCount'
  <2> DEFINE r == [op |-> "pay", id |-> i, amount |-> amount]
  <2>1. Load(c, r) /\ r.op # "create"
    BY <1>5 DEF LoadPayment
  <2> HIDE DEF r
  <2>2. QED
    BY <2>1, LoadCounts
<1>6. QED
  BY <1>1, <1>2, <1>3, <1>4, <1>5

\* A creation ends as one order more, not dated yet.
LEMMA CommitCreateCounts ==
    ASSUME DatesInv, NEW c \in Clients, CommitCreate(c)
    PROVE  DatesCount'
<1> DEFINE row == [quote |-> req[c].quote, branch |-> req[c].branch,
                   status |-> "confirmed", priority |-> FALSE,
                   createdAt |-> clock + 1, queuedAt |-> 0, credit |-> 0, collected |-> 0]
           n == Len(orders) + 1
<1>1. /\ req[c].op = "create" /\ req' = [req EXCEPT ![c] = NoRequest]
      /\ clock' = clock + 1 /\ orders' = Append(orders, row)
  BY DEF CommitCreate, Committing
<1>2. row.queuedAt = 0 /\ DatedOnce(row)
  BY DEF DatedOnce
<1> HIDE DEF row
<1>3. orders \in Seq(Order) /\ Len(orders) \in Nat /\ Ids = 1..Len(orders)
  BY DEF DatesInv, DeskInv, Shaped, Ids
<1>4. /\ Len(orders') = n /\ Ids' = Ids \union {n} /\ n \notin Ids
      /\ orders'[n] = row /\ \A i \in Ids : orders'[i] = orders[i]
  BY <1>1, <1>3 DEF Ids
<1>5. Arrived' = Arrived
  BY <1>2, <1>4 DEF Arrived
<1>6. \A i \in Ids' : DatedOnce(orders'[i])
  BY <1>2, <1>4 DEF DatesInv, DatesCount
<1>7. c \in Creating /\ Creating' = Creating \ {c}
  <2>1. req'[c] = NoRequest /\ \A d \in Clients \ {c} : req'[d] = req[d]
    BY <1>1 DEF DatesInv, DeskInv, Shaped
  <2>2. QED
    BY <1>1, <2>1, NoRequestFacts DEF Creating
<1>8. IsFiniteSet(Creating) /\ Cardinality(Creating) \in Nat
  BY FS_CardinalityType DEF DatesInv, DatesCount
<1>9. IsFiniteSet(Creating') /\ Cardinality(Creating') = Cardinality(Creating) - 1
  BY <1>7, <1>8, FS_RemoveElement
<1>10. /\ Len(orders) + Cardinality(Creating) <= MaxOrders
       /\ clock = Len(orders) + Cardinality(Arrived)
  BY DEF DatesInv, DatesCount
<1>11. Cardinality(Arrived) \in Nat
  BY ArrivalsFinite DEF DatesInv
<1>12. /\ Len(orders') + Cardinality(Creating') <= MaxOrders
       /\ clock' = Len(orders') + Cardinality(Arrived')
  BY <1>1, <1>3, <1>4, <1>5, <1>8, <1>9, <1>10, <1>11, DeskAssumption
<1>13. QED
  BY <1>6, <1>9, <1>12 DEF DatesCount

\* A commit about an order leaves its date, or gives it its one date.
LEMMA RowCounts ==
    ASSUME DatesInv, NEW c \in Clients, NEW row \in Order,
           NamesAnOrder(req[c]),
           req' = [req EXCEPT ![c] = NoRequest],
           orders' = [orders EXCEPT ![req[c].id] = row],
           DatedOnce(row),
           \/ clock' = clock /\ row.queuedAt = orders[req[c].id].queuedAt
           \/ clock' = clock + 1 /\ row.queuedAt # 0 /\ orders[req[c].id].queuedAt = 0
    PROVE  DatesCount'
<1> DEFINE k == req[c].id
<1>1. orders \in Seq(Order) /\ Len(orders) \in Nat /\ Ids = 1..Len(orders) /\ k \in Ids
  BY DEF DatesInv, DeskInv, Shaped, Ids
<1>2. /\ Len(orders') = Len(orders) /\ Ids' = Ids
      /\ orders'[k] = row /\ \A i \in Ids : i # k => orders'[i] = orders[i]
  BY <1>1, ExceptSeq DEF Ids
<1>3. Creating' = Creating
  <2>1. req'[c] = NoRequest /\ \A d \in Clients \ {c} : req'[d] = req[d]
    BY DEF DatesInv, DeskInv, Shaped
  <2>2. QED
    BY <2>1, NoRequestFacts DEF Creating, NamesAnOrder
<1>4. \A i \in Ids' : DatedOnce(orders'[i])
  BY <1>2 DEF DatesInv, DatesCount
<1>5. IsFiniteSet(Arrived) /\ Cardinality(Arrived) \in Nat
  BY ArrivalsFinite DEF DatesInv
<1>6. clock' = Len(orders) + Cardinality(Arrived')
  <2>1. clock = Len(orders) + Cardinality(Arrived)
    BY DEF DatesInv, DatesCount
  <2>2. CASE clock' = clock /\ row.queuedAt = orders[k].queuedAt
    <3>1. Arrived' = Arrived
      BY <1>1, <1>2, <2>2 DEF Arrived
    <3>2. QED
      BY <2>1, <2>2, <3>1
  <2>3. CASE clock' = clock + 1 /\ row.queuedAt # 0 /\ orders[k].queuedAt = 0
    <3>1. k \notin Arrived /\ Arrived' = Arrived \union {k}
      BY <1>1, <1>2, <2>3 DEF Arrived
    <3>2. Cardinality(Arrived') = Cardinality(Arrived) + 1
      BY <1>5, <3>1, FS_AddElement
    <3>3. QED
      BY <1>1, <1>5, <2>1, <2>3, <3>2
  <2>4. QED
    BY <2>2, <2>3
<1>7. QED
  BY <1>2, <1>3, <1>4, <1>6 DEF DatesInv, DatesCount

\* The columns beside the status date nothing; a transition dates what leaves "confirmed".
LEMMA CommitRowCounts ==
    ASSUME DatesInv, OneAtATime, NEW c \in Clients,
           \/ CommitChangeBranch(c) \/ CommitPriority(c)
           \/ CommitTransition(c) \/ CommitPayment(c)
    PROVE  DatesCount'
<1> DEFINE k == req[c].id
           o == orders[k]
<1>1. /\ NamesAnOrder(req[c]) /\ req' = [req EXCEPT ![c] = NoRequest]
  BY DEF CommitChangeBranch, CommitPriority, CommitTransition, CommitPayment, Committing,
         NamesAnOrder
<1>2. k \in Ids /\ req[c] \in Requests /\ clock \in Nat
  BY <1>1 DEF DatesInv, DeskInv, Shaped
<1>3. o \in Order /\ DatedOnce(o)
  <2>1. o \in Order
    BY <1>2, ElementOfSeq DEF DatesInv, DeskInv, Shaped, Ids
  <2>2. QED
    BY <1>2, <2>1 DEF DatesInv, DatesCount
<1>4. CASE CommitChangeBranch(c)
  <2> DEFINE row == [o EXCEPT !.branch = req[c].branch]
  <2>1. orders' = [orders EXCEPT ![k] = row] /\ clock' = clock
        /\ req[c].branch \in Branches
    BY <1>2, <1>4, RequestFacts DEF CommitChangeBranch, Committing
  <2>2. row \in Order /\ row.queuedAt = o.queuedAt /\ row.status = o.status
    BY <1>3, <2>1 DEF Order
  <2> HIDE DEF row
  <2>3. DatedOnce(row)
    BY <1>3, <2>2 DEF DatedOnce
  <2>4. QED
    BY <1>1, <2>1, <2>2, <2>3, RowCounts
<1>5. CASE CommitPriority(c)
  <2> DEFINE row == [o EXCEPT !.priority = req[c].flag]
  <2>1. orders' = [orders EXCEPT ![k] = row] /\ clock' = clock
        /\ req[c].flag \in BOOLEAN
    BY <1>2, <1>5, RequestFacts DEF CommitPriority, Committing
  <2>2. row \in Order /\ row.queuedAt = o.queuedAt /\ row.status = o.status
    BY <1>3, <2>1 DEF Order
  <2> HIDE DEF row
  <2>3. DatedOnce(row)
    BY <1>3, <2>2 DEF DatedOnce
  <2>4. QED
    BY <1>1, <2>1, <2>2, <2>3, RowCounts
<1>6. CASE CommitPayment(c)
  <2> DEFINE row == [o EXCEPT !.collected = @ + req[c].amount]
  <2>1. orders' = [orders EXCEPT ![k] = row] /\ clock' = clock
        /\ req[c].amount \in Nat
    BY <1>2, <1>6, RequestFacts DEF CommitPayment, Committing
  <2>2. row \in Order /\ row.queuedAt = o.queuedAt /\ row.status = o.status
    <3>1. o.collected + req[c].amount \in Nat
      BY <1>3, <2>1 DEF Order
    <3>2. QED
      BY <1>3, <3>1 DEF Order
  <2> HIDE DEF row
  <2>3. DatedOnce(row)
    BY <1>3, <2>2 DEF DatedOnce
  <2>4. QED
    BY <1>1, <2>1, <2>2, <2>3, RowCounts
<1>7. CASE CommitTransition(c)
  <2>1. /\ req[c].op = "move"
        /\ clock' = IF Captures(req[c]) THEN clock + 1 ELSE clock
        /\ orders' = [orders EXCEPT ![k] =
               IF Captures(req[c])
               THEN [o EXCEPT !.status = req[c].to, !.queuedAt = clock', !.credit = Credit]
               ELSE [o EXCEPT !.status = req[c].to]]
    BY <1>7 DEF CommitTransition, Committing
  <2>2. /\ req[c].to \in Statuses /\ req[c].from = o.status
        /\ <<o.status, req[c].to>> \in Edges
    BY <1>2, <2>1, RequestFacts DEF DatesInv, DeskInv, ReadsStand, StillSo
  <2>3. CASE Captures(req[c])
    <3> DEFINE row == [o EXCEPT !.status = req[c].to, !.queuedAt = clock', !.credit = Credit]
    <3>1. clock' = clock + 1 /\ clock' \in Nat /\ clock' # 0
          /\ orders' = [orders EXCEPT ![k] = row]
      BY <1>2, <2>1, <2>3
    <3>2. row \in Order /\ row.queuedAt = clock' /\ row.status = req[c].to
      BY <1>3, <2>2, <3>1 DEF Order, Statuses
    <3> HIDE DEF row
    <3>3. DatedOnce(row) /\ o.queuedAt = 0
      BY <1>3, <2>2, <2>3, <3>1, <3>2 DEF DatedOnce, Captures
    <3>4. QED
      BY <1>1, <3>1, <3>2, <3>3, RowCounts
  <2>4. CASE ~Captures(req[c])
    <3> DEFINE row == [o EXCEPT !.status = req[c].to]
    <3>1. clock' = clock /\ orders' = [orders EXCEPT ![k] = row]
      BY <2>1, <2>4
    <3>2. row \in Order /\ row.queuedAt = o.queuedAt /\ row.status = req[c].to
      BY <1>3, <2>2 DEF Order, Statuses
    <3> HIDE DEF row
    <3>3. DatedOnce(row)
      BY <1>3, <2>2, <2>4, <3>2 DEF DatedOnce, Captures, Edges
    <3>4. QED
      BY <1>1, <3>1, <3>2, <3>3, RowCounts
  <2>5. QED
    BY <2>3, <2>4
<1>8. QED
  BY <1>4, <1>5, <1>6, <1>7

\* Every step keeps the count of the dates.
LEMMA DatesStep == ASSUME OneAtATime PROVE DatesInv /\ [Next]_vars => DatesInv'
<1> SUFFICES ASSUME DatesInv, [Next]_vars PROVE DatesInv'
  OBVIOUS
<1>1. DeskInv'
  BY DeskStep DEF DatesInv
<1>2. CASE Next
  <2>1. PICK c \in Clients :
           \/ \E q \in Quotes, b \in Branches : LoadCreate(c, q, b)
           \/ \E i \in Ids :
                 \/ \E b \in Branches : LoadChangeBranch(c, i, b)
                 \/ LoadPriority(c, i)
                 \/ \E to \in {"queued", "in_process", "finished", "dispatched", "cancelled"} :
                       LoadTransition(c, i, to)
                 \/ \E amount \in 1..Credit : LoadPayment(c, i, amount)
           \/ CommitCreate(c) \/ CommitChangeBranch(c) \/ CommitPriority(c)
           \/ CommitTransition(c) \/ CommitPayment(c)
    BY <1>2 DEF Next
  <2>2. DatesCount'
    BY <2>1, LoadsCount, CommitCreateCounts, CommitRowCounts
  <2>3. QED
    BY <1>1, <2>2 DEF DatesInv
<1>3. CASE UNCHANGED vars
  BY <1>1, <1>3 DEF vars, DatesInv, DatesCount, Creating, Arrived, Ids
<1>4. QED
  BY <1>2, <1>3

\* With one request in flight per quote the desk keeps its types: the clock counts at
\* most two instants an order, and what is past "confirmed" has its arrival.
THEOREM DeskTypeCorrect == ASSUME OneAtATime PROVE Spec => []TypeOK
<1>1. Init => DatesInv
  <2> SUFFICES ASSUME Init PROVE DatesInv
    OBVIOUS
  <2>1. orders = <<>> /\ Ids = {} /\ clock = 0 /\ Len(orders) = 0
        /\ \A c \in Clients : req[c] = NoRequest
    BY DEF Init, Ids
  <2>2. Creating = {} /\ Arrived = {}
    BY <2>1, NoRequestFacts DEF Creating, Arrived
  <2>3. DatesCount
    BY <2>1, <2>2, FS_EmptySet, DeskAssumption DEF DatesCount
  <2>4. DeskInv
    BY DeskStarts
  <2>5. QED
    BY <2>3, <2>4 DEF DatesInv
<1>2. DatesInv => TypeOK
  <2> SUFFICES ASSUME DatesInv PROVE TypeOK
    OBVIOUS
  <2>1. /\ orders \in Seq(Order) /\ clock \in Nat /\ DOMAIN req = Clients
        /\ \A i \in Ids : orders[i].createdAt <= clock /\ orders[i].queuedAt <= clock
    BY DEF DatesInv, DeskInv, Shaped
  <2>2. clock \in 0..(2 * MaxOrders)
    <3>1. Cardinality(Arrived) \in Nat /\ Cardinality(Arrived) <= Len(orders)
      BY ArrivalsFinite DEF DatesInv
    <3>2. IsFiniteSet(Creating) /\ Cardinality(Creating) \in Nat /\ Len(orders) \in Nat
      BY <2>1, FS_CardinalityType DEF DatesInv, DatesCount
    <3>3. Len(orders) + Cardinality(Creating) <= MaxOrders
          /\ clock = Len(orders) + Cardinality(Arrived)
      BY DEF DatesInv, DatesCount
    <3>4. QED
      BY <2>1, <3>1, <3>2, <3>3, DeskAssumption
  <2>3. \A i \in Ids : orders[i].status # "confirmed" => orders[i].queuedAt # 0
                                                        \/ orders[i].status = "cancelled"
    BY DEF DatesInv, DatesCount, DatedOnce
  <2>4. QED
    BY <2>1, <2>2, <2>3 DEF TypeOK
<1>3. QED
  BY <1>1, <1>2, DatesStep, PTL DEF Spec

-----------------------------------------------------------------------------
\* What a step may do to the place of an order: nothing but date its arrival, now,
\* and to no other order.
Dated(i) ==
    /\ orders'[i].queuedAt = clock + 1
    /\ orders'[i].priority = orders[i].priority
    /\ \A j \in Ids \ {i} : orders'[j] = orders[j]
    /\ OneAtATime => orders[i].status = "confirmed"

KeepsItsPlace(i) ==
    /\ orders'[i].createdAt = orders[i].createdAt
    /\ orders'[i].queuedAt = orders[i].queuedAt \/ Dated(i)

\* A commit about order k that leaves its instants leaves everybody's.
LEMMA SameInstants ==
    ASSUME DeskInv, NEW k \in Ids, NEW row \in Order,
           orders' = [orders EXCEPT ![k] = row],
           row.createdAt = orders[k].createdAt, row.queuedAt = orders[k].queuedAt
    PROVE  \A i \in Ids : KeepsItsPlace(i)
<1>1. orders \in Seq(Order) /\ Ids = 1..Len(orders)
  BY DEF DeskInv, Shaped, Ids
<1>2. orders'[k] = row /\ \A i \in Ids : i # k => orders'[i] = orders[i]
  BY <1>1
<1>3. QED
  BY <1>2 DEF KeepsItsPlace

\* So every step keeps every place.
LEMMA PlacesKept ==
    ASSUME DeskInv, [Next]_vars
    PROVE  \A i \in Ids : KeepsItsPlace(i)
<1>1. CASE orders' = orders
  BY <1>1 DEF KeepsItsPlace
<1>2. ASSUME NEW c \in Clients, CommitCreate(c) PROVE \A i \in Ids : KeepsItsPlace(i)
  <2>1. orders \in Seq(Order) /\ Ids = 1..Len(orders) /\ Len(orders) \in Nat
    BY DEF DeskInv, Shaped, Ids
  <2>2. PICK row : orders' = Append(orders, row)
    BY <1>2 DEF CommitCreate
  <2>3. \A i \in Ids : orders'[i] = orders[i]
    BY <2>1, <2>2
  <2>4. QED
    BY <2>3 DEF KeepsItsPlace
<1>3. ASSUME NEW c \in Clients, NamesAnOrder(req[c])
      PROVE  /\ req[c].id \in Ids /\ orders[req[c].id] \in Order
             /\ req[c] \in Requests
  <2>1. req[c].id \in Ids /\ req[c] \in Requests
    BY <1>3 DEF DeskInv, Shaped
  <2>2. QED
    BY <2>1, ElementOfSeq DEF DeskInv, Shaped, Ids
<1>4. ASSUME NEW c \in Clients, CommitChangeBranch(c) PROVE \A i \in Ids : KeepsItsPlace(i)
  <2> DEFINE k == req[c].id
             row == [orders[k] EXCEPT !.branch = req[c].branch]
  <2>1. req[c].op = "branch" /\ orders' = [orders EXCEPT ![k] = row] /\ NamesAnOrder(req[c])
    BY <1>4 DEF CommitChangeBranch, Committing, NamesAnOrder
  <2>2. k \in Ids /\ orders[k] \in Order /\ req[c].branch \in Branches
    BY <1>3, <2>1, RequestFacts
  <2>3. row \in Order
    BY <2>2, RowFacts DEF Statuses
  <2>4. row.createdAt = orders[k].createdAt /\ row.queuedAt = orders[k].queuedAt
    BY <2>2 DEF Order
  <2> HIDE DEF row
  <2>5. QED
    BY <2>1, <2>2, <2>3, <2>4, SameInstants
<1>5. ASSUME NEW c \in Clients, CommitPriority(c) PROVE \A i \in Ids : KeepsItsPlace(i)
  <2> DEFINE k == req[c].id
             row == [orders[k] EXCEPT !.priority = req[c].flag]
  <2>1. req[c].op = "priority" /\ orders' = [orders EXCEPT ![k] = row] /\ NamesAnOrder(req[c])
    BY <1>5 DEF CommitPriority, Committing, NamesAnOrder
  <2>2. k \in Ids /\ orders[k] \in Order /\ req[c].flag \in BOOLEAN
    BY <1>3, <2>1, RequestFacts
  <2>3. row \in Order
    <3>1. orders[k].branch \in Branches /\ 0 \in Nat /\ "queued" \in Statuses
      BY <2>2 DEF Order, Statuses
    <3>2. QED
      BY <2>2, <3>1, RowFacts
  <2>4. row.createdAt = orders[k].createdAt /\ row.queuedAt = orders[k].queuedAt
    BY <2>2 DEF Order
  <2> HIDE DEF row
  <2>5. QED
    BY <2>1, <2>2, <2>3, <2>4, SameInstants
<1>6. ASSUME NEW c \in Clients, CommitPayment(c) PROVE \A i \in Ids : KeepsItsPlace(i)
  <2> DEFINE k == req[c].id
             row == [orders[k] EXCEPT !.collected = @ + req[c].amount]
  <2>1. req[c].op = "pay" /\ orders' = [orders EXCEPT ![k] = row] /\ NamesAnOrder(req[c])
    BY <1>6 DEF CommitPayment, Committing, NamesAnOrder
  <2>2. k \in Ids /\ orders[k] \in Order /\ req[c].amount \in Nat
    BY <1>3, <2>1, RequestFacts
  <2>3. row \in Order
    <3>1. orders[k].branch \in Branches /\ TRUE \in BOOLEAN /\ 0 \in Nat /\ "queued" \in Statuses
      BY <2>2 DEF Order, Statuses
    <3>2. QED
      BY <2>2, <3>1, RowFacts
  <2>4. row.createdAt = orders[k].createdAt /\ row.queuedAt = orders[k].queuedAt
    BY <2>2 DEF Order
  <2> HIDE DEF row
  <2>5. QED
    BY <2>1, <2>2, <2>3, <2>4, SameInstants
<1>7. ASSUME NEW c \in Clients, CommitTransition(c) PROVE \A i \in Ids : KeepsItsPlace(i)
  <2> DEFINE k == req[c].id
             moved == [orders[k] EXCEPT !.status = req[c].to]
             queued == [orders[k] EXCEPT !.status = req[c].to, !.queuedAt = clock + 1,
                                         !.credit = Credit]
  <2>1. req[c].op = "move" /\ NamesAnOrder(req[c])
    BY <1>7 DEF CommitTransition, Committing, NamesAnOrder
  <2>2. k \in Ids /\ orders[k] \in Order /\ req[c].to \in Statuses /\ clock + 1 \in Nat
    BY <1>3, <2>1, RequestFacts DEF DeskInv, Shaped
  <2>3. moved \in Order /\ queued \in Order
    <3>1. orders[k].branch \in Branches /\ TRUE \in BOOLEAN
      BY <2>2 DEF Order
    <3>2. QED
      BY <2>2, <3>1, RowFacts
  <2>4. CASE Captures(req[c])
    <3>1. orders' = [orders EXCEPT ![k] = queued]
      BY <1>7, <2>4 DEF CommitTransition
    <3>2. /\ queued.createdAt = orders[k].createdAt /\ queued.queuedAt = clock + 1
          /\ queued.priority = orders[k].priority
      BY <2>2 DEF Order
    <3>3. OneAtATime => orders[k].status = "confirmed"
      BY <2>1, <2>4 DEF DeskInv, ReadsStand, StillSo, Captures
    <3> HIDE DEF queued
    <3>4. orders'[k] = queued /\ \A i \in Ids : i # k => orders'[i] = orders[i]
      BY <2>2, <3>1 DEF DeskInv, Shaped, Ids
    <3>5. QED
      BY <3>2, <3>3, <3>4 DEF KeepsItsPlace, Dated
  <2>5. CASE ~Captures(req[c])
    <3>1. orders' = [orders EXCEPT ![k] = moved]
      BY <1>7, <2>5 DEF CommitTransition
    <3>2. moved.createdAt = orders[k].createdAt /\ moved.queuedAt = orders[k].queuedAt
      BY <2>2 DEF Order
    <3> HIDE DEF moved
    <3>3. QED
      BY <2>2, <2>3, <3>1, <3>2, SameInstants
  <2>6. QED
    BY <2>4, <2>5
<1>8. QED
  BY <1>1, <1>2, <1>4, <1>5, <1>6, <1>7
  DEF Next, vars, LoadCreate, LoadChangeBranch, LoadPriority, LoadTransition, LoadPayment, Load

\* Whoever reaches the board goes behind everybody of their priority, whatever is
\* in flight.
THEOREM ArrivalsWait == Spec => ArrivalsGoLast
<1> DEFINE Latest == \A i, j \in Ids :
                      /\ orders[i].queuedAt = 0 /\ orders'[i].queuedAt # 0
                      /\ j \in Board(orders[j].branch)
                      /\ j # i /\ orders[j].priority = orders[i].priority
                      => ListedBefore(j, i)'
<1>1. DeskInv /\ [Next]_vars => [Latest]_vars
  <2> SUFFICES ASSUME DeskInv, [Next]_vars, NEW i \in Ids, NEW j \in Ids,
                      orders[i].queuedAt = 0, orders'[i].queuedAt # 0,
                      j # i, orders[j].priority = orders[i].priority
               PROVE  ListedBefore(j, i)'
    OBVIOUS
  <2>1. Dated(i)
    BY PlacesKept DEF KeepsItsPlace
  <2>2. orders'[j] = orders[j] /\ orders'[i].priority = orders'[j].priority
    BY <2>1 DEF Dated
  <2>3. clock \in Nat /\ Arrival(orders[j]) \in Nat /\ Arrival(orders[j]) <= clock
    <3>1. orders[j] \in Order
      BY ElementOfSeq DEF DeskInv, Shaped, Ids
    <3>2. QED
      BY <3>1 DEF DeskInv, Shaped, Order, Arrival
  <2>4. Arrival(orders'[i]) = clock + 1 /\ Arrival(orders'[j]) = Arrival(orders[j])
    BY <2>1, <2>2 DEF Dated, Arrival
  <2>5. QED
    BY <2>2, <2>3, <2>4 DEF ListedBefore, Arrival
<1>2. QED
  BY <1>1, DeskSafe, PTL DEF Spec, ArrivalsGoLast

\* Two orders on the board keep their order unless sales change a priority.
THEOREM PlacesHold == ASSUME OneAtATime PROVE Spec => NobodyOvertakes
<1> DEFINE Holds == \A b \in Branches : \A i, j \in Board(b) \cap Board(b)' :
                       /\ orders'[i].priority = orders[i].priority
                       /\ orders'[j].priority = orders[j].priority
                       => (ListedBefore(i, j) <=> ListedBefore(i, j)')
<1>1. DeskInv /\ [Next]_vars => [Holds]_vars
  <2> SUFFICES ASSUME DeskInv, [Next]_vars, NEW b \in Branches,
                      NEW i \in Board(b) \cap Board(b)', NEW j \in Board(b) \cap Board(b)',
                      orders'[i].priority = orders[i].priority,
                      orders'[j].priority = orders[j].priority
               PROVE  ListedBefore(i, j) <=> ListedBefore(i, j)'
    OBVIOUS
  <2>1. ASSUME NEW n \in Board(b) PROVE Arrival(orders'[n]) = Arrival(orders[n])
    <3>1. n \in Ids /\ orders[n].status # "confirmed"
      BY <2>1 DEF Board
    <3>2. orders'[n].createdAt = orders[n].createdAt /\ orders'[n].queuedAt = orders[n].queuedAt
      BY <3>1, PlacesKept, OneAtATime DEF KeepsItsPlace, Dated
    <3>3. QED
      BY <3>2 DEF Arrival
  <2>2. QED
    BY <2>1 DEF ListedBefore, Arrival
<1>2. QED
  BY <1>1, DeskSafe, PTL DEF Spec, NobodyOvertakes

-----------------------------------------------------------------------------
(* SalesReports: what is sold, collected and owed *)

Receipts == [order : Sales, day : AllDays, amount : Nat, voided : BOOLEAN]

\* The columns of the orders and of their payment rows.
SalesShaped ==
    /\ date \in AllDays
    /\ standing \in [Sales -> {"confirmed", "queued", "in_process", "cancelled"}]
    /\ shop \in [Sales -> Shops]
    /\ soldOn \in [Sales -> {NotYet} \union AllDays]
    /\ received \in [Sales -> Nat] /\ owed \in [Sales -> Nat]
    /\ receipts \in Seq(Receipts)

\* What is collected stays within what was sold on credit; before the sale nothing
\* is owed nor collected, and an order to collect is not sold.
SalesBooked ==
    \A o \in Sales :
        /\ Collected(o) <= owed[o]
        /\ soldOn[o] = NotYet => owed[o] = 0 /\ \A i \in DOMAIN receipts : receipts[i].order # o
        /\ standing[o] = "confirmed" => soldOn[o] = NotYet

SalesInv == SalesShaped /\ SalesBooked

\* What an order collected is the sum of numbers over finitely many rows.
LEMMA CollectedFact ==
    ASSUME SalesShaped, NEW o \in Sales
    PROVE  /\ IsFiniteSet(ReceiptsOf(o)) /\ ReceiptsOf(o) \subseteq DOMAIN receipts
           /\ \A i \in DOMAIN receipts : Amounts[i] \in Nat
           /\ Collected(o) \in Nat
<1>1. receipts \in Seq(Receipts) /\ Len(receipts) \in Nat /\ DOMAIN receipts = 1..Len(receipts)
  BY DEF SalesShaped
<1>2. IsFiniteSet(DOMAIN receipts)
  BY <1>1, FS_Interval
<1>3. IsFiniteSet(ReceiptsOf(o)) /\ ReceiptsOf(o) \subseteq DOMAIN receipts
  BY <1>2, FS_Subset DEF ReceiptsOf
<1>4. ASSUME NEW i \in DOMAIN receipts PROVE Amounts[i] \in Nat
  <2>1. receipts[i] \in Receipts
    BY <1>1
  <2>2. receipts[i].amount \in Nat
    BY <2>1 DEF Receipts
  <2>3. QED
    BY <2>2 DEF Amounts
<1>5. \A i \in ReceiptsOf(o) : Amounts[i] \in Nat
  BY <1>3, <1>4
<1>6. QED
  BY <1>3, <1>4, <1>5, TotalIsNatural DEF Collected

\* A payment within the balance adds to its own order and to no other.
LEMMA PayBackCollects ==
    ASSUME SalesInv, NEW o \in Sales, NEW amount, PayBack(o, amount)
    PROVE  /\ amount \in Nat /\ receipts' \in Seq(Receipts)
           /\ \A p \in Sales : Collected(p)' <= owed[p]
<1> DEFINE n == Len(receipts) + 1
           row == [order |-> o, day |-> date, amount |-> amount, voided |-> FALSE]
<1>1. Collected(o) \in Nat /\ owed[o] \in Nat /\ receipts \in Seq(Receipts) /\ date \in AllDays
  BY CollectedFact DEF SalesInv, SalesShaped
<1>2. amount \in 1..(owed[o] - Collected(o))
  BY DEF PayBack, CreditBalance
<1>3. amount \in Nat /\ Collected(o) + amount <= owed[o]
  BY <1>1, <1>2
<1>4. row \in Receipts
  BY <1>1, <1>3 DEF Receipts
<1>5. receipts' = Append(receipts, row)
  BY DEF PayBack
<1>6. /\ receipts' \in Seq(Receipts) /\ n \notin DOMAIN receipts
      /\ DOMAIN receipts' = DOMAIN receipts \union {n}
      /\ receipts'[n] = row
      /\ \A i \in DOMAIN receipts : receipts'[i] = receipts[i]
  <2> HIDE DEF row
  <2>1. QED
    BY <1>1, <1>4, <1>5
<1>7. \A i \in DOMAIN receipts : Amounts'[i] = Amounts[i] /\ Amounts[i] \in Nat
  BY <1>6, <1>1, CollectedFact DEF Amounts, SalesInv
<1>8. Amounts'[n] = amount
  BY <1>6 DEF Amounts
<1>9. ASSUME NEW p \in Sales
      PROVE  /\ IsFiniteSet(ReceiptsOf(p)) /\ ReceiptsOf(p) \subseteq DOMAIN receipts
             /\ \A i \in ReceiptsOf(p) : Amounts'[i] \in Int /\ Amounts'[i] = Amounts[i]
             /\ Total(Amounts', ReceiptsOf(p)) = Collected(p)
  <2>1. IsFiniteSet(ReceiptsOf(p)) /\ ReceiptsOf(p) \subseteq DOMAIN receipts
    BY CollectedFact DEF SalesInv
  <2>2. \A i \in ReceiptsOf(p) : Amounts'[i] \in Int /\ Amounts'[i] = Amounts[i]
    BY <1>7, <2>1
  <2>3. QED
    BY <2>1, <2>2, TotalAgrees DEF Collected
<1>10. ASSUME NEW p \in Sales, p = o
       PROVE  ReceiptsOf(p)' = ReceiptsOf(p) \union {n} /\ n \notin ReceiptsOf(p)
  BY <1>6, <1>9, <1>10 DEF ReceiptsOf
<1>11. \A p \in Sales \ {o} : ReceiptsOf(p)' = ReceiptsOf(p)
  BY <1>6 DEF ReceiptsOf
<1> HIDE DEF n, row
<1>12. ASSUME NEW p \in Sales, p = o PROVE Collected(p)' <= owed[p]
  <2>1. \A i \in ReceiptsOf(p) \union {n} : Amounts'[i] \in Int
    BY <1>9, <1>8, <1>3
  <2>2. Total(Amounts', ReceiptsOf(p) \union {n}) = Amounts'[n] + Total(Amounts', ReceiptsOf(p))
    BY <1>9, <1>10, <1>12, <2>1, TotalOfOneMore
  <2>3. Collected(p)' = Total(Amounts', ReceiptsOf(p) \union {n})
    BY <1>10, <1>12 DEF Collected
  <2>4. Collected(p)' = amount + Collected(p)
    BY <1>8, <1>9, <2>2, <2>3
  <2>5. Collected(p) = Collected(o)
    BY <1>12
  <2>6. QED
    BY <1>1, <1>3, <1>12, <2>4, <2>5
<1>13. ASSUME NEW p \in Sales, p # o PROVE Collected(p)' <= owed[p]
  BY <1>9, <1>11, <1>13 DEF Collected, SalesInv, SalesBooked
<1>14. QED
  BY <1>3, <1>6, <1>12, <1>13

\* A void only takes a row out of what its order collected.
LEMMA VoidReturns ==
    ASSUME SalesInv, NEW i \in DOMAIN receipts, Void(i)
    PROVE  /\ receipts' \in Seq(Receipts) /\ DOMAIN receipts' = DOMAIN receipts
           /\ \A j \in DOMAIN receipts : receipts'[j].order = receipts[j].order
           /\ \A p \in Sales : Collected(p)' <= Collected(p) /\ Collected(p) \in Nat /\ Collected(p)' \in Nat
<1>1. receipts \in Seq(Receipts) /\ receipts[i] \in Receipts
  BY DEF SalesInv, SalesShaped
<1>2. receipts' = [receipts EXCEPT ![i] = [receipts[i] EXCEPT !.voided = TRUE]]
  BY DEF Void
<1>3. [receipts[i] EXCEPT !.voided = TRUE] \in Receipts
  BY <1>1 DEF Receipts
<1>4. receipts' \in Seq(Receipts) /\ DOMAIN receipts' = DOMAIN receipts
  BY <1>1, <1>2, <1>3
<1>5. /\ \A j \in DOMAIN receipts : /\ receipts'[j].order = receipts[j].order
                                    /\ receipts'[j].amount = receipts[j].amount
                                    /\ j # i => receipts'[j] = receipts[j]
      /\ receipts'[i].voided
  BY <1>1, <1>2 DEF Receipts
<1>6. Amounts' = Amounts
  BY <1>4, <1>5 DEF Amounts
<1>7. ASSUME NEW p \in Sales
      PROVE  Collected(p)' <= Collected(p) /\ Collected(p) \in Nat /\ Collected(p)' \in Nat
  <2>1. /\ IsFiniteSet(ReceiptsOf(p)) /\ ReceiptsOf(p) \subseteq DOMAIN receipts
        /\ \A j \in ReceiptsOf(p) : Amounts[j] \in Nat
    BY CollectedFact DEF SalesInv
  <2>2. ReceiptsOf(p)' = ReceiptsOf(p) \ {i}
    BY <1>4, <1>5 DEF ReceiptsOf
  <2>3. Collected(p)' = Total(Amounts, ReceiptsOf(p) \ {i})
    BY <1>6, <2>2 DEF Collected
  <2>4. CASE i \in ReceiptsOf(p)
    <3>1. IsFiniteSet(ReceiptsOf(p) \ {i})
      BY <2>1, FS_Subset
    <3>2. Total(Amounts, ReceiptsOf(p) \ {i}) \in Nat
      BY <2>1, <3>1, TotalIsNatural
    <3>3. Total(Amounts, ReceiptsOf(p)) = Amounts[i] + Total(Amounts, ReceiptsOf(p) \ {i})
      BY <2>1, <2>4, TotalSplits
    <3>4. Amounts[i] \in Nat
      BY <2>1, <2>4
    <3>5. Total(Amounts, ReceiptsOf(p)) = Collected(p)
      BY DEF Collected
    <3>6. QED
      BY <2>3, <3>2, <3>3, <3>4, <3>5
  <2>5. CASE i \notin ReceiptsOf(p)
    <3>1. ReceiptsOf(p) \ {i} = ReceiptsOf(p)
      BY <2>5
    <3>2. Collected(p) \in Nat /\ Collected(p)' = Collected(p)
      BY <2>3, <3>1, CollectedFact DEF Collected, SalesInv
    <3>3. QED
      BY <3>2
  <2>6. QED
    BY <2>4, <2>5
<1>8. QED
  BY <1>4, <1>5, <1>7

\* Every request of the office keeps the books.
LEMMA SalesStep == SalesInv /\ [SalesNext]_salesVars => SalesInv'
<1> SUFFICES ASSUME SalesInv, [SalesNext]_salesVars PROVE SalesInv'
  OBVIOUS
<1> USE SalesReportsAssumption DEF SalesShaped, SalesBooked, AllDays, NotYet
<1>1. SalesShaped /\ SalesBooked
  BY DEF SalesInv
<1>2. ASSUME UNCHANGED receipts PROVE \A p \in Sales : Collected(p)' = Collected(p)
  BY <1>2 DEF Collected, ReceiptsOf, Amounts
<1>3. ASSUME NEW o \in Sales, NEW t \in Terms, SellOrder(o, t[1], t[2]) PROVE SalesInv'
  <2>1. t[1] \in Nat /\ t[2] \in Nat
    BY <1>3
  <2>2. UNCHANGED <<date, shop, receipts>>
    BY <1>3 DEF SellOrder
  <2>3. /\ standing[o] = "confirmed"
        /\ standing' = [standing EXCEPT ![o] = "queued"]
        /\ soldOn' = [soldOn EXCEPT ![o] = date]
        /\ received' = [received EXCEPT ![o] = t[1]]
        /\ owed' = [owed EXCEPT ![o] = t[2]]
    BY <1>3 DEF SellOrder
  <2>4. SalesShaped'
    BY <1>1, <2>1, <2>2, <2>3
  <2>5. Collected(o)' = 0
    <3>1. ReceiptsOf(o)' = {}
      BY <1>1, <2>2, <2>3 DEF ReceiptsOf
    <3>2. QED
      BY <3>1, TotalOfNothing DEF Collected
  <2>6. SalesBooked'
    BY <1>1, <1>2, <2>1, <2>2, <2>3, <2>5
  <2>7. QED
    BY <2>4, <2>6 DEF SalesInv
<1>4. ASSUME NEW o \in Sales, CancelSale(o) \/ TakeOrder(o) PROVE SalesInv'
  <2>1. /\ UNCHANGED <<date, shop, soldOn, received, owed, receipts>>
        /\ \/ standing' = [standing EXCEPT ![o] = "cancelled"]
           \/ standing' = [standing EXCEPT ![o] = "in_process"]
    BY <1>4 DEF CancelSale, TakeOrder
  <2>2. SalesShaped'
    <3>1. standing' \in [Sales -> {"confirmed", "queued", "in_process", "cancelled"}]
      <4>1. CASE standing' = [standing EXCEPT ![o] = "cancelled"]
        BY <1>1, <4>1
      <4>2. CASE standing' = [standing EXCEPT ![o] = "in_process"]
        BY <1>1, <4>2
      <4>3. QED
        BY <2>1, <4>1, <4>2
    <3>2. QED
      BY <1>1, <2>1, <3>1
  <2>3. SalesBooked'
    <3>1. \A p \in Sales : Collected(p)' = Collected(p)
      BY <1>2, <2>1
    <3>2. \A p \in Sales : standing'[p] = "confirmed" => standing[p] = "confirmed"
      BY <1>1, <2>1
    <3>3. owed' = owed /\ soldOn' = soldOn /\ receipts' = receipts
      BY <2>1
    <3>4. QED
      BY <1>1, <3>1, <3>2, <3>3
  <2>4. QED
    BY <2>2, <2>3 DEF SalesInv
<1>5. ASSUME NEW o \in Sales, NEW s \in Shops, MoveOrder(o, s) PROVE SalesInv'
  <2>1. /\ UNCHANGED <<date, standing, soldOn, received, owed, receipts>>
        /\ shop' = [shop EXCEPT ![o] = s]
    BY <1>5 DEF MoveOrder
  <2>2. SalesShaped'
    BY <1>1, <2>1
  <2>3. SalesBooked'
    BY <1>1, <1>2, <2>1
  <2>4. QED
    BY <2>2, <2>3 DEF SalesInv
<1>6. ASSUME NEW o \in Sales, NEW amount, PayBack(o, amount) PROVE SalesInv'
  <2>1. /\ UNCHANGED <<date, standing, shop, soldOn, received, owed>>
        /\ soldOn[o] # NotYet
        /\ receipts' = Append(receipts, [order |-> o, day |-> date, amount |-> amount, voided |-> FALSE])
    BY <1>6 DEF PayBack
  <2>2. /\ receipts' \in Seq(Receipts)
        /\ amount \in Nat /\ \A p \in Sales : Collected(p)' <= owed[p]
    BY <1>6, PayBackCollects
  <2>3. SalesShaped'
    BY <1>1, <2>1, <2>2
  <2>4. \A i \in DOMAIN receipts' : i \in DOMAIN receipts \/ receipts'[i].order = o
    BY <1>1, <2>1
  <2>5. \A i \in DOMAIN receipts : receipts'[i] = receipts[i]
    BY <1>1, <2>1
  <2>6. SalesBooked'
    <3> SUFFICES ASSUME NEW p \in Sales
                 PROVE  /\ Collected(p)' <= owed[p]
                        /\ soldOn[p] = NotYet =>
                              owed[p] = 0 /\ \A i \in DOMAIN receipts' : receipts'[i].order # p
                        /\ standing[p] = "confirmed" => soldOn[p] = NotYet
      BY <2>1
    <3>1. Collected(p)' <= owed[p]
      BY <1>1, <2>2
    <3>2. standing[p] = "confirmed" => soldOn[p] = NotYet
      BY <1>1
    <3>3. ASSUME soldOn[p] = NotYet
          PROVE  owed[p] = 0 /\ \A i \in DOMAIN receipts' : receipts'[i].order # p
      BY <1>1, <2>1, <2>4, <2>5, <3>3
    <3>4. QED
      BY <3>1, <3>2, <3>3
  <2>7. QED
    BY <2>3, <2>6 DEF SalesInv
<1>7. ASSUME NEW i \in DOMAIN receipts, Void(i) PROVE SalesInv'
  <2>1. UNCHANGED <<date, standing, shop, soldOn, received, owed>>
    BY <1>7 DEF Void
  <2>2. /\ receipts' \in Seq(Receipts) /\ DOMAIN receipts' = DOMAIN receipts
        /\ \A j \in DOMAIN receipts : receipts'[j].order = receipts[j].order
        /\ \A p \in Sales : Collected(p)' <= Collected(p) /\ Collected(p) \in Nat /\ Collected(p)' \in Nat
    BY <1>7, VoidReturns
  <2>3. SalesShaped'
    BY <1>1, <2>1, <2>2
  <2>4. SalesBooked'
    <3> SUFFICES ASSUME NEW p \in Sales
                 PROVE  /\ Collected(p)' <= owed[p]
                        /\ soldOn[p] = NotYet =>
                              owed[p] = 0 /\ \A j \in DOMAIN receipts' : receipts'[j].order # p
                        /\ standing[p] = "confirmed" => soldOn[p] = NotYet
      BY <2>1
    <3>1. Collected(p)' <= owed[p]
      BY <1>1, <2>2
    <3>2. standing[p] = "confirmed" => soldOn[p] = NotYet
      BY <1>1
    <3>3. ASSUME soldOn[p] = NotYet
          PROVE  owed[p] = 0 /\ \A j \in DOMAIN receipts' : receipts'[j].order # p
      BY <1>1, <2>2, <3>3
    <3>4. QED
      BY <3>1, <3>2, <3>3
  <2>5. QED
    BY <2>3, <2>4 DEF SalesInv
<1>8. CASE Midnight
  <2>1. UNCHANGED <<standing, shop, soldOn, received, owed, receipts>> /\ date' \in AllDays
    BY <1>1, <1>8 DEF Midnight
  <2>2. SalesShaped'
    BY <1>1, <2>1
  <2>3. SalesBooked'
    BY <1>1, <1>2, <2>1
  <2>4. QED
    BY <2>2, <2>3 DEF SalesInv
<1>9. CASE UNCHANGED salesVars
  <2>1. UNCHANGED <<date, standing, shop, soldOn, received, owed, receipts>>
    BY <1>9 DEF salesVars
  <2>2. SalesShaped'
    BY <1>1, <2>1
  <2>3. SalesBooked'
    BY <1>1, <1>2, <2>1
  <2>4. QED
    BY <2>2, <2>3 DEF SalesInv
<1>10. QED
  BY <1>3, <1>4, <1>5, <1>6, <1>7, <1>8, <1>9 DEF SalesNext

\* Before the first sale the books are empty.
LEMMA SalesBegin == SalesInit => SalesInv
<1> SUFFICES ASSUME SalesInit PROVE SalesInv
  OBVIOUS
<1>1. SalesShaped
  BY SalesReportsAssumption DEF SalesInit, SalesShaped, AllDays, NotYet
<1>2. \A o \in Sales : ReceiptsOf(o) = {}
  BY DEF SalesInit, ReceiptsOf
<1>3. \A o \in Sales : Collected(o) = 0
  BY <1>2, TotalOfNothing DEF Collected
<1>4. SalesBooked
  BY <1>3 DEF SalesInit, SalesBooked
<1>5. QED
  BY <1>1, <1>4 DEF SalesInv

\* The books are kept in every state.
THEOREM SalesSafe == SalesSpec => []SalesInv
BY SalesBegin, SalesStep, PTL DEF SalesSpec

-----------------------------------------------------------------------------
(* SalesReports: the figures *)

\* What the rows of a column are rows of, what each is worth, and the shop, the
\* seller and the day it is reported under.
Universe(c) == IF c = "collected" THEN DOMAIN receipts ELSE Sales
OrderOf(c) == [x \in Universe(c) |-> IF c = "collected" THEN receipts[x].order ELSE x]
ShopOf(c) == [x \in Universe(c) |-> shop[OrderOf(c)[x]]]
SellerOf(c) == [x \in Universe(c) |-> SoldBy[OrderOf(c)[x]]]
DayOf(c) == [x \in Universe(c) |-> IF c = "collected" THEN receipts[x].day ELSE soldOn[x]]
Ones == [o \in Sales |-> 1]
Worth(c) ==
    CASE c = "received" -> received
      [] c = "credit" -> owed
      [] c = "collected" -> Amounts
      [] c = "owing" -> Balances
      [] OTHER -> Ones
Rows(c, range, s, chosen) ==
    CASE c = "collected" -> {i \in CollectionRows(range, s) : receipts[i].order \in chosen}
      [] c = "owing" -> OutstandingRows(s) \cap chosen
      [] c = "pending" -> PendingRows(s) \cap chosen
      [] OTHER -> SaleRows(range, s) \cap chosen

\* The numbers the figures add: what each order collected and what it owes.
LEMMA BalanceFact ==
    ASSUME SalesInv, NEW o \in Sales
    PROVE  /\ Collected(o) \in Nat /\ owed[o] \in Nat /\ Collected(o) <= owed[o]
           /\ Balances[o] = CreditBalance(o) /\ CreditBalance(o) \in Nat
           /\ standing[o] # "cancelled" => CreditBalance(o) = owed[o] - Collected(o)
           /\ CreditBalance(o) > 0 => standing[o] # "cancelled" /\ soldOn[o] \in AllDays
<1>1. Collected(o) \in Nat /\ owed[o] \in Nat /\ soldOn[o] \in {NotYet} \union AllDays
  BY CollectedFact DEF SalesInv, SalesShaped
<1>2. Collected(o) <= owed[o] /\ (soldOn[o] = NotYet => owed[o] = 0)
  BY DEF SalesInv, SalesBooked
<1>3. Balances[o] = CreditBalance(o)
  BY DEF Balances
<1>4. QED
  BY <1>1, <1>2, <1>3 DEF CreditBalance

\* Every row of every column is worth a number.
LEMMA WorthFact ==
    ASSUME SalesInv, NEW c \in Columns
    PROVE  /\ IsFiniteSet(Universe(c))
           /\ \A x \in Universe(c) : Worth(c)[x] \in Int /\ OrderOf(c)[x] \in Sales
<1>1. /\ receipts \in Seq(Receipts) /\ received \in [Sales -> Nat] /\ owed \in [Sales -> Nat]
      /\ Len(receipts) \in Nat /\ DOMAIN receipts = 1..Len(receipts)
  BY DEF SalesInv, SalesShaped
<1>2. IsFiniteSet(DOMAIN receipts) /\ IsFiniteSet(Sales)
  BY <1>1, FS_Interval, SalesReportsAssumption
<1>3. ASSUME NEW i \in DOMAIN receipts
      PROVE  receipts[i].order \in Sales /\ receipts[i].amount \in Nat
  <2>1. receipts[i] \in Receipts
    BY <1>1
  <2>2. QED
    BY <2>1 DEF Receipts
<1>4. \A i \in DOMAIN receipts : Amounts[i] \in Int
  BY <1>3 DEF Amounts
<1>5. \A o \in Sales : Balances[o] \in Int
  BY BalanceFact
<1>6. \A o \in Sales : Ones[o] \in Int /\ received[o] \in Int /\ owed[o] \in Int
  BY <1>1 DEF Ones
<1>7. CASE c = "collected"
  BY <1>2, <1>3, <1>4, <1>7 DEF Universe, OrderOf, Worth
<1>8. CASE c # "collected"
  BY <1>2, <1>5, <1>6, <1>8 DEF Universe, OrderOf, Worth, Columns
<1>9. QED
  BY <1>7, <1>8

\* A column's figure is what its rows are worth.
LEMMA FigureIsTotal ==
    ASSUME SalesInv, NEW c \in Columns, NEW range, NEW s, NEW chosen
    PROVE  /\ Figures(range, s, chosen)[c] = Total(Worth(c), Rows(c, range, s, chosen))
           /\ Rows(c, range, s, chosen) \subseteq Universe(c)
           /\ IsFiniteSet(Rows(c, range, s, chosen))
           /\ \A x \in Rows(c, range, s, chosen) : Worth(c)[x] \in Int
<1>1. Rows(c, range, s, chosen) \subseteq Universe(c)
  BY DEF Rows, Universe, Columns, CollectionRows, OutstandingRows, PendingRows, SaleRows
<1>2. IsFiniteSet(Rows(c, range, s, chosen))
  BY <1>1, WorthFact, FS_Subset
<1>3. \A x \in Rows(c, range, s, chosen) : Worth(c)[x] \in Int
  BY <1>1, WorthFact
<1>4. ASSUME c \in {"received", "credit", "collected", "owing"}
      PROVE  Figures(range, s, chosen)[c] = Total(Worth(c), Rows(c, range, s, chosen))
  <2>1. CASE c = "received"
    BY <2>1 DEF Figures, Worth, Rows
  <2>2. CASE c = "credit"
    BY <2>2 DEF Figures, Worth, Rows
  <2>3. CASE c = "collected"
    BY <2>3 DEF Figures, Worth, Rows
  <2>4. CASE c = "owing"
    BY <2>4 DEF Figures, Worth, Rows
  <2>5. QED
    BY <1>4, <2>1, <2>2, <2>3, <2>4
<1>5. ASSUME c \in {"paid", "pending"}
      PROVE  Figures(range, s, chosen)[c] = Total(Worth(c), Rows(c, range, s, chosen))
  <2>1. /\ Worth(c) = Ones /\ Rows(c, range, s, chosen) \subseteq Sales
        /\ Figures(range, s, chosen)[c] = Cardinality(Rows(c, range, s, chosen))
    BY <1>1, <1>5 DEF Worth, Universe, Figures, Rows
  <2>2. \A x \in Rows(c, range, s, chosen) : Ones[x] = 1
    BY <2>1 DEF Ones
  <2>3. Total(Ones, Rows(c, range, s, chosen)) = Cardinality(Rows(c, range, s, chosen))
    BY <1>2, <2>2, TotalOfOnes
  <2>4. QED
    BY <2>1, <2>3
<1>6. QED
  BY <1>1, <1>2, <1>3, <1>4, <1>5 DEF Columns

\* The rows of a branch, of a seller and of a day are those rows of the total that
\* are reported under it.
LEMMA RowsOfShop ==
    ASSUME SalesInv, NEW c \in Columns, NEW range, NEW s \in Shops, NEW chosen
    PROVE  Rows(c, range, {s}, chosen) = Part(Rows(c, range, Shops, chosen), ShopOf(c), s)
<1>1. CASE c = "collected"
  BY <1>1 DEF Rows, Part, ShopOf, OrderOf, Universe, CollectionRows
<1>2. CASE c # "collected"
  BY <1>2 DEF Rows, Part, ShopOf, OrderOf, Universe, Columns, OutstandingRows, PendingRows, SaleRows
<1>3. QED
  BY <1>1, <1>2

\* The report of one seller's sales has the rows reported under that seller.
LEMMA RowsOfSeller ==
    ASSUME SalesInv, NEW c \in Columns, NEW range, NEW s, NEW u \in Sellers
    PROVE  Rows(c, range, s, {o \in Sales : SoldBy[o] = u})
               = Part(Rows(c, range, s, Sales), SellerOf(c), u)
<1>1. CASE c = "collected"
  BY <1>1 DEF Rows, Part, SellerOf, OrderOf, Universe, CollectionRows
<1>2. CASE c # "collected"
  BY <1>2 DEF Rows, Part, SellerOf, OrderOf, Universe, Columns, OutstandingRows, PendingRows, SaleRows
<1>3. QED
  BY <1>1, <1>2

\* The report of one day has the rows dated that day.
LEMMA RowsOfDay ==
    ASSUME SalesInv, NEW c \in {"received", "credit", "paid", "collected"}, NEW d \in AllDays
    PROVE  Rows(c, {d}, Shops, Sales) = Part(Rows(c, AllDays, Shops, Sales), DayOf(c), d)
<1>1. CASE c = "collected"
  BY <1>1 DEF Rows, Part, DayOf, Universe, CollectionRows
<1>2. CASE c # "collected"
  BY <1>2 DEF Rows, Part, DayOf, Universe, SaleRows
<1>3. QED
  BY <1>1, <1>2

\* There are finitely many sellers and days, and every row has its shop, seller and day.
LEMMA KeysFact ==
    ASSUME SalesInv, NEW c \in Columns
    PROVE  /\ IsFiniteSet(Shops) /\ IsFiniteSet(Sellers) /\ IsFiniteSet(AllDays)
           /\ \A x \in Universe(c) : ShopOf(c)[x] \in Shops /\ SellerOf(c)[x] \in Sellers
<1>1. IsFiniteSet(Shops) /\ IsFiniteSet(Sales) /\ LastDay \in Nat
  BY SalesReportsAssumption
<1>2. IsFiniteSet(AllDays)
  BY <1>1, FS_Interval DEF AllDays
<1>3. IsFiniteSet(Sellers)
  <2> DEFINE Good == {T \in SUBSET Sales : IsFiniteSet({SoldBy[o] : o \in T})}
  <2>1. Good \in SUBSET (SUBSET Sales)
    OBVIOUS
  <2>2. {} \in Good
    <3>1. {SoldBy[o] : o \in {}} = {}
      OBVIOUS
    <3>2. QED
      BY <3>1, FS_EmptySet
  <2>3. ASSUME NEW T \in Good, NEW o \in Sales \ T PROVE T \union {o} \in Good
    <3>1. {SoldBy[p] : p \in T \union {o}} = {SoldBy[p] : p \in T} \union {SoldBy[o]}
      OBVIOUS
    <3>2. IsFiniteSet({SoldBy[p] : p \in T} \union {SoldBy[o]})
      BY FS_AddElement
    <3>3. QED
      BY <3>1, <3>2
  <2> HIDE DEF Good
  <2>4. Sales \in Good
    BY <1>1, <2>1, <2>2, <2>3, SetInduction
  <2>5. QED
    BY <2>4 DEF Good, Sellers
<1>4. \A x \in Universe(c) : OrderOf(c)[x] \in Sales
  BY WorthFact
<1>5. shop \in [Sales -> Shops]
  BY DEF SalesInv, SalesShaped
<1>6. \A x \in Universe(c) : ShopOf(c)[x] \in Shops /\ SellerOf(c)[x] \in Sellers
  BY <1>4, <1>5 DEF ShopOf, SellerOf, Sellers
<1>7. QED
  BY <1>1, <1>2, <1>3, <1>6

\* The branches' figures of any choice of orders add up to it.
LEMMA BranchesAddUp ==
    ASSUME SalesInv, NEW c \in Columns, NEW range, NEW chosen,
           NEW each, \A s \in Shops : each[s] = Figures(range, {s}, chosen)[c]
    PROVE  Total(each, Shops) = Figures(range, Shops, chosen)[c]
<1>1. ASSUME NEW s \in Shops
      PROVE  each[s] = Total(Worth(c), Part(Rows(c, range, Shops, chosen), ShopOf(c), s))
  <2>1. Figures(range, {s}, chosen)[c]
            = Total(Worth(c), Rows(c, range, {s}, chosen))
    BY FigureIsTotal
  <2>2. Rows(c, range, {s}, chosen)
            = Part(Rows(c, range, Shops, chosen), ShopOf(c), s)
    BY RowsOfShop
  <2>3. QED
    BY <2>1, <2>2
<1>2. /\ IsFiniteSet(Rows(c, range, Shops, chosen)) /\ IsFiniteSet(Shops)
      /\ \A x \in Rows(c, range, Shops, chosen) : Worth(c)[x] \in Int /\ ShopOf(c)[x] \in Shops
  BY FigureIsTotal, KeysFact
<1>3. Total(each, Shops) = Total(Worth(c), Rows(c, range, Shops, chosen))
  BY <1>1, <1>2, TotalOfParts
<1>4. QED
  BY <1>3, FigureIsTotal

\* So do the sellers' figures.
LEMMA SellersAddUp ==
    ASSUME SalesInv, NEW c \in Columns, NEW range,
           NEW each, \A u \in Sellers :
               each[u] = Figures(range, Shops, {o \in Sales : SoldBy[o] = u})[c]
    PROVE  Total(each, Sellers) = Figures(range, Shops, Sales)[c]
<1>1. ASSUME NEW u \in Sellers
      PROVE  each[u] = Total(Worth(c), Part(Rows(c, range, Shops, Sales), SellerOf(c), u))
  <2>1. Figures(range, Shops, {o \in Sales : SoldBy[o] = u})[c]
            = Total(Worth(c), Rows(c, range, Shops, {o \in Sales : SoldBy[o] = u}))
    BY FigureIsTotal
  <2>2. Rows(c, range, Shops, {o \in Sales : SoldBy[o] = u})
            = Part(Rows(c, range, Shops, Sales), SellerOf(c), u)
    BY RowsOfSeller
  <2>3. QED
    BY <2>1, <2>2
<1>2. /\ IsFiniteSet(Rows(c, range, Shops, Sales)) /\ IsFiniteSet(Sellers)
      /\ \A x \in Rows(c, range, Shops, Sales) : Worth(c)[x] \in Int /\ SellerOf(c)[x] \in Sellers
  BY FigureIsTotal, KeysFact
<1>3. Total(each, Sellers) = Total(Worth(c), Rows(c, range, Shops, Sales))
  BY <1>1, <1>2, TotalOfParts
<1>4. QED
  BY <1>3, FigureIsTotal

\* Every figure of a report is what its shops', its sellers' and its days' rows add up to.
LEMMA RowsDoAddUp == ASSUME SalesInv, NEW range PROVE RowsAddUp(range)
<1> DEFINE ByShop(c) == [s \in Shops |-> BranchRow(range, s)[c]]
           BySeller(c) == [u \in Sellers |-> SellerRow(range, Shops, u)[c]]
           ByPart(u, c) == [s \in Shops |-> SellerRow(range, {s}, u)[c]]
<1>1. ASSUME NEW c \in Columns PROVE Total(ByShop(c), Shops) = TotalRow(range)[c]
  <2>1. \A s \in Shops : ByShop(c)[s] = Figures(range, {s}, Sales)[c]
    BY DEF BranchRow
  <2> HIDE DEF ByShop
  <2>2. QED
    BY <2>1, BranchesAddUp DEF TotalRow
<1>2. ASSUME NEW c \in Columns PROVE Total(BySeller(c), Sellers) = TotalRow(range)[c]
  <2>1. \A u \in Sellers : BySeller(c)[u] = Figures(range, Shops, {o \in Sales : SoldBy[o] = u})[c]
    BY DEF SellerRow
  <2> HIDE DEF BySeller
  <2>2. QED
    BY <2>1, SellersAddUp DEF TotalRow
<1>3. ASSUME NEW c \in Columns, NEW u \in Sellers
      PROVE  Total(ByPart(u, c), Shops) = SellerRow(range, Shops, u)[c]
  <2> DEFINE mine == {o \in Sales : SoldBy[o] = u}
  <2>1. \A s \in Shops : ByPart(u, c)[s] = Figures(range, {s}, mine)[c]
    BY DEF SellerRow
  <2>2. SellerRow(range, Shops, u) = Figures(range, Shops, mine)
    BY DEF SellerRow
  <2> HIDE DEF ByPart, mine
  <2>3. Total(ByPart(u, c), Shops) = Figures(range, Shops, mine)[c]
    BY <2>1, BranchesAddUp
  <2>4. QED
    BY <2>2, <2>3
<1> DEFINE branch == [s \in Shops |-> BranchRow(range, s)]
           seller == [u \in Sellers |-> SellerRow(range, Shops, u)]
           part == [u \in Sellers |-> [s \in Shops |-> SellerRow(range, {s}, u)]]
<1>4. ASSUME NEW c \in Columns
      PROVE  /\ ByShop(c) = [s \in Shops |-> branch[s][c]]
             /\ BySeller(c) = [u \in Sellers |-> seller[u][c]]
  OBVIOUS
<1>5. ASSUME NEW c \in Columns, NEW u \in Sellers
      PROVE  ByPart(u, c) = [s \in Shops |-> part[u][s][c]] /\ seller[u] = SellerRow(range, Shops, u)
  OBVIOUS
<1> HIDE DEF ByShop, BySeller, ByPart
<1>6. RowsAddUp(range) <=>
        \A c \in Columns :
          /\ Total([s \in Shops |-> branch[s][c]], Shops) = TotalRow(range)[c]
          /\ Total([u \in Sellers |-> seller[u][c]], Sellers) = TotalRow(range)[c]
          /\ \A u \in Sellers : Total([s \in Shops |-> part[u][s][c]], Shops) = seller[u][c]
  BY Zenon DEF RowsAddUp
<1> HIDE DEF branch, seller, part
<1>7. ASSUME NEW c \in Columns
      PROVE  /\ Total([s \in Shops |-> branch[s][c]], Shops) = TotalRow(range)[c]
             /\ Total([u \in Sellers |-> seller[u][c]], Sellers) = TotalRow(range)[c]
  BY <1>1, <1>2, <1>4, Zenon
<1>8. ASSUME NEW c \in Columns, NEW u \in Sellers
      PROVE  Total([s \in Shops |-> part[u][s][c]], Shops) = seller[u][c]
  BY <1>3, <1>5, Zenon
<1>9. QED
  BY <1>6, <1>7, <1>8

\* Of the sales standing, those that owe are the outstanding ones.
LEMMA OutstandingFact ==
    ASSUME SalesInv
    PROVE  /\ OutstandingRows(Shops) \subseteq SaleRows(AllDays, Shops)
           /\ \A o \in SaleRows(AllDays, Shops) :
                 /\ Balances[o] \in Int /\ Balances[o] = owed[o] - Collected(o)
                 /\ o \notin OutstandingRows(Shops) => Balances[o] = 0
<1>1. shop \in [Sales -> Shops]
  BY DEF SalesInv, SalesShaped
<1>2. QED
  BY <1>1, BalanceFact DEF OutstandingRows, SaleRows

\* What the standing sales collected is what was collected of them.
LEMMA CollectionsAddUp ==
    ASSUME SalesInv, NEW each, \A o \in SaleRows(AllDays, Shops) : each[o] = Collected(o)
    PROVE  Total(each, SaleRows(AllDays, Shops)) = TotalRow(AllDays).collected
<1> DEFINE live == SaleRows(AllDays, Shops)
           rows == CollectionRows(AllDays, Shops)
           orderAt == [i \in DOMAIN receipts |-> receipts[i].order]
<1>1. /\ shop \in [Sales -> Shops] /\ soldOn \in [Sales -> {NotYet} \union AllDays]
      /\ receipts \in Seq(Receipts) /\ Len(receipts) \in Nat /\ DOMAIN receipts = 1..Len(receipts)
  BY DEF SalesInv, SalesShaped
<1>2. ASSUME NEW i \in DOMAIN receipts
      PROVE  receipts[i].order \in Sales /\ receipts[i].day \in AllDays /\ receipts[i].amount \in Nat
  <2>1. receipts[i] \in Receipts
    BY <1>1
  <2>2. QED
    BY <2>1 DEF Receipts
<1>3. IsFiniteSet(rows) /\ rows \subseteq DOMAIN receipts
  <2>1. IsFiniteSet(DOMAIN receipts)
    BY <1>1, FS_Interval
  <2>2. QED
    BY <2>1, FS_Subset DEF CollectionRows
<1>4. IsFiniteSet(live)
  BY SalesReportsAssumption, FS_Subset DEF SaleRows
<1>5. \A i \in DOMAIN receipts : soldOn[receipts[i].order] \in AllDays
  BY <1>1, <1>2 DEF SalesInv, SalesBooked
<1>6. ASSUME NEW i \in rows PROVE Amounts[i] \in Int /\ orderAt[i] \in live
  <2>1. i \in DOMAIN receipts /\ standing[receipts[i].order] # "cancelled"
    BY DEF CollectionRows
  <2>2. receipts[i].order \in Sales /\ soldOn[receipts[i].order] \in AllDays
    BY <1>2, <1>5, <2>1
  <2>3. shop[receipts[i].order] \in Shops
    BY <1>1, <2>2
  <2>4. orderAt[i] \in live
    BY <2>1, <2>2, <2>3 DEF SaleRows
  <2>5. Amounts[i] \in Int
    BY <1>2, <2>1 DEF Amounts
  <2>6. QED
    BY <2>4, <2>5
<1>7. ASSUME NEW o \in live PROVE each[o] = Total(Amounts, Part(rows, orderAt, o))
  <2>1. ReceiptsOf(o) = Part(rows, orderAt, o)
    BY <1>1, <1>2 DEF SaleRows, ReceiptsOf, Part, CollectionRows
  <2>2. QED
    BY <2>1 DEF Collected
<1> HIDE DEF live, rows, orderAt
<1>8. Total(each, live) = Total(Amounts, rows)
  BY <1>3, <1>4, <1>6, <1>7, TotalOfParts
<1>9. TotalRow(AllDays).collected = Total(Amounts, rows)
  <2>1. {i \in rows : receipts[i].order \in Sales} = rows
    BY <1>2, <1>3
  <2>2. TotalRow(AllDays).collected = Total(Amounts, {i \in rows : receipts[i].order \in Sales})
    BY DEF TotalRow, Figures, rows
  <2>3. QED
    BY <2>1, <2>2
<1>10. QED
  BY <1>8, <1>9 DEF live

\* The shop is owed what it gave on credit less what it collected.
LEMMA ShopIsOwed ==
    ASSUME SalesInv
    PROVE  TotalRow(AllDays).owing = TotalRow(AllDays).credit - TotalRow(AllDays).collected
<1> DEFINE live == SaleRows(AllDays, Shops)
           late == OutstandingRows(Shops)
           paid == [o \in live |-> Collected(o)]
           owes == [o \in live |-> Balances[o]]
<1>1. IsFiniteSet(live) /\ live \subseteq Sales
  BY SalesReportsAssumption, FS_Subset DEF SaleRows
<1>2. /\ late \in SUBSET live
      /\ \A o \in live : Balances[o] \in Int
      /\ \A o \in live \ late : Balances[o] = 0
  BY OutstandingFact
<1>3. \A o \in live : Balances[o] = owed[o] - Collected(o)
  BY OutstandingFact
<1>4. \A o \in live : Collected(o) \in Nat /\ owed[o] \in Nat
  BY <1>1, BalanceFact
<1>5. \A o \in live : paid[o] \in Int /\ Balances[o] \in Int /\ owed[o] = Balances[o] + paid[o]
  BY <1>2, <1>3, <1>4
<1>6. Total(paid, live) = TotalRow(AllDays).collected
  <2>1. \A o \in live : paid[o] = Collected(o)
    OBVIOUS
  <2> HIDE DEF paid
  <2>2. QED
    BY <2>1, CollectionsAddUp
<1>7. TotalRow(AllDays).owing = Total(Balances, late) /\ TotalRow(AllDays).credit = Total(owed, live)
  <2>1. late \cap Sales = late /\ live \cap Sales = live
    BY <1>1, <1>2
  <2>2. /\ TotalRow(AllDays).owing = Total(Balances, late \cap Sales)
        /\ TotalRow(AllDays).credit = Total(owed, live \cap Sales)
    BY DEF TotalRow, Figures
  <2>3. QED
    BY <2>1, <2>2
<1> HIDE DEF live, late, paid
<1>8. Total(Balances, live) = Total(Balances, late)
  BY <1>1, <1>2, TotalIgnoresZeros
<1>9. Total(owed, live) = Total(Balances, live) + Total(paid, live)
  BY <1>1, <1>5, TotalOfSum
<1>10. Total(Balances, live) \in Int /\ Total(paid, live) \in Int
  BY <1>1, <1>5, TotalSplits
<1>11. QED
  BY <1>6, <1>7, <1>8, <1>9, <1>10

\* A seller's sales one by one come to what the seller's row says is owed.
LEMMA SellerIsOwed ==
    ASSUME SalesInv, NEW u \in Sellers
    PROVE  Total([d \in SellerDetail(AllDays, u) |-> d.balance], SellerDetail(AllDays, u))
               = SellerRow({date}, Shops, u).owing
<1> DEFINE mine == {p \in SaleRows(AllDays, Shops) : SoldBy[p] = u}
           late == OutstandingRows(Shops) \cap {o \in Sales : SoldBy[o] = u}
           line == [o \in mine |->
                       [order |-> o, credit |-> owed[o], collected |-> Collected(o),
                        balance |-> IF owed[o] > Collected(o) THEN owed[o] - Collected(o) ELSE 0]]
           detail == SellerDetail(AllDays, u)
           balance == [d \in detail |-> d.balance]
<1>1. IsFiniteSet(mine) /\ mine \subseteq Sales /\ mine \subseteq SaleRows(AllDays, Shops)
  <2>1. mine \subseteq Sales
    BY DEF SaleRows
  <2>2. QED
    BY <2>1, SalesReportsAssumption, FS_Subset
<1>2. late \in SUBSET mine
  BY OutstandingFact
<1>3. \A o \in mine : Balances[o] \in Int
  BY <1>1, OutstandingFact
<1>4. \A o \in mine \ late : Balances[o] = 0
  BY <1>1, OutstandingFact
<1>5. detail = {line[o] : o \in mine}
  BY DEF SellerDetail
<1>6. ASSUME NEW o \in mine PROVE balance[line[o]] = Balances[o]
  <2>1. line[o] \in detail
    BY <1>5
  <2>2. balance[line[o]] = line[o].balance
    BY <2>1
  <2>3. line[o].balance = IF owed[o] > Collected(o) THEN owed[o] - Collected(o) ELSE 0
    OBVIOUS
  <2>4. Balances[o] = owed[o] - Collected(o)
    BY <1>1, OutstandingFact
  <2>5. Collected(o) \in Nat /\ owed[o] \in Nat /\ Collected(o) <= owed[o]
    BY <1>1, BalanceFact
  <2> HIDE DEF line, balance, mine
  <2>6. QED
    BY <2>2, <2>3, <2>4, <2>5
<1>7. \A o, p \in mine : line[o] = line[p] => o = p
  <2>1. \A o \in mine : line[o].order = o
    OBVIOUS
  <2> HIDE DEF line
  <2>2. QED
    BY <2>1
<1>8. SellerRow({date}, Shops, u).owing = Total(Balances, late)
  BY DEF SellerRow, Figures
<1> HIDE DEF mine, late, line, detail, balance
<1>9. Total(Balances, mine) = Total(Balances, late)
  BY <1>1, <1>2, <1>3, <1>4, TotalIgnoresZeros
<1>10. Total(balance, {line[o] : o \in mine}) = Total(Balances, mine)
  BY <1>1, <1>3, <1>6, <1>7, TotalRenamed
<1>11. Total(balance, detail) = Total(Balances, mine)
  BY <1>5, <1>10
<1>12. QED
  BY <1>8, <1>9, <1>11 DEF balance, detail

\* The days of the whole range add up to it.
LEMMA DaysDoAddUp == ASSUME SalesInv PROVE DaysAddUp
<1> DEFINE ByDay(c) == [d \in AllDays |-> TotalRow({d})[c]]
<1>1. ASSUME NEW c \in {"received", "credit", "paid", "collected"}
      PROVE  Total(ByDay(c), AllDays) = TotalRow(AllDays)[c]
  <2> DEFINE rows == Rows(c, AllDays, Shops, Sales)
  <2>1. c \in Columns
    BY DEF Columns
  <2>2. \A d \in AllDays : ByDay(c)[d] = TotalRow({d})[c]
    OBVIOUS
  <2>3. IsFiniteSet(rows) /\ \A x \in rows : Worth(c)[x] \in Int
    BY <2>1, FigureIsTotal
  <2>4. \A x \in rows : DayOf(c)[x] \in AllDays
    BY DEF Rows, DayOf, Universe, CollectionRows, SaleRows
  <2>5. IsFiniteSet(AllDays)
    BY <2>1, KeysFact
  <2>6. TotalRow(AllDays)[c] = Total(Worth(c), rows)
    BY <2>1, FigureIsTotal DEF TotalRow
  <2> HIDE DEF ByDay, rows
  <2>7. ASSUME NEW d \in AllDays PROVE ByDay(c)[d] = Total(Worth(c), Part(rows, DayOf(c), d))
    <3>1. TotalRow({d})[c] = Total(Worth(c), Rows(c, {d}, Shops, Sales))
      BY <2>1, FigureIsTotal DEF TotalRow
    <3>2. Rows(c, {d}, Shops, Sales) = Part(rows, DayOf(c), d)
      BY RowsOfDay DEF rows
    <3>3. QED
      BY <2>2, <3>1, <3>2
  <2>8. Total(ByDay(c), AllDays) = Total(Worth(c), rows)
    BY <2>3, <2>4, <2>5, <2>7, TotalOfParts
  <2>9. QED
    BY <2>6, <2>8
<1>2. SaleRows(AllDays, Shops) \cap PendingRows(Shops) = {}
  <2>1. NotYet \notin AllDays
    BY SalesReportsAssumption DEF NotYet, AllDays
  <2>2. QED
    BY <2>1 DEF SalesInv, SalesBooked, SaleRows, PendingRows
<1>3. QED
  BY <1>1, <1>2 DEF DaysAddUp

\* SalesAgree, for every number of orders, sellers, branches, days and payments: by
\* branch, by seller or by day the figures come to one total, and what is owed is the
\* credit given less what was collected of it.
THEOREM SalesDoAgree == SalesSpec => []SalesAgree
<1>1. SalesInv => SalesAgree
  BY RowsDoAddUp, ShopIsOwed, SellerIsOwed, DaysDoAddUp DEF SalesAgree, DebtIsWhatWasNotCollected
<1>2. QED
  BY <1>1, SalesSafe, PTL


-----------------------------------------------------------------------------
(* Quote: the plan a request is answered with *)

\* What a request reads: the settings row and the two products.
Reads == [policy : Policies, board : BoardRows, tape : TapeRows]

\* Carts whose rows are hashed alike.
RowsAlike(c, d) ==
    /\ IsCart(c) /\ IsCart(d) /\ DOMAIN c.rows = DOMAIN d.rows
    /\ \A i \in DOMAIN c.rows :
          /\ c.rows[i].on = d.rows[i].on
          /\ c.rows[i].height = d.rows[i].height /\ c.rows[i].width = d.rows[i].width
          /\ c.rows[i].quantity = d.rows[i].quantity /\ c.rows[i].turns = d.rows[i].turns
          /\ c.rows[i].sides = d.rows[i].sides
          /\ c.rows[i].hardEdgeCut = d.rows[i].hardEdgeCut
          /\ assembly_group(c, i) = assembly_group(d, i)

\* Carts and readings hashed alike.
Alike(c, r, d, s) ==
    /\ RowsAlike(c, d)
    /\ r \in Reads /\ s \in Reads
    /\ rules_in_play(c, r) = rules_in_play(d, s)
    /\ r.policy.trim = s.policy.trim /\ r.policy.markup = s.policy.markup
    /\ r.policy.waste = s.policy.waste
    /\ c.untrimmed = d.untrimmed /\ c.offcut = d.offcut
    /\ (\E i \in DOMAIN c.rows : Banded(c.rows[i]))
          => r.tape.price = s.tape.price /\ r.tape.hard = s.tape.hard
    /\ "board" \in UsedKeys(c)
          => r.board.price = s.board.price /\ half_board_split(r.board) = half_board_split(s.board)

\* The hash tells apart what Alike does.
LEMMA HashedAlike ==
    ASSUME NEW c, NEW d, IsCart(c), IsCart(d), NEW r \in Reads, NEW s \in Reads,
           compute_hash(c, r) = compute_hash(d, s)
    PROVE  Alike(c, r, d, s)
<1>1. HashedRows(c) = HashedRows(d) /\ HashedRest(c, r) = HashedRest(d, s)
  BY DEF compute_hash
<1>2. DOMAIN c.rows = DOMAIN d.rows
  BY <1>1 DEF HashedRows
<1>3. ASSUME NEW i \in DOMAIN c.rows
      PROVE  /\ c.rows[i].on = d.rows[i].on
             /\ c.rows[i].height = d.rows[i].height /\ c.rows[i].width = d.rows[i].width
             /\ c.rows[i].quantity = d.rows[i].quantity /\ c.rows[i].turns = d.rows[i].turns
             /\ c.rows[i].sides = d.rows[i].sides
             /\ c.rows[i].hardEdgeCut = d.rows[i].hardEdgeCut
             /\ assembly_group(c, i) = assembly_group(d, i)
  <2>1. PICK t : t = HashedRows(c)[i] /\ t = HashedRows(d)[i]
    BY <1>1
  <2>2. /\ t[1] = c.rows[i].on /\ t[2] = c.rows[i].height /\ t[3] = c.rows[i].width
        /\ t[4] = c.rows[i].quantity /\ t[5] = c.rows[i].turns /\ t[6] = c.rows[i].sides
        /\ t[7] = c.rows[i].hardEdgeCut /\ t[8] = assembly_group(c, i)
    <3>1. t = << c.rows[i].on, c.rows[i].height, c.rows[i].width, c.rows[i].quantity,
                 c.rows[i].turns, c.rows[i].sides, c.rows[i].hardEdgeCut,
                 assembly_group(c, i) >>
      BY <2>1 DEF HashedRows
    <3>2. QED
      BY <3>1
  <2>3. /\ t[1] = d.rows[i].on /\ t[2] = d.rows[i].height /\ t[3] = d.rows[i].width
        /\ t[4] = d.rows[i].quantity /\ t[5] = d.rows[i].turns /\ t[6] = d.rows[i].sides
        /\ t[7] = d.rows[i].hardEdgeCut /\ t[8] = assembly_group(d, i)
    <3>1. t = << d.rows[i].on, d.rows[i].height, d.rows[i].width, d.rows[i].quantity,
                 d.rows[i].turns, d.rows[i].sides, d.rows[i].hardEdgeCut,
                 assembly_group(d, i) >>
      BY <1>2, <2>1 DEF HashedRows
    <3>2. QED
      BY <3>1
  <2>4. QED
    BY <2>2, <2>3
<1>4. RowsAlike(c, d)
  BY <1>2, <1>3 DEF RowsAlike
<1>5. UsedKeys(c) = UsedKeys(d)
  BY <1>2, <1>3 DEF UsedKeys
<1>6. (\E i \in DOMAIN c.rows : Banded(c.rows[i])) <=> (\E i \in DOMAIN d.rows : Banded(d.rows[i]))
  BY <1>2, <1>3 DEF Banded
<1>7. PICK y, z : /\ y = (IF \E i \in DOMAIN c.rows : Banded(c.rows[i])
                          THEN <<r.tape.price, r.tape.hard>> ELSE <<>>)
                  /\ z = (IF \E i \in DOMAIN d.rows : Banded(d.rows[i])
                          THEN <<s.tape.price, s.tape.hard>> ELSE <<>>)
  OBVIOUS
<1>8. PICK t : t = HashedRest(c, r) /\ t = HashedRest(d, s)
  BY <1>1
<1>9. /\ t[1] = rules_in_play(c, r) /\ t[2] = r.policy.trim /\ t[3] = r.policy.markup
      /\ t[4] = r.policy.waste /\ t[5] = c.untrimmed /\ t[6] = c.offcut /\ t[7] = y
  BY <1>7, <1>8 DEF HashedRest
<1>10. /\ t[1] = rules_in_play(d, s) /\ t[2] = s.policy.trim /\ t[3] = s.policy.markup
      /\ t[4] = s.policy.waste /\ t[5] = d.untrimmed /\ t[6] = d.offcut /\ t[7] = z
  BY <1>7, <1>8 DEF HashedRest
<1>11. /\ rules_in_play(c, r) = rules_in_play(d, s)
      /\ r.policy.trim = s.policy.trim /\ r.policy.markup = s.policy.markup
      /\ r.policy.waste = s.policy.waste
      /\ c.untrimmed = d.untrimmed /\ c.offcut = d.offcut /\ y = z
  BY <1>9, <1>10
<1>12. (\E i \in DOMAIN c.rows : Banded(c.rows[i]))
          => r.tape.price = s.tape.price /\ r.tape.hard = s.tape.hard
  BY <1>6, <1>7, <1>11
<1>13. PICK u, v : /\ u = (IF "board" \in UsedKeys(c)
                           THEN <<r.board.price, half_board_split(r.board)>> ELSE <<>>)
                   /\ v = (IF "board" \in UsedKeys(d)
                           THEN <<s.board.price, half_board_split(s.board)>> ELSE <<>>)
  OBVIOUS
<1>14. u = v
  <2>1. PICK w : w = compute_hash(c, r) /\ w = compute_hash(d, s)
    OBVIOUS
  <2>2. w[3] = u /\ w[3] = v
    BY <1>13, <2>1 DEF compute_hash
  <2>3. QED
    BY <2>2
<1>15. "board" \in UsedKeys(c)
          => r.board.price = s.board.price /\ half_board_split(r.board) = half_board_split(s.board)
  BY <1>5, <1>13, <1>14
<1>16. QED
  BY <1>4, <1>11, <1>12, <1>15 DEF Alike

\* The code of an assembly is the least of its layers, and tells its layers apart.
LEMMA GroupFact ==
    ASSUME NEW c, IsCart(c), NEW i \in DOMAIN c.rows
    PROVE  /\ assembly_group(c, i) # 0 <=> IsLayer(c.rows[i])
           /\ IsLayer(c.rows[i]) => \A j \in DOMAIN c.rows :
                 j \in Together(c, i) <=> assembly_group(c, j) = assembly_group(c, i)
<1>1. ASSUME NEW j \in DOMAIN c.rows, IsLayer(c.rows[j])
      PROVE  /\ assembly_group(c, j) \in Together(c, j) /\ assembly_group(c, j) # 0
             /\ j \in Together(c, j)
  <2>1. PICK T : T = Together(c, j)
    OBVIOUS
  <2>2. j \in T
    BY <1>1, <2>1 DEF Together
  <2>3. T \subseteq 1..Len(c.rows) /\ Len(c.rows) \in Nat
    BY <2>1 DEF Together, IsCart
  <2>4. T \in SUBSET Int /\ IsFiniteSet(T) /\ T # {} /\ 0 \notin T
    <3>1. PICK n \in Nat : n = Len(c.rows)
      BY <2>3
    <3>2. IsFiniteSet(1..n)
      BY FS_Interval
    <3>3. IsFiniteSet(T)
      BY <2>3, <3>1, <3>2, FS_Subset
    <3>4. QED
      BY <2>2, <2>3, <3>1, <3>3
  <2>5. Min(T) \in T
    BY <2>4, LeastIsThere
  <2>6. QED
    BY <1>1, <2>1, <2>2, <2>4, <2>5 DEF assembly_group
<1>2. ASSUME NEW j \in DOMAIN c.rows, ~IsLayer(c.rows[j]) PROVE assembly_group(c, j) = 0
  BY <1>2 DEF assembly_group
<1>3. ASSUME NEW j \in DOMAIN c.rows, IsLayer(c.rows[i]), j \in Together(c, i)
      PROVE  assembly_group(c, j) = assembly_group(c, i)
  <2>1. IsLayer(c.rows[j]) /\ c.rows[j].ens = c.rows[i].ens
    BY <1>3 DEF Together
  <2>2. Together(c, j) = Together(c, i)
    BY <2>1 DEF Together
  <2>3. QED
    BY <1>3, <2>1, <2>2 DEF assembly_group
<1>4. ASSUME NEW j \in DOMAIN c.rows, IsLayer(c.rows[i]), assembly_group(c, j) = assembly_group(c, i)
      PROVE  j \in Together(c, i)
  <2>1. IsLayer(c.rows[j])
    BY <1>1, <1>2, <1>4
  <2>2. PICK m : m \in Together(c, j) /\ m \in Together(c, i)
    BY <1>1, <1>4, <2>1
  <2>3. c.rows[j].ens = c.rows[i].ens
    BY <2>2 DEF Together
  <2>4. QED
    BY <2>1, <2>3 DEF Together
<1>5. QED
  BY <1>1, <1>2, <1>3, <1>4

\* Carts hashed alike have the same assemblies, whatever the seller called them.
LEMMA LayersAlike ==
    ASSUME NEW c, NEW d, RowsAlike(c, d), NEW i \in DOMAIN c.rows
    PROVE  /\ IsLayer(c.rows[i]) <=> IsLayer(d.rows[i])
           /\ IsLayer(c.rows[i]) => Together(c, i) = Together(d, i)
<1>1. IsLayer(c.rows[i]) <=> IsLayer(d.rows[i])
  BY GroupFact DEF RowsAlike
<1>2. ASSUME IsLayer(c.rows[i]) PROVE Together(c, i) = Together(d, i)
  <2>1. \A j \in DOMAIN c.rows : j \in Together(c, i) <=> j \in Together(d, i)
    BY <1>1, <1>2, GroupFact DEF RowsAlike
  <2>2. Together(c, i) \subseteq DOMAIN c.rows /\ Together(d, i) \subseteq DOMAIN c.rows
    BY DEF Together, RowsAlike
  <2>3. QED
    BY <2>1, <2>2
<1>3. QED
  BY <1>1, <1>2

\* The sizes the saw cuts are in the hash.
LEMMA CutsAlike ==
    ASSUME NEW c, NEW r, NEW d, NEW s, Alike(c, r, d, s), NEW i \in DOMAIN c.rows
    PROVE  CutOf(c, r, i) = CutOf(d, s, i)
<1>1. RowsAlike(c, d) /\ DOMAIN c.rows = DOMAIN d.rows
  BY DEF Alike, RowsAlike
<1>2. \A j \in DOMAIN c.rows :
         hard_edge_rule_applies(c.rows[j], r.tape) <=> hard_edge_rule_applies(d.rows[j], s.tape)
  BY <1>1 DEF Alike, RowsAlike, hard_edge_rule_applies, Banded
<1>3. (\E j \in DOMAIN c.rows : hard_edge_rule_applies(c.rows[j], r.tape)) => r.policy.hard = s.policy.hard
  <2>1. rules_in_play(c, r).hard = rules_in_play(d, s).hard
    BY DEF Alike
  <2>2. QED
    BY <1>1, <1>2, <2>1 DEF rules_in_play
<1>4. (\E j \in DOMAIN c.rows : IsLayer(c.rows[j])) => r.policy.allowance = s.policy.allowance
  <2>1. rules_in_play(c, r).allowance = rules_in_play(d, s).allowance
    BY DEF Alike
  <2>2. \A j \in DOMAIN c.rows : IsLayer(c.rows[j]) <=> IsLayer(d.rows[j])
    BY <1>1, LayersAlike
  <2>3. QED
    BY <1>1, <2>1, <2>2 DEF rules_in_play
<1>5. \A j \in DOMAIN c.rows :
         OwnCut(c.rows[j], r.tape, r.policy.hard) = OwnCut(d.rows[j], s.tape, s.policy.hard)
  <2>1. ASSUME NEW j \in DOMAIN c.rows
        PROVE  OwnCut(c.rows[j], r.tape, r.policy.hard) = OwnCut(d.rows[j], s.tape, s.policy.hard)
    <3>1. /\ c.rows[j].height = d.rows[j].height /\ c.rows[j].width = d.rows[j].width
          /\ c.rows[j].sides = d.rows[j].sides
      BY <1>1 DEF RowsAlike
    <3>2. CASE hard_edge_rule_applies(c.rows[j], r.tape)
      <4>1. r.policy.hard = s.policy.hard
        BY <1>3, <3>2
      <4>2. QED
        BY <1>2, <3>1, <3>2, <4>1 DEF OwnCut
    <3>3. CASE ~hard_edge_rule_applies(c.rows[j], r.tape)
      BY <1>2, <3>1, <3>3 DEF OwnCut
    <3>4. QED
      BY <3>2, <3>3
  <2>2. QED
    BY <2>1
<1>6. /\ c.rows[i].height = d.rows[i].height /\ c.rows[i].width = d.rows[i].width
      /\ IsLayer(c.rows[i]) <=> IsLayer(d.rows[i])
  BY <1>1, LayersAlike DEF RowsAlike
<1>7. CASE IsLayer(c.rows[i])
  <2>1. PICK T : T = Together(c, i) /\ T = Together(d, i)
    BY <1>1, <1>7, LayersAlike
  <2>2. T \subseteq DOMAIN c.rows
    BY <2>1 DEF Together
  <2>3. ASSUME NEW axis \in {1, 2}
        PROVE  GroupDiscount(c, i, r.tape, r.policy.hard, axis) = GroupDiscount(d, i, s.tape, s.policy.hard, axis)
    <3>1. \A j \in T : OwnCut(c.rows[j], r.tape, r.policy.hard)[axis]
                          - <<c.rows[j].height, c.rows[j].width>>[axis]
                        = OwnCut(d.rows[j], s.tape, s.policy.hard)[axis]
                          - <<d.rows[j].height, d.rows[j].width>>[axis]
      BY <1>1, <1>5, <2>2 DEF RowsAlike
    <3>2. PICK A : A = {OwnCut(c.rows[j], r.tape, r.policy.hard)[axis]
                          - <<c.rows[j].height, c.rows[j].width>>[axis] : j \in T}
      OBVIOUS
    <3>3. A = {OwnCut(d.rows[j], s.tape, s.policy.hard)[axis]
                          - <<d.rows[j].height, d.rows[j].width>>[axis] : j \in T}
      BY <3>1, <3>2
    <3>4. QED
      BY <2>1, <3>2, <3>3 DEF GroupDiscount
  <2>4. r.policy.allowance = s.policy.allowance
    BY <1>4, <1>7
  <2>5. QED
    BY <1>6, <1>7, <2>3, <2>4 DEF CutOf, cut_size
<1>8. CASE ~IsLayer(c.rows[i])
  BY <1>5, <1>6, <1>8 DEF CutOf, cut_size
<1>9. QED
  BY <1>7, <1>8

\* Every physical piece is of a row, and the same one in carts hashed alike.
LEMMA InstancesAlike ==
    ASSUME NEW c, NEW d, RowsAlike(c, d), NEW key
    PROVE  /\ Instances(c, key) = Instances(d, key)
           /\ \A m \in DOMAIN Instances(c, key) : Instances(c, key)[m] \in DOMAIN c.rows
<1>1. PICK n \in Nat \ {0} : n = Len(c.rows) /\ DOMAIN c.rows = 1..n /\ DOMAIN d.rows = 1..n
  BY DEF RowsAlike, IsCart
<1>2. n = Len(d.rows)
  <2>1. PICK m \in Nat \ {0} : m = Len(d.rows) /\ 1..m = 1..n
    BY <1>1 DEF RowsAlike, IsCart
  <2>2. n \in 1..m /\ m \in 1..n
    BY <2>1
  <2>3. QED
    BY <2>1, <2>2
<1>3. RowsOn(c, key) = RowsOn(d, key) /\ RowsOn(c, key) \subseteq DOMAIN c.rows
  BY DEF RowsOn, RowsAlike
<1>4. ASSUME NEW i PROVE Wanted(c, key, i) = Wanted(d, key, i)
  <2>1. PICK Of : Of = RowsOn(c, key) \cap 1..i
    OBVIOUS
  <2>2. \A j \in Of : c.rows[j].quantity = d.rows[j].quantity
    BY <1>3, <2>1 DEF RowsAlike
  <2>3. [j \in Of |-> c.rows[j].quantity] = [j \in Of |-> d.rows[j].quantity]
    BY <2>2
  <2>4. QED
    BY <1>3, <2>1, <2>3 DEF Wanted
<1>5. PICK W : W = [i \in 0..n |-> Wanted(c, key, i)]
  OBVIOUS
<1>6. \A i \in 0..n : W[i] = Wanted(c, key, i) /\ W[i] = Wanted(d, key, i)
  BY <1>4, <1>5
<1>7. PICK f : f = [m \in 1..W[n] |-> Min({i \in 1..n : m <= W[i]})]
  OBVIOUS
<1>8. Instances(c, key) = f
  BY <1>1, <1>6, <1>7 DEF Instances
<1>9. Instances(d, key) = f
  BY <1>1, <1>2, <1>6, <1>7 DEF Instances
<1>10. ASSUME NEW m \in 1..W[n] PROVE f[m] \in 1..n
  <2>1. PICK T : T = {i \in 1..n : m <= W[i]}
    OBVIOUS
  <2>2. n \in T
    BY <2>1
  <2>3. IsFiniteSet(1..n)
    BY FS_Interval
  <2>4. IsFiniteSet(T) /\ T \in SUBSET Int /\ T # {}
    BY <2>1, <2>2, <2>3, FS_Subset
  <2>5. Min(T) \in T
    BY <2>4, LeastIsThere
  <2>6. QED
    BY <1>7, <2>1, <2>5
<1>11. QED
  BY <1>1, <1>7, <1>8, <1>9, <1>10

\* They are numbered.
LEMMA PiecesAreFinite ==
    ASSUME NEW c, IsCart(c), NEW key
    PROVE  \E N \in Nat : DOMAIN Instances(c, key) = 1..N /\ IsFiniteSet(1..N)
<1>1. PICK N : N = Wanted(c, key, Len(c.rows))
  OBVIOUS
<1>2. DOMAIN Instances(c, key) = 1..N
  BY <1>1 DEF Instances
<1>3. N \in Nat
  <2>1. PICK Of : Of = RowsOn(c, key) \cap 1..Len(c.rows)
    OBVIOUS
  <2>2. IsFiniteSet(1..Len(c.rows))
    BY FS_Interval DEF IsCart
  <2>3. IsFiniteSet(Of) /\ Of \subseteq DOMAIN c.rows
    BY <2>1, <2>2, FS_Subset DEF IsCart
  <2>4. PICK f : f = [j \in Of |-> c.rows[j].quantity]
    OBVIOUS
  <2>5. \A j \in Of : f[j] \in Nat
    BY <2>3, <2>4 DEF IsCart
  <2>6. Total(f, Of) \in Nat
    BY <2>3, <2>5, TotalIsNatural
  <2>7. QED
    BY <1>1, <2>1, <2>4, <2>6 DEF Wanted
<1>4. IsFiniteSet(1..N)
  BY <1>3, FS_Interval
<1>5. QED
  BY <1>2, <1>3, <1>4

\* The sheets of a material are in the hash.
LEMMA BinsAlike ==
    ASSUME NEW c, NEW r, NEW d, NEW s, Alike(c, r, d, s), NEW key \in UsedKeys(c)
    PROVE  Bins(c, r, key) = Bins(d, s, key) /\ PoolTrim(c, r, key) = PoolTrim(d, s, key)
<1>1. PoolTrim(c, r, key) = PoolTrim(d, s, key)
  BY DEF Alike, PoolTrim
<1>2. CASE key = "board"
  <2>1. /\ r.board.price = s.board.price /\ half_board_split(r.board) = half_board_split(s.board)
        /\ r.policy.markup = s.policy.markup
    BY <1>2 DEF Alike
  <2>2. HalfSpec(r.board, r.policy.markup) = HalfSpec(s.board, s.policy.markup)
    BY <2>1 DEF HalfSpec, half_board_price
  <2>3. QED
    BY <1>1, <1>2, <2>1, <2>2 DEF Bins
<1>3. CASE key # "board"
  BY <1>1, <1>3 DEF Bins, Alike
<1>4. QED
  BY <1>2, <1>3

\* So are the sheet a piece gets and the way it lies on it.
LEMMA SheetsAlike ==
    ASSUME NEW c, NEW r, NEW d, NEW s, Alike(c, r, d, s), NEW i \in DOMAIN c.rows
    PROVE  BinsFor(c, r, i) = BinsFor(d, s, i) /\ SheetFor(c, r, i) = SheetFor(d, s, i)
<1>1. PICK key \in UsedKeys(c) : key = c.rows[i].on /\ key = d.rows[i].on
  BY DEF UsedKeys, Alike, RowsAlike
<1>2. c.rows[i].turns = d.rows[i].turns /\ c.rows[i].sides = d.rows[i].sides
  BY DEF Alike, RowsAlike
<1>3. PICK B, trim : /\ B = Bins(c, r, key) /\ B = Bins(d, s, key)
                     /\ trim = PoolTrim(c, r, key) /\ trim = PoolTrim(d, s, key)
  BY BinsAlike
<1>4. PICK cut : cut = CutOf(c, r, i) /\ cut = CutOf(d, s, i)
  BY CutsAlike
<1>5. PICK fit : fit = {b \in B : FitsSheet(cut, c.rows[i].turns, b, trim)}
  OBVIOUS
<1>6. BinsFor(c, r, i) = fit
  BY <1>1, <1>3, <1>4, <1>5 DEF BinsFor
<1>7. BinsFor(d, s, i) = fit
  BY <1>1, <1>2, <1>3, <1>4, <1>5 DEF BinsFor
<1>8. PICK turned : turned = ~FitsStraight(cut, Cheapest(fit), trim)
  OBVIOUS
<1>9. geometric_edges(c.rows[i], turned) = geometric_edges(d.rows[i], turned)
  BY <1>2 DEF geometric_edges
<1>10. QED
  BY <1>1, <1>3, <1>4, <1>6, <1>7, <1>8, <1>9 DEF SheetFor

\* Which pieces get a sheet, and the sheets of a pool in their order.
LEMMA PoolsAlike ==
    ASSUME NEW c, NEW r, NEW d, NEW s, Alike(c, r, d, s), NEW key
    PROVE  /\ PoolSheets(c, r, key) = PoolSheets(d, s, key)
           /\ \A m \in DOMAIN Instances(c, key) : GetsSheet(c, r, key, m) <=> GetsSheet(d, s, key, m)
<1>1. PICK pieces : /\ pieces = Instances(c, key) /\ pieces = Instances(d, key)
                    /\ \A m \in DOMAIN pieces : pieces[m] \in DOMAIN c.rows
  BY InstancesAlike DEF Alike
<1>2. Supply(c, key) = Supply(d, key)
  BY <1>1 DEF Supply, Alike
<1>3. \A m \in DOMAIN pieces : BinsFor(c, r, pieces[m]) = BinsFor(d, s, pieces[m])
  BY <1>1, SheetsAlike
<1>4. ASSUME NEW n \in DOMAIN pieces
      PROVE  GetsSheet(c, r, key, n) <=> GetsSheet(d, s, key, n)
  <2>1. \A m \in 1..(n - 1) : m \in DOMAIN pieces
    <3>1. PICK N \in Nat : DOMAIN pieces = 1..N
      BY <1>1, PiecesAreFinite DEF Alike, RowsAlike
    <3>2. QED
      BY <3>1
  <2>2. {m \in 1..(n - 1) : BinsFor(c, r, pieces[m]) # {}} = {m \in 1..(n - 1) : BinsFor(d, s, pieces[m]) # {}}
    BY <1>3, <2>1
  <2>3. QED
    BY <1>1, <1>2, <1>3, <2>2 DEF GetsSheet
<1>5. PICK placed : placed = InOrder({n \in DOMAIN pieces : GetsSheet(c, r, key, n)})
  OBVIOUS
<1>6. placed = InOrder({n \in DOMAIN pieces : GetsSheet(d, s, key, n)})
  BY <1>4, <1>5
<1>7. \A k \in DOMAIN placed : placed[k] \in DOMAIN pieces
  <2>1. PICK N \in Nat : DOMAIN pieces = 1..N /\ IsFiniteSet(1..N)
    BY <1>1, PiecesAreFinite DEF Alike, RowsAlike
  <2>2. PICK P : P = {n \in DOMAIN pieces : GetsSheet(c, r, key, n)}
    OBVIOUS
  <2>3. P \in SUBSET Nat /\ IsFiniteSet(P) /\ P \subseteq DOMAIN pieces
    BY <2>1, <2>2, FS_Subset
  <2>4. placed \in Seq(P)
    BY <1>5, <2>2, <2>3, InOrderFact
  <2>5. \A k \in DOMAIN placed : placed[k] \in P
    BY <2>4, ElementOfSeq
  <2>6. QED
    BY <2>3, <2>5
<1>8. \A k \in DOMAIN placed : pieces[placed[k]] \in DOMAIN c.rows
  BY <1>1, <1>7
<1>9. PICK sheets : sheets = [k \in DOMAIN placed |-> SheetFor(c, r, pieces[placed[k]])]
  OBVIOUS
<1>10. sheets = [k \in DOMAIN placed |-> SheetFor(d, s, pieces[placed[k]])]
  BY <1>8, <1>9, SheetsAlike
<1>11. PoolSheets(c, r, key) = order_sheets(sheets)
  BY <1>1, <1>5, <1>9 DEF PoolSheets
<1>12. PoolSheets(d, s, key) = order_sheets(sheets)
  BY <1>1, <1>6, <1>10 DEF PoolSheets
<1>13. QED
  BY <1>1, <1>4, <1>11, <1>12

\* What is left uncut is in the hash too.
LEMMA UnplacedAlike ==
    ASSUME NEW c, NEW r, NEW d, NEW s, Alike(c, r, d, s)
    PROVE  group_unplaced(c, r) = group_unplaced(d, s)
<1>1. ASSUME NEW i \in DOMAIN c.rows PROVE Uncut(c, r, i) = Uncut(d, s, i)
  <2>1. PICK key : key = c.rows[i].on /\ key = d.rows[i].on
    BY DEF Alike, RowsAlike
  <2>2. PICK pieces : pieces = Instances(c, key) /\ pieces = Instances(d, key)
    BY InstancesAlike DEF Alike
  <2>3. PICK A : A = {m \in DOMAIN pieces : pieces[m] = i /\ ~GetsSheet(c, r, key, m)}
    OBVIOUS
  <2>4. A = {m \in DOMAIN pieces : pieces[m] = i /\ ~GetsSheet(d, s, key, m)}
    BY <2>2, <2>3, PoolsAlike
  <2>5. QED
    BY <2>1, <2>2, <2>3, <2>4 DEF Uncut
<1>2. DOMAIN c.rows = DOMAIN d.rows /\ \A i \in DOMAIN c.rows : c.rows[i].on = d.rows[i].on
  BY DEF Alike, RowsAlike
<1>3. PICK left : left = {j \in DOMAIN c.rows : Uncut(c, r, j) > 0}
  OBVIOUS
<1>4. left = {j \in DOMAIN d.rows : Uncut(d, s, j) > 0} /\ left \subseteq DOMAIN c.rows
  BY <1>1, <1>2, <1>3
<1>5. \A i \in left : [on |-> c.rows[i].on, row |-> i, cut |-> CutOf(c, r, i), quantity |-> Uncut(c, r, i)]
                    = [on |-> d.rows[i].on, row |-> i, cut |-> CutOf(d, s, i), quantity |-> Uncut(d, s, i)]
  BY <1>1, <1>2, <1>4, CutsAlike
<1>6. QED
  BY <1>3, <1>4, <1>5 DEF group_unplaced

\* The metres of tape, and their price where there are any.
LEMMA TapeAlike ==
    ASSUME NEW c, NEW r, NEW d, NEW s, Alike(c, r, d, s)
    PROVE  /\ BilledTape(c, r) = BilledTape(d, s)
           /\ BilledTape(c, r) * r.tape.price = BilledTape(d, s) * s.tape.price
<1>1. PICK R : R = DOMAIN c.rows /\ R = DOMAIN d.rows
  BY DEF Alike, RowsAlike
<1>2. \A i \in R : Contour(c.rows[i], c.rows[i].sides) = Contour(d.rows[i], d.rows[i].sides)
                   /\ c.rows[i].quantity = d.rows[i].quantity
  <2> TAKE i \in R
  <2>1. /\ c.rows[i].sides = d.rows[i].sides /\ c.rows[i].height = d.rows[i].height
        /\ c.rows[i].width = d.rows[i].width /\ c.rows[i].quantity = d.rows[i].quantity
    BY <1>1 DEF Alike, RowsAlike
  <2>2. [e \in c.rows[i].sides |-> side_length(c.rows[i], e)]
          = [e \in d.rows[i].sides |-> side_length(d.rows[i], e)]
    BY <2>1 DEF side_length
  <2>3. QED
    BY <2>1, <2>2 DEF Contour
<1>3. PICK f : f = [i \in R |-> c.rows[i].quantity * Contour(c.rows[i], c.rows[i].sides)]
  OBVIOUS
<1>4. f = [i \in R |-> d.rows[i].quantity * Contour(d.rows[i], d.rows[i].sides)]
  BY <1>2, <1>3
<1>5. PICK length : length = TapeLength(c) /\ length = TapeLength(d) /\ length = Total(f, R)
  BY <1>1, <1>3, <1>4 DEF TapeLength
<1>6. PICK waste \in Nat : waste = r.policy.waste /\ waste = s.policy.waste
  BY QuoteAssumption DEF Alike, Reads
<1>7. PICK billed : /\ billed = Rounded(length * (100 + waste), 100)
                    /\ billed = BilledTape(c, r) /\ billed = BilledTape(d, s)
  BY <1>5, <1>6 DEF BilledTape
<1>8. CASE \E i \in R : Banded(c.rows[i])
  <2>1. r.tape.price = s.tape.price
    BY <1>1, <1>8 DEF Alike
  <2>2. QED
    BY <1>7, <2>1
<1>9. CASE \A i \in R : ~Banded(c.rows[i])
  <2>1. \A i \in R : f[i] = 0
    <3> TAKE i \in R
    <3>1. c.rows[i].sides = {}
      BY <1>9 DEF Banded
    <3>2. Contour(c.rows[i], c.rows[i].sides) = 0
      BY <3>1, TotalOfNothing DEF Contour
    <3>3. c.rows[i].quantity \in Nat
      BY <1>1 DEF Alike, RowsAlike, IsCart
    <3>4. QED
      BY <1>3, <3>2, <3>3
  <2>2. IsFiniteSet(R)
    BY <1>1, FS_Interval DEF Alike, RowsAlike, IsCart
  <2>3. length = 0
    BY <1>5, <2>1, <2>2, TotalOfZeros
  <2>4. billed = 0
    BY <1>6, <1>7, <2>3 DEF Rounded
  <2>5. r.tape.price \in Nat /\ s.tape.price \in Nat
    BY QuoteAssumption DEF Alike, Reads
  <2>6. QED
    BY <1>7, <2>4, <2>5
<1>10. QED
  BY <1>8, <1>9

\* A plan is in the hash, but for the names.
LEMMA PlansAlike ==
    ASSUME NEW c, NEW r, NEW d, NEW s, Alike(c, r, d, s)
    PROVE  Unnamed(Payload(c, r)) = Unnamed(Payload(d, s))
<1>1. PICK keys : keys = UsedKeys(c) /\ keys = UsedKeys(d)
  <2>1. RowsAlike(c, d)
    BY DEF Alike
  <2>2. UsedKeys(c) = UsedKeys(d)
    BY <2>1 DEF RowsAlike, UsedKeys
  <2>3. QED
    BY <2>2
<1>2. PICK first : first = c.rows[1].on /\ first = d.rows[1].on
  <2>1. 1 \in DOMAIN c.rows
    BY DEF Alike, RowsAlike, IsCart
  <2>2. QED
    BY <2>1 DEF Alike, RowsAlike
<1>3. PICK other : other = CHOOSE key \in keys : key # first
  OBVIOUS
<1>4. PoolSheets(c, r, first) = PoolSheets(d, s, first) /\ PoolSheets(c, r, other) = PoolSheets(d, s, other)
  BY PoolsAlike
<1>5. PICK sheets : sheets = AllSheets(c, r) /\ sheets = AllSheets(d, s)
  BY <1>1, <1>2, <1>3, <1>4 DEF AllSheets
<1>6. PICK left : left = group_unplaced(c, r) /\ left = group_unplaced(d, s)
  BY UnplacedAlike
<1>7. PICK length, cost : /\ length = BilledTape(c, r) /\ length = BilledTape(d, s)
                          /\ cost = BilledTape(c, r) * r.tape.price
                          /\ cost = BilledTape(d, s) * s.tape.price
  BY TapeAlike
<1>8. PICK rules : rules = rules_in_play(c, r) /\ rules = rules_in_play(d, s)
  BY DEF Alike
<1>9. PICK Bare : Bare = [key \in keys |-> [ResolvedMaterial(c, r, key) EXCEPT !.name = NotWritten]]
  OBVIOUS
<1>10. Bare = [key \in keys |-> [ResolvedMaterial(d, s, key) EXCEPT !.name = NotWritten]]
  <2>1. ASSUME NEW key \in keys
        PROVE  [ResolvedMaterial(c, r, key) EXCEPT !.name = NotWritten]
                 = [ResolvedMaterial(d, s, key) EXCEPT !.name = NotWritten]
    <3>1. PICK whole : whole = WholeSheet(Bins(c, r, key)) /\ whole = WholeSheet(Bins(d, s, key))
      <4>1. key \in UsedKeys(c)
        BY <1>1
      <4>2. Bins(c, r, key) = Bins(d, s, key)
        BY <4>1, BinsAlike
      <4>3. QED
        BY <4>2
    <3>2. PICK x : ResolvedMaterial(c, r, key) =
                      [price |-> whole.price, height |-> whole.height, width |-> whole.width, name |-> x]
      BY <3>1 DEF ResolvedMaterial
    <3>3. PICK y : ResolvedMaterial(d, s, key) =
                      [price |-> whole.price, height |-> whole.height, width |-> whole.width, name |-> y]
      BY <3>1 DEF ResolvedMaterial
    <3>4. QED
      BY <3>2, <3>3
  <2>2. QED
    BY <1>9, <2>1
<1>11. PICK plan : plan = [sheets |-> sheets, unplaced |-> left, materials |-> Bare,
                           boards |-> BoardsUsed(sheets), boardsCost |-> CostOf(sheets),
                           tapeLength |-> length, tapeCost |-> cost, cutRules |-> rules,
                           summary |-> build_materials_summary(sheets), groups |-> group_layouts(sheets)]
  OBVIOUS
<1>12. ASSUME NEW q, NEW M, NEW e, NEW t,
              M = [key \in keys |-> ResolvedMaterial(e, t, key)],
              q = [sheets |-> sheets, unplaced |-> left, materials |-> M,
                   boards |-> BoardsUsed(sheets), boardsCost |-> CostOf(sheets),
                   tapeLength |-> length, tapeCost |-> cost, cutRules |-> rules,
                   summary |-> build_materials_summary(sheets), groups |-> group_layouts(sheets)],
              Bare = [key \in keys |-> [ResolvedMaterial(e, t, key) EXCEPT !.name = NotWritten]]
       PROVE  Unnamed(q) = plan
  <2>1. q.materials = M /\ Bare = [key \in DOMAIN M |-> [M[key] EXCEPT !.name = NotWritten]]
    BY <1>12
  <2>2. Unnamed(q) = [q EXCEPT !.materials = Bare]
    BY <2>1 DEF Unnamed
  <2>3. QED
    BY <1>11, <1>12, <2>2
<1>13. Unnamed(Payload(c, r)) = plan
  <2>1. PICK M : M = [key \in keys |-> ResolvedMaterial(c, r, key)]
    OBVIOUS
  <2>2. PICK q : q = Payload(c, r)
    OBVIOUS
  <2>3. q = [sheets |-> sheets, unplaced |-> left, materials |-> M,
             boards |-> BoardsUsed(sheets), boardsCost |-> CostOf(sheets),
             tapeLength |-> length, tapeCost |-> cost, cutRules |-> rules,
             summary |-> build_materials_summary(sheets), groups |-> group_layouts(sheets)]
    BY <1>1, <1>5, <1>6, <1>7, <1>8, <2>1, <2>2 DEF Payload
  <2>4. Unnamed(q) = plan
    BY <1>9, <1>12, <2>1, <2>3
  <2>5. QED
    BY <2>2, <2>4
<1>14. Unnamed(Payload(d, s)) = plan
  <2>1. PICK M : M = [key \in keys |-> ResolvedMaterial(d, s, key)]
    OBVIOUS
  <2>2. PICK q : q = Payload(d, s)
    OBVIOUS
  <2>3. q = [sheets |-> sheets, unplaced |-> left, materials |-> M,
             boards |-> BoardsUsed(sheets), boardsCost |-> CostOf(sheets),
             tapeLength |-> length, tapeCost |-> cost, cutRules |-> rules,
             summary |-> build_materials_summary(sheets), groups |-> group_layouts(sheets)]
    BY <1>1, <1>2, <1>3, <1>5, <1>6, <1>7, <1>8, <2>1, <2>2 DEF Payload
  <2>4. Unnamed(q) = plan
    BY <1>10, <1>12, <2>1, <2>3
  <2>5. QED
    BY <2>2, <2>4
<1>15. QED
  BY <1>13, <1>14

\* A cached plan is the one of something that was asked and read under its hash.
CameFrom(h, plan) ==
    \E k \in DOMAIN Carts, r \in Reads :
        h = compute_hash(Carts[k], r) /\ plan = Payload(Carts[k], r)

\* A request knows what it has read so far, and its plan is that of what it read.
SeatAgrees(q) ==
    /\ q.at \in {"idle", "board", "tape", "cache", "search", "plan", "answered"}
    /\ q.at # "idle" => q.cart \in DOMAIN Carts /\ q.writes \in BOOLEAN
    /\ q.at \in {"board", "tape"} => q.policy \in Policies
    /\ q.at = "tape" => q.board \in BoardRows
    /\ q.at \in {"cache", "search", "plan", "answered"} => q.read \in Reads
    /\ q.at \in {"plan", "answered"}
          => Unnamed(q.plan) = Unnamed(Payload(Carts[q.cart], q.read))

QuoteInv ==
    /\ policy \in Policies /\ boardRow \in BoardRows /\ tapeRow \in TapeRows
    /\ seat = [c \in Counters |-> seat[c]]
    /\ \A c \in Counters : SeatAgrees(seat[c])
    /\ \A h \in DOMAIN redis : CameFrom(h, redis[h])
    /\ minted \in Seq(Range(minted)) /\ Len(minted) \in 0..MaxMinted
    /\ revisions \in 0..MaxRevisions

\* A request moves on and nobody else's does.
LEMMA SeatMoves ==
    ASSUME QuoteInv, NEW c \in Counters, NEW q, SeatAgrees(q), seat' = [seat EXCEPT ![c] = q]
    PROVE  seat' = [e \in Counters |-> seat'[e]] /\ \A e \in Counters : SeatAgrees(seat'[e])
BY DEF QuoteInv

\* One more order.
LEMMA MintedGrows ==
    ASSUME QuoteInv, NEW o, minted' = Append(minted, o), Len(minted) < MaxMinted
    PROVE  minted' \in Seq(Range(minted')) /\ Len(minted') \in 0..MaxMinted
<1>1. PICK S : S = Range(minted)
  OBVIOUS
<1>2. minted \in Seq(S) /\ minted \in Seq(S \union {o})
  BY <1>1, SeqMonotonic DEF QuoteInv
<1>3. minted' \in Seq(S \union {o}) /\ Len(minted') = Len(minted) + 1
  BY <1>2, AppendProperties
<1>4. minted' \in Seq(Range(minted'))
  BY <1>3 DEF Range
<1>5. QED
  BY <1>3, <1>4, QuoteAssumption DEF QuoteInv

\* A plan out of the cache is that of what this request read.
LEMMA HitIsFresh ==
    ASSUME QuoteInv, NEW c \in Counters, seat[c].at = "cache", HashOf(c) \in DOMAIN redis
    PROVE  Unnamed(redis[HashOf(c)]) = Unnamed(Payload(CartOf(c), seat[c].read))
<1>1. seat[c].read \in Reads /\ seat[c].cart \in DOMAIN Carts
  BY DEF QuoteInv, SeatAgrees
<1>2. PICK k \in DOMAIN Carts, r \in Reads :
         HashOf(c) = compute_hash(Carts[k], r) /\ redis[HashOf(c)] = Payload(Carts[k], r)
  BY DEF QuoteInv, CameFrom
<1>3. IsCart(Carts[k]) /\ IsCart(CartOf(c))
  BY <1>1, QuoteAssumption DEF CartOf
<1>4. compute_hash(Carts[k], r) = compute_hash(CartOf(c), seat[c].read)
  BY <1>2 DEF HashOf
<1>5. Alike(Carts[k], r, CartOf(c), seat[c].read)
  BY <1>1, <1>3, <1>4, HashedAlike
<1>6. QED
  BY <1>2, <1>5, PlansAlike

\* A request's steps keep the agreement.
LEMMA RequestKeeps ==
    ASSUME QuoteInv, NEW c \in Counters,
           \/ \E k \in DOMAIN Carts, writes \in BOOLEAN : Ask(c, k, writes)
           \/ ResolveBoard(c) \/ ResolveTape(c) \/ Hit(c) \/ Miss(c) \/ Search(c)
           \/ Answer(c) \/ Refuse(c) \/ CreateOrder(c)
    PROVE  QuoteInv'
<1>1. PICK q : q = seat'[c]
  OBVIOUS
<1>2. SeatAgrees(seat[c])
  BY DEF QuoteInv
<1>3. ASSUME SeatAgrees(q), seat' = [seat EXCEPT ![c] = q],
             UNCHANGED <<policy, boardRow, tapeRow, redis, minted, revisions>>
      PROVE  QuoteInv'
  BY <1>3, SeatMoves DEF QuoteInv
<1>4. ASSUME NEW k \in DOMAIN Carts, NEW writes \in BOOLEAN, Ask(c, k, writes) PROVE QuoteInv'
  <2>1. q = [at |-> "board", cart |-> k, writes |-> writes, policy |-> policy]
        /\ seat' = [seat EXCEPT ![c] = q]
    BY <1>1, <1>4 DEF Ask, QuoteInv
  <2>2. SeatAgrees(q)
    BY <2>1 DEF SeatAgrees, QuoteInv
  <2>3. QED
    BY <1>3, <1>4, <2>1, <2>2 DEF Ask
<1>5. CASE ResolveBoard(c)
  <2>1. q = [at |-> "tape", cart |-> seat[c].cart, writes |-> seat[c].writes,
             policy |-> seat[c].policy, board |-> boardRow]
        /\ seat' = [seat EXCEPT ![c] = q]
    BY <1>1, <1>5 DEF ResolveBoard, QuoteInv
  <2>2. SeatAgrees(q)
    BY <1>2, <1>5, <2>1 DEF SeatAgrees, QuoteInv, ResolveBoard
  <2>3. QED
    BY <1>3, <1>5, <2>1, <2>2 DEF ResolveBoard
<1>6. CASE ResolveTape(c)
  <2>1. q = [at |-> "cache", cart |-> seat[c].cart, writes |-> seat[c].writes,
             read |-> [policy |-> seat[c].policy, board |-> seat[c].board, tape |-> tapeRow]]
        /\ seat' = [seat EXCEPT ![c] = q]
    BY <1>1, <1>6 DEF ResolveTape, QuoteInv
  <2>2. SeatAgrees(q)
    BY <1>2, <1>6, <2>1 DEF SeatAgrees, QuoteInv, ResolveTape, Reads
  <2>3. QED
    BY <1>3, <1>6, <2>1, <2>2 DEF ResolveTape
<1>7. CASE Hit(c)
  <2>1. q = [at |-> "plan", cart |-> seat[c].cart, writes |-> seat[c].writes,
             read |-> seat[c].read, plan |-> redis[HashOf(c)]]
        /\ seat' = [seat EXCEPT ![c] = q]
    BY <1>1, <1>7 DEF Hit, HasPlan, QuoteInv
  <2>2. Unnamed(redis[HashOf(c)]) = Unnamed(Payload(CartOf(c), seat[c].read))
    BY <1>7, HitIsFresh DEF Hit
  <2>3. SeatAgrees(q)
    BY <1>2, <1>7, <2>1, <2>2 DEF SeatAgrees, Hit, CartOf
  <2>4. QED
    BY <1>3, <1>7, <2>1, <2>3 DEF Hit
<1>8. CASE Miss(c)
  <2>1. q = [at |-> "search", cart |-> seat[c].cart, writes |-> seat[c].writes, read |-> seat[c].read]
        /\ seat' = [seat EXCEPT ![c] = q]
    BY <1>1, <1>8 DEF Miss, QuoteInv
  <2>2. SeatAgrees(q)
    BY <1>2, <1>8, <2>1 DEF SeatAgrees, Miss
  <2>3. QED
    BY <1>3, <1>8, <2>1, <2>2 DEF Miss
<1>9. CASE Search(c)
  <2>1. PICK plan, hash : plan = Payload(CartOf(c), seat[c].read) /\ hash = HashOf(c)
    OBVIOUS
  <2>2. q = [at |-> "plan", cart |-> seat[c].cart, writes |-> seat[c].writes,
             read |-> seat[c].read, plan |-> plan]
        /\ seat' = [seat EXCEPT ![c] = q]
    BY <1>1, <1>9, <2>1 DEF Search, HasPlan, QuoteInv
  <2>3. SeatAgrees(q)
    BY <1>2, <1>9, <2>1, <2>2 DEF SeatAgrees, Search, CartOf
  <2>4. CameFrom(hash, plan)
    BY <1>2, <1>9, <2>1 DEF SeatAgrees, Search, CartOf, HashOf, CameFrom
  <2>5. redis' = redis \/ redis' = [h \in DOMAIN redis \union {hash} |-> IF h = hash THEN plan ELSE redis[h]]
    BY <1>9, <2>1 DEF Search
  <2>6. \A h \in DOMAIN redis' : CameFrom(h, redis'[h])
    BY <2>4, <2>5 DEF QuoteInv
  <2>7. UNCHANGED <<policy, boardRow, tapeRow, minted, revisions>>
    BY <1>9 DEF Search
  <2>8. QED
    BY <2>2, <2>3, <2>6, <2>7, SeatMoves DEF QuoteInv
<1>10. ASSUME Billed(c), seat[c].at = "plan"
       PROVE  SeatAgrees(q) /\ seat' = [seat EXCEPT ![c] = q]
  <2>1. q = [at |-> "answered", cart |-> seat[c].cart, writes |-> seat[c].writes,
             read |-> seat[c].read, plan |-> seat[c].plan, tax |-> policy.tax]
        /\ seat' = [seat EXCEPT ![c] = q]
    BY <1>1, <1>10 DEF Billed, QuoteInv
  <2>2. SeatAgrees(q)
    BY <1>2, <1>10, <2>1 DEF SeatAgrees
  <2>3. QED
    BY <2>1, <2>2
<1>11. CASE Answer(c)
  BY <1>3, <1>10, <1>11 DEF Answer
<1>12. CASE Refuse(c)
  <2>1. q = Vacant /\ seat' = [seat EXCEPT ![c] = q]
    BY <1>1, <1>12 DEF Refuse, QuoteInv
  <2>2. SeatAgrees(q)
    BY <2>1 DEF SeatAgrees, Vacant
  <2>3. QED
    BY <1>3, <1>12, <2>1, <2>2 DEF Refuse
<1>13. CASE CreateOrder(c)
  <2>1. SeatAgrees(q) /\ seat' = [seat EXCEPT ![c] = q]
    BY <1>10, <1>13 DEF CreateOrder
  <2>2. UNCHANGED <<policy, boardRow, tapeRow, redis, revisions>>
    BY <1>13 DEF CreateOrder
  <2>3. minted' \in Seq(Range(minted')) /\ Len(minted') \in 0..MaxMinted
    <3>1. CASE UNCHANGED minted
      BY <3>1 DEF QuoteInv
    <3>2. CASE Len(minted) < MaxMinted /\ minted' = Append(minted, Frozen(c))
      BY <3>2, MintedGrows
    <3>3. QED
      BY <1>13, <3>1, <3>2 DEF CreateOrder
  <2>4. QED
    BY <2>1, <2>2, <2>3, SeatMoves DEF QuoteInv
<1>14. QED
  BY <1>4, <1>5, <1>6, <1>7, <1>8, <1>9, <1>11, <1>12, <1>13

\* The desk's requests, the edits of the staff and what Redis forgets keep it.
THEOREM QuotesSafe == QuoteSpec => []QuoteInv
<1>1. QuoteInit => QuoteInv
  <2> SUFFICES ASSUME QuoteInit PROVE QuoteInv
    OBVIOUS
  <2>1. minted \in Seq(Range(minted)) /\ Len(minted) = 0
    BY DEF QuoteInit
  <2>2. \A c \in Counters : SeatAgrees(seat[c])
    BY DEF QuoteInit, SeatAgrees, Vacant
  <2>3. DOMAIN redis = {}
    BY DEF QuoteInit
  <2>4. QED
    BY <2>1, <2>2, <2>3, QuoteAssumption DEF QuoteInit, QuoteInv
<1>2. QuoteInv /\ [QuoteNext]_quoteVars => QuoteInv'
  <2> SUFFICES ASSUME QuoteInv, [QuoteNext]_quoteVars PROVE QuoteInv'
    OBVIOUS
  <2>1. ASSUME NEW p \in Policies, update_cutting(p) PROVE QuoteInv'
    BY <2>1, QuoteAssumption DEF QuoteInv, update_cutting, Revised
  <2>2. ASSUME NEW b \in BoardRows, EditBoard(b) PROVE QuoteInv'
    BY <2>2, QuoteAssumption DEF QuoteInv, EditBoard, Revised
  <2>3. ASSUME NEW t \in TapeRows, EditTape(t) PROVE QuoteInv'
    BY <2>3, QuoteAssumption DEF QuoteInv, EditTape, Revised
  <2>4. ASSUME NEW hash \in DOMAIN redis, ExpirePlan(hash) PROVE QuoteInv'
    BY <2>4 DEF QuoteInv, ExpirePlan
  <2>5. CASE UNCHANGED quoteVars
    BY <2>5 DEF QuoteInv, quoteVars
  <2>6. QED
    BY <2>1, <2>2, <2>3, <2>4, <2>5, RequestKeeps DEF QuoteNext
<1>3. QED
  BY <1>1, <1>2, PTL DEF QuoteSpec

\* Property AnswersAreFresh: a plan served under OptimizationService._compute_hash is
\* the one a search would find for what this request read, whatever was edited since.
THEOREM QuotesAreFresh == QuoteSpec => []AnswersAreFresh
<1>1. QuoteInv => AnswersAreFresh
  BY DEF QuoteInv, SeatAgrees, AnswersAreFresh, Planned, CartOf
<1>2. QED
  BY <1>1, QuotesSafe, PTL

\* What a set of at most one member holds is all the same.
LEMMA AtMostOne ==
    ASSUME NEW S, IsFiniteSet(S), ~(Cardinality(S) > 1), NEW x \in S, NEW y \in S
    PROVE  x = y
<1> SUFFICES ASSUME x # y PROVE FALSE
  OBVIOUS
<1>1. IsFiniteSet(S \ {x}) /\ Cardinality(S \ {x}) = Cardinality(S) - 1
  BY FS_RemoveElement
<1>2. Cardinality(S) \in Nat /\ Cardinality(S \ {x}) \in Nat
  BY <1>1, FS_CardinalityType
<1>3. Cardinality(S \ {x}) = 0
  BY <1>1, <1>2
<1>4. S \ {x} = {}
  BY <1>1, <1>3, FS_EmptySet
<1>5. QED
  BY <1>4

\* assembly_issues lets nothing through whose layers the saw would cut apart.
LEMMA LayersMatch ==
    ASSUME NEW c, IsCart(c), NEW r, ~assembly_issues(c),
           NEW i \in DOMAIN c.rows, NEW j \in Together(c, i), IsLayer(c.rows[i])
    PROVE  CutOf(c, r, i) = CutOf(c, r, j)
<1>1. j \in DOMAIN c.rows /\ IsLayer(c.rows[j]) /\ c.rows[j].ens = c.rows[i].ens
  BY DEF Together
<1>2. Together(c, j) = Together(c, i) /\ i \in Together(c, i)
  BY <1>1 DEF Together
<1>3. PICK T : T = Together(c, i)
  OBVIOUS
<1>4. PICK size : size = [k \in T |-> <<c.rows[k].height, c.rows[k].width>>]
  OBVIOUS
<1>5. {<<l.height, l.width>> : l \in {c.rows[k] : k \in T}} = {size[k] : k \in T}
  BY <1>4
<1>6. ~(Cardinality({size[k] : k \in T}) > 1)
  BY <1>3, <1>5 DEF assembly_issues
<1>7. IsFiniteSet(T)
  <2>1. T \subseteq 1..Len(c.rows) /\ Len(c.rows) \in Nat
    BY <1>3 DEF Together, IsCart
  <2>2. IsFiniteSet(1..Len(c.rows))
    BY <2>1, FS_Interval
  <2>3. QED
    BY <2>1, <2>2, FS_Subset
<1>8. size[i] = size[j]
  <2>1. PICK S : S = {size[k] : k \in T}
    OBVIOUS
  <2>2. IsFiniteSet(S) /\ ~(Cardinality(S) > 1)
    BY <1>6, <1>7, <2>1, ImageIsFinite
  <2>3. size[i] \in S /\ size[j] \in S
    BY <1>2, <1>3, <2>1
  <2>4. QED
    BY <2>2, <2>3, AtMostOne
<1>9. c.rows[i].height = c.rows[j].height /\ c.rows[i].width = c.rows[j].width
  <2>1. PICK t : t = size[i] /\ t = size[j]
    BY <1>8
  <2>2. t[1] = c.rows[i].height /\ t[2] = c.rows[i].width
    BY <1>2, <1>3, <1>4, <2>1
  <2>3. t[1] = c.rows[j].height /\ t[2] = c.rows[j].width
    BY <1>3, <1>4, <2>1
  <2>4. QED
    BY <2>2, <2>3
<1>10. \A axis : GroupDiscount(c, i, r.tape, r.policy.hard, axis)
                   = GroupDiscount(c, j, r.tape, r.policy.hard, axis)
  BY <1>2 DEF GroupDiscount
<1>11. QED
  BY <1>1, <1>9, <1>10 DEF CutOf, cut_size

\* Of QuotesAgree, LayersAreCutAlike: what assembly_issues lets through comes out of the
\* saw with every layer of an assembly of one size, whatever the settings read.
THEOREM LayersComeOutAlike == QuoteSpec => [](\A c \in Planned : LayersAreCutAlike(c))
<1>1. QuoteInv => \A c \in Planned : LayersAreCutAlike(c)
  <2> SUFFICES ASSUME QuoteInv, NEW c \in Planned PROVE LayersAreCutAlike(c)
    OBVIOUS
  <2>1. seat[c].cart \in DOMAIN Carts
    BY DEF QuoteInv, SeatAgrees, Planned
  <2>2. IsCart(CartOf(c))
    BY <2>1, QuoteAssumption DEF CartOf
  <2>3. QED
    BY <2>2, LayersMatch DEF LayersAreCutAlike
<1>2. QED
  BY <1>1, QuotesSafe, PTL

-----------------------------------------------------------------------------
(* Quote: the sheets of a plan and what becomes of them *)

-----------------------------------------------------------------------------
(* Quote: the bill *)

\* What it costs and measures follows from what it is.
Priced(b, r) ==
    /\ b.on \in {"board", "offcut"} /\ b.half \in BOOLEAN
    /\ b.price \in Nat /\ b.height \in Nat /\ b.width \in Nat
    /\ b.on = "offcut" => ~b.half /\ b.price = 0
    /\ b.on = "board" /\ ~b.half => b.price = r.board.price /\ b.height = Height /\ b.width = Width
    /\ b.half => /\ b.on = "board" /\ b.price = half_board_price(r.board.price, r.policy.markup)
                 /\ \/ b.height = Height /\ 2 * b.width = Width
                    \/ 2 * b.height = Height /\ b.width = Width

\* A sheet of a plan, and the row whose piece it cuts.
IsSheet(s, c, r) ==
    /\ s = [on |-> s.on, half |-> s.half, price |-> s.price, height |-> s.height, width |-> s.width,
            row |-> s.row, turned |-> s.turned, edges |-> s.edges, freed |-> s.freed]
    /\ Priced(s, r)
    /\ s.row \in DOMAIN c.rows /\ c.rows[s.row].on = s.on
    /\ s.turned \in BOOLEAN /\ s.edges = geometric_edges(c.rows[s.row], s.turned)
    /\ s.freed = {}

\* The prices and the measures a request read are numbers.
LEMMA ReadFact ==
    ASSUME NEW r \in Reads
    PROVE  /\ r.board.price \in Nat /\ r.board.price2 \in Nat /\ r.board.price3 \in Nat
           /\ r.policy.markup \in Nat /\ r.policy.tax \in Nat /\ r.policy.trim \in Nat
           /\ r.policy.hard \in Nat /\ r.policy.allowance \in Nat /\ r.policy.waste \in Nat
           /\ r.tape.price \in Nat
<1>1. r.policy \in Policies /\ r.board \in BoardRows /\ r.tape \in TapeRows
  BY DEF Reads
<1>2. QED
  BY <1>1, QuoteAssumption

\* Half a board costs its list price and the markup, in whole units.
LEMMA HalfPriceFact ==
    ASSUME NEW p \in Nat, NEW m \in Nat PROVE half_board_price(p, m) \in Nat
<1>1. PICK n \in Nat : n = p * (100 + m)
  <2>1. 100 + m \in Nat
    OBVIOUS
  <2>2. p * (100 + m) \in Nat
    BY <2>1
  <2>3. QED
    BY <2>2
<1>2. (2 * n + 200) \div 400 \in Nat
  OBVIOUS
<1>3. QED
  BY <1>1, <1>2 DEF half_board_price, Rounded

\* The sheets a pool is cut from are of its material, priced and sized off what was read.
LEMMA BinFact ==
    ASSUME NEW c, IsCart(c), NEW r \in Reads, NEW key \in {"board", "offcut"},
           NEW b \in Bins(c, r, key)
    PROVE  Priced(b, r) /\ b.on = key
<1>1. Height \in Nat /\ Width \in Nat /\ 2 * (Height \div 2) = Height /\ 2 * (Width \div 2) = Width
      /\ Height \div 2 \in Nat /\ Width \div 2 \in Nat
  BY QuoteAssumption
<1>2. r.board.price \in Nat /\ half_board_price(r.board.price, r.policy.markup) \in Nat
  BY ReadFact, HalfPriceFact
<1>3. CASE key = "board" /\ b = [on |-> key, half |-> FALSE, price |-> r.board.price,
                                 height |-> Height, width |-> Width]
  BY <1>1, <1>2, <1>3 DEF Priced
<1>4. CASE key = "board" /\ b \in HalfSpec(r.board, r.policy.markup)
  <2>1. PICK split : split = half_board_split(r.board)
    OBVIOUS
  <2>2. split \in {"none", "short_side", "long_side"}
    BY <2>1 DEF half_board_split
  <2>3. split # "none" /\ b = [on |-> "board", half |-> TRUE,
              price |-> half_board_price(r.board.price, r.policy.markup),
              height |-> IF split = "short_side" THEN Height \div 2 ELSE Height,
              width |-> IF split = "long_side" THEN Width \div 2 ELSE Width]
    BY <1>4, <2>1 DEF HalfSpec
  <2>4. QED
    BY <1>1, <1>2, <1>4, <2>2, <2>3 DEF Priced
<1>5. CASE key = "offcut"
  <2>1. b = [on |-> key, half |-> FALSE, price |-> 0,
             height |-> c.offcut.height, width |-> c.offcut.width]
    BY <1>5 DEF Bins
  <2>2. QED
    BY <1>5, <2>1 DEF Priced, IsCart
<1>6. QED
  BY <1>3, <1>4, <1>5 DEF Bins

\* There is a cheapest among them.
LEMMA CheapestFact ==
    ASSUME NEW c, IsCart(c), NEW r \in Reads, NEW key \in {"board", "offcut"},
           NEW S \in SUBSET Bins(c, r, key), S # {}
    PROVE  Cheapest(S) \in S
<1>1. \A b \in S : b.price \in Nat
  BY BinFact DEF Priced
<1>2. \E x, y : S \subseteq {x, y}
  <2>1. PICK x, y : Bins(c, r, key) \subseteq {x, y}
    <3>1. PICK h : HalfSpec(r.board, r.policy.markup) \subseteq {h}
      BY DEF HalfSpec
    <3>2. QED
      BY <3>1 DEF Bins
  <2>2. QED
    BY <2>1
<1>3. PICK x, y : S \subseteq {x, y}
  BY <1>2
<1>4. \E b \in S : \A other \in S : b.price <= other.price
  BY <1>1, <1>3
<1>5. QED
  BY <1>4 DEF Cheapest

\* The sheet a piece gets is one of its material's.
LEMMA SheetForFact ==
    ASSUME NEW c, IsCart(c), NEW r \in Reads, NEW i \in DOMAIN c.rows, BinsFor(c, r, i) # {}
    PROVE  IsSheet(SheetFor(c, r, i), c, r)
<1>1. PICK key \in {"board", "offcut"} : key = c.rows[i].on
  BY DEF IsCart
<1>2. PICK S : S = BinsFor(c, r, i)
  OBVIOUS
<1>3. S \in SUBSET Bins(c, r, key) /\ S # {}
  BY <1>1, <1>2 DEF BinsFor
<1>4. PICK bin : bin = Cheapest(S)
  OBVIOUS
<1>5. Priced(bin, r) /\ bin.on = key
  BY <1>3, <1>4, CheapestFact, BinFact
<1>6. PICK turned \in BOOLEAN : turned = ~FitsStraight(CutOf(c, r, i), bin, PoolTrim(c, r, key))
  OBVIOUS
<1>7. PICK s : s = SheetFor(c, r, i)
  OBVIOUS
<1>8. s = [on |-> bin.on, half |-> bin.half, price |-> bin.price, height |-> bin.height,
           width |-> bin.width, row |-> i, turned |-> turned,
           edges |-> geometric_edges(c.rows[i], turned), freed |-> {}]
  BY <1>1, <1>2, <1>4, <1>6, <1>7 DEF SheetFor
<1>9. Priced(s, r)
  BY <1>5, <1>8 DEF Priced
<1>10. QED
  BY <1>1, <1>5, <1>7, <1>8, <1>9 DEF IsSheet

\* The whole ones, or the halves, of a plan.
LEMMA SortedFact ==
    ASSUME NEW S, NEW sheets \in Seq(S), NEW half
    PROVE  Sorted(sheets, half) \in Seq(S)
<1>1. PICK P : P = {n \in DOMAIN sheets : sheets[n].half = half}
  OBVIOUS
<1>2. DOMAIN sheets = 1..Len(sheets) /\ Len(sheets) \in Nat
  OBVIOUS
<1>3. IsFiniteSet(P) /\ P \in SUBSET Nat
  <2>1. IsFiniteSet(1..Len(sheets))
    BY FS_Interval, <1>2
  <2>2. QED
    BY <1>1, <1>2, <2>1, FS_Subset
<1>4. PICK at : at = InOrder(P)
  OBVIOUS
<1>5. at \in Seq(P) /\ DOMAIN at = 1..Cardinality(P)
  BY <1>3, <1>4, InOrderFact
<1>6. Cardinality(P) \in Nat
  BY <1>3, FS_CardinalityType
<1>7. \A k \in DOMAIN at : sheets[at[k]] \in S
  <2> SUFFICES ASSUME NEW k \in DOMAIN at PROVE sheets[at[k]] \in S
    OBVIOUS
  <2>1. at[k] \in P
    <3>1. at \in Seq(P)
      BY <1>5
    <3>2. QED
      BY <3>1, ElementOfSeq
  <2>2. QED
    BY <1>1, <2>1
<1>8. PICK f : f = [k \in DOMAIN at |-> sheets[at[k]]]
  OBVIOUS
<1>9. f \in Seq(S)
  <2>1. f \in [1..Cardinality(P) -> S]
    BY <1>5, <1>7, <1>8
  <2>2. QED
    BY <1>6, <2>1
<1>10. QED
  BY <1>1, <1>4, <1>8, <1>9 DEF Sorted

\* A cart names its boards and its offcut, and no more.
LEMMA CartKeysFact ==
    ASSUME NEW c, IsCart(c)
    PROVE  /\ 1 \in DOMAIN c.rows /\ c.rows[1].on \in UsedKeys(c)
           /\ UsedKeys(c) \subseteq {"board", "offcut"}
           /\ \A i \in DOMAIN c.rows : c.rows[i].on \in UsedKeys(c)
<1>1. DOMAIN c.rows = 1..Len(c.rows) /\ Len(c.rows) \in Nat \ {0}
  BY DEF IsCart
<1>2. 1 \in DOMAIN c.rows
  BY <1>1
<1>3. \A i \in DOMAIN c.rows : c.rows[i].on \in {"board", "offcut"}
  BY DEF IsCart
<1>4. QED
  BY <1>2, <1>3 DEF UsedKeys

Sheets(c, r) == {SheetFor(c, r, i) : i \in {j \in DOMAIN c.rows : BinsFor(c, r, j) # {}}}

\* The rows of a pool's pieces are the cart's, and those placed have a bin.
LEMMA PlacedFact ==
    ASSUME NEW c, IsCart(c), NEW r, NEW key, NEW placed,
           placed = InOrder({n \in DOMAIN Instances(c, key) : GetsSheet(c, r, key, n)})
    PROVE  /\ DOMAIN placed = 1..Len(placed) /\ Len(placed) \in Nat
           /\ \A k \in DOMAIN placed :
                 /\ placed[k] \in DOMAIN Instances(c, key) /\ GetsSheet(c, r, key, placed[k])
                 /\ BinsFor(c, r, Instances(c, key)[placed[k]]) # {}
<1>1. PICK N \in Nat : DOMAIN Instances(c, key) = 1..N /\ IsFiniteSet(1..N)
  BY PiecesAreFinite
<1>2. PICK P : P = {n \in DOMAIN Instances(c, key) : GetsSheet(c, r, key, n)}
  OBVIOUS
<1>3. P \in SUBSET Nat /\ IsFiniteSet(P)
  BY <1>1, <1>2, FS_Subset
<1>4. placed \in Seq(P)
  BY <1>2, <1>3, InOrderFact
<1>5. DOMAIN placed = 1..Len(placed) /\ Len(placed) \in Nat
  BY <1>4
<1>9. \A k \in DOMAIN placed : placed[k] \in P
  BY <1>4, ElementOfSeq
<1>6. \A n \in P : n \in DOMAIN Instances(c, key) /\ GetsSheet(c, r, key, n)
  BY <1>2
<1>7. \A n \in P : BinsFor(c, r, Instances(c, key)[n]) # {}
  BY <1>6 DEF GetsSheet
<1>8. QED
  BY <1>5, <1>6, <1>7, <1>9

\* The sheets of a pool are sheets of the cart.
LEMMA PoolSheetsFact ==
    ASSUME NEW c, IsCart(c), NEW r, NEW key
    PROVE  PoolSheets(c, r, key) \in Seq(Sheets(c, r))
<1>1. PICK placed : placed = InOrder({n \in DOMAIN Instances(c, key) : GetsSheet(c, r, key, n)})
  OBVIOUS
<1>2. PICK pieces : pieces = Instances(c, key) /\ \A m \in DOMAIN pieces : pieces[m] \in DOMAIN c.rows
  <2>1. RowsAlike(c, c)
    BY DEF RowsAlike
  <2>2. QED
    BY <2>1, InstancesAlike
<1>3. \A k \in DOMAIN placed :
         pieces[placed[k]] \in DOMAIN c.rows /\ BinsFor(c, r, pieces[placed[k]]) # {}
  BY <1>1, <1>2, PlacedFact
<1>4. PICK sheets : sheets = [k \in DOMAIN placed |-> SheetFor(c, r, pieces[placed[k]])]
  OBVIOUS
<1>5. sheets \in Seq(Sheets(c, r))
  <2>1. \A k \in DOMAIN placed : SheetFor(c, r, pieces[placed[k]]) \in Sheets(c, r)
    BY <1>3 DEF Sheets
  <2>2. DOMAIN placed = 1..Len(placed) /\ Len(placed) \in Nat
    BY <1>1, PlacedFact
  <2>3. sheets \in [1..Len(placed) -> Sheets(c, r)]
    BY <1>4, <2>1, <2>2
  <2>4. QED
    BY <2>2, <2>3
<1>6. PoolSheets(c, r, key) = order_sheets(sheets)
  BY <1>1, <1>2, <1>4 DEF PoolSheets
<1>7. QED
  BY <1>5, <1>6, SortedFact, ConcatProperties DEF order_sheets

\* And so are those of the plan.
LEMMA AllSheetsFact ==
    ASSUME NEW c, IsCart(c), NEW r \in Reads
    PROVE  /\ AllSheets(c, r) \in Seq(Sheets(c, r))
           /\ \A n \in DOMAIN AllSheets(c, r) : IsSheet(AllSheets(c, r)[n], c, r)
<1>1. AllSheets(c, r) \in Seq(Sheets(c, r))
  BY PoolSheetsFact, ConcatProperties, EmptySeq DEF AllSheets
<1>2. \A s \in Sheets(c, r) : IsSheet(s, c, r)
  BY SheetForFact DEF Sheets
<1>3. QED
  BY <1>1, <1>2

\* Prices over a plan of numbered sheets, added up.
Costed(sheets) ==
    /\ \E N \in Nat : DOMAIN sheets = 1..N
    /\ \A n \in DOMAIN sheets : sheets[n].price \in Int

\* What everything laid over a plan leaves of it, and what it keeps up.
IsBill(p) ==
    /\ {"sheets", "materials", "boardsCost", "tapeCost", "tapeLength", "summary", "groups"}
          \subseteq DOMAIN p
    /\ Costed(p.sheets)
    /\ p.boardsCost = CostOf(p.sheets)
    /\ p.summary = build_materials_summary(p.sheets) /\ p.groups = group_layouts(p.sheets)

\* The bill of a plan with other sheets is kept up by differences.
LEMMA ResoldFact ==
    ASSUME NEW p, IsBill(p), NEW sheets, DOMAIN sheets = DOMAIN p.sheets, Costed(sheets)
    PROVE  /\ IsBill(Resold(p, sheets)) /\ Resold(p, sheets).sheets = sheets
           /\ Resold(p, sheets).materials = p.materials
           /\ Resold(p, sheets).tapeCost = p.tapeCost
           /\ Resold(p, sheets).tapeLength = p.tapeLength
           /\ DOMAIN Resold(p, sheets) = DOMAIN p
<1>1. PICK N \in Nat : DOMAIN sheets = 1..N /\ DOMAIN p.sheets = 1..N
  BY DEF Costed
<1>2. IsFiniteSet(1..N)
  BY <1>1, FS_Interval
<1>3. PICK old : old = [n \in 1..N |-> p.sheets[n].price]
  OBVIOUS
<1>4. PICK new : new = [n \in 1..N |-> sheets[n].price]
  OBVIOUS
<1>5. PICK more : more = [n \in 1..N |-> sheets[n].price - p.sheets[n].price]
  OBVIOUS
<1>6. \A n \in 1..N : old[n] \in Int /\ more[n] \in Int /\ new[n] = old[n] + more[n]
  BY <1>1, <1>3, <1>4, <1>5 DEF IsBill, Costed
<1>7. Total(new, 1..N) = Total(old, 1..N) + Total(more, 1..N)
  BY <1>2, <1>6, TotalOfSum
<1>8. CostOf(sheets) = Total(new, 1..N) /\ CostOf(p.sheets) = Total(old, 1..N)
  BY <1>1, <1>3, <1>4 DEF CostOf
<1>9. PICK cost : cost = p.boardsCost + Total(more, 1..N)
  OBVIOUS
<1>10. cost = CostOf(sheets)
  BY <1>7, <1>8, <1>9 DEF IsBill
<1>11. PICK lines, drawn : lines = build_materials_summary(sheets) /\ drawn = group_layouts(sheets)
  OBVIOUS
<1>12. PICK q : q = Resold(p, sheets)
  OBVIOUS
<1>13. q = [p EXCEPT !.sheets = sheets, !.boardsCost = cost, !.summary = lines, !.groups = drawn]
  BY <1>1, <1>5, <1>9, <1>11, <1>12 DEF Resold
<1>14. /\ q.sheets = sheets /\ q.boardsCost = cost /\ q.summary = lines /\ q.groups = drawn
       /\ q.materials = p.materials /\ q.tapeCost = p.tapeCost /\ q.tapeLength = p.tapeLength
       /\ DOMAIN q = DOMAIN p
  BY <1>13 DEF IsBill
<1>15. IsBill(q)
  BY <1>10, <1>11, <1>14 DEF IsBill
<1>16. QED
  BY <1>12, <1>14, <1>15

\* What a whole board is sold at, and what a sheet is sold as.
UnitPrice(c, r) == IF c.leveled THEN price_at_level(r.board, c.level) ELSE r.board.price
Full(c, r) == [price |-> UnitPrice(c, r), height |-> Height, width |-> Width]
Repriced(s, c, r) == IF Leveled(s) THEN [s EXCEPT !.price = UnitPrice(c, r)] ELSE s
SoldAs(s, c, r) ==
    IF c.whole /\ s.on = "board" THEN Promote(Repriced(s, c, r), Full(c, r)) ELSE Repriced(s, c, r)

\* The price at a level is a number.
LEMMA UnitPriceFact ==
    ASSUME NEW c, IsCart(c), NEW r \in Reads
    PROVE  UnitPrice(c, r) \in Nat
BY ReadFact DEF UnitPrice, price_at_level

\* A sheet at the price of its level keeps everything else.
LEMMA RepricedFact ==
    ASSUME NEW c, IsCart(c), NEW r \in Reads, NEW d, NEW s, IsSheet(s, d, r), NEW t,
           t = Repriced(s, c, r)
    PROVE  /\ t = [on |-> s.on, half |-> s.half, price |-> t.price, height |-> s.height,
                   width |-> s.width, row |-> s.row, turned |-> s.turned, edges |-> s.edges,
                   freed |-> {}]
           /\ t.price = IF s.on = "board" /\ ~s.half THEN UnitPrice(c, r) ELSE s.price
<1>1. PICK u : u = UnitPrice(c, r)
  OBVIOUS
<1>2. CASE Leveled(s)
  BY <1>1, <1>2 DEF Repriced, IsSheet, Leveled
<1>3. CASE ~Leveled(s)
  BY <1>3 DEF Repriced, IsSheet, Leveled
<1>4. QED
  BY <1>2, <1>3

\* What becomes of a sheet through the level and the boards taken whole.
LEMMA SoldFact ==
    ASSUME NEW c, IsCart(c), NEW r \in Reads, NEW d, NEW s, IsSheet(s, d, r), NEW t,
           t = SoldAs(s, c, r)
    PROVE  /\ t = [on |-> s.on, half |-> t.half, price |-> t.price, height |-> t.height,
                   width |-> t.width, row |-> s.row, turned |-> s.turned, edges |-> s.edges,
                   freed |-> t.freed]
           /\ t.half = (s.half /\ ~c.whole)
           /\ t.price = IF t.on = "board" /\ ~t.half THEN UnitPrice(c, r) ELSE s.price
           /\ t.on = "board" /\ ~t.half => t.height = Height /\ t.width = Width
           /\ t.half \/ t.on = "offcut" => t.height = s.height /\ t.width = s.width
           /\ ~(s.half /\ c.whole) => t.freed = {}
           /\ s.half /\ c.whole => \/ /\ s.height = Height /\ 2 * s.width = Width
                                      /\ t.freed = {<<Height, Width - s.width>>}
                                   \/ /\ 2 * s.height = Height /\ s.width = Width
                                      /\ t.freed = {<<Height - s.height, Width>>}
<1>1. PICK q : q = Repriced(s, c, r)
  OBVIOUS
<1>2. /\ q = [on |-> s.on, half |-> s.half, price |-> q.price, height |-> s.height,
              width |-> s.width, row |-> s.row, turned |-> s.turned, edges |-> s.edges,
              freed |-> {}]
      /\ q.price = IF s.on = "board" /\ ~s.half THEN UnitPrice(c, r) ELSE s.price
  BY <1>1, RepricedFact
<1>11. q.freed = {} /\ q.height = s.height /\ q.width = s.width
  BY <1>2
<1>3. Priced(s, r) /\ s.half \in BOOLEAN /\ (s.half => s.on = "board") /\ s.on \in {"board", "offcut"}
  BY DEF IsSheet, Priced
<1>4. PICK full : full = Full(c, r)
  OBVIOUS
<1>5. full.price = UnitPrice(c, r) /\ full.height = Height /\ full.width = Width
  BY <1>4 DEF Full
<1>6. Height \in Nat \ {0} /\ Width \in Nat \ {0}
  BY QuoteAssumption
<1>7. c.whole \in BOOLEAN
  BY DEF IsCart
<1>8. CASE ~(s.half /\ c.whole)
  <2>1. t = q
    BY <1>1, <1>2, <1>4, <1>8 DEF SoldAs, Promote
  <2>2. QED
    BY <1>2, <1>3, <1>7, <1>8, <2>1 DEF Priced
<1>9. CASE s.half /\ c.whole
  <2>1. t = Promote(q, full)
    BY <1>1, <1>3, <1>4, <1>9 DEF SoldAs
  <2>2. CASE s.height = Height /\ 2 * s.width = Width
    <3>1. q.width < full.width /\ q.height = full.height /\ q.half
      BY <1>2, <1>3, <1>5, <1>6, <1>9, <2>2 DEF Priced
    <3>2. t = [q EXCEPT !.half = FALSE, !.price = full.price, !.height = full.height,
                        !.width = full.width,
                        !.freed = q.freed \cup {<<full.height, full.width - q.width>>}]
      BY <2>1, <3>1 DEF Promote
    <3>3. PICK left : left = {<<Height, Width - s.width>>}
      OBVIOUS
    <3>4. q.freed \cup {<<full.height, full.width - q.width>>} = left
      BY <1>5, <1>11, <3>3
    <3>5. t = [on |-> s.on, half |-> FALSE, price |-> UnitPrice(c, r), height |-> Height,
               width |-> Width, row |-> s.row, turned |-> s.turned, edges |-> s.edges,
               freed |-> left]
      <4>1. t = [q EXCEPT !.half = FALSE, !.price = UnitPrice(c, r), !.height = Height,
                          !.width = Width, !.freed = left]
        BY <1>5, <3>2, <3>4
      <4>2. PICK price : price = UnitPrice(c, r)
        OBVIOUS
      <4>3. PICK old : q = [on |-> s.on, half |-> s.half, price |-> old, height |-> s.height,
                width |-> s.width, row |-> s.row, turned |-> s.turned, edges |-> s.edges,
                freed |-> {}]
        BY <1>2
      <4>4. t = [on |-> s.on, half |-> FALSE, price |-> price, height |-> Height,
                width |-> Width, row |-> s.row, turned |-> s.turned, edges |-> s.edges,
                freed |-> left]
        BY <4>1, <4>2, <4>3
      <4>5. QED
        BY <4>2, <4>4
    <3>6. /\ t.on = s.on /\ t.half = FALSE /\ t.price = UnitPrice(c, r) /\ t.height = Height
          /\ t.width = Width /\ t.freed = left
      BY <3>5
    <3>7. t = [on |-> s.on, half |-> t.half, price |-> t.price, height |-> t.height,
               width |-> t.width, row |-> s.row, turned |-> s.turned, edges |-> s.edges,
               freed |-> t.freed]
      BY <3>5, <3>6
    <3>8. s.on = "board" /\ s.half = TRUE /\ c.whole = TRUE
      BY <1>3, <1>7, <1>9
    <3>9. QED
      BY <2>2, <3>3, <3>6, <3>7, <3>8
  <2>3. CASE 2 * s.height = Height /\ s.width = Width
    <3>1. q.height < full.height /\ q.width = full.width /\ q.half /\ ~(q.width < full.width)
      BY <1>2, <1>3, <1>5, <1>6, <1>9, <2>3 DEF Priced
    <3>2. t = [q EXCEPT !.half = FALSE, !.price = full.price, !.height = full.height,
                        !.width = full.width,
                        !.freed = q.freed \cup {<<full.height - q.height, full.width>>}]
      BY <2>1, <3>1 DEF Promote
    <3>3. PICK left : left = {<<Height - s.height, Width>>}
      OBVIOUS
    <3>4. q.freed \cup {<<full.height - q.height, full.width>>} = left
      BY <1>5, <1>11, <3>3
    <3>5. t = [on |-> s.on, half |-> FALSE, price |-> UnitPrice(c, r), height |-> Height,
               width |-> Width, row |-> s.row, turned |-> s.turned, edges |-> s.edges,
               freed |-> left]
      <4>1. t = [q EXCEPT !.half = FALSE, !.price = UnitPrice(c, r), !.height = Height,
                          !.width = Width, !.freed = left]
        BY <1>5, <3>2, <3>4
      <4>2. PICK price : price = UnitPrice(c, r)
        OBVIOUS
      <4>3. PICK old : q = [on |-> s.on, half |-> s.half, price |-> old, height |-> s.height,
                width |-> s.width, row |-> s.row, turned |-> s.turned, edges |-> s.edges,
                freed |-> {}]
        BY <1>2
      <4>4. t = [on |-> s.on, half |-> FALSE, price |-> price, height |-> Height,
                width |-> Width, row |-> s.row, turned |-> s.turned, edges |-> s.edges,
                freed |-> left]
        BY <4>1, <4>2, <4>3
      <4>5. QED
        BY <4>2, <4>4
    <3>6. /\ t.on = s.on /\ t.half = FALSE /\ t.price = UnitPrice(c, r) /\ t.height = Height
          /\ t.width = Width /\ t.freed = left
      BY <3>5
    <3>7. t = [on |-> s.on, half |-> t.half, price |-> t.price, height |-> t.height,
               width |-> t.width, row |-> s.row, turned |-> s.turned, edges |-> s.edges,
               freed |-> t.freed]
      BY <3>5, <3>6
    <3>8. s.on = "board" /\ s.half = TRUE /\ c.whole = TRUE
      BY <1>3, <1>7, <1>9
    <3>9. QED
      BY <2>3, <3>3, <3>6, <3>7, <3>8
  <2>4. QED
    BY <1>3, <1>9, <2>2, <2>3 DEF Priced
<1>10. QED
  BY <1>8, <1>9

\* A plan of a cart and what was read for it.
IsPlan(p, c, r) ==
    /\ IsBill(p)
    /\ "unplaced" \in DOMAIN p
    /\ p.sheets = AllSheets(c, r) /\ p.unplaced = group_unplaced(c, r)
    /\ p.tapeLength = BilledTape(c, r) /\ p.tapeCost = BilledTape(c, r) * r.tape.price
    /\ \A n \in DOMAIN p.sheets : IsSheet(p.sheets[n], c, r)
    /\ "board" \in UsedKeys(c) =>
          /\ "board" \in DOMAIN p.materials /\ "price" \in DOMAIN p.materials["board"]
          /\ p.materials["board"].price = r.board.price
          /\ p.materials["board"].height = Height /\ p.materials["board"].width = Width

\* The whole sheet of the board's bins is the board.
LEMMA WholeFact ==
    ASSUME NEW c, NEW r
    PROVE  WholeSheet(Bins(c, r, "board")) =
              [on |-> "board", half |-> FALSE, price |-> r.board.price,
               height |-> Height, width |-> Width]
<1>1. PICK H : H = HalfSpec(r.board, r.policy.markup)
  OBVIOUS
<1>2. \A h \in H : h.half
  BY <1>1 DEF HalfSpec
<1>3. PICK w : w = [on |-> "board", half |-> FALSE, price |-> r.board.price,
                    height |-> Height, width |-> Width]
  OBVIOUS
<1>4. Bins(c, r, "board") = {w} \cup H /\ w.half = FALSE
  BY <1>1, <1>3 DEF Bins
<1>5. \A b \in {w} \cup H : ~b.half <=> b = w
  BY <1>2, <1>4
<1>6. QED
  BY <1>3, <1>4, <1>5 DEF WholeSheet

\* What a name does not touch.
LEMMA UnnamedFact ==
    ASSUME NEW p, NEW q, Unnamed(p) = Unnamed(q), "materials" \in DOMAIN q
    PROVE  /\ DOMAIN p = DOMAIN q
           /\ \A x \in DOMAIN q : x # "materials" => p[x] = q[x]
           /\ [k \in DOMAIN p.materials |-> [p.materials[k] EXCEPT !.name = NotWritten]]
                = [k \in DOMAIN q.materials |-> [q.materials[k] EXCEPT !.name = NotWritten]]
<1>1. PICK M : M = [k \in DOMAIN p.materials |-> [p.materials[k] EXCEPT !.name = NotWritten]]
  OBVIOUS
<1>2. PICK N : N = [k \in DOMAIN q.materials |-> [q.materials[k] EXCEPT !.name = NotWritten]]
  OBVIOUS
<1>3. [p EXCEPT !.materials = M] = [q EXCEPT !.materials = N]
  BY <1>1, <1>2 DEF Unnamed
<1>4. DOMAIN p = DOMAIN q
  BY <1>3
<1>5. ASSUME NEW x \in DOMAIN q, x # "materials" PROVE p[x] = q[x]
  <2>1. PICK a : a = [p EXCEPT !.materials = M] /\ a = [q EXCEPT !.materials = N]
    BY <1>3
  <2>2. a[x] = p[x] /\ a[x] = q[x]
    BY <1>4, <1>5, <2>1
  <2>3. QED
    BY <2>2
<1>6. M = N
  BY <1>3, <1>4
<1>7. QED
  BY <1>1, <1>2, <1>4, <1>5, <1>6

\* The plan of a request, off the cache or off the search, is the one of what it read.
LEMMA PlanFact ==
    ASSUME NEW c, IsCart(c), NEW r \in Reads, NEW p, Unnamed(p) = Unnamed(Payload(c, r))
    PROVE  IsPlan(p, c, r)
<1>1. PICK q : q = Payload(c, r)
  OBVIOUS
<1>2. PICK sheets : sheets = AllSheets(c, r)
  OBVIOUS
<1>3. PICK M : M = [key \in UsedKeys(c) |-> ResolvedMaterial(c, r, key)]
  OBVIOUS
<1>4. q = [sheets |-> sheets, unplaced |-> group_unplaced(c, r), materials |-> M,
           boards |-> BoardsUsed(sheets), boardsCost |-> CostOf(sheets),
           tapeLength |-> BilledTape(c, r), tapeCost |-> BilledTape(c, r) * r.tape.price,
           cutRules |-> rules_in_play(c, r), summary |-> build_materials_summary(sheets),
           groups |-> group_layouts(sheets)]
  BY <1>1, <1>2, <1>3 DEF Payload
<1>5. PICK left, length, cost, boardsCost, lines, drawn, boards, rules :
         /\ left = group_unplaced(c, r) /\ length = BilledTape(c, r)
         /\ cost = BilledTape(c, r) * r.tape.price /\ boardsCost = CostOf(sheets)
         /\ lines = build_materials_summary(sheets) /\ drawn = group_layouts(sheets)
         /\ boards = BoardsUsed(sheets) /\ rules = rules_in_play(c, r)
  OBVIOUS
<1>6. q = [sheets |-> sheets, unplaced |-> left, materials |-> M, boards |-> boards,
           boardsCost |-> boardsCost, tapeLength |-> length, tapeCost |-> cost,
           cutRules |-> rules, summary |-> lines, groups |-> drawn]
  BY <1>4, <1>5
<1>7. "materials" \in DOMAIN q /\ Unnamed(p) = Unnamed(q)
  BY <1>1, <1>6
<1>8. /\ DOMAIN p = DOMAIN q
      /\ \A x \in DOMAIN q : x # "materials" => p[x] = q[x]
      /\ [k \in DOMAIN p.materials |-> [p.materials[k] EXCEPT !.name = NotWritten]]
           = [k \in DOMAIN q.materials |-> [q.materials[k] EXCEPT !.name = NotWritten]]
  BY <1>7, UnnamedFact
<1>9. /\ {"sheets", "materials", "boardsCost", "tapeCost", "tapeLength", "summary", "groups"}
            \subseteq DOMAIN p
      /\ "unplaced" \in DOMAIN p
  BY <1>6, <1>8
<1>10. /\ p.sheets = sheets /\ p.unplaced = left /\ p.boardsCost = boardsCost
       /\ p.tapeLength = length /\ p.tapeCost = cost /\ p.summary = lines /\ p.groups = drawn
  BY <1>6, <1>8
<1>11. sheets \in Seq(Sheets(c, r)) /\ \A n \in DOMAIN sheets : IsSheet(sheets[n], c, r)
  BY <1>2, AllSheetsFact
<1>12. Costed(sheets)
  <2>1. DOMAIN sheets = 1..Len(sheets) /\ Len(sheets) \in Nat
    BY <1>11
  <2>2. \A n \in DOMAIN sheets : sheets[n].price \in Int
    BY <1>11 DEF IsSheet, Priced
  <2>3. QED
    BY <2>1, <2>2 DEF Costed
<1>13. ASSUME "board" \in UsedKeys(c)
       PROVE  /\ "board" \in DOMAIN p.materials /\ "price" \in DOMAIN p.materials["board"]
              /\ p.materials["board"].price = r.board.price
              /\ p.materials["board"].height = Height /\ p.materials["board"].width = Width
  <2>1. PICK m : m = M["board"]
    OBVIOUS
  <2>2. PICK name : m = [price |-> r.board.price, height |-> Height, width |-> Width, name |-> name]
    <3>1. m = ResolvedMaterial(c, r, "board")
      BY <1>3, <1>13, <2>1
    <3>2. PICK whole : /\ whole = WholeSheet(Bins(c, r, "board"))
                       /\ whole = [on |-> "board", half |-> FALSE, price |-> r.board.price,
                                   height |-> Height, width |-> Width]
      BY WholeFact
    <3>3. whole.price = r.board.price /\ whole.height = Height /\ whole.width = Width
      BY <3>2
    <3>4. PICK name : m = [price |-> whole.price, height |-> whole.height,
                           width |-> whole.width, name |-> name]
      BY <3>1, <3>2 DEF ResolvedMaterial
    <3>5. QED
      BY <3>3, <3>4
  <2>3. q.materials = M /\ DOMAIN M = UsedKeys(c)
    BY <1>3, <1>6
  <2>4. PICK A, B : /\ A = [k \in DOMAIN p.materials |-> [p.materials[k] EXCEPT !.name = NotWritten]]
                    /\ B = [k \in DOMAIN M |-> [M[k] EXCEPT !.name = NotWritten]]
    OBVIOUS
  <2>5. A = B
    BY <1>8, <2>3, <2>4
  <2>6. DOMAIN p.materials = DOMAIN M
    BY <2>4, <2>5
  <2>7. "board" \in DOMAIN p.materials
    BY <1>13, <2>3, <2>6
  <2>8. [p.materials["board"] EXCEPT !.name = NotWritten] = [m EXCEPT !.name = NotWritten]
    BY <1>13, <2>1, <2>3, <2>4, <2>5, <2>7
  <2>9. PICK w : w = p.materials["board"]
    OBVIOUS
  <2>10. PICK z : z = [w EXCEPT !.name = NotWritten] /\ z = [m EXCEPT !.name = NotWritten]
    BY <2>8, <2>9
  <2>11. DOMAIN w = {"price", "height", "width", "name"}
    BY <2>2, <2>10
  <2>12. /\ z.price = w.price /\ z.height = w.height /\ z.width = w.width
         /\ z.price = r.board.price /\ z.height = Height /\ z.width = Width
    BY <2>2, <2>10, <2>11
  <2>13. QED
    BY <2>7, <2>9, <2>11, <2>12
<1>14. IsBill(p)
  BY <1>5, <1>9, <1>10, <1>12 DEF IsBill
<1>15. QED
  BY <1>2, <1>5, <1>9, <1>10, <1>11, <1>13, <1>14 DEF IsPlan

\* A sheet sold for what it costs in the plan is the plan's.
LEMMA SameSheet ==
    ASSUME NEW s, NEW d, NEW r, IsSheet(s, d, r), NEW c,
           Leveled(s) => s.price = UnitPrice(c, r)
    PROVE  Repriced(s, c, r) = s
<1>1. CASE Leveled(s)
  <2>1. PICK u : u = UnitPrice(c, r) /\ u = s.price
    BY <1>1
  <2>2. Repriced(s, c, r) = [s EXCEPT !.price = u]
    BY <1>1, <2>1 DEF Repriced
  <2>3. s = [on |-> s.on, half |-> s.half, price |-> u, height |-> s.height, width |-> s.width,
             row |-> s.row, turned |-> s.turned, edges |-> s.edges, freed |-> s.freed]
    BY <2>1 DEF IsSheet
  <2>4. QED
    BY <2>2, <2>3
<1>2. CASE ~Leveled(s)
  BY <1>2 DEF Repriced
<1>3. QED
  BY <1>1, <1>2

\* Sheets whose prices are numbers.
LEMMA SheetsCost ==
    ASSUME NEW c, IsCart(c), NEW r \in Reads, NEW d, NEW p, IsPlan(p, d, r),
           NEW sheets, DOMAIN sheets = DOMAIN p.sheets,
           \A n \in DOMAIN p.sheets : \/ sheets[n] = Repriced(p.sheets[n], c, r)
                                      \/ sheets[n] = SoldAs(p.sheets[n], c, r)
    PROVE  Costed(sheets)
<1>1. \E N \in Nat : DOMAIN sheets = 1..N
  BY DEF IsPlan, IsBill, Costed
<1>2. ASSUME NEW n \in DOMAIN sheets PROVE sheets[n].price \in Int
  <2>1. IsSheet(p.sheets[n], d, r)
    BY <1>2 DEF IsPlan
  <2>2. p.sheets[n].price \in Int /\ UnitPrice(c, r) \in Int
    BY <2>1, UnitPriceFact DEF IsSheet, Priced
  <2>3. CASE sheets[n] = Repriced(p.sheets[n], c, r)
    BY <2>1, <2>2, <2>3, RepricedFact
  <2>4. CASE sheets[n] = SoldAs(p.sheets[n], c, r)
    BY <2>1, <2>2, <2>4, SoldFact
  <2>5. QED
    BY <1>2, <2>3, <2>4
<1>3. QED
  BY <1>1, <1>2 DEF Costed

\* The price level moves the whole boards to one price, and the bill with them.
LEMMA LeveledFact ==
    ASSUME NEW c, IsCart(c), NEW r \in Reads, NEW d, IsCart(d), UsedKeys(c) = UsedKeys(d),
           NEW p, IsPlan(p, d, r)
    PROVE  LET a == apply_price_level(p, c, r)
           IN /\ IsBill(a) /\ a.tapeCost = p.tapeCost /\ a.tapeLength = p.tapeLength
              /\ a.sheets = [n \in DOMAIN p.sheets |-> Repriced(p.sheets[n], c, r)]
              /\ "board" \in UsedKeys(c) =>
                    /\ a.materials["board"].price = UnitPrice(c, r)
                    /\ a.materials["board"].height = Height /\ a.materials["board"].width = Width
<1>1. PICK a : a = apply_price_level(p, c, r)
  OBVIOUS
<1>2. PICK unit : unit = price_at_level(r.board, c.level)
  OBVIOUS
<1>3. \A n \in DOMAIN p.sheets : IsSheet(p.sheets[n], d, r)
  BY DEF IsPlan
<1> DEFINE ok == c.leveled /\ "board" \in UsedKeys(c) /\ unit # p.materials["board"].price
<1>5. CASE ~ok
  <2>1. a = p
    BY <1>1, <1>2, <1>5 DEF apply_price_level
  <2>2. "board" \in UsedKeys(c) => UnitPrice(c, r) = r.board.price
    BY <1>2, <1>5 DEF UnitPrice, IsPlan
  <2>3. ASSUME NEW n \in DOMAIN p.sheets PROVE Repriced(p.sheets[n], c, r) = p.sheets[n]
    <3>1. IsSheet(p.sheets[n], d, r)
      BY <1>3
    <3>2. p.sheets[n].on \in UsedKeys(d)
      BY <3>1 DEF IsSheet, UsedKeys
    <3>3. Leveled(p.sheets[n]) => p.sheets[n].price = UnitPrice(c, r)
      BY <2>2, <3>1, <3>2 DEF Leveled, IsSheet, Priced
    <3>4. QED
      BY <3>1, <3>3, SameSheet
  <2>4. p.sheets = [n \in DOMAIN p.sheets |-> p.sheets[n]]
    <3>1. p.sheets \in Seq(Sheets(d, r))
      BY AllSheetsFact DEF IsPlan
    <3>2. QED
      BY <3>1
  <2>5. [n \in DOMAIN p.sheets |-> Repriced(p.sheets[n], c, r)] = [n \in DOMAIN p.sheets |-> p.sheets[n]]
    BY <2>3
  <2>6. QED
    BY <1>1, <2>1, <2>2, <2>4, <2>5 DEF IsPlan
<1>6. CASE ok
  <2>1. PICK sheets : sheets = [n \in DOMAIN p.sheets |-> IF Leveled(p.sheets[n])
                                    THEN [p.sheets[n] EXCEPT !.price = unit] ELSE p.sheets[n]]
    OBVIOUS
  <2>2. UnitPrice(c, r) = unit
    BY <1>2, <1>6 DEF UnitPrice
  <2>3. sheets = [n \in DOMAIN p.sheets |-> Repriced(p.sheets[n], c, r)]
    BY <2>1, <2>2 DEF Repriced
  <2>4. Costed(sheets)
    BY <2>3, SheetsCost
  <2>5. PICK b : b = Resold(p, sheets)
    OBVIOUS
  <2>6. /\ IsBill(b) /\ b.sheets = sheets /\ b.materials = p.materials
        /\ b.tapeCost = p.tapeCost /\ b.tapeLength = p.tapeLength
    BY <2>3, <2>4, <2>5, ResoldFact DEF IsPlan
  <2>7. a = [b EXCEPT !.materials["board"].price = unit]
    BY <1>1, <1>2, <1>6, <2>1, <2>5 DEF apply_price_level
  <2>8. PICK M : M = [b.materials EXCEPT !["board"].price = unit]
    OBVIOUS
  <2>9. a = [b EXCEPT !.materials = M]
    BY <2>7, <2>8
  <2>10. /\ DOMAIN a = DOMAIN b /\ a.sheets = b.sheets /\ a.boardsCost = b.boardsCost
         /\ a.summary = b.summary /\ a.groups = b.groups /\ a.tapeCost = b.tapeCost
         /\ a.tapeLength = b.tapeLength /\ a.materials = M
    BY <2>6, <2>9 DEF IsBill
  <2>11. IsBill(a)
    BY <2>6, <2>10 DEF IsBill
  <2>12. "board" \in DOMAIN p.materials /\ "price" \in DOMAIN p.materials["board"]
         /\ p.materials["board"].height = Height /\ p.materials["board"].width = Width
    BY <1>6 DEF IsPlan
  <2>13. M["board"].price = unit /\ M["board"].height = Height /\ M["board"].width = Width
    BY <2>6, <2>8, <2>12
  <2>14. QED
    BY <1>1, <2>2, <2>3, <2>6, <2>10, <2>11, <2>13
<1>7. QED
  BY <1>5, <1>6

\* What whole boards are promoted to is all that Promote reads of the board.
LEMMA PromoteFact ==
    ASSUME NEW s, NEW m, NEW full, m.price = full.price, m.height = full.height, m.width = full.width
    PROVE  Promote(s, m) = Promote(s, full)
BY DEF Promote

\* What an answer is billed at: each sheet as it is sold, the bill their sum.
LEMMA FinishedFact ==
    ASSUME NEW c, IsCart(c), NEW r \in Reads, NEW d, IsCart(d), UsedKeys(c) = UsedKeys(d),
           NEW p, IsPlan(p, d, r), NEW f, f = Finished(p, c, r)
    PROVE  /\ IsBill(f) /\ f.tapeCost = p.tapeCost /\ f.tapeLength = p.tapeLength
           /\ f.sheets = [n \in DOMAIN p.sheets |-> SoldAs(p.sheets[n], c, r)]
<1>1. PICK a : a = apply_price_level(p, c, r)
  OBVIOUS
<1>2. /\ IsBill(a) /\ a.tapeCost = p.tapeCost /\ a.tapeLength = p.tapeLength
      /\ a.sheets = [n \in DOMAIN p.sheets |-> Repriced(p.sheets[n], c, r)]
      /\ "board" \in UsedKeys(c) =>
            /\ a.materials["board"].price = UnitPrice(c, r)
            /\ a.materials["board"].height = Height /\ a.materials["board"].width = Width
  BY <1>1, LeveledFact
<1>3. f = apply_whole_boards(a, c)
  BY <1>1 DEF Finished
<1>4. PICK sheets : sheets = [n \in DOMAIN a.sheets |->
                                IF a.sheets[n].on = "board"
                                THEN Promote(a.sheets[n], a.materials["board"])
                                ELSE a.sheets[n]]
  OBVIOUS
<1>5. ASSUME NEW n \in DOMAIN p.sheets
      PROVE  /\ a.sheets[n] = Repriced(p.sheets[n], c, r) /\ a.sheets[n].on = p.sheets[n].on
             /\ p.sheets[n].on \in UsedKeys(c)
  <2>1. IsSheet(p.sheets[n], d, r)
    BY DEF IsPlan
  <2>2. a.sheets[n] = Repriced(p.sheets[n], c, r)
    BY <1>2
  <2>3. PICK q : q = a.sheets[n]
    OBVIOUS
  <2>4. q = Repriced(p.sheets[n], c, r)
    BY <2>2, <2>3
  <2>5. PICK s : s = p.sheets[n] /\ IsSheet(s, d, r)
    BY <2>1
  <2>6. q = [on |-> s.on, half |-> s.half, price |-> q.price, height |-> s.height,
             width |-> s.width, row |-> s.row, turned |-> s.turned, edges |-> s.edges,
             freed |-> {}]
    BY <2>4, <2>5, RepricedFact
  <2>7. q.on = s.on
    BY <2>6
  <2>8. s.on \in UsedKeys(d)
    BY <2>5 DEF IsSheet, UsedKeys
  <2>9. QED
    BY <2>2, <2>3, <2>5, <2>7, <2>8
<1>6. CASE c.whole
  <2>1. ASSUME NEW n \in DOMAIN p.sheets PROVE sheets[n] = SoldAs(p.sheets[n], c, r)
    <3>1. PICK q : q = Repriced(p.sheets[n], c, r)
      OBVIOUS
    <3>2. n \in DOMAIN a.sheets /\ a.sheets[n] = q /\ q.on = p.sheets[n].on
      BY <1>2, <1>5, <3>1
    <3>3. CASE p.sheets[n].on = "board"
      <4>1. sheets[n] = Promote(q, a.materials["board"])
        BY <1>4, <3>2, <3>3
      <4>2. PICK full : full = Full(c, r)
        OBVIOUS
      <4>3. full.price = UnitPrice(c, r) /\ full.height = Height /\ full.width = Width
        BY <4>2 DEF Full
      <4>4. "board" \in UsedKeys(c)
        BY <1>5, <3>3
      <4>5. Promote(q, a.materials["board"]) = Promote(q, full)
        BY <1>2, <4>3, <4>4, PromoteFact
      <4>6. QED
        BY <1>6, <3>1, <3>3, <4>1, <4>2, <4>5 DEF SoldAs
    <3>4. CASE p.sheets[n].on # "board"
      BY <1>4, <3>1, <3>2, <3>4 DEF SoldAs
    <3>5. QED
      BY <3>3, <3>4
  <2>2. DOMAIN sheets = DOMAIN p.sheets /\ DOMAIN a.sheets = DOMAIN p.sheets
    BY <1>2, <1>4
  <2>3. sheets = [n \in DOMAIN p.sheets |-> SoldAs(p.sheets[n], c, r)]
    BY <1>4, <2>1, <2>2
  <2>4. Costed(sheets)
    BY <2>1, <2>2, SheetsCost
  <2>5. CASE sheets # a.sheets
    <3>1. f = Resold(a, sheets)
      BY <1>3, <1>4, <1>6, <2>5 DEF apply_whole_boards
    <3>2. PICK b : b = Resold(a, sheets)
      OBVIOUS
    <3>3. IsBill(b) /\ b.sheets = sheets /\ b.tapeCost = a.tapeCost /\ b.tapeLength = a.tapeLength
      BY <1>2, <2>2, <2>4, <3>2, ResoldFact
    <3>4. QED
      BY <1>2, <1>3, <2>3, <3>1, <3>2, <3>3
  <2>6. CASE sheets = a.sheets
    <3>1. f = a
      BY <1>3, <1>4, <2>6 DEF apply_whole_boards
    <3>2. QED
      BY <1>2, <1>3, <2>3, <2>6, <3>1
  <2>7. QED
    BY <2>5, <2>6
<1>7. CASE ~c.whole
  <2>1. f = a
    BY <1>3, <1>7 DEF apply_whole_boards
  <2>2. \A n \in DOMAIN p.sheets : SoldAs(p.sheets[n], c, r) = Repriced(p.sheets[n], c, r)
    BY <1>7 DEF SoldAs
  <2>3. QED
    BY <1>2, <1>3, <2>1, <2>2
<1>8. QED
  BY <1>6, <1>7

-----------------------------------------------------------------------------
(* Quote: the bill *)

\* The sheets billed on a line, and the line.
BilledAlike(sheets, n) ==
    {m \in DOMAIN sheets : sheets[m].on = sheets[n].on /\ sheets[m].half = sheets[n].half}
LineOf(sheets, n) ==
    LET alike == BilledAlike(sheets, n)
    IN [on |-> sheets[n].on, half |-> sheets[n].half, count |-> Cardinality(alike),
        price |-> sheets[Min(alike)].price,
        total |-> Total([m \in alike |-> sheets[m].price], alike)]

\* Sheets of one material and kind cost the same.
OnePrice(sheets) ==
    \A n \in DOMAIN sheets : \A m \in BilledAlike(sheets, n) : sheets[m].price = sheets[n].price

\* The lines of a bill are each of a set of the sheets.
LEMMA LinesFact ==
    ASSUME NEW sheets, Costed(sheets)
    PROVE  /\ build_materials_summary(sheets) = {LineOf(sheets, n) : n \in DOMAIN sheets}
           /\ IsFiniteSet(DOMAIN sheets)
           /\ \A n \in DOMAIN sheets : /\ IsFiniteSet(BilledAlike(sheets, n))
                                       /\ BilledAlike(sheets, n) \in SUBSET Int /\ n \in BilledAlike(sheets, n)
                                       /\ BilledAlike(sheets, n) \subseteq DOMAIN sheets
<1>1. PICK N \in Nat : DOMAIN sheets = 1..N
  BY DEF Costed
<1>2. IsFiniteSet(DOMAIN sheets) /\ DOMAIN sheets \subseteq Int
  BY <1>1, FS_Interval
<1>3. build_materials_summary(sheets) = {LineOf(sheets, n) : n \in DOMAIN sheets}
  BY DEF build_materials_summary, LineOf, BilledAlike
<1>4. ASSUME NEW n \in DOMAIN sheets
      PROVE  /\ BilledAlike(sheets, n) \subseteq DOMAIN sheets /\ n \in BilledAlike(sheets, n)
  BY DEF BilledAlike
<1>5. QED
  BY <1>2, <1>3, <1>4, FS_Subset

\* They add up to what the sheets cost.
LEMMA LinesAddUp ==
    ASSUME NEW sheets, Costed(sheets)
    PROVE  LET lines == build_materials_summary(sheets)
           IN Total([l \in lines |-> l.total], lines) = CostOf(sheets)
<1>1. PICK D : D = DOMAIN sheets /\ IsFiniteSet(D)
  BY LinesFact
<1>2. PICK key : key = [n \in D |-> LineOf(sheets, n)]
  OBVIOUS
<1>3. PICK lines : lines = build_materials_summary(sheets)
  OBVIOUS
<1>4. lines = {key[n] : n \in D}
  BY <1>1, <1>2, <1>3, LinesFact
<1>5. IsFiniteSet(lines)
  BY <1>1, <1>4, ImageIsFinite
<1>6. PICK f : f = [n \in D |-> sheets[n].price]
  OBVIOUS
<1>7. PICK each : each = [l \in lines |-> l.total]
  OBVIOUS
<1>8. ASSUME NEW n \in D
      PROVE  /\ key[n] \in lines /\ f[n] \in Int
             /\ Part(D, key, key[n]) = BilledAlike(sheets, n)
             /\ key[n].total = Total([m \in BilledAlike(sheets, n) |-> sheets[m].price], BilledAlike(sheets, n))
  <2>1. key[n] \in lines /\ f[n] \in Int
    BY <1>1, <1>4, <1>6 DEF Costed
  <2>2. \A m \in D : /\ key[m].on = sheets[m].on /\ key[m].half = sheets[m].half
                     /\ key[m].total = Total([x \in BilledAlike(sheets, m) |-> sheets[x].price],
                                             BilledAlike(sheets, m))
    BY <1>2 DEF LineOf
  <2>3. ASSUME NEW m \in BilledAlike(sheets, n) PROVE m \in D /\ key[m] = key[n]
    <3>1. m \in D /\ sheets[m].on = sheets[n].on /\ sheets[m].half = sheets[n].half
      BY <1>1, <2>3 DEF BilledAlike
    <3>2. BilledAlike(sheets, m) = BilledAlike(sheets, n)
      BY <3>1 DEF BilledAlike
    <3>3. LineOf(sheets, m) = LineOf(sheets, n)
      BY <3>1, <3>2 DEF LineOf
    <3>4. QED
      BY <1>2, <3>1, <3>3
  <2>4. ASSUME NEW m \in D, key[m] = key[n] PROVE m \in BilledAlike(sheets, n)
    <3>1. sheets[m].on = sheets[n].on /\ sheets[m].half = sheets[n].half
      BY <2>2, <2>4
    <3>2. QED
      BY <1>1, <3>1 DEF BilledAlike
  <2>5. Part(D, key, key[n]) = BilledAlike(sheets, n)
    BY <2>3, <2>4 DEF Part
  <2>6. QED
    BY <2>1, <2>2, <2>5
<1>9. ASSUME NEW l \in lines PROVE each[l] = Total(f, Part(D, key, l))
  <2>1. PICK n \in D : l = key[n]
    BY <1>4
  <2>2. PICK S : S = BilledAlike(sheets, n)
    OBVIOUS
  <2>3. PICK g : g = [m \in S |-> sheets[m].price]
    OBVIOUS
  <2>4. each[l] = Total(g, S) /\ Part(D, key, l) = S
    BY <1>7, <1>8, <2>1, <2>2, <2>3
  <2>5. IsFiniteSet(S) /\ S \subseteq D
    BY <1>1, <2>2, LinesFact
  <2>6. \A m \in S : f[m] \in Int /\ g[m] = f[m]
    BY <1>1, <1>6, <2>3, <2>5 DEF Costed
  <2>7. Total(g, S) = Total(f, S)
    BY <2>5, <2>6, TotalAgrees
  <2>8. QED
    BY <2>4, <2>7
<1>10. \A x \in D : f[x] \in Int /\ key[x] \in lines
  BY <1>8
<1>11. Total(each, lines) = Total(f, D)
  BY <1>1, <1>5, <1>9, <1>10, TotalOfParts
<1>12. QED
  BY <1>1, <1>3, <1>6, <1>7, <1>11 DEF CostOf

\* And each is its sheets times the price of one.
LEMMA LinesMultiply ==
    ASSUME NEW sheets, Costed(sheets), OnePrice(sheets),
           NEW l \in build_materials_summary(sheets)
    PROVE  l.total = l.count * l.price
<1>1. PICK n \in DOMAIN sheets : l = LineOf(sheets, n)
  BY LinesFact
<1>2. PICK S : S = BilledAlike(sheets, n)
  OBVIOUS
<1>3. IsFiniteSet(S) /\ S \in SUBSET Int /\ n \in S /\ S \subseteq DOMAIN sheets
  BY <1>2, LinesFact
<1>4. PICK least : least = Min(S)
  OBVIOUS
<1>5. least \in S
  BY <1>3, <1>4, LeastIsThere
<1>6. PICK f : f = [m \in S |-> sheets[m].price]
  OBVIOUS
<1>7. PICK one : one = [m \in S |-> 1]
  OBVIOUS
<1>8. PICK u \in Int : u = sheets[n].price
  BY DEF Costed
<1>9. sheets[least].price = u
  BY <1>2, <1>5, <1>8 DEF OnePrice
<1>10. \A m \in S : one[m] \in Int /\ one[m] = 1 /\ f[m] = u * one[m]
  <2>1. \A m \in S : f[m] = u
    BY <1>2, <1>6, <1>8 DEF OnePrice
  <2>2. u * 1 = u
    OBVIOUS
  <2>3. QED
    BY <1>7, <2>1, <2>2
<1>11. Total(f, S) = u * Total(one, S)
  BY <1>3, <1>10, TotalScaled
<1>12. Total(one, S) = Cardinality(S)
  BY <1>3, <1>10, TotalOfOnes
<1>13. l.total = Total(f, S) /\ l.count = Cardinality(S) /\ l.price = u
  BY <1>1, <1>2, <1>4, <1>6, <1>9 DEF LineOf
<1>14. Cardinality(S) \in Int
  BY <1>3, FS_CardinalityType
<1>15. QED
  BY <1>11, <1>12, <1>13, <1>14

\* A quotient of natural numbers is one once rounded.
LEMMA RoundedFact ==
    ASSUME NEW n \in Nat, NEW d \in Nat \ {0} PROVE Rounded(n, d) \in Nat
<1>1. PICK a \in Nat : a = 2 * n + d
  OBVIOUS
<1>2. PICK b \in Nat \ {0} : b = 2 * d
  OBVIOUS
<1>3. a \div b \in Nat
  OBVIOUS
<1>4. QED
  BY <1>1, <1>2, <1>3 DEF Rounded

\* The sides a row is banded on are a few of four.
LEMMA SidesAreFinite ==
    ASSUME NEW c, IsCart(c), NEW i \in DOMAIN c.rows
    PROVE  /\ c.rows[i].sides \subseteq {"top", "bottom", "left", "right"}
           /\ IsFiniteSet(c.rows[i].sides)
<1>1. c.rows[i].sides \subseteq {"top", "bottom", "left", "right"}
  BY DEF IsCart
<1>2. IsFiniteSet({"top"} \union {"bottom"})
  BY FS_Singleton, FS_Union
<1>3. IsFiniteSet({"left"} \union {"right"})
  BY FS_Singleton, FS_Union
<1>4. IsFiniteSet(({"top"} \union {"bottom"}) \union ({"left"} \union {"right"}))
  BY <1>2, <1>3, FS_Union
<1>5. c.rows[i].sides \subseteq ({"top"} \union {"bottom"}) \union ({"left"} \union {"right"})
  BY <1>1
<1>6. QED
  BY <1>1, <1>4, <1>5, FS_Subset

\* The metres of tape are a natural number, and so is what they cost.
LEMMA TapeFact ==
    ASSUME NEW c, IsCart(c), NEW r \in Reads
    PROVE  BilledTape(c, r) \in Nat /\ BilledTape(c, r) * r.tape.price \in Nat
<1>1. PICK D : D = DOMAIN c.rows /\ D = 1..Len(c.rows) /\ IsFiniteSet(D)
  <2>1. DOMAIN c.rows = 1..Len(c.rows) /\ Len(c.rows) \in Nat
    BY DEF IsCart
  <2>2. QED
    BY <2>1, FS_Interval
<1>2. PICK f : f = [i \in D |-> c.rows[i].quantity * Contour(c.rows[i], c.rows[i].sides)]
  OBVIOUS
<1>3. ASSUME NEW i \in D PROVE f[i] \in Nat
  <2>1. PICK row : row = c.rows[i]
    OBVIOUS
  <2>2. /\ row.quantity \in Nat /\ row.height \in Nat /\ row.width \in Nat
        /\ row.sides \subseteq {"top", "bottom", "left", "right"}
    BY <1>1, <2>1 DEF IsCart
  <2>3. IsFiniteSet(row.sides)
    BY <1>1, <2>1, SidesAreFinite
  <2>4. PICK g : g = [s \in row.sides |-> side_length(row, s)]
    OBVIOUS
  <2>5. \A s \in row.sides : g[s] \in Nat
    BY <2>2, <2>4 DEF side_length
  <2>6. Total(g, row.sides) \in Nat
    BY <2>3, <2>5, TotalIsNatural
  <2>7. PICK m \in Nat : m = Contour(row, row.sides)
    BY <2>4, <2>6 DEF Contour
  <2>8. row.quantity * m \in Nat
    BY <2>2
  <2>9. QED
    BY <1>2, <2>1, <2>7, <2>8
<1>4. Total(f, D) \in Nat
  BY <1>1, <1>3, TotalIsNatural
<1>5. PICK n \in Nat : n = TapeLength(c)
  BY <1>1, <1>2, <1>4 DEF TapeLength
<1>6. PICK w \in Nat : w = 100 + r.policy.waste
  BY ReadFact
<1>7. n * w \in Nat
  OBVIOUS
<1>8. PICK m \in Nat : m = BilledTape(c, r)
  BY <1>5, <1>6, <1>7, RoundedFact DEF BilledTape
<1>9. PICK price \in Nat : price = r.tape.price
  BY ReadFact
<1>10. m * price \in Nat
  OBVIOUS
<1>11. QED
  BY <1>8, <1>9, <1>10

\* What a sheet is sold at is told by its material and kind alone.
LEMMA PriceFact ==
    ASSUME NEW c, IsCart(c), NEW r \in Reads, NEW d, NEW s, IsSheet(s, d, r), NEW t,
           t = SoldAs(s, c, r)
    PROVE  /\ t.on = s.on /\ t.half = (s.half /\ ~c.whole) /\ t.half \in BOOLEAN
           /\ t.price = IF t.half THEN half_board_price(r.board.price, r.policy.markup)
                        ELSE IF t.on = "board" THEN UnitPrice(c, r) ELSE 0
           /\ t.price \in Nat
<1>1. /\ t = [on |-> s.on, half |-> t.half, price |-> t.price, height |-> t.height,
              width |-> t.width, row |-> s.row, turned |-> s.turned, edges |-> s.edges,
              freed |-> t.freed]
      /\ t.half = (s.half /\ ~c.whole)
      /\ t.price = IF t.on = "board" /\ ~t.half THEN UnitPrice(c, r) ELSE s.price
  BY SoldFact
<1>2. t.on = s.on
  BY <1>1
<1>3. Priced(s, r)
  BY DEF IsSheet
<1>4. s.half \in BOOLEAN /\ c.whole \in BOOLEAN
  BY <1>3 DEF Priced, IsCart
<1>5. UnitPrice(c, r) \in Nat
  BY UnitPriceFact
<1>6. CASE t.half
  BY <1>1, <1>2, <1>3, <1>4, <1>6 DEF Priced
<1>7. CASE ~t.half /\ t.on = "board"
  BY <1>1, <1>2, <1>4, <1>5, <1>7
<1>8. CASE ~t.half /\ t.on # "board"
  <2>1. s.on = "offcut" /\ s.price = 0
    BY <1>2, <1>3, <1>8 DEF Priced
  <2>2. QED
    BY <1>1, <1>2, <1>4, <1>8, <2>1
<1>9. QED
  BY <1>6, <1>7, <1>8

\* The same request at the list price.
AtList(c) == [c EXCEPT !.level = 1]

\* A cart at the list price is a cart, and asks for the same rows.
LEMMA AtListFact ==
    ASSUME NEW c, IsCart(c), NEW r \in Reads
    PROVE  /\ IsCart(AtList(c)) /\ UsedKeys(AtList(c)) = UsedKeys(c)
           /\ AtList(c).whole = c.whole /\ AtList(c).leveled = c.leveled
           /\ AtList(c).services = c.services
           /\ UnitPrice(AtList(c), r) = r.board.price
<1>1. PICK d : d = AtList(c)
  OBVIOUS
<1>2. /\ d.rows = c.rows /\ d.level = 1 /\ d.leveled = c.leveled /\ d.whole = c.whole
      /\ d.untrimmed = c.untrimmed /\ d.services = c.services /\ d.offcut = c.offcut
      /\ DOMAIN d = DOMAIN c
  BY <1>1 DEF AtList, IsCart
<1>3. IsCart(d)
  BY <1>2 DEF IsCart
<1>4. UsedKeys(d) = UsedKeys(c)
  BY <1>2 DEF UsedKeys
<1>5. UnitPrice(d, r) = r.board.price
  BY <1>2 DEF UnitPrice, price_at_level
<1>6. QED
  BY <1>1, <1>2, <1>3, <1>4, <1>5

\* A finished plan sells whole boards at one price, halves and offcuts at another.
LEMMA SoldSheets ==
    ASSUME NEW c, IsCart(c), NEW r \in Reads, NEW d, IsCart(d), UsedKeys(c) = UsedKeys(d),
           NEW p, IsPlan(p, d, r), NEW f, f = Finished(p, c, r)
    PROVE  /\ DOMAIN f.sheets = DOMAIN p.sheets
           /\ \A n \in DOMAIN p.sheets :
                 LET t == f.sheets[n]
                     s == p.sheets[n]
                 IN /\ t = SoldAs(s, c, r)
                    /\ t.on = s.on /\ t.half = (s.half /\ ~c.whole) /\ t.half \in BOOLEAN
                    /\ t.price = IF t.half THEN half_board_price(r.board.price, r.policy.markup)
                                 ELSE IF t.on = "board" THEN UnitPrice(c, r) ELSE 0
                    /\ t.price \in Nat
<1>1. f.sheets = [n \in DOMAIN p.sheets |-> SoldAs(p.sheets[n], c, r)]
  BY FinishedFact
<1>2. ASSUME NEW n \in DOMAIN p.sheets
      PROVE  LET t == f.sheets[n]
                 s == p.sheets[n]
             IN /\ t = SoldAs(s, c, r)
                /\ t.on = s.on /\ t.half = (s.half /\ ~c.whole) /\ t.half \in BOOLEAN
                /\ t.price = IF t.half THEN half_board_price(r.board.price, r.policy.markup)
                             ELSE IF t.on = "board" THEN UnitPrice(c, r) ELSE 0
                /\ t.price \in Nat
  <2>1. PICK s : s = p.sheets[n] /\ IsSheet(s, d, r)
    BY <1>2 DEF IsPlan
  <2>2. PICK t : t = f.sheets[n]
    OBVIOUS
  <2>3. t = SoldAs(s, c, r)
    BY <1>1, <2>1, <2>2
  <2>4. /\ t.on = s.on /\ t.half = (s.half /\ ~c.whole) /\ t.half \in BOOLEAN
        /\ t.price = IF t.half THEN half_board_price(r.board.price, r.policy.markup)
                     ELSE IF t.on = "board" THEN UnitPrice(c, r) ELSE 0
        /\ t.price \in Nat
    BY <2>1, <2>3, PriceFact
  <2>5. QED
    BY <2>1, <2>2, <2>3, <2>4
<1>3. DOMAIN f.sheets = DOMAIN p.sheets
  BY <1>1
<1>4. QED
  BY <1>2, <1>3

\* The sheets of one line are sold at one price.
LEMMA SoldOnePrice ==
    ASSUME NEW c, IsCart(c), NEW r \in Reads, NEW p, IsPlan(p, c, r),
           NEW f, f = Finished(p, c, r)
    PROVE  OnePrice(f.sheets)
<1>1. PICK sheets : sheets = f.sheets
  OBVIOUS
<1>2. PICK half, unit : half = half_board_price(r.board.price, r.policy.markup)
                        /\ unit = UnitPrice(c, r)
  OBVIOUS
<1>3. \A n \in DOMAIN sheets : /\ sheets[n].half \in BOOLEAN
                               /\ sheets[n].price = IF sheets[n].half THEN half
                                     ELSE IF sheets[n].on = "board" THEN unit ELSE 0
  BY <1>1, <1>2, SoldSheets
<1>4. ASSUME NEW n \in DOMAIN sheets, NEW m \in BilledAlike(sheets, n)
      PROVE  sheets[m].price = sheets[n].price
  <2>1. m \in DOMAIN sheets /\ sheets[m].on = sheets[n].on /\ sheets[m].half = sheets[n].half
    BY <1>4 DEF BilledAlike
  <2>2. QED
    BY <1>3, <1>4, <2>1
<1>5. QED
  BY <1>1, <1>4 DEF OnePrice

\* What the level takes off is what the same sheets cost more at the list price.
LEMMA DiscountFact ==
    ASSUME NEW c, IsCart(c), NEW r \in Reads, NEW p, IsPlan(p, c, r),
           NEW f, f = Finished(p, c, r), NEW g, g = Finished(p, AtList(c), r)
    PROVE  /\ level_discount(f, c, r) \in Int
           /\ CostOf(g.sheets) = CostOf(f.sheets) + level_discount(f, c, r)
           /\ level_discount(g, AtList(c), r) = 0
<1> DEFINE d == AtList(c)
           unit == UnitPrice(c, r)
           list == r.board.price
           half == half_board_price(r.board.price, r.policy.markup)
           D == DOMAIN p.sheets
           sold == {n \in D : f.sheets[n].on = "board" /\ ~f.sheets[n].half}
           old == [n \in D |-> f.sheets[n].price]
           new == [n \in D |-> g.sheets[n].price]
           more == [n \in D |-> IF n \in sold THEN list - f.sheets[n].price ELSE 0]
<1>1. /\ IsCart(d) /\ UsedKeys(d) = UsedKeys(c) /\ d.whole = c.whole /\ d.leveled = c.leveled
      /\ UnitPrice(d, r) = list
  BY AtListFact
<1>2. list \in Int /\ unit \in Int
  BY ReadFact, UnitPriceFact
<1>3. IsFiniteSet(D)
  <2>1. PICK N \in Nat : D = 1..N
    BY DEF IsPlan, IsBill, Costed
  <2>2. QED
    BY <2>1, FS_Interval
<1>4. DOMAIN f.sheets = D /\ DOMAIN g.sheets = D
  BY <1>1, SoldSheets
<1>5. ASSUME NEW n \in D
      PROVE  /\ f.sheets[n].on = g.sheets[n].on /\ f.sheets[n].half = g.sheets[n].half
             /\ f.sheets[n].half \in BOOLEAN
             /\ f.sheets[n].price \in Int /\ g.sheets[n].price \in Int
             /\ n \in sold => f.sheets[n].price = unit /\ g.sheets[n].price = list
             /\ n \notin sold => f.sheets[n].price = g.sheets[n].price
  <2>1. PICK a : a = f.sheets[n]
    OBVIOUS
  <2>2. PICK b : b = g.sheets[n]
    OBVIOUS
  <2>3. PICK s : s = p.sheets[n]
    OBVIOUS
  <2>4. /\ a.on = s.on /\ a.half = (s.half /\ ~c.whole) /\ a.half \in BOOLEAN
        /\ a.price = IF a.half THEN half ELSE IF a.on = "board" THEN unit ELSE 0
        /\ a.price \in Int
    BY <1>5, <2>1, <2>3, SoldSheets
  <2>5. /\ b.on = s.on /\ b.half = (s.half /\ ~c.whole) /\ b.half \in BOOLEAN
        /\ b.price = IF b.half THEN half ELSE IF b.on = "board" THEN list ELSE 0
        /\ b.price \in Int
    BY <1>1, <1>5, <2>2, <2>3, SoldSheets
  <2>6. n \in sold <=> a.on = "board" /\ ~a.half
    BY <1>5, <2>1
  <2>7. QED
    BY <2>1, <2>2, <2>4, <2>5, <2>6
<1>6. sold \in SUBSET D /\ IsFiniteSet(sold)
  BY <1>3, FS_Subset
<1>7. \A n \in D : old[n] \in Int /\ more[n] \in Int /\ new[n] = old[n] + more[n]
  BY <1>2, <1>5
<1>8. Total(new, D) = Total(old, D) + Total(more, D)
  <2>1. PICK S : S = D
    OBVIOUS
  <2>2. PICK f1, f2, f3 : f1 = old /\ f2 = more /\ f3 = new
    OBVIOUS
  <2>3. IsFiniteSet(S) /\ \A n \in S : f1[n] \in Int /\ f2[n] \in Int /\ f3[n] = f1[n] + f2[n]
    BY <1>3, <1>7, <2>1, <2>2
  <2>4. Total(f3, S) = Total(f1, S) + Total(f2, S)
    BY <2>3, TotalOfSum
  <2>5. QED
    BY <2>1, <2>2, <2>4
<1>9. CostOf(g.sheets) = Total(new, D) /\ CostOf(f.sheets) = Total(old, D)
  BY <1>4 DEF CostOf
<1>10. Total(more, D) = Total(more, sold)
  <2>1. \A n \in D \ sold : more[n] = 0
    OBVIOUS
  <2>2. QED
    BY <1>3, <1>6, <1>7, <2>1, TotalIgnoresZeros
<1>11. Total(more, D) \in Int
  BY <1>3, <1>7, TotalSplits
<1>12. level_discount(f, c, r) = Total(more, D)
  <2>1. CASE c.leveled
    <3>1. PICK off : off = [n \in sold |-> list - f.sheets[n].price]
      OBVIOUS
    <3>2. level_discount(f, c, r) = Total(off, sold)
      BY <1>4, <2>1, <3>1 DEF level_discount
    <3>3. \A n \in sold : off[n] \in Int /\ off[n] = more[n]
      BY <1>6, <1>7, <3>1
    <3>4. Total(off, sold) = Total(more, sold)
      BY <1>6, <3>3, TotalAgrees
    <3>5. QED
      BY <1>10, <3>2, <3>4
  <2>2. CASE ~c.leveled
    <3>1. unit = list
      BY <2>2 DEF UnitPrice
    <3>2. \A n \in sold : more[n] = 0
      BY <1>2, <1>5, <1>6, <3>1
    <3>3. Total(more, sold) = 0
      BY <1>6, <3>2, TotalOfZeros
    <3>4. QED
      BY <1>10, <2>2, <3>3 DEF level_discount
  <2>3. QED
    BY <2>1, <2>2
<1>13. level_discount(g, d, r) = 0
  <2>1. CASE d.leveled
    <3>1. {n \in DOMAIN g.sheets : g.sheets[n].on = "board" /\ ~g.sheets[n].half} = sold
      BY <1>4, <1>5
    <3>2. PICK off : off = [n \in sold |-> list - g.sheets[n].price]
      OBVIOUS
    <3>3. level_discount(g, d, r) = Total(off, sold)
      BY <2>1, <3>1, <3>2 DEF level_discount
    <3>4. \A n \in sold : off[n] = 0
      BY <1>2, <1>5, <1>6, <3>2
    <3>5. QED
      BY <1>6, <3>3, <3>4, TotalOfZeros
  <2>2. CASE ~d.leveled
    BY <2>2 DEF level_discount
  <2>3. QED
    BY <2>1, <2>2
<1>14. QED
  BY <1>8, <1>9, <1>11, <1>12, <1>13

\* The bill of an answer, whatever the tax.
LEMMA BillFact ==
    ASSUME NEW c, IsCart(c), NEW r \in Reads, NEW p, IsPlan(p, c, r), NEW tax \in Nat
    PROVE  LET final == Finished(p, c, r)
               bill == build_pricing(p, c, r, tax)
               listed == build_pricing(p, AtList(c), r, tax)
           IN /\ final.boardsCost = CostOf(final.sheets)
              /\ final.boardsCost = Total([l \in final.summary |-> l.total], final.summary)
              /\ \A l \in final.summary : l.total = l.count * l.price
              /\ bill.listSubtotal = listed.subtotal /\ listed.discount = 0
<1>1. PICK f : f = Finished(p, c, r)
  OBVIOUS
<1>2. PICK g : g = Finished(p, AtList(c), r)
  OBVIOUS
<1>3. /\ IsCart(AtList(c)) /\ UsedKeys(AtList(c)) = UsedKeys(c)
      /\ AtList(c).services = c.services
  BY AtListFact
<1>4. IsBill(f) /\ f.tapeCost = p.tapeCost
  <2>1. /\ IsBill(f) /\ f.tapeCost = p.tapeCost /\ f.tapeLength = p.tapeLength
        /\ f.sheets = [n \in DOMAIN p.sheets |-> SoldAs(p.sheets[n], c, r)]
    BY <1>1, FinishedFact, SMT
  <2>2. QED
    BY <2>1
<1>5. IsBill(g) /\ g.tapeCost = p.tapeCost
  <2>1. /\ IsBill(g) /\ g.tapeCost = p.tapeCost /\ g.tapeLength = p.tapeLength
        /\ g.sheets = [n \in DOMAIN p.sheets |-> SoldAs(p.sheets[n], AtList(c), r)]
    BY <1>2, <1>3, FinishedFact, SMT
  <2>2. QED
    BY <2>1
<1>6. PICK discount \in Int : /\ discount = level_discount(f, c, r)
                              /\ CostOf(g.sheets) = CostOf(f.sheets) + discount
                              /\ level_discount(g, AtList(c), r) = 0
  BY <1>1, <1>2, DiscountFact
<1>7. PICK cost \in Int : cost = f.boardsCost
  <2>1. PICK N \in Nat : DOMAIN f.sheets = 1..N
    BY <1>4 DEF IsBill, Costed
  <2>2. IsFiniteSet(DOMAIN f.sheets)
    <3>1. IsFiniteSet(1..N)
      BY FS_Interval
    <3>2. QED
      BY <2>1, <3>1
  <2>3. CostOf(f.sheets) \in Int
    <3>1. PICK h : h = [n \in DOMAIN f.sheets |-> f.sheets[n].price]
      OBVIOUS
    <3>2. \A n \in DOMAIN f.sheets : h[n] \in Int
      BY <1>4, <3>1 DEF IsBill, Costed
    <3>3. QED
      BY <2>2, <3>1, <3>2, TotalSplits DEF CostOf
  <2>4. QED
    BY <1>4, <2>3 DEF IsBill
<1>8. PICK tape \in Int : tape = p.tapeCost
  BY TapeFact DEF IsPlan
<1>9. PICK services \in Int : services = Rounded(c.services * 100, 100 + tax)
  <2>1. PICK n \in Nat : n = c.services * 100
    BY DEF IsCart
  <2>2. 100 + tax \in Nat \ {0}
    OBVIOUS
  <2>3. QED
    BY <2>1, <2>2, RoundedFact
<1>10. build_pricing(p, c, r, tax).listSubtotal = cost + tape + services + discount
  BY <1>1, <1>4, <1>6, <1>7, <1>8, <1>9 DEF build_pricing
<1>11. g.boardsCost = cost + discount
  BY <1>4, <1>5, <1>6, <1>7 DEF IsBill
<1>12. /\ build_pricing(p, AtList(c), r, tax).subtotal = (cost + discount) + tape + services
       /\ build_pricing(p, AtList(c), r, tax).discount = 0
  BY <1>2, <1>3, <1>5, <1>6, <1>8, <1>9, <1>11 DEF build_pricing
<1>13. cost + tape + services + discount = (cost + discount) + tape + services
  OBVIOUS
<1>14. f.summary = build_materials_summary(f.sheets) /\ Costed(f.sheets)
       /\ f.boardsCost = CostOf(f.sheets)
  BY <1>4 DEF IsBill
<1>15. Total([l \in f.summary |-> l.total], f.summary) = CostOf(f.sheets)
  BY <1>14, LinesAddUp
<1>16. \A l \in f.summary : l.total = l.count * l.price
  BY <1>1, <1>14, SoldOnePrice, LinesMultiply
<1>17. QED
  BY <1>1, <1>10, <1>12, <1>13, <1>14, <1>15, <1>16

\* The plan of a request is the one of its cart and of what it read.
LEMMA PlannedFact ==
    ASSUME QuoteInv, NEW c \in Planned
    PROVE  /\ IsPlan(seat[c].plan, CartOf(c), seat[c].read)
           /\ IsCart(CartOf(c)) /\ seat[c].read \in Reads /\ policy.tax \in Nat
<1>1. SeatAgrees(seat[c]) /\ seat[c].at \in {"plan", "answered"} /\ policy \in Policies
  BY DEF QuoteInv, Planned
<1>2. /\ seat[c].cart \in DOMAIN Carts /\ seat[c].read \in Reads
      /\ Unnamed(seat[c].plan) = Unnamed(Payload(CartOf(c), seat[c].read))
  BY <1>1 DEF SeatAgrees, CartOf
<1>3. IsCart(CartOf(c)) /\ policy.tax \in Nat
  BY <1>1, <1>2, QuoteAssumption DEF CartOf
<1>4. QED
  BY <1>2, <1>3, PlanFact

\* Of QuotesAgree, BillAddsUp: a bill kept up by differences through the price level and
\* the boards taken whole is the sum of its sheets and of its lines, and with its discount
\* it is the bill of the same request at the list price, whatever was edited meanwhile.
THEOREM BillsDoAddUp == QuoteSpec => [](\A c \in Planned : BillAddsUp(c))
<1>1. QuoteInv => \A c \in Planned : BillAddsUp(c)
  <2> SUFFICES ASSUME QuoteInv, NEW c \in Planned PROVE BillAddsUp(c)
    OBVIOUS
  <2>1. PICK cart, read, plan : cart = CartOf(c) /\ read = seat[c].read /\ plan = seat[c].plan
    OBVIOUS
  <2>2. IsPlan(plan, cart, read) /\ IsCart(cart) /\ read \in Reads /\ policy.tax \in Nat
    BY <2>1, PlannedFact
  <2>3. QED
    BY <2>1, <2>2, BillFact DEF BillAddsUp, AtList
<1>2. QED
  BY <1>1, QuotesSafe, PTL

-----------------------------------------------------------------------------
(* Quote: the sheets sold *)

\* A pool has one whole sheet, and one half at most.
LEMMA OneBin ==
    ASSUME NEW c, NEW r, NEW key, NEW a \in Bins(c, r, key), NEW b \in Bins(c, r, key),
           a.half = b.half
    PROVE  a = b
<1>1. PICK H : H = HalfSpec(r.board, r.policy.markup)
  OBVIOUS
<1>2. (\A h \in H : h.half) /\ \A g, h \in H : g = h
  <2>1. PICK x : H \subseteq {x}
    BY <1>1 DEF HalfSpec
  <2>2. \A h \in H : h.half
    BY <1>1 DEF HalfSpec
  <2>3. QED
    BY <2>1, <2>2
<1>3. PICK w : w = [on |-> key, half |-> FALSE, price |-> r.board.price,
                    height |-> Height, width |-> Width]
  OBVIOUS
<1>4. ~w.half
  BY <1>3
<1>5. CASE key = "board"
  <2>1. Bins(c, r, key) = {w} \cup H
    BY <1>1, <1>3, <1>5 DEF Bins
  <2>2. QED
    BY <1>2, <1>4, <2>1
<1>6. CASE key # "board"
  BY <1>6 DEF Bins
<1>7. QED
  BY <1>5, <1>6

\* A planned sheet measures what a sheet of its pool does.
LEMMA SheetBinFact ==
    ASSUME NEW c, IsCart(c), NEW r \in Reads, NEW s \in Sheets(c, r)
    PROVE  \E b \in Bins(c, r, s.on) : b.half = s.half /\ b.height = s.height /\ b.width = s.width
<1>1. PICK i \in DOMAIN c.rows : BinsFor(c, r, i) # {} /\ s = SheetFor(c, r, i)
  BY DEF Sheets
<1>2. PICK key \in {"board", "offcut"} : key = c.rows[i].on
  BY DEF IsCart
<1>3. PICK S : S = BinsFor(c, r, i)
  OBVIOUS
<1>4. S \in SUBSET Bins(c, r, key) /\ S # {}
  BY <1>1, <1>2, <1>3 DEF BinsFor
<1>5. PICK bin : bin = Cheapest(S)
  OBVIOUS
<1>6. bin \in Bins(c, r, key) /\ bin.on = key
  BY <1>4, <1>5, CheapestFact, BinFact
<1>7. PICK turned, edges : s = [on |-> bin.on, half |-> bin.half, price |-> bin.price,
           height |-> bin.height, width |-> bin.width, row |-> i, turned |-> turned,
           edges |-> edges, freed |-> {}]
  BY <1>1, <1>3, <1>5 DEF SheetFor
<1>8. s.on = key /\ s.half = bin.half /\ s.height = bin.height /\ s.width = bin.width
  BY <1>6, <1>7
<1>9. QED
  BY <1>6, <1>8

\* A turned piece is banded on sides as long as the ones asked for.
LEMMA ContourFact ==
    ASSUME NEW c, IsCart(c), NEW i \in DOMAIN c.rows, NEW turned \in BOOLEAN
    PROVE  LET row == c.rows[i]
               drawn == IF turned THEN [height |-> row.width, width |-> row.height] ELSE row
           IN Contour(drawn, geometric_edges(row, turned)) = Contour(row, row.sides)
<1>1. CASE ~turned
  BY <1>1 DEF geometric_edges
<1>2. CASE turned
  <2>1. PICK row : row = c.rows[i]
    OBVIOUS
  <2>2. PICK h \in Int, w \in Int : h = row.height /\ w = row.width
    BY <2>1 DEF IsCart
  <2>3. PICK S : S = row.sides /\ S \subseteq {"top", "bottom", "left", "right"} /\ IsFiniteSet(S)
    BY <2>1, SidesAreFinite
  <2>4. PICK drawn : drawn = [height |-> row.width, width |-> row.height]
    OBVIOUS
  <2>5. PICK name : name = [s \in S |-> Clockwise(s)]
    OBVIOUS
  <2>6. PICK f : f = [s \in S |-> side_length(row, s)]
    OBVIOUS
  <2>7. PICK E : E = {name[s] : s \in S}
    OBVIOUS
  <2>8. PICK g : g = [s \in E |-> side_length(drawn, s)]
    OBVIOUS
  <2>9. \A s \in S : f[s] = IF s \in {"top", "bottom"} THEN w ELSE h
    BY <2>2, <2>6 DEF side_length
  <2>10. \A s \in E : g[s] = IF s \in {"top", "bottom"} THEN h ELSE w
    BY <2>2, <2>4, <2>8 DEF side_length
  <2>11. ASSUME NEW s \in S
         PROVE  name[s] = IF s = "top" THEN "right" ELSE IF s = "right" THEN "bottom"
                          ELSE IF s = "bottom" THEN "left" ELSE "top"
    BY <2>3, <2>5 DEF Clockwise
  <2>12. ASSUME NEW s \in S PROVE f[s] \in Int /\ g[name[s]] = f[s]
    <3>1. name[s] \in E
      BY <2>7
    <3>2. s \in {"top", "bottom", "left", "right"}
      BY <2>3
    <3>3. QED
      BY <2>9, <2>10, <2>11, <3>1, <3>2
  <2>13. ASSUME NEW s \in S, NEW t \in S, name[s] = name[t] PROVE s = t
    BY <2>3, <2>11, <2>13
  <2>14. Total(g, E) = Total(f, S)
    BY <2>3, <2>7, <2>12, <2>13, TotalRenamed
  <2>15. geometric_edges(row, turned) = E
    BY <1>2, <2>3, <2>5, <2>7 DEF geometric_edges
  <2>16. Contour(drawn, E) = Total(g, E) /\ Contour(row, S) = Total(f, S)
    BY <2>6, <2>8 DEF Contour
  <2>17. QED
    BY <1>2, <2>1, <2>3, <2>4, <2>14, <2>15, <2>16
<1>3. QED
  BY <1>1, <1>2

\* What a half taken whole hands over is the rest of the board.
LEMMA AreaFact ==
    ASSUME NEW c, IsCart(c), NEW r \in Reads, NEW d, NEW s, IsSheet(s, d, r), NEW t,
           t = SoldAs(s, c, r)
    PROVE  t.height * t.width = s.height * s.width + Total([f \in t.freed |-> f[1] * f[2]], t.freed)
<1>1. /\ t.half = (s.half /\ ~c.whole) /\ t.on = s.on
      /\ t.on = "board" /\ ~t.half => t.height = Height /\ t.width = Width
      /\ t.half \/ t.on = "offcut" => t.height = s.height /\ t.width = s.width
      /\ ~(s.half /\ c.whole) => t.freed = {}
      /\ s.half /\ c.whole => \/ /\ s.height = Height /\ 2 * s.width = Width
                                 /\ t.freed = {<<Height, Width - s.width>>}
                              \/ /\ 2 * s.height = Height /\ s.width = Width
                                 /\ t.freed = {<<Height - s.height, Width>>}
  <2>1. t = [on |-> s.on, half |-> t.half, price |-> t.price, height |-> t.height,
             width |-> t.width, row |-> s.row, turned |-> s.turned, edges |-> s.edges,
             freed |-> t.freed]
    BY SoldFact
  <2>2. t.on = s.on
    BY <2>1
  <2>3. QED
    BY <2>2, SoldFact
<1>2. /\ Priced(s, r) /\ s.half \in BOOLEAN /\ c.whole \in BOOLEAN
      /\ s.on \in {"board", "offcut"} /\ (s.half => s.on = "board")
  BY DEF IsSheet, Priced, IsCart
<1>3. PICK h \in Nat, w \in Nat : h = s.height /\ w = s.width
  BY <1>2 DEF Priced
<1>4. Height \in Nat /\ Width \in Nat
  BY QuoteAssumption
<1>5. h * w \in Int
  OBVIOUS
<1>6. CASE ~(s.half /\ c.whole)
  <2>1. t.freed = {}
    BY <1>1, <1>6
  <2>2. Total([f \in t.freed |-> f[1] * f[2]], t.freed) = 0
    BY <2>1, TotalOfNothing
  <2>3. t.height = h /\ t.width = w
    BY <1>1, <1>2, <1>3, <1>6 DEF Priced
  <2>4. QED
    BY <1>3, <1>5, <2>2, <2>3
<1>7. CASE s.half /\ c.whole
  <2>1. t.height = Height /\ t.width = Width
    BY <1>1, <1>2, <1>7
  <2>2. PICK e : t.freed = {e} /\ e[1] * e[2] = h * w /\ Height * Width = h * w + h * w
    <3>1. CASE h = Height /\ 2 * w = Width /\ t.freed = {<<Height, Width - s.width>>}
      <4>1. PICK e : e = <<Height, Width - s.width>>
        OBVIOUS
      <4>2. Width - s.width = w
        BY <1>3, <1>4, <3>1
      <4>3. e[1] = h /\ e[2] = w
        BY <3>1, <4>1, <4>2
      <4>4. h * (2 * w) = h * w + h * w
        OBVIOUS
      <4>5. Height * Width = h * w + h * w
        BY <3>1, <4>4
      <4>6. QED
        BY <3>1, <4>1, <4>3, <4>5
    <3>2. CASE 2 * h = Height /\ w = Width /\ t.freed = {<<Height - s.height, Width>>}
      <4>1. PICK e : e = <<Height - s.height, Width>>
        OBVIOUS
      <4>2. Height - s.height = h
        BY <1>3, <1>4, <3>2
      <4>3. e[1] = h /\ e[2] = w
        BY <3>2, <4>1, <4>2
      <4>4. (2 * h) * w = h * w + h * w
        OBVIOUS
      <4>5. Height * Width = h * w + h * w
        BY <3>2, <4>4
      <4>6. QED
        BY <3>2, <4>1, <4>3, <4>5
    <3>3. QED
      BY <1>1, <1>3, <1>7, <3>1, <3>2
  <2>3. PICK g : g = [f \in {e} |-> f[1] * f[2]]
    OBVIOUS
  <2> DEFINE k == h * w
  <2>7. k \in Int
    OBVIOUS
  <2>4. g[e] = k /\ k \in Int
    BY <2>2, <2>3, <2>7
  <2>5. Total(g, {e}) = k
    <3>1. IsFiniteSet({e}) /\ {e} \ {e} = {}
      BY FS_Singleton
    <3>2. Total(g, {e}) = g[e] + Total(g, {e} \ {e})
      BY <2>4, <3>1, TotalSplits
    <3>3. Total(g, {}) = 0
      BY TotalOfNothing
    <3>4. QED
      BY <2>4, <3>1, <3>2, <3>3
  <2>6. QED
    BY <1>3, <2>1, <2>2, <2>3, <2>5, <2>7
<1>8. QED
  BY <1>6, <1>7

\* The sheets drawn together.
DrawnAlike(sheets, n) ==
    {m \in DOMAIN sheets : layout_signature(sheets[m]) = layout_signature(sheets[n])}

\* Its sheet is one of those it stands for, made of the same material and kind.
StandsFor(g, sheets) ==
    \A n \in g.numbers :
        \E m \in DOMAIN sheets : /\ g.sheet = sheets[m] /\ n \in DOMAIN sheets
                                 /\ sheets[m].on = sheets[n].on /\ sheets[m].half = sheets[n].half

\* The drawings cover the sheets, each under one that draws like it.
LEMMA GroupsCover ==
    ASSUME NEW sheets, Costed(sheets)
    PROVE  /\ UNION {g.numbers : g \in group_layouts(sheets)} = DOMAIN sheets
           /\ \A g \in group_layouts(sheets) : StandsFor(g, sheets)
<1>1. PICK D : D = DOMAIN sheets /\ IsFiniteSet(D) /\ D \subseteq Int
  <2>1. PICK N \in Nat : DOMAIN sheets = 1..N
    BY DEF Costed
  <2>2. QED
    BY <2>1, FS_Interval
<1>2. PICK at : at = [n \in D |-> DrawnAlike(sheets, n)]
  OBVIOUS
<1>3. \A n \in D : at[n] \subseteq D /\ n \in at[n]
  BY <1>1, <1>2 DEF DrawnAlike
<1>4. PICK G : G = group_layouts(sheets) /\ G = {[sheet |-> sheets[Min(at[n])], numbers |-> at[n]] : n \in D}
  BY <1>1, <1>2 DEF group_layouts, DrawnAlike
<1>5. {g.numbers : g \in G} = {at[n] : n \in D}
  <2>1. PICK rec : rec = [n \in D |-> [sheet |-> sheets[Min(at[n])], numbers |-> at[n]]]
    OBVIOUS
  <2>2. \A n \in D : rec[n].numbers = at[n]
    BY <2>1
  <2>3. G = {rec[n] : n \in D}
    BY <1>4, <2>1
  <2>4. QED
    BY <2>2, <2>3
<1>6. UNION {g.numbers : g \in G} = D
  BY <1>3, <1>5
<1>7. ASSUME NEW g \in G, NEW n \in g.numbers
      PROVE  \E m \in D : /\ g.sheet = sheets[m] /\ n \in D
                          /\ sheets[m].on = sheets[n].on /\ sheets[m].half = sheets[n].half
  <2>1. PICK k \in D : g = [sheet |-> sheets[Min(at[k])], numbers |-> at[k]]
    BY <1>4
  <2>2. PICK S : S = at[k] /\ S \in SUBSET Int /\ IsFiniteSet(S) /\ S # {} /\ S \subseteq D
    BY <1>1, <1>3, FS_Subset
  <2>3. PICK m : m = Min(S)
    OBVIOUS
  <2>4. m \in S
    BY <2>2, <2>3, LeastIsThere
  <2>5. g.sheet = sheets[m] /\ n \in S
    BY <2>1, <2>2, <2>3
  <2>6. layout_signature(sheets[m]) = layout_signature(sheets[n])
    BY <1>2, <2>2, <2>4, <2>5 DEF DrawnAlike
  <2>7. sheets[m].on = sheets[n].on /\ sheets[m].half = sheets[n].half
    BY <2>6 DEF layout_signature
  <2>8. QED
    BY <2>2, <2>4, <2>5, <2>7
<1>8. \A g \in G : StandsFor(g, sheets)
  BY <1>1, <1>7 DEF StandsFor
<1>9. QED
  BY <1>1, <1>4, <1>6, <1>8

\* Sheets of one material and kind are sold alike.
LEMMA SoldAlike ==
    ASSUME NEW c, IsCart(c), NEW r \in Reads, NEW p, IsPlan(p, c, r),
           NEW f, f = Finished(p, c, r), NEW m \in DOMAIN p.sheets, NEW n \in DOMAIN p.sheets,
           f.sheets[m].on = f.sheets[n].on, f.sheets[m].half = f.sheets[n].half
    PROVE  /\ f.sheets[m].price = f.sheets[n].price
           /\ f.sheets[m].height = f.sheets[n].height /\ f.sheets[m].width = f.sheets[n].width
<1>1. PICK a, b : a = f.sheets[m] /\ b = f.sheets[n]
  OBVIOUS
<1>2. PICK s, t : s = p.sheets[m] /\ t = p.sheets[n]
  OBVIOUS
<1>3. IsSheet(s, c, r) /\ IsSheet(t, c, r)
  BY <1>2 DEF IsPlan
<1>4. /\ a = SoldAs(s, c, r) /\ a.on = s.on /\ a.half = (s.half /\ ~c.whole)
      /\ a.price = IF a.half THEN half_board_price(r.board.price, r.policy.markup)
                   ELSE IF a.on = "board" THEN UnitPrice(c, r) ELSE 0
  BY <1>1, <1>2, SoldSheets
<1>5. /\ b = SoldAs(t, c, r) /\ b.on = t.on /\ b.half = (t.half /\ ~c.whole)
      /\ b.price = IF b.half THEN half_board_price(r.board.price, r.policy.markup)
                   ELSE IF b.on = "board" THEN UnitPrice(c, r) ELSE 0
  BY <1>1, <1>2, SoldSheets
<1>6. a.on = b.on /\ a.half = b.half
  BY <1>1
<1>7. a.price = b.price
  BY <1>4, <1>5, <1>6
<1>8. /\ a.on = "board" /\ ~a.half => a.height = Height /\ a.width = Width
      /\ a.half \/ a.on = "offcut" => a.height = s.height /\ a.width = s.width
  BY <1>3, <1>4, SoldFact
<1>9. /\ b.on = "board" /\ ~b.half => b.height = Height /\ b.width = Width
      /\ b.half \/ b.on = "offcut" => b.height = t.height /\ b.width = t.width
  BY <1>3, <1>5, SoldFact
<1>10. s.half \in BOOLEAN /\ t.half \in BOOLEAN /\ s.on \in {"board", "offcut"}
       /\ c.whole \in BOOLEAN /\ (s.on = "offcut" => ~s.half) /\ (t.on = "offcut" => ~t.half)
  BY <1>3 DEF IsSheet, Priced, IsCart
<1>11. CASE a.on = "board" /\ ~a.half
  BY <1>1, <1>6, <1>7, <1>8, <1>9, <1>11
<1>12. CASE a.half \/ a.on = "offcut"
  <2>1. s.on = t.on /\ s.half = t.half
    BY <1>4, <1>5, <1>6, <1>10, <1>12
  <2>2. s \in Sheets(c, r) /\ t \in Sheets(c, r)
    <3>1. p.sheets \in Seq(Sheets(c, r))
      BY AllSheetsFact DEF IsPlan
    <3>2. QED
      BY <1>2, <3>1, ElementOfSeq
  <2>3. PICK x \in Bins(c, r, s.on) : x.half = s.half /\ x.height = s.height /\ x.width = s.width
    BY <2>2, SheetBinFact
  <2>4. PICK y \in Bins(c, r, t.on) : y.half = t.half /\ y.height = t.height /\ y.width = t.width
    BY <2>2, SheetBinFact
  <2>5. x = y
    BY <2>1, <2>3, <2>4, OneBin
  <2>6. QED
    BY <1>1, <1>6, <1>7, <1>8, <1>9, <1>12, <2>3, <2>4, <2>5
<1>13. QED
  BY <1>4, <1>10, <1>11, <1>12

\* What an answer sells is what its plan cuts.
SoldAsCut(c, r, p, f) ==
    /\ \A n \in DOMAIN p.sheets :
          LET sold == f.sheets[n]
          IN p.sheets[n].on = "board" =>
               /\ sold.half => /\ ~c.whole
                               /\ sold.price = half_board_price(r.board.price,
                                                                r.policy.markup)
               /\ ~sold.half =>
                    /\ sold.height = Height /\ sold.width = Width
                    /\ sold.price = IF c.leveled THEN price_at_level(r.board, c.level)
                                    ELSE r.board.price
               /\ sold.height * sold.width
                    = p.sheets[n].height * p.sheets[n].width
                      + Total([x \in sold.freed |-> x[1] * x[2]], sold.freed)
    /\ \A n \in DOMAIN p.sheets :
          LET row == c.rows[p.sheets[n].row]
              drawn == IF p.sheets[n].turned
                       THEN [height |-> row.width, width |-> row.height] ELSE row
          IN Contour(drawn, p.sheets[n].edges) = Contour(row, row.sides)
    /\ UNION {g.numbers : g \in f.groups} = DOMAIN f.sheets
    /\ \A g \in f.groups : \A n \in g.numbers :
          /\ g.sheet.price = f.sheets[n].price
          /\ g.sheet.height = f.sheets[n].height /\ g.sheet.width = f.sheets[n].width

\* It does, whatever was edited meanwhile.
LEMMA CutFact ==
    ASSUME NEW c, IsCart(c), NEW r \in Reads, NEW p, IsPlan(p, c, r),
           NEW f, f = Finished(p, c, r)
    PROVE  SoldAsCut(c, r, p, f)
<1>1. DOMAIN f.sheets = DOMAIN p.sheets
  BY SoldSheets
<1>2. \A n \in DOMAIN p.sheets : IsSheet(p.sheets[n], c, r)
  BY DEF IsPlan
<1>3. ASSUME NEW n \in DOMAIN p.sheets, p.sheets[n].on = "board"
      PROVE  LET sold == f.sheets[n]
             IN /\ sold.half => /\ ~c.whole
                                /\ sold.price = half_board_price(r.board.price, r.policy.markup)
                /\ ~sold.half => /\ sold.height = Height /\ sold.width = Width
                                 /\ sold.price = IF c.leveled
                                                 THEN price_at_level(r.board, c.level)
                                                 ELSE r.board.price
                /\ sold.height * sold.width
                     = p.sheets[n].height * p.sheets[n].width
                       + Total([x \in sold.freed |-> x[1] * x[2]], sold.freed)
  <2>1. PICK s : s = p.sheets[n] /\ IsSheet(s, c, r) /\ s.on = "board"
    BY <1>2, <1>3
  <2>2. PICK t : t = f.sheets[n]
    OBVIOUS
  <2>3. /\ t = SoldAs(s, c, r) /\ t.on = s.on /\ t.half = (s.half /\ ~c.whole)
        /\ t.price = IF t.half THEN half_board_price(r.board.price, r.policy.markup)
                     ELSE IF t.on = "board" THEN UnitPrice(c, r) ELSE 0
    BY <2>1, <2>2, SoldSheets
  <2>4. t.on = "board" /\ ~t.half => t.height = Height /\ t.width = Width
    BY <2>1, <2>3, SoldFact
  <2>5. t.height * t.width
          = s.height * s.width + Total([x \in t.freed |-> x[1] * x[2]], t.freed)
    BY <2>1, <2>3, AreaFact
  <2>6. UnitPrice(c, r) = IF c.leveled THEN price_at_level(r.board, c.level) ELSE r.board.price
    BY DEF UnitPrice
  <2>7. QED
    BY <2>1, <2>2, <2>3, <2>4, <2>5, <2>6
<1>4. ASSUME NEW n \in DOMAIN p.sheets
      PROVE  LET row == c.rows[p.sheets[n].row]
                 drawn == IF p.sheets[n].turned
                          THEN [height |-> row.width, width |-> row.height] ELSE row
             IN Contour(drawn, p.sheets[n].edges) = Contour(row, row.sides)
  <2>1. PICK s : s = p.sheets[n] /\ IsSheet(s, c, r)
    BY <1>2
  <2>2. PICK i \in DOMAIN c.rows : i = s.row
    BY <2>1 DEF IsSheet
  <2>3. s.turned \in BOOLEAN /\ s.edges = geometric_edges(c.rows[i], s.turned)
    BY <2>1, <2>2 DEF IsSheet
  <2>4. QED
    BY <2>1, <2>2, <2>3, ContourFact
<1>5. IsBill(f)
  BY FinishedFact
<1>6. Costed(f.sheets) /\ f.groups = group_layouts(f.sheets)
  BY <1>5 DEF IsBill
<1>7. UNION {g.numbers : g \in f.groups} = DOMAIN f.sheets
  BY <1>6, GroupsCover
<1>8. ASSUME NEW g \in f.groups, NEW n \in g.numbers
      PROVE  /\ g.sheet.price = f.sheets[n].price
             /\ g.sheet.height = f.sheets[n].height /\ g.sheet.width = f.sheets[n].width
  <2>1. PICK m \in DOMAIN f.sheets :
           /\ g.sheet = f.sheets[m] /\ n \in DOMAIN f.sheets
           /\ f.sheets[m].on = f.sheets[n].on /\ f.sheets[m].half = f.sheets[n].half
    <3>1. PICK S, G : S = f.sheets /\ G = group_layouts(S) /\ G = f.groups /\ Costed(S)
      BY <1>6
    <3>2. \A h \in group_layouts(S) : StandsFor(h, S)
      BY <3>1, GroupsCover
    <3>3. StandsFor(g, S) /\ n \in g.numbers
      BY <1>8, <3>1, <3>2
    <3>4. QED
      BY <3>1, <3>3 DEF StandsFor
  <2>2. QED
    BY <1>1, <2>1, SoldAlike
<1>9. QED
  BY <1>3, <1>4, <1>7, <1>8 DEF SoldAsCut

\* Of QuotesAgree, SheetsAreSoldAsCut: a half and a whole board are sold for what the code
\* says at every level, what a half hands over when it is taken whole is what was not cut,
\* a turned piece is banded along as much, and every sheet is drawn under one like it.
THEOREM SheetsDoSell == QuoteSpec => [](\A c \in Planned : SheetsAreSoldAsCut(c))
<1>1. QuoteInv => \A c \in Planned : SheetsAreSoldAsCut(c)
  <2> SUFFICES ASSUME QuoteInv, NEW c \in Planned PROVE SheetsAreSoldAsCut(c)
    OBVIOUS
  <2>1. IsPlan(seat[c].plan, CartOf(c), seat[c].read) /\ IsCart(CartOf(c)) /\ seat[c].read \in Reads
    BY PlannedFact
  <2>2. SoldAsCut(CartOf(c), seat[c].read, seat[c].plan,
                  Finished(seat[c].plan, CartOf(c), seat[c].read))
    BY <2>1, CutFact
  <2>3. QED
    BY <2>2 DEF SheetsAreSoldAsCut, SoldAsCut
<1>2. QED
  BY <1>1, QuotesSafe, PTL

-----------------------------------------------------------------------------
(* Quote: the pieces cut *)

\* The image of a finite set under names that differ counts as much.
LEMMA NamesCount ==
    ASSUME NEW S, IsFiniteSet(S), NEW f, NEW T, T = {f[x] : x \in S},
           \A x, y \in S : f[x] = f[y] => x = y
    PROVE  IsFiniteSet(T) /\ Cardinality(T) = Cardinality(S)
<1>1. PICK g : g = [x \in S |-> f[x]]
  OBVIOUS
<1>2. g \in [S -> T] /\ \A t \in T : \E x \in S : g[x] = t
  BY <1>1
<1>3. g \in Surjection(S, T)
  BY <1>2 DEF Surjection
<1>4. g \in Injection(S, T)
  BY <1>1, <1>2 DEF Injection, IsInjective
<1>5. QED
  BY <1>3, <1>4, FS_Surjection

\* Up to a row, each row of the pool adds its pieces.
LEMMA WantedFact ==
    ASSUME NEW c, IsCart(c), NEW key
    PROVE  /\ Wanted(c, key, 0) = 0
           /\ \A i \in DOMAIN c.rows :
                 /\ Wanted(c, key, i - 1) \in Nat
                 /\ Wanted(c, key, i) =
                       Wanted(c, key, i - 1) + (IF c.rows[i].on = key THEN c.rows[i].quantity ELSE 0)
           /\ \A i, j \in Nat : i <= j => Wanted(c, key, i) <= Wanted(c, key, j)
           /\ \A i \in Nat : Wanted(c, key, i) \in Nat
<1> DEFINE Of(i) == RowsOn(c, key) \cap 1..i
<1>1. PICK q : q = [j \in DOMAIN c.rows |-> c.rows[j].quantity]
  OBVIOUS
<1>2. \A j \in DOMAIN c.rows : q[j] \in Nat
  BY <1>1 DEF IsCart
<1>3. DOMAIN c.rows \subseteq Nat \ {0} /\ RowsOn(c, key) \subseteq DOMAIN c.rows
  BY DEF IsCart, RowsOn
<1>4. ASSUME NEW i \in Nat
      PROVE  IsFiniteSet(Of(i)) /\ Of(i) \subseteq DOMAIN c.rows /\ Wanted(c, key, i) = Total(q, Of(i))
             /\ Wanted(c, key, i) \in Nat
  <2>1. IsFiniteSet(1..i)
    BY FS_Interval
  <2>2. PICK S : S = Of(i)
    OBVIOUS
  <2>3. IsFiniteSet(S) /\ S \subseteq DOMAIN c.rows
    BY <1>3, <2>1, <2>2, FS_Subset
  <2>4. PICK f : f = [j \in S |-> c.rows[j].quantity]
    OBVIOUS
  <2>5. \A j \in S : f[j] \in Int /\ f[j] = q[j] /\ q[j] \in Nat
    BY <1>1, <1>2, <2>3, <2>4
  <2>6. Total(f, S) = Total(q, S) /\ Total(q, S) \in Nat
    BY <2>3, <2>5, TotalAgrees, TotalIsNatural
  <2>7. Wanted(c, key, i) = Total(f, S)
    BY <2>2, <2>4 DEF Wanted
  <2>8. QED
    BY <2>2, <2>3, <2>6, <2>7
<1>5. Wanted(c, key, 0) = 0
  <2>1. Of(0) = {}
    OBVIOUS
  <2>2. QED
    BY <1>4, <2>1, TotalOfNothing
<1>6. ASSUME NEW i \in DOMAIN c.rows
      PROVE  Wanted(c, key, i) =
                Wanted(c, key, i - 1) + (IF c.rows[i].on = key THEN c.rows[i].quantity ELSE 0)
  <2>1. i \in Nat /\ i - 1 \in Nat /\ i \notin 1..(i - 1) /\ (1..i) = (1..(i - 1)) \union {i}
    BY <1>3, <1>6
  <2>2. CASE c.rows[i].on = key
    <3>1. PICK S, R : S = Of(i) /\ R = Of(i - 1)
      OBVIOUS
    <3>2. i \in S /\ S \ {i} = R
      BY <2>1, <2>2, <3>1, <1>6 DEF RowsOn
    <3>3. IsFiniteSet(S) /\ \A j \in S : q[j] \in Int
      BY <1>2, <1>4, <2>1, <3>1
    <3>4. Total(q, S) = q[i] + Total(q, R)
      BY <3>2, <3>3, TotalSplits
    <3>5. q[i] = c.rows[i].quantity /\ q[i] \in Nat
      BY <1>1, <1>2, <1>6
    <3>6. Wanted(c, key, i) = Total(q, S) /\ Wanted(c, key, i - 1) = Total(q, R)
          /\ Total(q, R) \in Nat
      BY <1>4, <2>1, <3>1
    <3>7. QED
      BY <2>2, <3>4, <3>5, <3>6
  <2>3. CASE c.rows[i].on # key
    <3>1. Of(i) = Of(i - 1)
      BY <2>1, <2>3 DEF RowsOn
    <3>2. Wanted(c, key, i) = Wanted(c, key, i - 1) /\ Wanted(c, key, i - 1) \in Nat
      BY <1>4, <2>1, <3>1
    <3>3. QED
      BY <2>3, <3>2
  <2>4. QED
    BY <2>2, <2>3
<1>7. ASSUME NEW i \in Nat, NEW j \in Nat, i <= j
      PROVE  Wanted(c, key, i) <= Wanted(c, key, j)
  <2>1. PICK S, R, D : S = Of(j) /\ R = Of(i) /\ D = S \ R
    OBVIOUS
  <2>2. R \subseteq S
    BY <1>7, <2>1
  <2>3. IsFiniteSet(S) /\ IsFiniteSet(R) /\ IsFiniteSet(D) /\ S \subseteq DOMAIN c.rows
    BY <1>4, <2>1, FS_Subset
  <2>4. R \cap D = {} /\ R \union D = S
    BY <2>1, <2>2
  <2>5. \A x \in R \union D : q[x] \in Int
    BY <1>2, <2>3, <2>4
  <2>6. Total(q, S) = Total(q, R) + Total(q, D)
    BY <2>3, <2>4, <2>5, TotalOfUnion
  <2>7. Total(q, D) \in Nat
    <3>1. \A x \in D : q[x] \in Nat
      BY <1>2, <2>3, <2>4
    <3>2. QED
      BY <2>3, <3>1, TotalIsNatural
  <2>8. Wanted(c, key, j) = Total(q, S) /\ Wanted(c, key, i) = Total(q, R) /\ Total(q, R) \in Nat
    BY <1>4, <2>1
  <2>9. QED
    BY <2>6, <2>7, <2>8
<1>8. ASSUME NEW i \in DOMAIN c.rows PROVE Wanted(c, key, i - 1) \in Nat
  <2>1. i - 1 \in Nat
    BY <1>3, <1>8
  <2>2. QED
    BY <1>4, <2>1
<1>9. QED
  BY <1>4, <1>5, <1>6, <1>7, <1>8

\* A row is cut as many times as it asks for, from the sheets of its own pool.
LEMMA PiecesOfRow ==
    ASSUME NEW c, IsCart(c), NEW key, NEW i \in DOMAIN c.rows
    PROVE  Cardinality({m \in DOMAIN Instances(c, key) : Instances(c, key)[m] = i})
              = IF c.rows[i].on = key THEN c.rows[i].quantity ELSE 0
<1> DEFINE W(j) == Wanted(c, key, j)
<1>1. PICK n \in Nat \ {0} : n = Len(c.rows) /\ DOMAIN c.rows = 1..n
  BY DEF IsCart
<1>2. i \in 1..n /\ i - 1 \in Nat /\ i \in Nat
  BY <1>1
<1>3. W(0) = 0 /\ (\A j \in Nat : W(j) \in Nat) /\ \A j, k \in Nat : j <= k => W(j) <= W(k)
  <2>1. Wanted(c, key, 0) = 0
    BY WantedFact
  <2>2. \A j \in Nat : Wanted(c, key, j) \in Nat
    BY WantedFact
  <2>3. \A j, k \in Nat : j <= k => Wanted(c, key, j) <= Wanted(c, key, k)
    BY WantedFact
  <2>4. QED
    BY <2>1, <2>2, <2>3
<1>4. ASSUME NEW m \in 1..W(n) PROVE Instances(c, key)[m] = i <=> m \in (W(i - 1) + 1)..W(i)
  <2>1. PICK T : T = {j \in DOMAIN c.rows : m <= W(j)}
    OBVIOUS
  <2>2. m \in Nat \ {0} /\ W(n) \in Nat
    BY <1>3
  <2>3. n \in T
    BY <1>1, <2>1, <2>2
  <2>4. IsFiniteSet(1..n)
    BY FS_Interval
  <2>5. T \in SUBSET Int /\ IsFiniteSet(T) /\ T \subseteq 1..n
    BY <1>1, <2>1, <2>4, FS_Subset
  <2>6. PICK x : x = Min(T)
    OBVIOUS
  <2>7. x \in T /\ \A y \in T : x <= y
    BY <2>3, <2>5, <2>6, LeastIsThere
  <2>8. Instances(c, key)[m] = x
    BY <1>1, <2>1, <2>6 DEF Instances
  <2>9. W(i) \in Nat /\ W(i - 1) \in Nat /\ W(x) \in Nat
    BY <1>2, <1>3, <2>5, <2>7
  <2>10. ASSUME x = i PROVE m \in (W(i - 1) + 1)..W(i)
    <3>1. m <= W(i)
      BY <2>1, <2>7, <2>10
    <3>2. CASE i = 1
      <4>1. W(i - 1) = 0
        BY <1>3, <3>2
      <4>2. QED
        BY <2>2, <2>9, <3>1, <4>1
    <3>3. CASE i # 1
      <4>1. i - 1 \in DOMAIN c.rows /\ ~(i <= i - 1)
        BY <1>1, <1>2, <3>3
      <4>2. i - 1 \notin T
        BY <2>7, <2>10, <4>1
      <4>3. ~(m <= W(i - 1))
        BY <2>1, <4>1, <4>2
      <4>4. QED
        BY <2>2, <2>9, <3>1, <4>3
    <3>4. QED
      BY <3>2, <3>3
  <2>11. ASSUME m \in (W(i - 1) + 1)..W(i) PROVE x = i
    <3>1. m <= W(i) /\ ~(m <= W(i - 1))
      BY <2>2, <2>9, <2>11
    <3>2. i \in T
      BY <2>1, <3>1
    <3>3. x <= i /\ x \in 1..n
      BY <2>5, <2>7, <3>2
    <3>4. CASE x # i
      <4>1. x \in Nat /\ x <= i - 1
        BY <1>2, <3>3, <3>4
      <4>2. W(x) <= W(i - 1)
        BY <1>2, <1>3, <4>1
      <4>3. m <= W(x)
        BY <2>1, <2>7
      <4>4. QED
        BY <2>2, <2>9, <3>1, <4>2, <4>3
    <3>5. QED
      BY <3>4
  <2>12. QED
    BY <2>8, <2>10, <2>11
<1>5. DOMAIN Instances(c, key) = 1..W(n)
  BY <1>1 DEF Instances
<1>6. W(i) <= W(n) /\ W(i) \in Nat /\ W(n) \in Nat /\ W(i - 1) \in Nat
  BY <1>2, <1>3
<1>7. (W(i - 1) + 1)..W(i) \subseteq 1..W(n)
  BY <1>6
<1>8. {m \in DOMAIN Instances(c, key) : Instances(c, key)[m] = i} = (W(i - 1) + 1)..W(i)
  BY <1>4, <1>5, <1>7
<1>9. PICK q \in Nat : q = IF c.rows[i].on = key THEN c.rows[i].quantity ELSE 0
  BY DEF IsCart
<1>10. W(i) = W(i - 1) + q
  BY <1>9, WantedFact
<1>11. PICK a, b \in Nat : a = W(i - 1) /\ b = W(i) /\ b = a + q
  BY <1>6, <1>10
<1>12. Cardinality((a + 1)..b) = q
  <2>1. a + 1 \in Int /\ b \in Int
    OBVIOUS
  <2>2. Cardinality((a + 1)..b) = IF a + 1 > b THEN 0 ELSE b - (a + 1) + 1
    BY <2>1, FS_Interval
  <2>3. QED
    BY <1>11, <2>2
<1>13. QED
  BY <1>8, <1>9, <1>11, <1>12

\* The sheets that cut a row.
CutFor(sheets, i) == {n \in DOMAIN sheets : sheets[n].row = i}

\* Those of two plans, one after the other.
LEMMA CutForBoth ==
    ASSUME NEW S, NEW s \in Seq(S), NEW t \in Seq(S), NEW i
    PROVE  /\ IsFiniteSet(CutFor(s, i)) /\ Cardinality(CutFor(s, i)) \in Nat
           /\ Cardinality(CutFor(s \o t, i)) = Cardinality(CutFor(s, i)) + Cardinality(CutFor(t, i))
<1>1. PICK a, b \in Nat : a = Len(s) /\ b = Len(t) /\ DOMAIN s = 1..a /\ DOMAIN t = 1..b
  OBVIOUS
<1>2. /\ DOMAIN (s \o t) = 1..(a + b)
      /\ \A n \in 1..a : (s \o t)[n] = s[n]
      /\ \A n \in (a + 1)..(a + b) : (s \o t)[n] = t[n - a]
  BY <1>1
<1>3. PICK A, B : A = CutFor(s, i) /\ B = CutFor(t, i)
  OBVIOUS
<1>4. A \subseteq 1..a /\ B \subseteq 1..b
  BY <1>1, <1>3 DEF CutFor
<1>5. IsFiniteSet(1..a) /\ IsFiniteSet(1..b)
  BY FS_Interval
<1>6. IsFiniteSet(A) /\ IsFiniteSet(B)
  BY <1>4, <1>5, FS_Subset
<1>7. PICK f : f = [n \in B |-> n + a]
  OBVIOUS
<1>8. PICK C : C = {f[n] : n \in B}
  OBVIOUS
<1>9. \A x, y \in B : f[x] = f[y] => x = y
  BY <1>4, <1>7
<1>10. IsFiniteSet(C) /\ Cardinality(C) = Cardinality(B)
  BY <1>6, <1>8, <1>9, NamesCount
<1>11. CutFor(s \o t, i) = A \union C
  <2>1. ASSUME NEW n \in 1..a PROVE n \in CutFor(s \o t, i) <=> n \in A \union C
    <3>1. n \in 1..(a + b) /\ (s \o t)[n] = s[n]
      BY <1>2
    <3>2. n \notin C
      BY <1>4, <1>7, <1>8
    <3>3. QED
      BY <1>1, <1>2, <1>3, <3>1, <3>2 DEF CutFor
  <2>2. ASSUME NEW n \in (a + 1)..(a + b) PROVE n \in CutFor(s \o t, i) <=> n \in A \union C
    <3>1. n \in 1..(a + b) /\ (s \o t)[n] = t[n - a] /\ n - a \in 1..b /\ n \notin A
      <4>1. n \in 1..(a + b) /\ n - a \in 1..b /\ n \notin 1..a
        BY <2>2
      <4>2. (s \o t)[n] = t[n - a]
        BY <1>2, <2>2
      <4>3. n \notin A
        BY <1>4, <4>1
      <4>4. QED
        BY <4>1, <4>2, <4>3
    <3>2. n \in CutFor(s \o t, i) <=> n - a \in B
      BY <1>1, <1>2, <1>3, <3>1 DEF CutFor
    <3>3. n \in C <=> n - a \in B
      <4>1. ASSUME n - a \in B PROVE n \in C
        <5>1. f[n - a] = n
          BY <1>7, <3>1, <4>1
        <5>2. QED
          BY <1>8, <4>1, <5>1
      <4>2. ASSUME n \in C PROVE n - a \in B
        <5>1. PICK m \in B : n = f[m]
          BY <1>8, <4>2
        <5>2. m \in Nat /\ n = m + a
          BY <1>4, <1>7, <5>1
        <5>3. n - a = m
          BY <5>2
        <5>4. QED
          BY <5>1, <5>3
      <4>3. QED
        BY <4>1, <4>2
    <3>4. QED
      BY <3>1, <3>2, <3>3
  <2>3. A \union C \subseteq 1..(a + b) /\ CutFor(s \o t, i) \subseteq 1..(a + b)
    BY <1>2, <1>4, <1>7, <1>8 DEF CutFor
  <2>4. QED
    BY <2>1, <2>2, <2>3
<1>12. A \cap C = {}
  BY <1>4, <1>7, <1>8
<1>13. Cardinality(A \union C) = Cardinality(A) + Cardinality(C)
  <2>1. Cardinality(A \union C) = Cardinality(A) + Cardinality(C) - Cardinality(A \cap C)
    BY <1>6, <1>10, FS_Union
  <2>2. Cardinality(A \cap C) = 0
    BY <1>12, FS_EmptySet
  <2>3. Cardinality(A) \in Nat /\ Cardinality(C) \in Nat
    BY <1>6, <1>10, FS_CardinalityType
  <2>4. QED
    BY <2>1, <2>2, <2>3
<1>14. QED
  BY <1>3, <1>6, <1>10, <1>11, <1>13, FS_CardinalityType

\* A sequence names the members of a set, each once.
Enumerates(at, P) ==
    /\ IsFiniteSet(DOMAIN at) /\ P = {at[k] : k \in DOMAIN at}
    /\ \A k, m \in DOMAIN at : at[k] = at[m] => k = m
    /\ \E n \in Nat : DOMAIN at = 1..n

\* The order of a set of numbers names each once.
LEMMA InOrderOnce ==
    ASSUME NEW P \in SUBSET Nat, IsFiniteSet(P)
    PROVE  Enumerates(InOrder(P), P)
<1> DEFINE at == InOrder(P)
<1>1. PICK n \in Nat : n = Cardinality(P)
  BY FS_CardinalityType
<1>2. /\ at \in Seq(P) /\ DOMAIN at = 1..n
      /\ \A i \in P : \E k \in DOMAIN at : at[k] = i
  BY <1>1, InOrderFact
<1>3. \A k \in DOMAIN at : at[k] \in P
  <2>1. at \in Seq(P)
    BY <1>2
  <2>2. QED
    BY <2>1, ElementOfSeq
<1>4. at \in [1..n -> P]
  <2>1. Len(at) = n
    BY <1>2
  <2>2. QED
    BY <1>2, <2>1
<1>5. at \in Surjection(1..n, P)
  BY <1>2, <1>4 DEF Surjection
<1>6. IsFiniteSet(1..n) /\ Cardinality(1..n) = Cardinality(P)
  <2>1. Cardinality(1..n) = IF 1 > n THEN 0 ELSE n - 1 + 1
    BY FS_Interval
  <2>2. QED
    BY <1>1, <2>1, FS_Interval
<1>7. at \in Injection(1..n, P)
  BY <1>5, <1>6, FS_SurjSameCardinalityImpliesInj
<1>8. \A k, m \in DOMAIN at : at[k] = at[m] => k = m
  BY <1>2, <1>7 DEF Injection, IsInjective
<1>9. P = {at[k] : k \in DOMAIN at}
  BY <1>2, <1>3
<1> HIDE DEF at
<1>10. Enumerates(at, P)
  BY <1>2, <1>6, <1>8, <1>9 DEF Enumerates
<1>11. QED
  BY <1>10 DEF at

\* What a set of numbers selects counts the same taken in order.
LEMMA CountInOrder ==
    ASSUME NEW P \in SUBSET Nat, IsFiniteSet(P), NEW at, at = InOrder(P), NEW good
    PROVE  Cardinality({k \in DOMAIN at : good[at[k]]}) = Cardinality({n \in P : good[n]})
<1>1. /\ IsFiniteSet(DOMAIN at) /\ P = {at[k] : k \in DOMAIN at}
      /\ \A k, m \in DOMAIN at : at[k] = at[m] => k = m
  <2>1. Enumerates(at, P)
    BY InOrderOnce
  <2>2. QED
    BY <2>1 DEF Enumerates
<1>2. PICK K : K = {k \in DOMAIN at : good[at[k]]}
  OBVIOUS
<1>3. IsFiniteSet(K) /\ K \subseteq DOMAIN at
  BY <1>1, <1>2, FS_Subset
<1>4. {n \in P : good[n]} = {at[k] : k \in K}
  <2>1. ASSUME NEW n \in P, good[n] PROVE n \in {at[k] : k \in K}
    <3>1. PICK k \in DOMAIN at : n = at[k]
      BY <1>1
    <3>2. k \in K
      BY <1>2, <2>1, <3>1
    <3>3. QED
      BY <3>1, <3>2
  <2>2. ASSUME NEW k \in K PROVE at[k] \in P /\ good[at[k]]
    BY <1>1, <1>2
  <2>3. QED
    BY <2>1, <2>2
<1>5. \A k, m \in K : at[k] = at[m] => k = m
  BY <1>1, <1>3
<1>6. QED
  BY <1>2, <1>3, <1>4, <1>5, NamesCount

\* Whole sheets first cuts each row as often.
LEMMA SortedCuts ==
    ASSUME NEW S, NEW sheets \in Seq(S), \A n \in DOMAIN sheets : sheets[n].half \in BOOLEAN,
           NEW i
    PROVE  Cardinality(CutFor(order_sheets(sheets), i)) = Cardinality(CutFor(sheets, i))
<1>1. PICK N \in Nat : DOMAIN sheets = 1..N
  OBVIOUS
<1>2. PICK good : good = [n \in DOMAIN sheets |-> sheets[n].row = i]
  OBVIOUS
<1>3. ASSUME NEW half \in BOOLEAN, NEW P, P = {n \in DOMAIN sheets : sheets[n].half = half}
      PROVE  /\ Cardinality(CutFor(Sorted(sheets, half), i)) = Cardinality({n \in P : good[n]})
             /\ IsFiniteSet({n \in P : good[n]})
  <2>1. IsFiniteSet(1..N)
    BY FS_Interval
  <2>2. P \in SUBSET Nat /\ IsFiniteSet(P) /\ P \subseteq DOMAIN sheets
    BY <1>1, <1>3, <2>1, FS_Subset
  <2>3. PICK at : at = InOrder(P)
    OBVIOUS
  <2>4. /\ IsFiniteSet(DOMAIN at) /\ P = {at[k] : k \in DOMAIN at}
        /\ \A k, m \in DOMAIN at : at[k] = at[m] => k = m
    <3>1. Enumerates(at, P)
      BY <2>2, <2>3, InOrderOnce
    <3>2. QED
      BY <3>1 DEF Enumerates
  <2>5. Sorted(sheets, half) = [k \in DOMAIN at |-> sheets[at[k]]]
    BY <1>3, <2>3 DEF Sorted
  <2>6. PICK s : s = Sorted(sheets, half)
    OBVIOUS
  <2>7. DOMAIN s = DOMAIN at /\ \A k \in DOMAIN at : s[k] = sheets[at[k]] /\ at[k] \in P
    BY <2>4, <2>5, <2>6
  <2>8. CutFor(s, i) = {k \in DOMAIN at : good[at[k]]}
    BY <1>2, <2>2, <2>7 DEF CutFor
  <2>9. Cardinality({k \in DOMAIN at : good[at[k]]}) = Cardinality({n \in P : good[n]})
    BY <2>2, <2>3, CountInOrder
  <2>10. IsFiniteSet({n \in P : good[n]})
    BY <2>2, FS_Subset
  <2>11. QED
    BY <2>6, <2>8, <2>9, <2>10
<1>4. PICK W, H : /\ W = {n \in DOMAIN sheets : sheets[n].half = FALSE}
                  /\ H = {n \in DOMAIN sheets : sheets[n].half = TRUE}
  OBVIOUS
<1>5. PICK A, B : A = {n \in W : good[n]} /\ B = {n \in H : good[n]}
  OBVIOUS
<1>6. /\ Cardinality(CutFor(Sorted(sheets, FALSE), i)) = Cardinality(A) /\ IsFiniteSet(A)
      /\ Cardinality(CutFor(Sorted(sheets, TRUE), i)) = Cardinality(B) /\ IsFiniteSet(B)
  BY <1>3, <1>4, <1>5
<1>7. A \cap B = {} /\ A \union B = CutFor(sheets, i)
  BY <1>2, <1>4, <1>5 DEF CutFor
<1>8. PICK k, m \in Nat : k = Cardinality(A) /\ m = Cardinality(B)
  BY <1>6, FS_CardinalityType
<1>9. Cardinality(A \union B) = k + m
  <2>1. Cardinality(A \union B) = Cardinality(A) + Cardinality(B) - Cardinality(A \cap B)
    BY <1>6, FS_Union
  <2>2. Cardinality(A \cap B) = 0
    BY <1>7, FS_EmptySet
  <2>3. QED
    BY <1>8, <2>1, <2>2
<1>10. PICK s, t : s = Sorted(sheets, FALSE) /\ t = Sorted(sheets, TRUE)
  OBVIOUS
<1>11. s \in Seq(S) /\ t \in Seq(S)
  BY <1>10, SortedFact
<1>12. Cardinality(CutFor(s \o t, i)) = k + m
  <2>1. Cardinality(CutFor(s, i)) = k /\ Cardinality(CutFor(t, i)) = m
    BY <1>6, <1>8, <1>10
  <2>2. Cardinality(CutFor(s \o t, i)) = Cardinality(CutFor(s, i)) + Cardinality(CutFor(t, i))
    BY <1>11, CutForBoth
  <2>3. QED
    BY <2>1, <2>2
<1>13. order_sheets(sheets) = s \o t
  BY <1>10 DEF order_sheets
<1>14. QED
  BY <1>7, <1>9, <1>12, <1>13

\* A pool cuts of a row the pieces that get a sheet.
LEMMA PoolCuts ==
    ASSUME NEW c, IsCart(c), NEW r \in Reads, NEW key, NEW i
    PROVE  Cardinality(CutFor(PoolSheets(c, r, key), i)) =
              Cardinality({m \in DOMAIN Instances(c, key) :
                              GetsSheet(c, r, key, m) /\ Instances(c, key)[m] = i})
<1>1. PICK pieces : pieces = Instances(c, key) /\ \A m \in DOMAIN pieces : pieces[m] \in DOMAIN c.rows
  <2>1. RowsAlike(c, c)
    BY DEF RowsAlike
  <2>2. QED
    BY <2>1, InstancesAlike
<1>2. PICK N \in Nat : DOMAIN pieces = 1..N /\ IsFiniteSet(1..N)
  BY <1>1, PiecesAreFinite
<1>3. PICK P : P = {n \in DOMAIN pieces : GetsSheet(c, r, key, n)}
  OBVIOUS
<1>4. P \in SUBSET Nat /\ IsFiniteSet(P) /\ P \subseteq DOMAIN pieces
  BY <1>2, <1>3, FS_Subset
<1>5. PICK placed : placed = InOrder(P)
  OBVIOUS
<1>6. /\ DOMAIN placed = 1..Len(placed) /\ Len(placed) \in Nat
      /\ \A k \in DOMAIN placed : placed[k] \in DOMAIN pieces /\ BinsFor(c, r, pieces[placed[k]]) # {}
  <2>1. placed = InOrder({n \in DOMAIN Instances(c, key) : GetsSheet(c, r, key, n)})
    BY <1>1, <1>3, <1>5
  <2>2. /\ DOMAIN placed = 1..Len(placed) /\ Len(placed) \in Nat
        /\ \A k \in DOMAIN placed :
              /\ placed[k] \in DOMAIN Instances(c, key) /\ GetsSheet(c, r, key, placed[k])
              /\ BinsFor(c, r, Instances(c, key)[placed[k]]) # {}
    BY <2>1, PlacedFact
  <2>3. QED
    BY <1>1, <2>2
<1>7. PICK sheets : sheets = [k \in DOMAIN placed |-> SheetFor(c, r, pieces[placed[k]])]
  OBVIOUS
<1>8. ASSUME NEW k \in DOMAIN placed
      PROVE  /\ sheets[k] \in Sheets(c, r) /\ sheets[k].half \in BOOLEAN
             /\ sheets[k].row = pieces[placed[k]]
  <2>1. PICK j \in DOMAIN c.rows : j = pieces[placed[k]] /\ BinsFor(c, r, j) # {}
    BY <1>1, <1>6
  <2>2. PICK s : s = SheetFor(c, r, j) /\ s = sheets[k] /\ IsSheet(s, c, r)
    BY <1>7, <2>1, SheetForFact
  <2>3. s.half \in BOOLEAN /\ s \in Sheets(c, r)
    BY <2>1, <2>2 DEF IsSheet, Priced, Sheets
  <2>4. s.row = j
    BY <2>2 DEF SheetFor
  <2>5. QED
    BY <2>1, <2>2, <2>3, <2>4
<1>9. sheets \in Seq(Sheets(c, r)) /\ DOMAIN sheets = DOMAIN placed
  <2>1. sheets \in [1..Len(placed) -> Sheets(c, r)]
    BY <1>6, <1>7, <1>8
  <2>2. QED
    BY <1>6, <1>7, <2>1
<1>10. PoolSheets(c, r, key) = order_sheets(sheets)
  BY <1>1, <1>3, <1>5, <1>7 DEF PoolSheets
<1>11. Cardinality(CutFor(order_sheets(sheets), i)) = Cardinality(CutFor(sheets, i))
  BY <1>8, <1>9, SortedCuts
<1>12. PICK good : good = [n \in DOMAIN pieces |-> pieces[n] = i]
  OBVIOUS
<1>13. CutFor(sheets, i) = {k \in DOMAIN placed : good[placed[k]]}
  BY <1>6, <1>8, <1>9, <1>12 DEF CutFor
<1>14. Cardinality({k \in DOMAIN placed : good[placed[k]]}) = Cardinality({n \in P : good[n]})
  BY <1>4, <1>5, CountInOrder
<1>15. {n \in P : good[n]} = {m \in DOMAIN pieces : GetsSheet(c, r, key, m) /\ pieces[m] = i}
  BY <1>3, <1>12
<1>16. QED
  BY <1>1, <1>10, <1>11, <1>13, <1>14, <1>15

\* Where nothing is left out, every piece of a row gets a sheet of its pool.
LEMMA AllCut ==
    ASSUME NEW c, IsCart(c), NEW r \in Reads, group_unplaced(c, r) = {},
           NEW key \in {"board", "offcut"}, NEW i \in DOMAIN c.rows
    PROVE  Cardinality(CutFor(PoolSheets(c, r, key), i))
              = IF c.rows[i].on = key THEN c.rows[i].quantity ELSE 0
<1>1. PICK pieces : pieces = Instances(c, key)
  OBVIOUS
<1>2. PICK N \in Nat : DOMAIN pieces = 1..N /\ IsFiniteSet(1..N)
  BY <1>1, PiecesAreFinite
<1>3. PICK I : I = {m \in DOMAIN pieces : pieces[m] = i} /\ IsFiniteSet(I)
  BY <1>2, FS_Subset
<1>4. PICK G : G = {m \in DOMAIN pieces : GetsSheet(c, r, key, m) /\ pieces[m] = i}
  OBVIOUS
<1>5. Cardinality(I) = IF c.rows[i].on = key THEN c.rows[i].quantity ELSE 0
  BY <1>1, <1>3, PiecesOfRow
<1>6. Cardinality(CutFor(PoolSheets(c, r, key), i)) = Cardinality(G)
  BY <1>1, <1>4, PoolCuts
<1>7. CASE c.rows[i].on = key
  <2>1. PICK A : A = {m \in DOMAIN pieces : pieces[m] = i /\ ~GetsSheet(c, r, key, m)}
    OBVIOUS
  <2>2. IsFiniteSet(A)
    BY <1>2, <2>1, FS_Subset
  <2>3. Uncut(c, r, i) = Cardinality(A)
    BY <1>1, <1>7, <2>1 DEF Uncut
  <2>4. ~(Uncut(c, r, i) > 0)
    <3>1. PICK left : left = {j \in DOMAIN c.rows : Uncut(c, r, j) > 0}
      OBVIOUS
    <3>2. {[on |-> c.rows[j].on, row |-> j, cut |-> CutOf(c, r, j), quantity |-> Uncut(c, r, j)] :
              j \in left} = {}
      BY <3>1 DEF group_unplaced
    <3>3. i \notin left
      BY <3>2
    <3>4. QED
      BY <3>1, <3>3
  <2>5. Cardinality(A) = 0
    <3>1. Cardinality(A) \in Nat /\ ~(Cardinality(A) > 0)
      BY <2>2, <2>3, <2>4, FS_CardinalityType
    <3>2. QED
      BY <3>1
  <2>6. A = {}
    BY <2>2, <2>5, FS_EmptySet
  <2>7. G = I
    BY <1>3, <1>4, <2>1, <2>6
  <2>8. QED
    BY <1>5, <1>6, <2>7
<1>8. CASE c.rows[i].on # key
  <2>1. I = {}
    BY <1>3, <1>5, <1>8, FS_EmptySet
  <2>2. G = I
    BY <1>3, <1>4, <2>1
  <2>3. QED
    BY <1>5, <1>6, <2>2
<1>9. QED
  BY <1>7, <1>8

\* And every row is cut as many times as it asks for.
LEMMA PlanCutsAll ==
    ASSUME NEW c, IsCart(c), NEW r \in Reads, group_unplaced(c, r) = {}, NEW i \in DOMAIN c.rows
    PROVE  Cardinality(CutFor(AllSheets(c, r), i)) = c.rows[i].quantity
<1>1. PICK first \in {"board", "offcut"} : first = c.rows[1].on
  BY CartKeysFact
<1>2. PICK key \in {"board", "offcut"} : key = c.rows[i].on /\ key \in UsedKeys(c)
  BY CartKeysFact
<1>3. PICK q \in Nat : q = c.rows[i].quantity
  BY DEF IsCart
<1>4. first \in UsedKeys(c) /\ UsedKeys(c) \subseteq {"board", "offcut"}
  BY <1>1, CartKeysFact
<1>5. PICK s : s = PoolSheets(c, r, first) /\ s \in Seq(Sheets(c, r))
  BY PoolSheetsFact
<1>6. Cardinality(CutFor(s, i)) = IF key = first THEN q ELSE 0
  BY <1>1, <1>2, <1>3, <1>5, AllCut
<1>7. CASE UsedKeys(c) = {first}
  <2>1. PICK t : t = <<>> /\ t \in Seq(Sheets(c, r))
    BY EmptySeq
  <2>2. AllSheets(c, r) = s \o t
    BY <1>1, <1>5, <1>7, <2>1 DEF AllSheets
  <2>3. CutFor(t, i) = {}
    BY <2>1 DEF CutFor
  <2>4. Cardinality(CutFor(t, i)) = 0
    BY <2>3, FS_EmptySet
  <2>5. Cardinality(CutFor(s \o t, i)) = Cardinality(CutFor(s, i)) + Cardinality(CutFor(t, i))
    BY <1>5, <2>1, CutForBoth
  <2>6. key = first
    BY <1>2, <1>7
  <2>7. QED
    BY <1>3, <1>6, <2>2, <2>4, <2>5, <2>6
<1>8. CASE UsedKeys(c) # {first}
  <2>1. PICK other : other = CHOOSE k \in UsedKeys(c) : k # first
    OBVIOUS
  <2>2. other \in UsedKeys(c) /\ other # first
    BY <1>4, <1>8, <2>1
  <2>3. other \in {"board", "offcut"} /\ key \in {first, other}
    BY <1>1, <1>2, <1>4, <2>2
  <2>4. PICK t : t = PoolSheets(c, r, other) /\ t \in Seq(Sheets(c, r))
    BY PoolSheetsFact
  <2>5. AllSheets(c, r) = s \o t
    BY <1>1, <1>5, <1>8, <2>1, <2>4 DEF AllSheets
  <2>6. Cardinality(CutFor(t, i)) = IF key = other THEN q ELSE 0
    BY <1>2, <1>3, <2>3, <2>4, AllCut
  <2>7. Cardinality(CutFor(s \o t, i)) = Cardinality(CutFor(s, i)) + Cardinality(CutFor(t, i))
    BY <1>5, <2>4, CutForBoth
  <2>8. QED
    BY <1>3, <1>6, <2>2, <2>3, <2>5, <2>6, <2>7
<1>9. QED
  BY <1>7, <1>8

\* There is tape on the bill exactly when a row is banded.
LEMMA TapeBilled ==
    ASSUME NEW c, IsCart(c), NEW r \in Reads
    PROVE  BilledTape(c, r) > 0 <=> \E i \in DOMAIN c.rows : Banded(c.rows[i])
<1>1. PICK D : D = DOMAIN c.rows /\ IsFiniteSet(D)
  <2>1. DOMAIN c.rows = 1..Len(c.rows) /\ Len(c.rows) \in Nat
    BY DEF IsCart
  <2>2. QED
    BY <2>1, FS_Interval
<1>2. PICK f : f = [i \in D |-> c.rows[i].quantity * Contour(c.rows[i], c.rows[i].sides)]
  OBVIOUS
<1>3. ASSUME NEW i \in D PROVE f[i] \in Nat /\ (f[i] = 0 <=> ~Banded(c.rows[i]))
  <2>1. PICK row : row = c.rows[i]
    OBVIOUS
  <2>2. row.height \in Nat \ {0} /\ row.width \in Nat \ {0}
    BY <1>1, <2>1 DEF IsCart
  <2>3. PICK q \in Nat \ {0} : q = row.quantity
    BY <1>1, <2>1 DEF IsCart
  <2>4. IsFiniteSet(row.sides)
    BY <1>1, <2>1, SidesAreFinite
  <2>5. PICK g : g = [s \in row.sides |-> side_length(row, s)]
    OBVIOUS
  <2>6. \A s \in row.sides : g[s] \in Nat /\ g[s] # 0
    BY <2>2, <2>5 DEF side_length
  <2>7. PICK m \in Nat : m = Total(g, row.sides)
    BY <2>4, <2>6, TotalIsNatural
  <2>8. m = 0 <=> row.sides = {}
    <3>1. CASE row.sides = {}
      BY <2>7, <3>1, TotalOfNothing
    <3>2. CASE row.sides # {}
      <4>1. PICK s \in row.sides : TRUE
        BY <3>2
      <4>2. Total(g, row.sides) = g[s] + Total(g, row.sides \ {s})
        BY <2>4, <2>6, TotalSplits
      <4>3. PICK R : R = row.sides \ {s} /\ IsFiniteSet(R)
        BY <2>4, FS_Subset
      <4>4. Total(g, R) \in Nat
        <5>1. \A x \in R : g[x] \in Nat
          BY <2>6, <4>3
        <5>2. QED
          BY <4>3, <5>1, TotalIsNatural
      <4>5. g[s] \in Nat /\ g[s] # 0
        BY <2>6
      <4>6. QED
        BY <2>7, <3>2, <4>2, <4>3, <4>4, <4>5
    <3>3. QED
      BY <3>1, <3>2
  <2>9. f[i] = q * m
    BY <1>2, <2>1, <2>3, <2>5, <2>7 DEF Contour
  <2>10. q * m \in Nat /\ (q * m = 0 <=> m = 0)
    OBVIOUS
  <2>11. QED
    BY <2>1, <2>8, <2>9, <2>10 DEF Banded
<1>4. PICK n \in Nat : n = Total(f, D)
  BY <1>1, <1>3, TotalIsNatural
<1>5. n = 0 <=> \A i \in D : ~Banded(c.rows[i])
  <2>1. CASE \A i \in D : ~Banded(c.rows[i])
    <3>1. \A i \in D : f[i] = 0
      BY <1>3, <2>1
    <3>2. QED
      BY <1>1, <1>4, <2>1, <3>1, TotalOfZeros
  <2>2. CASE \E i \in D : Banded(c.rows[i])
    <3>1. PICK i \in D : Banded(c.rows[i])
      BY <2>2
    <3>2. Total(f, D) = f[i] + Total(f, D \ {i})
      BY <1>1, <1>3, TotalSplits
    <3>3. PICK R : R = D \ {i} /\ IsFiniteSet(R)
      BY <1>1, FS_Subset
    <3>4. Total(f, R) \in Nat
      <4>1. \A x \in R : f[x] \in Nat
        BY <1>3, <3>3
      <4>2. QED
        BY <3>3, <4>1, TotalIsNatural
    <3>5. f[i] \in Nat /\ f[i] # 0
      BY <1>3, <3>1
    <3>6. QED
      BY <1>4, <2>2, <3>2, <3>3, <3>4, <3>5
  <2>3. QED
    BY <2>1, <2>2
<1>6. n = TapeLength(c)
  BY <1>1, <1>2, <1>4 DEF TapeLength
<1>7. PICK w \in Nat : w = r.policy.waste
  BY ReadFact
<1>8. PICK k \in Nat : k = n * (100 + w) /\ (n = 0 => k = 0) /\ (n # 0 => k >= 100)
  <2>1. n * (100 + w) = n * 100 + n * w /\ n * w \in Nat
    OBVIOUS
  <2>2. n = 0 => n * w = 0
    OBVIOUS
  <2>3. QED
    BY <2>1, <2>2
<1>9. BilledTape(c, r) = (2 * k + 100) \div 200
  BY <1>6, <1>7, <1>8 DEF BilledTape, Rounded
<1>10. (2 * k + 100) \div 200 > 0 <=> k # 0
  <2>1. k = 0 \/ k >= 100
    BY <1>8
  <2>2. QED
    BY <2>1
<1>11. QED
  BY <1>1, <1>5, <1>8, <1>9, <1>10

\* An order of a cart cuts all of it, bills its sheets and bands what is banded.
IsWhole(order, cart) ==
    /\ \A i \in DOMAIN cart.rows :
          Cardinality(CutFor(order.sheets, i)) = cart.rows[i].quantity
    /\ order.subtotal = Total([l \in order.lines |-> l.total], order.lines)
                          + order.tapeCost + order.services
    /\ order.banding <=> \E i \in DOMAIN cart.rows : Banded(cart.rows[i])

\* What a complete plan freezes is.
LEMMA FrozenFact ==
    ASSUME QuoteInv, NEW c \in Planned, Complete(seat[c].plan)
    PROVE  Frozen(c).cart = seat[c].cart /\ IsWhole(Frozen(c), CartOf(c))
<1>1. PICK cart, r, p : cart = CartOf(c) /\ r = seat[c].read /\ p = seat[c].plan
  OBVIOUS
<1>2. IsPlan(p, cart, r) /\ IsCart(cart) /\ r \in Reads
  BY <1>1, PlannedFact
<1>3. PICK f : f = Finished(p, cart, r)
  OBVIOUS
<1>4. PICK bill : bill = build_pricing(p, cart, r, policy.tax)
  OBVIOUS
<1>5. PICK hash : hash = HashOf(c)
  OBVIOUS
<1>6. PICK banding : banding = (f.tapeLength > 0)
  OBVIOUS
<1>7. PICK o : o = Frozen(c)
  OBVIOUS
<1>8. o = [cart |-> seat[c].cart, hash |-> hash, services |-> bill.services,
           subtotal |-> bill.subtotal, total |-> bill.total, sheets |-> f.sheets,
           lines |-> f.summary, tapeCost |-> f.tapeCost, banding |-> banding]
  BY <1>1, <1>3, <1>4, <1>5, <1>6, <1>7 DEF Frozen
<1>9. /\ o.cart = seat[c].cart /\ o.services = bill.services /\ o.subtotal = bill.subtotal
      /\ o.sheets = f.sheets /\ o.lines = f.summary /\ o.tapeCost = f.tapeCost
      /\ o.banding = banding
  BY <1>8
<1>10. ASSUME NEW i \in DOMAIN cart.rows
       PROVE  Cardinality(CutFor(f.sheets, i)) = cart.rows[i].quantity
  <2>1. ASSUME NEW n \in DOMAIN p.sheets PROVE f.sheets[n].row = p.sheets[n].row
    <3>1. PICK s : s = p.sheets[n] /\ IsSheet(s, cart, r)
      BY <1>2 DEF IsPlan
    <3>2. PICK t : t = f.sheets[n]
      OBVIOUS
    <3>3. t = SoldAs(s, cart, r)
      BY <1>2, <1>3, <3>1, <3>2, SoldSheets
    <3>4. t = [on |-> s.on, half |-> t.half, price |-> t.price, height |-> t.height,
               width |-> t.width, row |-> s.row, turned |-> s.turned, edges |-> s.edges,
               freed |-> t.freed]
      BY <1>2, <3>1, <3>3, SoldFact
    <3>5. t.row = s.row
      BY <3>4
    <3>6. QED
      BY <3>1, <3>2, <3>5
  <2>2. DOMAIN f.sheets = DOMAIN p.sheets
    BY <1>2, <1>3, SoldSheets
  <2>3. CutFor(f.sheets, i) = CutFor(p.sheets, i)
    BY <2>1, <2>2 DEF CutFor
  <2>4. p.sheets = AllSheets(cart, r) /\ group_unplaced(cart, r) = {}
    BY <1>1, <1>2 DEF IsPlan, Complete
  <2>5. QED
    BY <1>2, <1>10, <2>3, <2>4, PlanCutsAll
<1>11. /\ IsBill(f) /\ f.tapeCost = p.tapeCost /\ f.tapeLength = p.tapeLength
       /\ f.sheets = [n \in DOMAIN p.sheets |-> SoldAs(p.sheets[n], cart, r)]
  BY <1>2, <1>3, FinishedFact
<1>12. f.boardsCost = Total([l \in f.summary |-> l.total], f.summary)
  BY <1>11, LinesAddUp DEF IsBill
<1>13. bill.subtotal = f.boardsCost + f.tapeCost + bill.services
  BY <1>3, <1>4 DEF build_pricing
<1>14. banding <=> \E i \in DOMAIN cart.rows : Banded(cart.rows[i])
  BY <1>2, <1>6, <1>11, TapeBilled DEF IsPlan
<1>15. QED
  BY <1>1, <1>7, <1>9, <1>10, <1>12, <1>13, <1>14 DEF IsWhole

\* What is minted stays, and is whole when it is.
MintedWhole ==
    \A n \in DOMAIN minted : IsWhole(minted[n], Carts[minted[n].cart])

\* Every order made stays whole, and a new one is.
LEMMA MintedStep ==
    ASSUME QuoteInv, MintedWhole, [QuoteNext]_quoteVars
    PROVE  MintedWhole'
<1>1. CASE UNCHANGED minted
  BY <1>1 DEF MintedWhole
<1>2. ASSUME NEW c \in Counters, CreateOrder(c) PROVE MintedWhole'
  <2>1. CASE UNCHANGED minted
    BY <2>1 DEF MintedWhole
  <2>2. CASE minted' = Append(minted, Frozen(c))
    <3>1. c \in Planned /\ Complete(seat[c].plan)
      BY <1>2 DEF CreateOrder, Planned
    <3>2. PICK o : o = Frozen(c) /\ IsWhole(o, Carts[o.cart])
      BY <3>1, FrozenFact DEF CartOf
    <3>3. PICK S : minted \in Seq(S)
      BY DEF QuoteInv
    <3>4. /\ DOMAIN minted' = DOMAIN minted \union {Len(minted) + 1}
          /\ \A n \in DOMAIN minted : minted'[n] = minted[n] /\ minted'[Len(minted) + 1] = o
      BY <2>2, <3>2, <3>3
    <3>5. ASSUME NEW n \in DOMAIN minted' PROVE IsWhole(minted'[n], Carts[minted'[n].cart])
      <4>1. CASE n \in DOMAIN minted
        <5>1. minted'[n] = minted[n]
          BY <3>4, <4>1
        <5>2. QED
          BY <4>1, <5>1 DEF MintedWhole
      <4>2. CASE n = Len(minted) + 1
        <5>1. minted'[n] = o
          BY <2>2, <3>2, <3>3, <4>2
        <5>2. QED
          BY <3>2, <5>1
      <4>3. QED
        BY <3>4, <3>5, <4>1, <4>2
    <3>6. QED
      BY <3>5 DEF MintedWhole
  <2>3. QED
    BY <1>2, <2>1, <2>2 DEF CreateOrder
<1>3. QED
  BY <1>1, <1>2 DEF QuoteNext, quoteVars, Ask, ResolveBoard, ResolveTape, Hit, Miss, Search,
     Answer, Refuse, update_cutting, EditBoard, EditTape, ExpirePlan

\* Of QuotesAgree, OrdersAreWhole: an order is only minted of a plan with nothing left out,
\* and such a plan cuts each row as often as it was asked for, across its two pools; what is
\* frozen bills its sheets, and goes to the banding queue exactly when a row is banded.
THEOREM OrdersCutAll == QuoteSpec => []OrdersAreWhole
<1>1. QuoteInit => MintedWhole
  BY DEF QuoteInit, MintedWhole
<1>2. QuoteInv /\ MintedWhole /\ [QuoteNext]_quoteVars => MintedWhole'
  BY MintedStep
<1>3. MintedWhole => OrdersAreWhole
  BY DEF MintedWhole, IsWhole, OrdersAreWhole, CutFor
<1>4. QED
  BY <1>1, <1>2, <1>3, QuotesSafe, PTL DEF QuoteSpec

-----------------------------------------------------------------------------
(* Quote: the reasons *)

\* The size a row is cut to is a pair of integers.
LEMMA OwnCutFact ==
    ASSUME NEW c, IsCart(c), NEW i \in DOMAIN c.rows, NEW tape, NEW mm \in Nat
    PROVE  /\ OwnCut(c.rows[i], tape, mm)[1] \in Int /\ OwnCut(c.rows[i], tape, mm)[2] \in Int
           /\ OwnCut(c.rows[i], tape, mm) = <<OwnCut(c.rows[i], tape, mm)[1],
                                              OwnCut(c.rows[i], tape, mm)[2]>>
<1>1. PICK row : row = c.rows[i]
  OBVIOUS
<1>2. PICK h, w \in Nat : h = row.height /\ w = row.width
  BY <1>1 DEF IsCart
<1>3. PICK S : S = row.sides /\ IsFiniteSet(S)
  BY <1>1, SidesAreFinite
<1>4. ASSUME NEW T, NEW size \in Nat PROVE Shorten(size, Cardinality(S \cap T), mm) \in Int
  <2>1. PICK n \in Nat : n = Cardinality(S \cap T)
    BY <1>3, FS_Intersection, FS_CardinalityType
  <2>2. n * mm \in Nat
    OBVIOUS
  <2>3. QED
    BY <2>1, <2>2 DEF Shorten
<1>5. PICK a, b \in Int : /\ a = Shorten(h, Cardinality(S \cap {"top", "bottom"}), mm)
                          /\ b = Shorten(w, Cardinality(S \cap {"left", "right"}), mm)
  BY <1>4
<1>6. OwnCut(row, tape, mm) = IF hard_edge_rule_applies(row, tape) THEN <<a, b>> ELSE <<h, w>>
  BY <1>2, <1>3, <1>5 DEF OwnCut
<1>7. QED
  BY <1>1, <1>6

\* What an assembly takes off is a number.
LEMMA DiscountIsInt ==
    ASSUME NEW c, IsCart(c), NEW i \in DOMAIN c.rows, NEW tape, NEW mm \in Nat, NEW axis \in {1, 2}
    PROVE  GroupDiscount(c, i, tape, mm, axis) \in Int
<1>1. PICK J : J = Together(c, i) /\ IsFiniteSet(J) /\ J \subseteq DOMAIN c.rows
  <2>1. PICK J : J = Together(c, i) /\ J \subseteq 1..Len(c.rows) /\ J \subseteq DOMAIN c.rows
    <3>1. Together(c, i) \subseteq DOMAIN c.rows
      BY DEF Together
    <3>2. DOMAIN c.rows = 1..Len(c.rows)
      BY DEF IsCart
    <3>3. QED
      BY <3>1, <3>2
  <2>2. IsFiniteSet(1..Len(c.rows))
    BY FS_Interval DEF IsCart
  <2>3. QED
    BY <2>1, <2>2, FS_Subset
<1>2. PICK f : f = [j \in J |-> OwnCut(c.rows[j], tape, mm)[axis]
                                  - <<c.rows[j].height, c.rows[j].width>>[axis]]
  OBVIOUS
<1>3. ASSUME NEW j \in J PROVE f[j] \in Int
  <2>1. OwnCut(c.rows[j], tape, mm)[axis] \in Int
    BY <1>1, OwnCutFact
  <2>2. <<c.rows[j].height, c.rows[j].width>>[axis] \in Int
    BY <1>1 DEF IsCart
  <2>3. QED
    BY <1>2, <2>1, <2>2
<1>4. PICK T : T = {f[j] : j \in J} /\ IsFiniteSet(T)
  BY <1>1, ImageIsFinite
<1>5. PICK U : U = {0} \union T
  OBVIOUS
<1>6. IsFiniteSet(U) /\ U \in SUBSET Int /\ U # {}
  <2>1. IsFiniteSet({0} \union T)
    BY <1>4, FS_Singleton, FS_Union
  <2>2. QED
    BY <1>3, <1>4, <1>5, <2>1
<1>7. Min(U) \in Int
  BY <1>6, LeastIsThere
<1>8. QED
  BY <1>1, <1>2, <1>4, <1>5, <1>7 DEF GroupDiscount

\* A row is cut to a pair of integers, layer or not.
LEMMA CutIsInts ==
    ASSUME NEW c, IsCart(c), NEW r \in Reads, NEW i \in DOMAIN c.rows
    PROVE  \E x, y \in Int : CutOf(c, r, i) = <<x, y>>
<1>1. r.policy.hard \in Nat /\ r.policy.allowance \in Nat
  BY ReadFact
<1>2. c.rows[i].height \in Int /\ c.rows[i].width \in Int
  BY DEF IsCart
<1>3. CASE IsLayer(c.rows[i])
  <2>1. PICK x, y \in Int : /\ x = GroupDiscount(c, i, r.tape, r.policy.hard, 1)
                            /\ y = GroupDiscount(c, i, r.tape, r.policy.hard, 2)
    BY <1>1, DiscountIsInt
  <2>2. PICK h, w, a \in Int : h = c.rows[i].height /\ w = c.rows[i].width /\ a = r.policy.allowance
    BY <1>1, <1>2
  <2>3. CutOf(c, r, i) = <<h + a + x, w + a + y>>
    BY <1>3, <2>1, <2>2 DEF CutOf, cut_size
  <2>4. h + a + x \in Int /\ w + a + y \in Int
    OBVIOUS
  <2>5. QED
    BY <2>3, <2>4
<1>4. CASE ~IsLayer(c.rows[i])
  <2>1. CutOf(c, r, i) = OwnCut(c.rows[i], r.tape, r.policy.hard)
    BY <1>4 DEF CutOf, cut_size
  <2>2. QED
    BY <1>1, <2>1, OwnCutFact
<1>5. QED
  BY <1>3, <1>4

\* What fits a sheet fits a larger one, and one that is trimmed less.
LEMMA FitsMore ==
    ASSUME NEW x \in Int, NEW y \in Int, NEW turns \in BOOLEAN, NEW a, NEW b,
           a.height \in Int, a.width \in Int, b.height \in Int, b.width \in Int,
           a.height <= b.height, a.width <= b.width,
           NEW t \in Int, NEW u \in Int, u <= t, FitsSheet(<<x, y>>, turns, a, t)
    PROVE  FitsSheet(<<x, y>>, turns, b, u)
<1>1. Reverse(<<x, y>>) = <<y, x>>
  BY DEF Reverse
<1>2. ASSUME NEW p \in Int, NEW q \in Int, FitsStraight(<<p, q>>, a, t)
      PROVE  FitsStraight(<<p, q>>, b, u)
  <2>1. p <= a.height - t /\ q <= a.width - t
    BY <1>2 DEF FitsStraight
  <2>2. p <= b.height - u /\ q <= b.width - u
    BY <2>1
  <2>3. QED
    BY <2>2 DEF FitsStraight
<1>3. QED
  BY <1>1, <1>2 DEF FitsSheet

\* A piece fits some sheet of its pool exactly when it fits the whole one.
LEMMA FitsWhole ==
    ASSUME NEW c, IsCart(c), NEW r \in Reads, NEW key \in {"board", "offcut"},
           NEW x \in Int, NEW y \in Int, NEW turns \in BOOLEAN, NEW t \in Int,
           NEW w, w = WholeSheet(Bins(c, r, key))
    PROVE  /\ (\E b \in Bins(c, r, key) : FitsSheet(<<x, y>>, turns, b, t))
                <=> FitsSheet(<<x, y>>, turns, w, t)
           /\ w.height \in Int /\ w.width \in Int
<1>1. w \in Bins(c, r, key) /\ ~w.half
  <2>1. CASE key = "board"
    <3>1. w = [on |-> "board", half |-> FALSE, price |-> r.board.price,
               height |-> Height, width |-> Width]
      BY <2>1, WholeFact
    <3>2. PICK whole : whole = [on |-> "board", half |-> FALSE, price |-> r.board.price,
                                height |-> Height, width |-> Width]
      OBVIOUS
    <3>3. PICK H : H = HalfSpec(r.board, r.policy.markup)
      OBVIOUS
    <3>4. Bins(c, r, key) = {whole} \cup H
      BY <2>1, <3>2, <3>3 DEF Bins
    <3>5. w = whole /\ whole.half = FALSE
      BY <3>1, <3>2
    <3>6. QED
      BY <3>4, <3>5
  <2>2. CASE key = "offcut"
    <3>1. PICK b : b = [on |-> key, half |-> FALSE, price |-> 0,
                        height |-> c.offcut.height, width |-> c.offcut.width]
      OBVIOUS
    <3>2. Bins(c, r, key) = {b} /\ b.half = FALSE
      BY <2>2, <3>1 DEF Bins
    <3>3. w = CHOOSE z \in {b} : ~z.half
      BY <3>2 DEF WholeSheet
    <3>4. \E z \in {b} : ~z.half
      BY <3>2
    <3>5. w \in {b} /\ ~w.half
      BY <3>3, <3>4, Zenon
    <3>6. QED
      BY <3>2, <3>5
  <2>3. QED
    BY <2>1, <2>2
<1>2. Priced(w, r) /\ w.on = key
  BY <1>1, BinFact
<1>3. w.height \in Int /\ w.width \in Int
  BY <1>2 DEF Priced
<1>4. ASSUME NEW b \in Bins(c, r, key), FitsSheet(<<x, y>>, turns, b, t)
      PROVE  FitsSheet(<<x, y>>, turns, w, t)
  <2>1. CASE b.half
    <3>1. Priced(b, r) /\ b.on = key
      BY BinFact
    <3>2. Height \in Nat /\ Width \in Nat
      BY QuoteAssumption
    <3>3. w.height = Height /\ w.width = Width
      BY <1>1, <1>2, <2>1, <3>1 DEF Priced
    <3>4. b.height \in Int /\ b.width \in Int /\ b.height <= w.height /\ b.width <= w.width
      BY <2>1, <3>1, <3>2, <3>3 DEF Priced
    <3>5. t <= t
      OBVIOUS
    <3>6. QED
      BY <1>3, <1>4, <3>4, <3>5, FitsMore
  <2>2. CASE ~b.half
    <3>1. b.half = w.half
      BY <1>1, <1>2, <2>2, BinFact DEF Priced
    <3>2. b = w
      BY <1>1, <3>1, OneBin
    <3>3. QED
      BY <1>4, <3>2
  <2>3. QED
    BY <2>1, <2>2
<1>5. QED
  BY <1>1, <1>3, <1>4

\* The cart with as many offcuts as it has pieces for them, or untrimmed too.
SameRows(k, c) ==
    /\ k.rows = c.rows
    /\ k.offcut.height = c.offcut.height /\ k.offcut.width = c.offcut.width
    /\ k.offcut.quantity = Len(Instances(c, "offcut"))

\* The pieces of a pool are as many as they are.
LEMMA PiecesAreSeq ==
    ASSUME NEW c, IsCart(c), NEW key
    PROVE  \E N \in Nat : /\ DOMAIN Instances(c, key) = 1..N /\ Len(Instances(c, key)) = N
                          /\ \A m \in 1..N : Instances(c, key)[m] \in DOMAIN c.rows
<1>1. PICK pieces : pieces = Instances(c, key) /\ \A m \in DOMAIN pieces : pieces[m] \in DOMAIN c.rows
  <2>1. RowsAlike(c, c)
    BY DEF RowsAlike
  <2>2. QED
    BY <2>1, InstancesAlike
<1>2. PICK N \in Nat : DOMAIN pieces = 1..N
  BY <1>1, PiecesAreFinite
<1>3. pieces = [m \in 1..N |-> pieces[m]]
  BY <1>1, <1>2 DEF Instances
<1>4. PICK D : D = DOMAIN c.rows
  OBVIOUS
<1>5. pieces \in [1..N -> D]
  BY <1>1, <1>2, <1>3, <1>4
<1>6. Len(pieces) = N
  BY <1>2, <1>5
<1>7. QED
  BY <1>1, <1>2, <1>6

\* What is read of the rows alone does not change with the offcut.
LEMMA SameRowsFact ==
    ASSUME NEW k, NEW c, SameRows(k, c), NEW r, NEW i, NEW key
    PROVE  /\ Instances(k, key) = Instances(c, key) /\ CutOf(k, r, i) = CutOf(c, r, i)
           /\ Bins(k, r, key) = Bins(c, r, key)
<1>1. k.rows = c.rows
  BY DEF SameRows
<1>2. \A j : Wanted(k, key, j) = Wanted(c, key, j)
  BY <1>1 DEF Wanted, RowsOn
<1>3. Instances(k, key) = Instances(c, key)
  <2>1. PICK f : f = [m \in 1..Wanted(c, key, Len(c.rows)) |->
                         Min({j \in DOMAIN c.rows : m <= Wanted(c, key, j)})]
    OBVIOUS
  <2>2. \A m : {j \in DOMAIN k.rows : m <= Wanted(k, key, j)}
                 = {j \in DOMAIN c.rows : m <= Wanted(c, key, j)}
    BY <1>1, <1>2
  <2>3. f = [m \in 1..Wanted(k, key, Len(k.rows)) |->
                Min({j \in DOMAIN k.rows : m <= Wanted(k, key, j)})]
    BY <1>1, <1>2, <2>1, <2>2
  <2>4. QED
    BY <2>1, <2>3 DEF Instances
<1>4. \A j : Together(k, j) = Together(c, j)
  BY <1>1 DEF Together
<1>5. \A j, tape, mm, axis : GroupDiscount(k, j, tape, mm, axis) = GroupDiscount(c, j, tape, mm, axis)
  <2> SUFFICES ASSUME NEW j, NEW tape, NEW mm, NEW axis
               PROVE  GroupDiscount(k, j, tape, mm, axis) = GroupDiscount(c, j, tape, mm, axis)
    OBVIOUS
  <2>1. PICK J : J = Together(c, j) /\ J = Together(k, j)
    BY <1>4
  <2>2. PICK f : f = [n \in J |-> OwnCut(c.rows[n], tape, mm)[axis]
                                    - <<c.rows[n].height, c.rows[n].width>>[axis]]
    OBVIOUS
  <2>3. \A n \in J : f[n] = OwnCut(k.rows[n], tape, mm)[axis]
                              - <<k.rows[n].height, k.rows[n].width>>[axis]
    BY <1>1, <2>2
  <2>4. GroupDiscount(c, j, tape, mm, axis) = Min({0} \cup {f[n] : n \in J})
    BY <2>1, <2>2 DEF GroupDiscount
  <2>5. GroupDiscount(k, j, tape, mm, axis) = Min({0} \cup {f[n] : n \in J})
    BY <2>1, <2>3 DEF GroupDiscount
  <2>6. QED
    BY <2>4, <2>5
<1>6. CutOf(k, r, i) = CutOf(c, r, i)
  BY <1>1, <1>5 DEF CutOf, cut_size
<1>7. Bins(k, r, key) = Bins(c, r, key)
  BY DEF Bins, SameRows
<1>8. QED
  BY <1>3, <1>6, <1>7

\* Where the supply never runs out, a row is left out exactly when it fits no sheet.
LEMMA AmpleUncut ==
    ASSUME NEW c, IsCart(c), NEW k, SameRows(k, c), NEW r \in Reads, NEW i \in DOMAIN c.rows
    PROVE  Uncut(k, r, i) > 0 <=> BinsFor(k, r, i) = {}
<1>1. PICK key \in {"board", "offcut"} : key = c.rows[i].on /\ key = k.rows[i].on
  BY DEF IsCart, SameRows
<1>2. PICK N \in Nat : /\ DOMAIN Instances(c, key) = 1..N /\ Len(Instances(c, key)) = N
                       /\ \A m \in 1..N : Instances(c, key)[m] \in DOMAIN c.rows
  BY PiecesAreSeq
<1>3. PICK pieces : pieces = Instances(c, key) /\ pieces = Instances(k, key)
  BY SameRowsFact
<1>4. Supply(k, key) = N
  BY <1>1, <1>2, <1>3 DEF Supply, SameRows
<1>5. ASSUME NEW m \in 1..N
      PROVE  GetsSheet(k, r, key, m) <=> BinsFor(k, r, pieces[m]) # {}
  <2>1. PICK T : T = {x \in 1..(m - 1) : BinsFor(k, r, pieces[x]) # {}}
    OBVIOUS
  <2>2. m \in Nat /\ m - 1 \in Nat /\ m - 1 < N
    OBVIOUS
  <2>3. IsFiniteSet(1..(m - 1)) /\ Cardinality(1..(m - 1)) = m - 1
    BY <2>2, FS_Interval
  <2>4. T \subseteq 1..(m - 1)
    BY <2>1
  <2>5. Cardinality(T) \in Nat /\ Cardinality(T) <= m - 1
    BY <2>2, <2>3, <2>4, FS_Subset, FS_CardinalityType
  <2>6. Cardinality(T) < Supply(k, key)
    BY <1>4, <2>2, <2>5
  <2>7. QED
    BY <1>3, <2>1, <2>6 DEF GetsSheet
<1>6. PICK A : A = {m \in DOMAIN pieces : pieces[m] = i /\ ~GetsSheet(k, r, key, m)}
  OBVIOUS
<1>7. Uncut(k, r, i) = Cardinality(A)
  BY <1>1, <1>3, <1>6 DEF Uncut
<1>8. DOMAIN pieces = 1..N
  BY <1>2, <1>3
<1>9. CASE BinsFor(k, r, i) = {}
  <2>1. A = {m \in DOMAIN pieces : pieces[m] = i}
    BY <1>5, <1>6, <1>8, <1>9
  <2>2. PICK q \in Nat \ {0} : q = c.rows[i].quantity
    BY DEF IsCart
  <2>3. Cardinality({m \in DOMAIN pieces : pieces[m] = i}) =
          IF c.rows[i].on = key THEN c.rows[i].quantity ELSE 0
    <3>1. Cardinality({m \in DOMAIN Instances(c, key) : Instances(c, key)[m] = i}) =
            IF c.rows[i].on = key THEN c.rows[i].quantity ELSE 0
      BY PiecesOfRow
    <3>2. {m \in DOMAIN Instances(c, key) : Instances(c, key)[m] = i}
            = {m \in DOMAIN pieces : pieces[m] = i}
      BY <1>3
    <3>3. QED
      BY <3>1, <3>2
  <2>4. Cardinality(A) = q
    BY <1>1, <2>1, <2>2, <2>3
  <2>5. QED
    BY <1>7, <1>9, <2>2, <2>4
<1>10. CASE BinsFor(k, r, i) # {}
  <2>1. A = {}
    BY <1>5, <1>6, <1>8, <1>10
  <2>2. Cardinality(A) = 0
    BY <2>1, FS_EmptySet
  <2>3. QED
    BY <1>7, <1>10, <2>2
<1>11. QED
  BY <1>9, <1>10

\* A row is among the pieces left out exactly when some piece of it is uncut.
LEMMA LeftOutFact ==
    ASSUME NEW k, NEW r, NEW i \in DOMAIN k.rows
    PROVE  {u \in group_unplaced(k, r) : u.row = i} # {} <=> Uncut(k, r, i) > 0
<1>1. PICK left : left = {j \in DOMAIN k.rows : Uncut(k, r, j) > 0}
  OBVIOUS
<1>2. PICK f : f = [j \in left |-> [on |-> k.rows[j].on, row |-> j, cut |-> CutOf(k, r, j),
                                    quantity |-> Uncut(k, r, j)]]
  OBVIOUS
<1>3. \A j \in left : f[j].row = j
  BY <1>2
<1>4. group_unplaced(k, r) = {f[j] : j \in left}
  BY <1>1, <1>2 DEF group_unplaced
<1>5. i \in left <=> Uncut(k, r, i) > 0
  BY <1>1
<1>6. QED
  BY <1>3, <1>4, <1>5

\* A row has a sheet it fits exactly when it fits the whole one of its pool.
LEMMA FitsFact ==
    ASSUME NEW c, IsCart(c), NEW k, SameRows(k, c), NEW r \in Reads, NEW i \in DOMAIN c.rows,
           NEW t \in Int, t = PoolTrim(k, r, c.rows[i].on)
    PROVE  BinsFor(k, r, i) # {} <=>
             FitsSheet(CutOf(c, r, i), c.rows[i].turns, WholeSheet(Bins(c, r, c.rows[i].on)), t)
<1>1. PICK key \in {"board", "offcut"} : key = c.rows[i].on
  BY DEF IsCart
<1>2. PICK turns \in BOOLEAN : turns = c.rows[i].turns
  BY DEF IsCart
<1>3. PICK x, y \in Int : CutOf(c, r, i) = <<x, y>>
  BY CutIsInts
<1>4. PICK w : w = WholeSheet(Bins(c, r, key))
  OBVIOUS
<1>5. (\E b \in Bins(c, r, key) : FitsSheet(<<x, y>>, turns, b, t)) <=> FitsSheet(<<x, y>>, turns, w, t)
  BY <1>4, FitsWhole
<1>6. k.rows[i] = c.rows[i] /\ Bins(k, r, key) = Bins(c, r, key) /\ CutOf(k, r, i) = <<x, y>>
  BY <1>3, SameRowsFact DEF SameRows
<1>7. BinsFor(k, r, i) = {b \in Bins(c, r, key) : FitsSheet(<<x, y>>, turns, b, t)}
  BY <1>1, <1>2, <1>6 DEF BinsFor
<1>8. QED
  BY <1>1, <1>2, <1>3, <1>4, <1>5, <1>7

\* With that, the reason given is the one that holds.
ReasonFits(c, r, g) ==
    LET ample == [c EXCEPT !.offcut.quantity = Len(Instances(c, "offcut"))]
        untrimmed == [ample EXCEPT !.untrimmed = {"board", "offcut"}]
        LeftOut(k) == {u \in group_unplaced(k, r) : u.row = g.row}
    IN ReadAsRotatable(c, r, g) = c.rows[g.row].turns =>
         /\ (explain(c, r, g) = "out_of_stock") = (LeftOut(ample) = {})
         /\ (explain(c, r, g) = "larger_than_sheet") = (LeftOut(untrimmed) # {})

\* The reason given for a group left out is the one that holds.
LEMMA ReasonFact ==
    ASSUME NEW c, IsCart(c), NEW r \in Reads, NEW g \in group_unplaced(c, r)
    PROVE  ReasonFits(c, r, g)
<1>1. PICK i \in DOMAIN c.rows : g.row = i /\ g.on = c.rows[i].on /\ g.cut = CutOf(c, r, i)
  <2>1. PICK i \in DOMAIN c.rows :
               g = [on |-> c.rows[i].on, row |-> i, cut |-> CutOf(c, r, i),
                    quantity |-> Uncut(c, r, i)]
    BY DEF group_unplaced
  <2>2. QED
    BY <2>1
<1>2. PICK A, U : /\ A = [c EXCEPT !.offcut.quantity = Len(Instances(c, "offcut"))]
                  /\ U = [A EXCEPT !.untrimmed = {"board", "offcut"}]
                  /\ SameRows(A, c) /\ SameRows(U, c)
                  /\ A.untrimmed = c.untrimmed /\ U.untrimmed = {"board", "offcut"}
  <2>1. PICK A : A = [c EXCEPT !.offcut.quantity = Len(Instances(c, "offcut"))]
    OBVIOUS
  <2>2. PICK U : U = [A EXCEPT !.untrimmed = {"board", "offcut"}]
    OBVIOUS
  <2>3. /\ SameRows(A, c) /\ SameRows(U, c)
        /\ A.untrimmed = c.untrimmed /\ U.untrimmed = {"board", "offcut"}
    <3>1. DOMAIN c = {"rows", "level", "leveled", "whole", "untrimmed", "services", "offcut"}
      BY DEF IsCart
    <3>2. PICK n : n = Len(Instances(c, "offcut"))
      OBVIOUS
    <3>3. PICK o : o = [c.offcut EXCEPT !.quantity = n]
      OBVIOUS
    <3>4. o.height = c.offcut.height /\ o.width = c.offcut.width /\ o.quantity = n
      BY <3>3 DEF IsCart
    <3>5. /\ A.rows = c.rows /\ A.untrimmed = c.untrimmed /\ A.offcut = o
          /\ DOMAIN A = DOMAIN c
      BY <2>1, <3>1, <3>2, <3>3
    <3>6. U.rows = c.rows /\ U.untrimmed = {"board", "offcut"} /\ U.offcut = o
      BY <2>2, <3>1, <3>5
    <3>7. QED
      BY <3>2, <3>4, <3>5, <3>6 DEF SameRows
  <2>4. QED
    BY <2>1, <2>2, <2>3, Zenon
<1>3. PICK key \in {"board", "offcut"} : key = c.rows[i].on
  BY DEF IsCart
<1>4. PICK t \in Nat : t = PoolTrim(c, r, key) /\ t = PoolTrim(A, r, key)
  BY <1>2, ReadFact DEF PoolTrim
<1>5. PoolTrim(U, r, key) = 0
  BY <1>2, <1>3 DEF PoolTrim
<1>6. PICK turns \in BOOLEAN : turns = c.rows[i].turns
  BY DEF IsCart
<1>7. PICK x, y \in Int : CutOf(c, r, i) = <<x, y>>
  BY CutIsInts
<1>8. PICK w : w = WholeSheet(Bins(c, r, key)) /\ w.height \in Int /\ w.width \in Int
  BY <1>3, <1>6, <1>4, FitsWhole
<1> DEFINE Fits(u) == FitsSheet(<<x, y>>, turns, w, u)
<1>9. ASSUME NEW k, SameRows(k, c), NEW u \in Int, u = PoolTrim(k, r, key)
      PROVE  {v \in group_unplaced(k, r) : v.row = i} = {} <=> Fits(u)
  <2>1. BinsFor(k, r, i) # {} <=> Fits(u)
    BY <1>3, <1>6, <1>7, <1>8, <1>9, FitsFact
  <2>2. Uncut(k, r, i) > 0 <=> BinsFor(k, r, i) = {}
    BY <1>9, AmpleUncut
  <2>3. i \in DOMAIN k.rows
    BY <1>9 DEF SameRows
  <2>4. {v \in group_unplaced(k, r) : v.row = i} # {} <=> Uncut(k, r, i) > 0
    BY <2>3, LeftOutFact
  <2>5. QED
    BY <2>1, <2>2, <2>4
<1>10. PICK a, b \in BOOLEAN : a = Fits(t) /\ b = Fits(0)
  BY Zenon DEF FitsSheet
<1>11. {v \in group_unplaced(A, r) : v.row = i} = {} <=> a
  BY <1>2, <1>4, <1>9, <1>10
<1>12. {v \in group_unplaced(U, r) : v.row = i} = {} <=> b
  BY <1>2, <1>5, <1>9, <1>10
<1>13. a => b
  <2> HIDE DEF Fits
  <2> SUFFICES ASSUME Fits(t) PROVE Fits(0)
    BY <1>10
  <2>1. 0 <= t /\ w.height <= w.height /\ w.width <= w.width
    BY <1>4, <1>8
  <2>2. QED
    BY <1>4, <1>8, <2>1, FitsMore DEF Fits
<1>14. t = 0 => a = b
  BY <1>10
<1>15. ASSUME ReadAsRotatable(c, r, g) = turns
       PROVE  explain(c, r, g) = IF a THEN "out_of_stock"
                                 ELSE IF t > 0 /\ b THEN "larger_than_trimmed_sheet"
                                 ELSE "larger_than_sheet"
  BY <1>1, <1>3, <1>4, <1>7, <1>8, <1>10, <1>15 DEF explain
<1>16. ASSUME ReadAsRotatable(c, r, g) = turns
       PROVE  /\ (explain(c, r, g) = "out_of_stock") = a
              /\ (explain(c, r, g) = "larger_than_sheet") = ~b
  <2>1. t > 0 \/ t = 0
    BY <1>4
  <2>2. QED
    BY <1>10, <1>13, <1>14, <1>15, <1>16, <2>1
<1>17. QED
  BY <1>1, <1>2, <1>6, <1>11, <1>12, <1>16 DEF ReasonFits

\* Of QuotesAgree, ReasonsHold: whatever the cart, the settings and the board, the reason
\* given for a piece left out is what would get it cut.
THEOREM ReasonsDoHold == QuoteSpec => [](\A c \in Planned : ReasonsHold(c))
<1>1. QuoteInv => \A c \in Planned : ReasonsHold(c)
  <2> SUFFICES ASSUME QuoteInv, NEW c \in Planned PROVE ReasonsHold(c)
    OBVIOUS
  <2>1. PICK cart, read, plan : cart = CartOf(c) /\ read = seat[c].read /\ plan = seat[c].plan
    OBVIOUS
  <2>2. IsPlan(plan, cart, read) /\ IsCart(cart) /\ read \in Reads /\ policy.tax \in Nat
    BY <2>1, PlannedFact
  <2>3. plan.unplaced = group_unplaced(cart, read)
    BY <2>2 DEF IsPlan
  <2>4. \A g \in plan.unplaced : ReasonFits(cart, read, g)
    BY <2>2, <2>3, ReasonFact
  <2>5. QED
    BY <2>1, <2>4 DEF ReasonsHold, ReasonFits
<1>2. QED
  BY <1>1, QuotesSafe, PTL

\* Everything a quote and the orders made of it promise, for every cart and however the
\* settings, the catalog and the cache change meanwhile.
THEOREM QuotesDoAgree == QuoteSpec => []QuotesAgree
<1>1. /\ AnswersAreFresh
      /\ OrdersAreWhole
      /\ \A c \in Planned : BillAddsUp(c)
      /\ \A c \in Planned : SheetsAreSoldAsCut(c)
      /\ \A c \in Planned : LayersAreCutAlike(c)
      /\ \A c \in Planned : ReasonsHold(c)
      => QuotesAgree
  BY DEF QuotesAgree
<1>2. QED
  BY <1>1, QuotesAreFresh, OrdersCutAll, BillsDoAddUp, SheetsDoSell, LayersComeOutAlike,
     ReasonsDoHold, PTL

-----------------------------------------------------------------------------
(* FrontDesk: the money adds up *)

\* The largest credit of a sale.
LEMMA MostOwedFact == MostOwed \in Nat /\ \A t \in Terms : t[1] \in Nat /\ t[2] \in Nat /\ t[2] <= MostOwed
<1>1. \A t \in Terms : t[1] \in Nat /\ t[2] \in Nat
  BY SalesReportsAssumption
<1>2. PICK f : f = [t \in Terms |-> t[2]]
  OBVIOUS
<1>3. PICK S : S = {t[2] : t \in Terms} /\ S = {f[t] : t \in Terms}
  BY <1>2
<1>4. IsFiniteSet(S) /\ S # {} /\ S \in SUBSET Int
  BY <1>1, <1>2, <1>3, SalesReportsAssumption, ImageIsFinite
<1>5. Max(S) \in S /\ \A y \in S : y <= Max(S)
  BY <1>4, GreatestIsThere
<1>6. QED
  BY <1>1, <1>3, <1>5 DEF MostOwed

\* No sale is on more credit than the largest, and no payment is more than it.
SalesCapped ==
    /\ \A o \in Sales : owed[o] <= MostOwed
    /\ \A i \in DOMAIN receipts : receipts[i].amount \in 1..MostOwed

\* Every request of the office keeps within the largest credit.
LEMMA CappedStep == SalesInv /\ SalesCapped /\ [SalesNext]_salesVars => SalesCapped'
<1> SUFFICES ASSUME SalesInv, SalesCapped, [SalesNext]_salesVars PROVE SalesCapped'
  OBVIOUS
<1>1. /\ owed \in [Sales -> Nat] /\ receipts \in Seq(Receipts)
      /\ MostOwed' = MostOwed /\ MostOwed \in Nat
  BY MostOwedFact DEF SalesInv, SalesShaped, MostOwed
<1>2. ASSUME NEW o \in Sales, NEW t \in Terms, SellOrder(o, t[1], t[2]) PROVE SalesCapped'
  <2>1. owed' = [owed EXCEPT ![o] = t[2]] /\ receipts' = receipts /\ t[2] <= MostOwed
    BY <1>2, MostOwedFact DEF SellOrder
  <2>2. QED
    BY <1>1, <2>1 DEF SalesCapped
<1>3. ASSUME NEW o \in Sales, NEW amount \in 1..MostOwed, PayBack(o, amount) PROVE SalesCapped'
  <2>1. PICK row : row.amount = amount
                   /\ row = [order |-> o, day |-> date, amount |-> amount, voided |-> FALSE]
    <3>1. [order |-> o, day |-> date, amount |-> amount, voided |-> FALSE].amount = amount
      OBVIOUS
    <3>2. QED
      BY <3>1, Zenon
  <2>2. receipts' = Append(receipts, row) /\ owed' = owed
    BY <1>3, <2>1 DEF PayBack
  <2>3. /\ DOMAIN receipts' = DOMAIN receipts \union {Len(receipts) + 1}
        /\ receipts'[Len(receipts) + 1] = row
        /\ \A i \in DOMAIN receipts : receipts'[i] = receipts[i]
    BY <1>1, <2>2
  <2>4. QED
    BY <1>1, <2>1, <2>2, <2>3 DEF SalesCapped
<1>4. ASSUME NEW i \in DOMAIN receipts, Void(i) PROVE SalesCapped'
  <2>1. PICK row : /\ row = [receipts[i] EXCEPT !.voided = TRUE]
                   /\ row.amount = receipts[i].amount
    <3>1. receipts[i] \in Receipts
      BY <1>1
    <3>2. [receipts[i] EXCEPT !.voided = TRUE].amount = receipts[i].amount
      BY <3>1 DEF Receipts
    <3>3. QED
      BY <3>2, Zenon
  <2>2. receipts' = [receipts EXCEPT ![i] = row] /\ owed' = owed
    BY <1>4, <2>1 DEF Void
  <2>3. \A j \in DOMAIN receipts' : j \in DOMAIN receipts /\ receipts'[j].amount = receipts[j].amount
    BY <1>1, <2>1, <2>2
  <2>4. QED
    BY <1>1, <2>2, <2>3 DEF SalesCapped
<1>5. ASSUME UNCHANGED <<owed, receipts>> PROVE SalesCapped'
  BY <1>1, <1>5 DEF SalesCapped
<1>6. ASSUME NEW o \in Sales, CancelSale(o) \/ TakeOrder(o) \/ \E s \in Shops : MoveOrder(o, s)
      PROVE  SalesCapped'
  BY <1>5, <1>6 DEF CancelSale, TakeOrder, MoveOrder
<1>7. CASE Midnight \/ UNCHANGED salesVars
  BY <1>5, <1>7 DEF Midnight, salesVars
<1>8. QED
  BY <1>2, <1>3, <1>4, <1>6, <1>7 DEF SalesNext

\* SalesTyped: every column of the sales keeps its domain.
THEOREM SalesTypeCorrect == SalesSpec => []SalesTyped
<1>1. SalesInit => SalesCapped
  BY MostOwedFact DEF SalesInit, SalesCapped
<1>2. SalesInv /\ SalesCapped => SalesTyped
  <2> SUFFICES ASSUME SalesInv, SalesCapped PROVE SalesTyped
    OBVIOUS
  <2>1. SalesShaped
    BY DEF SalesInv
  <2>2. owed \in [Sales -> 0..MostOwed]
    BY <2>1, MostOwedFact DEF SalesShaped, SalesCapped
  <2>3. \A i \in DOMAIN receipts : receipts[i] \in Receipts
    BY <2>1 DEF SalesShaped
  <2>4. QED
    BY <2>1, <2>2, <2>3 DEF SalesTyped, SalesShaped, SalesCapped, Receipts, AllDays
<1>3. QED
  BY <1>1, <1>2, CappedStep, SalesSafe, PTL DEF SalesSpec

\* QuoteTyped: the requests in flight, the settings and the orders keep their domains.
THEOREM QuoteTypeCorrect == QuoteSpec => []QuoteTyped
<1>1. QuoteInv => QuoteTyped
  BY DEF QuoteInv, QuoteTyped, SeatAgrees
<1>2. QED
  BY <1>1, QuotesSafe, PTL

\* A step of the front desk is a step of each of its components, or leaves it alone.
LEMMA OneDeskSteps ==
    [FrontDeskNext]_frontVars
       => /\ [Next]_vars /\ [SalesNext]_salesVars /\ [QuoteNext]_quoteVars
          /\ focus' = focus
BY DEF FrontDeskNext, frontVars

\* The front desk runs each of its components.
THEOREM EachDeskRuns == FrontDeskSpec => Spec /\ SalesSpec /\ QuoteSpec
<1>1. FrontDeskInit => Init /\ SalesInit /\ QuoteInit
  BY DEF FrontDeskInit
<1>2. QED
  BY <1>1, OneDeskSteps, PTL DEF FrontDeskSpec, Spec, SalesSpec, QuoteSpec

\* MoneyAddsUp: what is quoted, what an order freezes and what the sales reports add up agree,
\* for any carts, settings, prices, orders, sellers, branches and payments.
THEOREM MoneyDoesAddUp == FrontDeskSpec => []MoneyAddsUp
<1>1. QuoteTyped /\ QuotesAgree /\ SalesTyped /\ SalesAgree => MoneyAddsUp
  BY DEF MoneyAddsUp
<1>2. QED
  BY <1>1, EachDeskRuns, QuoteTypeCorrect, QuotesDoAgree, SalesTypeCorrect, SalesDoAgree, PTL

=============================================================================
