---------------------------- MODULE FloorProofs -----------------------------
(***************************************************************************)
(* Proofs about OrderRequests, for any pieces, tablets, screens and pauses.*)
(***************************************************************************)
EXTENDS OrderRequests, FiniteSetTheorems, TLAPS

Works == {"pending", "in_progress", "done"}
OnActivities == {"start", "close", "wait", "resume"}
OnPieces == {"mark", "unmark"}
OnOrder == {"rollback", "finish"}

Carries(ops, targets) ==
    [op : ops, target : targets, step : {"loaded", "counted"},
     status : {"queued", "in_process", "finished"}, work : [Activities -> Works],
     waiting : SUBSET Activities, rows : SUBSET Nat]

Requests ==
    {NoRequest} \union Carries(OnActivities, Activities)
                \union Carries(OnPieces, Pieces) \union Carries(OnOrder, {"order"})

\* Who sends what.
Station(c, r) ==
    /\ r.op # "none" => c \in crew
    /\ r.op \in OnActivities => c \in (IF r.target = "cutting" THEN Operators ELSE Banders)
    /\ r.op = "wait" => r.target # "cutting"
    /\ r.op \in OnPieces => c \in Operators
    /\ r.op \in OnOrder => c \in Admins

\* Holds whoever is at work: no pause is open twice.
Shaped ==
    /\ status \in {"queued", "in_process", "finished"}
    /\ work \in [Activities -> Works]
    /\ waiting \subseteq Activities \ {"cutting"}
    /\ openRows \in [Activities -> SUBSET (1..MaxPauses)]
    /\ inserted \in 0..MaxPauses
    /\ cut \subseteq Pieces
    /\ crew \subseteq Clients
    /\ req \in [Clients -> Requests]
    /\ \A c \in Clients : Station(c, req[c])
    /\ \A a \in Activities : \A x, y \in openRows[a] : x = y

\* What the one tablet of the bench read of what it closes and pauses is still so.
BenchReads(r) ==
    /\ r.op = "close" /\ r.target # "cutting" => r.target \notin waiting
    /\ r.op = "wait" => work[r.target] = "in_progress"

Bench ==
    OneBench =>
        /\ \A c \in Clients : BenchReads(req[c])
        /\ \A a \in Activities : work[a] = "done" => a \notin waiting

\* And what either tablet read of what it starts.
StartReads(r) == r.op = "start" => work[r.target] = "pending"

Tablets == OneTablet => \A c \in Clients : StartReads(req[c])

\* With nobody moving the order itself, what was done when it was read is done;
\* the pieces a closing counted are cut still.
FloorReads(r) ==
    /\ r.op \in OnActivities \union OnPieces =>
          /\ r.status # "queued"
          /\ \A a \in Activities : r.work[a] = "done" => work[a] = "done"
    /\ r.op \in OnPieces => work["cutting"] = "in_progress"
    /\ r.op = "close" /\ r.target = "cutting" /\ r.step = "counted" => cut = Pieces

Floor ==
    OneEach =>
        /\ status # "queued"
        /\ \A c \in Clients : FloorReads(req[c])
        /\ work["cutting"] = "done" => cut = Pieces
        /\ status = "finished" => AllDone

\* The inductive invariant.
FloorInv == Shaped /\ Bench /\ Tablets /\ Floor

-----------------------------------------------------------------------------
\* No two kinds of request are confused.
LEMMA RequestFacts ==
    ASSUME NEW r \in Requests
    PROVE  /\ r = NoRequest <=> r.op = "none"
           /\ r.op \in OnActivities => r \in Carries(OnActivities, Activities)
           /\ r.op \in OnPieces => r \in Carries(OnPieces, Pieces)
           /\ r.op \in OnOrder => r \in Carries(OnOrder, {"order"})
           /\ r.op \in {"none"} \union OnActivities \union OnPieces \union OnOrder
  BY DEF Requests, NoRequest, Carries, OnActivities, OnPieces, OnOrder

\* Nobody in flight is a request, of which nothing is asked.
LEMMA NoRequestFacts == NoRequest \in Requests /\ NoRequest.op = "none"
  BY DEF NoRequest, Requests

\* One tablet is one client.
LEMMA OneClient ==
    ASSUME NEW S, IsFiniteSet(S), Cardinality(S) <= 1, NEW c \in S, NEW d \in S
    PROVE  c = d
<1>1. Cardinality(S) \in Nat
  BY FS_CardinalityType
<1>2. CASE Cardinality(S) = 0
  BY <1>2, FS_EmptySet
<1>3. CASE Cardinality(S) = 1
  BY <1>3, FS_Singleton
<1>4. QED
  BY <1>1, <1>2, <1>3

\* Of each station, that is.
LEMMA OnePerStation ==
    /\ OneBench => \A c, d \in crew \cap Banders : c = d
    /\ OneTablet => \A c, d \in crew \cap Operators : c = d
    /\ OneTablet => OneBench
    /\ OneEach => OneTablet /\ crew \cap Admins = {}
<1>1. IsFiniteSet(crew \cap Banders) /\ IsFiniteSet(crew \cap Operators)
  BY RequestsAssumption, FS_Intersection
<1>2. QED
  BY <1>1, OneClient DEF OneBench, OneTablet, OneEach

-----------------------------------------------------------------------------
\* A request of one client that changes leaves the others' as they were.
LEMMA OneChanges ==
    ASSUME Shaped, NEW c \in Clients, NEW r \in Requests, Station(c, r),
           req' = [req EXCEPT ![c] = r], crew' = crew
    PROVE  /\ req' \in [Clients -> Requests]
           /\ \A d \in Clients : req'[d] = IF d = c THEN r ELSE req[d]
           /\ \A d \in Clients : Station(d, req[d])'
  BY DEF Shaped, Station

\* Nor does the crew change, or how many of it there are at each station.
LEMMA SameCrew ==
    ASSUME crew' = crew
    PROVE  /\ OneBench' <=> OneBench
           /\ OneTablet' <=> OneTablet
           /\ OneEach' <=> OneEach
  BY DEF OneBench, OneTablet, OneEach

\* Two clients whose requests are about one activity, or one an activity and the
\* other its pieces, stand at one station.
LEMMA Stations ==
    ASSUME Shaped, NEW c \in Clients, NEW d \in Clients, c # d
    PROVE  /\ OneBench /\ {req[c].op, req[d].op} \subseteq OnActivities
              /\ req[c].target # "cutting" => req[c].target # req[d].target
           /\ OneTablet /\ {req[c].op, req[d].op} \subseteq OnActivities
              => req[c].target # req[d].target
           /\ OneTablet /\ req[c].op \in OnPieces /\ req[d].op \in OnActivities
              => req[d].target # "cutting"
           /\ OneTablet /\ req[c].op \in OnPieces => req[d].op \notin OnPieces
           /\ OneEach => req[c].op \notin OnOrder
<1>1. Station(c, req[c]) /\ Station(d, req[d])
  BY DEF Shaped
<1>2. /\ req[c].op \in OnActivities \union OnPieces \union OnOrder => c \in crew
      /\ req[d].op \in OnActivities \union OnPieces \union OnOrder => d \in crew
  BY <1>1 DEF Station, OnActivities, OnPieces, OnOrder
<1>3. /\ OneBench => c \notin crew \cap Banders \/ d \notin crew \cap Banders
      /\ OneTablet => c \notin crew \cap Operators \/ d \notin crew \cap Operators
      /\ OneTablet => OneBench
      /\ OneEach => c \notin crew \cap Admins
  BY OnePerStation
<1>4. QED
  BY <1>1, <1>2, <1>3 DEF Station

\* The steps that only change what one client holds: the loads and the counts.
LEMMA Held ==
    ASSUME FloorInv, NEW c \in Clients, NEW r \in Requests, Station(c, r),
           req' = [req EXCEPT ![c] = r],
           UNCHANGED <<status, work, waiting, openRows, inserted, cut, crew>>,
           OneBench => BenchReads(r), OneTablet => StartReads(r), OneEach => FloorReads(r)
    PROVE  FloorInv'
<1>1. /\ req' \in [Clients -> Requests]
      /\ \A d \in Clients : req'[d] = IF d = c THEN r ELSE req[d]
      /\ \A d \in Clients : Station(d, req[d])'
  BY OneChanges DEF FloorInv
<1>2. Shaped'
  BY <1>1 DEF FloorInv, Shaped
<1>3. Bench'
  BY <1>1, SameCrew DEF FloorInv, Bench, BenchReads
<1>4. Tablets'
  BY <1>1, SameCrew DEF FloorInv, Tablets, StartReads
<1>5. Floor'
  BY <1>1, SameCrew DEF FloorInv, Floor, FloorReads, AllDone
<1>6. QED
  BY <1>2, <1>3, <1>4, <1>5 DEF FloorInv

\* What a request loads, shaped.
LEMMA LoadedFacts ==
    ASSUME Shaped, NEW op, NEW target,
           \/ op \in OnActivities /\ target \in Activities
           \/ op \in OnPieces /\ target \in Pieces
           \/ op \in OnOrder /\ target = "order"
    PROVE  /\ Loaded(op, target) \in Requests
           /\ Loaded(op, target).op = op
           /\ Loaded(op, target).target = target
           /\ Loaded(op, target).step = "loaded"
           /\ Loaded(op, target).status = status
           /\ Loaded(op, target).work = work
<1>1. waiting \in SUBSET Activities /\ {} \in SUBSET Nat /\ work \in [Activities -> Works]
      /\ status \in {"queued", "in_process", "finished"}
  BY DEF Shaped
<1>2. CASE op \in OnActivities /\ target \in Activities
  <2>1. Loaded(op, target) \in Carries(OnActivities, Activities)
    BY <1>1, <1>2 DEF Loaded, Carries
  <2>2. QED
    BY <2>1 DEF Loaded, Requests
<1>3. CASE op \in OnPieces /\ target \in Pieces
  <2>1. Loaded(op, target) \in Carries(OnPieces, Pieces)
    BY <1>1, <1>3 DEF Loaded, Carries
  <2>2. QED
    BY <2>1 DEF Loaded, Requests
<1>4. CASE op \in OnOrder /\ target = "order"
  <2>1. Loaded(op, target) \in Carries(OnOrder, {"order"})
    BY <1>1, <1>4 DEF Loaded, Carries
  <2>2. QED
    BY <2>1 DEF Loaded, Requests
<1>5. QED
  BY <1>2, <1>3, <1>4

\* A tablet loads the order to start, close, pause or resume an activity.
LEMMA LoadActivityKeeps ==
    ASSUME FloorInv, NEW c \in Clients,
           NEW op \in {"start", "close", "wait", "resume"}, NEW a \in Activities,
           LoadActivity(c, op, a)
    PROVE  FloorInv'
<1> DEFINE r == Loaded(op, a)
<1>1. op \in OnActivities
  BY DEF OnActivities
<1>2. r \in Requests /\ r.op = op /\ r.target = a /\ r.step = "loaded"
      /\ r.status = status /\ r.work = work
  BY <1>1, LoadedFacts DEF FloorInv
<1>3. req' = [req EXCEPT ![c] = r] /\ c \in crew /\ MayRegister(c, a) /\ Accepts(op, a)
      /\ UNCHANGED <<status, work, waiting, openRows, inserted, cut, crew>>
  BY DEF LoadActivity, pauseTables
<1> HIDE DEF r
<1>4. op = "wait" => a # "cutting" /\ work[a] = "in_progress"
  BY <1>3 DEF Accepts
<1>5. op = "close" => a \notin waiting
  BY <1>3 DEF Accepts, ClosesFrom
<1>6. op = "start" => work[a] = "pending"
  BY <1>3 DEF Accepts, StartsFrom
<1>7. Station(c, r)
  BY <1>1, <1>2, <1>3, <1>4 DEF Station, MayRegister, OnActivities, OnPieces, OnOrder
<1>8. BenchReads(r) /\ StartReads(r)
  BY <1>2, <1>4, <1>5, <1>6 DEF BenchReads, StartReads
<1>9. OneEach => FloorReads(r)
  BY <1>1, <1>2 DEF FloorInv, Floor, FloorReads, OnActivities, OnPieces
<1>10. QED
  BY <1>2, <1>3, <1>7, <1>8, <1>9, Held

\* A saw loads it to mark a piece or to take a mark back.
LEMMA LoadPieceKeeps ==
    ASSUME FloorInv, NEW c \in Clients, NEW op \in {"mark", "unmark"}, NEW p \in Pieces,
           LoadPiece(c, op, p)
    PROVE  FloorInv'
<1> DEFINE r == Loaded(op, p)
<1>1. op \in OnPieces
  BY DEF OnPieces
<1>2. r \in Requests /\ r.op = op /\ r.target = p /\ r.step = "loaded"
      /\ r.status = status /\ r.work = work
  BY <1>1, LoadedFacts DEF FloorInv
<1>3. req' = [req EXCEPT ![c] = r] /\ c \in crew \cap Operators
      /\ work["cutting"] = "in_progress"
      /\ UNCHANGED <<status, work, waiting, openRows, inserted, cut, crew>>
  BY DEF LoadPiece, pauseTables
<1> HIDE DEF r
<1>4. Station(c, r)
  BY <1>1, <1>2, <1>3 DEF Station, OnActivities, OnPieces, OnOrder
<1>5. BenchReads(r) /\ StartReads(r)
  BY <1>1, <1>2 DEF BenchReads, StartReads, OnPieces
<1>6. OneEach => FloorReads(r)
  BY <1>1, <1>2, <1>3 DEF FloorInv, Floor, FloorReads, OnActivities, OnPieces
<1>7. QED
  BY <1>2, <1>3, <1>4, <1>5, <1>6, Held

\* The office loads it to roll it back or to close it.
LEMMA LoadMoveKeeps ==
    ASSUME FloorInv, NEW c \in Clients, NEW op \in {"rollback", "finish"}, LoadMove(c, op)
    PROVE  FloorInv'
<1> DEFINE r == Loaded(op, "order")
<1>1. op \in OnOrder
  BY DEF OnOrder
<1>2. r \in Requests /\ r.op = op
  BY <1>1, LoadedFacts DEF FloorInv
<1>3. req' = [req EXCEPT ![c] = r] /\ c \in crew \cap Admins
      /\ UNCHANGED <<status, work, waiting, openRows, inserted, cut, crew>>
  BY DEF LoadMove, pauseTables
<1> HIDE DEF r
<1>4. Station(c, r)
  BY <1>1, <1>2, <1>3 DEF Station, OnActivities, OnPieces, OnOrder
<1>5. BenchReads(r) /\ StartReads(r) /\ FloorReads(r)
  BY <1>1, <1>2 DEF BenchReads, StartReads, FloorReads, OnActivities, OnPieces, OnOrder
<1>6. QED
  BY <1>2, <1>3, <1>4, <1>5, Held

\* The waits a request may lift are of activities.
LEMMA LiftsFacts ==
    ASSUME NEW r \in Requests, r # NoRequest
    PROVE  Lifts(r) \subseteq Activities
<1>1. /\ r.op \in OnActivities => r.target \in Activities
      /\ r.op \in OnActivities \union OnPieces \union OnOrder => r.waiting \subseteq Activities
  BY RequestFacts DEF Carries
<1>2. CASE r.op = "resume"
  BY <1>1, <1>2 DEF Lifts, OnActivities
<1>3. CASE r.op = "rollback"
  BY <1>3 DEF Lifts, Activities
<1>4. CASE r.op = "close"
  BY <1>1, <1>4 DEF Lifts, OnActivities
<1>5. CASE r.op = "mark"
  BY <1>1, <1>5 DEF Lifts, OnPieces
<1>6. CASE r.op \notin {"resume", "rollback", "close", "mark"}
  BY <1>6 DEF Lifts
<1>7. QED
  BY <1>2, <1>3, <1>4, <1>5, <1>6

\* A request that has counted is the one that loaded, with the rows it found.
LEMMA CountedFacts ==
    ASSUME NEW r \in Requests, r # NoRequest, NEW rows \in SUBSET Nat
    PROVE  LET counted == [r EXCEPT !.step = "counted", !.rows = rows] IN
           /\ counted \in Requests
           /\ counted.op = r.op /\ counted.target = r.target /\ counted.step = "counted"
           /\ counted.status = r.status /\ counted.work = r.work
<1>1. CASE r \in Carries(OnActivities, Activities)
  BY <1>1 DEF Carries, Requests
<1>2. CASE r \in Carries(OnPieces, Pieces)
  BY <1>2 DEF Carries, Requests
<1>3. CASE r \in Carries(OnOrder, {"order"})
  BY <1>3 DEF Carries, Requests
<1>4. QED
  BY <1>1, <1>2, <1>3 DEF Requests

\* Counting: the pieces and the pause rows as committed by now.
LEMMA CountKeeps ==
    ASSUME FloorInv, NEW c \in Clients, Count(c)
    PROVE  FloorInv'
<1> DEFINE r == req[c]
           rows == UNION {openRows[a] : a \in Lifts(r)}
           counted == [r EXCEPT !.step = "counted", !.rows = rows]
<1>1. r \in Requests /\ r # NoRequest /\ Station(c, r) /\ NoRequest \in Requests
  BY NoRequestFacts DEF Count, FloorInv, Shaped
<1>2. rows \in SUBSET Nat
  <2>1. \A a \in Lifts(r) : openRows[a] \subseteq Nat
    BY <1>1, LiftsFacts, RequestsAssumption DEF FloorInv, Shaped
  <2>2. QED
    BY <2>1
<1>3. UNCHANGED <<status, work, waiting, openRows, inserted, cut, crew>>
  BY DEF Count, pauseTables
<1>4. CASE PiecesAllow(r)
  <2>1. req' = [req EXCEPT ![c] = counted]
    BY <1>4 DEF Count
  <2>2. counted \in Requests /\ counted.op = r.op /\ counted.target = r.target
        /\ counted.status = r.status /\ counted.work = r.work
    BY <1>1, <1>2, CountedFacts
  <2> HIDE DEF counted
  <2>3. Station(c, counted)
    BY <1>1, <2>2 DEF Station
  <2>4. OneBench => BenchReads(counted)
    BY <2>2 DEF FloorInv, Bench, BenchReads
  <2>5. OneTablet => StartReads(counted)
    BY <2>2 DEF FloorInv, Tablets, StartReads
  <2>6. ASSUME r.op = "close", r.target = "cutting"
        PROVE  cut = Pieces
    <3>1. EveryPieceCut("cutting")
      BY <1>4, <2>6 DEF PiecesAllow
    <3>2. PiecesOf["cutting"] = Pieces
      BY DEF PiecesOf
    <3>3. Pieces \subseteq cut /\ cut \subseteq Pieces
      BY <3>1, <3>2 DEF EveryPieceCut, FloorInv, Shaped
    <3>4. QED
      BY <3>3
  <2>7. OneEach => FloorReads(counted)
    BY <2>2, <2>6 DEF FloorInv, Floor, FloorReads
  <2>8. QED
    BY <1>3, <2>1, <2>2, <2>3, <2>4, <2>5, <2>7, Held
<1>5. CASE ~PiecesAllow(r)
  <2>1. req' = [req EXCEPT ![c] = NoRequest]
    BY <1>5 DEF Count
  <2>2. /\ Station(c, NoRequest) /\ BenchReads(NoRequest)
        /\ StartReads(NoRequest) /\ FloorReads(NoRequest)
    BY NoRequestFacts
    DEF Station, BenchReads, StartReads, FloorReads, OnActivities, OnPieces, OnOrder
  <2>3. QED
    BY <1>1, <1>3, <2>1, <2>2, Held
<1>6. QED
  BY <1>4, <1>5

\* A request in flight at its last step, and its client's hands free afterwards.
LEMMA Commits ==
    ASSUME FloorInv, NEW c \in Clients, req[c].op \in OnActivities \union OnPieces \union OnOrder,
           req' = [req EXCEPT ![c] = NoRequest], crew' = crew
    PROVE  /\ req[c] \in Requests /\ req[c] # NoRequest /\ Station(c, req[c])
           /\ req' \in [Clients -> Requests]
           /\ \A d \in Clients : Station(d, req[d])'
           /\ \A d \in Clients : req'[d] = IF d = c THEN NoRequest ELSE req[d]
<1>1. Station(c, NoRequest) /\ NoRequest \in Requests
  BY NoRequestFacts DEF Station, OnActivities, OnPieces, OnOrder
<1>2. /\ req' \in [Clients -> Requests]
      /\ \A d \in Clients : req'[d] = IF d = c THEN NoRequest ELSE req[d]
      /\ \A d \in Clients : Station(d, req[d])'
  BY <1>1, OneChanges DEF FloorInv
<1>3. req[c] \in Requests /\ req[c] # NoRequest /\ Station(c, req[c])
  BY NoRequestFacts DEF FloorInv, Shaped, OnActivities, OnPieces, OnOrder
<1>4. QED
  BY <1>2, <1>3

\* Nothing is asked of a client with no request in flight.
LEMMA NothingRead ==
    ASSUME NEW d \in Clients, req'[d] = NoRequest
    PROVE  BenchReads(req[d])' /\ StartReads(req[d])' /\ FloorReads(req[d])'
  BY NoRequestFacts DEF BenchReads, StartReads, FloorReads, OnActivities, OnPieces

\* Lifting waits leaves their tables in shape, and nothing more waiting.
LEMMA LiftingKeeps ==
    ASSUME Shaped, NEW r, CloseReadPauses(r)
    PROVE  /\ waiting' \subseteq waiting
           /\ waiting' \subseteq Activities \ {"cutting"}
           /\ openRows' \in [Activities -> SUBSET (1..MaxPauses)]
           /\ inserted' \in 0..MaxPauses
           /\ \A a \in Activities : \A x, y \in openRows'[a] : x = y
  BY DEF CloseReadPauses, Shaped

\* Starting an activity.
LEMMA StartKeeps ==
    ASSUME FloorInv, NEW c \in Clients, Start(c)
    PROVE  FloorInv'
<1> DEFINE r == req[c]
<1>1. r.op = "start" /\ req' = [req EXCEPT ![c] = NoRequest]
      /\ UNCHANGED <<waiting, openRows, inserted, cut, crew>>
  BY DEF Start, Committing, Done, pauseTables
<1>2. r.op \in OnActivities
  BY <1>1 DEF OnActivities
<1>3. /\ r \in Requests /\ req' \in [Clients -> Requests]
      /\ \A d \in Clients : req'[d] = IF d = c THEN NoRequest ELSE req[d]
      /\ \A d \in Clients : Station(d, req[d])'
  BY <1>1, <1>2, Commits
<1>4. r.target \in Activities /\ r.status \in {"queued", "in_process", "finished"}
  BY <1>2, <1>3, RequestFacts DEF Carries
<1>5. /\ work' = [work EXCEPT ![r.target] = "in_progress"]
      /\ status' = IF r.status = "queued" THEN "in_process" ELSE status
      /\ work \in [Activities -> Works]
  BY DEF Start, FloorInv, Shaped
<1>6. \A a \in Activities : work'[a] = IF a = r.target THEN "in_progress" ELSE work[a]
  BY <1>4, <1>5
<1>7. Shaped'
  <2>1. work' \in [Activities -> Works] /\ status' \in {"queued", "in_process", "finished"}
    BY <1>4, <1>5 DEF Works, FloorInv, Shaped
  <2>2. QED
    BY <1>1, <1>3, <2>1 DEF FloorInv, Shaped
<1>8. ASSUME OneBench PROVE /\ \A d \in Clients : BenchReads(req[d])'
                           /\ \A a \in Activities : work'[a] = "done" => a \notin waiting'
  <2>1. ASSUME NEW d \in Clients, d # c PROVE BenchReads(req[d])'
    <3>1. BenchReads(req[d]) /\ req[d] \in Requests
      BY <1>8 DEF FloorInv, Bench, Shaped
    <3>2. req[d].op = "wait" => req[d].target \in Activities
      BY <3>1, RequestFacts DEF Carries, OnActivities
    <3>3. QED
      BY <1>1, <1>3, <1>6, <2>1, <3>1, <3>2 DEF BenchReads
  <2>2. QED
    BY <1>1, <1>3, <1>6, <1>8, <2>1, NothingRead DEF FloorInv, Bench
<1>9. ASSUME OneTablet, NEW d \in Clients PROVE StartReads(req[d])'
  <2>1. CASE d # c
    <3>1. StartReads(req[d]) /\ req[d] \in Requests
      BY <1>9 DEF FloorInv, Tablets, Shaped
    <3>2. req[d].op = "start" => req[d].target \in Activities /\ req[d].target # r.target
      BY <1>2, <1>9, <2>1, <3>1, RequestFacts, Stations DEF Carries, OnActivities, FloorInv
    <3>3. QED
      BY <1>3, <1>6, <2>1, <3>1, <3>2 DEF StartReads
  <2>2. QED
    BY <1>3, <2>1, NothingRead
<1>10. ASSUME OneEach PROVE /\ status' # "queued"
                            /\ \A d \in Clients : FloorReads(req[d])'
                            /\ work'["cutting"] = "done" => cut' = Pieces
                            /\ status' = "finished" => AllDone'
  <2>1. work[r.target] = "pending" /\ r.status # "queued" /\ status' = status
    BY <1>1, <1>2, <1>5, <1>10, OnePerStation
    DEF FloorInv, Tablets, StartReads, Floor, FloorReads
  <2>2. status # "queued" /\ status # "finished"
    BY <1>4, <1>10, <2>1 DEF FloorInv, Floor, AllDone
  <2>3. ASSUME NEW d \in Clients PROVE FloorReads(req[d])'
    <3>1. FloorReads(req[d])
      BY <1>10 DEF FloorInv, Floor
    <3>2. CASE d = c
      BY <1>3, <3>2, NothingRead
    <3>3. CASE d # c
      <4>1. req'[d] = req[d] /\ cut' = cut
        BY <1>1, <1>3, <3>3
      <4>2. \A a \in Activities : work[a] = "done" => work'[a] = "done"
        BY <1>6, <2>1
      <4>3. work["cutting"] = "in_progress" => work'["cutting"] = "in_progress"
        BY <1>6 DEF Activities
      <4>4. QED
        BY <3>1, <4>1, <4>2, <4>3 DEF FloorReads
    <3>4. QED
      BY <3>2, <3>3
  <2>4. work'["cutting"] = "done" => cut' = Pieces
    BY <1>1, <1>6, <1>10 DEF FloorInv, Floor, Activities
  <2>5. QED
    BY <2>1, <2>2, <2>3, <2>4
<1>11. QED
  BY <1>1, <1>7, <1>8, <1>9, <1>10, SameCrew DEF FloorInv, Bench, Tablets, Floor

\* Closing an activity, and the order with its last one.
LEMMA CloseKeeps ==
    ASSUME FloorInv, NEW c \in Clients, Close(c)
    PROVE  FloorInv'
<1> DEFINE r == req[c]
<1>1. r.op = "close" /\ r.step = "counted" /\ req' = [req EXCEPT ![c] = NoRequest]
      /\ CloseReadPauses(r) /\ UNCHANGED <<cut, crew>>
  BY DEF Close, Committing, Done
<1>2. r.op \in OnActivities
  BY <1>1 DEF OnActivities
<1>3. /\ r \in Requests /\ req' \in [Clients -> Requests]
      /\ \A d \in Clients : req'[d] = IF d = c THEN NoRequest ELSE req[d]
      /\ \A d \in Clients : Station(d, req[d])'
  BY <1>1, <1>2, Commits
<1>4. r.target \in Activities
  BY <1>2, <1>3, RequestFacts DEF Carries
<1>5. /\ work' = [work EXCEPT ![r.target] = "done"] /\ work \in [Activities -> Works]
      /\ status' = StatusAfterClosing(r)
  BY DEF Close, FloorInv, Shaped
<1>6. \A a \in Activities : work'[a] = IF a = r.target THEN "done" ELSE work[a]
  BY <1>4, <1>5
<1>7. /\ waiting' \subseteq waiting /\ waiting' \subseteq Activities \ {"cutting"}
      /\ openRows' \in [Activities -> SUBSET (1..MaxPauses)] /\ inserted' \in 0..MaxPauses
      /\ \A a \in Activities : \A x, y \in openRows'[a] : x = y
  BY <1>1, LiftingKeeps DEF FloorInv
<1>8. Shaped'
  <2>1. work' \in [Activities -> Works]
    BY <1>4, <1>5 DEF Works
  <2>2. status' \in {"queued", "in_process", "finished"}
    BY <1>5 DEF StatusAfterClosing, FloorInv, Shaped
  <2>3. QED
    BY <1>1, <1>3, <1>7, <2>1, <2>2 DEF FloorInv, Shaped
<1>9. ASSUME OneBench PROVE /\ \A d \in Clients : BenchReads(req[d])'
                           /\ \A a \in Activities : work'[a] = "done" => a \notin waiting'
  <2>1. ASSUME NEW d \in Clients PROVE BenchReads(req[d])'
    <3>1. CASE d = c
      BY <1>3, <3>1, NothingRead
    <3>2. CASE d # c
      <4>1. BenchReads(req[d]) /\ req[d] \in Requests /\ Station(d, req[d])
        BY <1>9 DEF FloorInv, Bench, Shaped
      <4>2. req[d].op = "wait" => req[d].target \in Activities /\ req[d].target # r.target
        BY <1>2, <1>9, <3>2, <4>1, RequestFacts, Stations
        DEF Carries, OnActivities, FloorInv, Station
      <4>3. QED
        BY <1>3, <1>6, <1>7, <3>2, <4>1, <4>2 DEF BenchReads
    <3>3. QED
      BY <3>1, <3>2
  <2>2. r.target \notin waiting
    BY <1>1, <1>9 DEF FloorInv, Bench, BenchReads, Shaped
  <2>3. QED
    BY <1>6, <1>7, <1>9, <2>1, <2>2 DEF FloorInv, Bench
<1>10. ASSUME OneTablet, NEW d \in Clients PROVE StartReads(req[d])'
  <2>1. CASE d # c
    <3>1. StartReads(req[d]) /\ req[d] \in Requests
      BY <1>10 DEF FloorInv, Tablets, Shaped
    <3>2. req[d].op = "start" => req[d].target \in Activities /\ req[d].target # r.target
      BY <1>2, <1>10, <2>1, <3>1, RequestFacts, Stations DEF Carries, OnActivities, FloorInv
    <3>3. QED
      BY <1>3, <1>6, <2>1, <3>1, <3>2 DEF StartReads
  <2>2. QED
    BY <1>3, <2>1, NothingRead
<1>11. ASSUME OneEach PROVE /\ status' # "queued"
                            /\ \A d \in Clients : FloorReads(req[d])'
                            /\ work'["cutting"] = "done" => cut' = Pieces
                            /\ status' = "finished" => AllDone'
  <2>1. FloorReads(r) /\ status # "queued" /\ OneTablet
        /\ (work["cutting"] = "done" => cut = Pieces) /\ (status = "finished" => AllDone)
    BY <1>11, OnePerStation DEF FloorInv, Floor
  <2>2. ASSUME NEW d \in Clients PROVE FloorReads(req[d])'
    <3>1. FloorReads(req[d])
      BY <1>11 DEF FloorInv, Floor
    <3>2. CASE d = c
      BY <1>3, <3>2, NothingRead
    <3>3. CASE d # c
      <4>1. req'[d] = req[d] /\ cut' = cut
        BY <1>1, <1>3, <3>3
      <4>2. \A a \in Activities : work[a] = "done" => work'[a] = "done"
        BY <1>6
      <4>3. req[d].op \in OnPieces => work'["cutting"] = work["cutting"]
        BY <1>2, <1>6, <2>1, <3>3, Stations DEF Activities, FloorInv
      <4>4. QED
        BY <3>1, <4>1, <4>2, <4>3 DEF FloorReads
    <3>4. QED
      BY <3>2, <3>3
  <2>3. work'["cutting"] = "done" => cut' = Pieces
    BY <1>1, <1>6, <2>1 DEF FloorReads, Activities
  <2>4. \A a \in Activities : r.work[a] = "done" => work[a] = "done"
    BY <1>2, <2>1 DEF FloorReads
  <2>5. status' = "finished" => AllDone'
    BY <1>5, <1>6, <2>1, <2>4 DEF AllDone, StatusAfterClosing
  <2>6. QED
    BY <1>5, <2>1, <2>2, <2>3, <2>5 DEF StatusAfterClosing
<1>12. QED
  BY <1>1, <1>8, <1>9, <1>10, <1>11, SameCrew DEF FloorInv, Bench, Tablets, Floor

\* The commits that change no activity and pause none.
LEMMA WorkStays ==
    ASSUME FloorInv, NEW c \in Clients,
           \A d \in Clients : req'[d] = IF d = c THEN NoRequest ELSE req[d],
           work' = work, crew' = crew, waiting' \subseteq waiting
    PROVE  Bench' /\ Tablets'
<1>1. ASSUME NEW d \in Clients
      PROVE  /\ OneBench => BenchReads(req[d])'
             /\ OneTablet => StartReads(req[d])'
  <2>1. CASE d = c
    BY <2>1, NothingRead
  <2>2. CASE d # c
    BY <2>2 DEF FloorInv, Bench, BenchReads, Tablets, StartReads
  <2>3. QED
    BY <2>1, <2>2
<1>2. OneBench => \A a \in Activities : work'[a] = "done" => a \notin waiting'
  BY DEF FloorInv, Bench
<1>3. QED
  BY <1>1, <1>2, SameCrew DEF Bench, Tablets

\* Those that change neither the order, nor its activities, nor its pieces.
LEMMA FloorStays ==
    ASSUME FloorInv, NEW c \in Clients,
           \A d \in Clients : req'[d] = IF d = c THEN NoRequest ELSE req[d],
           UNCHANGED <<status, work, cut, crew>>
    PROVE  Floor'
<1>1. ASSUME NEW d \in Clients, OneEach PROVE FloorReads(req[d])'
  <2>1. CASE d = c
    BY <2>1, NothingRead
  <2>2. CASE d # c
    BY <1>1, <2>2 DEF FloorInv, Floor, FloorReads
  <2>3. QED
    BY <2>1, <2>2
<1>2. QED
  BY <1>1, SameCrew DEF FloorInv, Floor, AllDone

\* Nobody moves the order itself where only the two stations are at work.
LEMMA NoMoves ==
    ASSUME Shaped, NEW c \in Clients, req[c].op \in OnOrder
    PROVE  ~OneEach
<1>1. Station(c, req[c]) /\ req[c].op # "none"
  BY DEF Shaped, OnOrder
<1>2. QED
  BY <1>1, OnePerStation DEF Station

\* Marking a piece.
LEMMA MarkKeeps ==
    ASSUME FloorInv, NEW c \in Clients, Mark(c)
    PROVE  FloorInv'
<1> DEFINE r == req[c]
<1>1. r.op \in OnPieces /\ req' = [req EXCEPT ![c] = NoRequest] /\ cut' = cut \union {r.target}
      /\ CloseReadPauses(r) /\ UNCHANGED <<status, work, crew>>
  BY DEF Mark, Committing, Done, OnPieces
<1>2. /\ r \in Requests /\ req' \in [Clients -> Requests]
      /\ \A d \in Clients : req'[d] = IF d = c THEN NoRequest ELSE req[d]
      /\ \A d \in Clients : Station(d, req[d])'
  BY <1>1, Commits
<1>3. r.target \in Pieces
  BY <1>1, <1>2, RequestFacts DEF Carries
<1>4. /\ waiting' \subseteq waiting /\ waiting' \subseteq Activities \ {"cutting"}
      /\ openRows' \in [Activities -> SUBSET (1..MaxPauses)] /\ inserted' \in 0..MaxPauses
      /\ \A a \in Activities : \A x, y \in openRows'[a] : x = y
  BY <1>1, LiftingKeeps DEF FloorInv
<1>5. Shaped'
  BY <1>1, <1>2, <1>3, <1>4 DEF FloorInv, Shaped
<1>6. Bench' /\ Tablets'
  BY <1>1, <1>2, <1>4, WorkStays
<1>7. cut = Pieces => cut' = Pieces
  BY <1>1, <1>3
<1>8. ASSUME NEW d \in Clients, OneEach PROVE FloorReads(req[d])'
  <2>1. CASE d = c
    BY <1>2, <2>1, NothingRead
  <2>2. CASE d # c
    <3>1. FloorReads(req[d]) /\ req'[d] = req[d] /\ work' = work
      BY <1>1, <1>2, <1>8, <2>2 DEF FloorInv, Floor
    <3>2. QED
      BY <1>7, <3>1 DEF FloorReads
  <2>3. QED
    BY <2>1, <2>2
<1>9. Floor'
  BY <1>1, <1>7, <1>8, SameCrew DEF FloorInv, Floor, AllDone
<1>10. QED
  BY <1>5, <1>6, <1>9 DEF FloorInv

\* Taking a mark back.
LEMMA UnmarkKeeps ==
    ASSUME FloorInv, NEW c \in Clients, Unmark(c)
    PROVE  FloorInv'
<1> DEFINE r == req[c]
<1>1. r.op \in OnPieces /\ req' = [req EXCEPT ![c] = NoRequest] /\ cut' = cut \ {r.target}
      /\ UNCHANGED <<status, work, waiting, openRows, inserted, crew>>
  BY DEF Unmark, Committing, Done, OnPieces, pauseTables
<1>2. /\ r \in Requests /\ req' \in [Clients -> Requests]
      /\ \A d \in Clients : req'[d] = IF d = c THEN NoRequest ELSE req[d]
      /\ \A d \in Clients : Station(d, req[d])'
  BY <1>1, Commits
<1>3. Shaped'
  BY <1>1, <1>2 DEF FloorInv, Shaped
<1>4. Bench' /\ Tablets'
  BY <1>1, <1>2, WorkStays
<1>5. OneEach => work["cutting"] = "in_progress"
  BY <1>1 DEF FloorInv, Floor, FloorReads
<1>6. ASSUME NEW d \in Clients, OneEach PROVE FloorReads(req[d])'
  <2>1. CASE d = c
    BY <1>2, <2>1, NothingRead
  <2>2. CASE d # c
    <3>1. FloorReads(req[d]) /\ req'[d] = req[d] /\ work' = work
      BY <1>1, <1>2, <1>6, <2>2 DEF FloorInv, Floor
    <3>2. ~(req[d].op = "close" /\ req[d].target = "cutting")
      BY <1>1, <1>6, <2>2, Stations, OnePerStation DEF FloorInv, OnActivities
    <3>3. QED
      BY <3>1, <3>2 DEF FloorReads
  <2>3. QED
    BY <2>1, <2>2
<1>7. Floor'
  BY <1>1, <1>5, <1>6, SameCrew DEF FloorInv, Floor, AllDone
<1>8. QED
  BY <1>3, <1>4, <1>7 DEF FloorInv

\* Pausing an activity for lack of pieces; a second pause of it breaks the index.
LEMMA WaitKeeps ==
    ASSUME FloorInv, NEW c \in Clients, Wait(c)
    PROVE  FloorInv'
<1> DEFINE r == req[c]
<1>1. r.op = "wait" /\ req' = [req EXCEPT ![c] = NoRequest]
      /\ UNCHANGED <<status, work, cut, crew>>
  BY DEF Wait, Committing, Done
<1>2. r.op \in OnActivities
  BY <1>1 DEF OnActivities
<1>3. /\ r \in Requests /\ req' \in [Clients -> Requests] /\ Station(c, r)
      /\ \A d \in Clients : req'[d] = IF d = c THEN NoRequest ELSE req[d]
      /\ \A d \in Clients : Station(d, req[d])'
  BY <1>1, <1>2, Commits
<1>4. r.target \in Activities \ {"cutting"}
  BY <1>1, <1>2, <1>3, RequestFacts DEF Carries, Station
<1>5. waiting' \subseteq waiting \union {r.target}
  BY DEF Wait, pauseTables
<1>6. /\ openRows' \in [Activities -> SUBSET (1..MaxPauses)] /\ inserted' \in 0..MaxPauses
      /\ \A a \in Activities : \A x, y \in openRows'[a] : x = y
  <2>1. CASE openRows[r.target] = {} /\ inserted < MaxPauses
    <3>1. inserted' = inserted + 1 /\ openRows' = [openRows EXCEPT ![r.target] = {inserted'}]
      BY <2>1 DEF Wait
    <3>2. inserted' \in 0..MaxPauses /\ inserted' \in 1..MaxPauses
      BY <2>1, <3>1, RequestsAssumption DEF FloorInv, Shaped
    <3>3. openRows \in [Activities -> SUBSET (1..MaxPauses)]
          /\ \A a \in Activities : \A x, y \in openRows[a] : x = y
      BY DEF FloorInv, Shaped
    <3>4. \A a \in Activities : openRows'[a] = IF a = r.target THEN {inserted'} ELSE openRows[a]
      BY <3>1, <3>3
    <3>5. openRows' \in [Activities -> SUBSET (1..MaxPauses)]
      BY <3>1, <3>2, <3>3
    <3>6. QED
      BY <3>2, <3>3, <3>4, <3>5
  <2>2. CASE ~(openRows[r.target] = {} /\ inserted < MaxPauses)
    BY <2>2 DEF Wait, pauseTables, FloorInv, Shaped
  <2>3. QED
    BY <2>1, <2>2
<1>7. Shaped'
  BY <1>1, <1>3, <1>4, <1>5, <1>6 DEF FloorInv, Shaped
<1>8. ASSUME OneBench PROVE /\ \A d \in Clients : BenchReads(req[d])'
                           /\ \A a \in Activities : work'[a] = "done" => a \notin waiting'
  <2>1. ASSUME NEW d \in Clients PROVE BenchReads(req[d])'
    <3>1. CASE d = c
      BY <1>3, <3>1, NothingRead
    <3>2. CASE d # c
      <4>1. BenchReads(req[d]) /\ req'[d] = req[d] /\ work' = work
        BY <1>1, <1>3, <1>8, <3>2 DEF FloorInv, Bench
      <4>2. req[d].op = "close" => req[d].target # r.target
        BY <1>2, <1>4, <1>8, <3>2, Stations DEF OnActivities, FloorInv
      <4>3. QED
        BY <1>5, <4>1, <4>2 DEF BenchReads
    <3>3. QED
      BY <3>1, <3>2
  <2>2. work[r.target] = "in_progress"
    BY <1>1, <1>8 DEF FloorInv, Bench, BenchReads
  <2>3. QED
    BY <1>1, <1>5, <1>8, <2>1, <2>2 DEF FloorInv, Bench
<1>9. ASSUME OneTablet, NEW d \in Clients PROVE StartReads(req[d])'
  <2>1. CASE d = c
    BY <1>3, <2>1, NothingRead
  <2>2. CASE d # c
    BY <1>1, <1>3, <1>9, <2>2 DEF FloorInv, Tablets, StartReads
  <2>3. QED
    BY <2>1, <2>2
<1>10. Floor'
  BY <1>1, <1>3, FloorStays
<1>11. QED
  BY <1>1, <1>7, <1>8, <1>9, <1>10, SameCrew DEF FloorInv, Bench, Tablets

\* Resuming it.
LEMMA ResumeKeeps ==
    ASSUME FloorInv, NEW c \in Clients, Resume(c)
    PROVE  FloorInv'
<1> DEFINE r == req[c]
<1>1. r.op \in OnActivities /\ req' = [req EXCEPT ![c] = NoRequest] /\ CloseReadPauses(r)
      /\ UNCHANGED <<status, work, cut, crew>>
  BY DEF Resume, Committing, Done, OnActivities
<1>2. /\ req' \in [Clients -> Requests] /\ \A d \in Clients : Station(d, req[d])'
      /\ \A d \in Clients : req'[d] = IF d = c THEN NoRequest ELSE req[d]
  BY <1>1, Commits
<1>3. /\ waiting' \subseteq waiting /\ waiting' \subseteq Activities \ {"cutting"}
      /\ openRows' \in [Activities -> SUBSET (1..MaxPauses)] /\ inserted' \in 0..MaxPauses
      /\ \A a \in Activities : \A x, y \in openRows'[a] : x = y
  BY <1>1, LiftingKeeps DEF FloorInv
<1>4. Shaped'
  BY <1>1, <1>2, <1>3 DEF FloorInv, Shaped
<1>5. Bench' /\ Tablets' /\ Floor'
  BY <1>1, <1>2, <1>3, WorkStays, FloorStays
<1>6. QED
  BY <1>4, <1>5 DEF FloorInv

\* Rolling the order back: its cut is reopened.
LEMMA RollbackKeeps ==
    ASSUME FloorInv, NEW c \in Clients, Rollback(c)
    PROVE  FloorInv'
<1> DEFINE r == req[c]
<1>1. r.op \in OnOrder /\ req' = [req EXCEPT ![c] = NoRequest] /\ CloseReadPauses(r)
      /\ status' = "queued" /\ UNCHANGED <<cut, crew>>
  BY DEF Rollback, Committing, Done, OnOrder
<1>2. /\ req' \in [Clients -> Requests] /\ \A d \in Clients : Station(d, req[d])'
      /\ \A d \in Clients : req'[d] = IF d = c THEN NoRequest ELSE req[d]
  BY <1>1, Commits
<1>3. /\ waiting' \subseteq waiting /\ waiting' \subseteq Activities \ {"cutting"}
      /\ openRows' \in [Activities -> SUBSET (1..MaxPauses)] /\ inserted' \in 0..MaxPauses
      /\ \A a \in Activities : \A x, y \in openRows'[a] : x = y
  BY <1>1, LiftingKeeps DEF FloorInv
<1>4. work \in [Activities -> Works]
      /\ work' = IF r.work["cutting"] # "pending"
                THEN [work EXCEPT !["cutting"] = "pending"] ELSE work
  BY DEF Rollback, FloorInv, Shaped
<1>5. work' \in [Activities -> Works]
      /\ \A a \in Activities : work'[a] = work[a] \/ (a = "cutting" /\ work'[a] = "pending")
  BY <1>4 DEF Works, Activities
<1>6. Shaped'
  BY <1>1, <1>2, <1>3, <1>5 DEF FloorInv, Shaped
<1>7. ASSUME NEW d \in Clients
      PROVE  (OneBench => BenchReads(req[d])') /\ (OneTablet => StartReads(req[d])')
  <2>1. CASE d = c
    BY <1>2, <2>1, NothingRead
  <2>2. CASE d # c
    <3>1. req[d] \in Requests /\ Station(d, req[d]) /\ req'[d] = req[d]
      BY <1>2, <2>2 DEF FloorInv, Shaped
    <3>2. req[d].op \in OnActivities => req[d].target \in Activities
      BY <3>1, RequestFacts DEF Carries
    <3>3. OneBench => BenchReads(req[d])'
      BY <1>3, <1>5, <3>1, <3>2 DEF FloorInv, Bench, BenchReads, Station, OnActivities
    <3>4. OneTablet => StartReads(req[d])'
      BY <1>5, <3>1, <3>2 DEF FloorInv, Tablets, StartReads, OnActivities
    <3>5. QED
      BY <3>3, <3>4
  <2>3. QED
    BY <2>1, <2>2
<1>8. OneBench => \A a \in Activities : work'[a] = "done" => a \notin waiting'
  BY <1>3, <1>5 DEF FloorInv, Bench
<1>9. ~OneEach
  BY <1>1, NoMoves DEF FloorInv
<1>10. QED
  BY <1>1, <1>6, <1>7, <1>8, <1>9, SameCrew DEF FloorInv, Bench, Tablets, Floor

\* Closing the order by hand.
LEMMA FinishKeeps ==
    ASSUME FloorInv, NEW c \in Clients, Finish(c)
    PROVE  FloorInv'
<1>1. req[c].op \in OnOrder /\ req' = [req EXCEPT ![c] = NoRequest] /\ status' = "finished"
      /\ UNCHANGED <<work, waiting, openRows, inserted, cut, crew>>
  BY DEF Finish, Committing, Done, OnOrder, pauseTables
<1>2. /\ req' \in [Clients -> Requests] /\ \A d \in Clients : Station(d, req[d])'
      /\ \A d \in Clients : req'[d] = IF d = c THEN NoRequest ELSE req[d]
  BY <1>1, Commits
<1>3. Shaped'
  BY <1>1, <1>2 DEF FloorInv, Shaped
<1>4. Bench' /\ Tablets'
  BY <1>1, <1>2, WorkStays
<1>5. ~OneEach
  BY <1>1, NoMoves DEF FloorInv
<1>6. QED
  BY <1>1, <1>3, <1>4, <1>5, SameCrew DEF FloorInv, Floor

-----------------------------------------------------------------------------
\* The invariant holds of the order the operator has just taken.
LEMMA FloorStarts == ASSUME Init PROVE FloorInv
<1>1. 0 \in 0..MaxPauses /\ waiting \subseteq Activities \ {"cutting"} /\ crew \subseteq Clients
      /\ openRows = [a \in Activities |-> {}] /\ cut \subseteq Pieces
  BY RequestsAssumption DEF Init
<1>2. work \in [Activities -> Works] /\ openRows \in [Activities -> SUBSET (1..MaxPauses)]
      /\ work["cutting"] = "in_progress" /\ (\A a \in Activities : work[a] # "done")
  BY DEF Init, Works, Activities
<1>3. req \in [Clients -> Requests] /\ \A c \in Clients : req[c] = NoRequest
  BY NoRequestFacts DEF Init
<1>4. \A c \in Clients : Station(c, req[c]) /\ BenchReads(req[c]) /\ StartReads(req[c])
                      /\ FloorReads(req[c])
  BY <1>3, NoRequestFacts
  DEF Station, BenchReads, StartReads, FloorReads, OnActivities, OnPieces, OnOrder
<1>5. status = "in_process" /\ inserted = 0
  BY DEF Init
<1>6. Shaped
  BY <1>1, <1>2, <1>3, <1>4, <1>5 DEF Shaped
<1>7. QED
  BY <1>2, <1>4, <1>5, <1>6 DEF FloorInv, Bench, Tablets, Floor

\* Every step keeps it.
LEMMA FloorStep == ASSUME FloorInv, [Next]_vars PROVE FloorInv'
<1>1. CASE UNCHANGED vars
  BY <1>1
  DEF vars, pauseTables, FloorInv, Shaped, Station, Bench, BenchReads, Tablets, StartReads,
      Floor, FloorReads, AllDone, OneBench, OneTablet, OneEach
<1>2. ASSUME NEW c \in Clients, NEW op \in {"start", "close", "wait", "resume"},
             NEW a \in Activities, LoadActivity(c, op, a)
      PROVE  FloorInv'
  BY <1>2, LoadActivityKeeps
<1>3. ASSUME NEW c \in Clients, NEW op \in {"mark", "unmark"}, NEW p \in Pieces,
             LoadPiece(c, op, p)
      PROVE  FloorInv'
  BY <1>3, LoadPieceKeeps
<1>4. ASSUME NEW c \in Clients, NEW op \in {"rollback", "finish"}, LoadMove(c, op)
      PROVE  FloorInv'
  BY <1>4, LoadMoveKeeps
<1>5. ASSUME NEW c \in Clients, Count(c) PROVE FloorInv'
  BY <1>5, CountKeeps
<1>6. ASSUME NEW c \in Clients, Start(c) \/ Close(c) \/ Mark(c) \/ Unmark(c) PROVE FloorInv'
  BY <1>6, StartKeeps, CloseKeeps, MarkKeeps, UnmarkKeeps
<1>7. ASSUME NEW c \in Clients, Wait(c) \/ Resume(c) \/ Rollback(c) \/ Finish(c)
      PROVE  FloorInv'
  BY <1>7, WaitKeeps, ResumeKeeps, RollbackKeeps, FinishKeeps
<1>8. QED
  BY <1>1, <1>2, <1>3, <1>4, <1>5, <1>6, <1>7 DEF Next

\* The floor's invariant, for any pieces, tablets, screens and pauses.
THEOREM FloorSafe == Spec => []FloorInv
<1>1. Init => FloorInv
  BY FloorStarts
<1>2. FloorInv /\ [Next]_vars => FloorInv'
  BY FloorStep
<1>3. QED
  BY <1>1, <1>2, PTL DEF Spec

\* The order's status, its activities, the marks of its pieces and its waits agree.
THEOREM FloorKeepsAgreeing == Spec => []FloorAgrees
<1>1. FloorInv => FloorAgrees
  <2> SUFFICES ASSUME FloorInv PROVE FloorAgrees
    OBVIOUS
  <2>1. TypeOK
    BY DEF FloorInv, Shaped, TypeOK, Works
  <2>2. FinishedWorkIsComplete
    BY DEF FloorInv, Floor, FinishedWorkIsComplete, AllDone, Activities
  <2>3. ClosedCutMarksEveryPiece
    BY DEF FloorInv, Floor, ClosedCutMarksEveryPiece
  <2>4. ASSUME NEW a \in Activities PROVE Cardinality(openRows[a]) <= 1
    <3>1. \A x, y \in openRows[a] : x = y
      BY DEF FloorInv, Shaped
    <3>2. CASE openRows[a] = {}
      BY <3>2, FS_EmptySet
    <3>3. CASE openRows[a] # {}
      <4>1. PICK x \in openRows[a] : TRUE
        BY <3>3
      <4>2. openRows[a] = {x}
        BY <3>1, <4>1
      <4>3. Cardinality({x}) = 1
        BY FS_Singleton
      <4>4. QED
        BY <4>2, <4>3
    <3>4. QED
      BY <3>2, <3>3
  <2>5. ClosedActivitiesDoNotWait
    BY <2>4 DEF FloorInv, Bench, ClosedActivitiesDoNotWait
  <2>6. QED
    BY <2>1, <2>2, <2>3, <2>5 DEF FloorAgrees
<1>2. QED
  BY <1>1, FloorSafe, PTL

\* With one tablet at each station, only the office reopens work, and only the cut.
THEOREM OnlyTheOfficeReopens == Spec => ActivitiesOnlyAdvance
<1> DEFINE Advances ==
      OneTablet =>
         \A a \in Activities :
             (work[a] = "done" \/ (work[a] = "in_progress" /\ work'[a] = "pending"))
             /\ work'[a] # work[a]
                => a = "cutting" /\ \E c \in Admins : Rollback(c)
<1>1. FloorInv /\ [Next]_vars => [Advances]_vars
  <2> SUFFICES ASSUME FloorInv, Next, OneTablet, NEW a \in Activities,
                      work[a] = "done" \/ (work[a] = "in_progress" /\ work'[a] = "pending"),
                      work'[a] # work[a]
               PROVE  a = "cutting" /\ \E c \in Admins : Rollback(c)
    BY DEF vars
  <2>1. PICK c \in Clients : Start(c) \/ Close(c) \/ Rollback(c)
    BY DEF Next, LoadActivity, LoadPiece, LoadMove, Count, Mark, Unmark, Wait, Resume, Finish
  <2>2. work \in [Activities -> Works] /\ req[c] \in Requests /\ Station(c, req[c])
    BY DEF FloorInv, Shaped
  <2>3. CASE Start(c)
    <3>1. work[req[c].target] = "pending"
      BY <2>3 DEF FloorInv, Tablets, StartReads, Start, Committing
    <3>2. work' = [work EXCEPT ![req[c].target] = "in_progress"]
      BY <2>3 DEF Start
    <3>3. QED
      BY <2>2, <3>1, <3>2
  <2>4. CASE Close(c)
    <3>1. work' = [work EXCEPT ![req[c].target] = "done"]
      BY <2>4 DEF Close
    <3>2. QED
      BY <2>2, <3>1
  <2>5. CASE Rollback(c)
    <3>1. c \in Admins
      BY <2>2, <2>5 DEF Rollback, Committing, Station, OnOrder
    <3>2. a = "cutting"
      BY <2>2, <2>5 DEF Rollback
    <3>3. QED
      BY <2>5, <3>1, <3>2
  <2>6. QED
    BY <2>1, <2>3, <2>4, <2>5
<1>2. QED
  BY <1>1, FloorSafe, PTL DEF Spec, ActivitiesOnlyAdvance
=============================================================================
