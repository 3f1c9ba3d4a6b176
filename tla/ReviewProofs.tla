---------------------------- MODULE ReviewProofs ----------------------------
(***************************************************************************)
(* Proofs about PreOrderReview, for any sessions, links, edits, prices,    *)
(* orders and crashes.                                                     *)
(***************************************************************************)
EXTENDS PreOrderReview, SequenceTheorems, FiniteSetTheorems, TLAPS

Keys == Nat \X Nat
OrderRows == [key : Keys, active : BOOLEAN]
LinkStatuses == {"active", "used", "revoked"}

Bare == [op : {"none", "expire", "delete"}]
Updating == [op : {"update"}, status : Open]
Generating == [op : {"generate"}, status : Open, revoke : SUBSET Nat]
Deciding == [op : {"confirm", "reject", "changes"}, link : Nat, status : Open, inputs : Nat]
Priced == [op : {"priced"}, link : Nat, key : Keys]
Confirming == [op : {"confirmed"}, link : Nat, order : Nat]

Requests == Bare \union Updating \union Generating \union Deciding \union Priced \union Confirming

FromALink(r) == r.op \in {"confirm", "reject", "changes", "priced", "confirmed"}

\* Holds whatever crosses: a request from a link finds the link while the quote
\* is there, and a confirmation its order.
Shaped ==
    /\ status \in Open \union Terminal \union {"gone"}
    /\ stale \in BOOLEAN
    /\ inputs \in 0..MaxEdits
    /\ prices \in 0..MaxPrices
    /\ links \in Seq(LinkStatuses)
    /\ orders \in Seq(OrderRows)
    /\ orderId \in {NoOrder} \union DOMAIN orders
    /\ crashes \in 0..MaxCrashes /\ crossed \in BOOLEAN
    /\ req \in [Sessions -> Requests]
    /\ \A c \in Sessions : status # "gone" /\ FromALink(req[c]) => req[c].link \in DOMAIN links
    /\ \A c \in Sessions : req[c].op = "confirmed" => req[c].order \in DOMAIN orders
    /\ ConfirmedHasItsOrder

\* What the one request in flight read is still so.
StillSo(r) ==
    /\ r.op \notin {"none", "delete"} => status \in Open
    /\ r.op = "delete" => status # "confirmed"
    /\ r.op \in {"update", "generate"} => r.status = status
    /\ r.op = "generate" => r.revoke = ActiveLinks
    /\ r.op = "confirm" => r.inputs = inputs
    /\ r.op = "priced" => r.key[1] = inputs /\ Duplicates(r.key) = {}
    /\ r.op = "confirmed" => orders[r.order].key[1] = inputs

Alone == \A c, d \in Sessions : c # d => req[c].op = "none" \/ req[d].op = "none"

AtMostOneActive == \A i, j \in ActiveLinks : i = j

\* Holds until two requests cross.
Calm ==
    ~crossed =>
        /\ Alone
        /\ \A c \in Sessions : StillSo(req[c])
        /\ AtMostOneActive

\* The inductive invariant.
ReviewInv ==
    /\ Shaped
    /\ Calm
    /\ ConfirmedShowsItsOrder
    /\ UsedLinkMeansDecided
    /\ OneOrderPerKey
    /\ NoOrphanOrder

-----------------------------------------------------------------------------
\* No two kinds of request are confused.
LEMMA RequestFacts ==
    ASSUME NEW r \in Requests
    PROVE  /\ r = NoRequest <=> r.op = "none"
           /\ r.op = "update" => r \in Updating
           /\ r.op = "generate" => r \in Generating
           /\ r.op \in {"confirm", "reject", "changes"} => r \in Deciding
           /\ r.op = "priced" => r \in Priced
           /\ r.op = "confirmed" => r \in Confirming
  BY DEF Requests, NoRequest, Bare, Updating, Generating, Deciding, Priced, Confirming

\* Nobody in flight is a request, of which nothing is asked.
LEMMA NoRequestFacts == NoRequest \in Requests /\ NoRequest.op = "none"
  BY DEF NoRequest, Requests, Bare

\* A request that starts alone finds what it needs; one that does not is noticed.
LEMMA BeginKeeps ==
    ASSUME ReviewInv, NEW c \in Sessions, NEW r \in Requests, Begin(c, r),
           r.op # "confirmed", StillSo(r),
           FromALink(r) => r.link \in DOMAIN links
    PROVE  ReviewInv'
<1> USE DEF ReviewInv
<1>1. /\ status' = status /\ stale' = stale /\ inputs' = inputs /\ links' = links
      /\ orderId' = orderId /\ prices' = prices /\ orders' = orders /\ crashes' = crashes
      /\ req' = [req EXCEPT ![c] = r]
      /\ crossed' = (crossed \/ \E d \in Sessions : req[d] # NoRequest)
      /\ req[c] = NoRequest
  BY DEF Begin, quote
<1>2. req'[c] = r /\ \A d \in Sessions \ {c} : req'[d] = req[d]
  BY <1>1 DEF Shaped
<1>3. crossed' \in BOOLEAN
  BY <1>1
<1>4. Shaped'
  BY <1>1, <1>2, <1>3 DEF Shaped, ConfirmedHasItsOrder, FromALink
<1>5. ~crossed' => ~crossed /\ \A d \in Sessions : req[d].op = "none"
  BY <1>1, NoRequestFacts
<1>6. Calm'
  <2> SUFFICES ASSUME ~crossed'
               PROVE  Alone' /\ (\A d \in Sessions : StillSo(req[d])') /\ AtMostOneActive'
    BY DEF Calm
  <2>1. \A d \in Sessions \ {c} : req'[d].op = "none"
    BY <1>2, <1>5
  <2>2. Alone'
    BY <2>1 DEF Alone
  <2>3. \A d \in Sessions \ {c} : StillSo(req[d])'
    BY <2>1 DEF StillSo
  <2>4. StillSo(req[c])'
    BY <1>1, <1>2 DEF StillSo, ActiveLinks, Duplicates
  <2>5. AtMostOneActive'
    BY <1>1, <1>5 DEF Calm, AtMostOneActive, ActiveLinks
  <2>6. QED
    BY <2>2, <2>3, <2>4, <2>5
<1>7. ConfirmedShowsItsOrder' /\ UsedLinkMeansDecided' /\ OneOrderPerKey'
  BY <1>1, <1>5 DEF ConfirmedShowsItsOrder, UsedLinkMeansDecided, OneOrderPerKey
<1>8. NoOrphanOrder'
  BY <1>1, <1>5 DEF NoOrphanOrder
<1>9. QED
  BY <1>4, <1>6, <1>7, <1>8

\* Once the only request is answered none is in flight.
LEMMA EndFacts ==
    ASSUME ReviewInv, NEW c \in Sessions, req[c].op # "none", End(c), crossed' = crossed
    PROVE  /\ req' \in [Sessions -> Requests]
           /\ \A d \in Sessions : req'[d] = NoRequest \/ req'[d] = req[d]
           /\ ~crossed => /\ StillSo(req[c])
                          /\ \A d \in Sessions \ {c} : req[d].op = "none"
                          /\ \A d \in Sessions : req'[d].op = "none"
                          /\ Alone'
                          /\ \A d \in Sessions : StillSo(req[d])'
<1>1. req' = [req EXCEPT ![c] = NoRequest] /\ req \in [Sessions -> Requests]
  BY DEF End, ReviewInv, Shaped
<1>2. req'[c] = NoRequest /\ \A d \in Sessions \ {c} : req'[d] = req[d]
  BY <1>1
<1>3. ~crossed => /\ StillSo(req[c])
                  /\ \A d \in Sessions \ {c} : req[d].op = "none"
  BY DEF ReviewInv, Calm, Alone
<1>4. ~crossed => \A d \in Sessions : req'[d].op = "none"
  BY <1>2, <1>3, NoRequestFacts
<1>5. ~crossed => Alone' /\ \A d \in Sessions : StillSo(req[d])'
  BY <1>4 DEF Alone, StillSo
<1>6. QED
  BY <1>1, <1>2, <1>3, <1>4, <1>5, NoRequestFacts

\* A commit that leaves the links and the orders alone, and no decision undone,
\* keeps the invariant.
LEMMA StatusKeeps ==
    ASSUME ReviewInv, NEW c \in Sessions, req[c].op # "none", End(c),
           UNCHANGED <<links, orders, orderId, prices, crossed, stale>>,
           crashes' \in 0..MaxCrashes, crashes' = 0 => crashes = 0,
           inputs' \in 0..MaxEdits,
           status' \in Open \union Terminal, status # "gone",
           status' = "confirmed" => status = "confirmed",
           ~crossed => \/ status \in Open
                       \/ status' = status /\ inputs' = inputs,
           crashes' = 0 /\ ~crossed => req[c].op # "confirmed"
    PROVE  ReviewInv'
<1> USE DEF ReviewInv
<1>1. /\ req' \in [Sessions -> Requests]
      /\ \A d \in Sessions : req'[d] = NoRequest \/ req'[d] = req[d]
      /\ ~crossed => /\ StillSo(req[c])
                     /\ \A d \in Sessions \ {c} : req[d].op = "none"
                     /\ Alone'
                     /\ \A d \in Sessions : StillSo(req[d])'
  BY EndFacts
<1>2. Shaped'
  <2>1. status' # "gone"
    BY DEF Open, Terminal
  <2>2. \A d \in Sessions : FromALink(req'[d]) => req'[d] = req[d]
    BY <1>1, NoRequestFacts DEF FromALink
  <2>3. \A d \in Sessions : req'[d].op = "confirmed" => req'[d] = req[d]
    BY <1>1, NoRequestFacts
  <2>4. QED
    BY <1>1, <2>1, <2>2, <2>3 DEF Shaped, ConfirmedHasItsOrder, FromALink
<1>3. Calm'
  BY <1>1 DEF Calm, AtMostOneActive, ActiveLinks
<1>4. ConfirmedShowsItsOrder'
  BY DEF ConfirmedShowsItsOrder, Open
<1>5. UsedLinkMeansDecided'
  BY DEF UsedLinkMeansDecided, Open
<1>6. OneOrderPerKey'
  BY DEF OneOrderPerKey
<1>7. NoOrphanOrder'
  BY <1>1 DEF NoOrphanOrder, Open
<1>8. QED
  BY <1>2, <1>3, <1>4, <1>5, <1>6, <1>7

\* A request under way is about an open quote, unless it crossed another.
LEMMA OpenFact ==
    ASSUME ReviewInv, NEW c \in Sessions, req[c].op \notin {"none", "delete"}
    PROVE  ~crossed => status \in Open
  BY DEF ReviewInv, Calm, StillSo

\* The lazy expiry.
LEMMA CommitExpireKeeps ==
    ASSUME ReviewInv, NEW c \in Sessions, CommitExpire(c)
    PROVE  ReviewInv'
<1>1. /\ req[c].op = "expire" /\ status # "gone" /\ status' = "expired" /\ End(c)
      /\ UNCHANGED <<links, orders, orderId, prices, crossed, stale, inputs, crashes>>
  BY DEF CommitExpire, Committing, trouble
<1>2. inputs \in 0..MaxEdits /\ crashes \in 0..MaxCrashes
  BY DEF ReviewInv, Shaped
<1>3. QED
  BY <1>1, <1>2, OpenFact, StatusKeeps DEF Terminal

\* An edit: the quote is open, or requests crossed.
LEMMA CommitUpdateKeeps ==
    ASSUME ReviewInv, NEW c \in Sessions, CommitUpdate(c)
    PROVE  ReviewInv'
<1>1. /\ req[c].op = "update" /\ status # "gone" /\ End(c)
      /\ status' \in {"sent", status}
      /\ inputs' \in {inputs, inputs + 1} /\ inputs' <= MaxEdits
      /\ UNCHANGED <<links, orders, orderId, prices, crossed, stale, crashes>>
  BY DEF CommitUpdate, Committing, trouble
<1>2. inputs' \in 0..MaxEdits /\ crashes \in 0..MaxCrashes /\ status \in Open \union Terminal
  BY <1>1, ReviewAssumption DEF ReviewInv, Shaped
<1>3. status' \in Open \union Terminal /\ (status' = "confirmed" => status = "confirmed")
  BY <1>1, <1>2 DEF Open
<1>4. QED
  BY <1>1, <1>2, <1>3, OpenFact, StatusKeeps

\* The client asks for changes.
LEMMA CommitRequestChangesKeeps ==
    ASSUME ReviewInv, NEW c \in Sessions, CommitRequestChanges(c)
    PROVE  ReviewInv'
<1>1. /\ req[c].op = "changes" /\ status # "gone" /\ End(c)
      /\ status' \in {"changes_requested", status}
      /\ UNCHANGED <<links, orders, orderId, prices, crossed, stale, inputs, crashes>>
  BY DEF CommitRequestChanges, Committing, trouble
<1>2. inputs \in 0..MaxEdits /\ crashes \in 0..MaxCrashes /\ status \in Open \union Terminal
  BY <1>1 DEF ReviewInv, Shaped
<1>3. status' \in Open \union Terminal /\ (status' = "confirmed" => status = "confirmed")
  BY <1>1, <1>2 DEF Open
<1>4. QED
  BY <1>1, <1>2, <1>3, OpenFact, StatusKeeps

\* A request that dies, or finds the row deleted, changes nothing but itself.
LEMMA LostKeeps ==
    ASSUME ReviewInv, NEW c \in Sessions, Crash(c) \/ RowGone(c)
    PROVE  ReviewInv'
<1> USE DEF ReviewInv
<1>1. /\ req[c].op # "none" /\ End(c)
      /\ UNCHANGED <<links, orders, orderId, prices, crossed, stale, inputs, status>>
      /\ \/ crashes < MaxCrashes /\ crashes' = crashes + 1
         \/ crashes' = crashes /\ status = "gone"
  BY RequestFacts DEF Crash, RowGone, quote, trouble, Shaped
<1>2. crashes' \in 0..MaxCrashes /\ (crashes' = 0 => crashes = 0 /\ status = "gone")
  BY <1>1, ReviewAssumption DEF Shaped
<1>3. /\ req' \in [Sessions -> Requests]
      /\ \A d \in Sessions : req'[d] = NoRequest \/ req'[d] = req[d]
      /\ ~crossed => /\ StillSo(req[c])
                     /\ \A d \in Sessions \ {c} : req[d].op = "none"
                     /\ Alone'
                     /\ \A d \in Sessions : StillSo(req[d])'
  BY <1>1, EndFacts
<1>4. Shaped'
  <2>1. \A d \in Sessions : FromALink(req'[d]) => req'[d] = req[d]
    BY <1>3, NoRequestFacts DEF FromALink
  <2>2. \A d \in Sessions : req'[d].op = "confirmed" => req'[d] = req[d]
    BY <1>3, NoRequestFacts
  <2>3. QED
    BY <1>1, <1>2, <1>3, <2>1, <2>2 DEF Shaped, ConfirmedHasItsOrder, FromALink
<1>5. Calm'
  BY <1>1, <1>3 DEF Calm, AtMostOneActive, ActiveLinks
<1>6. ConfirmedShowsItsOrder' /\ UsedLinkMeansDecided' /\ OneOrderPerKey'
  BY <1>1 DEF ConfirmedShowsItsOrder, UsedLinkMeansDecided, OneOrderPerKey
<1>7. NoOrphanOrder'
  BY <1>1, <1>2, <1>3 DEF NoOrphanOrder, StillSo, Open
<1>8. QED
  BY <1>4, <1>5, <1>6, <1>7

\* A deletion takes the links with it: a quote that leaves an order is not deleted.
LEMMA CommitDeleteKeeps ==
    ASSUME ReviewInv, NEW c \in Sessions, CommitDelete(c)
    PROVE  ReviewInv'
<1> USE DEF ReviewInv
<1>1. /\ req[c].op = "delete" /\ status' = "gone" /\ links' = <<>> /\ End(c)
      /\ UNCHANGED <<orders, orderId, prices, crossed, stale, inputs, crashes>>
  BY DEF CommitDelete, Committing, trouble
<1>2. /\ req' \in [Sessions -> Requests]
      /\ \A d \in Sessions : req'[d] = NoRequest \/ req'[d] = req[d]
      /\ ~crossed => /\ StillSo(req[c])
                     /\ \A d \in Sessions \ {c} : req[d].op = "none"
                     /\ Alone'
                     /\ \A d \in Sessions : StillSo(req[d])'
  BY <1>1, EndFacts
<1>3. Shaped'
  <2>1. \A d \in Sessions : req'[d].op = "confirmed" => req'[d] = req[d]
    BY <1>2, NoRequestFacts
  <2>2. QED
    BY <1>1, <1>2, <2>1 DEF Shaped, ConfirmedHasItsOrder
<1>4. DOMAIN links' = {}
  BY <1>1
<1>5. Calm'
  BY <1>1, <1>2, <1>4 DEF Calm, AtMostOneActive, ActiveLinks
<1>6. ConfirmedShowsItsOrder' /\ UsedLinkMeansDecided' /\ OneOrderPerKey'
  BY <1>1, <1>4 DEF ConfirmedShowsItsOrder, UsedLinkMeansDecided, OneOrderPerKey
<1>7. NoOrphanOrder'
  BY <1>1, <1>2 DEF NoOrphanOrder, StillSo
<1>8. QED
  BY <1>3, <1>5, <1>6, <1>7

\* A new link is the only active one when the ones revoked were all there were.
LEMMA CommitGenerateKeeps ==
    ASSUME ReviewInv, NEW c \in Sessions, CommitGenerate(c)
    PROVE  ReviewInv'
<1> DEFINE old == [i \in DOMAIN links |-> IF i \in req[c].revoke THEN "revoked" ELSE links[i]]
<1> USE DEF ReviewInv
<1>1. /\ req[c].op = "generate" /\ status # "gone" /\ End(c)
      /\ status' \in {"sent", status} /\ stale' = FALSE
      /\ links' = Append(old, "active")
      /\ UNCHANGED <<orders, orderId, prices, crossed, inputs, crashes>>
  BY DEF CommitGenerate, Committing, trouble
<1>2. links \in Seq(LinkStatuses) /\ Len(links) \in Nat /\ DOMAIN links = 1..Len(links)
  BY DEF Shaped
<1>3. old \in Seq(LinkStatuses) /\ DOMAIN old = 1..Len(links) /\ Len(old) = Len(links)
  <2>1. \A i \in 1..Len(links) : old[i] \in LinkStatuses
    BY <1>2, ElementOfSeq DEF LinkStatuses
  <2>2. old = [i \in 1..Len(links) |-> old[i]]
    BY <1>2
  <2> HIDE DEF old
  <2>3. QED
    BY <1>2, <2>1, <2>2
<1>4. \A i \in DOMAIN links : old[i] = IF i \in req[c].revoke THEN "revoked" ELSE links[i]
  OBVIOUS
<1> HIDE DEF old
<1>5. /\ links' \in Seq(LinkStatuses)
      /\ DOMAIN links' = (DOMAIN links) \union {Len(links) + 1}
      /\ links'[Len(links) + 1] = "active"
      /\ \A i \in DOMAIN links : links'[i] = old[i]
  BY <1>1, <1>2, <1>3 DEF LinkStatuses
<1>6. /\ req' \in [Sessions -> Requests]
      /\ \A d \in Sessions : req'[d] = NoRequest \/ req'[d] = req[d]
      /\ ~crossed => /\ StillSo(req[c])
                     /\ \A d \in Sessions \ {c} : req[d].op = "none"
                     /\ Alone'
                     /\ \A d \in Sessions : StillSo(req[d])'
  BY <1>1, EndFacts
<1>7. status' \in Open \union Terminal /\ (status' = "confirmed" => status = "confirmed")
  BY <1>1 DEF Shaped, Open
<1>8. Shaped'
  <2>1. \A d \in Sessions : FromALink(req'[d]) => req'[d] = req[d]
    BY <1>6, NoRequestFacts DEF FromALink
  <2>2. \A d \in Sessions : req'[d].op = "confirmed" => req'[d] = req[d]
    BY <1>6, NoRequestFacts
  <2>3. stale' \in BOOLEAN
    BY <1>1
  <2>4. QED
    BY <1>1, <1>5, <1>6, <1>7, <2>1, <2>2, <2>3 DEF Shaped, ConfirmedHasItsOrder, FromALink
<1>9. ~crossed => /\ \A i \in DOMAIN links : links'[i] # "active"
                  /\ \A i \in DOMAIN links : links'[i] = "used" => links[i] = "used"
  BY <1>1, <1>4, <1>5, <1>6 DEF StillSo, ActiveLinks
<1>10. Calm'
  BY <1>1, <1>5, <1>6, <1>9 DEF Calm, AtMostOneActive, ActiveLinks
<1>11. ~crossed => status \in Open
  BY <1>1, <1>6 DEF StillSo
<1>12. ConfirmedShowsItsOrder' /\ OneOrderPerKey'
  BY <1>1, <1>7, <1>11 DEF ConfirmedShowsItsOrder, OneOrderPerKey, Open
<1>13. UsedLinkMeansDecided'
  BY <1>1, <1>5, <1>9, <1>11 DEF UsedLinkMeansDecided, Open
<1>14. NoOrphanOrder'
  BY <1>1, <1>6, <1>11 DEF NoOrphanOrder, Open
<1>15. QED
  BY <1>8, <1>10, <1>12, <1>13, <1>14

\* A rejection uses up its link.
LEMMA CommitRejectKeeps ==
    ASSUME ReviewInv, NEW c \in Sessions, CommitReject(c)
    PROVE  ReviewInv'
<1> USE DEF ReviewInv
<1>1. /\ req[c].op = "reject" /\ status # "gone" /\ End(c) /\ status' = "rejected"
      /\ links' = [links EXCEPT ![req[c].link] = "used"]
      /\ UNCHANGED <<orders, orderId, prices, crossed, inputs, crashes, stale>>
  BY DEF CommitReject, Committing, trouble
<1>2. links \in Seq(LinkStatuses) /\ DOMAIN links = 1..Len(links) /\ req[c].link \in DOMAIN links
  BY <1>1 DEF Shaped, FromALink
<1>3. /\ links' \in Seq(LinkStatuses)
      /\ DOMAIN links' = DOMAIN links
      /\ links'[req[c].link] = "used"
      /\ \A i \in DOMAIN links : i # req[c].link => links'[i] = links[i]
  BY <1>1, <1>2, ExceptSeq DEF LinkStatuses
<1>4. /\ req' \in [Sessions -> Requests]
      /\ \A d \in Sessions : req'[d] = NoRequest \/ req'[d] = req[d]
      /\ ~crossed => /\ StillSo(req[c])
                     /\ \A d \in Sessions \ {c} : req[d].op = "none"
                     /\ Alone'
                     /\ \A d \in Sessions : StillSo(req[d])'
  BY <1>1, EndFacts
<1>5. Shaped'
  <2>1. \A d \in Sessions : FromALink(req'[d]) => req'[d] = req[d]
    BY <1>4, NoRequestFacts DEF FromALink
  <2>2. \A d \in Sessions : req'[d].op = "confirmed" => req'[d] = req[d]
    BY <1>4, NoRequestFacts
  <2>3. QED
    BY <1>1, <1>3, <1>4, <2>1, <2>2 DEF Shaped, ConfirmedHasItsOrder, FromALink, Terminal
<1>6. Calm'
  <2>1. ActiveLinks' \subseteq ActiveLinks
    BY <1>3 DEF ActiveLinks
  <2>2. QED
    BY <1>1, <1>4, <2>1 DEF Calm, AtMostOneActive
<1>7. ConfirmedShowsItsOrder' /\ OneOrderPerKey' /\ UsedLinkMeansDecided'
  BY <1>1 DEF ConfirmedShowsItsOrder, OneOrderPerKey, UsedLinkMeansDecided
<1>8. NoOrphanOrder'
  BY <1>1, <1>4 DEF NoOrphanOrder, StillSo, Open
<1>9. QED
  BY <1>5, <1>6, <1>7, <1>8

-----------------------------------------------------------------------------
\* The inputs as loaded, priced: a duplicate is an order of the same inputs.
LEMMA PriceKeeps ==
    ASSUME ReviewInv, NEW c \in Sessions, Price(c)
    PROVE  ReviewInv'
<1> DEFINE key == <<req[c].inputs, prices>>
           found == [op |-> "confirmed", link |-> req[c].link,
                     order |-> CHOOSE i \in Duplicates(key) : TRUE]
           fresh == [op |-> "priced", link |-> req[c].link, key |-> key]
           next == IF Duplicates(key) # {} THEN found ELSE fresh
<1> USE DEF ReviewInv
<1>1. /\ req[c].op = "confirm" /\ req' = [req EXCEPT ![c] = next]
      /\ UNCHANGED <<status, stale, inputs, links, orderId, prices, orders, crashes, crossed>>
  BY DEF Price, quote, trouble
<1>2. req[c].inputs \in Nat /\ req[c].link \in Nat /\ prices \in Nat
  BY <1>1, RequestFacts DEF Shaped, Deciding
<1>3. next \in Requests /\ next.link = req[c].link /\ next.op \in {"confirmed", "priced"}
  <2>1. fresh \in Requests
    BY <1>2 DEF Requests, Priced, Keys
  <2>2. Duplicates(key) # {} => found \in Requests
    <3>1. Duplicates(key) \subseteq Nat
      BY DEF Duplicates, Shaped
    <3>2. QED
      BY <1>2, <3>1 DEF Requests, Confirming
  <2>3. QED
    BY <2>1, <2>2
<1>4. next.op = "confirmed" => next.order \in DOMAIN orders /\ orders[next.order].key = key
  BY DEF Duplicates
<1>5. next.op = "priced" => next.key = key /\ Duplicates(key) = {}
  OBVIOUS
<1>6. key[1] = req[c].inputs
  OBVIOUS
<1> HIDE DEF next, key
<1>7. req'[c] = next /\ \A d \in Sessions \ {c} : req'[d] = req[d]
  BY <1>1 DEF Shaped
<1>8. Shaped'
  BY <1>1, <1>3, <1>4, <1>7 DEF Shaped, ConfirmedHasItsOrder, FromALink
<1>9. Calm'
  <2> SUFFICES ASSUME ~crossed
               PROVE  Alone' /\ (\A d \in Sessions : StillSo(req[d])') /\ AtMostOneActive'
    BY <1>1 DEF Calm
  <2>1. \A d \in Sessions \ {c} : req'[d].op = "none"
    BY <1>1, <1>7 DEF Calm, Alone
  <2>2. Alone'
    BY <2>1 DEF Alone
  <2>3. \A d \in Sessions \ {c} : StillSo(req[d])'
    BY <2>1 DEF StillSo
  <2>4. req[c].inputs = inputs /\ status \in Open
    BY <1>1 DEF Calm, StillSo
  <2>5. StillSo(req[c])'
    BY <1>1, <1>3, <1>4, <1>5, <1>6, <1>7, <2>4 DEF StillSo, Duplicates
  <2>6. AtMostOneActive'
    BY <1>1 DEF Calm, AtMostOneActive, ActiveLinks
  <2>7. QED
    BY <2>2, <2>3, <2>5, <2>6
<1>10. ConfirmedShowsItsOrder' /\ UsedLinkMeansDecided' /\ OneOrderPerKey'
  BY <1>1 DEF ConfirmedShowsItsOrder, UsedLinkMeansDecided, OneOrderPerKey
<1>11. NoOrphanOrder'
  <2>1. \A d \in Sessions : req[d].op = "confirmed" => req'[d] = req[d]
    BY <1>1, <1>7
  <2>2. QED
    BY <1>1, <2>1 DEF NoOrphanOrder
<1>12. QED
  BY <1>8, <1>9, <1>10, <1>11

\* The first commit: an order of a key no active order has.
LEMMA MintKeeps ==
    ASSUME ReviewInv, NEW c \in Sessions, Mint(c)
    PROVE  ReviewInv'
<1> DEFINE n == Len(orders) + 1
           row == [key |-> req[c].key, active |-> TRUE]
           next == [op |-> "confirmed", link |-> req[c].link, order |-> n]
<1> USE DEF ReviewInv
<1>1. req[c] \in Priced /\ req[c].op = "priced"
  BY RequestFacts DEF Mint, Shaped
<1>2. row \in OrderRows /\ row.key = req[c].key /\ row.active
  BY <1>1 DEF Priced, OrderRows
<1>3. orders \in Seq(OrderRows) /\ Len(orders) \in Nat /\ DOMAIN orders = 1..Len(orders)
  BY DEF Shaped
<1>4. /\ orders' = Append(orders, row)
      /\ UNCHANGED <<status, stale, inputs, links, orderId, prices, crashes, crossed>>
  BY DEF Mint, quote, trouble
<1>5. /\ orders' \in Seq(OrderRows) /\ Len(orders') = n
      /\ DOMAIN orders' = (DOMAIN orders) \union {n}
      /\ orders'[n] = row /\ \A i \in DOMAIN orders : orders'[i] = orders[i]
      /\ n \notin DOMAIN orders
  BY <1>2, <1>3, <1>4
<1>6. req' = [req EXCEPT ![c] = next]
  BY <1>5 DEF Mint
<1>7. next \in Requests /\ next.op = "confirmed" /\ next.link = req[c].link /\ next.order = n
  BY <1>1, <1>3 DEF Priced, Requests, Confirming
<1> HIDE DEF next, row, n
<1>8. req'[c] = next /\ \A d \in Sessions \ {c} : req'[d] = req[d]
  BY <1>6 DEF Shaped
<1>9. Shaped'
  <2>1. req' \in [Sessions -> Requests]
    BY <1>6, <1>7 DEF Shaped
  <2>2. \A d \in Sessions : status # "gone" /\ FromALink(req'[d]) => req'[d].link \in DOMAIN links
    BY <1>1, <1>7, <1>8 DEF Shaped, FromALink
  <2>3. \A d \in Sessions : req'[d].op = "confirmed" => req'[d].order \in DOMAIN orders'
    BY <1>5, <1>7, <1>8 DEF Shaped
  <2>4. QED
    BY <1>4, <1>5, <2>1, <2>2, <2>3 DEF Shaped, ConfirmedHasItsOrder, FromALink
<1>10. ~crossed => /\ req[c].key[1] = inputs /\ status \in Open
                   /\ Duplicates(req[c].key) = {}
                   /\ \A d \in Sessions \ {c} : req'[d].op = "none"
  BY <1>1, <1>8 DEF Calm, Alone, StillSo
<1>11. Calm'
  <2> SUFFICES ASSUME ~crossed
               PROVE  Alone' /\ (\A d \in Sessions : StillSo(req[d])') /\ AtMostOneActive'
    BY <1>4 DEF Calm
  <2>1. Alone'
    BY <1>10 DEF Alone
  <2>2. \A d \in Sessions \ {c} : StillSo(req[d])'
    BY <1>10 DEF StillSo
  <2>3. StillSo(req[c])'
    BY <1>2, <1>4, <1>5, <1>7, <1>8, <1>10 DEF StillSo
  <2>4. AtMostOneActive'
    BY <1>4 DEF Calm, AtMostOneActive, ActiveLinks
  <2>5. QED
    BY <2>1, <2>2, <2>3, <2>4
<1>12. ConfirmedShowsItsOrder' /\ UsedLinkMeansDecided'
  BY <1>4, <1>10 DEF ConfirmedShowsItsOrder, UsedLinkMeansDecided, Open
<1>13. OneOrderPerKey'
  BY <1>2, <1>4, <1>5, <1>10 DEF OneOrderPerKey, Duplicates
<1>14. NoOrphanOrder'
  BY <1>7, <1>8 DEF NoOrphanOrder
<1>15. QED
  BY <1>9, <1>11, <1>12, <1>13, <1>14

\* The second commit shows the order of what was confirmed.
LEMMA CommitConfirmKeeps ==
    ASSUME ReviewInv, NEW c \in Sessions, CommitConfirm(c)
    PROVE  ReviewInv'
<1> USE DEF ReviewInv
<1>1. /\ req[c].op = "confirmed" /\ status # "gone" /\ End(c) /\ status' = "confirmed"
      /\ orderId' = req[c].order
      /\ links' = [links EXCEPT ![req[c].link] = "used"]
      /\ UNCHANGED <<orders, prices, crossed, inputs, crashes, stale>>
  BY DEF CommitConfirm, Committing, trouble
<1>2. links \in Seq(LinkStatuses) /\ DOMAIN links = 1..Len(links) /\ req[c].link \in DOMAIN links
  BY <1>1 DEF Shaped, FromALink
<1>3. /\ links' \in Seq(LinkStatuses)
      /\ DOMAIN links' = DOMAIN links
      /\ links'[req[c].link] = "used"
      /\ \A i \in DOMAIN links : i # req[c].link => links'[i] = links[i]
  BY <1>1, <1>2, ExceptSeq DEF LinkStatuses
<1>4. /\ req' \in [Sessions -> Requests]
      /\ \A d \in Sessions : req'[d] = NoRequest \/ req'[d] = req[d]
      /\ ~crossed => /\ StillSo(req[c])
                     /\ Alone'
                     /\ \A d \in Sessions : StillSo(req[d])'
  BY <1>1, EndFacts
<1>5. req[c].order \in DOMAIN orders
  BY <1>1 DEF Shaped
<1>6. Shaped'
  <2>1. \A d \in Sessions : FromALink(req'[d]) => req'[d] = req[d]
    BY <1>4, NoRequestFacts DEF FromALink
  <2>2. \A d \in Sessions : req'[d].op = "confirmed" => req'[d] = req[d]
    BY <1>4, NoRequestFacts
  <2>3. QED
    BY <1>1, <1>3, <1>4, <1>5, <2>1, <2>2 DEF Shaped, ConfirmedHasItsOrder, FromALink, Terminal
<1>7. Calm'
  <2>1. ActiveLinks' \subseteq ActiveLinks
    BY <1>3 DEF ActiveLinks
  <2>2. QED
    BY <1>1, <1>4, <2>1 DEF Calm, AtMostOneActive
<1>8. ConfirmedShowsItsOrder'
  BY <1>1, <1>4 DEF ConfirmedShowsItsOrder, StillSo
<1>9. OneOrderPerKey' /\ UsedLinkMeansDecided' /\ NoOrphanOrder'
  BY <1>1 DEF OneOrderPerKey, UsedLinkMeansDecided, NoOrphanOrder
<1>10. QED
  BY <1>6, <1>7, <1>8, <1>9

-----------------------------------------------------------------------------
\* Time and prices pass under whatever is in flight.
LEMMA WorldKeeps ==
    ASSUME ReviewInv, Elapse \/ Reprice
    PROVE  ReviewInv'
<1> USE DEF ReviewInv
<1>1. /\ UNCHANGED <<status, inputs, links, orders, orderId, crashes, crossed, req>>
      /\ stale' \in BOOLEAN /\ prices' \in 0..MaxPrices
  <2>1. CASE Elapse
    <3>1. stale' = TRUE /\ prices' = prices
      BY <2>1 DEF Elapse
    <3>2. QED
      BY <2>1, <3>1 DEF Elapse, trouble, Shaped
  <2>2. CASE Reprice
    <3>1. prices' = prices + 1 /\ prices < MaxPrices /\ MaxPrices \in Nat
      BY <2>2, ReviewAssumption DEF Reprice
    <3>2. prices' \in 0..MaxPrices
      BY <3>1 DEF Shaped
    <3>3. QED
      BY <2>2, <3>2 DEF Reprice, quote, trouble, Shaped
  <2>3. QED
    BY <2>1, <2>2
<1>2. Shaped'
  BY <1>1 DEF Shaped, ConfirmedHasItsOrder, FromALink
<1>3. Calm'
  BY <1>1 DEF Calm, Alone, StillSo, AtMostOneActive, ActiveLinks, Duplicates
<1>4. ConfirmedShowsItsOrder' /\ UsedLinkMeansDecided' /\ OneOrderPerKey' /\ NoOrphanOrder'
  BY <1>1 DEF ConfirmedShowsItsOrder, UsedLinkMeansDecided, OneOrderPerKey, NoOrphanOrder
<1>5. QED
  BY <1>2, <1>3, <1>4

\* An order that closes keeps its key.
LEMMA ClosedRowFacts ==
    ASSUME NEW r \in OrderRows
    PROVE  /\ [r EXCEPT !.active = FALSE] \in OrderRows
           /\ [r EXCEPT !.active = FALSE].key = r.key
           /\ ~[r EXCEPT !.active = FALSE].active
  BY DEF OrderRows

\* So the quote still shows it, and no key gains an active order.
LEMMA OrderClosesKeeps ==
    ASSUME ReviewInv, NEW n \in DOMAIN orders, OrderCloses(n)
    PROVE  ReviewInv'
<1> DEFINE row == [orders[n] EXCEPT !.active = FALSE]
<1> USE DEF ReviewInv
<1>1. orders \in Seq(OrderRows) /\ n \in 1..Len(orders) /\ DOMAIN orders = 1..Len(orders)
  BY DEF Shaped
<1>2. orders[n] \in OrderRows
  BY <1>1, ElementOfSeq
<1>3. row \in OrderRows /\ row.key = orders[n].key /\ ~row.active
  BY <1>2, ClosedRowFacts
<1>4. orders' = [orders EXCEPT ![n] = row]
  BY DEF OrderCloses
<1> HIDE DEF row
<1>5. /\ orders' \in Seq(OrderRows) /\ DOMAIN orders' = DOMAIN orders
      /\ orders'[n] = row /\ \A i \in DOMAIN orders : i # n => orders'[i] = orders[i]
  BY <1>1, <1>3, <1>4, ExceptSeq
<1>6. \A i \in DOMAIN orders : /\ orders'[i].key = orders[i].key
                               /\ orders'[i].active => orders[i].active
  BY <1>3, <1>5
<1>7. UNCHANGED <<status, stale, inputs, links, orderId, prices, crashes, crossed, req>>
  BY DEF OrderCloses, quote, trouble
<1>8. Shaped'
  BY <1>5, <1>7 DEF Shaped, ConfirmedHasItsOrder, FromALink
<1>9. Calm'
  <2> SUFFICES ASSUME ~crossed
               PROVE  Alone' /\ (\A d \in Sessions : StillSo(req[d])') /\ AtMostOneActive'
    BY <1>7 DEF Calm
  <2>1. Alone' /\ AtMostOneActive'
    BY <1>7 DEF Calm, Alone, AtMostOneActive, ActiveLinks
  <2>2. ASSUME NEW d \in Sessions PROVE StillSo(req[d])'
    <3>1. StillSo(req[d])
      BY DEF Calm
    <3>2. req[d].op = "priced" => Duplicates(req[d].key)' = {}
      BY <1>5, <1>6, <1>7, <3>1 DEF StillSo, Duplicates
    <3>3. req[d].op = "confirmed" => orders'[req[d].order].key = orders[req[d].order].key
      BY <1>6 DEF Shaped
    <3>4. QED
      BY <1>7, <3>1, <3>2, <3>3 DEF StillSo, ActiveLinks
  <2>3. QED
    BY <2>1, <2>2
<1>10. ConfirmedShowsItsOrder'
  BY <1>6, <1>7 DEF ConfirmedShowsItsOrder, Shaped, ConfirmedHasItsOrder
<1>11. UsedLinkMeansDecided'
  BY <1>7 DEF UsedLinkMeansDecided
<1>12. OneOrderPerKey'
  BY <1>5, <1>6, <1>7 DEF OneOrderPerKey
<1>13. NoOrphanOrder'
  <2>1. orders = <<>> => orders' = <<>>
    BY <1>1
  <2>2. QED
    BY <1>7, <2>1 DEF NoOrphanOrder
<1>14. QED
  BY <1>8, <1>9, <1>10, <1>11, <1>12, <1>13

-----------------------------------------------------------------------------
\* The requests that load.
LEMMA LoadsKeep ==
    ASSUME ReviewInv, NEW c \in Sessions,
           LoadExpire(c) \/ LoadUpdate(c) \/ LoadDelete(c) \/ LoadGenerate(c)
    PROVE  ReviewInv'
<1>1. CASE LoadExpire(c)
  <2> DEFINE r == [op |-> "expire"]
  <2>1. r \in Requests /\ StillSo(r) /\ ~FromALink(r)
    BY <1>1 DEF LoadExpire, Requests, Bare, StillSo, FromALink
  <2>2. Begin(c, r) /\ r.op # "confirmed"
    BY <1>1 DEF LoadExpire
  <2> HIDE DEF r
  <2>3. QED
    BY <2>1, <2>2, BeginKeeps
<1>2. CASE LoadUpdate(c)
  <2> DEFINE r == [op |-> "update", status |-> status]
  <2>1. r \in Requests /\ StillSo(r) /\ ~FromALink(r)
    BY <1>2 DEF LoadUpdate, Editable, Requests, Updating, StillSo, FromALink
  <2>2. Begin(c, r) /\ r.op # "confirmed"
    BY <1>2 DEF LoadUpdate
  <2> HIDE DEF r
  <2>3. QED
    BY <2>1, <2>2, BeginKeeps
<1>3. CASE LoadDelete(c)
  <2> DEFINE r == [op |-> "delete"]
  <2>1. r \in Requests /\ StillSo(r) /\ ~FromALink(r)
    BY <1>3 DEF LoadDelete, Deletable, Requests, Bare, StillSo, FromALink
  <2>2. Begin(c, r) /\ r.op # "confirmed"
    BY <1>3 DEF LoadDelete
  <2> HIDE DEF r
  <2>3. QED
    BY <2>1, <2>2, BeginKeeps
<1>4. CASE LoadGenerate(c)
  <2> DEFINE r == [op |-> "generate", status |-> status, revoke |-> ActiveLinks]
  <2>1. ActiveLinks \subseteq Nat
    BY DEF ReviewInv, Shaped, ActiveLinks
  <2>2. r \in Requests /\ StillSo(r) /\ ~FromALink(r)
    BY <1>4, <2>1 DEF LoadGenerate, Requests, Generating, StillSo, FromALink
  <2>3. Begin(c, r) /\ r.op # "confirmed"
    BY <1>4 DEF LoadGenerate
  <2> HIDE DEF r
  <2>4. QED
    BY <2>2, <2>3, BeginKeeps
<1>5. QED
  BY <1>1, <1>2, <1>3, <1>4

\* The decisions of the client.
LEMMA LoadDecisionKeeps ==
    ASSUME ReviewInv, NEW c \in Sessions, NEW i \in DOMAIN links,
           NEW op \in {"confirm", "reject", "changes"}, LoadDecision(c, i, op)
    PROVE  ReviewInv'
<1> DEFINE r == [op |-> op, link |-> i, status |-> status, inputs |-> inputs]
<1>1. status \in Open /\ i \in Nat /\ inputs \in Nat
  BY DEF LoadDecision, Decidable, ReviewInv, Shaped
<1>2. r \in Requests
  BY <1>1 DEF Requests, Deciding
<1>3. StillSo(r) /\ r.link \in DOMAIN links
  BY <1>1 DEF StillSo
<1>4. Begin(c, r) /\ r.op # "confirmed"
  BY DEF LoadDecision
<1> HIDE DEF r
<1>5. QED
  BY <1>2, <1>3, <1>4, BeginKeeps

\* Every step keeps the invariant.
LEMMA ReviewStep == ReviewInv /\ [Next]_vars => ReviewInv'
<1> SUFFICES ASSUME ReviewInv, [Next]_vars PROVE ReviewInv'
  OBVIOUS
<1>1. ASSUME NEW c \in Sessions,
             LoadExpire(c) \/ LoadUpdate(c) \/ LoadDelete(c) \/ LoadGenerate(c)
      PROVE  ReviewInv'
  BY <1>1, LoadsKeep
<1>2. ASSUME NEW c \in Sessions, NEW i \in DOMAIN links,
             NEW op \in {"confirm", "reject", "changes"}, LoadDecision(c, i, op)
      PROVE  ReviewInv'
  BY <1>2, LoadDecisionKeeps
<1>3. ASSUME NEW c \in Sessions,
             CommitExpire(c) \/ CommitUpdate(c) \/ CommitDelete(c) \/ CommitGenerate(c)
      PROVE  ReviewInv'
  BY <1>3, CommitExpireKeeps, CommitUpdateKeeps, CommitDeleteKeeps, CommitGenerateKeeps
<1>4. ASSUME NEW c \in Sessions, CommitReject(c) \/ CommitRequestChanges(c)
      PROVE  ReviewInv'
  BY <1>4, CommitRejectKeeps, CommitRequestChangesKeeps
<1>5. ASSUME NEW c \in Sessions, Price(c) \/ Mint(c) \/ CommitConfirm(c)
      PROVE  ReviewInv'
  BY <1>5, PriceKeeps, MintKeeps, CommitConfirmKeeps
<1>6. ASSUME NEW c \in Sessions, Crash(c) \/ RowGone(c) PROVE ReviewInv'
  BY <1>6, LostKeeps
<1>7. ASSUME Elapse \/ Reprice PROVE ReviewInv'
  BY <1>7, WorldKeeps
<1>8. ASSUME NEW i \in DOMAIN orders, OrderCloses(i) PROVE ReviewInv'
  BY <1>8, OrderClosesKeeps
<1>9. CASE UNCHANGED vars
  BY <1>9 DEF vars, quote, trouble, ReviewInv, Shaped, Calm, Alone, StillSo, AtMostOneActive,
              ActiveLinks, Duplicates, FromALink, ConfirmedHasItsOrder, ConfirmedShowsItsOrder,
              UsedLinkMeansDecided, OneOrderPerKey, NoOrphanOrder
<1>10. QED
  BY <1>1, <1>2, <1>3, <1>4, <1>5, <1>6, <1>7, <1>8, <1>9 DEF Next

\* The inductive invariant holds of every run of the quote and its links.
THEOREM ReviewSafe == Spec => []ReviewInv
<1>1. Init => ReviewInv
  <2> SUFFICES ASSUME Init PROVE ReviewInv
    OBVIOUS
  <2>1. /\ status = "draft" /\ inputs = 0 /\ prices = 0 /\ links = <<>> /\ orders = <<>>
        /\ orderId = NoOrder /\ crashes = 0 /\ req = [c \in Sessions |-> NoRequest]
    BY DEF Init
  <2>2. stale \in BOOLEAN /\ crossed \in BOOLEAN
    BY DEF Init
  <2>3. 0 \in 0..MaxEdits /\ 0 \in 0..MaxPrices /\ 0 \in 0..MaxCrashes
    BY ReviewAssumption
  <2>4. \A c \in Sessions : req[c].op = "none"
    BY <2>1, NoRequestFacts
  <2>5. req \in [Sessions -> Requests]
    BY <2>1, NoRequestFacts
  <2>6. ConfirmedHasItsOrder /\ ConfirmedShowsItsOrder
    BY <2>1 DEF ConfirmedHasItsOrder, ConfirmedShowsItsOrder
  <2>7. Shaped
    BY <2>1, <2>2, <2>3, <2>4, <2>5, <2>6 DEF Shaped, FromALink, Open
  <2>8. Calm
    BY <2>1, <2>4 DEF Calm, Alone, StillSo, AtMostOneActive, ActiveLinks
  <2>9. UsedLinkMeansDecided /\ OneOrderPerKey /\ NoOrphanOrder
    BY <2>1 DEF UsedLinkMeansDecided, OneOrderPerKey, NoOrphanOrder
  <2>10. QED
    BY <2>6, <2>7, <2>8, <2>9 DEF ReviewInv
<1>2. QED
  BY <1>1, ReviewStep, PTL DEF Spec

\* The quote, its links and its orders agree, whatever is lost or retried between
\* the two commits.
THEOREM QuoteShowsItsOrder == Spec => []ConfirmationsAgree
<1>1. ReviewInv => ConfirmationsAgree
  <2> SUFFICES ASSUME ReviewInv PROVE TypeOK
    BY DEF ConfirmationsAgree, ReviewInv, Shaped
  <2>1. \A i \in DOMAIN orders : orders[i].active \in BOOLEAN
    <3>1. \A i \in DOMAIN orders : orders[i] \in OrderRows
      BY ElementOfSeq DEF ReviewInv, Shaped
    <3>2. QED
      BY <3>1 DEF OrderRows
  <2>2. QED
    BY <2>1 DEF ReviewInv, Shaped, TypeOK, LinkStatuses
<1>2. QED
  BY <1>1, ReviewSafe, PTL

\* No request by itself leaves two links that work.
THEOREM OneLinkWorks == Spec => []OneActiveLink
<1>1. ReviewInv => OneActiveLink
  <2> SUFFICES ASSUME ReviewInv, ~crossed PROVE Cardinality(ActiveLinks) <= 1
    BY DEF OneActiveLink
  <2>1. CASE ActiveLinks = {}
    BY <2>1, FS_EmptySet
  <2>2. CASE ActiveLinks # {}
    <3>1. PICK i \in ActiveLinks : TRUE
      BY <2>2
    <3>2. ActiveLinks = {i}
      BY <3>1 DEF ReviewInv, Calm, AtMostOneActive
    <3>3. Cardinality({i}) = 1
      BY FS_Singleton
    <3>4. QED
      BY <3>2, <3>3
  <2>3. QED
    BY <2>1, <2>2
<1>2. QED
  BY <1>1, ReviewSafe, PTL

\* A decided quote stays decided, and one that shows an order is never deleted.
THEOREM DecisionsStand == Spec => TerminalIsFinal
<1> DEFINE Stands == ~crossed =>
                        /\ status = "confirmed" => status' = "confirmed"
                        /\ status \in {"rejected", "expired"} => status' \in {status, "gone"}
<1>1. ReviewInv /\ [Next]_vars => [Stands]_vars
  <2> SUFFICES ASSUME ReviewInv, Next, ~crossed, status' # status
               PROVE  /\ status # "confirmed"
                      /\ status \in {"rejected", "expired"} => status' = "gone"
    OBVIOUS
  <2>1. \A c \in Sessions : StillSo(req[c])
    BY DEF ReviewInv, Calm
  <2>2. PICK c \in Sessions :
           \/ CommitExpire(c) \/ CommitUpdate(c) \/ CommitDelete(c) \/ CommitGenerate(c)
           \/ CommitReject(c) \/ CommitRequestChanges(c) \/ CommitConfirm(c)
    BY DEF Next, LoadExpire, LoadUpdate, LoadDelete, LoadGenerate, LoadDecision, Begin, Price,
           Mint, Crash, RowGone, Elapse, Reprice, OrderCloses, quote
  <2>3. CASE CommitDelete(c)
    BY <2>1, <2>3 DEF CommitDelete, Committing, StillSo
  <2>4. CASE ~CommitDelete(c)
    <3>1. req[c].op \notin {"none", "delete"}
      BY <2>2, <2>4 DEF CommitExpire, CommitUpdate, CommitGenerate, CommitReject,
                        CommitRequestChanges, CommitConfirm, Committing
    <3>2. QED
      BY <2>1, <3>1 DEF StillSo, Open
  <2>5. QED
    BY <2>3, <2>4
<1>2. QED
  BY <1>1, ReviewSafe, PTL DEF Spec, TerminalIsFinal
=============================================================================
