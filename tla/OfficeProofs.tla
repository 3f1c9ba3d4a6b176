---------------------------- MODULE OfficeProofs -----------------------------
(***************************************************************************)
(* Proofs about the office's records: PrintQueue, for any number of PCs,   *)
(* shops, jobs and deliveries; Attachments, for any uploads and desks;     *)
(* Consumables, for any tablets, working hours and clock; CatalogSync, for *)
(* any inventory, catalog and administrators; Sessions, for any users,     *)
(* browsers, tokens and closings; ClientSync, for any list of clients,     *)
(* numbers and importers; and BackOffice, which puts all but the print     *)
(* queue side by side with ShopReports (ReportProofs).                     *)
(***************************************************************************)
EXTENDS BackOffice, PrintQueue, ReportProofs,
        SumTheorems, SequenceTheorems, FiniteSetTheorems, TLAPS

Underway == [step : {"save", "insert", "delete", "remove"}, key : Keys]

\* An upload has its key to itself until the row is in; what is on disk, or committed,
\* was drawn once.
KeysAgree ==
    /\ rows \union files \subseteq used
    /\ \A d \in Desks : ~DeskIs(d, "none") => desk[d].key \in used
    /\ \A d \in Desks : desk[d].step \in {"save", "insert"} =>
          /\ desk[d].key \notin rows
          /\ \A e \in Desks \ {d} : ~DeskIs(e, "none") => desk[e].key # desk[d].key

\* The row goes in after its file and out before it; what has a file and no row is in the
\* hands of a request that will settle it, or was left by one that died.
StoresAgree ==
    /\ \A d \in Desks : /\ DeskIs(d, "save") => desk[d].key \notin files
                        /\ DeskIs(d, "insert") => desk[d].key \in files
                        /\ DeskIs(d, "remove") => desk[d].key \notin rows
    /\ rows \subseteq files
    /\ \A k \in files \ rows :
          k \in orphaned \/ \E d \in Desks : desk[d].step \in {"insert", "remove"} /\ desk[d].key = k

\* The inductive invariant.
StoresInv == AttachmentsTyped /\ KeysAgree /\ StoresAgree

-----------------------------------------------------------------------------
\* A request under way has a key.
LEMMA UnderwayFact ==
    ASSUME AttachmentsTyped, NEW d \in Desks, ~DeskIs(d, "none")
    PROVE  desk[d] \in Underway
  BY DEF AttachmentsTyped, DeskRequests, Free, DeskIs, Underway

\* Its next step keeps the key.
LEMMA NextStepFact ==
    ASSUME NEW r \in Underway, NEW next \in {"insert", "remove"}
    PROVE  [r EXCEPT !.step = next] = [step |-> next, key |-> r.key]
  BY DEF Underway

\* Every step keeps the invariant.
LEMMA StoresStep == StoresInv /\ [AttachmentsNext]_attachmentVars => StoresInv'
<1> SUFFICES ASSUME StoresInv, [AttachmentsNext]_attachmentVars PROVE StoresInv'
  OBVIOUS
<1> USE DEF StoresInv, AttachmentsTyped, KeysAgree, StoresAgree, DeskIs, Becomes, DeskRequests, Free
<1>1. ASSUME NEW d \in Desks, NEW k \in Keys, LoadForUpload(d, k) PROVE StoresInv'
  BY <1>1 DEF LoadForUpload
<1>2. ASSUME NEW d \in Desks, SaveFile(d) PROVE StoresInv'
  <2>1. desk[d] \in Underway /\ desk' = [desk EXCEPT ![d] = [step |-> "insert", key |-> desk[d].key]]
    BY <1>2, UnderwayFact, NextStepFact DEF SaveFile
  <2>2. QED
    BY <1>2, <2>1 DEF SaveFile, Underway
<1>3. ASSUME NEW d \in Desks, CommitRow(d) PROVE StoresInv'
  <2>1. desk[d] \in Underway
    BY <1>3, UnderwayFact DEF CommitRow
  <2>2. QED
    BY <1>3, <2>1 DEF CommitRow, Underway
<1>4. ASSUME NEW d \in Desks, FailRow(d) PROVE StoresInv'
  <2>1. desk[d] \in Underway
    BY <1>4, UnderwayFact DEF FailRow
  <2>2. QED
    BY <1>4, <2>1 DEF FailRow, Undone, Underway
<1>5. ASSUME NEW d \in Desks, NEW k \in Keys, LoadForDelete(d, k) PROVE StoresInv'
  BY <1>5 DEF LoadForDelete
<1>6. ASSUME NEW d \in Desks, DeleteRow(d) PROVE StoresInv'
  <2>1. desk[d] \in Underway /\ desk' = [desk EXCEPT ![d] = [step |-> "remove", key |-> desk[d].key]]
    BY <1>6, UnderwayFact, NextStepFact DEF DeleteRow
  <2>2. QED
    BY <1>6, <2>1 DEF DeleteRow, RowGoesFirst, Underway
<1>7. ASSUME NEW d \in Desks, RemoveFile(d) PROVE StoresInv'
  <2>1. desk[d] \in Underway
    BY <1>7, UnderwayFact DEF RemoveFile
  <2>2. QED
    BY <1>7, <2>1 DEF RemoveFile, Underway
<1>8. ASSUME NEW d \in Desks, Abandon(d) PROVE StoresInv'
  <2>1. desk[d] \in Underway
    BY <1>8, UnderwayFact DEF Abandon
  <2>2. QED
    BY <1>8, <2>1 DEF Abandon, Underway
<1>9. ASSUME OrderEnds PROVE StoresInv'
  BY <1>9 DEF OrderEnds
<1>10. CASE UNCHANGED attachmentVars
  BY <1>10 DEF attachmentVars
<1>11. QED
  BY <1>1, <1>2, <1>3, <1>4, <1>5, <1>6, <1>7, <1>8, <1>9, <1>10 DEF AttachmentsNext

-----------------------------------------------------------------------------
\* The inductive invariant holds of every run of uploads and deletions.
THEOREM StoresSafe == AttachmentsSpec => []StoresInv
<1>1. AttachmentsInit => StoresInv
  <2> SUFFICES ASSUME AttachmentsInit PROVE StoresInv
    OBVIOUS
  <2>1. rows = {} /\ files = {} /\ used = {} /\ orphaned = {} /\ terminal = FALSE
    BY DEF AttachmentsInit
  <2>2. \A d \in Desks : desk[d].step = "none"
    BY DEF AttachmentsInit, Free
  <2>3. desk \in [Desks -> DeskRequests]
    BY DEF AttachmentsInit, DeskRequests
  <2>4. AttachmentsTyped
    BY <2>1, <2>3 DEF AttachmentsTyped
  <2>5. KeysAgree
    BY <2>1, <2>2 DEF KeysAgree, DeskIs
  <2>6. StoresAgree
    BY <2>1, <2>2 DEF StoresAgree, DeskIs
  <2>7. QED
    BY <2>4, <2>5, <2>6 DEF StoresInv
<1>2. QED
  BY <1>1, StoresStep, PTL DEF AttachmentsSpec

\* The keys and the requests keep their domains.
THEOREM AttachmentsTypeCorrect == AttachmentsSpec => []AttachmentsTyped
<1>1. StoresInv => AttachmentsTyped
  BY DEF StoresInv
<1>2. QED
  BY <1>1, StoresSafe, PTL

\* A committed row always has its file, and a file without a row is accounted for,
\* whatever dies between the two stores.
THEOREM RowsHaveFiles == AttachmentsSpec => []FilesFollowRows
<1>1. StoresInv => FilesFollowRows
  <2> SUFFICES ASSUME StoresInv, NEW k \in files \ rows, k \notin orphaned
               PROVE  \E d \in Desks : ~DeskIs(d, "none") /\ desk[d].key = k
    BY DEF StoresInv, StoresAgree, FilesFollowRows
  <2>1. PICK d \in Desks : desk[d].step \in {"insert", "remove"} /\ desk[d].key = k
    BY DEF StoresInv, StoresAgree
  <2>2. ~DeskIs(d, "none")
    BY <2>1 DEF DeskIs
  <2>3. QED
    BY <2>1, <2>2
<1>2. QED
  BY <1>1, StoresSafe, PTL
-----------------------------------------------------------------------------
ChangeRows == [at : Nat, created : Nat, by : Tablets, past : BOOLEAN, reason : BOOLEAN,
               voided : BOOLEAN]

Registrations == [step : {"lock", "insert"}, now : Nat, at : Nat, past : BOOLEAN, reason : BOOLEAN]

Taps == [step : {"none"}] \union Registrations \union [step : {"void"}, id : Nat]

RegisterShaped ==
    /\ today \in Nat
    /\ change \in Seq(ChangeRows)
    /\ tablet \in [Tablets -> Taps]

\* Nobody registers the future; a tap is of the instant it was made.
InstantsAgree ==
    /\ \A i \in DOMAIN change : change[i].at <= change[i].created /\ change[i].created <= today
    /\ \A p \in Tablets : tablet[p].step \in {"lock", "insert"} =>
          /\ tablet[p].at <= tablet[p].now /\ tablet[p].now <= today
          /\ ~tablet[p].past => tablet[p].at = tablet[p].now
    /\ \A p \in Tablets : tablet[p].step = "void" => tablet[p].id \in DOMAIN change

\* Whatever changes a reader keeps, one is the last: the gates always have one to ask.
EveryGroupHasALatest ==
    \A group \in SUBSET DOMAIN change :
        group # {} => \E i \in group : \A j \in group \ {i} : Earlier(j, i)

\* The branch's lock is one tablet's, from the reading of the changes to the commit.
OneRegisters ==
    \A p, q \in Tablets : tablet[p].step = "insert" /\ tablet[q].step = "insert" => p = q

Explained(r) ==
    ~r.past => \A i \in InForce : r.reason \/ worked_seconds(change[i].at, r.at) >= Early

\* What was judged under the lock is still so when it commits: voids only take away.
JudgmentsStand ==
    \A p \in Tablets :
        tablet[p].step = "insert" => ClearOfOthers(tablet[p].at) /\ Explained(tablet[p])

\* The inductive invariant of the consumables.
ConsumablesInv ==
    /\ RegisterShaped
    /\ InstantsAgree
    /\ EveryGroupHasALatest
    /\ OneRegisters
    /\ JudgmentsStand
    /\ KeptApart
    /\ ShortLivesAreExplained

-----------------------------------------------------------------------------
\* A later start has no more work done by the same end.
LEMMA WorkedMonotone ==
    ASSUME NEW start \in Nat, NEW later \in Nat, NEW end \in Nat, start <= later
    PROVE  worked_seconds(later, end) <= worked_seconds(start, end)
<1>1. end - 1 \in Int
  OBVIOUS
<1>2. IsFiniteSet(start..(end - 1))
  BY <1>1, FS_Interval
<1>3. IsFiniteSet(Working \intersect start..(end - 1))
  BY <1>2, FS_Intersection
<1>4. Working \intersect later..(end - 1) \subseteq Working \intersect start..(end - 1)
  OBVIOUS
<1>5. QED
  BY <1>3, <1>4, FS_Subset DEF worked_seconds

\* Hours worked are counted.
LEMMA WorkedCounted ==
    ASSUME NEW start \in Nat, NEW end \in Nat PROVE worked_seconds(start, end) \in Nat
<1>1. end - 1 \in Int
  OBVIOUS
<1>2. IsFiniteSet(start..(end - 1))
  BY <1>1, FS_Interval
<1>3. IsFiniteSet(Working \intersect start..(end - 1))
  BY <1>2, FS_Intersection
<1>4. QED
  BY <1>3, FS_CardinalityType DEF worked_seconds

\* A registered change is a row of the table.
LEMMA ChangeIsARow ==
    ASSUME RegisterShaped, NEW i \in DOMAIN change
    PROVE  i \in 1..Len(change) /\ i \in Nat /\ change[i] \in ChangeRows
  BY ElementOfSeq, LenProperties DEF RegisterShaped

\* With a change in force there is one last, and the gate asks that one.
LEMMA TheGateAsksTheLatest ==
    ASSUME ConsumablesInv, NEW i \in InForce
    PROVE  \E m \in InForce : LastAt = {change[m].at} /\ change[i].at <= change[m].at
<1>1. InForce \in SUBSET DOMAIN change /\ InForce # {}
  BY DEF InForce
<1>2. PICK m \in InForce : \A j \in InForce \ {m} : Earlier(j, m)
  BY <1>1 DEF ConsumablesInv, EveryGroupHasALatest
<1>3. Latest(m)
  BY <1>2 DEF Latest
<1>4. \A j \in InForce : change[j].at \in Nat /\ j \in Nat
  BY <1>1, ChangeIsARow DEF ConsumablesInv, ChangeRows
<1>5. ASSUME NEW j \in InForce, Latest(j) PROVE j = m
  BY <1>2, <1>4, <1>5 DEF Latest, Earlier
<1>6. LastAt = {change[m].at}
  BY <1>3, <1>5 DEF LastAt
<1>7. change[i].at <= change[m].at
  BY <1>2, <1>4 DEF Earlier
<1>8. QED
  BY <1>6, <1>7

\* A tap let through is clear of every change in force, and explained if it is early.
LEMMA TheGateJudges ==
    ASSUME ConsumablesInv, NEW r \in Registrations, ~r.past, r.at = r.now, Allowed(r)
    PROVE  ClearOfOthers(r.at) /\ Explained(r)
<1> SUFFICES ASSUME NEW i \in InForce
             PROVE  /\ Distance(change[i].at - r.at) > MIN_CHANGE_GAP
                    /\ r.reason \/ worked_seconds(change[i].at, r.at) >= Early
  BY DEF ClearOfOthers, Explained
<1>1. PICK m \in InForce : LastAt = {change[m].at} /\ change[i].at <= change[m].at
  BY TheGateAsksTheLatest
<1>2. change[i].at \in Nat /\ change[m].at \in Nat /\ r.at \in Nat
  BY ChangeIsARow DEF ConsumablesInv, InForce, ChangeRows, Registrations
<1>3. (CHOOSE at \in LastAt : TRUE) = change[m].at /\ LastAt # {}
  BY <1>1
<1>4. /\ ~(r.at - change[m].at <= MIN_CHANGE_GAP)
      /\ r.reason \/ ~(worked_seconds(change[m].at, r.at) < Early)
  BY <1>3 DEF Allowed, change_gate
<1>5. Distance(change[i].at - r.at) > MIN_CHANGE_GAP
  BY <1>1, <1>2, <1>4 DEF Distance, MIN_CHANGE_GAP
<1>6. worked_seconds(change[m].at, r.at) <= worked_seconds(change[i].at, r.at)
  BY <1>1, <1>2, WorkedMonotone
<1>7. worked_seconds(change[m].at, r.at) \in Nat /\ worked_seconds(change[i].at, r.at) \in Nat
  BY <1>2, WorkedCounted
<1>8. Early \in Nat
  BY ConsumablesAssumption
<1>9. QED
  BY <1>4, <1>5, <1>6, <1>7, <1>8

\* The request of an administrator judged clear is clear, and owes no explanation.
LEMMA TheRequestJudged ==
    ASSUME ConsumablesInv, NEW p \in Tablets, tablet[p].step = "lock", Allowed(tablet[p])
    PROVE  ClearOfOthers(tablet[p].at) /\ Explained(tablet[p])
<1>1. tablet[p] \in Registrations
  BY DEF ConsumablesInv, RegisterShaped, Taps, Registrations
<1>2. CASE tablet[p].past
  BY <1>2 DEF Allowed, Explained
<1>3. CASE ~tablet[p].past
  BY <1>1, <1>3, TheGateJudges DEF ConsumablesInv, InstantsAgree
<1>4. QED
  BY <1>2, <1>3

-----------------------------------------------------------------------------
\* What a tablet reads and sets aside changes no change: the parts of the invariant
\* that only look at the table stand.
LEMMA TheTableStands ==
    ASSUME ConsumablesInv, UNCHANGED <<change, today>>
    PROVE  /\ EveryGroupHasALatest' /\ KeptApart' /\ ShortLivesAreExplained'
           /\ \A i \in DOMAIN change' : change'[i].at <= change'[i].created /\ change'[i].created <= today'
           /\ \A r : Explained(r)' <=> Explained(r)
           /\ \A at : ClearOfOthers(at)' <=> ClearOfOthers(at)
  BY DEF ConsumablesInv, InstantsAgree, EveryGroupHasALatest, Earlier, KeptApart,
         ShortLivesAreExplained, InForce, worked_seconds, Explained, ClearOfOthers

\* A tablet that changes to a request which is not judged keeps the invariant.
LEMMA APlainRequestKeeps ==
    ASSUME ConsumablesInv, UNCHANGED <<change, today>>,
           NEW p \in Tablets, NEW r \in Taps, tablet' = [tablet EXCEPT ![p] = r],
           r.step # "insert",
           r.step = "lock" => r.at <= r.now /\ r.now <= today /\ (~r.past => r.at = r.now),
           r.step = "void" => r.id \in DOMAIN change
    PROVE  ConsumablesInv'
<1>1. RegisterShaped'
  BY DEF ConsumablesInv, RegisterShaped
<1>2. tablet'[p] = r /\ \A q \in Tablets \ {p} : tablet'[q] = tablet[q]
  BY DEF ConsumablesInv, RegisterShaped
<1>3. InstantsAgree'
  BY <1>2, TheTableStands DEF ConsumablesInv, InstantsAgree
<1>4. OneRegisters'
  BY <1>2 DEF ConsumablesInv, OneRegisters
<1>5. JudgmentsStand'
  BY <1>2, TheTableStands DEF ConsumablesInv, JudgmentsStand
<1>6. QED
  BY <1>1, <1>3, <1>4, <1>5, TheTableStands DEF ConsumablesInv

\* The judgment made under the lock.
LEMMA JudgedKeeps ==
    ASSUME ConsumablesInv, NEW p \in Tablets, LockAndJudge(p)
    PROVE  ConsumablesInv'
<1>1. CASE ~Allowed(tablet[p])
  <2>1. tablet' = [tablet EXCEPT ![p] = NoTap] /\ NoTap \in Taps /\ NoTap.step = "none"
    BY <1>1 DEF LockAndJudge, NoTap, Taps
  <2>2. QED
    BY <2>1, APlainRequestKeeps DEF LockAndJudge
<1>2. CASE Allowed(tablet[p])
  <2> DEFINE r == tablet[p]
  <2>1. r \in Registrations /\ r.step = "lock"
    BY DEF LockAndJudge, ConsumablesInv, RegisterShaped, Taps, Registrations
  <2>2. [r EXCEPT !.step = "insert"] =
            [step |-> "insert", now |-> r.now, at |-> r.at, past |-> r.past, reason |-> r.reason]
    BY <2>1 DEF Registrations
  <2>3. tablet' = [tablet EXCEPT ![p] = [step |-> "insert", now |-> r.now, at |-> r.at,
                                         past |-> r.past, reason |-> r.reason]]
    BY <1>2, <2>2 DEF LockAndJudge
  <2>4. ClearOfOthers(r.at) /\ Explained(r)
    BY <1>2, TheRequestJudged DEF LockAndJudge
  <2>5. r.at <= r.now /\ r.now <= today /\ (~r.past => r.at = r.now)
    BY <2>1 DEF ConsumablesInv, InstantsAgree
  <2>6. \A q \in Tablets : tablet[q].step # "insert"
    BY DEF LockAndJudge, LockFree
  <2> HIDE DEF r
  <2>7. [step |-> "insert", now |-> r.now, at |-> r.at, past |-> r.past, reason |-> r.reason] \in Taps
    BY <2>1 DEF Taps, Registrations
  <2>8. RegisterShaped'
    BY <2>3, <2>7 DEF LockAndJudge, ConsumablesInv, RegisterShaped
  <2>9. /\ tablet'[p] = [step |-> "insert", now |-> r.now, at |-> r.at, past |-> r.past,
                         reason |-> r.reason]
        /\ \A q \in Tablets \ {p} : tablet'[q] = tablet[q]
    BY <2>3 DEF ConsumablesInv, RegisterShaped
  <2>10. UNCHANGED <<change, today>>
    BY DEF LockAndJudge
  <2>11. InstantsAgree'
    BY <2>5, <2>9, <2>10, TheTableStands DEF ConsumablesInv, InstantsAgree
  <2>12. OneRegisters'
    BY <2>6, <2>9 DEF OneRegisters
  <2>13. Explained(tablet'[p]) /\ ClearOfOthers(tablet'[p].at)
    BY <2>4, <2>9 DEF Explained
  <2>14. JudgmentsStand'
    <3> SUFFICES ASSUME NEW q \in Tablets, tablet'[q].step = "insert"
                 PROVE  (ClearOfOthers(tablet[q].at) /\ Explained(tablet[q]))'
      BY DEF JudgmentsStand
    <3>1. q = p
      BY <2>6, <2>9
    <3>2. UNCHANGED <<change, today>>
      BY <2>10
    <3>3. QED
      BY <2>13, <3>1, <3>2 DEF ClearOfOthers, Explained, InForce, worked_seconds
  <2>15. QED
    BY <2>8, <2>10, <2>11, <2>12, <2>14, TheTableStands DEF ConsumablesInv
<1>3. QED
  BY <1>1, <1>2

-----------------------------------------------------------------------------
\* The table with one row more: the new one is the last index, the others stay.
LEMMA OneMoreChange ==
    ASSUME RegisterShaped, NEW row \in ChangeRows, change' = Append(change, row)
    PROVE  /\ change' \in Seq(ChangeRows)
           /\ Len(change') = Len(change) + 1
           /\ DOMAIN change' = DOMAIN change \union {Len(change) + 1}
           /\ Len(change) + 1 \notin DOMAIN change
           /\ change'[Len(change) + 1] = row
           /\ \A i \in DOMAIN change : change'[i] = change[i] /\ i \in Nat /\ i < Len(change) + 1
  BY AppendProperties, LenProperties DEF RegisterShaped

\* The last of a group is still there when the group grows by a later registration.
LEMMA GroupsStillHaveALatest ==
    ASSUME RegisterShaped, EveryGroupHasALatest, NEW row \in ChangeRows, change' = Append(change, row)
    PROVE  EveryGroupHasALatest'
<1> DEFINE n == Len(change) + 1
           After(i, j) == \/ change'[i].at < change'[j].at
                          \/ change'[i].at = change'[j].at /\ i < j
<1> SUFFICES ASSUME NEW group \in SUBSET DOMAIN change', group # {}
             PROVE  \E i \in group : \A j \in group \ {i} : After(j, i)
  BY DEF EveryGroupHasALatest, Earlier
<1>1. \A i \in DOMAIN change : /\ change'[i] = change[i] /\ i \in Nat /\ i < n
                               /\ change[i].at \in Nat
  BY OneMoreChange, ChangeIsARow DEF ChangeRows
<1>2. DOMAIN change' = DOMAIN change \union {n} /\ change'[n] = row /\ row.at \in Nat
      /\ n \notin DOMAIN change /\ n \in Nat
  BY OneMoreChange, LenProperties DEF ChangeRows, RegisterShaped
<1> HIDE DEF n
<1>3. \A i, j \in DOMAIN change : After(i, j) <=> Earlier(i, j)
  BY <1>1 DEF Earlier
<1>4. CASE n \notin group
  <2>1. group \in SUBSET DOMAIN change
    BY <1>2, <1>4
  <2>2. PICK i \in group : \A j \in group \ {i} : Earlier(j, i)
    BY <2>1 DEF EveryGroupHasALatest
  <2> HIDE DEF After
  <2>3. \A j \in group \ {i} : After(j, i)
    BY <2>1, <2>2, <1>3
  <2>4. QED
    BY <2>3
<1>5. CASE group = {n}
  BY <1>5
<1>6. CASE n \in group /\ group \ {n} # {}
  <2> DEFINE old == group \ {n}
  <2>1. old \in SUBSET DOMAIN change /\ old # {}
    BY <1>2, <1>6
  <2>2. PICK i \in old : \A j \in old \ {i} : Earlier(j, i)
    BY <2>1 DEF EveryGroupHasALatest
  <2>3. \A j \in old : change'[j].at \in Nat /\ j \in Nat /\ j < n
    BY <2>1, <1>1
  <2>4. \A j \in old \ {i} : After(j, i)
    BY <2>1, <2>2, <1>3
  <2>5. CASE row.at < change'[i].at
    <3>1. After(n, i)
      BY <2>5, <1>2
    <3>2. ASSUME NEW j \in group \ {i} PROVE After(j, i)
      <4>1. j = n \/ j \in old \ {i}
        OBVIOUS
      <4>2. QED
        BY <4>1, <2>4, <3>1
    <3>3. i \in group
      OBVIOUS
    <3> HIDE DEF After
    <3>4. QED
      BY <3>2, <3>3
  <2>6. CASE ~(row.at < change'[i].at)
    <3>1. After(i, n)
      BY <2>6, <2>3, <1>2
    <3>2. ASSUME NEW j \in old \ {i} PROVE After(j, n)
      BY <2>4, <2>6, <2>3, <1>2
    <3>3. ASSUME NEW j \in group \ {n} PROVE After(j, n)
      <4>1. j = i \/ j \in old \ {i}
        OBVIOUS
      <4>2. QED
        BY <4>1, <3>1, <3>2
    <3> HIDE DEF After
    <3>4. QED
      BY <1>6, <3>3
  <2>7. QED
    BY <2>5, <2>6
<1>7. QED
  BY <1>4, <1>5, <1>6

\* The registration lands where it was judged to fit.
LEMMA CommitChangeKeeps ==
    ASSUME ConsumablesInv, NEW p \in Tablets, CommitChange(p)
    PROVE  ConsumablesInv'
<1> DEFINE r == tablet[p]
           row == [at |-> r.at, created |-> r.now, by |-> p, past |-> r.past,
                   reason |-> r.reason, voided |-> FALSE]
           n == Len(change) + 1
<1>1. r \in Registrations /\ r.step = "insert"
  BY DEF CommitChange, ConsumablesInv, RegisterShaped, Taps, Registrations
<1>2. row \in ChangeRows /\ row.at = r.at /\ row.created = r.now /\ row.past = r.past
      /\ row.reason = r.reason /\ row.voided = FALSE
  BY <1>1 DEF ChangeRows, Registrations
<1>3. ClearOfOthers(r.at) /\ Explained(r)
  BY <1>1 DEF ConsumablesInv, JudgmentsStand
<1>4. r.at <= r.now /\ r.now <= today
  BY <1>1 DEF ConsumablesInv, InstantsAgree
<1>5. change' = Append(change, row) /\ today' = today /\ tablet' = [tablet EXCEPT ![p] = NoTap]
  BY DEF CommitChange
<1>6. \A q \in Tablets \ {p} : tablet[q].step # "insert"
  BY <1>1 DEF ConsumablesInv, OneRegisters
<1> HIDE DEF r, row
<1>7. /\ change' \in Seq(ChangeRows) /\ n \in Nat
      /\ DOMAIN change' = DOMAIN change \union {n} /\ n \notin DOMAIN change
      /\ change'[n] = row
      /\ \A i \in DOMAIN change : change'[i] = change[i] /\ i \in Nat /\ i < n
  BY <1>2, <1>5, OneMoreChange, LenProperties DEF ConsumablesInv, RegisterShaped
<1> HIDE DEF n
<1>8. tablet'[p] = NoTap /\ \A q \in Tablets \ {p} : tablet'[q] = tablet[q]
  BY <1>5 DEF ConsumablesInv, RegisterShaped
<1>9. RegisterShaped'
  BY <1>5, <1>7 DEF ConsumablesInv, RegisterShaped, Taps, NoTap
<1>10. EveryGroupHasALatest'
  BY <1>2, <1>5, GroupsStillHaveALatest DEF ConsumablesInv
<1>11. InForce' = InForce \union {n} /\ n \notin InForce
  BY <1>2, <1>7 DEF InForce
<1>12. InstantsAgree'
  <2>1. \A i \in DOMAIN change' : change'[i].at <= change'[i].created /\ change'[i].created <= today'
    BY <1>2, <1>4, <1>5, <1>7 DEF ConsumablesInv, InstantsAgree
  <2>2. \A q \in Tablets : tablet'[q].step # "none" => q # p /\ tablet'[q] = tablet[q]
    BY <1>8 DEF NoTap
  <2>3. QED
    BY <1>5, <1>7, <2>1, <2>2 DEF ConsumablesInv, InstantsAgree
<1>13. \A q \in Tablets : tablet'[q].step # "insert"
  BY <1>6, <1>8 DEF NoTap
<1>14. OneRegisters' /\ JudgmentsStand'
  BY <1>13 DEF OneRegisters, JudgmentsStand
<1>15. \A i \in InForce : change'[i] = change[i] /\ i \in DOMAIN change /\ i \in Nat /\ i < n
                          /\ change[i].at \in Nat
  BY <1>7, ChangeIsARow DEF InForce, ConsumablesInv, ChangeRows
<1>16. KeptApart'
  <2>1. row.at \in Nat
    BY <1>2 DEF ChangeRows
  <2>2. \A i \in InForce : Distance(change[i].at - row.at) > MIN_CHANGE_GAP
    BY <1>2, <1>3 DEF ClearOfOthers
  <2>3. \A i \in InForce : Distance(row.at - change[i].at) > MIN_CHANGE_GAP
    BY <1>15, <2>1, <2>2 DEF Distance, MIN_CHANGE_GAP
  <2>4. \A i, j \in InForce : i # j => Distance(change[i].at - change[j].at) > MIN_CHANGE_GAP
    BY DEF ConsumablesInv, KeptApart
  <2>5. \A i, j \in InForce \union {n} :
            i # j => Distance(change'[i].at - change'[j].at) > MIN_CHANGE_GAP
    BY <1>7, <1>15, <2>2, <2>3, <2>4
  <2>6. QED
    BY <1>11, <2>5 DEF KeptApart
<1>17. ShortLivesAreExplained'
  <2>1. ASSUME NEW i \in InForce, ~row.past
        PROVE  row.reason \/ worked_seconds(change[i].at, row.at) >= Early
    BY <1>2, <1>3, <2>1 DEF Explained
  <2>2. ASSUME NEW i \in InForce', NEW j \in InForce', i < j, ~change'[j].past
        PROVE  change'[j].reason \/ worked_seconds(change'[i].at, change'[j].at) >= Early
    <3>1. CASE j = n
      <4>1. i \in InForce
        BY <1>7, <1>11, <2>2, <3>1
      <4>2. QED
        BY <4>1, <3>1, <1>7, <1>15, <2>1, <2>2
    <3>2. CASE j # n
      <4>1. j \in InForce /\ i \in InForce
        BY <1>7, <1>11, <1>15, <2>2, <3>2
      <4>2. QED
        BY <4>1, <1>15, <2>2 DEF ConsumablesInv, ShortLivesAreExplained
    <3>3. QED
      BY <3>1, <3>2
  <2>3. QED
    BY <2>2 DEF ShortLivesAreExplained, worked_seconds
<1>18. QED
  BY <1>9, <1>10, <1>12, <1>14, <1>16, <1>17 DEF ConsumablesInv

\* A void takes its change out of force and moves none: what is judged of the changes
\* in force is judged of fewer.
LEMMA CommitVoidKeeps ==
    ASSUME ConsumablesInv, NEW p \in Tablets, CommitVoid(p)
    PROVE  ConsumablesInv'
<1> DEFINE v == tablet[p].id
<1>1. v \in DOMAIN change
  BY DEF CommitVoid, ConsumablesInv, InstantsAgree
<1>2. /\ change' = [change EXCEPT ![v] = [change[v] EXCEPT !.voided = TRUE]]
      /\ today' = today /\ tablet' = [tablet EXCEPT ![p] = NoTap]
  BY DEF CommitVoid
<1> HIDE DEF v
<1>3. /\ [change[v] EXCEPT !.voided = TRUE] \in ChangeRows
      /\ [change[v] EXCEPT !.voided = TRUE].at = change[v].at
      /\ [change[v] EXCEPT !.voided = TRUE].created = change[v].created
      /\ [change[v] EXCEPT !.voided = TRUE].past = change[v].past
      /\ [change[v] EXCEPT !.voided = TRUE].reason = change[v].reason
      /\ [change[v] EXCEPT !.voided = TRUE].voided
  BY <1>1, ChangeIsARow DEF ConsumablesInv, ChangeRows
<1>4. change' \in Seq(ChangeRows) /\ DOMAIN change' = DOMAIN change
  BY <1>1, <1>2, <1>3, ExceptSeq DEF ConsumablesInv, RegisterShaped
<1>5. /\ change'[v] = [change[v] EXCEPT !.voided = TRUE]
      /\ \A i \in DOMAIN change \ {v} : change'[i] = change[i]
  BY <1>1, <1>2 DEF ConsumablesInv, RegisterShaped
<1>6. \A i \in DOMAIN change : /\ change'[i].at = change[i].at
                               /\ change'[i].created = change[i].created
                               /\ change'[i].past = change[i].past
                               /\ change'[i].reason = change[i].reason
  BY <1>3, <1>5
<1>7. InForce' \subseteq InForce /\ InForce \subseteq DOMAIN change
  BY <1>3, <1>4, <1>5 DEF InForce
<1>8. tablet'[p] = NoTap /\ \A q \in Tablets \ {p} : tablet'[q] = tablet[q]
  BY <1>2 DEF ConsumablesInv, RegisterShaped
<1>9. RegisterShaped'
  BY <1>2, <1>4 DEF ConsumablesInv, RegisterShaped, Taps, NoTap
<1>10. \A q \in Tablets : tablet'[q].step # "none" => q # p /\ tablet'[q] = tablet[q]
  BY <1>8 DEF NoTap
<1>11. InstantsAgree'
  BY <1>2, <1>4, <1>6, <1>10 DEF ConsumablesInv, InstantsAgree
<1>12. EveryGroupHasALatest'
  BY <1>4, <1>6 DEF ConsumablesInv, EveryGroupHasALatest, Earlier
<1>13. OneRegisters'
  BY <1>10 DEF ConsumablesInv, OneRegisters
<1>14. JudgmentsStand'
  BY <1>6, <1>7, <1>10
     DEF ConsumablesInv, JudgmentsStand, ClearOfOthers, Explained, worked_seconds
<1>15. KeptApart'
  BY <1>6, <1>7 DEF ConsumablesInv, KeptApart
<1>16. ShortLivesAreExplained'
  BY <1>6, <1>7 DEF ConsumablesInv, ShortLivesAreExplained, worked_seconds
<1>17. QED
  BY <1>9, <1>11, <1>12, <1>13, <1>14, <1>15, <1>16 DEF ConsumablesInv

\* Every step of the tablets and of the clock keeps the invariant.
LEMMA ConsumablesStep == ConsumablesInv /\ [ConsumablesNext]_consumableVars => ConsumablesInv'
<1> SUFFICES ASSUME ConsumablesInv, [ConsumablesNext]_consumableVars PROVE ConsumablesInv'
  OBVIOUS
<1>1. today \in Nat /\ tablet \in [Tablets -> Taps] /\ change \in Seq(ChangeRows)
  BY DEF ConsumablesInv, RegisterShaped
<1>2. ASSUME NEW p \in Tablets, NEW reason \in BOOLEAN, Tap(p, reason) PROVE ConsumablesInv'
  <2> DEFINE r == [step |-> "lock", now |-> today, at |-> today, past |-> FALSE,
                   reason |-> reason]
  <2>1. /\ r \in Taps /\ r.step = "lock"
        /\ r.at <= r.now /\ r.now <= today /\ (~r.past => r.at = r.now)
    BY <1>1 DEF Taps, Registrations
  <2>2. tablet' = [tablet EXCEPT ![p] = r] /\ UNCHANGED <<change, today>>
    BY <1>2 DEF Tap
  <2> HIDE DEF r
  <2>3. QED
    BY <2>1, <2>2, APlainRequestKeeps
<1>3. ASSUME NEW p \in Tablets, NEW at \in 0..LastInstant, EnterPast(p, at) PROVE ConsumablesInv'
  <2> DEFINE r == [step |-> "lock", now |-> today, at |-> at, past |-> TRUE, reason |-> FALSE]
  <2>1. at \in Nat
    BY ConsumablesAssumption
  <2>2. /\ r \in Taps /\ r.step = "lock"
        /\ r.at <= r.now /\ r.now <= today /\ (~r.past => r.at = r.now)
    BY <1>1, <1>3, <2>1 DEF Taps, Registrations, EnterPast, NotInTheFuture
  <2>3. tablet' = [tablet EXCEPT ![p] = r] /\ UNCHANGED <<change, today>>
    BY <1>3 DEF EnterPast
  <2> HIDE DEF r
  <2>4. QED
    BY <2>2, <2>3, APlainRequestKeeps
<1>4. ASSUME NEW p \in Tablets, LockAndJudge(p) PROVE ConsumablesInv'
  BY <1>4, JudgedKeeps
<1>5. ASSUME NEW p \in Tablets, CommitChange(p) PROVE ConsumablesInv'
  BY <1>5, CommitChangeKeeps
<1>6. ASSUME NEW p \in Tablets, NEW i \in DOMAIN change, LoadVoid(p, i) PROVE ConsumablesInv'
  <2> DEFINE r == [step |-> "void", id |-> i]
  <2>1. r \in Taps /\ r.step = "void" /\ r.id \in DOMAIN change
    BY ChangeIsARow DEF Taps, ConsumablesInv
  <2>2. tablet' = [tablet EXCEPT ![p] = r] /\ UNCHANGED <<change, today>>
    BY <1>6 DEF LoadVoid
  <2> HIDE DEF r
  <2>3. QED
    BY <2>1, <2>2, APlainRequestKeeps
<1>7. ASSUME NEW p \in Tablets, CommitVoid(p) PROVE ConsumablesInv'
  BY <1>7, CommitVoidKeeps
<1>8. ASSUME NEW p \in Tablets, Die(p) PROVE ConsumablesInv'
  <2>1. NoTap \in Taps /\ NoTap.step = "none"
    BY DEF Taps, NoTap
  <2>2. QED
    BY <1>8, <2>1, APlainRequestKeeps DEF Die
<1>9. CASE Tick
  <2>1. today' \in Nat /\ today <= today' /\ UNCHANGED <<change, tablet>>
    BY <1>1, <1>9 DEF Tick
  <2>2. \A i \in DOMAIN change : change[i].created \in Nat
    BY ChangeIsARow DEF ConsumablesInv, ChangeRows
  <2>3. \A p \in Tablets : tablet[p].step \in {"lock", "insert"} => tablet[p].now \in Nat
    BY <1>1 DEF Taps, Registrations
  <2>4. InstantsAgree'
    BY <1>1, <2>1, <2>2, <2>3 DEF ConsumablesInv, InstantsAgree
  <2>5. QED
    BY <2>1, <2>4
       DEF ConsumablesInv, RegisterShaped, EveryGroupHasALatest, Earlier, OneRegisters,
           JudgmentsStand, ClearOfOthers, Explained, KeptApart, ShortLivesAreExplained, InForce,
           worked_seconds
<1>10. CASE UNCHANGED consumableVars
  BY <1>10
     DEF consumableVars, ConsumablesInv, RegisterShaped, InstantsAgree, EveryGroupHasALatest,
         Earlier, OneRegisters, JudgmentsStand, ClearOfOthers, Explained, KeptApart,
         ShortLivesAreExplained, InForce, worked_seconds
<1>11. QED
  BY <1>2, <1>3, <1>4, <1>5, <1>6, <1>7, <1>8, <1>9, <1>10 DEF ConsumablesNext

\* The inductive invariant holds of every run of registrations, corrections and voids.
THEOREM ConsumablesSafe == ConsumablesSpec => []ConsumablesInv
<1>1. ConsumablesInit => ConsumablesInv
  <2> SUFFICES ASSUME ConsumablesInit PROVE ConsumablesInv
    OBVIOUS
  <2>1. change = <<>> /\ today = 0 /\ \A p \in Tablets : tablet[p] = NoTap
    BY DEF ConsumablesInit
  <2>2. DOMAIN change = {} /\ InForce = {} /\ change \in Seq(ChangeRows)
    BY <2>1, EmptySeq DEF InForce
  <2>3. RegisterShaped
    BY <2>1, <2>2 DEF RegisterShaped, Taps, NoTap, ConsumablesInit
  <2>4. \A p \in Tablets : tablet[p].step = "none"
    BY <2>1 DEF NoTap
  <2>5. InstantsAgree /\ EveryGroupHasALatest /\ OneRegisters /\ JudgmentsStand
    BY <2>2, <2>4 DEF InstantsAgree, EveryGroupHasALatest, OneRegisters, JudgmentsStand
  <2>6. KeptApart /\ ShortLivesAreExplained
    BY <2>2 DEF KeptApart, ShortLivesAreExplained
  <2>7. QED
    BY <2>3, <2>5, <2>6 DEF ConsumablesInv
<1>2. QED
  BY <1>1, ConsumablesStep, PTL DEF ConsumablesSpec

\* However long a tablet waits for the branch's lock, and whatever is voided meanwhile,
\* no consumable is changed twice at once and every short life is explained.
THEOREM ConsumablesAccounted == ConsumablesSpec => []ConsumablesRecord
<1>1. ConsumablesInv => ConsumablesRecord
  BY DEF ConsumablesInv, ConsumablesRecord
<1>2. QED
  BY <1>1, ConsumablesSafe, PTL

-----------------------------------------------------------------------------
\* The changes in force not later than one of them.
Upto(i) == {j \in InForce : ~Earlier(i, j)}

\* The changes in force are in a row.
LEMMA ChangesInARow ==
    ASSUME RegisterShaped
    PROVE  /\ IsFiniteSet(InForce) /\ InForce \subseteq DOMAIN change
           /\ \A i \in InForce : change[i].at \in Nat /\ i \in Nat
           /\ \A i \in InForce : ~Earlier(i, i)
           /\ \A i, j \in InForce : i # j => Earlier(i, j) \/ Earlier(j, i)
           /\ \A i, j \in InForce : Earlier(i, j) => ~Earlier(j, i) /\ change[i].at <= change[j].at
           /\ \A i, j, k \in InForce : Earlier(i, j) /\ Earlier(j, k) => Earlier(i, k)
<1>1. /\ DOMAIN change = 1..Len(change) /\ Len(change) \in Nat
      /\ \A i \in 1..Len(change) : change[i] \in ChangeRows
  BY DEF RegisterShaped
<1>2. IsFiniteSet(1..Len(change))
  <2>1. 1 \in Int /\ Len(change) \in Int
    BY <1>1
  <2>2. QED
    BY <2>1, FS_Interval
<1>3. InForce \subseteq DOMAIN change
  BY DEF InForce
<1>4. IsFiniteSet(InForce)
  BY <1>1, <1>2, <1>3, FS_Subset
<1>5. \A i \in InForce : change[i].at \in Nat /\ i \in Nat
  BY <1>1, <1>3 DEF ChangeRows
<1>6. QED
  BY <1>3, <1>4, <1>5 DEF Earlier

\* Every life starts at a change in force, and in their order.
LEMMA LivesInARow ==
    ASSUME RegisterShaped
    PROVE  /\ Cardinality(InForce) \in Nat
           /\ DOMAIN Lives = 1..Cardinality(InForce) /\ Len(Lives) = Cardinality(InForce)
           /\ \A k \in DOMAIN Lives : Lives[k] \in InForce
           /\ \A k, m \in DOMAIN Lives : k < m => Earlier(Lives[k], Lives[m])
           /\ \A k, m \in DOMAIN Lives : k <= m => LifeStart(k) <= LifeStart(m)
           /\ \A k \in DOMAIN Lives : LifeStart(k) \in Nat
<1>1. PICK S, N : S = InForce /\ N = Cardinality(S)
  OBVIOUS
<1>2. /\ IsFiniteSet(S) /\ N \in Nat
      /\ IsFiniteSet(1..N) /\ Cardinality(1..N) = N
  <2>1. IsFiniteSet(S) /\ N \in Nat
    BY <1>1, ChangesInARow, FS_CardinalityType
  <2>2. IsFiniteSet(1..N) /\ Cardinality(1..N) = N
    BY <2>1, FS_Interval
  <2>3. QED
    BY <2>1, <2>2
<1>3. \A i \in S : /\ Upto(i) \in SUBSET S /\ i \in Upto(i) /\ IsFiniteSet(Upto(i))
                   /\ Cardinality(Upto(i)) \in 1..N
  <2> TAKE i \in S
  <2>1. Upto(i) \in SUBSET S /\ i \in Upto(i)
    BY <1>1, ChangesInARow DEF Upto
  <2>2. IsFiniteSet(Upto(i)) /\ Cardinality(Upto(i)) <= N
    BY <1>1, <1>2, <2>1, FS_Subset
  <2>3. Cardinality(Upto(i)) \in Nat /\ Cardinality(Upto(i)) # 0
    BY <2>1, <2>2, FS_CardinalityType, FS_EmptySet
  <2>4. QED
    BY <1>2, <2>1, <2>2, <2>3
<1>4. ASSUME NEW i \in S, NEW j \in S, Earlier(i, j)
      PROVE  Cardinality(Upto(i)) < Cardinality(Upto(j))
  <2>1. Upto(i) \in SUBSET Upto(j) /\ j \in Upto(j) /\ j \notin Upto(i)
    <3>1. ASSUME NEW k \in S, ~Earlier(i, k) PROVE ~Earlier(j, k)
      BY <1>1, <1>4, <3>1, ChangesInARow
    <3>2. QED
      BY <1>1, <1>3, <1>4, <3>1 DEF Upto
  <2>2. /\ Cardinality(Upto(i)) <= Cardinality(Upto(j))
        /\ Cardinality(Upto(i)) # Cardinality(Upto(j))
    BY <1>3, <2>1, FS_Subset
  <2>3. QED
    BY <1>2, <1>3, <2>2
<1>5. PICK rank : rank = [i \in S |-> Cardinality(Upto(i))]
  OBVIOUS
<1>6. \A i, j \in S : rank[i] = rank[j] => i = j
  <2> SUFFICES ASSUME NEW i \in S, NEW j \in S, rank[i] = rank[j], i # j PROVE FALSE
    OBVIOUS
  <2>1. Earlier(i, j) \/ Earlier(j, i)
    BY <1>1, ChangesInARow
  <2>2. rank[i] < rank[j] \/ rank[j] < rank[i]
    BY <1>4, <1>5, <2>1
  <2>3. rank[i] \in Nat /\ rank[j] \in Nat
    BY <1>2, <1>3, <1>5
  <2>4. QED
    BY <2>2, <2>3
<1>7. rank \in Injection(S, 1..N)
  BY <1>3, <1>5, <1>6 DEF Injection, IsInjective
<1>8. rank \in Surjection(S, 1..N)
  BY <1>1, <1>2, <1>7, FS_Injection
<1>9. \A n \in 1..N : \E i \in S : Cardinality(Upto(i)) = n
  BY <1>5, <1>8 DEF Surjection
<1>10. DOMAIN Lives = 1..N /\ Len(Lives) = N
  <2>1. DOMAIN Lives = 1..N
    BY <1>1 DEF Lives
  <2>2. Lives = [k \in 1..N |-> Lives[k]]
    BY <1>1 DEF Lives
  <2>3. PICK f : f = Lives
    OBVIOUS
  <2>4. Len(f) = N
    BY <1>2, <2>1, <2>2, <2>3
  <2>5. QED
    BY <2>1, <2>3, <2>4
<1>11. \A k \in 1..N : Lives[k] \in S /\ Cardinality(Upto(Lives[k])) = k
  <2> TAKE k \in 1..N
  <2>1. Lives[k] = CHOOSE i \in S : Cardinality(Upto(i)) = k
    BY <1>1 DEF Lives, Upto
  <2>2. QED
    BY <2>1, <1>9
<1>12. ASSUME NEW k \in 1..N, NEW m \in 1..N, k < m PROVE Earlier(Lives[k], Lives[m])
  <2>1. Lives[k] \in S /\ Lives[m] \in S /\ Lives[k] # Lives[m]
    BY <1>2, <1>11, <1>12
  <2>2. ~Earlier(Lives[m], Lives[k])
    <3>1. SUFFICES ASSUME Earlier(Lives[m], Lives[k]) PROVE FALSE
      OBVIOUS
    <3>2. Cardinality(Upto(Lives[m])) < Cardinality(Upto(Lives[k]))
      BY <1>4, <2>1, <3>1
    <3>3. m < k
      BY <1>11, <3>2
    <3>4. QED
      BY <1>2, <1>12, <3>3
  <2>3. QED
    BY <1>1, <2>1, <2>2, ChangesInARow
<1>13. \A k \in 1..N : LifeStart(k) \in Nat
  BY <1>1, <1>11, ChangesInARow DEF LifeStart
<1>14. ASSUME NEW k \in 1..N, NEW m \in 1..N, k <= m PROVE LifeStart(k) <= LifeStart(m)
  <2>1. CASE k = m
    BY <1>13, <2>1
  <2>2. CASE k # m
    <3>1. k < m
      BY <1>2, <1>14, <2>2
    <3>2. QED
      BY <1>1, <1>11, <1>12, <3>1, ChangesInARow DEF LifeStart
  <2>3. QED
    BY <2>1, <2>2
<1>15. QED
  BY <1>1, <1>2, <1>10, <1>11, <1>12, <1>13, <1>14

\* The lives are as many as have started just when the last of those has and the next
\* has not.
LEMMA StartedFact ==
    ASSUME NEW N \in Nat, NEW D \in SUBSET (1..N), NEW k \in 1..N,
           \A m \in D : \A j \in 1..N : j <= m => j \in D
    PROVE  Cardinality(D) = k <=> k \in D /\ (k < N => k + 1 \notin D)
<1>1. ASSUME NEW n \in Nat PROVE IsFiniteSet(1..n) /\ Cardinality(1..n) = n
  BY FS_Interval
<1>2. IsFiniteSet(D)
  BY <1>1, FS_Subset
<1>3. ASSUME k \in D, k < N => k + 1 \notin D PROVE Cardinality(D) = k
  <2>1. \A m \in D : m <= k
    <3> SUFFICES ASSUME NEW m \in D, ~(m <= k) PROVE FALSE
      OBVIOUS
    <3>1. m \in Nat /\ m <= N /\ k + 1 <= m /\ k + 1 \in 1..N /\ k < N
      OBVIOUS
    <3>2. QED
      BY <1>3, <3>1
  <2>2. D = 1..k
    <3>1. \A m \in D : m \in 1..k
      BY <2>1
    <3>2. \A m \in 1..k : m \in 1..N /\ m <= k
      OBVIOUS
    <3>3. \A m \in 1..k : m \in D
      BY <1>3, <3>2
    <3>4. QED
      BY <3>1, <3>3
  <2>3. QED
    BY <1>1, <2>2
<1>4. ASSUME k \notin D PROVE Cardinality(D) # k
  <2>1. \A m \in D : m < k
    BY <1>4
  <2>2. PICK n \in Nat : n + 1 = k
    <3>1. k - 1 \in Nat /\ (k - 1) + 1 = k
      OBVIOUS
    <3>2. QED
      BY <3>1
  <2>3. D \in SUBSET (1..n)
    <3>1. ASSUME NEW m \in D PROVE m \in 1..n
      <4>1. m \in Nat /\ 1 <= m /\ m < k
        BY <2>1
      <4>2. QED
        BY <2>2, <4>1
    <3>2. QED
      BY <3>1
  <2>4. Cardinality(D) <= n
    <3>1. IsFiniteSet(1..n) /\ Cardinality(1..n) = n
      BY <1>1
    <3>2. Cardinality(D) <= Cardinality(1..n)
      BY <2>3, <3>1, FS_Subset
    <3>3. QED
      BY <3>1, <3>2
  <2>5. Cardinality(D) \in Nat
    BY <1>2, FS_CardinalityType
  <2>6. QED
    BY <2>2, <2>4, <2>5
<1>5. ASSUME k + 1 \in D PROVE Cardinality(D) # k
  <2>1. 1..(k + 1) \in SUBSET D /\ k + 1 \in Nat
    BY <1>5
  <2>2. k + 1 <= Cardinality(D)
    BY <1>1, <1>2, <2>1, FS_Subset
  <2>3. Cardinality(D) \in Nat
    BY <1>2, FS_CardinalityType
  <2>4. QED
    BY <2>2, <2>3
<1>6. QED
  BY <1>3, <1>4, <1>5

\* The lives share out the work, whatever was registered, entered late and voided.
LEMMA LivesFact == RegisterShaped => LivesShareTheWork
<1> SUFFICES ASSUME RegisterShaped, NEW k \in DOMAIN Lives, NEW at \in Working
    PROVE  LifeOf(at) = k <=> /\ LifeStart(k) <= at
                              /\ k < Len(Lives) => at < LifeStart(k + 1)
  BY DEF LivesShareTheWork, Usage
<1>1. PICK N, D : N = Cardinality(InForce) /\ D = {m \in DOMAIN Lives : LifeStart(m) <= at}
  OBVIOUS
<1>2. /\ N \in Nat /\ D \in SUBSET (1..N) /\ k \in 1..N /\ Len(Lives) = N
      /\ \A m \in 1..N : m \in D <=> LifeStart(m) <= at
  BY <1>1, LivesInARow
<1>3. at \in Nat /\ \A m \in 1..N : LifeStart(m) \in Nat
  BY <1>1, LivesInARow, ConsumablesAssumption
<1>4. \A m \in D : \A j \in 1..N : j <= m => j \in D
  BY <1>1, <1>2, <1>3, LivesInARow
<1>5. LifeOf(at) = Cardinality(D)
  BY <1>1 DEF LifeOf
<1>6. Cardinality(D) = k <=> k \in D /\ (k < N => k + 1 \notin D)
  BY <1>2, <1>4, StartedFact
<1>7. k < N => k + 1 \in 1..N
  BY <1>2
<1>8. k < N => (k + 1 \notin D <=> at < LifeStart(k + 1))
  BY <1>2, <1>3, <1>7
<1>9. QED
  BY <1>2, <1>5, <1>6, <1>8

-----------------------------------------------------------------------------
\* The changes registered and under way are no more than there is room for.
RoomKept == Len(change) + Cardinality(Registering) <= MaxChanges
InTime == today \in 0..LastInstant

\* Tablets at the desk are so many, and one more or less counts as one.
LEMMA RegisteringFact ==
    ASSUME RegisterShaped, RegisterShaped', RoomKept
    PROVE  /\ IsFiniteSet(Registering) /\ Cardinality(Registering) \in Nat
           /\ Registering' \subseteq Registering /\ Len(change') = Len(change) => RoomKept'
           /\ \A p \in Registering :
                 Registering' = Registering \ {p} /\ Len(change') = Len(change) + 1 => RoomKept'
           /\ \A p : ChangeRoom /\ p \notin Registering /\ Registering' = Registering \union {p}
                       /\ Len(change') = Len(change) => RoomKept'
<1>1. Registering \subseteq Tablets /\ Registering' \subseteq Tablets
  BY DEF Registering
<1>2. IsFiniteSet(Registering) /\ IsFiniteSet(Registering')
  BY <1>1, ConsumablesAssumption, FS_Subset
<1>3. Cardinality(Registering) \in Nat /\ Cardinality(Registering') \in Nat
  BY <1>2, FS_CardinalityType
<1>4. Len(change) \in Nat /\ MaxChanges \in Nat
  BY ConsumablesAssumption DEF RegisterShaped
<1>5. ASSUME Registering' \subseteq Registering, Len(change') = Len(change) PROVE RoomKept'
  <2>1. Cardinality(Registering') <= Cardinality(Registering)
    BY <1>2, <1>5, FS_Subset
  <2>2. QED
    BY <1>3, <1>4, <1>5, <2>1 DEF RoomKept
<1>6. ASSUME NEW p \in Registering, Registering' = Registering \ {p}, Len(change') = Len(change) + 1
      PROVE  RoomKept'
  <2>1. Cardinality(Registering') = Cardinality(Registering) - 1
    BY <1>2, <1>6, FS_RemoveElement
  <2>2. QED
    BY <1>3, <1>4, <1>6, <2>1 DEF RoomKept
<1>7. ASSUME NEW p, ChangeRoom, p \notin Registering, Registering' = Registering \union {p},
             Len(change') = Len(change)
      PROVE  RoomKept'
  <2>1. Cardinality(Registering') = Cardinality(Registering) + 1
    BY <1>2, <1>7, FS_AddElement
  <2>2. QED
    BY <1>3, <1>4, <1>7, <2>1 DEF RoomKept, ChangeRoom
<1>8. QED
  BY <1>2, <1>3, <1>5, <1>6, <1>7

\* No step leaves the bounds of the rows.
LEMMA RoomStep ==
    ASSUME RegisterShaped, RegisterShaped', RoomKept, [ConsumablesNext]_consumableVars
    PROVE  RoomKept'
<1>1. \A p \in Tablets : p \in Registering <=> tablet[p].step \in {"lock", "insert"}
  BY DEF Registering
<1>2. \A p \in Tablets : p \in Registering' <=> tablet'[p].step \in {"lock", "insert"}
  BY DEF Registering
<1>3. \A p : (p \in Registering => p \in Tablets) /\ (p \in Registering' => p \in Tablets)
  BY DEF Registering
<1>4. NoTap.step = "none" /\ DOMAIN tablet = Tablets
  BY DEF NoTap, RegisterShaped
<1>5. ASSUME NEW p \in Tablets, NEW reason \in BOOLEAN, Tap(p, reason) PROVE RoomKept'
  <2>1. p \notin Registering /\ tablet'[p].step = "lock" /\ change' = change /\ ChangeRoom
        /\ \A q \in Tablets \ {p} : tablet'[q] = tablet[q]
    BY <1>1, <1>4, <1>5 DEF Tap
  <2>2. Registering' = Registering \union {p}
    BY <1>1, <1>2, <1>3, <2>1
  <2>3. QED
    BY <2>1, <2>2, RegisteringFact
<1>6. ASSUME NEW p \in Tablets, NEW at \in 0..LastInstant, EnterPast(p, at) PROVE RoomKept'
  <2>1. p \notin Registering /\ tablet'[p].step = "lock" /\ change' = change /\ ChangeRoom
        /\ \A q \in Tablets \ {p} : tablet'[q] = tablet[q]
    BY <1>1, <1>4, <1>6 DEF EnterPast
  <2>2. Registering' = Registering \union {p}
    BY <1>1, <1>2, <1>3, <2>1
  <2>3. QED
    BY <2>1, <2>2, RegisteringFact
<1>7. ASSUME NEW p \in Tablets, CommitChange(p) PROVE RoomKept'
  <2>1. p \in Registering /\ tablet'[p] = NoTap /\ Len(change') = Len(change) + 1
        /\ \A q \in Tablets \ {p} : tablet'[q] = tablet[q]
    BY <1>1, <1>4, <1>7 DEF CommitChange, RegisterShaped
  <2>2. Registering' = Registering \ {p}
    BY <1>1, <1>2, <1>3, <1>4, <2>1
  <2>3. QED
    BY <2>1, <2>2, RegisteringFact
<1>8. ASSUME Len(change') = Len(change), NEW p \in Tablets,
             p \in Registering \/ tablet'[p].step \notin {"lock", "insert"},
             \A q \in Tablets \ {p} : tablet'[q] = tablet[q]
      PROVE  RoomKept'
  <2>1. Registering' \subseteq Registering
    BY <1>1, <1>2, <1>3, <1>8
  <2>2. QED
    BY <1>8, <2>1, RegisteringFact
<1>9. ASSUME NEW p \in Tablets,
             LockAndJudge(p) \/ CommitVoid(p) \/ Die(p) \/ \E i \in DOMAIN change : LoadVoid(p, i)
      PROVE  RoomKept'
  <2>1. CASE LockAndJudge(p)
    BY <1>1, <1>8, <2>1 DEF LockAndJudge, RegisterShaped
  <2>2. CASE CommitVoid(p)
    <3>1. change' = [change EXCEPT ![tablet[p].id].voided = TRUE]
      BY <2>2 DEF CommitVoid
    <3>2. DOMAIN change' = DOMAIN change
      BY <3>1
    <3>3. Len(change') = Len(change)
      BY <3>2 DEF RegisterShaped
    <3>4. tablet'[p] = NoTap /\ \A q \in Tablets \ {p} : tablet'[q] = tablet[q]
      BY <1>4, <2>2 DEF CommitVoid
    <3>5. QED
      BY <1>4, <1>8, <3>3, <3>4
  <2>3. CASE Die(p)
    BY <1>4, <1>8, <2>3 DEF Die
  <2>4. CASE \E i \in DOMAIN change : LoadVoid(p, i)
    BY <1>4, <1>8, <2>4 DEF LoadVoid
  <2>5. QED
    BY <1>9, <2>1, <2>2, <2>3, <2>4
<1>10. CASE Tick \/ UNCHANGED consumableVars
  <2>1. change' = change /\ tablet' = tablet
    BY <1>10 DEF Tick, consumableVars
  <2>2. Registering' = Registering
    BY <2>1 DEF Registering
  <2>3. QED
    BY <2>1, <2>2, RegisteringFact
<1>11. QED
  BY <1>5, <1>6, <1>7, <1>9, <1>10 DEF ConsumablesNext

\* The columns of the changes keep their domains, and there is room for those under way.
THEOREM ConsumablesTypeCorrect == ConsumablesSpec => []ConsumablesTyped
<1>1. ConsumablesInit => RoomKept /\ InTime
  <2> SUFFICES ASSUME ConsumablesInit PROVE RoomKept /\ InTime
    OBVIOUS
  <2>1. Registering = {} /\ Len(change) = 0 /\ today = 0
    BY DEF ConsumablesInit, Registering, NoTap
  <2>2. QED
    BY <2>1, ConsumablesAssumption, FS_EmptySet DEF RoomKept, InTime
<1>2. /\ ConsumablesInv /\ ConsumablesInv'
      /\ RoomKept /\ InTime /\ [ConsumablesNext]_consumableVars
      => RoomKept' /\ InTime'
  <2> SUFFICES ASSUME ConsumablesInv, ConsumablesInv', RoomKept, InTime,
                      [ConsumablesNext]_consumableVars
               PROVE  RoomKept' /\ InTime'
    OBVIOUS
  <2>1. RoomKept'
    BY RoomStep DEF ConsumablesInv
  <2>2. today' = today \/ (today < LastInstant /\ today' = today + 1)
    <3>1. ASSUME NEW p, \/ \E reason : Tap(p, reason)
                        \/ \E at : EnterPast(p, at)
                        \/ LockAndJudge(p) \/ CommitChange(p) \/ CommitVoid(p) \/ Die(p)
                        \/ \E i : LoadVoid(p, i)
          PROVE  today' = today
      BY <3>1 DEF Tap, EnterPast, LockAndJudge, CommitChange, LoadVoid, CommitVoid, Die
    <3>2. CASE Tick
      BY <3>2 DEF Tick
    <3>3. CASE UNCHANGED consumableVars
      BY <3>3 DEF consumableVars
    <3>4. QED
      BY <3>1, <3>2, <3>3 DEF ConsumablesNext
  <2>3. QED
    BY <2>1, <2>2, ConsumablesAssumption DEF InTime
<1>3. ConsumablesInv /\ RoomKept /\ InTime => ConsumablesTyped
  <2> SUFFICES ASSUME ConsumablesInv, RoomKept, InTime PROVE ConsumablesTyped
    OBVIOUS
  <2>1. /\ DOMAIN change = 1..Len(change) /\ Len(change) \in Nat
        /\ \A i \in DOMAIN change : change[i] \in ChangeRows
    BY DEF ConsumablesInv, RegisterShaped
  <2>2. \A i \in DOMAIN change : change[i].at <= change[i].created /\ change[i].created <= today
    BY DEF ConsumablesInv, InstantsAgree
  <2>3. Len(change) <= MaxChanges
    <3>1. IsFiniteSet(Registering)
      <4>1. Registering \subseteq Tablets
        BY DEF Registering
      <4>2. QED
        BY <4>1, ConsumablesAssumption, FS_Subset
    <3>2. Cardinality(Registering) \in Nat
      BY <3>1, FS_CardinalityType
    <3>3. QED
      BY <2>1, <3>2, ConsumablesAssumption DEF RoomKept
  <2>4. DOMAIN tablet = Tablets /\ today \in Nat
    BY DEF ConsumablesInv, RegisterShaped
  <2>5. QED
    BY <2>1, <2>2, <2>3, <2>4 DEF ConsumablesTyped, ChangeRows, InTime
<1>4. QED
  BY <1>1, <1>2, <1>3, ConsumablesSafe, PTL DEF ConsumablesSpec

-----------------------------------------------------------------------------
Keyed == {External(r) : r \in Articles} \union Handmade

ProductRows == [name : Names, code : {Codigo[r] : r \in Articles}, active : BOOLEAN,
                family : Designs \union {NoDesign}, used : BOOLEAN]

Tables == UNION {[keys -> ProductRows] : keys \in SUBSET Keyed}

Inventories == [Articles -> Readings]

Syncs == [read : Inventories, loaded : Tables, known : SUBSET Designs, touched : SUBSET Keyed]

CatalogShaped ==
    /\ vendor \in Inventories
    /\ product \in Tables
    /\ families \subseteq Designs
    /\ sync \in [Syncers -> Syncs \union {NotSyncing}]
    /\ Syncing # {} => Articles # {}

SameProduct(p, q, k) == (k \in DOMAIN p <=> k \in DOMAIN q) /\ (k \in DOMAIN p => p[k] = q[k])

\* What nobody wrote since a sync read the catalog is what it read.
ReadingsStand ==
    \A s \in Syncing : \A k : k \notin sync[s].touched => SameProduct(product, sync[s].loaded, k)

\* The inductive invariant of the catalog.
CatalogInv == CatalogShaped /\ ReadingsStand

-----------------------------------------------------------------------------
\* A table is a function from its keys to rows.
LEMMA TablesFact ==
    ASSUME NEW p \in Tables
    PROVE  p \in [DOMAIN p -> ProductRows] /\ DOMAIN p \subseteq Keyed
  BY DEF Tables

\* And the other way about.
LEMMA TablesIntro ==
    ASSUME NEW keys \in SUBSET Keyed, NEW p \in [keys -> ProductRows]
    PROVE  p \in Tables
  BY DEF Tables

\* A sync under way read a vendor with articles, and is not idle.
LEMMA SyncingFact ==
    ASSUME CatalogShaped, NEW s \in Syncing
    PROVE  s \in Syncers /\ sync[s] \in Syncs /\ Articles # {}
  BY DEF CatalogShaped, Syncing

\* A record of a sync is not the idle one.
LEMMA BusyFact ==
    ASSUME NEW q \in Syncs, Articles # {} PROVE q # NotSyncing
<1> SUFFICES ASSUME q = NotSyncing PROVE FALSE
  OBVIOUS
<1>1. q.read \in [Articles -> Readings] /\ q.read = <<>>
  BY DEF Syncs, Inventories, NotSyncing
<1>2. DOMAIN q.read = Articles
  BY <1>1
<1>3. DOMAIN <<>> = {}
  OBVIOUS
<1>4. QED
  BY <1>1, <1>2, <1>3

\* The rest of what a sync read stands while somebody else writes.
LEMMA WitnessedFact ==
    ASSUME CatalogShaped, product' \in Tables, NEW s \in Syncing
    PROVE  /\ Witnessed(s) \in Syncs
           /\ Witnessed(s).read = sync[s].read /\ Witnessed(s).loaded = sync[s].loaded
           /\ Witnessed(s).touched = sync[s].touched \union Changed
           /\ Witnessed(s) # NotSyncing
<1>1. sync[s] \in Syncs
  BY SyncingFact
<1>2. product \in Tables /\ product' \in Tables
  BY DEF CatalogShaped
<1>3. Changed \subseteq Keyed
  BY <1>2, TablesFact DEF Changed
<1>4. Witnessed(s) = [read |-> sync[s].read, loaded |-> sync[s].loaded, known |-> sync[s].known,
                      touched |-> sync[s].touched \union Changed]
  BY <1>1 DEF Witnessed, Syncs
<1>5. Witnessed(s) \in Syncs
  BY <1>1, <1>3, <1>4 DEF Syncs
<1>6. Witnessed(s) # NotSyncing
  BY <1>5, SyncingFact, BusyFact
<1>7. /\ Witnessed(s).read = sync[s].read /\ Witnessed(s).loaded = sync[s].loaded
      /\ Witnessed(s).touched = sync[s].touched \union Changed
  BY <1>4
<1>8. QED
  BY <1>5, <1>6, <1>7

\* Whoever writes the catalog is noticed by every sync under way.
LEMMA WritersAreNoticed ==
    ASSUME CatalogInv, product' \in Tables, vendor' \in Inventories, families' \subseteq Designs,
           NEW mine \in SUBSET Syncers,
           sync' = [z \in Syncers |-> IF z \in mine THEN NotSyncing
                                      ELSE IF z \in Syncing THEN Witnessed(z) ELSE sync[z]]
    PROVE  CatalogInv'
<1>0. CatalogShaped
  BY DEF CatalogInv
<1>1. \A z \in Syncers : sync'[z] \in Syncs \union {NotSyncing}
  BY <1>0, WitnessedFact DEF CatalogShaped
<1>2. Syncing' = Syncing \ mine
  BY <1>0, WitnessedFact DEF Syncing
<1>3. CatalogShaped'
  <2>1. sync' \in [Syncers -> Syncs \union {NotSyncing}]
    BY <1>1
  <2>2. Syncing' # {} => Articles # {}
    BY <1>0, <1>2 DEF CatalogShaped
  <2>3. QED
    BY <2>1, <2>2 DEF CatalogShaped
<1>4. ReadingsStand'
  <2> SUFFICES ASSUME NEW s \in Syncing', NEW k, k \notin sync'[s].touched
               PROVE  SameProduct(product', sync'[s].loaded, k)
    BY DEF ReadingsStand, SameProduct
  <2>1. s \in Syncing /\ sync'[s] = Witnessed(s)
    BY <1>2 DEF Syncing
  <2>2. k \notin sync[s].touched /\ k \notin Changed /\ sync'[s].loaded = sync[s].loaded
    BY <1>0, <2>1, WitnessedFact
  <2>3. SameProduct(product', product, k)
    BY <2>2 DEF Changed, SameProduct
  <2>4. SameProduct(product, sync[s].loaded, k)
    BY <2>1, <2>2 DEF CatalogInv, ReadingsStand
  <2>5. QED
    BY <2>2, <2>3, <2>4 DEF SameProduct
<1>5. QED
  BY <1>3, <1>4 DEF CatalogInv

\* One valid row to a code.
LEMMA OneRowACode ==
    ASSUME NEW read, NEW r \in ValidRows(read)
    PROVE  /\ r \in Articles /\ r \in Recognized(read)
           /\ \A t \in ValidRows(read) : External(t) = External(r) => t = r
           /\ (CHOOSE t \in ValidRows(read) : External(t) = External(r)) = r
<1>1. ASSUME NEW t \in ValidRows(read), External(t) = External(r) PROVE t = r
  <2>1. t \in Recognized(read) /\ r \in Recognized(read) /\ Codigo[t] = Codigo[r]
    BY <1>1 DEF ValidRows, External
  <2>2. t \in Nat /\ r \in Nat
    BY <2>1, CatalogAssumption DEF Recognized
  <2>3. ~(t < r) /\ ~(r < t)
    BY <2>1 DEF ValidRows, RepeatsCode
  <2>4. QED
    BY <2>2, <2>3
<1>2. QED
  BY <1>1 DEF ValidRows, Recognized

-----------------------------------------------------------------------------
\* A row one of whose columns somebody rewrites is still a row.
LEMMA RowsFact ==
    ASSUME NEW row \in ProductRows
    PROVE  /\ \A name \in Names : [row EXCEPT !.name = name] \in ProductRows
           /\ \A shown \in BOOLEAN : [row EXCEPT !.active = shown] \in ProductRows
           /\ \A d \in Designs \union {NoDesign} : [row EXCEPT !.family = d] \in ProductRows
           /\ [row EXCEPT !.used = TRUE] \in ProductRows
  BY DEF ProductRows

\* Rewriting one product leaves a table.
LEMMA OneProductFact ==
    ASSUME CatalogShaped, NEW k \in Catalogued, NEW row \in ProductRows
    PROVE  [product EXCEPT ![k] = row] \in Tables
<1>1. product \in [Catalogued -> ProductRows] /\ Catalogued \in SUBSET Keyed
  BY TablesFact DEF CatalogShaped, Catalogued
<1>2. [product EXCEPT ![k] = row] \in [Catalogued -> ProductRows]
  BY <1>1
<1>3. QED
  BY <1>1, <1>2, TablesIntro

\* A write of the staff or of the shop keeps the invariant.
LEMMA RewritesKeeps ==
    ASSUME CatalogInv, NEW p \in Tables, Rewrites(p), vendor' = vendor, families' \subseteq Designs
    PROVE  CatalogInv'
<1>1. /\ product' = p
      /\ sync' = [z \in Syncers |-> IF z \in {} THEN NotSyncing
                                    ELSE IF z \in Syncing THEN Witnessed(z) ELSE sync[z]]
  BY DEF Rewrites
<1>2. vendor' \in Inventories /\ {} \in SUBSET Syncers
  BY DEF CatalogInv, CatalogShaped
<1>3. QED
  BY <1>1, <1>2, WritersAreNoticed

\* What a sync would write: its rows, each a row of the catalog.
LEMMA UpsertedFact ==
    ASSUME CatalogShaped, NEW q \in Syncs, Accepted(q)
    PROVE  /\ Upserted(q) \in [Catalogued \union SyncedCodes(q.read) -> ProductRows]
           /\ Catalogued \union SyncedCodes(q.read) \subseteq Keyed
           /\ \A r \in ValidRows(q.read) :
                 /\ External(r) \in SyncedCodes(q.read)
                 /\ External(r) \in DOMAIN q.loaded =>
                       /\ External(r) \in Catalogued
                       /\ Upserted(q)[External(r)] =
                             [product[External(r)] EXCEPT
                                 !.name = IF q.read[r].name # q.loaded[External(r)].name
                                          THEN q.read[r].name ELSE @,
                                 !.active = IF q.loaded[External(r)].active THEN @ ELSE TRUE]
                 /\ External(r) \notin DOMAIN q.loaded =>
                       /\ External(r) \notin Catalogued
                       /\ Upserted(q)[External(r)] =
                             [name |-> q.read[r].name, code |-> Codigo[r], active |-> TRUE,
                              family |-> q.read[r].obs, used |-> FALSE]
           /\ \A k \in Catalogued \ SyncedCodes(q.read) : Upserted(q)[k] = product[k]
<1>1. product \in [Catalogued -> ProductRows] /\ Catalogued \subseteq Keyed
  BY TablesFact DEF CatalogShaped, Catalogued
<1>2. SyncedCodes(q.read) \subseteq Keyed
  BY OneRowACode DEF SyncedCodes, Keyed
<1>3. ASSUME NEW r \in ValidRows(q.read)
      PROVE  /\ External(r) \in SyncedCodes(q.read)
             /\ External(r) \in DOMAIN q.loaded =>
                   /\ External(r) \in Catalogued
                   /\ Upserted(q)[External(r)] =
                         [product[External(r)] EXCEPT
                             !.name = IF q.read[r].name # q.loaded[External(r)].name
                                      THEN q.read[r].name ELSE @,
                             !.active = IF q.loaded[External(r)].active THEN @ ELSE TRUE]
             /\ External(r) \notin DOMAIN q.loaded =>
                   /\ External(r) \notin Catalogued
                   /\ Upserted(q)[External(r)] =
                         [name |-> q.read[r].name, code |-> Codigo[r], active |-> TRUE,
                          family |-> q.read[r].obs, used |-> FALSE]
  <2>1. External(r) \in SyncedCodes(q.read)
    BY DEF SyncedCodes
  <2>2. RowOf(q.read, External(r)) = r
    BY OneRowACode DEF RowOf
  <2>3. External(r) \in DOMAIN q.loaded => External(r) \in Catalogued
    BY <2>1 DEF Accepted
  <2>4. External(r) \notin DOMAIN q.loaded => External(r) \notin Catalogued
    BY <2>1 DEF Accepted
  <2>5. External(r) \in DOMAIN q.loaded => Upserted(q)[External(r)] = Updated(q, External(r))
    BY <2>1 DEF Upserted
  <2>6. External(r) \notin DOMAIN q.loaded => Upserted(q)[External(r)] = Created(q, External(r))
    BY <2>1 DEF Upserted
  <2>7. QED
    BY <2>1, <2>2, <2>3, <2>4, <2>5, <2>6 DEF Updated, Created
<1>4. ASSUME NEW k \in Catalogued \ SyncedCodes(q.read) PROVE Upserted(q)[k] = product[k]
  BY DEF Upserted
<1>5. ASSUME NEW r \in ValidRows(q.read) PROVE Upserted(q)[External(r)] \in ProductRows
  <2>1. q.read[r] \in Readings /\ r \in Articles
    BY OneRowACode DEF Syncs, Inventories
  <2>2. q.read[r].name \in Names /\ q.read[r].obs \in Designs \union {NoDesign}
    BY <2>1 DEF Readings
  <2>3. CASE External(r) \in DOMAIN q.loaded
    <3> DEFINE row == product[External(r)]
    <3>1. row \in ProductRows
      BY <1>1, <1>3, <2>3
    <3>2. row.name \in Names /\ row.active \in BOOLEAN
      BY <3>1 DEF ProductRows
    <3> DEFINE n == IF q.read[r].name # q.loaded[External(r)].name THEN q.read[r].name ELSE row.name
               a == IF q.loaded[External(r)].active THEN row.active ELSE TRUE
    <3> HIDE DEF row
    <3>3. n \in Names
      BY <2>2, <3>2
    <3>4. a \in BOOLEAN
      BY <3>2
    <3>5. Upserted(q)[External(r)] = [row EXCEPT !.name = n, !.active = a]
      BY <1>3, <2>3 DEF row
    <3> HIDE DEF n, a
    <3>6. [row EXCEPT !.name = n, !.active = a] \in ProductRows
      BY <3>1, <3>3, <3>4 DEF ProductRows
    <3>7. QED
      BY <3>5, <3>6
  <2>4. CASE External(r) \notin DOMAIN q.loaded
    <3>1. Upserted(q)[External(r)] = [name |-> q.read[r].name, code |-> Codigo[r], active |-> TRUE,
                                      family |-> q.read[r].obs, used |-> FALSE]
      BY <1>3, <2>4
    <3>2. Codigo[r] \in {Codigo[t] : t \in Articles}
      BY <2>1
    <3>3. QED
      BY <2>2, <3>1, <3>2 DEF ProductRows
  <2>5. QED
    BY <2>3, <2>4
<1>6. \A k \in Catalogued \union SyncedCodes(q.read) : Upserted(q)[k] \in ProductRows
  <2>1. ASSUME NEW k \in SyncedCodes(q.read) PROVE Upserted(q)[k] \in ProductRows
    BY <1>5 DEF SyncedCodes
  <2>2. QED
    BY <1>1, <1>4, <2>1
<1>7. Upserted(q) = [k \in Catalogued \union SyncedCodes(q.read) |-> Upserted(q)[k]]
  BY DEF Upserted
<1>8. Upserted(q) \in [Catalogued \union SyncedCodes(q.read) -> ProductRows]
  BY <1>6, <1>7
<1>9. QED
  BY <1>1, <1>2, <1>3, <1>4, <1>8

\* What it leaves is a table, too.
LEMMA ReconciledFact ==
    ASSUME CatalogShaped, NEW q \in Syncs, Accepted(q)
    PROVE  Reconciled(q) \in Tables
<1> DEFINE keys == DOMAIN Upserted(q) \ Deleted(q)
<1>1. /\ product \in [Catalogued -> ProductRows]
      /\ Upserted(q) \in [Catalogued \union SyncedCodes(q.read) -> ProductRows]
      /\ Catalogued \union SyncedCodes(q.read) \subseteq Keyed
  BY UpsertedFact, TablesFact DEF CatalogShaped, Catalogued
<1>2. keys \in SUBSET Keyed /\ keys \subseteq DOMAIN Upserted(q)
  BY <1>1
<1>3. ASSUME NEW k \in keys
      PROVE  (IF k \in Stale(q) THEN Retired(q, k) ELSE Upserted(q)[k]) \in ProductRows
  <2>1. CASE k \in Stale(q)
    <3>1. product[k] \in ProductRows
      BY <1>1, <2>1 DEF Stale
    <3>2. [product[k] EXCEPT !.active = FALSE] \in ProductRows
      BY <3>1, RowsFact
    <3>3. QED
      BY <2>1, <3>1, <3>2 DEF Retired
  <2>2. CASE k \notin Stale(q)
    BY <1>1, <1>2, <2>2
  <2>3. QED
    BY <2>1, <2>2
<1>4. Reconciled(q) = [k \in keys |-> IF k \in Stale(q) THEN Retired(q, k) ELSE Upserted(q)[k]]
  BY DEF Reconciled
<1> HIDE DEF keys
<1>5. Reconciled(q) \in [keys -> ProductRows]
  BY <1>3, <1>4
<1>6. QED
  BY <1>2, <1>5, TablesIntro

\* The families a sync names are designs.
LEMMA NamedFamiliesFact ==
    ASSUME NEW q \in Syncs PROVE NamedFamilies(q) \subseteq Designs
<1>1. ASSUME NEW k \in SyncedCodes(q.read)
      PROVE  q.read[RowOf(q.read, k)].obs \in Designs \union {NoDesign}
  <2>1. PICK r \in ValidRows(q.read) : k = External(r)
    BY DEF SyncedCodes
  <2>2. RowOf(q.read, k) = r /\ r \in Articles
    BY <2>1, OneRowACode DEF RowOf
  <2>3. QED
    BY <2>2 DEF Syncs, Inventories, Readings
<1>2. QED
  BY <1>1 DEF NamedFamilies

\* Every step of the vendor, the staff, the shop and the syncs keeps the invariant.
LEMMA CatalogStep == CatalogInv /\ [CatalogNext]_catalogVars => CatalogInv'
<1> SUFFICES ASSUME CatalogInv, [CatalogNext]_catalogVars PROVE CatalogInv'
  OBVIOUS
<1>1. CatalogShaped /\ ReadingsStand
  BY DEF CatalogInv
<1>2. /\ vendor \in Inventories /\ product \in Tables /\ families \subseteq Designs
      /\ product \in [Catalogued -> ProductRows] /\ Catalogued \subseteq Keyed
      /\ sync \in [Syncers -> Syncs \union {NotSyncing}]
  BY <1>1, TablesFact DEF CatalogShaped, Catalogued
<1>3. ASSUME NEW s \in Syncers, BeginSync(s) PROVE CatalogInv'
  <2> DEFINE q == [read |-> vendor, loaded |-> product, known |-> families, touched |-> {}]
  <2>1. q \in Syncs /\ q.loaded = product
    BY <1>2 DEF Syncs
  <2>2. /\ sync' = [sync EXCEPT ![s] = q] /\ Articles # {}
        /\ UNCHANGED <<vendor, product, families>>
    BY <1>3 DEF BeginSync
  <2> HIDE DEF q
  <2>3. sync'[s] = q /\ \A z \in Syncers \ {s} : sync'[z] = sync[z]
    BY <1>2, <2>2
  <2>4. CatalogShaped'
    BY <1>2, <2>1, <2>2 DEF CatalogShaped, Syncing
  <2>5. ReadingsStand'
    <3> SUFFICES ASSUME NEW z \in Syncing', NEW k, k \notin sync'[z].touched
                 PROVE  SameProduct(product, sync'[z].loaded, k)
      BY <2>2 DEF ReadingsStand, SameProduct
    <3>1. CASE z = s
      BY <2>1, <2>3, <3>1 DEF SameProduct
    <3>2. CASE z # s
      <4>1. z \in Syncing /\ sync'[z] = sync[z]
        BY <2>3, <3>2 DEF Syncing
      <4>2. QED
        BY <1>1, <4>1 DEF ReadingsStand
    <3>3. QED
      BY <3>1, <3>2
  <2>6. QED
    BY <2>4, <2>5 DEF CatalogInv
<1>4. ASSUME NEW s \in Syncers, CommitSync(s) PROVE CatalogInv'
  <2>1. s \in Syncing /\ sync[s] \in Syncs
    BY <1>1, <1>4, SyncingFact DEF CommitSync
  <2>2. /\ product' = Reconciled(sync[s]) /\ vendor' = vendor /\ Accepted(sync[s])
        /\ families' = families \union NamedFamilies(sync[s])
        /\ sync' = [z \in Syncers |-> IF z \in {s} THEN NotSyncing
                                      ELSE IF z \in Syncing THEN Witnessed(z) ELSE sync[z]]
    BY <1>4 DEF CommitSync
  <2>3. product' \in Tables /\ families' \subseteq Designs /\ vendor' \in Inventories
    BY <1>1, <1>2, <2>1, <2>2, ReconciledFact, NamedFamiliesFact
  <2>4. {s} \in SUBSET Syncers
    OBVIOUS
  <2>5. QED
    BY <2>2, <2>3, <2>4, WritersAreNoticed
<1>5. ASSUME NEW s \in Syncers, RollBackSync(s) PROVE CatalogInv'
  <2>1. sync' = [sync EXCEPT ![s] = NotSyncing] /\ UNCHANGED <<vendor, product, families>>
    BY <1>5 DEF RollBackSync
  <2>2. \A z \in Syncing' : z \in Syncing /\ sync'[z] = sync[z]
    BY <1>2, <2>1 DEF Syncing
  <2>3. sync' \in [Syncers -> Syncs \union {NotSyncing}]
    BY <1>2, <2>1
  <2>4. CatalogShaped'
    BY <1>1, <2>1, <2>2, <2>3 DEF CatalogShaped
  <2>5. ReadingsStand'
    BY <1>1, <2>1, <2>2 DEF ReadingsStand, SameProduct
  <2>6. QED
    BY <2>4, <2>5 DEF CatalogInv
<1>6. ASSUME NEW r \in Articles, NEW row \in Readings, VendorEdits(r, row) PROVE CatalogInv'
  <2>1. vendor' \in Inventories /\ UNCHANGED <<product, families, sync>>
    BY <1>2, <1>6 DEF VendorEdits, Inventories
  <2>2. QED
    BY <1>1, <2>1 DEF CatalogInv, CatalogShaped, ReadingsStand, SameProduct, Syncing
<1>7. ASSUME NEW h \in Handmade, NEW name \in Names, NEW r \in Articles,
             CreateByHand(h, name, Codigo[r])
      PROVE  CatalogInv'
  <2> DEFINE row == [name |-> name, code |-> Codigo[r], active |-> TRUE, family |-> NoDesign,
                     used |-> FALSE]
             p == [k \in Catalogued \union {h} |-> IF k \in Catalogued THEN product[k] ELSE row]
  <2>1. row \in ProductRows
    BY DEF ProductRows
  <2>2. Rewrites(p) /\ vendor' = vendor /\ families' = families
    BY <1>7 DEF CreateByHand
  <2>3. Catalogued \union {h} \in SUBSET Keyed
    BY <1>2 DEF Keyed
  <2> HIDE DEF row
  <2>4. p \in [Catalogued \union {h} -> ProductRows]
    BY <1>2, <2>1
  <2> HIDE DEF p
  <2>5. p \in Tables
    BY <2>3, <2>4, TablesIntro
  <2>6. QED
    BY <1>2, <2>2, <2>5, RewritesKeeps
<1>8. ASSUME NEW k \in Catalogued, NEW name \in Names, Rename(k, name) PROVE CatalogInv'
  <2>1. /\ Rewrites([product EXCEPT ![k] = [product[k] EXCEPT !.name = name]])
        /\ vendor' = vendor /\ families' = families
    BY <1>8 DEF Rename
  <2>2. QED
    BY <1>1, <1>2, <2>1, RowsFact, OneProductFact, RewritesKeeps
<1>9. ASSUME NEW k \in Catalogued, NEW shown \in BOOLEAN, SetActive(k, shown) PROVE CatalogInv'
  <2>1. /\ Rewrites([product EXCEPT ![k] = [product[k] EXCEPT !.active = shown]])
        /\ vendor' = vendor /\ families' = families
    BY <1>9 DEF SetActive
  <2>2. QED
    BY <1>1, <1>2, <2>1, RowsFact, OneProductFact, RewritesKeeps
<1>10. ASSUME NEW k \in Catalogued, NEW d \in Designs \union {NoDesign}, Assign(k, d)
       PROVE  CatalogInv'
  <2>1. /\ Rewrites([product EXCEPT ![k] = [product[k] EXCEPT !.family = d]])
        /\ vendor' = vendor /\ families' = families
    BY <1>10 DEF Assign
  <2>2. QED
    BY <1>1, <1>2, <2>1, RowsFact, OneProductFact, RewritesKeeps
<1>11. ASSUME NEW k \in Catalogued, Sell(k) PROVE CatalogInv'
  <2>1. /\ Rewrites([product EXCEPT ![k] = [product[k] EXCEPT !.used = TRUE]])
        /\ vendor' = vendor /\ families' = families
    BY <1>11 DEF Sell
  <2>2. QED
    BY <1>1, <1>2, <2>1, RowsFact, OneProductFact, RewritesKeeps
<1>12. ASSUME NEW d \in Designs, CreateFamily(d) PROVE CatalogInv'
  <2>1. families' \subseteq Designs /\ UNCHANGED <<vendor, product, sync>>
    BY <1>2, <1>12 DEF CreateFamily
  <2>2. QED
    BY <1>1, <2>1 DEF CatalogInv, CatalogShaped, ReadingsStand, SameProduct, Syncing
<1>13. ASSUME NEW d \in Designs, DeleteFamily(d) PROVE CatalogInv'
  <2> DEFINE p == [k \in Catalogued |->
                 IF product[k].family = d THEN [product[k] EXCEPT !.family = NoDesign] ELSE product[k]]
  <2>1. Rewrites(p) /\ vendor' = vendor /\ families' \subseteq Designs
    BY <1>2, <1>13 DEF DeleteFamily
  <2>2. \A k \in Catalogued : product[k] \in ProductRows
                              /\ [product[k] EXCEPT !.family = NoDesign] \in ProductRows
    BY <1>2, RowsFact
  <2>3. p \in [Catalogued -> ProductRows]
    BY <2>2
  <2> HIDE DEF p
  <2>4. p \in Tables
    BY <1>2, <2>3, TablesIntro
  <2>5. QED
    BY <2>1, <2>4, RewritesKeeps
<1>14. CASE UNCHANGED catalogVars
  BY <1>1, <1>14
     DEF catalogVars, CatalogInv, CatalogShaped, ReadingsStand, SameProduct, Syncing
<1>15. QED
  BY <1>3, <1>4, <1>5, <1>6, <1>7, <1>8, <1>9, <1>10, <1>11, <1>12, <1>13, <1>14 DEF CatalogNext

-----------------------------------------------------------------------------
\* What a commit leaves of each product, stale or not.
LEMMA CommittedFact ==
    ASSUME CatalogShaped, NEW q \in Syncs, Accepted(q), product' = Reconciled(q)
    PROVE  /\ DOMAIN product' = (Catalogued \union SyncedCodes(q.read)) \ Deleted(q)
           /\ \A k \in DOMAIN product' \ Stale(q) : product'[k] = Upserted(q)[k]
           /\ \A k \in DOMAIN product' \intersect Stale(q) :
                 product'[k] = IF k \in DOMAIN q.loaded /\ ~q.loaded[k].active THEN product[k]
                               ELSE [product[k] EXCEPT !.active = FALSE]
           /\ Deleted(q) \subseteq Stale(q)
           /\ Stale(q) \subseteq Catalogued \ (Handmade \union SyncedCodes(q.read) \union Unreadable(q.read))
<1>1. DOMAIN Upserted(q) = Catalogued \union SyncedCodes(q.read)
  BY UpsertedFact
<1>2. Deleted(q) \subseteq Stale(q)
  BY DEF Deleted
<1>3. Stale(q) \subseteq Catalogued \ (Handmade \union SyncedCodes(q.read) \union Unreadable(q.read))
  BY DEF Stale
<1>4. DOMAIN product' = (Catalogued \union SyncedCodes(q.read)) \ Deleted(q)
  BY <1>1 DEF Reconciled
<1>5. \A k \in DOMAIN product' : product'[k] = IF k \in Stale(q) THEN Retired(q, k) ELSE Upserted(q)[k]
  BY DEF Reconciled
<1>6. QED
  BY <1>2, <1>3, <1>4, <1>5 DEF Retired

\* What is neither read nor stale is left as it is.
LEMMA LeftAloneFact ==
    ASSUME CatalogShaped, NEW q \in Syncs, Accepted(q), product' = Reconciled(q),
           NEW k \in Catalogued, k \notin SyncedCodes(q.read), k \notin Stale(q)
    PROVE  k \in DOMAIN product' /\ product'[k] = product[k]
<1>1. k \in DOMAIN product'
  BY CommittedFact
<1>2. product'[k] = Upserted(q)[k]
  BY <1>1, CommittedFact
<1>3. Upserted(q)[k] = product[k]
  BY UpsertedFact
<1>4. QED
  BY <1>1, <1>2, <1>3

\* What the sync read is in the catalog and on sale, unless somebody wrote it meanwhile.
LEMMA ReadIsOnSale ==
    ASSUME CatalogInv, NEW s \in Syncing, Accepted(sync[s]), product' = Reconciled(sync[s]),
           NEW r \in ValidRows(sync[s].read), External(r) \notin sync[s].touched
    PROVE  /\ External(r) \in DOMAIN product'
           /\ product'[External(r)].active
           /\ product'[External(r)].name = sync[s].read[r].name
<1> DEFINE q == sync[s]
           k == External(r)
<1>1. CatalogShaped /\ q \in Syncs
  BY SyncingFact DEF CatalogInv
<1>2. k \in SyncedCodes(q.read)
  BY DEF SyncedCodes
<1>3. k \in DOMAIN product' /\ product'[k] = Upserted(q)[k]
  BY <1>1, <1>2, CommittedFact
<1>4. SameProduct(product, q.loaded, k)
  BY DEF CatalogInv, ReadingsStand
<1>5. CASE k \in DOMAIN q.loaded
  <2> DEFINE row == product[k]
  <2>1. row = q.loaded[k] /\ row \in ProductRows
    BY <1>1, <1>4, <1>5, TablesFact DEF SameProduct, CatalogShaped
  <2>2. product'[k] = [row EXCEPT !.name = IF q.read[r].name # q.loaded[k].name
                                           THEN q.read[r].name ELSE row.name,
                                  !.active = IF q.loaded[k].active THEN row.active ELSE TRUE]
    BY <1>1, <1>3, <1>5, UpsertedFact
  <2> HIDE DEF row, q, k
  <2>3. product'[k].name = (IF q.read[r].name # q.loaded[k].name THEN q.read[r].name ELSE row.name)
    BY <2>1, <2>2 DEF ProductRows
  <2>4. product'[k].active = (IF q.loaded[k].active THEN row.active ELSE TRUE)
    BY <2>1, <2>2 DEF ProductRows
  <2>5. product'[k].name = q.read[r].name /\ product'[k].active
    BY <2>1, <2>3, <2>4
  <2>6. QED
    BY <1>3, <2>5 DEF q, k
<1>6. CASE k \notin DOMAIN q.loaded
  <2>1. Upserted(q)[k] = [name |-> q.read[r].name, code |-> Codigo[r], active |-> TRUE,
                          family |-> q.read[r].obs, used |-> FALSE]
    BY <1>1, <1>6, UpsertedFact
  <2>2. Upserted(q)[k].active /\ Upserted(q)[k].name = q.read[r].name
    BY <2>1
  <2>3. QED
    BY <1>3, <2>2
<1>7. QED
  BY <1>5, <1>6

\* What a category it read no longer has is off sale, unless somebody wrote it meanwhile.
LEMMA GoneIsOffSale ==
    ASSUME CatalogInv, NEW s \in Syncing, Accepted(sync[s]), product' = Reconciled(sync[s]),
           NEW k \in DOMAIN product' \ (Handmade \union sync[s].touched),
           \E r \in ValidRows(sync[s].read) : Category[r] = k[1],
           ~\E r \in Recognized(sync[s].read) : External(r) = k
    PROVE  ~product'[k].active
<1> DEFINE q == sync[s]
<1>1. CatalogShaped /\ q \in Syncs
  BY SyncingFact DEF CatalogInv
<1>2. k \notin SyncedCodes(q.read) /\ k \notin Unreadable(q.read)
  BY OneRowACode DEF SyncedCodes, Unreadable
<1>3. k \in Catalogued /\ product[k] \in ProductRows
  <2>1. k \in Catalogued
    <3>1. DOMAIN product' = (Catalogued \union SyncedCodes(q.read)) \ Deleted(q)
      BY <1>1, CommittedFact
    <3>2. QED
      BY <1>2, <3>1
  <2>2. product \in [Catalogued -> ProductRows]
    BY <1>1, TablesFact DEF Catalogued, CatalogShaped
  <2>3. QED
    BY <2>1, <2>2
<1>4. SameProduct(product, q.loaded, k)
  BY DEF CatalogInv, ReadingsStand
<1>5. CASE product[k].active
  <2>1. k \in Stale(q)
    BY <1>2, <1>3, <1>5 DEF Stale
  <2>2. product'[k] = [product[k] EXCEPT !.active = FALSE]
    BY <1>1, <1>3, <1>4, <1>5, <2>1, CommittedFact DEF SameProduct, Catalogued
  <2>3. QED
    BY <1>3, <2>2 DEF ProductRows
<1>6. CASE ~product[k].active
  <2>1. k \notin Stale(q)
    BY <1>6 DEF Stale
  <2>2. product'[k] = product[k]
    BY <1>1, <1>2, <1>3, <2>1, LeftAloneFact
  <2>3. QED
    BY <1>6, <2>2
<1>7. QED
  BY <1>5, <1>6

\* What was sold stays, what was made by hand or could not be read is left alone, and no
\* product changes family.
LEMMA OursStaysOurs ==
    ASSUME CatalogShaped, NEW q \in Syncs, Accepted(q), product' = Reconciled(q),
           NEW k \in Catalogued
    PROVE  /\ product[k].used => k \in DOMAIN product'
           /\ \/ k \in Handmade
              \/ \E r \in Recognized(q.read) : External(r) = k /\ r \notin ValidRows(q.read)
              => k \in DOMAIN product' /\ (product'[k] = product[k] \/ k \in SyncedCodes(q.read))
           /\ k \in DOMAIN product' => product'[k].family = product[k].family
<1>1. product[k] \in ProductRows
  BY TablesFact DEF CatalogShaped, Catalogued
<1>2. product[k].used => k \in DOMAIN product'
  BY CommittedFact DEF Deleted
<1>3. k \notin SyncedCodes(q.read) /\ k \notin Stale(q) => k \in DOMAIN product' /\ product'[k] = product[k]
  BY LeftAloneFact
<1>4. k \in SyncedCodes(q.read) => k \in DOMAIN product'
  BY CommittedFact
<1>5. k \in Handmade \/ (\E r \in Recognized(q.read) : External(r) = k /\ r \notin ValidRows(q.read))
      => k \in SyncedCodes(q.read) \/ k \notin Stale(q)
  <2>1. ASSUME NEW r \in Recognized(q.read), External(r) = k, r \notin ValidRows(q.read)
        PROVE  k \in SyncedCodes(q.read) \/ k \in Unreadable(q.read)
    BY <2>1 DEF Unreadable
  <2>2. Stale(q) \intersect (Handmade \union Unreadable(q.read)) = {}
    BY DEF Stale
  <2>3. QED
    BY <2>1, <2>2
<1>6. ASSUME k \in DOMAIN product' PROVE product'[k].family = product[k].family
  <2>1. CASE k \in Stale(q)
    BY <1>1, <1>6, <2>1, CommittedFact DEF ProductRows
  <2>2. CASE k \in SyncedCodes(q.read)
    <3>1. PICK r \in ValidRows(q.read) : k = External(r)
      BY <2>2 DEF SyncedCodes
    <3>2. product'[k] = Upserted(q)[k]
      BY <1>6, <2>2, CommittedFact
    <3>3. Upserted(q)[k] = [product[k] EXCEPT
                               !.name = IF q.read[r].name # q.loaded[k].name
                                        THEN q.read[r].name ELSE @,
                               !.active = IF q.loaded[k].active THEN @ ELSE TRUE]
      BY <3>1, UpsertedFact
    <3>4. QED
      BY <1>1, <3>2, <3>3 DEF ProductRows
  <2>3. CASE k \notin Stale(q) /\ k \notin SyncedCodes(q.read)
    BY <1>3, <2>3
  <2>4. QED
    BY <2>1, <2>2, <2>3
<1>7. QED
  BY <1>2, <1>3, <1>4, <1>5, <1>6

\* The inductive invariant holds of every run of edits, sales and syncs.
THEOREM CatalogSafe == CatalogSpec => []CatalogInv
<1>1. CatalogInit => CatalogInv
  <2> SUFFICES ASSUME CatalogInit PROVE CatalogInv
    OBVIOUS
  <2>1. product = <<>> /\ families = {} /\ sync = [s \in Syncers |-> NotSyncing]
    BY DEF CatalogInit
  <2>2. Syncing = {}
    BY <2>1 DEF Syncing
  <2>3. product \in [{} -> ProductRows]
    BY <2>1
  <2>4. product \in Tables
    BY <2>3, TablesIntro
  <2>5. vendor \in Inventories
    BY DEF CatalogInit, Inventories, Readings
  <2>6. QED
    BY <2>1, <2>2, <2>4, <2>5 DEF CatalogInv, CatalogShaped, ReadingsStand
<1>2. QED
  BY <1>1, CatalogStep, PTL DEF CatalogSpec

\* A sync carries the vendor's word into the catalog and nobody else's away, with the
\* edits of staff and vendor and the sales that fell between its reading and its commit.
THEOREM TheCatalogFollows == CatalogSpec => CatalogFollowsTheVendor
<1>1. CatalogInv /\ [CatalogNext]_catalogVars
      => [\A s \in Syncing : sync'[s] = NotSyncing /\ product' # product => Followed(sync[s])]_catalogVars
  <2> SUFFICES ASSUME CatalogInv, CatalogNext, NEW s \in Syncing, sync'[s] = NotSyncing,
                      product' # product
               PROVE  Followed(sync[s])
    BY DEF catalogVars
  <2>1. CatalogShaped /\ s \in Syncers /\ sync[s] \in Syncs /\ sync[s] # NotSyncing
    BY SyncingFact DEF CatalogInv, Syncing
  <2>2. sync \in [Syncers -> Syncs \union {NotSyncing}] /\ product \in Tables
    BY <2>1 DEF CatalogShaped
  <2>3. \/ \E p : Rewrites(p) /\ p \in Tables
        \/ \E z \in Syncers : CommitSync(z)
    <3> SUFFICES ASSUME ~\E z \in Syncers : CommitSync(z) PROVE \E p : Rewrites(p) /\ p \in Tables
      OBVIOUS
    <3>1. product' \in Tables
      BY CatalogStep DEF CatalogInv, CatalogShaped
    <3>2. \E p : Rewrites(p)
      BY DEF CatalogNext, BeginSync, RollBackSync, VendorEdits, CreateFamily, CreateByHand,
             Rename, SetActive, Assign, Sell, DeleteFamily
    <3>3. QED
      BY <3>1, <3>2 DEF Rewrites
  <2>4. ASSUME NEW z \in Syncers, CommitSync(z) PROVE z = s /\ Accepted(sync[s]) /\ product' = Reconciled(sync[s])
    <3>1. product' \in Tables
      BY CatalogStep DEF CatalogInv, CatalogShaped
    <3>2. z # s => sync'[s] = Witnessed(s)
      BY <2>1, <2>4 DEF CommitSync
    <3>3. z = s
      BY <2>1, <3>1, <3>2, WitnessedFact
    <3>4. QED
      BY <2>4, <3>3 DEF CommitSync
  <2>5. ASSUME NEW p \in Tables, Rewrites(p) PROVE FALSE
    <3>1. product' = p /\ sync'[s] = Witnessed(s)
      BY <2>1, <2>5 DEF Rewrites
    <3>2. QED
      BY <2>1, <2>5, <3>1, WitnessedFact
  <2>6. Accepted(sync[s]) /\ product' = Reconciled(sync[s])
    BY <2>3, <2>4, <2>5
  <2>7. QED
    BY <2>1, <2>6, ReadIsOnSale, GoneIsOffSale, OursStaysOurs DEF Followed
<1>2. QED
  BY <1>1, CatalogSafe, PTL DEF CatalogSpec, CatalogFollowsTheVendor

-----------------------------------------------------------------------------
\* A product's family is one there is; the vendor, the staff and the shop move as
\* often as they may.
FamiliesHold == \A k \in Catalogued : product[k].family \in families \union {NoDesign}
MovesCounted == moves \in 0..MaxMoves

\* A sync brings the families of what it creates, and leaves the rest where they were.
LEMMA CommitKeepsFamilies ==
    ASSUME CatalogInv, FamiliesHold, NEW s \in Syncers, CommitSync(s)
    PROVE  FamiliesHold'
<1>0. CatalogShaped
  BY DEF CatalogInv
<1>1. PICK q : q = sync[s]
  OBVIOUS
<1>2. /\ q \in Syncs /\ product' = Reconciled(q) /\ Accepted(q)
      /\ families' = families \union NamedFamilies(q)
  BY <1>0, <1>1, SyncingFact DEF CommitSync
<1>3. product \in [Catalogued -> ProductRows]
  BY <1>0, TablesFact DEF CatalogShaped, Catalogued
<1>4. ASSUME NEW k \in Catalogued, NEW row \in ProductRows,
             row = product[k] \/ row = [product[k] EXCEPT !.active = FALSE]
      PROVE  row.family \in families' \union {NoDesign}
  <2>1. row.family = product[k].family
    BY <1>3, <1>4 DEF ProductRows
  <2>2. QED
    BY <1>2, <2>1 DEF FamiliesHold
<1>5. ASSUME NEW r \in ValidRows(q.read), NEW k, k = External(r)
      PROVE  Upserted(q)[k].family \in families' \union {NoDesign}
  <2>1. CASE k \in DOMAIN q.loaded
    <3>1. /\ k \in Catalogued
          /\ Upserted(q)[k] = [product[k] EXCEPT
                 !.name = IF q.read[r].name # q.loaded[k].name THEN q.read[r].name ELSE @,
                 !.active = IF q.loaded[k].active THEN @ ELSE TRUE]
      BY <1>0, <1>2, <1>5, <2>1, UpsertedFact
    <3>2. PICK n, a : Upserted(q)[k] = [product[k] EXCEPT !.name = n, !.active = a]
      BY <3>1
    <3>3. product[k] \in ProductRows
      BY <1>3, <3>1
    <3>4. [product[k] EXCEPT !.name = n, !.active = a].family = product[k].family
      BY <3>3 DEF ProductRows
    <3>5. Upserted(q)[k].family = product[k].family
      BY <3>2, <3>4
    <3>6. QED
      BY <1>2, <3>1, <3>5 DEF FamiliesHold
  <2>2. CASE k \notin DOMAIN q.loaded
    <3>1. Upserted(q)[k].family = q.read[r].obs
      <4>1. Upserted(q)[k] = [name |-> q.read[r].name, code |-> Codigo[r], active |-> TRUE,
                              family |-> q.read[r].obs, used |-> FALSE]
        BY <1>0, <1>2, <1>5, <2>2, UpsertedFact
      <4>2. QED
        BY <4>1
    <3>2. RowOf(q.read, k) = r /\ k \in SyncedCodes(q.read)
      BY <1>5, OneRowACode DEF RowOf, SyncedCodes
    <3>3. q.read[r].obs # NoDesign => q.read[r].obs \in NamedFamilies(q)
      BY <2>2, <3>2 DEF NamedFamilies
    <3>4. QED
      BY <1>2, <3>1, <3>3
  <2>3. QED
    BY <2>1, <2>2
<1>6. ASSUME NEW k \in DOMAIN product' PROVE product'[k].family \in families' \union {NoDesign}
  <2>1. CASE k \in Stale(q)
    <3>1. /\ k \in Catalogued
          /\ product'[k] = IF k \in DOMAIN q.loaded /\ ~q.loaded[k].active THEN product[k]
                           ELSE [product[k] EXCEPT !.active = FALSE]
      BY <1>0, <1>2, <1>6, <2>1, CommittedFact
    <3>2. product[k].family \in families' \union {NoDesign}
      BY <1>2, <3>1 DEF FamiliesHold
    <3>3. product'[k].family = product[k].family
      BY <1>3, <3>1 DEF ProductRows
    <3>4. QED
      BY <3>2, <3>3
  <2>2. CASE k \notin Stale(q)
    <3>1. product'[k] = Upserted(q)[k] /\ k \in Catalogued \union SyncedCodes(q.read)
      BY <1>0, <1>2, <1>6, <2>2, CommittedFact
    <3>2. CASE k \in SyncedCodes(q.read)
      <4>1. PICK r \in ValidRows(q.read) : k = External(r)
        BY <3>2 DEF SyncedCodes
      <4>2. QED
        BY <1>5, <3>1, <4>1
    <3>3. CASE k \notin SyncedCodes(q.read)
      <4>1. k \in Catalogued /\ Upserted(q)[k] = product[k]
        BY <1>0, <1>2, <3>1, <3>3, UpsertedFact
      <4>2. QED
        BY <1>2, <3>1, <4>1 DEF FamiliesHold
    <3>4. QED
      BY <3>2, <3>3
  <2>3. QED
    BY <2>1, <2>2
<1>7. QED
  BY <1>6 DEF FamiliesHold, Catalogued

\* So does whoever else writes the catalog, and no step loses count.
LEMMA FamiliesStep ==
    ASSUME CatalogInv, FamiliesHold, MovesCounted, [CatalogNext]_catalogVars
    PROVE  FamiliesHold' /\ MovesCounted'
<1>0. /\ product \in [Catalogued -> ProductRows] /\ MaxMoves \in Nat
      /\ DOMAIN product = Catalogued /\ NoDesign \notin Designs
  BY TablesFact, CatalogAssumption DEF CatalogInv, CatalogShaped, Catalogued
<1>1. ASSUME moves' = moves \/ Move PROVE MovesCounted'
  BY <1>0, <1>1 DEF Move, MovesCounted
<1>2. ASSUME NEW k \in Catalogued, NEW row, row.family \in families \union {NoDesign},
             product' = [product EXCEPT ![k] = row], families' = families
      PROVE  FamiliesHold'
  BY <1>0, <1>2 DEF FamiliesHold, Catalogued
<1>3. ASSUME NEW s \in Syncers, BeginSync(s) \/ RollBackSync(s)
      PROVE  FamiliesHold' /\ MovesCounted'
  BY <1>1, <1>3 DEF BeginSync, RollBackSync, FamiliesHold, Catalogued
<1>4. ASSUME NEW s \in Syncers, CommitSync(s) PROVE FamiliesHold' /\ MovesCounted'
  BY <1>1, <1>4, CommitKeepsFamilies DEF CommitSync
<1>5. ASSUME NEW r \in Articles, NEW row \in Readings, VendorEdits(r, row)
      PROVE  FamiliesHold' /\ MovesCounted'
  BY <1>1, <1>5 DEF VendorEdits, FamiliesHold, Catalogued
<1>6. ASSUME NEW h \in Handmade, NEW name \in Names, NEW r \in Articles,
             CreateByHand(h, name, Codigo[r])
      PROVE  FamiliesHold' /\ MovesCounted'
  <2>1. PICK row : row = [name |-> name, code |-> Codigo[r], active |-> TRUE, family |-> NoDesign,
                          used |-> FALSE]
    OBVIOUS
  <2>2. /\ product' = [k \in Catalogued \union {h} |-> IF k \in Catalogued THEN product[k] ELSE row]
        /\ families' = families /\ Move
    BY <1>6, <2>1 DEF CreateByHand, Rewrites
  <2>3. row.family = NoDesign
    BY <2>1
  <2>4. QED
    BY <1>1, <2>2, <2>3 DEF FamiliesHold, Catalogued
<1>7. ASSUME NEW k \in Catalogued, NEW name \in Names, Rename(k, name)
      PROVE  FamiliesHold' /\ MovesCounted'
  <2>1. product' = [product EXCEPT ![k] = [product[k] EXCEPT !.name = name]]
        /\ families' = families /\ Move
    BY <1>7 DEF Rename, Rewrites
  <2>2. [product[k] EXCEPT !.name = name].family = product[k].family
    BY <1>0 DEF ProductRows
  <2>3. QED
    BY <1>1, <1>2, <2>1, <2>2 DEF FamiliesHold
<1>8. ASSUME NEW k \in Catalogued, NEW shown \in BOOLEAN, SetActive(k, shown)
      PROVE  FamiliesHold' /\ MovesCounted'
  <2>1. product' = [product EXCEPT ![k] = [product[k] EXCEPT !.active = shown]]
        /\ families' = families /\ Move
    BY <1>8 DEF SetActive, Rewrites
  <2>2. [product[k] EXCEPT !.active = shown].family = product[k].family
    BY <1>0 DEF ProductRows
  <2>3. QED
    BY <1>1, <1>2, <2>1, <2>2 DEF FamiliesHold
<1>9. ASSUME NEW k \in Catalogued, NEW d \in Designs \union {NoDesign}, Assign(k, d)
      PROVE  FamiliesHold' /\ MovesCounted'
  <2>1. product' = [product EXCEPT ![k] = [product[k] EXCEPT !.family = d]]
        /\ families' = families /\ Move /\ d \in families \union {NoDesign}
    BY <1>9 DEF Assign, Rewrites
  <2>2. [product[k] EXCEPT !.family = d].family = d
    BY <1>0 DEF ProductRows
  <2>3. QED
    BY <1>1, <1>2, <2>1, <2>2
<1>10. ASSUME NEW k \in Catalogued, Sell(k) PROVE FamiliesHold' /\ MovesCounted'
  <2>1. product' = [product EXCEPT ![k] = [product[k] EXCEPT !.used = TRUE]]
        /\ families' = families /\ Move
    BY <1>10 DEF Sell, Rewrites
  <2>2. [product[k] EXCEPT !.used = TRUE].family = product[k].family
    BY <1>0 DEF ProductRows
  <2>3. QED
    BY <1>1, <1>2, <2>1, <2>2 DEF FamiliesHold
<1>11. ASSUME NEW d \in Designs, CreateFamily(d) PROVE FamiliesHold' /\ MovesCounted'
  BY <1>1, <1>11 DEF CreateFamily, FamiliesHold, Catalogued
<1>12. ASSUME NEW d \in Designs, DeleteFamily(d) PROVE FamiliesHold' /\ MovesCounted'
  <2>1. /\ product' = [k \in Catalogued |->
              IF product[k].family = d THEN [product[k] EXCEPT !.family = NoDesign] ELSE product[k]]
        /\ families' = families \ {d} /\ Move
    BY <1>12 DEF DeleteFamily, Rewrites
  <2>2. \A k \in Catalogued : [product[k] EXCEPT !.family = NoDesign].family = NoDesign
    BY <1>0 DEF ProductRows
  <2>3. DOMAIN product' = Catalogued
    BY <2>1
  <2>4. ASSUME NEW k \in Catalogued PROVE product'[k].family \in families' \union {NoDesign}
    <3>1. product[k].family \in families \union {NoDesign}
      BY DEF FamiliesHold
    <3>2. CASE product[k].family = d
      BY <2>1, <2>2, <3>2
    <3>3. CASE product[k].family # d
      BY <2>1, <3>1, <3>3
    <3>4. QED
      BY <3>2, <3>3
  <2>5. QED
    BY <1>1, <2>1, <2>3, <2>4 DEF FamiliesHold, Catalogued
<1>13. CASE UNCHANGED catalogVars
  BY <1>1, <1>13 DEF catalogVars, FamiliesHold, Catalogued
<1>14. QED
  BY <1>3, <1>4, <1>5, <1>6, <1>7, <1>8, <1>9, <1>10, <1>11, <1>12, <1>13 DEF CatalogNext

\* The columns of the catalog keep their domains, and a product's family exists.
THEOREM CatalogTypeCorrect == CatalogSpec => []CatalogTyped
<1>1. CatalogInit => FamiliesHold /\ MovesCounted
  BY CatalogAssumption DEF CatalogInit, FamiliesHold, MovesCounted, Catalogued
<1>2. CatalogInv /\ FamiliesHold /\ MovesCounted /\ [CatalogNext]_catalogVars
      => FamiliesHold' /\ MovesCounted'
  BY FamiliesStep
<1>3. CatalogInv /\ FamiliesHold /\ MovesCounted => CatalogTyped
  <2> SUFFICES ASSUME CatalogInv, FamiliesHold, MovesCounted PROVE CatalogTyped
    OBVIOUS
  <2>1. /\ product \in [Catalogued -> ProductRows] /\ Catalogued \subseteq Keyed
        /\ vendor \in [Articles -> Readings] /\ families \subseteq Designs /\ DOMAIN sync = Syncers
    BY TablesFact DEF CatalogInv, CatalogShaped, Catalogued, Inventories
  <2>2. \A k \in Catalogued :
           /\ product[k].name \in Names /\ product[k].code \in {Codigo[r] : r \in Articles}
           /\ product[k].active \in BOOLEAN /\ product[k].used \in BOOLEAN
    BY <2>1 DEF ProductRows
  <2>3. QED
    BY <2>1, <2>2 DEF CatalogTyped, FamiliesHold, MovesCounted, Keyed
<1>4. QED
  BY <1>1, <1>2, <1>3, CatalogSafe, PTL DEF CatalogSpec

-----------------------------------------------------------------------------
(* Sessions: the accounts, their refresh tokens and what closes them *)

Rights == [active : BOOLEAN, admin : BOOLEAN]

Accounts == [active : BOOLEAN, admin : BOOLEAN, epoch : Nat]

TokenRows == [user : Users, epoch : Nat, live : BOOLEAN, fresh : BOOLEAN]

Plain == [step : {"none", "revokeAll", "password"}, users : SUBSET Users]
Issuing == [step : {"issue"}, users : SUBSET Users, epoch : Nat]
Rotating == [step : {"rotate"}, users : SUBSET Users, token : Nat]
Updating == [step : {"update"}, users : SUBSET Users, user : Users, to : Rights, from : Rights]

Requests == Plain \union Issuing \union Rotating \union Updating

Shaped ==
    /\ account \in [Users -> Accounts]
    /\ token \in Seq(TokenRows)
    /\ session \in [Clients -> Requests]
    /\ meddled \subseteq Users

\* Two requests in flight about one user were noticed.
CrossingsNoticed ==
    \A c, d \in Clients : c # d => session[c].users \intersect session[d].users \subseteq meddled

\* What a request read of a user nobody else touched is still so; an update
\* under way leaves one active administrator, who asked for it.
StillSo(r, m) ==
    /\ r.step = "issue" => \A u \in r.users \ m : r.epoch = account[u].epoch
    /\ r.step = "rotate" =>
          /\ r.token \in DOMAIN token
          /\ token[r.token].user \in r.users
          /\ token[r.token].user \notin m =>
                token[r.token].epoch = account[token[r.token].user].epoch
    /\ r.step = "update" =>
          /\ r.user \in r.users
          /\ r.user \notin m => r.from.active = account[r.user].active
          /\ \E a \in r.users :
                /\ a \notin m => account[a].active /\ account[a].admin
                /\ a # r.user \/ (r.to.active /\ (a \notin m => r.to.admin))

ReadsStand == \A c \in Clients : StillSo(session[c], meddled)

\* The inductive invariant.
SessionsInv ==
    /\ Shaped
    /\ CrossingsNoticed
    /\ ReadsStand
    /\ OldSessionsStayClosed
    /\ SomeoneManagesUsers

-----------------------------------------------------------------------------
\* A request that starts finds what it needs, and whoever else has its users in
\* hand is noticed.
LEMMA BeginsKeeps ==
    ASSUME SessionsInv, NEW c \in Clients, NEW r \in Requests, Begins(c, r),
           StillSo(r, meddled')
    PROVE  SessionsInv'
<1> USE DEF SessionsInv, Begins
<1>1. Shaped'
  BY DEF Shaped, InOtherHands, Requests, Plain, Issuing, Rotating, Updating
<1>2. meddled \subseteq meddled'
  OBVIOUS
<1>3. session'[c] = r /\ \A d \in Clients \ {c} : session'[d] = session[d]
  BY DEF Shaped
<1>4. CrossingsNoticed'
  BY <1>2, <1>3 DEF CrossingsNoticed, InOtherHands
<1>5. ReadsStand'
  <2>1. ASSUME NEW d \in Clients \ {c} PROVE StillSo(session'[d], meddled')
    <3>1. StillSo(session[d], meddled)
      BY DEF ReadsStand
    <3>2. StillSo(session[d], meddled')
      BY <3>1, <1>2 DEF StillSo
    <3>3. QED
      BY <3>2, <1>3
  <2>2. session'[c] = r
    BY DEF Shaped
  <2>3. \A d \in Clients : StillSo(session'[d], meddled')
    BY <2>1, <2>2
  <2>4. ASSUME NEW d \in Clients PROVE StillSo(session[d], meddled)'
    <3>1. StillSo(session'[d], meddled')
      BY <2>3
    <3>2. QED
      BY <3>1 DEF StillSo
  <2>5. QED
    BY <2>4 DEF ReadsStand
<1>6. OldSessionsStayClosed'
  <2>1. SUFFICES ASSUME NEW t \in Tokens, token[t].live
                 PROVE  \/ token[t].epoch = account[token[t].user].epoch
                        \/ token[t].user \in meddled'
                        \/ \E d \in Clients : /\ session'[d].step = "revokeAll"
                                              /\ token[t].user \in session'[d].users
    BY DEF OldSessionsStayClosed, Tokens
  <2>2. CASE token[t].epoch = account[token[t].user].epoch \/ token[t].user \in meddled
    BY <2>2, <1>2
  <2>3. CASE \E d \in Clients : session[d].step = "revokeAll" /\ token[t].user \in session[d].users
    BY <2>3, <1>3
  <2>4. QED
    BY <2>1, <2>2, <2>3 DEF OldSessionsStayClosed
<1>7. SomeoneManagesUsers'
  BY <1>2 DEF SomeoneManagesUsers, Administrators
<1>8. QED
  BY <1>1, <1>4, <1>5, <1>6, <1>7

-----------------------------------------------------------------------------
\* What each kind of request carries.
LEMMA RequestFacts ==
    ASSUME NEW r \in Requests
    PROVE  /\ r.users \subseteq Users
           /\ r.step = "issue" => r \in Issuing
           /\ r.step = "rotate" => r \in Rotating
           /\ r.step = "update" => r \in Updating
           /\ r.step \in {"none", "revokeAll", "password"} => r \in Plain
  BY DEF Requests, Plain, Issuing, Rotating, Updating

\* A row that is closed, or grows old, keeps its user and its epoch.
LEMMA RowFacts ==
    ASSUME NEW r \in TokenRows
    PROVE  /\ [r EXCEPT !.live = FALSE] \in TokenRows
           /\ [r EXCEPT !.live = FALSE].user = r.user
           /\ [r EXCEPT !.live = FALSE].epoch = r.epoch
           /\ ~[r EXCEPT !.live = FALSE].live
           /\ [r EXCEPT !.fresh = FALSE] \in TokenRows
           /\ [r EXCEPT !.fresh = FALSE].user = r.user
           /\ [r EXCEPT !.fresh = FALSE].epoch = r.epoch
           /\ [r EXCEPT !.fresh = FALSE].live = r.live
  BY DEF TokenRows

\* No step but the commits changes an account: if the tokens keep their users and
\* their epochs, and only c's request ends, the other requests still stand.
LEMMA OthersStand ==
    ASSUME SessionsInv, NEW c \in Clients, NEW r \in Requests,
           session' = [session EXCEPT ![c] = r],
           r.users \subseteq session[c].users,
           r.step \in {"none", "revokeAll"},
           account' = account, meddled' = meddled,
           \A t \in Tokens : /\ t \in DOMAIN token'
                             /\ token'[t].user = token[t].user
                             /\ token'[t].epoch = token[t].epoch
    PROVE  CrossingsNoticed' /\ ReadsStand' /\ SomeoneManagesUsers'
<1> USE DEF SessionsInv
<1>1. session'[c] = r /\ \A d \in Clients \ {c} : session'[d] = session[d]
  BY DEF Shaped
<1>2. CrossingsNoticed'
  BY <1>1 DEF CrossingsNoticed
<1>3. ReadsStand'
  <2> SUFFICES ASSUME NEW d \in Clients PROVE StillSo(session[d], meddled)'
    BY DEF ReadsStand
  <2>1. CASE d = c
    BY <1>1, <2>1 DEF StillSo
  <2>2. CASE d # c
    <3>1. StillSo(session[d], meddled) /\ session'[d] = session[d]
      BY <1>1, <2>2 DEF ReadsStand
    <3>2. CASE session[d].step = "rotate"
      BY <3>1, <3>2 DEF StillSo, Tokens
    <3>3. CASE session[d].step = "update"
      BY <3>1, <3>3 DEF StillSo
    <3>4. CASE session[d].step \notin {"rotate", "update"}
      BY <3>1, <3>4 DEF StillSo
    <3>5. QED
      BY <3>2, <3>3, <3>4
  <2>3. QED
    BY <2>1, <2>2
<1>4. SomeoneManagesUsers'
  BY DEF SomeoneManagesUsers, Administrators
<1>5. QED
  BY <1>2, <1>3, <1>4

\* A new token is won in the epoch its request read.
LEMMA IssueKeeps ==
    ASSUME SessionsInv, NEW c \in Clients, Issue(c)
    PROVE  SessionsInv'
<1> USE DEF SessionsInv, Issue, Answered
<1>1. session[c] \in Issuing /\ session[c].step = "issue"
  BY RequestFacts DEF Shaped
<1>2. PICK u \in session[c].users : token' = Append(token, Issued(u, session[c].epoch))
  OBVIOUS
<1>3. Issued(u, session[c].epoch) \in TokenRows
  BY <1>1 DEF Issued, Issuing, TokenRows
<1>4. NoSession \in Requests /\ NoSession.users = {} /\ NoSession.step = "none"
  BY DEF NoSession, Requests, Plain
<1>5. Shaped'
  BY <1>2, <1>3, <1>4 DEF Shaped
<1>6. /\ Tokens' = Tokens \union {Len(token) + 1}
      /\ token'[Len(token) + 1] = Issued(u, session[c].epoch)
      /\ \A t \in Tokens : token'[t] = token[t]
  BY <1>2, <1>3 DEF Shaped, Tokens
<1>7. CrossingsNoticed' /\ ReadsStand' /\ SomeoneManagesUsers'
  BY <1>4, <1>6, OthersStand DEF Tokens
<1>8. u \in meddled \/ session[c].epoch = account[u].epoch
  BY <1>1 DEF ReadsStand, StillSo
<1>9. OldSessionsStayClosed'
  <2>1. SUFFICES ASSUME NEW t \in Tokens', token'[t].live
                 PROVE  \/ token'[t].epoch = account[token'[t].user].epoch
                        \/ token'[t].user \in meddled
                        \/ \E d \in Clients : /\ session'[d].step = "revokeAll"
                                              /\ token'[t].user \in session'[d].users
    BY DEF OldSessionsStayClosed
  <2>2. CASE t \in Tokens
    <3>1. \A d \in Clients : session[d].step = "revokeAll" => session'[d] = session[d]
      BY <1>1 DEF Shaped
    <3>2. QED
      BY <1>6, <2>1, <2>2, <3>1 DEF OldSessionsStayClosed
  <2>3. CASE t = Len(token) + 1
    BY <1>6, <1>8, <2>3 DEF Issued
  <2>4. QED
    BY <1>6, <2>2, <2>3
<1>10. QED
  BY <1>5, <1>7, <1>9

\* An exchange closes one token and issues another for the same user and epoch.
LEMMA RotateKeeps ==
    ASSUME SessionsInv, NEW c \in Clients, Rotate(c)
    PROVE  SessionsInv'
<1> DEFINE old == session[c].token
<1> USE DEF SessionsInv, Rotate, Answered
<1>1. session[c] \in Rotating /\ session[c].step = "rotate"
  BY RequestFacts DEF Shaped
<1>2. old \in Tokens /\ StillSo(session[c], meddled)
  BY <1>1 DEF ReadsStand, StillSo, Tokens
<1>3. token[old] \in TokenRows /\ Issued(token[old].user, token[old].epoch) \in TokenRows
  <2>1. token \in Seq(TokenRows) /\ old \in 1..Len(token)
    BY <1>2 DEF Shaped, Tokens
  <2>2. token[old] \in TokenRows
    BY <2>1, ElementOfSeq
  <2>3. QED
    BY <2>2 DEF Issued, TokenRows
<1>4. NoSession \in Requests /\ NoSession.users = {} /\ NoSession.step = "none"
  BY DEF NoSession, Requests, Plain
<1> DEFINE shut == [token EXCEPT ![old].live = FALSE]
           row == [token[old] EXCEPT !.live = FALSE]
           new == Issued(token[old].user, token[old].epoch)
<1>5. shut = [token EXCEPT ![old] = row]
  OBVIOUS
<1>6. row \in TokenRows /\ row.user = token[old].user /\ row.epoch = token[old].epoch /\ ~row.live
  BY <1>3, RowFacts
<1> HIDE DEF row
<1>7. /\ shut \in Seq(TokenRows)
      /\ Len(shut) = Len(token)
      /\ shut[old] = row
      /\ \A t \in Tokens \ {old} : shut[t] = token[t]
  <2>1. token \in Seq(TokenRows) /\ old \in 1..Len(token) /\ Tokens = 1..Len(token)
    BY <1>2 DEF Shaped, Tokens
  <2> HIDE DEF shut
  <2>2. QED
    BY <1>5, <1>6, <2>1, ExceptSeq
<1>8. token' = Append(shut, new)
  BY DEF Exchanged
<1> HIDE DEF shut, new
<1>9. new \in TokenRows /\ new.user = token[old].user /\ new.epoch = token[old].epoch
  BY <1>3 DEF new, Issued
<1>10. Shaped'
  BY <1>4, <1>7, <1>8, <1>9 DEF Shaped
<1>11. /\ Tokens' = Tokens \union {Len(token) + 1}
       /\ token'[Len(token) + 1] = new
       /\ token'[old] = row
       /\ \A t \in Tokens \ {old} : token'[t] = token[t]
  BY <1>2, <1>7, <1>8, <1>9 DEF Shaped, Tokens
<1>12. \A t \in Tokens : /\ t \in DOMAIN token'
                         /\ token'[t].user = token[t].user
                         /\ token'[t].epoch = token[t].epoch
  BY <1>6, <1>11 DEF Tokens
<1>13. CrossingsNoticed' /\ ReadsStand' /\ SomeoneManagesUsers'
  BY <1>4, <1>12, OthersStand
<1>14. token[old].user \in meddled \/ token[old].epoch = account[token[old].user].epoch
  BY <1>1, <1>2 DEF StillSo
<1>15. OldSessionsStayClosed'
  <2>1. SUFFICES ASSUME NEW t \in Tokens', token'[t].live
                 PROVE  \/ token'[t].epoch = account[token'[t].user].epoch
                        \/ token'[t].user \in meddled
                        \/ \E d \in Clients : /\ session'[d].step = "revokeAll"
                                              /\ token'[t].user \in session'[d].users
    BY DEF OldSessionsStayClosed
  <2>2. CASE t \in Tokens \ {old}
    <3>1. \A d \in Clients : session[d].step = "revokeAll" => session'[d] = session[d]
      BY <1>1 DEF Shaped
    <3>2. QED
      BY <1>11, <2>1, <2>2, <3>1 DEF OldSessionsStayClosed
  <2>3. CASE t = Len(token) + 1
    BY <1>9, <1>11, <1>14, <2>3
  <2>4. CASE t = old
    BY <1>6, <1>11, <2>1, <2>4
  <2>5. QED
    BY <1>11, <2>2, <2>3, <2>4
<1>16. QED
  BY <1>10, <1>13, <1>15

\* A logout and the passing of time close or age one row.
LEMMA OneRowKeeps ==
    ASSUME SessionsInv, NEW t \in Tokens, NEW row \in TokenRows,
           token' = [token EXCEPT ![t] = row],
           row.user = token[t].user, row.epoch = token[t].epoch,
           row.live => token[t].live,
           UNCHANGED <<account, session, meddled>>
    PROVE  SessionsInv'
<1> USE DEF SessionsInv
<1>1. Shaped'
  BY DEF Shaped, Tokens
<1>2. Tokens' = Tokens /\ token'[t] = row /\ \A s \in Tokens \ {t} : token'[s] = token[s]
  BY DEF Shaped, Tokens
<1>3. CrossingsNoticed' /\ SomeoneManagesUsers'
  BY DEF CrossingsNoticed, SomeoneManagesUsers, Administrators
<1>4. ReadsStand'
  <2> SUFFICES ASSUME NEW d \in Clients PROVE StillSo(session[d], meddled)'
    BY DEF ReadsStand
  <2>1. StillSo(session[d], meddled)
    BY DEF ReadsStand
  <2>2. CASE session[d].step = "rotate"
    BY <1>2, <2>1, <2>2 DEF StillSo, Tokens
  <2>3. CASE session[d].step = "update"
    BY <2>1, <2>3 DEF StillSo
  <2>4. CASE session[d].step \notin {"rotate", "update"}
    BY <2>1, <2>4 DEF StillSo
  <2>5. QED
    BY <2>2, <2>3, <2>4
<1>5. OldSessionsStayClosed'
  BY <1>2 DEF OldSessionsStayClosed
<1>6. QED
  BY <1>1, <1>3, <1>4, <1>5

\* A logout keeps the invariant.
LEMMA LogoutKeeps ==
    ASSUME SessionsInv, NEW c \in Clients, NEW t \in Tokens, Logout(c, t)
    PROVE  SessionsInv'
<1> DEFINE row == [token[t] EXCEPT !.live = FALSE]
<1>1. token[t] \in TokenRows
  BY ElementOfSeq DEF SessionsInv, Shaped, Tokens
<1>2. row \in TokenRows /\ row.user = token[t].user /\ row.epoch = token[t].epoch /\ ~row.live
  BY <1>1, RowFacts
<1>3. token' = [token EXCEPT ![t] = row] /\ UNCHANGED <<account, session, meddled>>
  BY DEF Logout
<1> HIDE DEF row
<1>4. QED
  BY <1>2, <1>3, OneRowKeeps

\* So does a token that grows too old.
LEMMA ExpireKeeps ==
    ASSUME SessionsInv, NEW t \in Tokens, Expire(t)
    PROVE  SessionsInv'
<1> DEFINE row == [token[t] EXCEPT !.fresh = FALSE]
<1>1. token[t] \in TokenRows
  BY ElementOfSeq DEF SessionsInv, Shaped, Tokens
<1>2. row \in TokenRows /\ row.user = token[t].user /\ row.epoch = token[t].epoch
      /\ row.live = token[t].live
  BY <1>1, RowFacts
<1>3. token' = [token EXCEPT ![t] = row] /\ UNCHANGED <<account, session, meddled>>
  BY DEF Expire
<1> HIDE DEF row
<1>4. QED
  BY <1>2, <1>3, OneRowKeeps

\* What an UPDATE over some users leaves of each row.
LEMMA RevokedFacts ==
    ASSUME Shaped, NEW users
    PROVE  /\ RevokedFor(users) \in Seq(TokenRows)
           /\ DOMAIN RevokedFor(users) = Tokens
           /\ \A t \in Tokens : /\ RevokedFor(users)[t].user = token[t].user
                                /\ RevokedFor(users)[t].epoch = token[t].epoch
                                /\ RevokedFor(users)[t].live =>
                                      token[t].live /\ token[t].user \notin users
<1> DEFINE Left(t) == IF token[t].user \in users THEN [token[t] EXCEPT !.live = FALSE] ELSE token[t]
<1>1. token \in Seq(TokenRows) /\ Len(token) \in Nat /\ Tokens = 1..Len(token)
  BY DEF Shaped, Tokens
<1>2. ASSUME NEW t \in Tokens
      PROVE  /\ Left(t) \in TokenRows
             /\ Left(t).user = token[t].user
             /\ Left(t).epoch = token[t].epoch
             /\ Left(t).live => token[t].live /\ token[t].user \notin users
  <2>1. token[t] \in TokenRows
    BY <1>1, <1>2, ElementOfSeq
  <2>2. CASE token[t].user \in users
    BY <2>1, <2>2, RowFacts
  <2>3. CASE token[t].user \notin users
    BY <2>1, <2>3
  <2>4. QED
    BY <2>2, <2>3
<1>3. RevokedFor(users) = [t \in 1..Len(token) |-> Left(t)]
  BY <1>1 DEF RevokedFor
<1> HIDE DEF Left
<1>4. RevokedFor(users) \in Seq(TokenRows)
  BY <1>1, <1>2, <1>3
<1>5. QED
  BY <1>1, <1>2, <1>3, <1>4

\* Ending the sessions of a user settles what was owed them.
LEMMA RevokeAllKeeps ==
    ASSUME SessionsInv, NEW c \in Clients, RevokeAll(c)
    PROVE  SessionsInv'
<1> DEFINE closedFor == session[c].users
<1> USE DEF SessionsInv
<1>1. session[c].step = "revokeAll" /\ UNCHANGED <<account, meddled>>
      /\ session' = [session EXCEPT ![c] = NoSession] /\ token' = RevokedFor(closedFor)
  BY DEF RevokeAll, Answered
<1>2. NoSession \in Requests /\ NoSession.users = {} /\ NoSession.step = "none"
  BY DEF NoSession, Requests, Plain
<1>3. /\ token' \in Seq(TokenRows)
      /\ DOMAIN token' = Tokens
      /\ \A t \in Tokens : /\ token'[t].user = token[t].user
                           /\ token'[t].epoch = token[t].epoch
                           /\ token'[t].live => token[t].live /\ token[t].user \notin closedFor
  BY <1>1, RevokedFacts
<1>4. Shaped'
  BY <1>1, <1>2, <1>3 DEF Shaped
<1>5. CrossingsNoticed' /\ ReadsStand' /\ SomeoneManagesUsers'
  BY <1>1, <1>2, <1>3, OthersStand
<1>6. OldSessionsStayClosed'
  <2>1. SUFFICES ASSUME NEW t \in Tokens, token'[t].live
                 PROVE  \/ token'[t].epoch = account[token'[t].user].epoch
                        \/ token'[t].user \in meddled
                        \/ \E d \in Clients : /\ session'[d].step = "revokeAll"
                                              /\ token'[t].user \in session'[d].users
    BY <1>1, <1>3 DEF OldSessionsStayClosed, Tokens
  <2>2. token[t].live /\ token[t].user \notin closedFor
    BY <1>3, <2>1
  <2>3. \A d \in Clients \ {c} : session'[d] = session[d]
    BY <1>1 DEF Shaped
  <2>4. \/ token[t].epoch = account[token[t].user].epoch
        \/ token[t].user \in meddled
        \/ \E d \in Clients \ {c} : /\ session[d].step = "revokeAll"
                                    /\ token[t].user \in session[d].users
    BY <2>2 DEF OldSessionsStayClosed
  <2>5. QED
    BY <1>3, <2>3, <2>4
<1>7. QED
  BY <1>4, <1>5, <1>6

\* A request that dies leaves its users noticed.
LEMMA DieInsideKeeps ==
    ASSUME SessionsInv, NEW c \in Clients, DieInside(c)
    PROVE  SessionsInv'
<1> USE DEF SessionsInv
<1>1. /\ session' = [session EXCEPT ![c] = NoSession] /\ UNCHANGED <<account, token>>
      /\ meddled' = meddled \union session[c].users
  BY DEF DieInside, Answered
<1>2. NoSession \in Requests /\ NoSession.users = {} /\ NoSession.step = "none"
  BY DEF NoSession, Requests, Plain
<1>3. session'[c] = NoSession /\ \A d \in Clients \ {c} : session'[d] = session[d]
  BY <1>1 DEF Shaped
<1>4. Shaped'
  BY <1>1, <1>2, RequestFacts DEF Shaped
<1>5. CrossingsNoticed'
  BY <1>1, <1>2, <1>3 DEF CrossingsNoticed
<1>6. ReadsStand'
  <2> SUFFICES ASSUME NEW d \in Clients PROVE StillSo(session[d], meddled)'
    BY DEF ReadsStand
  <2>1. StillSo(session[d], meddled)
    BY DEF ReadsStand
  <2>2. CASE d = c
    BY <1>2, <1>3, <2>2 DEF StillSo
  <2>3. CASE d # c
    BY <1>1, <1>3, <2>1, <2>3 DEF StillSo
  <2>4. QED
    BY <2>2, <2>3
<1>7. OldSessionsStayClosed'
  <2>1. SUFFICES ASSUME NEW t \in Tokens, token[t].live
                 PROVE  \/ token[t].epoch = account[token[t].user].epoch
                        \/ token[t].user \in meddled'
                        \/ \E d \in Clients : /\ session'[d].step = "revokeAll"
                                              /\ token[t].user \in session'[d].users
    BY <1>1 DEF OldSessionsStayClosed, Tokens
  <2>2. QED
    BY <1>1, <1>3, <2>1 DEF OldSessionsStayClosed
<1>8. SomeoneManagesUsers'
  BY <1>1 DEF SomeoneManagesUsers, Administrators
<1>9. QED
  BY <1>4, <1>5, <1>6, <1>7, <1>8

-----------------------------------------------------------------------------
\* A commit changes one account its request had in hand: the other requests had
\* read another, or were noticed.
LEMMA CommitStands ==
    ASSUME SessionsInv, NEW c \in Clients, NEW r \in Requests, NEW v \in session[c].users,
           session' = [session EXCEPT ![c] = r],
           r.users \subseteq session[c].users,
           r.step \in {"none", "revokeAll"},
           token' = token, meddled' = meddled,
           account' \in [Users -> Accounts],
           \A w \in Users \ {v} : account'[w] = account[w]
    PROVE  Shaped' /\ CrossingsNoticed' /\ ReadsStand'
<1> USE DEF SessionsInv
<1>1. session'[c] = r /\ \A d \in Clients \ {c} : session'[d] = session[d]
  BY DEF Shaped
<1>2. Shaped'
  BY DEF Shaped
<1>3. CrossingsNoticed'
  BY <1>1 DEF CrossingsNoticed
<1>4. ReadsStand'
  <2> SUFFICES ASSUME NEW d \in Clients PROVE StillSo(session[d], meddled)'
    BY DEF ReadsStand
  <2>1. CASE d = c
    BY <1>1, <2>1 DEF StillSo
  <2>2. CASE d # c
    <3>1. StillSo(session[d], meddled) /\ session'[d] = session[d]
      BY <1>1, <2>2 DEF ReadsStand
    <3>2. \A w \in session[d].users \ meddled : w \in Users /\ account'[w] = account[w]
      BY <2>2, RequestFacts DEF CrossingsNoticed, Shaped
    <3>3. CASE session[d].step = "rotate"
      BY <3>1, <3>2, <3>3 DEF StillSo
    <3>4. CASE session[d].step = "update"
      BY <3>1, <3>2, <3>4 DEF StillSo
    <3>5. CASE session[d].step = "issue"
      BY <3>1, <3>2, <3>5 DEF StillSo
    <3>6. CASE session[d].step \notin {"issue", "rotate", "update"}
      BY <3>1, <3>6 DEF StillSo
    <3>7. QED
      BY <3>3, <3>4, <3>5, <3>6
  <2>3. QED
    BY <2>1, <2>2
<1>5. QED
  BY <1>2, <1>3, <1>4

\* The tokens of everybody else are as good as they were.
LEMMA OthersTokens ==
    ASSUME SessionsInv, NEW c \in Clients, NEW r \in Requests, NEW v \in Users,
           session[c].step # "revokeAll",
           session' = [session EXCEPT ![c] = r],
           token' = token, meddled' = meddled,
           \A w \in Users \ {v} : account'[w] = account[w],
           \/ v \in meddled
           \/ account'[v].epoch = account[v].epoch
           \/ r.step = "revokeAll" /\ v \in r.users
    PROVE  OldSessionsStayClosed'
<1> USE DEF SessionsInv
<1>1. session'[c] = r /\ \A d \in Clients \ {c} : session'[d] = session[d]
  BY DEF Shaped
<1>2. SUFFICES ASSUME NEW t \in Tokens, token[t].live
               PROVE  \/ token[t].epoch = account'[token[t].user].epoch
                      \/ token[t].user \in meddled
                      \/ \E d \in Clients : /\ session'[d].step = "revokeAll"
                                            /\ token[t].user \in session'[d].users
  BY DEF OldSessionsStayClosed, Tokens
<1>3. token[t].user \in Users
  <2>1. token \in Seq(TokenRows) /\ t \in 1..Len(token)
    BY DEF Shaped, Tokens
  <2>2. token[t] \in TokenRows
    BY <2>1, ElementOfSeq
  <2>3. QED
    BY <2>2 DEF TokenRows
<1>4. \/ token[t].epoch = account[token[t].user].epoch
      \/ token[t].user \in meddled
      \/ \E d \in Clients : session[d].step = "revokeAll" /\ token[t].user \in session[d].users
  BY <1>2 DEF OldSessionsStayClosed
<1>5. CASE \E d \in Clients : session[d].step = "revokeAll" /\ token[t].user \in session[d].users
  BY <1>1, <1>5
<1>6. CASE token[t].epoch = account[token[t].user].epoch
  <2>1. CASE token[t].user = v
    BY <1>1, <1>6, <2>1
  <2>2. CASE token[t].user # v
    BY <1>3, <1>6, <2>2
  <2>3. QED
    BY <2>1, <2>2
<1>7. QED
  BY <1>4, <1>5, <1>6

\* A new password is committed with the end of the sessions under way.
LEMMA CommitPasswordKeeps ==
    ASSUME SessionsInv, NEW c \in Clients, CommitPassword(c)
    PROVE  SessionsInv'
<1> DEFINE next == [step |-> "revokeAll", users |-> session[c].users]
<1> USE DEF SessionsInv
<1>1. session[c].step = "password" /\ session[c] \in Plain /\ session[c].users \subseteq Users
  BY RequestFacts DEF CommitPassword, Shaped
<1>2. next \in Requests /\ next.step = "revokeAll" /\ next.users = session[c].users
  BY <1>1 DEF Requests, Plain
<1>3. [session[c] EXCEPT !.step = "revokeAll"] = next
  BY <1>1 DEF Plain
<1>4. session' = [session EXCEPT ![c] = next] /\ UNCHANGED <<token, meddled>>
  BY <1>3 DEF CommitPassword
<1>5. PICK u \in session[c].users : account' = [account EXCEPT ![u].epoch = @ + 1]
  BY DEF CommitPassword
<1> DEFINE row == [account[u] EXCEPT !.epoch = @ + 1]
<1> HIDE DEF next
<1>6. u \in Users /\ account[u] \in Accounts
  BY <1>1 DEF Shaped
<1>7. row \in Accounts /\ row.active = account[u].active /\ row.admin = account[u].admin
  BY <1>6 DEF Accounts
<1>8. account' = [account EXCEPT ![u] = row]
  BY <1>5
<1> HIDE DEF row
<1>9. /\ account' \in [Users -> Accounts]
      /\ \A w \in Users \ {u} : account'[w] = account[w]
      /\ \A w \in Users : account'[w].active = account[w].active /\ account'[w].admin = account[w].admin
  BY <1>6, <1>7, <1>8 DEF Shaped
<1>10. Shaped' /\ CrossingsNoticed' /\ ReadsStand'
  BY <1>2, <1>4, <1>9, CommitStands
<1>11. OldSessionsStayClosed'
  BY <1>1, <1>2, <1>4, <1>6, <1>9, OthersTokens
<1>12. SomeoneManagesUsers'
  BY <1>4, <1>9 DEF SomeoneManagesUsers, Administrators
<1>13. QED
  BY <1>10, <1>11, <1>12

\* An administrator's change of an account closes its sessions when it leaves it
\* inactive, and leaves somebody to manage the others.
LEMMA CommitUpdateKeeps ==
    ASSUME SessionsInv, NEW c \in Clients, CommitUpdate(c)
    PROVE  SessionsInv'
<1> DEFINE r == session[c]
           u == r.user
           on == IF r.to.active # r.from.active THEN r.to.active ELSE account[u].active
           chief == IF r.to.admin # r.from.admin THEN r.to.admin ELSE account[u].admin
           closings == IF r.to.active THEN account[u].epoch ELSE account[u].epoch + 1
           row == [account[u] EXCEPT !.active = on, !.admin = chief, !.epoch = closings]
           next == IF ~on THEN [step |-> "revokeAll", users |-> {u}] ELSE NoSession
<1> USE DEF SessionsInv
<1>1. r \in Updating /\ r.step = "update" /\ r.users \subseteq Users
  BY RequestFacts DEF CommitUpdate, Shaped
<1>2. StillSo(r, meddled) /\ u \in r.users
  BY <1>1 DEF ReadsStand, StillSo
<1>3. u \in Users /\ account[u] \in Accounts
  BY <1>1 DEF Updating, Shaped
<1>4. r.to \in Rights /\ r.from \in Rights
  BY <1>1 DEF Updating
<1>5. on \in BOOLEAN /\ chief \in BOOLEAN /\ closings \in Nat
  BY <1>3, <1>4 DEF Rights, Accounts
<1>6. row \in Accounts /\ row.active = on /\ row.admin = chief /\ row.epoch = closings
  <2> HIDE DEF on, chief, closings
  <2>1. QED
    BY <1>3, <1>5 DEF Accounts
<1>7. /\ account' = [account EXCEPT ![u] = row]
      /\ session' = [session EXCEPT ![c] = next]
      /\ UNCHANGED <<token, meddled>>
  BY <1>6 DEF CommitUpdate, EndsSessions
<1>8. /\ next \in Requests /\ next.users \subseteq r.users /\ next.step \in {"none", "revokeAll"}
      /\ ~on => next.step = "revokeAll" /\ next.users = {u}
  BY <1>2, <1>3 DEF NoSession, Requests, Plain
<1> HIDE DEF row, next
<1>9. /\ account' \in [Users -> Accounts] /\ account'[u] = row
      /\ \A w \in Users \ {u} : account'[w] = account[w]
  BY <1>3, <1>6, <1>7 DEF Shaped
<1>10. Shaped' /\ CrossingsNoticed' /\ ReadsStand'
  BY <1>2, <1>7, <1>8, <1>9, CommitStands
<1>11. \/ u \in meddled
       \/ account'[u].epoch = account[u].epoch
       \/ next.step = "revokeAll" /\ u \in next.users
  <2>1. CASE r.to.active
    BY <1>6, <1>9, <2>1
  <2>2. CASE ~r.to.active /\ u \notin meddled
    <3>1. r.from.active = account[u].active
      BY <1>1, <1>2, <2>2 DEF StillSo
    <3>2. ~on
      BY <2>2, <3>1
    <3>3. QED
      BY <1>8, <3>2
  <2>3. QED
    BY <2>1, <2>2
<1>12. OldSessionsStayClosed'
  BY <1>1, <1>3, <1>7, <1>8, <1>9, <1>11, OthersTokens
<1>13. SomeoneManagesUsers'
  <2> SUFFICES ASSUME meddled = {} PROVE Administrators' # {}
    BY <1>7 DEF SomeoneManagesUsers
  <2>1. PICK a \in r.users : /\ account[a].active /\ account[a].admin
                             /\ a # u \/ (r.to.active /\ r.to.admin)
    BY <1>1, <1>2 DEF StillSo
  <2>2. a \in Users
    BY <1>1
  <2>3. account'[a].active /\ account'[a].admin
    <3>1. CASE a # u
      BY <1>9, <2>1, <2>2, <3>1
    <3>2. CASE a = u
      BY <1>6, <1>9, <2>1, <3>2
    <3>3. QED
      BY <3>1, <3>2
  <2>4. QED
    BY <2>2, <2>3 DEF Administrators
<1>14. QED
  BY <1>10, <1>12, <1>13

-----------------------------------------------------------------------------
\* Every request that starts keeps the invariant.
LEMMA AuthenticateKeeps ==
    ASSUME SessionsInv, NEW c \in Clients, NEW u \in Users, Authenticate(c, u)
    PROVE  SessionsInv'
<1> DEFINE r == [step |-> "issue", users |-> {u}, epoch |-> account[u].epoch]
<1>1. r \in Requests
  BY DEF SessionsInv, Shaped, Accounts, Requests, Issuing
<1>2. Begins(c, r) /\ account' = account
  BY DEF Authenticate, Begins
<1>3. StillSo(r, meddled')
  BY DEF StillSo
<1> HIDE DEF r
<1>4. QED
  BY <1>1, <1>2, <1>3, BeginsKeeps

\* A password change.
LEMMA LoadPasswordKeeps ==
    ASSUME SessionsInv, NEW c \in Clients, NEW u \in Users, LoadPassword(c, u)
    PROVE  SessionsInv'
<1> DEFINE r == [step |-> "password", users |-> {u}]
<1>1. r \in Requests /\ StillSo(r, meddled')
  BY DEF Requests, Plain, StillSo
<1>2. Begins(c, r)
  BY DEF LoadPassword
<1> HIDE DEF r
<1>3. QED
  BY <1>1, <1>2, BeginsKeeps

\* A revoked token presented again.
LEMMA PresentRevokedKeeps ==
    ASSUME SessionsInv, NEW c \in Clients, NEW t \in Tokens, PresentRevoked(c, t)
    PROVE  SessionsInv'
<1> DEFINE r == [step |-> "revokeAll", users |-> {token[t].user}]
<1>1. token[t] \in TokenRows
  BY ElementOfSeq DEF SessionsInv, Shaped, Tokens
<1>2. r \in Requests /\ StillSo(r, meddled')
  BY <1>1 DEF TokenRows, Requests, Plain, StillSo
<1>3. Begins(c, r)
  BY DEF PresentRevoked
<1> HIDE DEF r
<1>4. QED
  BY <1>2, <1>3, BeginsKeeps

\* A live one: it was won in the current epoch, or its user is in another's hands.
LEMMA PresentLiveKeeps ==
    ASSUME SessionsInv, NEW c \in Clients, NEW t \in Tokens, PresentLive(c, t)
    PROVE  SessionsInv'
<1> DEFINE u == token[t].user
           r == [step |-> "rotate", users |-> {u}, token |-> t]
<1>1. token \in Seq(TokenRows) /\ t \in 1..Len(token) /\ token[t] \in TokenRows
  BY ElementOfSeq DEF SessionsInv, Shaped, Tokens
<1>2. r \in Requests /\ r.step = "rotate" /\ r.users = {u} /\ r.token = t
  BY <1>1 DEF TokenRows, Requests, Rotating
<1>3. Begins(c, r) /\ token[t].live
  BY DEF PresentLive
<1>4. u \notin meddled' => token[t].epoch = account[u].epoch
  <2> SUFFICES ASSUME u \notin meddled' PROVE token[t].epoch = account[u].epoch
    OBVIOUS
  <2>1. \/ token[t].epoch = account[u].epoch
        \/ u \in meddled
        \/ \E d \in Clients : session[d].step = "revokeAll" /\ u \in session[d].users
    BY <1>3 DEF SessionsInv, OldSessionsStayClosed
  <2>2. u \notin meddled /\ u \notin InOtherHands(c) /\ session[c].step = "none"
    BY <1>2, <1>3 DEF Begins
  <2>3. QED
    BY <2>1, <2>2 DEF InOtherHands
<1> HIDE DEF r
<1>5. StillSo(r, meddled')
  BY <1>1, <1>2, <1>4 DEF StillSo, Tokens
<1>6. QED
  BY <1>2, <1>3, <1>5, BeginsKeeps

\* An administrator's change of an account.
LEMMA LoadUpdateKeeps ==
    ASSUME SessionsInv, NEW c \in Clients, NEW actor \in Users, NEW u \in Users, NEW to \in Rights,
           LoadUpdate(c, actor, u, to)
    PROVE  SessionsInv'
<1> DEFINE r == [step |-> "update", users |-> {actor, u}, user |-> u, to |-> to,
                 from |-> [active |-> account[u].active, admin |-> account[u].admin]]
<1>1. account[u] \in Accounts /\ account[actor] \in Accounts
  BY DEF SessionsInv, Shaped
<1>2. r \in Requests
  BY <1>1 DEF Accounts, Rights, Requests, Updating
<1>3. Begins(c, r)
  BY DEF LoadUpdate
<1>4. account[actor].active /\ account[actor].admin
      /\ (actor # u \/ (to.active /\ (account[u].admin => to.admin)))
  BY DEF LoadUpdate, Administrators, LocksNobodyOut
<1>5. StillSo(r, meddled')
  BY <1>4 DEF StillSo
<1> HIDE DEF r
<1>6. QED
  BY <1>2, <1>3, <1>5, BeginsKeeps

-----------------------------------------------------------------------------
\* Every step keeps the invariant.
LEMMA SessionsStep == SessionsInv /\ [SessionsNext]_sessionVars => SessionsInv'
<1> SUFFICES ASSUME SessionsInv, [SessionsNext]_sessionVars PROVE SessionsInv'
  OBVIOUS
<1>1. ASSUME NEW c \in Clients, NEW u \in Users, Authenticate(c, u) \/ LoadPassword(c, u)
      PROVE  SessionsInv'
  BY <1>1, AuthenticateKeeps, LoadPasswordKeeps
<1>2. ASSUME NEW c \in Clients, NEW t \in Tokens,
             PresentRevoked(c, t) \/ PresentLive(c, t) \/ Logout(c, t)
      PROVE  SessionsInv'
  BY <1>2, PresentRevokedKeeps, PresentLiveKeeps, LogoutKeeps
<1>3. ASSUME NEW c \in Clients, NEW actor \in Users, NEW u \in Users,
             NEW to \in [active : BOOLEAN, admin : BOOLEAN], LoadUpdate(c, actor, u, to)
      PROVE  SessionsInv'
  BY <1>3, LoadUpdateKeeps DEF Rights
<1>4. ASSUME NEW c \in Clients, Issue(c) \/ Rotate(c) \/ RevokeAll(c)
      PROVE  SessionsInv'
  BY <1>4, IssueKeeps, RotateKeeps, RevokeAllKeeps
<1>5. ASSUME NEW c \in Clients, CommitPassword(c) \/ CommitUpdate(c) \/ DieInside(c)
      PROVE  SessionsInv'
  BY <1>5, CommitPasswordKeeps, CommitUpdateKeeps, DieInsideKeeps
<1>6. ASSUME NEW t \in Tokens, Expire(t) PROVE SessionsInv'
  BY <1>6, ExpireKeeps
<1>7. CASE UNCHANGED sessionVars
  BY <1>7 DEF sessionVars, SessionsInv, Shaped, CrossingsNoticed, ReadsStand, StillSo,
              OldSessionsStayClosed, SomeoneManagesUsers, Administrators, Tokens
<1>8. QED
  BY <1>1, <1>2, <1>3, <1>4, <1>5, <1>6, <1>7 DEF SessionsNext

\* The inductive invariant holds of every run of the accounts and their tokens.
THEOREM SessionsSafe == SessionsSpec => []SessionsInv
<1>1. SessionsInit => SessionsInv
  <2> SUFFICES ASSUME SessionsInit PROVE SessionsInv
    OBVIOUS
  <2>1. NoSession \in Requests /\ NoSession.users = {} /\ NoSession.step = "none"
    BY DEF NoSession, Requests, Plain
  <2>2. PICK u \in Users :
           account = [v \in Users |-> [active |-> TRUE, admin |-> v = u, epoch |-> 0]]
    BY DEF SessionsInit
  <2>3. account \in [Users -> Accounts] /\ account[u].active /\ account[u].admin
    BY <2>2 DEF Accounts
  <2>4. token = <<>> /\ Tokens = {} /\ meddled = {} /\ session = [c \in Clients |-> NoSession]
    BY DEF SessionsInit, Tokens
  <2>5. Shaped
    BY <2>1, <2>3, <2>4 DEF Shaped
  <2>6. CrossingsNoticed /\ ReadsStand
    BY <2>1, <2>4 DEF CrossingsNoticed, ReadsStand, StillSo
  <2>7. OldSessionsStayClosed /\ SomeoneManagesUsers
    BY <2>3, <2>4 DEF OldSessionsStayClosed, SomeoneManagesUsers, Administrators
  <2>8. QED
    BY <2>5, <2>6, <2>7 DEF SessionsInv
<1>2. QED
  BY <1>1, SessionsStep, PTL DEF SessionsSpec

\* No session outlives the event that closed it, but for requests about one
\* account that crossed or died half done.
THEOREM SessionsStayClosed == SessionsSpec => []OldSessionsStayClosed
<1>1. SessionsInv => OldSessionsStayClosed
  BY DEF SessionsInv
<1>2. QED
  BY <1>1, SessionsSafe, PTL

\* There is always an active administrator while no two requests about one
\* account crossed.
THEOREM AlwaysAnAdministrator == SessionsSpec => []SomeoneManagesUsers
<1>1. SessionsInv => SomeoneManagesUsers
  BY DEF SessionsInv
<1>2. QED
  BY <1>1, SessionsSafe, PTL

-----------------------------------------------------------------------------
\* The requests that will close the sessions of user u when they commit.
ClosingOf(u) ==
    {c \in Clients : \/ session[c].step = "password" /\ u \in session[c].users
                     \/ session[c].step = "update" /\ session[c].user = u /\ ~session[c].to.active}

\* No account is closed more often than the bound allows, those under way included.
ClosingsKept == \A u \in Users : account[u].epoch + Cardinality(ClosingOf(u)) <= MaxClosings

\* A token, or a login under way, was won at an epoch there has been.
EpochsKnown ==
    /\ \A t \in Tokens : token[t].epoch <= MaxClosings
    /\ \A c \in Clients : session[c].step = "issue" => session[c].epoch <= MaxClosings

\* The requests about a user's closing are so many, and those that may close anybody more.
LEMMA ClosingFact ==
    ASSUME NEW u \in Users, Shaped, Shaped', account[u].epoch + Cardinality(ClosingOf(u)) <= MaxClosings
    PROVE  /\ account[u].epoch <= MaxClosings
           /\ account'[u].epoch = account[u].epoch /\ ClosingOf(u)' \subseteq ClosingOf(u)
                 => account'[u].epoch + Cardinality(ClosingOf(u)') <= MaxClosings
           /\ \A c \in ClosingOf(u) :
                 account'[u].epoch = account[u].epoch + 1 /\ ClosingOf(u)' \subseteq ClosingOf(u) \ {c}
                    => account'[u].epoch + Cardinality(ClosingOf(u)') <= MaxClosings
           /\ \A c \in Clients :
                 Closable(u) /\ account'[u].epoch = account[u].epoch
                    /\ ClosingOf(u)' \subseteq ClosingOf(u) \union {c}
                    => account'[u].epoch + Cardinality(ClosingOf(u)') <= MaxClosings
<1>1. PICK C, D, T : C = ClosingOf(u) /\ D = ClosingOf(u)'
                     /\ T = {c \in Clients : session[c].step \in {"password", "update"}}
  OBVIOUS
<1>2. C \subseteq T /\ T \subseteq Clients /\ D \subseteq Clients
  BY <1>1 DEF ClosingOf
<1>3. IsFiniteSet(C) /\ IsFiniteSet(T) /\ IsFiniteSet(D)
  BY <1>2, SessionsAssumption, FS_Subset
<1>4. /\ Cardinality(C) \in Nat /\ Cardinality(T) \in Nat /\ Cardinality(D) \in Nat
      /\ Cardinality(C) <= Cardinality(T)
  BY <1>2, <1>3, FS_CardinalityType, FS_Subset
<1>5. PICK e, f : e = account[u].epoch /\ f = account'[u].epoch
  OBVIOUS
<1>6. e \in Nat /\ f \in Nat /\ MaxClosings \in Nat /\ e + Cardinality(C) <= MaxClosings
  BY <1>1, <1>5, SessionsAssumption DEF Shaped, Accounts
<1>7. ASSUME f = e, D \subseteq C PROVE f + Cardinality(D) <= MaxClosings
  <2>1. Cardinality(D) <= Cardinality(C)
    BY <1>3, <1>7, FS_Subset
  <2>2. QED
    BY <1>4, <1>6, <1>7, <2>1
<1>8. ASSUME NEW c \in C, f = e + 1, D \subseteq C \ {c} PROVE f + Cardinality(D) <= MaxClosings
  <2>1. IsFiniteSet(C \ {c}) /\ Cardinality(C \ {c}) = Cardinality(C) - 1
    BY <1>3, FS_RemoveElement
  <2>2. Cardinality(D) <= Cardinality(C \ {c})
    BY <1>8, <2>1, FS_Subset
  <2>3. QED
    BY <1>4, <1>6, <1>8, <2>1, <2>2
<1>9. ASSUME NEW c \in Clients, e + Cardinality(T) < MaxClosings, f = e, D \subseteq C \union {c}
      PROVE  f + Cardinality(D) <= MaxClosings
  <2>1. IsFiniteSet(C \union {c}) /\ Cardinality(C \union {c}) <= Cardinality(C) + 1
    <3>1. CASE c \in C
      <4>1. PICK E : E = C \union {c}
        OBVIOUS
      <4>2. E = C
        BY <3>1, <4>1
      <4>3. IsFiniteSet(E) /\ Cardinality(E) <= Cardinality(C) + 1
        BY <1>3, <1>4, <4>2
      <4>4. QED
        BY <4>1, <4>3
    <3>2. CASE c \notin C
      <4>1. IsFiniteSet(C \union {c}) /\ Cardinality(C \union {c}) = Cardinality(C) + 1
        BY <1>3, <3>2, FS_AddElement
      <4>2. QED
        BY <1>4, <4>1
    <3>3. QED
      BY <3>1, <3>2
  <2>2. Cardinality(D) <= Cardinality(C \union {c}) /\ Cardinality(C \union {c}) \in Nat
    BY <1>9, <2>1, FS_Subset, FS_CardinalityType
  <2>3. QED
    BY <1>4, <1>6, <1>9, <2>1, <2>2
<1>10. e <= MaxClosings
  BY <1>4, <1>6
<1>11. QED
  BY <1>1, <1>5, <1>7, <1>8, <1>9, <1>10 DEF Closable

\* A request of which only the client's changes is in nobody else's account.
LEMMA ClosingOfOthers ==
    ASSUME Shaped, Shaped', NEW c \in Clients, \A d \in Clients \ {c} : session'[d] = session[d],
           NEW u \in Users
    PROVE  /\ ClosingOf(u)' \subseteq ClosingOf(u) \union {c}
           /\ session'[c].step \notin {"password", "update"} => ClosingOf(u)' \subseteq ClosingOf(u) \ {c}
           /\ session'[c].step = "password" /\ u \notin session'[c].users
                 => ClosingOf(u)' \subseteq ClosingOf(u)
           /\ session'[c].step = "update" /\ (session'[c].user # u \/ session'[c].to.active)
                 => ClosingOf(u)' \subseteq ClosingOf(u)
  BY DEF ClosingOf

\* No step leaves the bound of the closings.
LEMMA ClosingsStep ==
    ASSUME Shaped, Shaped', ReadsStand, ClosingsKept, [SessionsNext]_sessionVars
    PROVE  ClosingsKept'
<1>0. \A u \in Users : account[u].epoch + Cardinality(ClosingOf(u)) <= MaxClosings
  BY DEF ClosingsKept
<1>1. DOMAIN session = Clients /\ DOMAIN account = Users
  BY DEF Shaped
<1>2. ASSUME account' = account, NEW c \in Clients, \A d \in Clients \ {c} : session'[d] = session[d],
             session'[c].step \notin {"password", "update"}
      PROVE  ClosingsKept'
  <2>1. ASSUME NEW u \in Users PROVE account'[u].epoch + Cardinality(ClosingOf(u)') <= MaxClosings
    BY <1>0, <1>2, <2>1, ClosingFact, ClosingOfOthers
  <2>2. QED
    BY <2>1 DEF ClosingsKept, ClosingOf
<1>3. ASSUME account' = account, session' = session PROVE ClosingsKept'
  BY <1>3 DEF ClosingsKept, ClosingOf
<1>4. ASSUME NEW c \in Clients, NEW u \in Users, LoadPassword(c, u) PROVE ClosingsKept'
  <2>1. /\ account' = account /\ \A d \in Clients \ {c} : session'[d] = session[d]
        /\ session'[c] = [step |-> "password", users |-> {u}] /\ Closable(u)
    BY <1>1, <1>4 DEF LoadPassword, Begins
  <2>2. ASSUME NEW v \in Users PROVE account'[v].epoch + Cardinality(ClosingOf(v)') <= MaxClosings
    <3>1. ClosingOf(v)' \subseteq ClosingOf(v) \union {c}
          /\ (v # u => ClosingOf(v)' \subseteq ClosingOf(v))
      BY <2>1, ClosingOfOthers
    <3>2. QED
      BY <1>0, <2>1, <3>1, ClosingFact
  <2>3. QED
    BY <2>2 DEF ClosingsKept, ClosingOf
<1>5. ASSUME NEW c \in Clients, NEW actor \in Users, NEW u \in Users, NEW to \in Rights,
             LoadUpdate(c, actor, u, to)
      PROVE  ClosingsKept'
  <2>1. /\ account' = account /\ \A d \in Clients \ {c} : session'[d] = session[d]
        /\ session'[c].step = "update" /\ session'[c].user = u /\ session'[c].to = to
        /\ to.active \/ Closable(u)
    BY <1>1, <1>5 DEF LoadUpdate, Begins
  <2>2. ASSUME NEW v \in Users PROVE account'[v].epoch + Cardinality(ClosingOf(v)') <= MaxClosings
    <3>1. ClosingOf(v)' \subseteq ClosingOf(v) \union {c}
          /\ (v # u \/ to.active => ClosingOf(v)' \subseteq ClosingOf(v))
      BY <2>1, ClosingOfOthers
    <3>2. QED
      BY <1>0, <2>1, <3>1, ClosingFact
  <2>3. QED
    BY <2>2 DEF ClosingsKept, ClosingOf
<1>6. ASSUME NEW c \in Clients, CommitPassword(c) PROVE ClosingsKept'
  <2>1. PICK u \in session[c].users : account' = [account EXCEPT ![u].epoch = @ + 1]
    BY <1>6 DEF CommitPassword
  <2>2. session[c].users \subseteq Users
    BY RequestFacts DEF Shaped
  <2>3. /\ account'[u].epoch = account[u].epoch + 1
        /\ \A v \in Users : v # u => account'[v] = account[v]
        /\ \A d \in Clients \ {c} : session'[d] = session[d]
        /\ session[c].step = "password" /\ session'[c].step = "revokeAll"
    BY <1>1, <1>6, <2>1, <2>2 DEF CommitPassword, Shaped, Accounts, Requests, Plain
  <2>4. ASSUME NEW v \in Users PROVE account'[v].epoch + Cardinality(ClosingOf(v)') <= MaxClosings
    <3>1. ClosingOf(v)' \subseteq ClosingOf(v) \ {c}
      BY <2>3, ClosingOfOthers
    <3>2. c \in ClosingOf(u)
      BY <2>1, <2>3 DEF ClosingOf
    <3>3. QED
      BY <1>0, <2>2, <2>3, <3>1, <3>2, ClosingFact
  <2>5. QED
    BY <2>4 DEF ClosingsKept, ClosingOf
<1>7. ASSUME NEW c \in Clients, CommitUpdate(c) PROVE ClosingsKept'
  <2>1. session[c].step = "update" /\ session[c] \in Updating
    BY <1>7, RequestFacts DEF Shaped, CommitUpdate
  <2>2. PICK u, r : u = session[c].user /\ r = session[c]
    OBVIOUS
  <2>3. u \in Users /\ r \in Updating
    BY <2>1, <2>2 DEF Updating
  <2>4. /\ account'[u].epoch = IF r.to.active THEN account[u].epoch ELSE account[u].epoch + 1
        /\ \A v \in Users : v # u => account'[v] = account[v]
    BY <1>1, <1>7, <2>2, <2>3 DEF CommitUpdate, Shaped, Accounts
  <2>5. /\ \A d \in Clients \ {c} : session'[d] = session[d]
        /\ session'[c].step \in {"none", "revokeAll"}
    BY <1>1, <1>7 DEF CommitUpdate, NoSession
  <2>6. ASSUME NEW v \in Users PROVE account'[v].epoch + Cardinality(ClosingOf(v)') <= MaxClosings
    <3>1. ClosingOf(v)' \subseteq ClosingOf(v) \ {c}
      BY <2>5, ClosingOfOthers
    <3>2. ~r.to.active => c \in ClosingOf(u)
      BY <2>1, <2>2 DEF ClosingOf
    <3>3. QED
      BY <1>0, <2>3, <2>4, <3>1, <3>2, ClosingFact
  <2>7. QED
    BY <2>6 DEF ClosingsKept, ClosingOf
<1>8. ASSUME NEW c \in Clients, NEW u \in Users, Authenticate(c, u) PROVE ClosingsKept'
  BY <1>1, <1>2, <1>8 DEF Authenticate, Begins
<1>9. ASSUME NEW c \in Clients, NEW t \in Tokens, PresentRevoked(c, t) \/ PresentLive(c, t)
      PROVE  ClosingsKept'
  BY <1>1, <1>2, <1>9 DEF PresentRevoked, PresentLive, Begins
<1>10. ASSUME NEW c \in Clients, Issue(c) \/ Rotate(c) \/ RevokeAll(c) \/ DieInside(c)
       PROVE  ClosingsKept'
  BY <1>1, <1>2, <1>10 DEF Issue, Rotate, RevokeAll, DieInside, Answered, NoSession
<1>11. ASSUME (\E c \in Clients, t \in Tokens : Logout(c, t)) \/ (\E t \in Tokens : Expire(t))
       PROVE  ClosingsKept'
  BY <1>3, <1>11 DEF Logout, Expire
<1>12. CASE UNCHANGED sessionVars
  BY <1>3, <1>12 DEF sessionVars
<1>13. QED
  BY <1>4, <1>5, <1>6, <1>7, <1>8, <1>9, <1>10, <1>11, <1>12 DEF SessionsNext, Rights

\* No account's epoch is beyond the bound.
LEMMA NoEpochBeyond ==
    ASSUME Shaped, ClosingsKept, NEW u \in Users
    PROVE  account[u].epoch <= MaxClosings
<1>1. ClosingOf(u) \subseteq Clients
  BY DEF ClosingOf
<1>2. IsFiniteSet(ClosingOf(u))
  BY <1>1, SessionsAssumption, FS_Subset
<1>3. Cardinality(ClosingOf(u)) \in Nat /\ account[u].epoch \in Nat /\ MaxClosings \in Nat
  BY <1>2, FS_CardinalityType, SessionsAssumption DEF Shaped, Accounts
<1>4. account[u].epoch + Cardinality(ClosingOf(u)) <= MaxClosings
  BY DEF ClosingsKept
<1>5. QED
  BY <1>3, <1>4

\* Whatever is issued, and every exchange, carries an epoch there has been.
LEMMA EpochsStep ==
    ASSUME Shaped, Shaped', ReadsStand, ClosingsKept, EpochsKnown, [SessionsNext]_sessionVars
    PROVE  EpochsKnown'
<1>1. /\ DOMAIN session = Clients /\ DOMAIN account = Users /\ DOMAIN token = 1..Len(token)
      /\ Len(token) \in Nat /\ \A t \in DOMAIN token : token[t] \in TokenRows
  BY DEF Shaped
<1>2. ASSUME Tokens' = Tokens, \A t \in Tokens : token'[t].epoch = token[t].epoch,
             NEW c \in Clients, \A d \in Clients \ {c} : session'[d] = session[d],
             session'[c].step = "issue" => session'[c].epoch <= MaxClosings \/ session'[c] = session[c]
      PROVE  EpochsKnown'
  BY <1>2 DEF EpochsKnown
<1>3. ASSUME token' = token, NEW c \in Clients, NEW r, Begins(c, r), r.step # "issue"
      PROVE  EpochsKnown'
  <2>1. session'[c] = r /\ \A d \in Clients \ {c} : session'[d] = session[d]
    BY <1>1, <1>3 DEF Begins
  <2>2. QED
    BY <1>2, <1>3, <2>1 DEF Tokens
<1>4. ASSUME NEW c \in Clients, NEW u \in Users, Authenticate(c, u) PROVE EpochsKnown'
  <2>1. /\ token' = token /\ \A d \in Clients \ {c} : session'[d] = session[d]
        /\ session'[c] = [step |-> "issue", users |-> {u}, epoch |-> account[u].epoch]
    BY <1>1, <1>4 DEF Authenticate, Begins
  <2>2. account[u].epoch <= MaxClosings
    BY NoEpochBeyond
  <2>3. QED
    BY <1>2, <2>1, <2>2 DEF Tokens
<1>5. ASSUME NEW c \in Clients, NEW row, row.epoch <= MaxClosings, NEW old, old \in Seq(TokenRows),
             Len(old) = Len(token), \A t \in Tokens : old[t].epoch = token[t].epoch,
             token' = Append(old, row), session' = [session EXCEPT ![c] = NoSession]
      PROVE  EpochsKnown'
  <2>1. /\ Tokens' = Tokens \union {Len(token) + 1} /\ token'[Len(token) + 1] = row
        /\ \A t \in Tokens : token'[t] = old[t]
    BY <1>1, <1>5 DEF Tokens
  <2>2. session'[c].step = "none" /\ \A d \in Clients \ {c} : session'[d] = session[d]
    BY <1>1, <1>5 DEF NoSession
  <2>3. QED
    BY <1>5, <2>1, <2>2 DEF EpochsKnown
<1>6. ASSUME NEW c \in Clients, Issue(c) PROVE EpochsKnown'
  <2>1. PICK u \in session[c].users : token' = Append(token, Issued(u, session[c].epoch))
    BY <1>6 DEF Issue
  <2>2. Issued(u, session[c].epoch).epoch <= MaxClosings
    BY <1>6 DEF Issued, Issue, EpochsKnown
  <2>3. QED
    BY <1>5, <1>6, <2>1, <2>2 DEF Issue, Answered, Shaped
<1>7. ASSUME NEW c \in Clients, Rotate(c) PROVE EpochsKnown'
  <2>1. PICK t : t = session[c].token
    OBVIOUS
  <2>2. t \in Tokens
    BY <1>7, <2>1 DEF Rotate, ReadsStand, StillSo, Tokens
  <2>3. PICK old : old = [token EXCEPT ![t].live = FALSE]
    OBVIOUS
  <2>4. old \in Seq(TokenRows) /\ Len(old) = Len(token) /\ \A i \in Tokens : old[i].epoch = token[i].epoch
    <3>1. DOMAIN old = 1..Len(token) /\ \A i \in Tokens : old[i] \in TokenRows /\ old[i].epoch = token[i].epoch
      BY <1>1, <2>2, <2>3 DEF Tokens, TokenRows
    <3>2. old = [i \in 1..Len(token) |-> old[i]]
      BY <2>3, <3>1
    <3>3. old \in [1..Len(token) -> TokenRows]
      BY <1>1, <3>1, <3>2 DEF Tokens
    <3>4. QED
      BY <1>1, <3>1, <3>3
  <2>5. Issued(token[t].user, token[t].epoch).epoch <= MaxClosings
    BY <2>2 DEF Issued, EpochsKnown
  <2>6. QED
    BY <1>5, <1>7, <2>1, <2>3, <2>4, <2>5 DEF Rotate, Exchanged, Answered
<1>8. ASSUME NEW c \in Clients, RevokeAll(c) PROVE EpochsKnown'
  <2>1. /\ Tokens' = Tokens /\ session'[c].step = "none" /\ \A d \in Clients \ {c} : session'[d] = session[d]
    BY <1>1, <1>8 DEF RevokeAll, Answered, NoSession, RevokedFor, Tokens
  <2>2. \A t \in Tokens : token'[t].epoch = token[t].epoch
    BY <1>1, <1>8 DEF RevokeAll, RevokedFor, Tokens, TokenRows
  <2>3. QED
    BY <1>2, <2>1, <2>2
<1>9. ASSUME token' = token, NEW c \in Clients, \A d \in Clients \ {c} : session'[d] = session[d],
             session'[c].step # "issue"
      PROVE  EpochsKnown'
  BY <1>2, <1>9 DEF Tokens
<1>10. ASSUME NEW c \in Clients, CommitPassword(c) \/ CommitUpdate(c) \/ DieInside(c) PROVE EpochsKnown'
  <2>1. CASE CommitPassword(c)
    <3>1. session[c] \in Plain
      BY <2>1, RequestFacts DEF Shaped, CommitPassword
    <3>2. session'[c].step = "revokeAll" /\ token' = token
          /\ \A d \in Clients \ {c} : session'[d] = session[d]
      BY <1>1, <2>1, <3>1 DEF CommitPassword, Plain
    <3>3. QED
      BY <1>9, <3>2
  <2>2. CASE CommitUpdate(c)
    <3>1. session'[c].step \in {"none", "revokeAll"} /\ token' = token
          /\ \A d \in Clients \ {c} : session'[d] = session[d]
      BY <1>1, <2>2 DEF CommitUpdate, NoSession
    <3>2. QED
      BY <1>9, <3>1
  <2>3. CASE DieInside(c)
    BY <1>1, <1>9, <2>3 DEF DieInside, Answered, NoSession
  <2>4. QED
    BY <1>10, <2>1, <2>2, <2>3
<1>11. ASSUME session' = session, NEW t \in Tokens,
              token' = [token EXCEPT ![t].live = FALSE] \/ token' = [token EXCEPT ![t].fresh = FALSE]
       PROVE  EpochsKnown'
  <2>1. Tokens' = Tokens /\ \A i \in Tokens : token'[i].epoch = token[i].epoch
    BY <1>1, <1>11 DEF Tokens, TokenRows
  <2>2. QED
    BY <1>11, <2>1 DEF EpochsKnown
<1>12. ASSUME NEW c \in Clients, \/ \E t \in Tokens : PresentRevoked(c, t) \/ PresentLive(c, t)
                                 \/ \E u \in Users : LoadPassword(c, u)
                                 \/ \E actor, u \in Users, to \in Rights : LoadUpdate(c, actor, u, to)
       PROVE  EpochsKnown'
  <2>1. CASE \E t \in Tokens : PresentRevoked(c, t)
    <3>1. PICK t \in Tokens : Begins(c, [step |-> "revokeAll", users |-> {token[t].user}])
      BY <2>1 DEF PresentRevoked
    <3>2. PICK r : r = [step |-> "revokeAll", users |-> {token[t].user}]
      OBVIOUS
    <3>3. Begins(c, r) /\ r.step = "revokeAll" /\ token' = token
      BY <3>1, <3>2 DEF Begins
    <3>4. QED
      BY <1>3, <3>3
  <2>2. CASE \E t \in Tokens : PresentLive(c, t)
    <3>1. PICK t \in Tokens :
             Begins(c, [step |-> "rotate", users |-> {token[t].user}, token |-> t])
      BY <2>2 DEF PresentLive
    <3>2. PICK r : r = [step |-> "rotate", users |-> {token[t].user}, token |-> t]
      OBVIOUS
    <3>3. Begins(c, r) /\ r.step = "rotate" /\ token' = token
      BY <3>1, <3>2 DEF Begins
    <3>4. QED
      BY <1>3, <3>3
  <2>3. CASE \E u \in Users : LoadPassword(c, u)
    <3>1. PICK u \in Users : Begins(c, [step |-> "password", users |-> {u}])
      BY <2>3 DEF LoadPassword
    <3>2. PICK r : r = [step |-> "password", users |-> {u}]
      OBVIOUS
    <3>3. Begins(c, r) /\ r.step = "password" /\ token' = token
      BY <3>1, <3>2 DEF Begins
    <3>4. QED
      BY <1>3, <3>3
  <2>4. CASE \E actor, u \in Users, to \in Rights : LoadUpdate(c, actor, u, to)
    <3>1. PICK actor \in Users, u \in Users, to \in Rights : LoadUpdate(c, actor, u, to)
      BY <2>4
    <3>2. PICK r : r = [step |-> "update", users |-> {actor, u}, user |-> u, to |-> to,
                        from |-> [active |-> account[u].active, admin |-> account[u].admin]]
      OBVIOUS
    <3>3. Begins(c, r) /\ r.step = "update"
      BY <3>1, <3>2 DEF LoadUpdate
    <3>4. token' = token
      BY <3>3 DEF Begins
    <3>5. QED
      BY <1>3, <3>3, <3>4
  <2>5. QED
    BY <1>12, <2>1, <2>2, <2>3, <2>4
<1>13. CASE (\E c \in Clients, t \in Tokens : Logout(c, t)) \/ (\E t \in Tokens : Expire(t))
  BY <1>11, <1>13 DEF Logout, Expire
<1>14. CASE UNCHANGED sessionVars
  BY <1>14 DEF EpochsKnown, Tokens, sessionVars
<1>15. QED
  BY <1>4, <1>6, <1>7, <1>8, <1>10, <1>12, <1>13, <1>14 DEF SessionsNext, Rights

\* The accounts, the tokens and the requests keep their domains, and no account is
\* closed more often than the bound allows.
THEOREM SessionsTypeCorrect == SessionsSpec => []SessionsTyped
<1>1. SessionsInit => ClosingsKept /\ EpochsKnown
  <2> SUFFICES ASSUME SessionsInit PROVE ClosingsKept /\ EpochsKnown
    OBVIOUS
  <2>1. \A c \in Clients : session[c].step = "none"
    BY DEF SessionsInit, NoSession
  <2>2. \A u \in Users : ClosingOf(u) = {} /\ account[u].epoch = 0
    BY <2>1 DEF SessionsInit, ClosingOf
  <2>3. Tokens = {}
    BY EmptySeq DEF SessionsInit, Tokens
  <2>4. QED
    <3>1. Cardinality({}) = 0 /\ MaxClosings \in Nat
      BY SessionsAssumption, FS_EmptySet
    <3>2. ClosingsKept
      <4>1. SUFFICES ASSUME NEW u \in Users
                     PROVE  account[u].epoch + Cardinality(ClosingOf(u)) <= MaxClosings
        BY DEF ClosingsKept
      <4>2. account[u].epoch = 0 /\ Cardinality(ClosingOf(u)) = 0
        BY <2>2, <3>1
      <4>3. QED
        BY <3>1, <4>2
    <3>3. EpochsKnown
      BY <2>1, <2>3 DEF EpochsKnown
    <3>4. QED
      BY <3>2, <3>3
<1>2. SessionsInv /\ SessionsInv' /\ ClosingsKept /\ EpochsKnown /\ [SessionsNext]_sessionVars
      => ClosingsKept' /\ EpochsKnown'
  BY ClosingsStep, EpochsStep DEF SessionsInv
<1>3. SessionsInv /\ ClosingsKept /\ EpochsKnown => SessionsTyped
  <2> SUFFICES ASSUME SessionsInv, ClosingsKept, EpochsKnown PROVE SessionsTyped
    OBVIOUS
  <2> DEFINE CountedRows == [user : Users, epoch : 0..MaxClosings, live : BOOLEAN, fresh : BOOLEAN]
  <2>1. Shaped /\ MaxClosings \in Nat
    BY SessionsAssumption DEF SessionsInv
  <2>2. \A u \in Users : account[u].epoch <= MaxClosings
    BY <2>1, NoEpochBeyond
  <2>3. account \in [Users -> [active : BOOLEAN, admin : BOOLEAN, epoch : 0..MaxClosings]]
    BY <2>1, <2>2 DEF Shaped, Accounts
  <2>4. token \in Seq(CountedRows)
    <3>1. token \in Seq(TokenRows)
      BY <2>1 DEF Shaped
    <3>2. /\ token = [t \in 1..Len(token) |-> token[t]] /\ Len(token) \in Nat
          /\ DOMAIN token = 1..Len(token) /\ \A t \in 1..Len(token) : token[t] \in TokenRows
      BY <3>1
    <3>3. \A t \in 1..Len(token) : token[t] \in CountedRows
      BY <2>1, <3>2 DEF TokenRows, EpochsKnown, Tokens
    <3> HIDE DEF CountedRows
    <3>4. token \in [1..Len(token) -> CountedRows]
      BY <3>2, <3>3
    <3>5. QED
      BY <3>2, <3>4
  <2>5. QED
    BY <2>1, <2>3, <2>4, RequestFacts DEF SessionsTyped, Shaped
<1>4. QED
  BY <1>1, <1>2, <1>3, SessionsSafe, PTL DEF SessionsSpec

-----------------------------------------------------------------------------
(* ClientSync: the office's clients, and the vendor's list as it is read and written *)

\* What is left of what was typed is digits.
LEMMA DigitsFact ==
    ASSUME NEW typed \in Seq(0..Letter)
    PROVE  /\ Len(Digits(typed)) \in Nat
           /\ Len(Digits(typed)) # 0 => IsNumber(Digits(typed))
<1> DEFINE S == {i \in DOMAIN typed : typed[i] # Letter}
<1>1. S \in SUBSET Nat /\ IsFiniteSet(S) /\ Cardinality(S) \in Nat
  <2>1. S \in SUBSET (1..Len(typed)) /\ Len(typed) \in Nat
    OBVIOUS
  <2>2. IsFiniteSet(S)
    BY <2>1, FS_Interval, FS_Subset
  <2>3. QED
    BY <2>1, <2>2, FS_CardinalityType
<1>2. Digits(typed) = [n \in 1..Cardinality(S) |-> typed[InOrder(S)[n]]]
  BY <1>1, InOrderFact DEF Digits
<1>3. \A n \in 1..Cardinality(S) : typed[InOrder(S)[n]] \in 0..Letter /\ typed[InOrder(S)[n]] # Letter
  <2> TAKE n \in 1..Cardinality(S)
  <2> DEFINE i == InOrder(S)[n]
  <2>1. InOrder(S) \in Seq(S) /\ DOMAIN InOrder(S) = 1..Cardinality(S)
    BY <1>1, InOrderFact
  <2>2. i \in S
    <3> HIDE DEF S
    <3>1. QED
      BY <2>1, <1>1
  <2> HIDE DEF i
  <2>3. i \in DOMAIN typed /\ typed[i] # Letter
    BY <2>2
  <2>4. typed[i] \in 0..Letter
    <3> DEFINE D == 0..Letter
    <3>1. typed \in Seq(D) /\ i \in 1..Len(typed)
      BY <2>3
    <3> HIDE DEF D
    <3>2. typed[i] \in D
      BY <3>1, ElementOfSeq
    <3>3. QED
      BY <3>2 DEF D
  <2>5. QED
    BY <2>3, <2>4 DEF i
<1> HIDE DEF S
<1>4. Digits(typed) \in Seq(0..Letter)
  <2> DEFINE f == [n \in 1..Cardinality(S) |-> typed[InOrder(S)[n]]]
  <2>1. f \in [1..Cardinality(S) -> 0..Letter]
    BY <1>3
  <2>2. f \in Seq(0..Letter)
    BY <1>1, <2>1, SeqDef
  <2>3. QED
    BY <2>2, <1>2
<1>5. Len(Digits(typed)) = Cardinality(S)
  BY <1>1, <1>2, <1>4
<1>6. QED
  BY <1>1, <1>2, <1>3, <1>4, <1>5 DEF IsNumber

\* The columns the sync writes.
LEMMA FieldsFact ==
    /\ Fields = {"first_name", "last_name", "phone", "email"}
    /\ Blank["first_name"] = <<>> /\ Blank["last_name"] = <<>>
    /\ Blank["phone"] = <<>> /\ Blank["email"] = ""
BY DEF Fields, Blank

\* What the sync makes of a name: whole when it is a company's, nothing lost
\* otherwise.
LEMMA NameFact ==
    ASSUME NEW words \in Seq(STRING), NEW id
    PROVE  /\ split_name(words, id).first \o split_name(words, id).last = words
           /\ is_company_ruc(Numbers[id]) => split_name(words, id).last = <<>>
<1>1. CASE is_company_ruc(Numbers[id]) \/ Len(words) <= 1
  BY <1>1 DEF split_name
<1>2. CASE ~(is_company_ruc(Numbers[id]) \/ Len(words) <= 1)
  <2> DEFINE given == Len(words) - Surnames(words)
  <2>1. given \in 1..Len(words) - 1 /\ Len(words) \in Nat
    BY <1>2 DEF Surnames
  <2>2. split_name(words, id).first = SubSeq(words, 1, given)
        /\ split_name(words, id).last = SubSeq(words, given + 1, Len(words))
    BY <1>2 DEF split_name
  <2> HIDE DEF given
  <2>3. SubSeq(words, 1, given) \o SubSeq(words, given + 1, Len(words)) = words
    BY <2>1
  <2>4. QED
    BY <2>2, <2>3, <1>2
<1>3. QED
  BY <1>1, <1>2

\* What the sync makes of a row of the vendor.
LEMMA ColumnsFact ==
    ASSUME NEW text \in DOMAIN VendorRows, NEW c, c = ColumnsOf(VendorRows[text])
    PROVE  /\ c.first_name \o c.last_name = VendorRows[text].name
           /\ is_company_ruc(Numbers[VendorRows[text].cedula]) => c.last_name = <<>>
           /\ CanBeReached("phone", c.phone) /\ CanBeReached("email", c.email)
<1> DEFINE row == VendorRows[text]
<1>1. row.name \in Seq(STRING) /\ row.phone \in Seq(0..Letter) /\ row.phone2 \in Seq(0..Letter)
      /\ MinDigits \in Nat \ {0}
  BY ClientAssumption
<1> HIDE DEF row
<1>2. c.first_name = split_name(row.name, row.cedula).first
      /\ c.last_name = split_name(row.name, row.cedula).last
      /\ c.phone = normalize_phone(row.phone, row.phone2) /\ c.email = normalize_email(row.email)
  BY DEF ColumnsOf, row
<1>3. CanBeReached("phone", c.phone)
  <2>1. ASSUME NEW typed \in Seq(0..Letter), Len(Digits(typed)) >= MinDigits
        PROVE  CanBeReached("phone", Digits(typed))
    BY <1>1, <2>1, DigitsFact DEF CanBeReached
  <2>2. CanBeReached("phone", <<>>)
    BY FieldsFact DEF CanBeReached
  <2>3. QED
    BY <1>1, <1>2, <2>1, <2>2 DEF normalize_phone
<1>4. CanBeReached("email", c.email)
  BY <1>2, FieldsFact DEF normalize_email, CanBeReached
<1>5. QED
  BY <1>1, <1>2, <1>3, <1>4, NameFact DEF row

-----------------------------------------------------------------------------
Columns == {"identifier", "source", "sold"} \union Fields

\* A row of the table, with its columns.
IsRow(c) == c = [f \in Columns |-> c[f]]

Texts == {VendorRows[text] : text \in DOMAIN VendorRows}

\* The table of clients: each number once, keys that were given.
TableHolds(table, last) ==
    /\ DOMAIN table \subseteq 1..last
    /\ Unique(table)
    /\ \A k \in DOMAIN table : IsRow(table[k])

\* What a sync read of the vendor is a list of its rows, and what it read of the
\* table stands but for the clients written since.
ReadingStands(q) ==
    /\ q = [read |-> q.read, loaded |-> q.loaded, touched |-> q.touched]
    /\ q.read \in [Listed -> Texts] /\ Listed # {}
    /\ TableHolds(q.loaded, serial)
    /\ \A k \in (1..serial) \ q.touched :
          /\ k \in DOMAIN q.loaded <=> k \in DOMAIN clients
          /\ k \in DOMAIN clients => q.loaded[k] = clients[k]

ClientsInv ==
    /\ mcliente \in [Listed -> DOMAIN VendorRows]
    /\ serial \in Nat /\ TableHolds(clients, serial)
    /\ import = [s \in Importers |-> import[s]]
    /\ \A s \in Importing : ReadingStands(import[s])

\* A reading is something.
LEMMA ReadingIsNoted ==
    ASSUME NEW q, ReadingStands(q)
    PROVE  q # NotImporting /\ DOMAIN q.read = Listed
BY DEF ReadingStands, NotImporting

\* Whoever writes the table is noticed by the syncs under way.
LEMMA WritersOfClientsAreNoticed ==
    ASSUME ClientsInv, serial' \in Nat, serial <= serial', TableHolds(clients', serial'),
           UNCHANGED mcliente,
           import' = [z \in Importers |-> import'[z]],
           \A z \in Importers : import'[z] \in {NotImporting, Noticed(z)},
           \A z \in Importers : z \notin Importing => import'[z] = NotImporting
    PROVE  ClientsInv'
<1>1. ASSUME NEW z \in Importing' PROVE ReadingStands(import[z])'
  <2>1. z \in Importers /\ import'[z] # NotImporting
    BY DEF Importing
  <2>2. z \in Importing /\ import'[z] = Noticed(z)
    BY <2>1
  <2> DEFINE q == import[z]
             p == import'[z]
  <2>3. ReadingStands(q) /\ serial \in Nat
    BY <2>2 DEF ClientsInv
  <2>4. p = [read |-> q.read, loaded |-> q.loaded, touched |-> q.touched \union Differing]
    BY <2>2, <2>3 DEF Noticed, ReadingStands
  <2>5. p.read = q.read /\ p.loaded = q.loaded /\ p.touched = q.touched \union Differing
    BY <2>4
  <2> HIDE DEF p, q
  <2>6. TableHolds(q.loaded, serial')
    BY <2>3 DEF ReadingStands, TableHolds
  <2>7. ASSUME NEW k \in (1..serial') \ p.touched
        PROVE  /\ k \in DOMAIN q.loaded <=> k \in DOMAIN clients'
               /\ k \in DOMAIN clients' => q.loaded[k] = clients'[k]
    <3>1. k \notin q.touched /\ k \notin Differing
      BY <2>5
    <3>2. /\ k \in DOMAIN clients <=> k \in DOMAIN clients'
          /\ k \in DOMAIN clients' => clients[k] = clients'[k]
      BY <3>1 DEF Differing
    <3>3. CASE k \in 1..serial
      BY <3>1, <3>2, <3>3, <2>3 DEF ReadingStands
    <3>4. CASE k \notin 1..serial
      <4>1. k \notin DOMAIN q.loaded /\ k \notin DOMAIN clients
        BY <3>4, <2>3 DEF ReadingStands, TableHolds, ClientsInv
      <4>2. QED
        BY <4>1, <3>2
    <3>5. QED
      BY <3>3, <3>4
  <2>8. p = [read |-> p.read, loaded |-> p.loaded, touched |-> p.touched]
    BY <2>4, <2>5
  <2>9. p.read \in [Listed -> Texts] /\ Listed # {} /\ TableHolds(p.loaded, serial')
    BY <2>3, <2>5, <2>6 DEF ReadingStands
  <2>10. QED
    <3>1. /\ p = [read |-> p.read, loaded |-> p.loaded, touched |-> p.touched]
          /\ p.read \in [Listed -> Texts] /\ Listed # {} /\ TableHolds(p.loaded, serial')
          /\ \A k \in (1..serial') \ p.touched :
                /\ k \in DOMAIN p.loaded <=> k \in DOMAIN clients'
                /\ k \in DOMAIN clients' => p.loaded[k] = clients'[k]
      BY <2>5, <2>7, <2>8, <2>9
    <3>2. QED
      BY <3>1 DEF ReadingStands, TableHolds, Unique, Texts, p
<1>2. TableHolds(clients, serial)' /\ (mcliente \in [Listed -> DOMAIN VendorRows])'
  BY DEF ClientsInv, TableHolds, Unique
<1>3. QED
  BY <1>1, <1>2 DEF ClientsInv

\* A client the office or a sync registers has the columns of a row.
LEMMA ModelFact ==
    ASSUME NEW id, NEW source, NEW columns
    PROVE  IsRow(ClientModel(id, source, columns))
BY FieldsFact DEF ClientModel, Columns, IsRow

\* The client a sync registers says what the row of the vendor says.
LEMMA RegisteredFact ==
    ASSUME NEW row, NEW c, c = Registered(row)
    PROVE  /\ IsRow(c) /\ c.identifier = row.cedula /\ c.source = "sifac"
           /\ c.first_name = ColumnsOf(row).first_name /\ c.last_name = ColumnsOf(row).last_name
           /\ c.phone = ColumnsOf(row).phone /\ c.email = ColumnsOf(row).email
BY FieldsFact DEF Registered, ClientModel, Columns, IsRow

\* The rows a sync takes, and the ones it registers, in their order.
LEMMA RowsOfAReading ==
    ASSUME ClientsInv, NEW q, ReadingStands(q)
    PROVE  /\ Valid(q.read) \subseteq Usable(q.read) /\ Usable(q.read) \subseteq Listed
           /\ New(q) \in Seq(Valid(q.read)) /\ Len(New(q)) \in Nat
           /\ \A n \in 1..Len(New(q)) : New(q)[n] \in Valid(q.read)
           /\ \A r \in Valid(q.read) : Matched(q, r) = {} =>
                 \E n \in 1..Len(New(q)) : New(q)[n] = r
<1> DEFINE S == {r \in Valid(q.read) : Matched(q, r) = {}}
<1>1. Valid(q.read) \subseteq Usable(q.read) /\ Usable(q.read) \subseteq Listed
  BY DEF Valid, Usable, Active
<1>2. S \in SUBSET Listed /\ S \subseteq Valid(q.read)
  BY <1>1
<1>3. S \in SUBSET Nat /\ IsFiniteSet(S)
  BY <1>2, FS_Subset, ClientAssumption
<1>4. New(q) = InOrder(S)
  BY DEF New
<1> HIDE DEF S
<1>5. New(q) \in Seq(S) /\ \A i \in S : \E n \in DOMAIN New(q) : New(q)[n] = i
  BY <1>3, <1>4, InOrderFact
<1>6. New(q) \in Seq(Valid(q.read))
  BY <1>2, <1>5
<1>7. DOMAIN New(q) = 1..Len(New(q)) /\ Len(New(q)) \in Nat
  BY <1>5
<1>8. \A n \in 1..Len(New(q)) : New(q)[n] \in Valid(q.read)
  BY <1>6, ElementOfSeq
<1>9. \A r \in Valid(q.read) : Matched(q, r) = {} => \E n \in 1..Len(New(q)) : New(q)[n] = r
  BY <1>5, <1>7 DEF S
<1>10. QED
  BY <1>1, <1>6, <1>7, <1>8, <1>9

\* One row of the list at most is about a client.
LEMMA OneRowAClient ==
    ASSUME ClientsInv, NEW q, ReadingStands(q), NEW k, NEW r \in RowsFor(q, k)
    PROVE  /\ RowsFor(q, k) = {r} /\ (CHOOSE z \in RowsFor(q, k) : TRUE) = r
           /\ r \in Valid(q.read) /\ k \in DOMAIN q.loaded
           /\ q.loaded[k].identifier = q.read[r].cedula
<1>1. ASSUME NEW z \in RowsFor(q, k) PROVE z = r
  <2>1. /\ r \in Valid(q.read) /\ q.loaded[k].identifier = q.read[r].cedula
        /\ z \in Valid(q.read) /\ q.loaded[k].identifier = q.read[z].cedula
    BY DEF RowsFor, Matched
  <2>2. r \in Usable(q.read) /\ z \in Usable(q.read)
    BY <2>1, RowsOfAReading
  <2>3. r <= z /\ z <= r
    BY <2>1, <2>2 DEF Valid
  <2>4. r \in Nat /\ z \in Nat
    BY <2>2, RowsOfAReading, ClientAssumption
  <2>5. QED
    BY <2>3, <2>4
<1>2. r \in Valid(q.read) /\ k \in DOMAIN q.loaded /\ q.loaded[k].identifier = q.read[r].cedula
  BY DEF RowsFor, Matched
<1>3. RowsFor(q, k) = {r}
  BY <1>1
<1>4. QED
  BY <1>2, <1>3

\* What a sync makes of a client who was there.
LEMMA RewrittenFact ==
    ASSUME ClientsInv, NEW q, ReadingStands(q), NEW k \in DOMAIN clients,
           NEW c, c = Rewritten(q, k)
    PROVE  /\ IsRow(c)
           /\ c.identifier = clients[k].identifier /\ c.source = clients[k].source
           /\ c.sold = clients[k].sold
           /\ \A f \in Fields : f \notin Written(q, k) => c[f] = clients[k][f]
           /\ \A f \in Fields : f \in Written(q, k) =>
                 \E r \in RowsFor(q, k) : c[f] = ColumnsOf(q.read[r])[f] /\ c[f] # Blank[f]
           /\ RowsFor(q, k) = {} => c = clients[k]
<1>1. clients[k] = [f \in Columns |-> clients[k][f]]
  BY DEF ClientsInv, TableHolds, IsRow
<1>2. DOMAIN clients[k] = Columns
  BY <1>1
<1> DEFINE old == clients[k]
           Row == CHOOSE r \in RowsFor(q, k) : TRUE
<1>3. c = [f \in Columns |-> IF f \in Written(q, k) THEN ColumnsOf(q.read[Row])[f] ELSE old[f]]
  BY <1>2 DEF Rewritten
<1>4. Written(q, k) \subseteq Fields /\ {"identifier", "source", "sold"} \intersect Fields = {}
  BY FieldsFact DEF Written
<1>5. "identifier" \in Columns /\ "source" \in Columns /\ "sold" \in Columns /\ Fields \subseteq Columns
  BY DEF Columns
<1>6. ASSUME NEW f \in Fields, f \in Written(q, k)
      PROVE  \E r \in RowsFor(q, k) : c[f] = ColumnsOf(q.read[r])[f] /\ c[f] # Blank[f]
  <2>1. PICK r \in RowsFor(q, k) : ColumnsOf(q.read[r])[f] \notin {Blank[f], q.loaded[k][f]}
    BY <1>6 DEF Written
  <2>2. Row = r
    BY OneRowAClient
  <2> HIDE DEF Row
  <2>3. c[f] = ColumnsOf(q.read[r])[f]
    BY <1>3, <1>5, <1>6, <2>2
  <2>4. QED
    BY <2>1, <2>3
<1>7. ASSUME RowsFor(q, k) = {} PROVE c = old
  <2>1. Written(q, k) = {}
    BY <1>7 DEF Written
  <2> HIDE DEF Row
  <2>2. QED
    BY <1>1, <1>3, <2>1
<1>8. /\ IsRow(c)
      /\ \A f \in Columns : f \notin Written(q, k) => c[f] = old[f]
  <2> HIDE DEF Row, old
  <2>1. QED
    BY <1>3 DEF IsRow
<1>9. c.identifier = old.identifier /\ c.source = old.source /\ c.sold = old.sold
  BY <1>4, <1>5, <1>8
<1> HIDE DEF Row
<1>10. QED
  BY <1>5, <1>6, <1>7, <1>8, <1>9

\* The row the client registered with the key k comes from.
ComesFrom(q, k) == q.read[New(q)[k - serial]]

\* The table a sync leaves: who was there and then the new ones, in order.
LEMMA ImportedFact ==
    ASSUME ClientsInv, NEW q, ReadingStands(q), NEW t, t = Imported(q)
    PROVE  /\ DOMAIN t = DOMAIN clients \union (serial + 1 .. serial + Len(New(q)))
           /\ \A k \in DOMAIN clients : t[k] = Rewritten(q, k)
           /\ \A k \in DOMAIN t \ DOMAIN clients :
                 /\ k - serial \in 1..Len(New(q))
                 /\ t[k] = Registered(ComesFrom(q, k))
           /\ \A n \in 1..Len(New(q)) :
                 /\ serial + n \in DOMAIN t \ DOMAIN clients
                 /\ t[serial + n] = Registered(q.read[New(q)[n]])
<1>1. serial \in Nat /\ DOMAIN clients \subseteq 1..serial /\ Len(New(q)) \in Nat
  BY RowsOfAReading DEF ClientsInv, TableHolds
<1>2. DOMAIN t = DOMAIN clients \union (serial + 1 .. serial + Len(New(q)))
  BY DEF Imported
<1>3. \A k \in DOMAIN clients : t[k] = Rewritten(q, k)
  BY <1>2 DEF Imported
<1>4. ASSUME NEW k \in DOMAIN t \ DOMAIN clients
      PROVE  k - serial \in 1..Len(New(q)) /\ t[k] = Registered(ComesFrom(q, k))
  <2>1. k \in serial + 1 .. serial + Len(New(q))
    BY <1>2
  <2>2. k - serial \in 1..Len(New(q))
    BY <1>1, <2>1
  <2>3. QED
    BY <2>2, <1>2 DEF Imported, ComesFrom
<1>5. ASSUME NEW n \in 1..Len(New(q))
      PROVE  /\ serial + n \in DOMAIN t \ DOMAIN clients
             /\ t[serial + n] = Registered(q.read[New(q)[n]])
  <2>1. serial + n \in serial + 1 .. serial + Len(New(q)) /\ serial + n \notin 1..serial
    BY <1>1
  <2>2. serial + n \in DOMAIN t \ DOMAIN clients
    BY <1>1, <1>2, <2>1
  <2>3. (serial + n) - serial = n
    BY <1>1
  <2>4. QED
    BY <1>4, <2>2, <2>3 DEF ComesFrom
<1>6. QED
  BY <1>2, <1>3, <1>4, <1>5

\* The table a sync leaves is a table.
LEMMA ImportedHolds ==
    ASSUME ClientsInv, NEW q, ReadingStands(q), Unique(Imported(q))
    PROVE  TableHolds(Imported(q), serial + Len(New(q)))
<1> DEFINE last == serial + Len(New(q))
<1>0. PICK t : t = Imported(q)
  OBVIOUS
<1>t1. DOMAIN t = DOMAIN clients \union (serial + 1 .. serial + Len(New(q)))
  BY <1>0, ImportedFact
<1>t2. \A k \in DOMAIN clients : t[k] = Rewritten(q, k)
  BY <1>0, ImportedFact
<1>t3. \A k \in DOMAIN t \ DOMAIN clients : t[k] = Registered(ComesFrom(q, k))
  BY <1>0, ImportedFact
<1>1. serial \in Nat /\ DOMAIN clients \subseteq 1..serial /\ Len(New(q)) \in Nat
  BY RowsOfAReading DEF ClientsInv, TableHolds
<1>2. DOMAIN t \subseteq 1..last
  BY <1>1, <1>t1
<1>3. ASSUME NEW k \in DOMAIN t PROVE IsRow(t[k])
  <2>1. CASE k \in DOMAIN clients
    <3>1. PICK c : c = Rewritten(q, k)
      OBVIOUS
    <3>2. IsRow(c)
      BY <2>1, <3>1, RewrittenFact
    <3>3. QED
      BY <2>1, <3>1, <3>2, <1>t2
  <2>2. CASE k \notin DOMAIN clients
    <3>1. t[k] = Registered(ComesFrom(q, k))
      BY <2>2, <1>3, <1>t3
    <3>2. QED
      BY <3>1, RegisteredFact
  <2>3. QED
    BY <2>1, <2>2
<1>4. QED
  BY <1>0, <1>2, <1>3 DEF TableHolds

\* Every request keeps the invariant.
LEMMA ClientsStep == ClientsInv /\ [ClientsNext]_clientVars => ClientsInv'
<1> SUFFICES ASSUME ClientsInv, [ClientsNext]_clientVars PROVE ClientsInv'
  OBVIOUS
<1>0. /\ mcliente \in [Listed -> DOMAIN VendorRows] /\ serial \in Nat
      /\ TableHolds(clients, serial) /\ import = [s \in Importers |-> import[s]]
      /\ \A s \in Importing : ReadingStands(import[s])
  BY DEF ClientsInv
<1>1. ASSUME NEW s \in Importers, BeginImport(s) PROVE ClientsInv'
  <2> DEFINE p == import'[s]
  <2>1. p = [read |-> fetch_rows, loaded |-> clients, touched |-> {}]
        /\ import' = [z \in Importers |-> IF z = s THEN p ELSE import[z]]
        /\ UNCHANGED <<mcliente, clients, serial>>
    BY <1>0, <1>1 DEF BeginImport
  <2>2. fetch_rows \in [Listed -> Texts] /\ Listed # {}
    BY <1>0, <1>1 DEF fetch_rows, Texts, BeginImport, Active
  <2>3. ReadingStands(p)
    <3> HIDE DEF p
    <3>1. p.read = fetch_rows /\ p.loaded = clients /\ p.touched = {}
          /\ p = [read |-> p.read, loaded |-> p.loaded, touched |-> p.touched]
      BY <2>1
    <3>2. QED
      BY <3>1, <2>2, <1>0 DEF ReadingStands
  <2>4. \A q : ReadingStands(q) => ReadingStands(q)'
    BY <2>1 DEF ReadingStands, TableHolds, Unique, Texts
  <2>5. \A z \in Importing' : ReadingStands(import'[z])
    <3> HIDE DEF p
    <3>1. QED
      BY <1>0, <2>1, <2>3 DEF Importing
  <2>6. (\A z \in Importing : ReadingStands(import[z]))'
    BY <2>4, <2>5, <2>1 DEF ReadingStands, TableHolds, Unique, Texts
  <2>7. QED
    <3>1. import' = [z \in Importers |-> import'[z]]
      BY <2>1
    <3>2. TableHolds(clients', serial')
      BY <2>1, <1>0 DEF TableHolds, Unique
    <3>3. QED
      BY <1>0, <2>1, <2>6, <3>1, <3>2 DEF ClientsInv, TableHolds, Unique
<1>2. ASSUME NEW s \in Importers, CommitImport(s) PROVE ClientsInv'
  <2>1. ReadingStands(import[s])
    BY <1>0, <1>2 DEF CommitImport
  <2>2. TableHolds(clients', serial') /\ Len(New(import[s])) \in Nat
        /\ serial' = serial + Len(New(import[s]))
    BY <2>1, <1>2, ImportedHolds, RowsOfAReading DEF CommitImport
  <2>3. /\ import' = [z \in Importers |-> import'[z]]
        /\ \A z \in Importers : import'[z] \in {NotImporting, Noticed(z)}
        /\ \A z \in Importers : z \notin Importing => import'[z] = NotImporting
        /\ UNCHANGED mcliente
    BY <1>2 DEF CommitImport, Importing
  <2>4. QED
    BY <2>2, <2>3, <1>0, WritersOfClientsAreNoticed
<1>3. ASSUME NEW s \in Importers, RollBackImport(s) PROVE ClientsInv'
  BY <1>0, <1>3 DEF RollBackImport, ClientsInv, Importing, ReadingStands, TableHolds, Unique, Texts
<1>4. ASSUME NEW table, Writes(table), serial' \in Nat, serial <= serial',
             DOMAIN table \subseteq 1..serial',
             \A k \in DOMAIN table : IsRow(table[k])
      PROVE  ClientsInv'
  <2>1. TableHolds(clients', serial')
    BY <1>4 DEF Writes, TableHolds
  <2>2. /\ import' = [z \in Importers |-> import'[z]]
        /\ \A z \in Importers : import'[z] \in {NotImporting, Noticed(z)}
        /\ \A z \in Importers : z \notin Importing => import'[z] = NotImporting
        /\ UNCHANGED mcliente
    BY <1>4 DEF Writes, Importing
  <2>3. QED
    BY <2>1, <2>2, <1>4, WritersOfClientsAreNoticed
<1>5. ASSUME NEW r \in Listed, NEW text \in DOMAIN VendorRows, VendorWrites(r, text)
      PROVE  ClientsInv'
  BY <1>0, <1>5 DEF VendorWrites, ClientsInv, Importing, ReadingStands, TableHolds, Unique, Texts
<1>6. ASSUME NEW id \in Identifiers, NEW phone \in Phones, Register(id, phone) PROVE ClientsInv'
  <2> DEFINE new == ClientModel(id, "dashboard", [Blank EXCEPT !.phone = phone])
             table == [k \in DOMAIN clients \union {serial + 1} |->
                          IF k \in DOMAIN clients THEN clients[k] ELSE new]
  <2>1. Writes(table) /\ serial' = serial + 1
    BY <1>6 DEF Register
  <2>2. IsRow(new)
    BY ModelFact
  <2> HIDE DEF new
  <2>3. \A k \in DOMAIN table : IsRow(table[k])
    BY <2>2, <1>0 DEF TableHolds
  <2>4. DOMAIN table \subseteq 1..serial' /\ serial' \in Nat /\ serial <= serial'
    BY <2>1, <1>0 DEF TableHolds
  <2> HIDE DEF table
  <2>5. QED
    BY <2>1, <2>3, <2>4, <1>4
<1>7. ASSUME NEW k \in DOMAIN clients, NEW field, NEW value, Edit(k, field, value) PROVE ClientsInv'
  <2> DEFINE table == [clients EXCEPT ![k] = [@ EXCEPT ![field] = value]]
  <2>1. Writes(table) /\ serial' = serial
    BY <1>7 DEF Edit
  <2>2. DOMAIN table = DOMAIN clients
    OBVIOUS
  <2>3. ASSUME NEW j \in DOMAIN table PROVE IsRow(table[j])
    <3>1. IsRow(clients[j]) /\ IsRow(clients[k])
      BY <1>0, <2>2 DEF TableHolds
    <3>2. table[j] = IF j = k THEN [clients[k] EXCEPT ![field] = value] ELSE clients[j]
      BY <2>2
    <3> HIDE DEF table
    <3>3. QED
      BY <3>1, <3>2 DEF IsRow
  <2> HIDE DEF table
  <2>4. QED
    BY <2>1, <2>2, <2>3, <1>0, <1>4 DEF TableHolds
<1>8. ASSUME NEW k \in DOMAIN clients, Delete(k) PROVE ClientsInv'
  <2> DEFINE table == [j \in DOMAIN clients \ {k} |-> clients[j]]
  <2>1. Writes(table) /\ serial' = serial
    BY <1>8 DEF Delete
  <2>2. DOMAIN table \subseteq 1..serial /\ \A j \in DOMAIN table : IsRow(table[j])
    BY <1>0 DEF TableHolds
  <2> HIDE DEF table
  <2>3. QED
    BY <2>1, <2>2, <1>0, <1>4
<1>9. ASSUME NEW k \in DOMAIN clients, SellTo(k) PROVE ClientsInv'
  <2> DEFINE table == [clients EXCEPT ![k].sold = TRUE]
  <2>1. Writes(table) /\ serial' = serial
    BY <1>9 DEF SellTo
  <2>2. DOMAIN table = DOMAIN clients
    OBVIOUS
  <2>3. ASSUME NEW j \in DOMAIN table PROVE IsRow(table[j])
    <3>1. IsRow(clients[j]) /\ IsRow(clients[k])
      BY <1>0, <2>2 DEF TableHolds
    <3>2. table[j] = IF j = k THEN [clients[k] EXCEPT !.sold = TRUE] ELSE clients[j]
      BY <2>2
    <3> HIDE DEF table
    <3>3. QED
      BY <3>1, <3>2 DEF IsRow
  <2> HIDE DEF table
  <2>4. QED
    BY <2>1, <2>2, <2>3, <1>0, <1>4 DEF TableHolds
<1>10. CASE UNCHANGED clientVars
  BY <1>0, <1>10 DEF clientVars, ClientsInv, Importing, ReadingStands, TableHolds, Unique, Texts
<1>11. QED
  BY <1>1, <1>2, <1>3, <1>5, <1>6, <1>7, <1>8, <1>9, <1>10 DEF ClientsNext


-----------------------------------------------------------------------------
\* The least of the usable rows with one cedula is the one the sync takes.
LEMMA TheFirstIsValid ==
    ASSUME ClientsInv, NEW q, ReadingStands(q), NEW r \in Usable(q.read)
    PROVE  \E z \in Valid(q.read) : z <= r /\ q.read[z].cedula = q.read[r].cedula
<1> DEFINE S == {z \in Usable(q.read) : q.read[z].cedula = q.read[r].cedula}
<1>1. S \in SUBSET Listed /\ r \in S
  BY RowsOfAReading
<1>2. S \in SUBSET Int /\ IsFiniteSet(S) /\ S # {}
  <2> HIDE DEF S
  <2>1. IsFiniteSet(S)
    BY <1>1, FS_Subset, ClientAssumption
  <2>2. Listed \subseteq Nat
    BY ClientAssumption, Zenon
  <2>3. \A z \in S : z \in Int
    BY <1>1, <2>2
  <2>4. QED
    BY <1>1, <2>1, <2>3
<1>3. PICK z \in S : \A y \in S : z <= y
  <2> HIDE DEF S
  <2>1. QED
    BY <1>2, LeastIsThere
<1>4. z \in Valid(q.read)
  BY <1>3 DEF Valid
<1>5. QED
  BY <1>1, <1>3, <1>4

\* What a row of the reading says.
LEMMA TextFact ==
    ASSUME ClientsInv, NEW q, ReadingStands(q), NEW r \in Usable(q.read)
    PROVE  LET c == ColumnsOf(q.read[r])
           IN  /\ c.first_name \o c.last_name = q.read[r].name
               /\ is_company_ruc(Numbers[q.read[r].cedula]) => c.last_name = <<>>
               /\ CanBeReached("phone", c.phone) /\ CanBeReached("email", c.email)
<1>1. q.read[r] \in Texts
  BY RowsOfAReading DEF ReadingStands
<1>2. PICK text \in DOMAIN VendorRows : q.read[r] = VendorRows[text]
  BY <1>1 DEF Texts
<1>3. PICK c : c = ColumnsOf(VendorRows[text])
  OBVIOUS
<1>4. /\ c.first_name \o c.last_name = VendorRows[text].name
      /\ is_company_ruc(Numbers[VendorRows[text].cedula]) => c.last_name = <<>>
      /\ CanBeReached("phone", c.phone) /\ CanBeReached("email", c.email)
  BY <1>3, ColumnsFact
<1>5. QED
  BY <1>2, <1>3, <1>4

\* Nobody who was there loses anything.
LEMMA NobodyLoses ==
    ASSUME ClientsInv, NEW q, ReadingStands(q), clients' = Imported(q), NEW k \in DOMAIN clients
    PROVE  /\ k \in DOMAIN clients'
           /\ \A f \in {"identifier", "source", "sold"} : clients'[k][f] = clients[k][f]
           /\ \A f \in Fields : clients[k][f] # Blank[f] => clients'[k][f] # Blank[f]
           /\ (~\E r \in Usable(q.read) : k \in Matched(q, r)) => clients'[k] = clients[k]
<1>1. PICK t : t = Imported(q)
  OBVIOUS
<1>2. k \in DOMAIN t /\ t[k] = Rewritten(q, k)
  BY <1>1, ImportedFact
<1>3. PICK c : c = Rewritten(q, k)
  OBVIOUS
<1>4. /\ c.identifier = clients[k].identifier /\ c.source = clients[k].source
      /\ c.sold = clients[k].sold
      /\ \A f \in Fields : f \notin Written(q, k) => c[f] = clients[k][f]
      /\ \A f \in Fields : f \in Written(q, k) => c[f] # Blank[f]
      /\ RowsFor(q, k) = {} => c = clients[k]
  BY <1>3, RewrittenFact
<1>5. (~\E r \in Usable(q.read) : k \in Matched(q, r)) => RowsFor(q, k) = {}
  BY RowsOfAReading DEF RowsFor
<1>6. clients'[k] = c /\ k \in DOMAIN clients'
  BY <1>1, <1>2, <1>3
<1>7. QED
  BY <1>4, <1>5, <1>6

\* A usable row is a client who reads as the first row with its cedula does, unless
\* somebody wrote that client meanwhile.
LEMMA UsableRowsRead ==
    ASSUME ClientsInv, NEW q, ReadingStands(q), clients' = Imported(q),
           NEW r \in Usable(q.read), Matched(q, r) \intersect q.touched = {}
    PROVE  \E k \in DOMAIN clients', z \in Usable(q.read) :
              z <= r /\ q.read[z].cedula = q.read[r].cedula /\ ReadsAs(k, q.read[z])
<1>1. PICK z \in Valid(q.read) : z <= r /\ q.read[z].cedula = q.read[r].cedula
  BY TheFirstIsValid
<1>2. Matched(q, z) = Matched(q, r) /\ z \in Usable(q.read)
  BY <1>1, RowsOfAReading DEF Matched
<1>3. PICK t : t = Imported(q) /\ clients' = t
  OBVIOUS
<1>4. PICK columns : columns = ColumnsOf(q.read[z])
  OBVIOUS
<1>5. CASE Matched(q, z) = {}
  <2>1. PICK n \in 1..Len(New(q)) : New(q)[n] = z
    BY <1>5, RowsOfAReading
  <2>2. serial + n \in DOMAIN t \ DOMAIN clients /\ t[serial + n] = Registered(q.read[z])
    <3>1. \A m \in 1..Len(New(q)) : /\ serial + m \in DOMAIN t \ DOMAIN clients
                                    /\ t[serial + m] = Registered(q.read[New(q)[m]])
      BY <1>3, ImportedFact
    <3>2. QED
      BY <2>1, <3>1
  <2> DEFINE k == serial + n
  <2>3. PICK c : c = Registered(q.read[z])
    OBVIOUS
  <2>4. /\ c.identifier = q.read[z].cedula
        /\ c.first_name = columns.first_name /\ c.last_name = columns.last_name
        /\ c.phone = columns.phone /\ c.email = columns.email
    BY <1>4, <2>3, RegisteredFact
  <2>5. clients'[k] = c /\ k \in DOMAIN clients' /\ k \notin DOMAIN clients
    BY <1>3, <2>2, <2>3
  <2>6. \A f \in Fields : c[f] = columns[f]
    BY <2>4, FieldsFact
  <2> HIDE DEF k
  <2>7. ReadsAs(k, q.read[z])
    BY <1>4, <2>4, <2>5, <2>6 DEF ReadsAs
  <2>8. QED
    BY <1>1, <1>2, <2>5, <2>7
<1>6. CASE Matched(q, z) # {}
  <2>1. PICK k \in Matched(q, z) : k \notin q.touched
    BY <1>2, <1>6
  <2>2. k \in DOMAIN q.loaded /\ q.loaded[k].identifier = q.read[z].cedula /\ z \in RowsFor(q, k)
    BY <2>1 DEF Matched, RowsFor
  <2>3. k \in DOMAIN clients /\ q.loaded[k] = clients[k]
    BY <2>1, <2>2 DEF ReadingStands, TableHolds
  <2>4. RowsFor(q, k) = {z}
    BY <2>2, OneRowAClient
  <2>5. PICK c : c = Rewritten(q, k)
    OBVIOUS
  <2>6. /\ c.identifier = clients[k].identifier
        /\ \A f \in Fields : f \notin Written(q, k) => c[f] = clients[k][f]
        /\ \A f \in Fields : f \in Written(q, k) =>
              \E y \in RowsFor(q, k) : c[f] = ColumnsOf(q.read[y])[f]
    BY <2>3, <2>5, RewrittenFact
  <2>7. k \in DOMAIN clients' /\ clients'[k] = c
    BY <1>3, <2>3, <2>5, ImportedFact
  <2>8. \A f \in Fields : f \in Written(q, k) <=> columns[f] # Blank[f] /\ columns[f] # clients[k][f]
    BY <1>4, <2>3, <2>4 DEF Written
  <2>9. \A f \in Fields : f \in Written(q, k) => c[f] = columns[f]
    BY <1>4, <2>4, <2>6
  <2>10. \A f \in Fields : c[f] = IF columns[f] # Blank[f] THEN columns[f] ELSE clients[k][f]
    BY <2>6, <2>8, <2>9
  <2>11. ReadsAs(k, q.read[z])
    BY <1>4, <2>2, <2>3, <2>6, <2>7, <2>10 DEF ReadsAs
  <2>12. QED
    BY <1>1, <1>2, <2>7, <2>11
<1>7. QED
  BY <1>5, <1>6

\* Who is new comes from a usable row, with a number that holds and the whole name.
LEMMA TheNewComeFromTheList ==
    ASSUME ClientsInv, NEW q, ReadingStands(q), clients' = Imported(q),
           NEW k \in DOMAIN clients' \ DOMAIN clients
    PROVE  /\ clients'[k].source = "sifac"
           /\ clients'[k].identifier \in Holding
           /\ \E r \in Usable(q.read) :
                 /\ clients'[k].first_name \o clients'[k].last_name = q.read[r].name
                 /\ is_company_ruc(Numbers[q.read[r].cedula]) => clients'[k].last_name = <<>>
           /\ CanBeReached("phone", clients'[k].phone) /\ CanBeReached("email", clients'[k].email)
<1>1. PICK t : t = Imported(q) /\ clients' = t
  OBVIOUS
<1>2. k \in DOMAIN t \ DOMAIN clients
  BY <1>1
<1>3. k - serial \in 1..Len(New(q)) /\ t[k] = Registered(ComesFrom(q, k))
  BY <1>1, <1>2, ImportedFact
<1>4. PICK n \in 1..Len(New(q)) : n = k - serial
  BY <1>3
<1>5. PICK r \in Valid(q.read) : r = New(q)[n]
  BY RowsOfAReading
<1>6. ComesFrom(q, k) = q.read[r] /\ r \in Usable(q.read)
  BY <1>4, <1>5, RowsOfAReading DEF ComesFrom
<1>7. PICK c : c = Registered(q.read[r])
  OBVIOUS
<1>8. clients'[k] = c
  BY <1>1, <1>3, <1>6, <1>7
<1>9. PICK columns : columns = ColumnsOf(q.read[r])
  OBVIOUS
<1>10. /\ c.identifier = q.read[r].cedula /\ c.source = "sifac"
       /\ c.first_name = columns.first_name /\ c.last_name = columns.last_name
       /\ c.phone = columns.phone /\ c.email = columns.email
  BY <1>7, <1>9, RegisteredFact
<1>11. /\ columns.first_name \o columns.last_name = q.read[r].name
       /\ is_company_ruc(Numbers[q.read[r].cedula]) => columns.last_name = <<>>
       /\ CanBeReached("phone", columns.phone) /\ CanBeReached("email", columns.email)
  BY <1>6, <1>9, TextFact
<1>12. q.read[r].cedula \in Holding
  BY <1>6 DEF Usable
<1>13. QED
  BY <1>6, <1>8, <1>10, <1>11, <1>12

\* What a sync writes can be called or written to.
LEMMA WhatIsWrittenReaches ==
    ASSUME ClientsInv, NEW q, ReadingStands(q), clients' = Imported(q),
           NEW k \in DOMAIN clients', NEW f \in {"phone", "email"}
    PROVE  \/ k \in DOMAIN clients /\ clients'[k][f] = clients[k][f]
           \/ CanBeReached(f, clients'[k][f])
<1>1. CASE k \notin DOMAIN clients
  BY <1>1, TheNewComeFromTheList
<1>2. CASE k \in DOMAIN clients
  <2>1. PICK t : t = Imported(q) /\ clients' = t
    OBVIOUS
  <2>2. PICK c : c = Rewritten(q, k)
    OBVIOUS
  <2>3. clients'[k] = c
    BY <1>2, <2>1, <2>2, ImportedFact
  <2>4. f \in Fields
    BY FieldsFact
  <2>5. CASE f \notin Written(q, k)
    BY <1>2, <2>2, <2>3, <2>4, <2>5, RewrittenFact
  <2>6. CASE f \in Written(q, k)
    <3>1. PICK r \in RowsFor(q, k) : c[f] = ColumnsOf(q.read[r])[f]
      BY <1>2, <2>2, <2>4, <2>6, RewrittenFact
    <3>2. r \in Usable(q.read)
      BY OneRowAClient, RowsOfAReading
    <3>3. PICK columns : columns = ColumnsOf(q.read[r])
      OBVIOUS
    <3>4. CanBeReached("phone", columns.phone) /\ CanBeReached("email", columns.email)
      BY <3>2, <3>3, TextFact
    <3>5. QED
      BY <2>3, <3>1, <3>3, <3>4
  <2>7. QED
    BY <2>5, <2>6
<1>3. QED
  BY <1>1, <1>2

\* The invariant holds throughout.
THEOREM ClientsSafe == ClientsSpec => []ClientsInv
<1>1. ClientsInit => ClientsInv
  <2> SUFFICES ASSUME ClientsInit PROVE ClientsInv
    OBVIOUS
  <2>1. PICK id \in Identifiers, phone \in Phones : clients = <<Legacy(id, phone)>>
    BY DEF ClientsInit
  <2>2. IsRow(Legacy(id, phone))
    BY ModelFact DEF Legacy
  <2>3. TableHolds(clients, 1)
    BY <2>1, <2>2 DEF TableHolds, Unique
  <2>4. Importing = {}
    BY DEF ClientsInit, Importing
  <2>5. QED
    BY <2>3, <2>4 DEF ClientsInit, ClientsInv
<1>2. QED
  BY <1>1, ClientsStep, PTL DEF ClientsSpec

\* What a sync commits is the vendor's word where it has one and the office's where it
\* has none, for any lists, numbers and importers, whatever the office and the other
\* syncs write meanwhile.
THEOREM TheClientsFollow == ClientsSpec => ClientsFollowTheVendor
<1>1. ASSUME ClientsInv, [ClientsNext]_clientVars, NEW s \in Importing,
             import'[s] = NotImporting, clients' # clients
      PROVE  ImportedFaithfully(import[s])
  <2> DEFINE q == import[s]
  <2>1. ReadingStands(q) /\ s \in Importers /\ import = [z \in Importers |-> import[z]]
    BY <1>1 DEF ClientsInv, Importing
  <2>2. ASSUME NEW z, z = Noticed(s) PROVE z # NotImporting
    <3>1. z = [read |-> q.read, loaded |-> q.loaded, touched |-> q.touched \union Differing]
      BY <2>1, <2>2 DEF Noticed, ReadingStands
    <3>2. z.read = q.read /\ DOMAIN q.read # {}
      BY <2>1, <3>1 DEF ReadingStands
    <3>3. QED
      BY <3>2 DEF NotImporting
  <2>3. ASSUME NEW table, Writes(table) PROVE FALSE
    <3>1. import'[s] = Noticed(s)
      BY <1>1, <2>1, <2>3 DEF Writes
    <3>2. QED
      BY <1>1, <2>2, <3>1
  <2>4. CommitImport(s)
    <3>1. ASSUME NEW z \in Importers, CommitImport(z) PROVE z = s
      <4>1. SUFFICES ASSUME z # s PROVE FALSE
        OBVIOUS
      <4>2. import'[s] = Noticed(s)
        BY <1>1, <2>1, <3>1, <4>1 DEF CommitImport
      <4>3. QED
        BY <1>1, <2>2, <4>2
    <3>2. ~UNCHANGED clientVars
      BY <1>1 DEF clientVars
    <3>3. \A z \in Importers : ~BeginImport(z) /\ ~RollBackImport(z)
      BY <1>1 DEF BeginImport, RollBackImport
    <3>4. \A r \in Listed, text \in DOMAIN VendorRows : ~VendorWrites(r, text)
      BY <1>1 DEF VendorWrites
    <3>5. \A id \in Identifiers, phone \in Phones : ~Register(id, phone)
      BY <2>3 DEF Register
    <3>6. ASSUME NEW k \in DOMAIN clients
          PROVE  /\ \A field, value : ~Edit(k, field, value)
                 /\ ~Delete(k) /\ ~SellTo(k)
      BY <2>3 DEF Edit, Delete, SellTo
    <3>7. QED
      BY <1>1, <3>1, <3>2, <3>3, <3>4, <3>5, <3>6 DEF ClientsNext
  <2>5. clients' = Imported(q) /\ Unique(Imported(q))
    BY <2>4 DEF CommitImport
  <2> HIDE DEF q
  <2>6. Unique(clients')
    BY <2>5
  <2>7. \A k \in DOMAIN clients :
          /\ k \in DOMAIN clients'
          /\ \A f \in {"identifier", "source", "sold"} : clients'[k][f] = clients[k][f]
          /\ \A f \in Fields : clients[k][f] # Blank[f] => clients'[k][f] # Blank[f]
          /\ (~\E r \in Usable(q.read) : k \in Matched(q, r)) => clients'[k] = clients[k]
    BY <1>1, <2>1, <2>5, NobodyLoses DEF q
  <2>8. \A r \in Usable(q.read) : Matched(q, r) \intersect q.touched = {} =>
          \E k \in DOMAIN clients', z \in Usable(q.read) :
             z <= r /\ q.read[z].cedula = q.read[r].cedula /\ ReadsAs(k, q.read[z])
    BY <1>1, <2>1, <2>5, UsableRowsRead DEF q
  <2>9. \A k \in DOMAIN clients' \ DOMAIN clients :
          /\ clients'[k].source = "sifac"
          /\ clients'[k].identifier \in Holding
          /\ \E r \in Usable(q.read) :
                /\ clients'[k].first_name \o clients'[k].last_name = q.read[r].name
                /\ is_company_ruc(Numbers[q.read[r].cedula]) => clients'[k].last_name = <<>>
    BY <1>1, <2>1, <2>5, TheNewComeFromTheList DEF q
  <2>10. \A k \in DOMAIN clients', f \in {"phone", "email"} :
          \/ k \in DOMAIN clients /\ clients'[k][f] = clients[k][f]
          \/ CanBeReached(f, clients'[k][f])
    BY <1>1, <2>1, <2>5, WhatIsWrittenReaches DEF q
  <2>11. ImportedFaithfully(q)
    BY <2>6, <2>7, <2>8, <2>9, <2>10, Zenon DEF ImportedFaithfully
  <2>12. QED
    BY <2>11 DEF q
<1>2. ClientsInv /\ [ClientsNext]_clientVars
      => [\A s \in Importing : import'[s] = NotImporting /\ clients' # clients
            => ImportedFaithfully(import[s])]_clientVars
  BY <1>1
<1>3. QED
  BY <1>2, ClientsSafe, PTL DEF ClientsSpec, ClientsFollowTheVendor

-----------------------------------------------------------------------------
(* ClientSync: the check digit *)


\* The three rules: how many digits each weighs, and by what.
LEMMA RulesFact ==
    ASSUME NEW value
    PROVE  /\ Algorithm(value) \in {Natural, Public, Private}
           /\ Natural.base = 10 /\ Public.base = 11 /\ Private.base = 11
           /\ DOMAIN Natural.coefficients = 1..9 /\ Len(Natural.coefficients) = 9
           /\ DOMAIN Public.coefficients = 1..8 /\ Len(Public.coefficients) = 8
           /\ DOMAIN Private.coefficients = 1..9 /\ Len(Private.coefficients) = 9
           /\ \A i \in 1..9 : Natural.coefficients[i] \in {1, 2}
           /\ \A i \in 1..8 : Public.coefficients[i] \in 2..7
           /\ \A i \in 1..9 : Private.coefficients[i] \in 2..7
           /\ Public # Natural /\ Private # Natural
<1>1. Algorithm(value) \in {Natural, Public, Private}
  BY DEF Algorithm
<1>2. /\ DOMAIN Natural.coefficients = 1..9 /\ Len(Natural.coefficients) = 9
      /\ \A i \in 1..9 : Natural.coefficients[i] \in {1, 2}
  BY DEF Natural
<1>3. /\ DOMAIN Public.coefficients = 1..8 /\ Len(Public.coefficients) = 8
      /\ \A i \in 1..8 : Public.coefficients[i] \in 2..7
  BY DEF Public
<1>4. /\ DOMAIN Private.coefficients = 1..9 /\ Len(Private.coefficients) = 9
      /\ \A i \in 1..9 : Private.coefficients[i] \in 2..7
  BY DEF Private
<1>5. Natural.base = 10 /\ Public.base = 11 /\ Private.base = 11
  BY DEF Natural, Public, Private
<1>6. Public # Natural /\ Private # Natural
  BY <1>5
<1>7. QED
  BY <1>1, <1>2, <1>3, <1>4, <1>5, <1>6

\* What the weight of one digit says of it.
WeighedAs(rule, i, d) ==
    IF rule = Natural THEN Folded(d * rule.coefficients[i]) ELSE d * rule.coefficients[i]

\* Two digits weigh differently, and the difference is no multiple of the base.
LEMMA WeightsTellDigits ==
    ASSUME NEW rule \in {Natural, Public, Private}, NEW i \in DOMAIN rule.coefficients,
           NEW d \in 0..9, NEW e \in 0..9, d # e
    PROVE  /\ WeighedAs(rule, i, d) \in Int /\ WeighedAs(rule, i, e) \in Int
           /\ \A n \in Int : WeighedAs(rule, i, d) # WeighedAs(rule, i, e) + rule.base * n
<1>1. CASE rule = Natural
  <2>1. rule.coefficients[i] \in {1, 2} /\ rule.base = 10
    BY <1>1, RulesFact
  <2>2. CASE rule.coefficients[i] = 1
    <3>1. WeighedAs(rule, i, d) = d /\ WeighedAs(rule, i, e) = e
      BY <1>1, <2>2 DEF WeighedAs, Folded
    <3>2. QED
      BY <2>1, <3>1
  <2>3. CASE rule.coefficients[i] = 2
    <3>1. /\ WeighedAs(rule, i, d) = (IF d < 5 THEN 2 * d ELSE 2 * d - 9)
          /\ WeighedAs(rule, i, e) = (IF e < 5 THEN 2 * e ELSE 2 * e - 9)
      BY <1>1, <2>3 DEF WeighedAs, Folded
    <3>2. QED
      BY <2>1, <3>1
  <2>4. QED
    BY <2>1, <2>2, <2>3
<1>2. CASE rule # Natural
  <2>1. rule.coefficients[i] \in 2..7 /\ rule.base = 11
    BY <1>2, RulesFact
  <2>2. ASSUME NEW k \in 2..7, rule.coefficients[i] = k
        PROVE  /\ WeighedAs(rule, i, d) = k * d /\ WeighedAs(rule, i, e) = k * e
    BY <1>2, <2>2 DEF WeighedAs
  <2>3. ASSUME NEW k \in 2..7, NEW n \in Int PROVE k * d # k * e + 11 * n
    <3>1. CASE k = 2
      BY <3>1
    <3>2. CASE k = 3
      BY <3>2
    <3>3. CASE k = 4
      BY <3>3
    <3>4. CASE k = 5
      BY <3>4
    <3>5. CASE k = 6
      BY <3>5
    <3>6. CASE k = 7
      BY <3>6
    <3>7. QED
      BY <3>1, <3>2, <3>3, <3>4, <3>5, <3>6
  <2>4. QED
    BY <2>1, <2>2, <2>3
<1>3. QED
  BY <1>1, <1>2

\* The number with one digit changed.
WithDigit(value, i, d) == [value EXCEPT ![i] = d]

\* The number reads the same but for one digit, and is judged by the same rule.
Retyped(value, other, i, d) ==
    /\ other \in Seq(0..9) /\ Len(other) = Len(value) /\ Algorithm(other) = Algorithm(value)
    /\ other[i] = d /\ \A j \in 1..Len(value) : j # i => other[j] = value[j]

\* But for the third digit, one changed leaves the rule as it is.
LEMMA RuleStays ==
    ASSUME NEW value \in Seq(0..9), Len(value) >= 10, NEW i \in 1..Len(value), i # 3, NEW d \in 0..9,
           NEW other, other = WithDigit(value, i, d)
    PROVE  Retyped(value, other, i, d)
<1>1. value \in [1..Len(value) -> 0..9] /\ Len(value) \in Nat
  OBVIOUS
<1>2. other \in [1..Len(value) -> 0..9]
  BY <1>1 DEF WithDigit
<1>3. other \in Seq(0..9) /\ Len(other) = Len(value)
  BY <1>1, <1>2
<1>4. other[i] = d /\ \A j \in 1..Len(value) : j # i => other[j] = value[j]
  BY <1>1 DEF WithDigit
<1>5. other[3] = value[3]
  BY <1>1, <1>4
<1>6. QED
  BY <1>3, <1>4, <1>5 DEF Algorithm, Retyped

\* What a number adds up to.
SumOf(value, rule) == Total(Weighted(value, rule), DOMAIN rule.coefficients)

\* A number of ten digits or more gives every coefficient its digit.
LEMMA WeightedFact ==
    ASSUME NEW value \in Seq(0..9), Len(value) >= 10, NEW rule \in {Natural, Public, Private}
    PROVE  /\ IsFiniteSet(DOMAIN rule.coefficients)
           /\ \A i \in DOMAIN rule.coefficients :
                 /\ i \in 1..Len(value) /\ i <= Len(rule.coefficients)
                 /\ Weighted(value, rule)[i] = WeighedAs(rule, i, value[i])
                 /\ Weighted(value, rule)[i] \in Int
<1>1. /\ DOMAIN rule.coefficients \in {1..8, 1..9}
      /\ DOMAIN rule.coefficients = 1..Len(rule.coefficients)
  BY RulesFact
<1>2. IsFiniteSet(1..8) /\ IsFiniteSet(1..9)
  <2>1. 1 \in Int /\ 8 \in Int /\ 9 \in Int
    OBVIOUS
  <2>2. QED
    BY <2>1, FS_Interval
<1>3. ASSUME NEW i \in DOMAIN rule.coefficients
      PROVE  /\ i \in 1..Len(value) /\ i <= Len(rule.coefficients)
             /\ Weighted(value, rule)[i] = WeighedAs(rule, i, value[i])
             /\ Weighted(value, rule)[i] \in Int
  <2>1. i \in 1..Len(value) /\ i <= Len(rule.coefficients) /\ Len(value) \in Nat
    BY <1>1
  <2>2. value[i] \in 0..9
    BY <2>1
  <2>3. Weighted(value, rule)[i] = WeighedAs(rule, i, value[i])
    BY DEF Weighted, WeighedAs
  <2>4. PICK e \in 0..9 : e # value[i]
    BY <2>2
  <2>5. QED
    BY <2>1, <2>2, <2>3, <2>4, WeightsTellDigits
<1>4. QED
  BY <1>1, <1>2, <1>3

\* One digit changed, the sums differ by no multiple of the base.
LEMMA SumsTellNumbers ==
    ASSUME NEW value \in Seq(0..9), Len(value) >= 10, NEW rule \in {Natural, Public, Private},
           NEW other \in Seq(0..9), Len(other) = Len(value),
           NEW i \in DOMAIN rule.coefficients, other[i] # value[i],
           \A j \in 1..Len(value) : j # i => other[j] = value[j]
    PROVE  /\ SumOf(value, rule) \in Int /\ SumOf(other, rule) \in Int
           /\ \A n \in Int : SumOf(other, rule) # SumOf(value, rule) + rule.base * n
<1>1. PICK f, g, S : f = Weighted(value, rule) /\ g = Weighted(other, rule)
                     /\ S = DOMAIN rule.coefficients
  OBVIOUS
<1>a. Len(other) >= 10
  OBVIOUS
<1>b. /\ IsFiniteSet(S)
      /\ \A j \in S : /\ j \in 1..Len(value)
                      /\ f[j] = WeighedAs(rule, j, value[j]) /\ f[j] \in Int
  BY <1>1, WeightedFact
<1>c. \A j \in S : g[j] = WeighedAs(rule, j, other[j]) /\ g[j] \in Int
  BY <1>1, <1>a, WeightedFact
<1>2. /\ IsFiniteSet(S) /\ i \in S
      /\ \A j \in S : f[j] \in Int /\ g[j] \in Int
      /\ \A j \in S : j # i => f[j] = g[j]
  BY <1>1, <1>b, <1>c
<1>3. /\ SumOf(value, rule) = f[i] + Total(f, S \ {i}) /\ Total(f, S) \in Int
      /\ SumOf(other, rule) = g[i] + Total(g, S \ {i}) /\ Total(g, S) \in Int
  <2>1. Total(f, S) \in Int /\ \A x \in S : Total(f, S) = f[x] + Total(f, S \ {x})
    BY <1>2, TotalSplits
  <2>2. Total(g, S) \in Int /\ \A x \in S : Total(g, S) = g[x] + Total(g, S \ {x})
    BY <1>2, TotalSplits
  <2>3. SumOf(value, rule) = Total(f, S) /\ SumOf(other, rule) = Total(g, S)
    BY <1>1 DEF SumOf
  <2>4. QED
    BY <1>2, <2>1, <2>2, <2>3
<1>4. Total(f, S \ {i}) = Total(g, S \ {i}) /\ Total(f, S \ {i}) \in Int
  <2>1. IsFiniteSet(S \ {i})
    BY <1>2, FS_Subset
  <2>2. \A j \in S \ {i} : f[j] \in Int /\ g[j] \in Int /\ f[j] <= g[j] /\ g[j] <= f[j]
    BY <1>2
  <2>3. Total(f, S \ {i}) <= Total(g, S \ {i}) /\ Total(g, S \ {i}) <= Total(f, S \ {i})
    BY <2>1, <2>2, TotalIsMonotone
  <2>4. Total(f, S \ {i}) \in Int /\ Total(g, S \ {i}) \in Int
    BY <2>1, <2>2, TotalSplits
  <2>5. QED
    BY <2>3, <2>4
<1>5. value[i] \in 0..9 /\ other[i] \in 0..9
  BY <1>1, <1>2, <1>b
<1>6. /\ f[i] \in Int /\ g[i] \in Int
      /\ \A n \in Int : g[i] # f[i] + rule.base * n
  <2>1. /\ WeighedAs(rule, i, value[i]) \in Int /\ WeighedAs(rule, i, other[i]) \in Int
        /\ \A n \in Int : WeighedAs(rule, i, other[i]) # WeighedAs(rule, i, value[i]) + rule.base * n
    BY <1>5, WeightsTellDigits
  <2>2. f[i] = WeighedAs(rule, i, value[i]) /\ g[i] = WeighedAs(rule, i, other[i])
    BY <1>2, <1>b, <1>c
  <2>3. QED
    BY <2>1, <2>2
<1>7. rule.base \in {10, 11}
  BY RulesFact
<1>8. /\ SumOf(value, rule) \in Int /\ SumOf(other, rule) \in Int
  BY <1>1, <1>3 DEF SumOf
<1>9. ASSUME NEW n \in Int, SumOf(other, rule) = SumOf(value, rule) + rule.base * n
      PROVE  FALSE
  <2>1. PICK x, y, t, b : x = f[i] /\ y = g[i] /\ t = Total(f, S \ {i}) /\ b = rule.base * n
    OBVIOUS
  <2>2. x \in Int /\ y \in Int /\ t \in Int /\ b \in Int
    BY <1>4, <1>6, <1>7, <2>1
  <2>3. y + t = x + t + b
    BY <1>3, <1>4, <1>9, <2>1
  <2>4. y = x + b
    BY <2>2, <2>3
  <2>5. QED
    BY <1>6, <2>1, <2>4
<1>10. QED
  BY <1>8, <1>9

\* The check digit tells the remainder.
LEMMA CheckDigitFact ==
    ASSUME NEW value \in Seq(0..9), Len(value) >= 10, tax_id_holds(value)
    PROVE  /\ SumOf(value, Algorithm(value)) \in Int
           /\ LET rule == Algorithm(value)
                  remainder == SumOf(value, rule) % rule.base
              IN value[CheckDigit(value)] = IF remainder = 0 THEN 0 ELSE rule.base - remainder
<1>1. PICK rule : rule = Algorithm(value) /\ rule \in {Natural, Public, Private}
  BY RulesFact
<1>2. SumOf(value, rule) \in Int
  BY <1>1, WeightedFact, TotalSplits DEF SumOf
<1>3. QED
  BY <1>1, <1>2 DEF tax_id_holds, SumOf, CheckDigit

\* A number that holds with one digit changed, but for the third, does not hold: a
\* cedula or a RUC typed wrong is refused, whatever the number and the mistake.
THEOREM MistakesAreRefused ==
    ASSUME NEW value \in Seq(0..Letter), IsNumber(value), Len(value) \in {10, 13}
    PROVE  MistypedIsRefused(value)
<1>1. value \in Seq(0..9) /\ Len(value) >= 10
  <2>1. PICK S : S = 0..Letter
    OBVIOUS
  <2>2. value \in Seq(S)
    BY <2>1
  <2>3. value = [i \in 1..Len(value) |-> value[i]] /\ Len(value) \in Nat
        /\ DOMAIN value = 1..Len(value) /\ \A i \in 1..Len(value) : value[i] \in S
    BY <2>2
  <2>4. \A i \in 1..Len(value) : value[i] \in 0..9
    BY <2>1, <2>3 DEF IsNumber, Letter
  <2>5. value \in [1..Len(value) -> 0..9]
    BY <2>3, <2>4
  <2>6. value \in Seq(0..9)
    BY <2>3, <2>5
  <2>7. PICK n : n = Len(value)
    OBVIOUS
  <2>8. n = 10 \/ n = 13
    BY <2>7
  <2>9. n >= 10
    BY <2>8
  <2>10. QED
    BY <2>6, <2>7, <2>9
<1>2. SUFFICES ASSUME NEW number \in WithCheckDigit(value), tax_id_holds(number),
                      NEW typed \in Mistyped(number), tax_id_holds(typed)
               PROVE  FALSE
  BY DEF MistypedIsRefused
<1>3. PICK rule : rule = Algorithm(value) /\ rule \in {Natural, Public, Private}
  BY RulesFact
<1>4. CheckDigit(value) = Len(rule.coefficients) + 1 /\ Len(rule.coefficients) \in {8, 9}
  BY <1>3, RulesFact DEF CheckDigit
<1>k. CheckDigit(value) \in {9, 10} /\ Len(value) \in Nat
  <2>1. PICK n : n = Len(rule.coefficients)
    OBVIOUS
  <2>2. n = 8 \/ n = 9
    BY <1>4, <2>1
  <2>3. CheckDigit(value) = n + 1
    BY <1>4, <2>1
  <2>4. CheckDigit(value) = 9 \/ CheckDigit(value) = 10
    BY <2>2, <2>3
  <2>5. Len(value) \in Nat
    BY <1>1
  <2>6. QED
    BY <2>4, <2>5
<1>5. number \in Seq(0..9) /\ Len(number) = Len(value) /\ Algorithm(number) = rule
  <2>1. PICK d \in 0..9 : number = WithDigit(value, CheckDigit(value), d)
    BY DEF WithCheckDigit, WithDigit
  <2>2. CheckDigit(value) \in 1..Len(value) /\ CheckDigit(value) # 3
    BY <1>1, <1>k
  <2>3. QED
    <3>1. value \in Seq(0..9) /\ Len(value) >= 10
      BY <1>1
    <3>2. Retyped(value, number, CheckDigit(value), d)
      BY <2>1, <2>2, <3>1, RuleStays
    <3>3. QED
      BY <1>3, <3>2 DEF Retyped
<1>6. CheckDigit(number) = CheckDigit(value)
  BY <1>3, <1>5 DEF CheckDigit
<1>7. PICK i \in 1..CheckDigit(number), d \in 0..9 :
          i # 3 /\ typed = WithDigit(number, i, d) /\ typed # number
  BY DEF Mistyped, WithDigit
<1>8. i \in 1..Len(number) /\ Len(number) >= 10
  BY <1>1, <1>5, <1>6, <1>7, <1>k
<1>9. /\ typed \in Seq(0..9) /\ Len(typed) = Len(number) /\ Algorithm(typed) = rule
      /\ typed[i] = d /\ \A j \in 1..Len(number) : j # i => typed[j] = number[j]
  <2>1. number \in Seq(0..9) /\ typed = WithDigit(number, i, d)
    BY <1>5, <1>7
  <2>2. i \in 1..Len(number) /\ i # 3 /\ Len(number) >= 10
    BY <1>7, <1>8
  <2>3. Retyped(number, typed, i, d)
    BY <2>1, <2>2, RuleStays
  <2>4. QED
    BY <1>5, <2>3 DEF Retyped
<1>10. d # number[i]
  <2>1. SUFFICES ASSUME d = number[i] PROVE FALSE
    OBVIOUS
  <2>2. number \in [1..Len(number) -> 0..9]
    BY <1>5
  <2>3. typed = number
    BY <1>7, <2>1, <2>2 DEF WithDigit
  <2>4. QED
    BY <1>7, <2>3
<1>11. CheckDigit(typed) = CheckDigit(number)
  BY <1>3, <1>5, <1>9 DEF CheckDigit
<1>12. PICK s, t, b, c, u :
          /\ s = SumOf(number, rule) /\ t = SumOf(typed, rule) /\ b = rule.base
          /\ c = number[CheckDigit(number)] /\ u = typed[CheckDigit(number)]
  OBVIOUS
<1>13. /\ s \in Int /\ t \in Int /\ b \in {10, 11}
       /\ c = IF s % b = 0 THEN 0 ELSE b - (s % b)
       /\ u = IF t % b = 0 THEN 0 ELSE b - (t % b)
  <2>1. number \in Seq(0..9) /\ Len(number) >= 10 /\ typed \in Seq(0..9) /\ Len(typed) >= 10
    BY <1>5, <1>8, <1>9
  <2>2. /\ SumOf(number, rule) \in Int
        /\ number[CheckDigit(number)] =
              IF SumOf(number, rule) % rule.base = 0 THEN 0
              ELSE rule.base - (SumOf(number, rule) % rule.base)
    BY <1>2, <1>5, <2>1, CheckDigitFact
  <2>3. /\ SumOf(typed, rule) \in Int
        /\ typed[CheckDigit(typed)] =
              IF SumOf(typed, rule) % rule.base = 0 THEN 0
              ELSE rule.base - (SumOf(typed, rule) % rule.base)
    BY <1>2, <1>9, <2>1, CheckDigitFact
  <2>4. rule.base \in {10, 11}
    BY <1>5, RulesFact
  <2>5. u = typed[CheckDigit(typed)] /\ c = number[CheckDigit(number)]
    BY <1>11, <1>12
  <2>6. s = SumOf(number, rule) /\ t = SumOf(typed, rule) /\ b = rule.base
    BY <1>12
  <2>7. QED
    BY <2>2, <2>3, <2>4, <2>5, <2>6
<1>s. s \in Int /\ t \in Int
  BY <1>13
<1>14. CASE i = CheckDigit(number)
  <2>1. u # c
    BY <1>9, <1>10, <1>12, <1>14
  <2>2. \A j \in DOMAIN rule.coefficients : j # i /\ j \in 1..Len(number)
    BY <1>3, <1>4, <1>5, <1>6, <1>8, <1>14, WeightedFact
  <2>3. s = t
    <3>1. \A j \in DOMAIN rule.coefficients :
             Weighted(typed, rule)[j] = Weighted(number, rule)[j]
      BY <1>9, <2>2 DEF Weighted
    <3>2. Weighted(typed, rule) = Weighted(number, rule)
      BY <3>1 DEF Weighted
    <3>3. QED
      BY <1>12, <3>2 DEF SumOf
  <2>4. QED
    BY <1>13, <2>1, <2>3
<1>15. CASE i # CheckDigit(number)
  <2>1. u = c
    <3>1. CheckDigit(number) \in 1..Len(number)
      BY <1>1, <1>5, <1>6, <1>k
    <3>2. QED
      BY <1>9, <1>12, <1>15, <3>1
  <2>2. i \in DOMAIN rule.coefficients
    <3>1. i \in 1..Len(rule.coefficients)
      BY <1>4, <1>6, <1>7, <1>15
    <3>2. DOMAIN rule.coefficients = 1..Len(rule.coefficients)
      BY <1>3, RulesFact
    <3>3. QED
      BY <3>1, <3>2
  <2>3. \A n \in Int : t # s + b * n
    BY <1>3, <1>5, <1>8, <1>9, <1>10, <1>12, <2>2, SumsTellNumbers
  <2>4. s % b = t % b
    BY <1>13, <2>1
  <2>5. \E n \in Int : t = s + b * n
    <3>1. CASE b = 10
      <4>1. s = 10 * (s \div 10) + (s % 10) /\ t = 10 * (t \div 10) + (t % 10)
        BY <1>s
      <4>2. t = s + 10 * (t \div 10 - s \div 10) /\ t \div 10 - s \div 10 \in Int
        BY <1>s, <2>4, <3>1, <4>1
      <4>3. QED
        BY <3>1, <4>2
    <3>2. CASE b = 11
      <4>1. s = 11 * (s \div 11) + (s % 11) /\ t = 11 * (t \div 11) + (t % 11)
        BY <1>s
      <4>2. t = s + 11 * (t \div 11 - s \div 11) /\ t \div 11 - s \div 11 \in Int
        BY <1>s, <2>4, <3>2, <4>1
      <4>3. QED
        BY <3>2, <4>2
    <3>3. QED
      BY <1>13, <3>1, <3>2
  <2>6. QED
    BY <2>3, <2>5
<1>16. QED
  BY <1>14, <1>15

-----------------------------------------------------------------------------
\* A client's number is one there is, and one that holds but for the client registered
\* before numbers were checked; the vendor and the office write as often as they may.
NumbersHold ==
    \A k \in DOMAIN clients :
        /\ clients[k].identifier \in Identifiers
        /\ k > 1 => identifier_accepted(clients[k].identifier)
TouchesCounted == touches \in 0..MaxTouches

\* Who comes with the vendor's list comes with a number that holds.
LEMMA ImportKeepsNumbers ==
    ASSUME ClientsInv, NumbersHold, NEW s \in Importers, CommitImport(s)
    PROVE  NumbersHold'
<1>1. PICK q : q = import[s]
  OBVIOUS
<1>2. ReadingStands(q) /\ clients' = Imported(q)
  BY <1>1 DEF CommitImport, ClientsInv
<1>3. ASSUME NEW k \in DOMAIN clients'
      PROVE  /\ clients'[k].identifier \in Identifiers
             /\ k > 1 => identifier_accepted(clients'[k].identifier)
  <2>1. CASE k \in DOMAIN clients
    <3>1. PICK c : c = Rewritten(q, k)
      OBVIOUS
    <3>2. c.identifier = clients[k].identifier
      BY <1>2, <2>1, <3>1, RewrittenFact
    <3>3. clients'[k] = c
      BY <1>2, <2>1, <3>1, ImportedFact
    <3>4. QED
      BY <2>1, <3>2, <3>3 DEF NumbersHold
  <2>2. CASE k \notin DOMAIN clients
    <3>1. k - serial \in 1..Len(New(q)) /\ clients'[k] = Registered(ComesFrom(q, k))
      BY <1>2, <1>3, <2>2, ImportedFact
    <3>2. PICK r : r = New(q)[k - serial]
      OBVIOUS
    <3>3. r \in Usable(q.read)
      BY <1>2, <3>1, <3>2, RowsOfAReading
    <3>4. q.read[r].cedula \in Holding
      BY <3>3 DEF Usable
    <3>5. clients'[k].identifier = q.read[r].cedula
      BY <3>1, <3>2, RegisteredFact DEF ComesFrom
    <3>6. QED
      BY <3>4, <3>5 DEF Holding, identifier_accepted
  <2>3. QED
    BY <2>1, <2>2
<1>4. QED
  BY <1>3 DEF NumbersHold

\* So does whoever the office registers or gives another number, and no step loses count.
LEMMA NumbersStep ==
    ASSUME ClientsInv, NumbersHold, TouchesCounted, [ClientsNext]_clientVars
    PROVE  NumbersHold' /\ TouchesCounted'
<1>0. MaxTouches \in Nat
  BY ClientAssumption
<1>1. ASSUME touches' = touches \/ Touch PROVE TouchesCounted'
  BY <1>0, <1>1 DEF Touch, TouchesCounted
<1>2. ASSUME clients' = clients PROVE NumbersHold'
  BY <1>2 DEF NumbersHold
<1>3. ASSUME NEW s \in Importers, BeginImport(s) \/ RollBackImport(s)
      PROVE  NumbersHold' /\ TouchesCounted'
  BY <1>1, <1>2, <1>3 DEF BeginImport, RollBackImport
<1>4. ASSUME NEW s \in Importers, CommitImport(s) PROVE NumbersHold' /\ TouchesCounted'
  BY <1>1, <1>4, ImportKeepsNumbers DEF CommitImport
<1>5. ASSUME NEW r \in Listed, NEW text \in DOMAIN VendorRows, VendorWrites(r, text)
      PROVE  NumbersHold' /\ TouchesCounted'
  BY <1>1, <1>2, <1>5 DEF VendorWrites
<1>6. ASSUME NEW id \in Identifiers, NEW phone \in Phones, Register(id, phone)
      PROVE  NumbersHold' /\ TouchesCounted'
  <2>1. PICK new : new = ClientModel(id, "dashboard", [Blank EXCEPT !.phone = phone])
    OBVIOUS
  <2>2. /\ clients' = [k \in DOMAIN clients \union {serial + 1} |->
                          IF k \in DOMAIN clients THEN clients[k] ELSE new]
        /\ Touch /\ identifier_accepted(id)
    BY <1>6, <2>1 DEF Register, Writes
  <2>3. new.identifier = id
    BY <2>1 DEF ClientModel
  <2>4. QED
    BY <1>1, <2>2, <2>3 DEF NumbersHold
<1>7. ASSUME NEW k \in DOMAIN clients, NEW field \in Columns, NEW value, Edit(k, field, value),
             field = "identifier" => value \in Identifiers
      PROVE  NumbersHold' /\ TouchesCounted'
  <2>1. PICK row : row = [clients[k] EXCEPT ![field] = value]
    OBVIOUS
  <2>2. /\ clients' = [clients EXCEPT ![k] = row] /\ Touch
        /\ field = "identifier" => identifier_accepted(value)
    BY <1>7, <2>1 DEF Edit, Writes
  <2>3. clients[k] = [f \in Columns |-> clients[k][f]] /\ "identifier" \in Columns
    BY DEF ClientsInv, TableHolds, IsRow, Columns
  <2>4. row["identifier"] = IF field = "identifier" THEN value ELSE clients[k]["identifier"]
    BY <2>1, <2>3
  <2>5. row.identifier = IF field = "identifier" THEN value ELSE clients[k].identifier
    BY <2>4
  <2>6. /\ row.identifier \in Identifiers
        /\ k > 1 => identifier_accepted(row.identifier)
    BY <1>7, <2>2, <2>5 DEF NumbersHold
  <2>7. DOMAIN clients' = DOMAIN clients /\ \A j \in DOMAIN clients :
            clients'[j] = IF j = k THEN row ELSE clients[j]
    BY <2>2
  <2>8. QED
    BY <1>1, <2>2, <2>6, <2>7 DEF NumbersHold
<1>8. ASSUME NEW k \in DOMAIN clients, Delete(k) PROVE NumbersHold' /\ TouchesCounted'
  <2>1. clients' = [j \in DOMAIN clients \ {k} |-> clients[j]] /\ Touch
    BY <1>8 DEF Delete, Writes
  <2>2. QED
    BY <1>1, <2>1 DEF NumbersHold
<1>9. ASSUME NEW k \in DOMAIN clients, SellTo(k) PROVE NumbersHold' /\ TouchesCounted'
  <2>1. PICK row : row = [clients[k] EXCEPT !.sold = TRUE]
    OBVIOUS
  <2>2. clients' = [clients EXCEPT ![k] = row] /\ Touch
    BY <1>9, <2>1 DEF SellTo, Writes
  <2>3. row.identifier = clients[k].identifier
    BY <2>1
  <2>4. DOMAIN clients' = DOMAIN clients /\ \A j \in DOMAIN clients :
            clients'[j] = IF j = k THEN row ELSE clients[j]
    BY <2>2
  <2>5. QED
    BY <1>1, <2>2, <2>3, <2>4 DEF NumbersHold
<1>10. ASSUME NEW k \in DOMAIN clients,
              \/ \E id \in Identifiers : Edit(k, "identifier", id)
              \/ \E phone \in Phones \union {<<>>} : Edit(k, "phone", phone)
              \/ \E mail \in Mails \union {""} : Edit(k, "email", mail)
       PROVE  NumbersHold' /\ TouchesCounted'
  <2>1. "identifier" \in Columns /\ "phone" \in Columns /\ "email" \in Columns
    BY FieldsFact DEF Columns
  <2>2. QED
    BY <1>7, <1>10, <2>1
<1>11. CASE UNCHANGED clientVars
  BY <1>1, <1>2, <1>11 DEF clientVars
<1>12. QED
  BY <1>3, <1>4, <1>5, <1>6, <1>8, <1>9, <1>10, <1>11 DEF ClientsNext

\* The table of clients keeps its shape, each number once and one that holds, and no
\* number with a digit typed wrong is taken for another.
THEOREM ClientsTypeCorrect == ClientsSpec => []ClientsTyped
<1>1. ClientsInit => NumbersHold /\ TouchesCounted
  <2> SUFFICES ASSUME ClientsInit PROVE NumbersHold /\ TouchesCounted
    OBVIOUS
  <2>1. PICK id \in Identifiers, phone \in Phones : clients = <<Legacy(id, phone)>>
    BY DEF ClientsInit
  <2>2. DOMAIN clients = {1} /\ clients[1] = Legacy(id, phone)
    BY <2>1
  <2>3. clients[1].identifier = id
    BY <2>2 DEF Legacy, ClientModel
  <2>4. QED
    BY <2>2, <2>3, ClientAssumption DEF NumbersHold, TouchesCounted, ClientsInit
<1>2. ClientsInv /\ NumbersHold /\ TouchesCounted /\ [ClientsNext]_clientVars
      => NumbersHold' /\ TouchesCounted'
  BY NumbersStep
<1>3. ClientsInv /\ NumbersHold /\ TouchesCounted => ClientsTyped
  <2> SUFFICES ASSUME ClientsInv, NumbersHold, TouchesCounted PROVE ClientsTyped
    OBVIOUS
  <2>1. /\ mcliente \in [Listed -> DOMAIN VendorRows] /\ TableHolds(clients, serial)
        /\ DOMAIN import = Importers
    BY DEF ClientsInv
  <2>2. \A id \in Identifiers : Numbers[id] \in Seq(0..Letter)
    <3>1. PICK S : S = Seq(0..Letter)
      OBVIOUS
    <3>2. Numbers \in Seq(S)
      BY <3>1, ClientAssumption
    <3>3. QED
      BY <3>1, <3>2 DEF Identifiers
  <2>3. ASSUME NEW id \in Identifiers, IsNumber(Numbers[id]), Len(Numbers[id]) \in {10, 13}
        PROVE  MistypedIsRefused(Numbers[id])
    BY <2>2, <2>3, MistakesAreRefused
  <2>4. QED
    BY <2>1, <2>3 DEF ClientsTyped, TableHolds, NumbersHold, TouchesCounted
<1>4. QED
  BY <1>1, <1>2, <1>3, ClientsSafe, PTL DEF ClientsSpec

-----------------------------------------------------------------------------
(* PrintQueue: the jobs and the PCs that poll for them *)

\* The PCs that have a job in hand.
Carrying == {"locking", "holding", "printed", "jammed", "saving done", "saving error"}

\* What is in hand was enqueued; a locked row waits and is about to be handed out once
\* more; what was handed out is one of the deliveries counted.
HandsAgree ==
    /\ \A a \in Agents :
          /\ pc[a] \in Carrying => work[a] # None
          /\ work[a] # None => status[work[a]] \notin {"none", "orphan"}
          /\ pc[a] = "locking" =>
                status[work[a]] = "pending" /\ claim[a] = attempts[work[a]] + 1
          /\ pc[a] # "locking" /\ work[a] # None => claim[a] <= attempts[work[a]]
    /\ \A a, b \in Agents :
          a # b /\ pc[a] = "locking" /\ pc[b] = "locking" => work[a] # work[b]

\* Only files of jobs past their time are aged or about to be unlinked, and a job not
\* yet enqueued is in nobody's name.
FilesAgree ==
    /\ \A j \in Jobs : file[j] = "aged" => lapsed[j]
    /\ \A a \in Agents : \A j \in drop[a] : lapsed[j]
    /\ \A j \in Jobs : status[j] = "none" => agent[j] = None

\* The inductive invariant.
PrintInv ==
    TypeOK /\ HandsAgree /\ FilesAgree /\ OneAgentPerDelivery /\ DeliverableHasItsPayload

-----------------------------------------------------------------------------
\* What a locked row is.
LEMMA LockedFact ==
    ASSUME PrintInv, NEW a \in Agents, pc[a] = "locking"
    PROVE  /\ work[a] \in Jobs /\ work[a] \in Locked
           /\ status[work[a]] = "pending" /\ agent[work[a]] = None
           /\ claim[a] = attempts[work[a]] + 1
           /\ \A b \in Agents : work[b] = work[a] /\ b # a => pc[b] # "locking"
  BY DEF PrintInv, TypeOK, HandsAgree, Locked, Carrying

\* The row a PC has in hand is a job that was enqueued.
LEMMA CarryingFact ==
    ASSUME PrintInv, NEW a \in Agents, pc[a] \in Carrying
    PROVE  work[a] \in Jobs /\ status[work[a]] \notin {"none", "orphan"}
  BY DEF PrintInv, TypeOK, HandsAgree

\* None names no agent, no job and no branch.
LEMMA NoneFact == None \notin Agents /\ None \notin Jobs /\ None \notin Branches
  BY PrintAssumption

\* What the PCs are at, and what they have in hand, keep their domains ...
SeatTyped ==
    /\ pc \in [Agents -> Places] /\ work \in [Agents -> Jobs \cup {None}]
    /\ claim \in [Agents -> 0..MaxAttempts] /\ drop \in [Agents -> SUBSET Jobs]

\* ... when a delivery is counted,
LEMMA ClaimType ==
    ASSUME claim \in [Agents -> 0..MaxAttempts], NEW a, NEW n \in 0..MaxAttempts,
           claim' = [claim EXCEPT ![a] = n]
    PROVE  claim' \in [Agents -> 0..MaxAttempts]
  OBVIOUS

\* and when one of them is done with it.
LEMMA IdleType == ASSUME SeatTyped, NEW a \in Agents, Idle(a) PROVE SeatTyped'
<1>1. claim' \in [Agents -> 0..MaxAttempts]
  BY ClaimType, PrintAssumption DEF SeatTyped, Idle
<1>2. QED
  BY <1>1 DEF SeatTyped, Idle, Goto, Places

\* A step that writes no row keeps the rest as it keeps the seats.
LEMMA SeatsOnly ==
    ASSUME TypeOK, SeatTyped', UNCHANGED <<jobRow, file, active>>
    PROVE  TypeOK'
  BY DEF TypeOK, SeatTyped, jobRow

-----------------------------------------------------------------------------
\* Every step keeps every column in its domain, and a waiting job in nobody's name.
LEMMA TypeStep == PrintInv /\ [Next]_vars => TypeOK'
<1> SUFFICES ASSUME PrintInv, [Next]_vars PROVE TypeOK'
  OBVIOUS
<1>0. TypeOK /\ SeatTyped /\ FilesAgree
  BY DEF PrintInv, TypeOK, SeatTyped
<1> USE NoneFact, PrintAssumption DEF Goto, Open, Closed, Places, jobRow, seat
<1>1. ASSUME NEW j \in Jobs, NEW b \in Branches, Enqueue(j, b) PROVE TypeOK'
  <2>1. PICK s \in {"pending", "orphan"} : status' = [status EXCEPT ![j] = s]
    BY <1>1 DEF Enqueue
  <2>2. /\ branch' = [branch EXCEPT ![j] = b] /\ file' = [file EXCEPT ![j] = "fresh"]
        /\ status[j] = "none" /\ UNCHANGED <<agent, attempts, lapsed, overdue, active>>
    BY <1>1 DEF Enqueue
  <2>3. SeatTyped'
    BY <1>0, <1>1 DEF Enqueue, SeatTyped
  <2>4. /\ status' \in [Jobs -> {"none", "orphan"} \cup Open \cup Closed]
        /\ branch' \in [Jobs -> Branches \cup {None}]
        /\ file' \in [Jobs -> {"none", "fresh", "aged"}]
    BY <1>0, <2>1, <2>2 DEF TypeOK
  <2>5. \A k \in Jobs : /\ status'[k] = "pending" => agent'[k] = None
                        /\ status'[k] = "sent" => agent'[k] # None
    BY <1>0, <2>1, <2>2 DEF TypeOK, FilesAgree
  <2>6. QED
    BY <1>0, <2>2, <2>3, <2>4, <2>5 DEF TypeOK, SeatTyped
<1>2. ASSUME NEW j \in Jobs, Lapse(j) \/ TimeOut(j) \/ Age(j) PROVE TypeOK'
  <2>1. CASE Lapse(j)
    BY <1>0, <2>1 DEF Lapse, TypeOK
  <2>2. CASE TimeOut(j)
    BY <1>0, <2>2 DEF TimeOut, TypeOK
  <2>3. CASE Age(j)
    BY <1>0, <2>3 DEF Age, TypeOK
  <2>4. QED
    BY <1>2, <2>1, <2>2, <2>3
<1>3. ASSUME NEW a \in Agents, Poll(a) PROVE TypeOK'
  BY <1>0, <1>3 DEF Poll, TypeOK, Expiring, TimedOut
<1>4. ASSUME NEW a \in Agents, SweepFiles(a) PROVE TypeOK'
  BY <1>0, <1>4 DEF SweepFiles, TypeOK
<1>5. ASSUME NEW a \in Agents, Lock(a) PROVE TypeOK'
  <2>1. PICK j \in Claimable(a) : work' = [work EXCEPT ![a] = j]
                               /\ claim' = [claim EXCEPT ![a] = attempts[j] + 1]
    BY <1>5 DEF Lock
  <2>2. j \in Jobs /\ attempts[j] + 1 \in 0..MaxAttempts
    <3>1. j \in Jobs /\ attempts[j] < MaxAttempts
      BY <2>1 DEF Claimable
    <3>2. attempts[j] \in 0..MaxAttempts
      BY <1>0, <3>1 DEF TypeOK
    <3>3. QED
      BY <3>1, <3>2
  <2>3. claim' \in [Agents -> 0..MaxAttempts]
    BY <1>0, <2>1, <2>2, ClaimType DEF SeatTyped
  <2>4. pc' = [pc EXCEPT ![a] = "locking"] /\ UNCHANGED <<jobRow, file, active, drop>>
    BY <1>5 DEF Lock
  <2>5. SeatTyped'
    BY <1>0, <2>1, <2>2, <2>3, <2>4 DEF SeatTyped
  <2>6. QED
    BY <1>0, <2>4, <2>5, SeatsOnly
<1>6. ASSUME NEW a \in Agents, CommitClaim(a) PROVE TypeOK'
  <2>1. work[a] \in Jobs
    BY <1>6, LockedFact DEF CommitClaim
  <2>2. SeatTyped'
    <3>1. CASE Idle(a)
      BY <1>0, <3>1, IdleType
    <3>2. CASE Goto(a, "holding") /\ UNCHANGED <<work, claim, drop>>
      BY <1>0, <3>2 DEF SeatTyped
    <3>3. QED
      BY <1>6, <3>1, <3>2 DEF CommitClaim
  <2>3. /\ status' = [status EXCEPT ![work[a]] = "sent"]
        /\ agent' = [agent EXCEPT ![work[a]] = a]
        /\ attempts' = [attempts EXCEPT ![work[a]] = claim[a]]
        /\ overdue' = [overdue EXCEPT ![work[a]] = FALSE]
        /\ UNCHANGED <<branch, lapsed, file, active>>
    BY <1>6 DEF CommitClaim
  <2>4. QED
    BY <1>0, <2>1, <2>2, <2>3 DEF TypeOK, SeatTyped
<1>7. ASSUME NEW a \in Agents, AckWrite(a) PROVE TypeOK'
  <2>1. work[a] \in Jobs
    BY <1>7, CarryingFact DEF AckWrite, Carrying
  <2>2. SeatTyped'
    <3>1. CASE Idle(a)
      BY <1>0, <3>1, IdleType
    <3>2. CASE (Goto(a, "printed") \/ Goto(a, "jammed")) /\ UNCHANGED <<work, claim, drop>>
      BY <1>0, <3>2 DEF SeatTyped
    <3>3. QED
      BY <1>7, <3>1, <3>2 DEF AckWrite
  <2>3. PICK f \in {"none", file[work[a]]}, s \in {"done", "error"} :
           /\ status' = [status EXCEPT ![work[a]] = s]
           /\ file' = [file EXCEPT ![work[a]] = f]
    BY <1>7 DEF AckWrite
  <2>4. UNCHANGED <<branch, agent, attempts, lapsed, overdue, active>>
    BY <1>7 DEF AckWrite
  <2>5. QED
    BY <1>0, <2>1, <2>2, <2>3, <2>4 DEF TypeOK, SeatTyped
<1>8. ASSUME NEW a \in Agents, NothingToPrint(a) \/ Fail(a) PROVE TypeOK'
  <2>1. Idle(a) /\ UNCHANGED <<jobRow, file, active>>
    BY <1>8 DEF NothingToPrint, Fail
  <2>2. QED
    BY <1>0, <2>1, IdleType, SeatsOnly
<1>9. ASSUME NEW a \in Agents, FetchAndPrint(a) PROVE TypeOK'
  <2>1. SeatTyped'
    BY <1>0, <1>9 DEF FetchAndPrint, SeatTyped
  <2>2. QED
    BY <1>0, <1>9, <2>1, SeatsOnly DEF FetchAndPrint
<1>10. ASSUME NEW a \in Agents, AckRead(a) PROVE TypeOK'
  <2>1. CASE Idle(a)
    BY <1>0, <1>10, <2>1, IdleType, SeatsOnly DEF AckRead
  <2>2. CASE ~Idle(a)
    <3>1. SeatTyped'
      BY <1>0, <1>10, <2>2 DEF AckRead, SeatTyped
    <3>2. QED
      BY <1>0, <1>10, <3>1, SeatsOnly DEF AckRead
  <2>3. QED
    BY <2>1, <2>2
<1>11. ASSUME NEW a \in Agents, SetAgentActive(a) PROVE TypeOK'
  BY <1>0, <1>11 DEF SetAgentActive, TypeOK
<1>12. CASE UNCHANGED vars
  BY <1>0, <1>12 DEF vars, TypeOK
<1>13. QED
  BY <1>1, <1>2, <1>3, <1>4, <1>5, <1>6, <1>7, <1>8, <1>9, <1>10, <1>11, <1>12
     DEF Next, Server, Shop

-----------------------------------------------------------------------------
\* Every step keeps what is in hand and what is locked agreeing with the rows.
LEMMA HandsStep == PrintInv /\ [Next]_vars => HandsAgree'
<1> SUFFICES ASSUME PrintInv, [Next]_vars PROVE HandsAgree'
  OBVIOUS
<1>0. TypeOK /\ HandsAgree
  BY DEF PrintInv
<1> USE NoneFact DEF Goto, jobRow, seat
<1>1. ASSUME NEW j \in Jobs, NEW b \in Branches, Enqueue(j, b) PROVE HandsAgree'
  BY <1>0, <1>1 DEF Enqueue, TypeOK, HandsAgree
<1>2. ASSUME NEW j \in Jobs, Lapse(j) \/ TimeOut(j) \/ Age(j) PROVE HandsAgree'
  BY <1>0, <1>2 DEF Lapse, TimeOut, Age, HandsAgree
<1>3. ASSUME NEW a \in Agents, Poll(a) PROVE HandsAgree'
  <2>1. \A j \in Jobs : /\ status[j] \notin {"none", "orphan"} => status'[j] \notin {"none", "orphan"}
                        /\ j \notin Expiring /\ status[j] = "pending" => status'[j] = "pending"
    BY <1>3 DEF Poll, TimedOut
  <2>2. \A b \in Agents : pc[b] = "locking" => work[b] \notin Expiring
    BY <1>3, LockedFact DEF Poll
  <2>3. pc' = [pc EXCEPT ![a] = "sweeping"] /\ UNCHANGED <<attempts, work, claim>>
    BY <1>3 DEF Poll
  <2>4. pc[a] # "locking"
    BY <1>3 DEF Poll
  <2>5. pc'[a] = "sweeping" /\ \A b \in Agents \ {a} : pc'[b] = pc[b]
    BY <1>0, <2>3 DEF TypeOK
  <2>6. ASSUME NEW b \in Agents
        PROVE  /\ pc'[b] \in Carrying => work[b] # None
               /\ work[b] # None => status'[work[b]] \notin {"none", "orphan"}
               /\ pc'[b] = "locking" =>
                     status'[work[b]] = "pending" /\ claim[b] = attempts[work[b]] + 1
               /\ pc'[b] # "locking" /\ work[b] # None => claim[b] <= attempts[work[b]]
    <3>1. pc'[b] \in Carrying => pc[b] \in Carrying /\ pc'[b] = pc[b]
      BY <2>5 DEF Carrying
    <3>2. pc'[b] = "locking" <=> pc[b] = "locking"
      BY <2>4, <2>5
    <3>3. work[b] # None => work[b] \in Jobs
      BY <1>0 DEF TypeOK
    <3>4. /\ pc[b] \in Carrying => work[b] # None
          /\ work[b] # None => status[work[b]] \notin {"none", "orphan"}
          /\ pc[b] = "locking" => status[work[b]] = "pending" /\ claim[b] = attempts[work[b]] + 1
          /\ pc[b] # "locking" /\ work[b] # None => claim[b] <= attempts[work[b]]
      BY <1>0 DEF HandsAgree
    <3>5. pc[b] = "locking" => work[b] # None
      BY <3>4 DEF Carrying
    <3>6. QED
      BY <2>1, <2>2, <3>1, <3>2, <3>3, <3>4, <3>5
  <2>7. \A b, d \in Agents :
           b # d /\ pc'[b] = "locking" /\ pc'[d] = "locking" => work[b] # work[d]
    BY <1>0, <2>5 DEF HandsAgree
  <2>8. QED
    BY <2>3, <2>6, <2>7 DEF HandsAgree
<1>4. ASSUME NEW a \in Agents, SweepFiles(a) PROVE HandsAgree'
  BY <1>0, <1>4 DEF SweepFiles, TypeOK, HandsAgree, Carrying
<1>5. ASSUME NEW a \in Agents, Lock(a) PROVE HandsAgree'
  <2>1. PICK j \in Claimable(a) : work' = [work EXCEPT ![a] = j]
                               /\ claim' = [claim EXCEPT ![a] = attempts[j] + 1]
    BY <1>5 DEF Lock
  <2>2. pc' = [pc EXCEPT ![a] = "locking"] /\ UNCHANGED <<status, attempts>>
    BY <1>5 DEF Lock
  <2>3. /\ j \in Jobs /\ status[j] = "pending"
        /\ \A b \in Agents : pc[b] = "locking" => work[b] # j
    BY <2>1 DEF Claimable, Locked
  <2>4. QED
    BY <1>0, <2>1, <2>2, <2>3 DEF TypeOK, HandsAgree
<1>6. ASSUME NEW a \in Agents, CommitClaim(a) PROVE HandsAgree'
  <2>1. /\ work[a] \in Jobs /\ claim[a] = attempts[work[a]] + 1
        /\ \A b \in Agents : work[b] = work[a] /\ b # a => pc[b] # "locking"
    BY <1>6, LockedFact DEF CommitClaim
  <2>2. /\ status' = [status EXCEPT ![work[a]] = "sent"]
        /\ attempts' = [attempts EXCEPT ![work[a]] = claim[a]]
        /\ pc[a] = "locking"
    BY <1>6 DEF CommitClaim
  <2>3. \A b \in Agents : claim[b] \in Nat /\ (work[b] # None => work[b] \in Jobs)
    BY <1>0, PrintAssumption DEF TypeOK
  <2>4. \A j \in Jobs : attempts[j] \in Nat /\ attempts'[j] \in Nat
                        /\ attempts[j] <= attempts'[j]
    BY <1>0, <2>1, <2>2, <2>3, PrintAssumption DEF TypeOK
  <2>5. \A b \in Agents \ {a} :
           /\ work[b] # None => status'[work[b]] \notin {"none", "orphan"}
           /\ pc[b] = "locking" => /\ status'[work[b]] = "pending"
                                  /\ claim[b] = attempts'[work[b]] + 1
           /\ pc[b] # "locking" /\ work[b] # None => claim[b] <= attempts'[work[b]]
    <3> TAKE b \in Agents \ {a}
    <3>1. CASE work[b] = work[a]
      <4>1. pc[b] # "locking" /\ claim[b] <= attempts[work[b]]
        BY <1>0, <2>1, <3>1 DEF HandsAgree
      <4>2. claim[b] <= attempts'[work[b]] /\ status'[work[b]] = "sent"
        BY <1>0, <2>1, <2>2, <2>3, <2>4, <3>1, <4>1 DEF TypeOK
      <4>3. QED
        BY <4>1, <4>2
    <3>2. CASE work[b] # work[a]
      BY <1>0, <2>2, <2>3, <3>2 DEF TypeOK, HandsAgree, Carrying
    <3>3. QED
      BY <3>1, <3>2
  <2>6. status'[work[a]] = "sent" /\ claim[a] <= attempts'[work[a]]
    BY <1>0, <2>1, <2>2, <2>3 DEF TypeOK
  <2>7. \A b \in Agents \ {a} : pc'[b] = pc[b] /\ work'[b] = work[b] /\ claim'[b] = claim[b]
    BY <1>0, <1>6 DEF CommitClaim, Idle, TypeOK
  <2>8. \/ pc'[a] = "idle" /\ work'[a] = None
        \/ pc'[a] = "holding" /\ work'[a] = work[a] /\ claim'[a] = claim[a]
    <3>1. CASE Idle(a)
      BY <1>0, <3>1 DEF Idle, TypeOK
    <3>2. CASE pc' = [pc EXCEPT ![a] = "holding"] /\ UNCHANGED <<work, claim>>
      BY <1>0, <3>2 DEF TypeOK
    <3>3. QED
      BY <1>6, <3>1, <3>2 DEF CommitClaim
  <2>9. \A b \in Agents :
           /\ pc'[b] \in Carrying => work'[b] # None
           /\ work'[b] # None => status'[work'[b]] \notin {"none", "orphan"}
           /\ pc'[b] = "locking" => /\ status'[work'[b]] = "pending"
                                   /\ claim'[b] = attempts'[work'[b]] + 1
           /\ pc'[b] # "locking" /\ work'[b] # None => claim'[b] <= attempts'[work'[b]]
    <3> TAKE b \in Agents
    <3>1. CASE b = a
      BY <2>1, <2>6, <2>8, <3>1, NoneFact DEF Carrying
    <3>2. CASE b # a
      BY <1>0, <2>5, <2>7, <3>2 DEF HandsAgree
    <3>3. QED
      BY <3>1, <3>2
  <2>10. QED
    BY <1>0, <2>7, <2>8, <2>9 DEF HandsAgree
<1>7. ASSUME NEW a \in Agents, AckWrite(a) PROVE HandsAgree'
  <2>1. work[a] \in Jobs /\ pc[a] # "locking" /\ pc[a] \in Carrying
    BY <1>7, CarryingFact DEF AckWrite, Carrying
  <2>2. \A b \in Agents : pc[b] = "locking" => work[b] # work[a]
    BY <1>7 DEF AckWrite, Locked
  <2>3. PICK s \in {"done", "error"} : status' = [status EXCEPT ![work[a]] = s]
    BY <1>7 DEF AckWrite
  <2>4. UNCHANGED attempts
    BY <1>7 DEF AckWrite
  <2>5. CASE Idle(a)
    BY <1>0, <2>1, <2>2, <2>3, <2>4, <2>5 DEF TypeOK, HandsAgree, Idle, Carrying
  <2>6. ASSUME NEW place \in {"printed", "jammed"}, pc' = [pc EXCEPT ![a] = place],
               UNCHANGED <<work, claim>>
        PROVE  HandsAgree'
    BY <1>0, <2>1, <2>2, <2>3, <2>4, <2>6 DEF TypeOK, HandsAgree, Carrying
  <2>7. QED
    BY <1>7, <2>5, <2>6 DEF AckWrite
<1>8. ASSUME NEW a \in Agents, Idle(a), UNCHANGED <<jobRow, file, active>> PROVE HandsAgree'
  BY <1>0, <1>8 DEF TypeOK, HandsAgree, Idle, Carrying
<1>9. ASSUME NEW a \in Agents, NEW place \in Carrying \ {"locking"},
             pc[a] \in Carrying \ {"locking"}, pc' = [pc EXCEPT ![a] = place],
             UNCHANGED <<jobRow, work, claim>>
      PROVE  HandsAgree'
  BY <1>0, <1>9 DEF TypeOK, HandsAgree, Carrying
<1>10. ASSUME NEW a \in Agents, NothingToPrint(a) \/ Fail(a) PROVE HandsAgree'
  BY <1>8, <1>10 DEF NothingToPrint, Fail
<1>11. ASSUME NEW a \in Agents, FetchAndPrint(a) PROVE HandsAgree'
  BY <1>9, <1>11 DEF FetchAndPrint, Carrying
<1>12. ASSUME NEW a \in Agents, AckRead(a) PROVE HandsAgree'
  BY <1>8, <1>9, <1>12 DEF AckRead, Carrying
<1>13. ASSUME NEW a \in Agents, SetAgentActive(a) PROVE HandsAgree'
  BY <1>0, <1>13 DEF SetAgentActive, HandsAgree
<1>14. CASE UNCHANGED vars
  BY <1>0, <1>14 DEF vars, HandsAgree
<1>15. QED
  BY <1>1, <1>2, <1>3, <1>4, <1>5, <1>6, <1>7, <1>10, <1>11, <1>12, <1>13, <1>14
     DEF Next, Server, Shop
-----------------------------------------------------------------------------
\* No step leaves a deliverable job without its payload.
LEMMA FilesStep == PrintInv /\ [Next]_vars => FilesAgree' /\ DeliverableHasItsPayload'
<1> SUFFICES ASSUME PrintInv, [Next]_vars
             PROVE  FilesAgree' /\ DeliverableHasItsPayload'
  OBVIOUS
<1>0. TypeOK /\ FilesAgree /\ DeliverableHasItsPayload
  BY DEF PrintInv
<1> DEFINE Kept == FilesAgree' /\ DeliverableHasItsPayload'
<1> USE NoneFact DEF Goto, Idle, Open, jobRow, seat, FilesAgree, DeliverableHasItsPayload
<1>1. ASSUME NEW j \in Jobs, NEW b \in Branches, Enqueue(j, b) PROVE Kept
  BY <1>0, <1>1 DEF Enqueue, TypeOK
<1>2. ASSUME NEW j \in Jobs, Lapse(j) \/ TimeOut(j) \/ Age(j) PROVE Kept
  BY <1>0, <1>2 DEF Lapse, TimeOut, Age, TypeOK
<1>3. ASSUME NEW a \in Agents, Poll(a) PROVE Kept
  BY <1>0, <1>3 DEF Poll, TypeOK, Expiring, TimedOut
<1>4. ASSUME NEW a \in Agents, SweepFiles(a) PROVE Kept
  <2>1. \A j \in Jobs : file'[j] = file[j] \/ (file'[j] = "none" /\ lapsed[j])
    BY <1>0, <1>4 DEF SweepFiles, TypeOK
  <2>2. drop' = [drop EXCEPT ![a] = {}] /\ UNCHANGED jobRow
    BY <1>4 DEF SweepFiles
  <2>3. QED
    BY <1>0, <2>1, <2>2 DEF TypeOK
<1>5. ASSUME NEW a \in Agents, Lock(a) PROVE Kept
  BY <1>0, <1>5 DEF Lock
<1>6. ASSUME NEW a \in Agents, CommitClaim(a) PROVE Kept
  <2>1. work[a] \in Jobs /\ status[work[a]] = "pending"
    BY <1>6, LockedFact DEF CommitClaim
  <2>2. QED
    BY <1>0, <1>6, <2>1 DEF CommitClaim, TypeOK
<1>7. ASSUME NEW a \in Agents, AckWrite(a) PROVE Kept
  <2>1. work[a] \in Jobs /\ status[work[a]] \notin {"none", "orphan"}
    BY <1>7, CarryingFact DEF AckWrite, Carrying
  <2>2. PICK f \in {"none", file[work[a]]}, s \in {"done", "error"} :
           /\ status' = [status EXCEPT ![work[a]] = s]
           /\ file' = [file EXCEPT ![work[a]] = f]
    BY <1>7 DEF AckWrite
  <2>3. UNCHANGED <<agent, lapsed>> /\ (drop' = drop \/ drop' = [drop EXCEPT ![a] = {}])
    BY <1>7 DEF AckWrite
  <2>4. QED
    BY <1>0, <2>1, <2>2, <2>3 DEF TypeOK
<1>8. ASSUME NEW a \in Agents,
             NothingToPrint(a) \/ FetchAndPrint(a) \/ AckRead(a) \/ Fail(a)
      PROVE  Kept
  <2>1. UNCHANGED <<jobRow, file>> /\ (drop' = drop \/ drop' = [drop EXCEPT ![a] = {}])
    BY <1>8 DEF NothingToPrint, FetchAndPrint, AckRead, Fail
  <2>2. QED
    BY <1>0, <2>1 DEF TypeOK
<1>9. ASSUME NEW a \in Agents, SetAgentActive(a) PROVE Kept
  BY <1>0, <1>9 DEF SetAgentActive
<1>10. CASE UNCHANGED vars
  BY <1>0, <1>10 DEF vars
<1>11. QED
  BY <1>1, <1>2, <1>3, <1>4, <1>5, <1>6, <1>7, <1>8, <1>9, <1>10 DEF Next, Server, Shop

\* No step hands one delivery to two PCs.
LEMMA DeliveryStep == PrintInv /\ [Next]_vars => OneAgentPerDelivery'
<1> SUFFICES ASSUME PrintInv, [Next]_vars PROVE OneAgentPerDelivery'
  OBVIOUS
<1>0. TypeOK /\ HandsAgree /\ OneAgentPerDelivery
  BY DEF PrintInv
<1>1. ASSUME NEW a \in Agents, Lock(a) PROVE OneAgentPerDelivery'
  <2>1. PICK j \in Claimable(a) : work' = [work EXCEPT ![a] = j]
                               /\ claim' = [claim EXCEPT ![a] = attempts[j] + 1]
    BY <1>1 DEF Lock
  <2>2. j \in Jobs /\ attempts[j] \in Nat /\ \A b \in Agents : claim[b] \in Nat
    BY <1>0, <2>1, PrintAssumption DEF Claimable, TypeOK
  <2>3. \A b \in Agents : work[b] = j => claim[b] <= attempts[j]
    BY <1>0, <2>1, <2>2, NoneFact DEF Claimable, Locked, HandsAgree
  <2>4. \A b \in Agents : work[b] = j => claim[b] # attempts[j] + 1
    BY <2>2, <2>3
  <2>5. QED
    BY <1>0, <2>1, <2>4 DEF TypeOK, OneAgentPerDelivery
<1>2. ASSUME NEW a \in Agents, Idle(a) PROVE OneAgentPerDelivery'
  BY <1>0, <1>2 DEF Idle, TypeOK, OneAgentPerDelivery
<1>3. CASE UNCHANGED <<work, claim>>
  BY <1>0, <1>3 DEF OneAgentPerDelivery
<1>4. QED
  BY <1>1, <1>2, <1>3
     DEF Next, Server, Shop, Enqueue, Lapse, TimeOut, Age, Poll, SweepFiles, CommitClaim,
         NothingToPrint, AckWrite, FetchAndPrint, AckRead, Fail, SetAgentActive, vars, seat

-----------------------------------------------------------------------------
\* The inductive invariant holds: whatever the PCs, the office and the clock do, hands,
\* rows and files agree.
THEOREM PrintSafe == Spec => []PrintInv
<1>1. Init => PrintInv
  BY PrintAssumption, NoneFact
     DEF Init, PrintInv, TypeOK, HandsAgree, FilesAgree, OneAgentPerDelivery,
         DeliverableHasItsPayload, Open, Closed, Places, Carrying
<1>2. PrintInv /\ [Next]_vars => PrintInv'
  BY TypeStep, HandsStep, FilesStep, DeliveryStep DEF PrintInv
<1>3. QED
  BY <1>1, <1>2, PTL DEF Spec

\* Every column keeps a value of its domain, and a job that waits is in nobody's name.
THEOREM PrintTypeCorrect == Spec => []TypeOK
<1>1. PrintInv => TypeOK
  BY DEF PrintInv
<1>2. QED
  BY <1>1, PrintSafe, PTL

\* However many PCs poll, no delivery of a job is in two hands.
THEOREM DeliveriesExclusive == Spec => []OneAgentPerDelivery
<1>1. PrintInv => OneAgentPerDelivery
  BY DEF PrintInv
<1>2. QED
  BY <1>1, PrintSafe, PTL

\* However sweeps, the backstop and late acknowledgements meet, a job that may still be
\* delivered has its payload.
THEOREM PayloadsKept == Spec => []DeliverableHasItsPayload
<1>1. PrintInv => DeliverableHasItsPayload
  BY DEF PrintInv
<1>2. QED
  BY <1>1, PrintSafe, PTL

\* No step takes a reported or expired job back to the queue.
THEOREM ClosedForGood == Spec => ClosedStaysClosed
<1> DEFINE Stays == \A j \in Jobs : status[j] \in Closed => status'[j] \in Closed
<1>1. PrintInv /\ [Next]_vars => Stays
  <2> SUFFICES ASSUME PrintInv, [Next]_vars, NEW j \in Jobs, status[j] \in Closed
               PROVE  status'[j] \in Closed
    OBVIOUS
  <2>0. TypeOK
    BY DEF PrintInv
  <2> USE DEF Closed, Open, jobRow
  <2>1. ASSUME NEW i \in Jobs, NEW b \in Branches, Enqueue(i, b) PROVE status'[j] \in Closed
    BY <2>0, <2>1 DEF Enqueue, TypeOK
  <2>2. ASSUME NEW a \in Agents, Poll(a) PROVE status'[j] \in Closed
    BY <2>2 DEF Poll, Expiring, TimedOut
  <2>3. ASSUME NEW a \in Agents, CommitClaim(a) PROVE status'[j] \in Closed
    <3>1. status[work[a]] = "pending"
      BY <2>3, LockedFact DEF CommitClaim
    <3>2. QED
      BY <2>0, <2>3, <3>1 DEF CommitClaim, TypeOK
  <2>4. ASSUME NEW a \in Agents, AckWrite(a) PROVE status'[j] \in Closed
    BY <2>0, <2>4 DEF AckWrite, TypeOK
  <2>5. CASE UNCHANGED status
    BY <2>5
  <2>6. QED
    BY <2>1, <2>2, <2>3, <2>4, <2>5
       DEF Next, Server, Shop, Lapse, TimeOut, Age, SweepFiles, Lock, NothingToPrint,
           FetchAndPrint, AckRead, Fail, SetAgentActive, vars
<1>2. QED
  BY <1>1, PrintSafe, PTL DEF Spec, ClosedStaysClosed

-----------------------------------------------------------------------------
(* BackOffice: the components side by side *)

\* A step of the back office is a step of one component, and the others rest.
LEMMA OneComponentSteps ==
    [BackOfficeNext]_boVars
       => /\ [SessionsNext]_sessionVars /\ [ConsumablesNext]_consumableVars
          /\ [AttachmentsNext]_attachmentVars /\ [CatalogNext]_catalogVars
          /\ [ReportsNext]_reportVars /\ [ClientsNext]_clientVars
          /\ UNCHANGED focus
  BY DEF BackOfficeNext, boVars

\* The back office runs each of its components.
THEOREM EachComponentRuns ==
    BackOfficeSpec
       => /\ SessionsSpec /\ ConsumablesSpec /\ AttachmentsSpec
          /\ CatalogSpec /\ ReportsSpec /\ ClientsSpec
<1>1. BackOfficeInit => /\ SessionsInit /\ ConsumablesInit /\ AttachmentsInit /\ CatalogInit
                        /\ ReportsInit /\ ClientsInit
  BY DEF BackOfficeInit
<1>2. QED
  BY <1>1, OneComponentSteps, PTL
     DEF BackOfficeSpec, SessionsSpec, ConsumablesSpec, AttachmentsSpec, CatalogSpec, ReportsSpec,
         ClientsSpec

\* TypesOK: the columns, the requests under way and the counters of whichever component
\* the behaviour is about keep their domains and their bounds.
THEOREM BackOfficeTyped == BackOfficeSpec => []TypesOK
<1> DEFINE F == focus \in {"sessions", "consumables", "attachments", "catalog", "floor", "clients"}
<1>1. BackOfficeInit => F
  BY DEF BackOfficeInit
<1>2. F /\ [BackOfficeNext]_boVars => F'
  BY OneComponentSteps
<1>3. /\ F /\ SessionsTyped /\ ConsumablesTyped /\ AttachmentsTyped /\ CatalogTyped
      /\ ReportsTyped /\ ClientsTyped
      => TypesOK
  BY DEF TypesOK
<1> HIDE DEF F
<1>4. QED
  BY <1>1, <1>2, <1>3, EachComponentRuns, SessionsTypeCorrect, ConsumablesTypeCorrect,
     AttachmentsTypeCorrect, CatalogTypeCorrect, ReportsTypeCorrect, ClientsTypeCorrect, PTL
     DEF BackOfficeSpec

\* FloorFiguresAgree: the reports of the floor agree with themselves and with its rows, and
\* each blade is dealt just the work done in its life.
THEOREM FiguresDoAgree == BackOfficeSpec => []FloorFiguresAgree
<1>1. ConsumablesInv => LivesShareTheWork
  BY LivesFact DEF ConsumablesInv
<1>2. ReportsAgree /\ LivesShareTheWork => FloorFiguresAgree
  BY DEF FloorFiguresAgree
<1>3. QED
  BY <1>1, <1>2, EachComponentRuns, ReportsDoAgree, ConsumablesSafe, PTL
=============================================================================
