---------------------------- MODULE Consumables -----------------------------
(***************************************************************************)
(* The changes of one consumable (a blade, the glue) of one branch: tablets *)
(* register them at the machine, the administrator enters forgotten ones   *)
(* and voids. register holds the branch's row lock from its read to its    *)
(* commit; void reads and commits without it. Instants are whole numbers,  *)
(* one of them the gap MIN_CHANGE_GAP; Early of them, counted in working    *)
(* hours, are EARLY_CHANGE.                                                *)
(***************************************************************************)
EXTENDS Integers, Sequences, FiniteSets, SequencesExt

CONSTANTS
    Tablets,     \* each with at most one request in flight
    Managers,    \* those in an administrator's hands
    Working,     \* the instants in working hours
    Early,       \* EARLY_CHANGE
    UndoWindow,  \* UNDO_WINDOW
    MaxChanges,  \* BOUND: changes ever registered
    LastInstant  \* BOUND: the clock

ASSUME ConsumablesAssumption ==
    /\ IsFiniteSet(Tablets) /\ Managers \subseteq Tablets /\ Working \subseteq Nat
    /\ Early \in Nat /\ UndoWindow \in Nat
    /\ MaxChanges \in Nat /\ LastInstant \in Nat

VARIABLES
    change,  \* the consumable_changes table, a change's id its index
    today,   \* the clock
    tablet   \* per tablet, the request in flight

consumableVars == <<change, today, tablet>>

-----------------------------------------------------------------------------
NoTap == [step |-> "none"]

MIN_CHANGE_GAP == 1

worked_seconds(start, end) == Cardinality(Working \intersect start..(end - 1))

InForce == {i \in DOMAIN change : ~change[i].voided}

\* _changes: by instant, then by id.
Earlier(i, j) ==
    \/ change[i].at < change[j].at
    \/ change[i].at = change[j].at /\ i < j

Latest(i) == i \in InForce /\ \A j \in InForce \ {i} : Earlier(j, i)

LastAt == {change[i].at : i \in {j \in InForce : Latest(j)}}

\* change_gate, on the last change in force if there is one.
change_gate(now) ==
    IF LastAt = {} THEN "free"
    ELSE LET last == CHOOSE at \in LastAt : TRUE IN
         IF now - last <= MIN_CHANGE_GAP THEN "blocked"
         ELSE IF worked_seconds(last, now) < Early THEN "early" ELSE "free"

can_undo(i, author, now) ==
    /\ change[i].by = author
    /\ Latest(i)
    /\ now - change[i].created <= UndoWindow

-----------------------------------------------------------------------------
\* Mistake: the registration reads without waiting for the other tablet.
NobodyWaits(p) == TRUE

\* _locked_branch: SELECT ... FOR UPDATE on the branch's row.
LockFree(p) == \A q \in Tablets : tablet[q].step # "insert"

Registering == {p \in Tablets : tablet[p].step \in {"lock", "insert"}}

ChangeRoom == Len(change) + Cardinality(Registering) < MaxChanges

\* The instant of the request is taken before it waits for the lock.
Tap(p, reason) ==
    /\ tablet[p] = NoTap /\ ChangeRoom
    /\ tablet' = [tablet EXCEPT ![p] =
           [step |-> "lock", now |-> today, at |-> today, past |-> FALSE, reason |-> reason]]
    /\ UNCHANGED <<change, today>>

\* Mistake: the instant entered is taken as it comes.
AnyInstant(at) == TRUE

NotInTheFuture(at) == at <= today

\* The administrator's change of another day: any instant but a future one; its
\* reason is optional whatever the gate, and left out here.
EnterPast(p, at) ==
    /\ tablet[p] = NoTap /\ ChangeRoom
    /\ p \in Managers
    /\ NotInTheFuture(at)
    /\ tablet' = [tablet EXCEPT ![p] =
           [step |-> "lock", now |-> today, at |-> at, past |-> TRUE, reason |-> FALSE]]
    /\ UNCHANGED <<change, today>>

Distance(n) == IF n < 0 THEN -n ELSE n

ClearOfOthers(at) == \A i \in InForce : Distance(change[i].at - at) > MIN_CHANGE_GAP

Allowed(r) ==
    IF r.past THEN ClearOfOthers(r.at)
    ELSE \/ change_gate(r.now) = "free"
         \/ change_gate(r.now) = "early" /\ r.reason

\* The lock is won: the changes in force are read and the gates judged.
LockAndJudge(p) ==
    /\ tablet[p].step = "lock"
    /\ LockFree(p)
    /\ tablet' = [tablet EXCEPT ![p] =
           IF Allowed(tablet[p]) THEN [tablet[p] EXCEPT !.step = "insert"] ELSE NoTap]
    /\ UNCHANGED <<change, today>>

CommitChange(p) ==
    LET r == tablet[p] IN
    /\ r.step = "insert"
    /\ change' = Append(change, [at |-> r.at, created |-> r.now, by |-> p, past |-> r.past,
                                 reason |-> r.reason, voided |-> FALSE])
    /\ tablet' = [tablet EXCEPT ![p] = NoTap]
    /\ UNCHANGED today

-----------------------------------------------------------------------------
\* void: one's own latest within the window, or the administrator's with a reason.
LoadVoid(p, i) ==
    /\ tablet[p] = NoTap
    /\ ~change[i].voided
    /\ can_undo(i, p, today) \/ p \in Managers
    /\ tablet' = [tablet EXCEPT ![p] = [step |-> "void", id |-> i]]
    /\ UNCHANGED <<change, today>>

CommitVoid(p) ==
    /\ tablet[p].step = "void"
    /\ change' = [change EXCEPT ![tablet[p].id].voided = TRUE]
    /\ tablet' = [tablet EXCEPT ![p] = NoTap]
    /\ UNCHANGED today

Die(p) ==
    /\ tablet[p] # NoTap
    /\ tablet' = [tablet EXCEPT ![p] = NoTap]
    /\ UNCHANGED <<change, today>>

Tick ==
    /\ today < LastInstant
    /\ today' = today + 1
    /\ UNCHANGED <<change, tablet>>

-----------------------------------------------------------------------------
\* lives: from each change in force to the next one.
Lives ==
    [k \in 1..Cardinality(InForce) |->
        CHOOSE i \in InForce : Cardinality({j \in InForce : ~Earlier(i, j)}) = k]

LifeStart(k) == change[Lives[k]].at

\* usage_by_life: bisect_right over the starts; 0 is work from before the first.
LifeOf(at) == Cardinality({k \in DOMAIN Lives : LifeStart(k) <= at})

Usage(k) == {at \in Working : at <= today /\ LifeOf(at) = k}

ConsumablesInit ==
    /\ change = <<>>
    /\ today = 0
    /\ tablet = [p \in Tablets |-> NoTap]

ConsumablesNext ==
    \/ \E p \in Tablets :
          \/ \E reason \in BOOLEAN : Tap(p, reason)
          \/ \E at \in 0..LastInstant : EnterPast(p, at)
          \/ LockAndJudge(p) \/ CommitChange(p)
          \/ \E i \in DOMAIN change : LoadVoid(p, i)
          \/ CommitVoid(p) \/ Die(p)
    \/ Tick

ConsumablesSpec == ConsumablesInit /\ [][ConsumablesNext]_consumableVars
-----------------------------------------------------------------------------
ConsumablesTyped ==
    /\ \A i \in DOMAIN change :
          /\ change[i].at \in 0..change[i].created /\ change[i].created \in 0..today
          /\ change[i].by \in Tablets
          /\ change[i].voided \in BOOLEAN /\ change[i].reason \in BOOLEAN
    /\ Len(change) <= MaxChanges /\ today \in 0..LastInstant
    /\ DOMAIN tablet = Tablets

\* "still cannot land on top of another one", and no second tap on one change:
\* the changes in force stay apart, whoever waited for the lock and whatever was
\* voided meanwhile.
KeptApart ==
    \A i, j \in InForce : i # j => Distance(change[i].at - change[j].at) > MIN_CHANGE_GAP

\* A consumable that came off early says why: a change tapped within EARLY_CHANGE of
\* one registered before it and still in force has its reason. The administrator's
\* corrections are excepted.
ShortLivesAreExplained ==
    \A i, j \in InForce :
        i < j /\ ~change[j].past
            => change[j].reason \/ worked_seconds(change[i].at, change[j].at) >= Early

\* The record of the consumables of a branch: no change twice, every early one
\* explained.
ConsumablesRecord == KeptApart /\ ShortLivesAreExplained

\* The lives share out the work: each has what was done from its change up to the
\* next one, and what came before the first is nobody's.
LivesShareTheWork ==
    \A k \in DOMAIN Lives :
        Usage(k) = {at \in Working : /\ LifeStart(k) <= at /\ at <= today
                                     /\ k < Len(Lives) => at < LifeStart(k + 1)}

=============================================================================
