----------------------------- MODULE PrintQueue -----------------------------
(***************************************************************************)
(* The print queue: a job is a row of print_jobs and a file of the spool.  *)
(* Shop PCs ("agents") long-poll for the next job of their branch, fetch   *)
(* its bytes, print them and report.  Every poll first sweeps the rows of  *)
(* every branch and then the files; the claim holds a row lock from its    *)
(* SELECT to its commit; an acknowledgement reads the row and writes it    *)
(* later, without a lock.  The program on the shop PC is not part of the   *)
(* repository: it may report twice, late or never.                         *)
(***************************************************************************)
EXTENDS Naturals

CONSTANTS
    Agents,       \* the registered agents
    Home,         \* Home[a], the branch of agent a
    MaxJobs,      \* BOUND: jobs enqueued
    MaxAttempts,  \* BOUND: deliveries of one job (its TTL over the timeout)
    None          \* NULL

Jobs == 1..MaxJobs
Branches == {Home[a] : a \in Agents}

ASSUME PrintAssumption ==
    /\ MaxJobs \in Nat /\ MaxAttempts \in Nat
    /\ None \notin Agents \cup Jobs \cup Branches

VARIABLES
    status,    \* print_jobs.status; "none" before, "orphan" a file with no row
    branch,    \* branch_id
    agent,     \* agent_id
    attempts,
    lapsed,    \* expires_at has passed
    overdue,   \* sent_at is older than the visibility timeout
    file,      \* the spooled payload: "none", "fresh" or past the retention
    active,    \* print_agents.is_active, and the PC holds the current token
    pc,        \* what agent a, or the server on its behalf, is doing
    work,      \* the job it does it with
    claim,     \* the attempt that job was handed to it for
    drop       \* the paths its sweep has yet to unlink

jobRow == <<status, branch, agent, attempts, lapsed, overdue>>
seat == <<pc, work, claim, drop>>
vars == <<jobRow, file, active, seat>>

Open == {"pending", "sent"}
Closed == {"done", "error", "expired"}
Locked == {work[a] : a \in {b \in Agents : pc[b] = "locking"}}

Goto(a, place) == pc' = [pc EXCEPT ![a] = place]

\* Everything agent a held in hand is gone.
Idle(a) ==
    /\ Goto(a, "idle")
    /\ work' = [work EXCEPT ![a] = None]
    /\ claim' = [claim EXCEPT ![a] = 0]
    /\ drop' = [drop EXCEPT ![a] = {}]

-----------------------------------------------------------------------------
(* Enqueueing: the payload is saved first, then the row is committed; if   *)
(* the commit fails the file stays.  A retry enqueues one more job.        *)

Enqueue(j, b) ==
    /\ status[j] = "none"
    /\ \A i \in Jobs : i < j => status[i] # "none"
    /\ \E s \in {"pending", "orphan"} : status' = [status EXCEPT ![j] = s]
    /\ branch' = [branch EXCEPT ![j] = b]
    /\ file' = [file EXCEPT ![j] = "fresh"]
    /\ UNCHANGED <<agent, attempts, lapsed, overdue, active, seat>>

(* Time.  The retention of the spool is longer than the TTL of a job.      *)

Lapse(j) ==
    /\ status[j] # "none" /\ ~lapsed[j]
    /\ lapsed' = [lapsed EXCEPT ![j] = TRUE]
    /\ UNCHANGED <<status, branch, agent, attempts, overdue, file, active, seat>>

TimeOut(j) ==
    /\ status[j] = "sent" /\ ~overdue[j]
    /\ overdue' = [overdue EXCEPT ![j] = TRUE]
    /\ UNCHANGED <<status, branch, agent, attempts, lapsed, file, active, seat>>

Age(j) ==
    /\ lapsed[j] /\ file[j] = "fresh"
    /\ file' = [file EXCEPT ![j] = "aged"]
    /\ UNCHANGED <<jobRow, active, seat>>

-----------------------------------------------------------------------------
(* The poll: the sweep of the rows, in one transaction, ...                *)

\* Mistakes: expire only what no agent ever had; requeue only what an agent
\* that was switched off left behind; requeue by the time alone.
NeverHandedOut ==
    {j \in Jobs : status[j] \in Open /\ lapsed[j] /\ attempts[j] = 0}
LeftByAnInactive ==
    {j \in Jobs : status[j] = "sent" /\ overdue[j] /\ ~active[agent[j]]}
PastTheTimeout == {j \in Jobs : overdue[j]}

Expiring == {j \in Jobs : status[j] \in Open /\ lapsed[j]}
TimedOut == {j \in Jobs : status[j] = "sent" /\ overdue[j]}

\* Mistake: the requeued rows keep the agent that had them.
PollKeepingTheAgent(a) ==
    /\ pc[a] = "idle" /\ active[a]
    /\ Expiring \cap Locked = {}
    /\ status' = [j \in Jobs |-> IF j \in Expiring THEN "expired"
                                 ELSE IF j \in TimedOut THEN "pending"
                                 ELSE status[j]]
    /\ drop' = [drop EXCEPT ![a] = Expiring]
    /\ Goto(a, "sweeping")
    /\ UNCHANGED <<branch, agent, attempts, lapsed, overdue, file, active, work,
                   claim>>

\* An UPDATE waits for the rows that a claim holds locked.
Poll(a) ==
    /\ pc[a] = "idle" /\ active[a]
    /\ Expiring \cap Locked = {}
    /\ status' = [j \in Jobs |-> IF j \in Expiring THEN "expired"
                                 ELSE IF j \in TimedOut THEN "pending"
                                 ELSE status[j]]
    /\ agent' = [j \in Jobs |-> IF j \in TimedOut \ Expiring THEN None
                                ELSE agent[j]]
    /\ drop' = [drop EXCEPT ![a] = Expiring]
    /\ Goto(a, "sweeping")
    /\ UNCHANGED <<branch, attempts, lapsed, overdue, file, active, work, claim>>

(* ... then the files of what it expired (an unlink may fail, and is then  *)
(* forgotten) and, when the throttle lets it, whatever is past retention.  *)
SweepFiles(a) ==
    /\ pc[a] = "sweeping"
    /\ \E failed \in SUBSET drop[a], backstop \in {{}, {"aged"}} :
         file' = [j \in Jobs |->
                    IF j \in drop[a] \ failed \/ file[j] \in backstop
                    THEN "none" ELSE file[j]]
    /\ drop' = [drop EXCEPT ![a] = {}]
    /\ Goto(a, "polling")
    /\ UNCHANGED <<jobRow, active, work, claim>>

-----------------------------------------------------------------------------
(* The claim: SELECT ... FOR UPDATE SKIP LOCKED, oldest first.             *)

\* Mistake: the SELECT takes no lock, so a row another claim holds is offered.
ClaimableWithoutALock(a) ==
    {j \in Jobs : /\ status[j] = "pending" /\ branch[j] = Home[a]
                  /\ attempts[j] < MaxAttempts}

Claimable(a) ==
    {j \in Jobs \ Locked : /\ status[j] = "pending" /\ branch[j] = Home[a]
                           /\ attempts[j] < MaxAttempts}

Lock(a) ==
    /\ pc[a] = "polling"
    /\ \E j \in Claimable(a) :
         /\ \A i \in Claimable(a) : j <= i
         /\ work' = [work EXCEPT ![a] = j]
         /\ claim' = [claim EXCEPT ![a] = attempts[j] + 1]
    /\ Goto(a, "locking")
    /\ UNCHANGED <<jobRow, file, active, drop>>

\* The answer may be lost on its way to the shop.
CommitClaim(a) ==
    /\ pc[a] = "locking"
    /\ status' = [status EXCEPT ![work[a]] = "sent"]
    /\ overdue' = [overdue EXCEPT ![work[a]] = FALSE]
    /\ agent' = [agent EXCEPT ![work[a]] = a]
    /\ attempts' = [attempts EXCEPT ![work[a]] = claim[a]]
    /\ UNCHANGED <<branch, lapsed, file, active>>
    /\ \/ Goto(a, "holding") /\ UNCHANGED <<work, claim, drop>>
       \/ Idle(a)

\* The deadline of the long poll: 204.
NothingToPrint(a) ==
    /\ pc[a] = "polling" /\ Claimable(a) = {}
    /\ Idle(a)
    /\ UNCHANGED <<jobRow, file, active>>

-----------------------------------------------------------------------------
(* The shop PC fetches the payload, which is checked against the branch    *)
(* only, and prints it or not; a missing file is an error as well.         *)

FetchAndPrint(a) ==
    /\ pc[a] = "holding" /\ active[a]
    /\ branch[work[a]] = Home[a]
    /\ \/ Goto(a, "printed") /\ file[work[a]] # "none"
       \/ Goto(a, "jammed")
    /\ UNCHANGED <<jobRow, file, active, work, claim, drop>>

(* The acknowledgement: the row is read, ...                               *)

\* Mistake: the payload is reclaimed whether or not the row took the result.
AckReadReclaiming(a) ==
    /\ pc[a] \in {"printed", "jammed"} /\ active[a]
    /\ branch[work[a]] = Home[a]
    /\ IF status[work[a]] = "sent"
       THEN /\ Goto(a, IF pc[a] = "printed" THEN "saving done" ELSE "saving error")
            /\ UNCHANGED <<file, work, claim, drop>>
       ELSE Idle(a) /\ file' = [file EXCEPT ![work[a]] = "none"]
    /\ UNCHANGED <<jobRow, active>>

AckRead(a) ==
    /\ pc[a] \in {"printed", "jammed"} /\ active[a]
    /\ branch[work[a]] = Home[a]
    /\ IF status[work[a]] = "sent"
       THEN /\ Goto(a, IF pc[a] = "printed" THEN "saving done" ELSE "saving error")
            /\ UNCHANGED <<work, claim, drop>>
       ELSE Idle(a)
    /\ UNCHANGED <<jobRow, file, active>>

(* ... and written by primary key, whatever it says by now; the file goes  *)
(* after the commit, or stays.  A lost answer makes the agent repeat it.   *)
AckWrite(a) ==
    /\ pc[a] \in {"saving done", "saving error"}
    /\ work[a] \notin Locked
    /\ LET printed == pc[a] = "saving done"
       IN /\ status' = [status EXCEPT ![work[a]] =
                           IF printed THEN "done" ELSE "error"]
          /\ \/ Idle(a)
             \/ /\ Goto(a, IF printed THEN "printed" ELSE "jammed")
                /\ UNCHANGED <<work, claim, drop>>
    /\ \E f \in {"none", file[work[a]]} : file' = [file EXCEPT ![work[a]] = f]
    /\ UNCHANGED <<branch, agent, attempts, lapsed, overdue, active>>

-----------------------------------------------------------------------------
(* The PC or the request is lost; a claim not committed is rolled back.    *)
Fail(a) ==
    /\ pc[a] # "idle"
    /\ Idle(a)
    /\ UNCHANGED <<jobRow, file, active>>

(* The office switches an agent off or on, or issues it another token.     *)
SetAgentActive(a) ==
    /\ active' = [active EXCEPT ![a] = ~@]
    /\ UNCHANGED <<jobRow, file, seat>>

-----------------------------------------------------------------------------
Init ==
    /\ status = [j \in Jobs |-> "none"]
    /\ branch = [j \in Jobs |-> None]
    /\ agent = [j \in Jobs |-> None]
    /\ attempts = [j \in Jobs |-> 0]
    /\ lapsed = [j \in Jobs |-> FALSE]
    /\ overdue = [j \in Jobs |-> FALSE]
    /\ file = [j \in Jobs |-> "none"]
    /\ active = [a \in Agents |-> TRUE]
    /\ pc = [a \in Agents |-> "idle"]
    /\ work = [a \in Agents |-> None]
    /\ claim = [a \in Agents |-> 0]
    /\ drop = [a \in Agents |-> {}]

Server(a) ==
    \/ Poll(a) \/ SweepFiles(a)
    \/ Lock(a) \/ CommitClaim(a) \/ NothingToPrint(a)
    \/ AckWrite(a)

Shop(a) == FetchAndPrint(a) \/ AckRead(a)

Next ==
    \/ \E j \in Jobs : \/ \E b \in Branches : Enqueue(j, b)
                       \/ Lapse(j) \/ TimeOut(j) \/ Age(j)
    \/ \E a \in Agents : Server(a) \/ Shop(a) \/ Fail(a) \/ SetAgentActive(a)

Spec == Init /\ [][Next]_vars

\* A handler runs to its end, an agent that is on goes on with what it holds and
\* polls again and again, and the minute of an unanswered delivery passes.
FairSpec ==
    /\ Spec
    /\ \A a \in Agents : WF_vars(Server(a) \/ Shop(a))
    /\ \A j \in Jobs : WF_vars(TimeOut(j))

-----------------------------------------------------------------------------
Places == {"idle", "sweeping", "polling", "locking", "holding", "printed",
           "jammed", "saving done", "saving error"}

\* The types of the state; a job that waits is in nobody's name (agent_id is
\* NULL while pending), a job that was delivered is in somebody's.
TypeOK ==
    /\ status \in [Jobs -> {"none", "orphan"} \cup Open \cup Closed]
    /\ branch \in [Jobs -> Branches \cup {None}]
    /\ agent \in [Jobs -> Agents \cup {None}]
    /\ attempts \in [Jobs -> 0..MaxAttempts]
    /\ lapsed \in [Jobs -> BOOLEAN] /\ overdue \in [Jobs -> BOOLEAN]
    /\ file \in [Jobs -> {"none", "fresh", "aged"}]
    /\ active \in [Agents -> BOOLEAN]
    /\ pc \in [Agents -> Places]
    /\ work \in [Agents -> Jobs \cup {None}]
    /\ claim \in [Agents -> 0..MaxAttempts]
    /\ drop \in [Agents -> SUBSET Jobs]
    /\ \A j \in Jobs : /\ status[j] = "pending" => agent[j] = None
                       /\ status[j] = "sent" => agent[j] # None

\* No attempt is handed out twice: two agents that hold one job hold it for two
\* deliveries, the earlier one having been requeued in between (_claim_one).
OneAgentPerDelivery ==
    \A a, b \in Agents :
        a # b /\ work[a] # None /\ work[a] = work[b] => claim[a] # claim[b]

\* A job that can still be delivered has its payload in the spool, whatever the
\* sweeps, the backstop and the late acknowledgements have removed (spool.py).
DeliverableHasItsPayload ==
    \A j \in Jobs : status[j] \in Open /\ ~lapsed[j] => file[j] # "none"

\* Once reported or expired, a job never goes back to the queue: nothing prints
\* it again but a retry, which is another job (_sweep, ack).
ClosedStaysClosed ==
    [][\A j \in Jobs : status[j] \in Closed => status'[j] \in Closed]_vars

\* A job whose TTL has passed leaves the queue, as long as some agent of some
\* branch stays on: every poll sweeps the rows of every branch (_sweep).
LapsedLeaves ==
    (\E a \in Agents : <>[]active[a]) =>
        \A j \in Jobs : (status[j] \in Open /\ lapsed[j]) ~> (status[j] \in Closed)

\* A delivery nobody reports does not stay out for ever, TTL or no TTL: it is
\* reported, expired or put back in the queue (_sweep, second UPDATE).
DeliveryComesBack ==
    (\E a \in Agents : <>[]active[a]) =>
        \A j \in Jobs : (status[j] = "sent") ~> (status[j] # "sent")

=============================================================================
