---------------------------- MODULE PoolExecutor ----------------------------
(***************************************************************************)
(* Request threads and the one process pool they share: each batch of jobs *)
(* (one per material of a quote) is submitted to the pool, and run in the   *)
(* thread itself when the pool fails. Whoever meets a failure shuts the     *)
(* pool of the moment down, which need not be the one that failed.          *)
(***************************************************************************)
EXTENDS Naturals, FiniteSets

CONSTANTS
    Threads,
    Jobs,         \* the jobs of a batch, in the order they are submitted: 1..n
    MaxExecutors, \* BOUND: executors ever built
    MaxFaults     \* BOUND: workers that die, timeouts, creations that fail

ASSUME PoolAssumption ==
    /\ Jobs \in Nat /\ Jobs >= 2
    /\ MaxExecutors \in Nat /\ MaxFaults \in Nat

VARIABLES
    current,   \* _executor: 0 is None
    pool,      \* per executor built, what became of it
    breaker,   \* whether the breaker is open
    thread,    \* per thread, its batch
    future,    \* per thread and job, what became of the submission
    faults

poolVars == <<current, pool, breaker, thread, future, faults>>

-----------------------------------------------------------------------------
Executors == 1..Cardinality({e \in 1..MaxExecutors : pool[e] # "unborn"})

JobIds == 1..Jobs

Resting == [step |-> "rest", on |-> 0, next |-> 1]

ThreadIs(t, step) == thread[t].step = step

\* What stops future.result() and is caught: _POOL_FAILURES. A cancelled future,
\* and a submission to a pool shut down, raise what is not among them.
Caught == {"broken", "late"}

GoesTo(t, step) == thread' = [thread EXCEPT ![t].step = step]

\* Every future pending on e ends in one of the outcomes.
Settle(e, outcomes) ==
    \E result \in [Threads -> outcomes] :
        future' = [t \in Threads |-> [j \in JobIds |->
            IF thread[t].on = e /\ future[t][j] = "pending" THEN result[t]
                                                           ELSE future[t][j]]]

-----------------------------------------------------------------------------
\* run_pool_jobs: with the breaker open nothing goes near the pool.
BatchArrives(t) ==
    /\ ThreadIs(t, "rest")
    /\ GoesTo(t, IF breaker THEN "inline" ELSE "get")
    /\ UNCHANGED <<current, pool, breaker, future, faults>>

\* _get_executor, under the lock.
GetExecutor(t) ==
    /\ ThreadIs(t, "get")
    /\ current # 0
    /\ thread' = [thread EXCEPT ![t] = [step |-> "submit", on |-> current, next |-> 1]]
    /\ UNCHANGED <<current, pool, breaker, future, faults>>

BuildExecutor(t) ==
    /\ ThreadIs(t, "get")
    /\ current = 0
    /\ \E e \in 1..MaxExecutors :
          /\ pool[e] = "unborn" /\ \A d \in 1..(e - 1) : pool[d] # "unborn"
          /\ pool' = [pool EXCEPT ![e] = "running"]
          /\ current' = e
          /\ thread' = [thread EXCEPT ![t] = [step |-> "submit", on |-> e, next |-> 1]]
    /\ UNCHANGED <<breaker, future, faults>>

FailToBuild(t) ==
    /\ ThreadIs(t, "get")
    /\ current = 0
    /\ faults < MaxFaults \/ Executors = 1..MaxExecutors
    /\ faults' = IF faults < MaxFaults THEN faults + 1 ELSE faults
    /\ breaker' = TRUE
    /\ GoesTo(t, "inline")
    /\ UNCHANGED <<current, pool, future>>

\* Mistake: the batch asks for the executor again, which is still the broken one.
AskedAgain(t) == "get"

GivenUp(t) == "swap"

Submit(t) ==
    LET r == thread[t] IN
    /\ ThreadIs(t, "submit")
    /\ \/ /\ pool[r.on] = "running"
          /\ future' = [future EXCEPT ![t][r.next] = "pending"]
          /\ thread' = [thread EXCEPT ![t] =
                 IF r.next < Jobs THEN [r EXCEPT !.next = @ + 1]
                                  ELSE [r EXCEPT !.step = "wait", !.next = 1]]
       \/ /\ pool[r.on] = "broken"
          /\ GoesTo(t, GivenUp(t))
          /\ UNCHANGED future
       \/ /\ pool[r.on] = "shut"
          /\ GoesTo(t, "raised")
          /\ UNCHANGED future
    /\ UNCHANGED <<current, pool, breaker, faults>>

\* A worker ends a job, with its layouts or the domain error it raised, or dies
\* and takes the pool with it.
Work(t, j) ==
    /\ future[t][j] = "pending"
    /\ pool[thread[t].on] = "running"
    /\ \E result \in {"done", "refused"} : future' = [future EXCEPT ![t][j] = result]
    /\ UNCHANGED <<current, pool, breaker, thread, faults>>

WorkerDies(e) ==
    /\ faults < MaxFaults /\ faults' = faults + 1
    /\ pool[e] = "running"
    /\ pool' = [pool EXCEPT ![e] = "broken"]
    /\ Settle(e, {"broken"})
    /\ UNCHANGED <<current, breaker, thread>>

\* The deadline of the batch passes before the next result.
Deadline(t) ==
    /\ ThreadIs(t, "wait")
    /\ faults < MaxFaults /\ faults' = faults + 1
    /\ future[t][thread[t].next] = "pending"
    /\ future' = [future EXCEPT ![t][thread[t].next] = "late"]
    /\ UNCHANGED <<current, pool, breaker, thread>>

\* future.result(), one job after the other.
Collect(t) ==
    LET r == thread[t] IN
    /\ ThreadIs(t, "wait")
    /\ \/ /\ future[t][r.next] = "done"
          /\ thread' = [thread EXCEPT ![t] =
                 IF r.next < Jobs THEN [r EXCEPT !.next = @ + 1]
                                  ELSE [r EXCEPT !.step = "answered"]]
       \/ future[t][r.next] = "refused" /\ GoesTo(t, "answered")
       \/ future[t][r.next] \in Caught /\ GoesTo(t, GivenUp(t))
       \/ future[t][r.next] = "cancelled" /\ GoesTo(t, "raised")
    /\ UNCHANGED <<current, pool, breaker, future, faults>>

\* Mistake: the pool that failed is forgotten, and its workers with it.
Forgotten(t) == 0

\* shutdown_pool_executor: the pool of the moment is taken out under the lock,
\* and the breaker cleared ...
Taken(t) == current

SwapOut(t) ==
    /\ ThreadIs(t, "swap")
    /\ current' = 0
    /\ breaker' = FALSE
    /\ thread' = [thread EXCEPT ![t] = [step |-> "kill", on |-> Taken(t), next |-> 1]]
    /\ future' = [future EXCEPT ![t] = [j \in JobIds |-> "none"]]
    /\ UNCHANGED <<pool, faults>>

\* ... and its workers are then killed: a future still pending is broken, or
\* cancelled, as the pool's own thread sees first the death or the shutdown.
Kill(t) ==
    LET e == thread[t].on IN
    /\ ThreadIs(t, "kill")
    /\ IF e = 0 THEN UNCHANGED <<pool, future>>
       ELSE /\ pool' = [pool EXCEPT ![e] = "shut"]
            /\ Settle(e, {"broken", "cancelled"})
    /\ thread' = [thread EXCEPT ![t] = [step |-> "trip", on |-> 0, next |-> 1]]
    /\ UNCHANGED <<current, breaker, faults>>

TripBreaker(t) ==
    /\ ThreadIs(t, "trip")
    /\ breaker' = TRUE
    /\ GoesTo(t, "inline")
    /\ UNCHANGED <<current, pool, future, faults>>

CoolDown ==
    /\ breaker
    /\ breaker' = FALSE
    /\ UNCHANGED <<current, pool, thread, future, faults>>

RunInline(t) ==
    /\ ThreadIs(t, "inline")
    /\ GoesTo(t, "answered")
    /\ UNCHANGED <<current, pool, breaker, future, faults>>

\* The answer goes out and the thread takes another request.
Return(t) ==
    /\ thread[t].step \in {"answered", "raised"}
    /\ thread' = [thread EXCEPT ![t] = Resting]
    /\ future' = [future EXCEPT ![t] = [j \in JobIds |-> "none"]]
    /\ UNCHANGED <<current, pool, breaker, faults>>

-----------------------------------------------------------------------------
PoolInit ==
    /\ current = 0 /\ breaker = FALSE /\ faults = 0
    /\ pool = [e \in 1..MaxExecutors |-> "unborn"]
    /\ thread = [t \in Threads |-> Resting]
    /\ future = [t \in Threads |-> [j \in JobIds |-> "none"]]

\* What the machine owes a batch: its own steps and its workers'.
Serve(t) ==
    \/ GetExecutor(t) \/ BuildExecutor(t) \/ FailToBuild(t)
    \/ Submit(t) \/ Collect(t) \/ SwapOut(t) \/ Kill(t)
    \/ TripBreaker(t) \/ RunInline(t) \/ Return(t)
    \/ \E j \in JobIds : Work(t, j)

PoolNext ==
    \/ \E t \in Threads : BatchArrives(t) \/ Serve(t) \/ Deadline(t)
    \/ \E e \in 1..MaxExecutors : WorkerDies(e)
    \/ CoolDown

PoolSpec == PoolInit /\ [][PoolNext]_poolVars /\ \A t \in Threads : WF_poolVars(Serve(t))

-----------------------------------------------------------------------------
ThreadSteps == {"rest", "get", "submit", "wait", "swap", "kill", "trip", "inline",
          "answered", "raised"}

PoolTyped ==
    /\ current \in 0..MaxExecutors
    /\ pool \in [1..MaxExecutors -> {"unborn", "running", "broken", "shut"}]
    /\ breaker \in BOOLEAN /\ faults \in 0..MaxFaults
    /\ thread \in [Threads -> [step : ThreadSteps, on : 0..MaxExecutors, next : JobIds]]
    /\ future \in [Threads -> [JobIds ->
           {"none", "pending", "done", "refused", "broken", "late", "cancelled"}]]

\* "A single max_workers is what bounds memory": at most one pool has workers,
\* and the ones a thread is about to kill. None is ever dropped with its workers
\* alive.
NoPoolIsLeaked ==
    \A e \in 1..MaxExecutors :
        pool[e] \in {"running", "broken"} =>
            e = current \/ \E t \in Threads : ThreadIs(t, "kill") /\ thread[t].on = e

\* Every batch ends, whatever fails and whoever shuts what down: with its layouts,
\* a domain error or, when another thread shut down the pool it was on, an error
\* nobody catches.
EveryBatchEnds ==
    \A t \in Threads : ThreadIs(t, "get") ~> ThreadIs(t, "rest")

=============================================================================
