----------------------------- MODULE ThreadPool -----------------------------
(***************************************************************************)
(* The worker pool behind Model::predict (src/thread_pool.h and .cpp).     *)
(*                                                                         *)
(* A fixed set of workers shares one mutex and one condition variable with *)
(* the threads that call parallel_for.  A call publishes a function and a  *)
(* task count under the mutex, bumps the generation, notifies, and blocks  *)
(* until every task has been claimed and no worker is busy.                *)
(*                                                                         *)
(* Every critical section is one action: nothing else can touch the state  *)
(* between lock and unlock.  What the code does without the mutex - the    *)
(* first read of generation_, the call of notify_all, the read of fn_, the *)
(* task itself - is an action of its own, so that it interleaves.  A       *)
(* thread asleep in cv_.wait is a member of `waiting'.                     *)
(***************************************************************************)
EXTENDS Integers, FiniteSets

CONSTANTS
  Workers,     \* the threads the constructor spawns
  Clients,     \* application threads that call Model::predict
  TaskCounts,  \* the values of n_tasks a call may pass
  GenMod,      \* number of values of the generation_ counter (2^32 in C++)
  MaxCalls,    \* bound on the calls each thread makes
  NoFn         \* fn_ == nullptr

ASSUME PoolAssumption ==
  /\ IsFiniteSet(Workers)
  /\ Workers \cap Clients = {}
  /\ NoFn \notin Workers \cup Clients
  /\ TaskCounts \subseteq Int
  /\ GenMod \in Nat \ {0, 1}
  /\ MaxCalls \in Nat

Threads == Workers \cup Clients

\* The task numbers some call can hand out.
Tasks == UNION {0 .. (n - 1) : n \in TaskCounts}

VARIABLES
  fn,          \* fn_: the thread whose call's function it points to
  n_tasks,     \* n_tasks_
  next_task,   \* next_task_
  active,      \* active_
  generation,  \* generation_
  stop,        \* stop_
  waiting,     \* threads blocked in cv_.wait
  wpc,         \* where each worker is in worker_loop
  local_gen,   \* each worker's local_gen
  wtask,       \* each worker's local `task'
  wfn,         \* the call whose function each worker is running
  cpc,         \* where each thread is in parallel_for
  calln,       \* n_tasks of each thread's latest call
  ran,         \* history: how often each task of that call was completed
  calls,       \* calls made so far, for the bound MaxCalls
  opc          \* where the owner of the pool is in ~ThreadPool

shared == <<fn, n_tasks, next_task, active, generation, stop>>
worker == <<wpc, local_gen, wtask, wfn>>
caller == <<cpc, calln, calls>>
vars   == <<shared, waiting, worker, caller, ran, opc>>

-----------------------------------------------------------------------------

\* Workers that claimed a task and have not given it back.
Busy == {w \in Workers : wpc[w] \in {"claimed", "running"}}

\* Threads inside a parallel_for that has published its function.
InFlight == {t \in Threads : cpc[t] # "idle"}

\* Mutants of Drained: a caller that waits for the tasks to be claimed only, or
\* for the workers to be idle only.
AllClaimed == next_task >= n_tasks
NobodyBusy == active = 0

\* The condition a caller waits for.
Drained == active = 0 /\ next_task >= n_tasks

Init ==
  /\ fn = NoFn
  /\ n_tasks = 0
  /\ next_task = 0
  /\ active = 0
  /\ generation = 0
  /\ stop = FALSE
  /\ waiting = {}
  /\ wpc = [w \in Workers |-> "start"]
  /\ local_gen = [w \in Workers |-> 0]
  /\ wtask = [w \in Workers |-> 0]
  /\ wfn = [w \in Workers |-> NoFn]
  /\ cpc = [t \in Threads |-> "idle"]
  /\ calln = [t \in Threads |-> 0]
  /\ ran = [t \in Threads |-> [k \in Tasks |-> 0]]
  /\ calls = [t \in Threads |-> 0]
  /\ opc = "alive"

-----------------------------------------------------------------------------
(***************************************************************************)
(* worker_loop                                                             *)
(***************************************************************************)

\* int local_gen = generation_ - 1, read without the mutex: it sees the value
\* before or after a concurrent increment.
WorkerStart(w) ==
  /\ wpc[w] = "start"
  /\ wpc' = [wpc EXCEPT ![w] = "wait"]
  /\ local_gen' = [local_gen EXCEPT ![w] = (generation - 1) % GenMod]
  /\ UNCHANGED <<shared, waiting, wtask, wfn, caller, ran, opc>>

\* The wait predicate is false: release the mutex and sleep.
WorkerSleep(w) ==
  /\ wpc[w] = "wait" /\ w \notin waiting
  /\ ~stop /\ generation = local_gen[w]
  /\ waiting' = waiting \cup {w}
  /\ UNCHANGED <<shared, worker, caller, ran, opc>>

\* The wait predicate holds because of stop_: leave the loop.
WorkerExit(w) ==
  /\ wpc[w] = "wait" /\ w \notin waiting
  /\ stop
  /\ wpc' = [wpc EXCEPT ![w] = "exited"]
  /\ UNCHANGED <<shared, waiting, local_gen, wtask, wfn, caller, ran, opc>>

\* Mutants of ClaimOrWait: the loop runs once too often; the decrement is lost
\* on the way back to the wait.
ClaimOneTooMany(w, a) ==
  \/ /\ next_task <= n_tasks
     /\ wtask' = [wtask EXCEPT ![w] = next_task]
     /\ next_task' = next_task + 1
     /\ active' = a + 1
     /\ wpc' = [wpc EXCEPT ![w] = "claimed"]
  \/ /\ next_task > n_tasks
     /\ active' = a
     /\ wpc' = [wpc EXCEPT ![w] = "wait"]
     /\ UNCHANGED <<next_task, wtask>>
ClaimOrLeak(w, a) ==
  \/ /\ next_task < n_tasks
     /\ wtask' = [wtask EXCEPT ![w] = next_task]
     /\ next_task' = next_task + 1
     /\ active' = a + 1
     /\ wpc' = [wpc EXCEPT ![w] = "claimed"]
  \/ /\ next_task >= n_tasks
     /\ wpc' = [wpc EXCEPT ![w] = "wait"]
     /\ UNCHANGED <<active, next_task, wtask>>

\* The head of the inner while loop, with `a' tasks active: claim the next
\* task and unlock, or go back to the wait.
ClaimOrWait(w, a) ==
  \/ /\ next_task < n_tasks
     /\ wtask' = [wtask EXCEPT ![w] = next_task]
     /\ next_task' = next_task + 1
     /\ active' = a + 1
     /\ wpc' = [wpc EXCEPT ![w] = "claimed"]
  \/ /\ next_task >= n_tasks
     /\ active' = a
     /\ wpc' = [wpc EXCEPT ![w] = "wait"]
     /\ UNCHANGED <<next_task, wtask>>

\* A generation this worker has not seen: enter the inner loop.
WorkerWake(w) ==
  /\ wpc[w] = "wait" /\ w \notin waiting
  /\ ~stop /\ generation # local_gen[w]
  /\ local_gen' = [local_gen EXCEPT ![w] = generation]
  /\ ClaimOrWait(w, active)
  /\ UNCHANGED <<fn, n_tasks, generation, stop, waiting, wfn, caller, ran, opc>>

\* The read of fn_ and the start of the call, after the mutex was released.
WorkerRun(w) ==
  /\ wpc[w] = "claimed"
  /\ wpc' = [wpc EXCEPT ![w] = "running"]
  /\ wfn' = [wfn EXCEPT ![w] = fn]
  /\ UNCHANGED <<shared, waiting, local_gen, wtask, caller, ran, opc>>

\* The task returned: lock, --active_, wake everyone if that was the last one,
\* and evaluate the inner loop's condition again under the same lock.
WorkerFinish(w) ==
  /\ wpc[w] = "running" /\ cpc[w] = "idle"
  /\ ran' = [ran EXCEPT ![wfn[w]][wtask[w]] = @ + 1]
  /\ waiting' = IF active - 1 = 0 /\ next_task >= n_tasks THEN {} ELSE waiting
  /\ ClaimOrWait(w, active - 1)
  /\ UNCHANGED <<fn, n_tasks, generation, stop, local_gen, wfn, caller, opc>>

-----------------------------------------------------------------------------
(***************************************************************************)
(* parallel_for                                                            *)
(***************************************************************************)

\* A thread begins a call with n tasks.
Begin(t, n) ==
  /\ cpc[t] = "idle" /\ opc = "alive"
  /\ calls[t] < MaxCalls
  /\ calls' = [calls EXCEPT ![t] = @ + 1]
  /\ calln' = [calln EXCEPT ![t] = n]
  /\ ran' = [ran EXCEPT ![t] = [k \in Tasks |-> 0]]

\* if (n_tasks <= 0) return
CallEmpty(t, n) ==
  /\ n <= 0
  /\ Begin(t, n)
  /\ UNCHANGED <<shared, waiting, worker, cpc, opc>>

\* Mutant of Publish: next_task_ keeps the value the last call left.
PublishNoReset(t, n) ==
  /\ n > 0
  /\ Begin(t, n)
  /\ fn' = t
  /\ n_tasks' = n
  /\ active' = 0
  /\ generation' = (generation + 1) % GenMod
  /\ cpc' = [cpc EXCEPT ![t] = "notify"]
  /\ UNCHANGED <<next_task, stop, waiting, worker, opc>>

\* The first critical section.  It resets the counters whatever they hold.
Publish(t, n) ==
  /\ n > 0
  /\ Begin(t, n)
  /\ fn' = t
  /\ n_tasks' = n
  /\ next_task' = 0
  /\ active' = 0
  /\ generation' = (generation + 1) % GenMod
  /\ cpc' = [cpc EXCEPT ![t] = "notify"]
  /\ UNCHANGED <<stop, waiting, worker, opc>>

\* Mutant of NotifyAll: the notification is forgotten.
NotifyNobody(t) ==
  /\ cpc[t] = "notify"
  /\ cpc' = [cpc EXCEPT ![t] = "await"]
  /\ UNCHANGED <<shared, waiting, worker, calln, calls, ran, opc>>

\* cv_.notify_all(), outside the mutex.
NotifyAll(t) ==
  /\ cpc[t] = "notify"
  /\ cpc' = [cpc EXCEPT ![t] = "await"]
  /\ waiting' = {}
  /\ UNCHANGED <<shared, worker, calln, calls, ran, opc>>

AwaitSleep(t) ==
  /\ cpc[t] = "await" /\ t \notin waiting
  /\ ~Drained
  /\ waiting' = waiting \cup {t}
  /\ UNCHANGED <<shared, worker, caller, ran, opc>>

AwaitReturn(t) ==
  /\ cpc[t] = "await" /\ t \notin waiting
  /\ Drained
  /\ cpc' = [cpc EXCEPT ![t] = "idle"]
  /\ UNCHANGED <<shared, waiting, worker, calln, calls, ran, opc>>

\* std::condition_variable may wake a thread for no reason.
SpuriousWake(t) ==
  /\ t \in waiting
  /\ waiting' = waiting \ {t}
  /\ UNCHANGED <<shared, worker, caller, ran, opc>>

-----------------------------------------------------------------------------
(***************************************************************************)
(* ~ThreadPool.  The executor owns the pool and every Model and Session    *)
(* holds the executor, so no call is in flight when it runs.               *)
(***************************************************************************)

\* Mutants: the pool is destroyed under a call; its workers are not woken.
DtorStopEarly ==
  /\ opc = "alive"
  /\ opc' = "notify"
  /\ stop' = TRUE
  /\ generation' = (generation + 1) % GenMod
  /\ UNCHANGED <<fn, n_tasks, next_task, active, waiting, worker, caller, ran>>
DtorNotifyNobody ==
  /\ opc = "notify"
  /\ opc' = "join"
  /\ UNCHANGED <<shared, waiting, worker, caller, ran>>

DtorStop ==
  /\ opc = "alive" /\ InFlight = {}
  /\ opc' = "notify"
  /\ stop' = TRUE
  /\ generation' = (generation + 1) % GenMod
  /\ UNCHANGED <<fn, n_tasks, next_task, active, waiting, worker, caller, ran>>

DtorNotify ==
  /\ opc = "notify"
  /\ opc' = "join"
  /\ waiting' = {}
  /\ UNCHANGED <<shared, worker, caller, ran>>

DtorJoin ==
  /\ opc = "join"
  /\ \A w \in Workers : wpc[w] = "exited"
  /\ opc' = "gone"
  /\ UNCHANGED <<shared, waiting, worker, caller, ran>>

\* The pool is destroyed; nothing is left to do.
Gone == opc = "gone" /\ UNCHANGED vars

-----------------------------------------------------------------------------

WorkerStep(w) ==
  \/ WorkerStart(w)
  \/ WorkerSleep(w)
  \/ WorkerExit(w)
  \/ WorkerWake(w)
  \/ WorkerRun(w)
  \/ WorkerFinish(w)

\* What a thread inside parallel_for does by itself.
CallerStep(t) ==
  \/ NotifyAll(t)
  \/ AwaitSleep(t)
  \/ AwaitReturn(t)

DtorStep == DtorNotify \/ DtorJoin

Background ==
  \/ \E w \in Workers : WorkerStep(w)
  \/ \E t \in Threads : CallerStep(t)
  \/ \E t \in Threads : SpuriousWake(t)
  \/ DtorStop
  \/ DtorStep
  \/ Gone

\* One call at a time: the application predicts from one thread at a time and
\* no task calls parallel_for.
SerialCall(t, n) == InFlight = {} /\ (Publish(t, n) \/ CallEmpty(t, n))

Next ==
  \/ \E t \in Clients, n \in TaskCounts : SerialCall(t, n)
  \/ Background

\* Several application threads predict on one model: nothing in parallel_for
\* keeps the second call from publishing over the first.
ConcurrentNext ==
  \/ \E t \in Clients, n \in TaskCounts : Publish(t, n)
  \/ Background

\* The scheduler runs every thread that can take a step: a task that was
\* started returns, a notified thread gets the mutex.  Nobody has to call or
\* to destroy the pool.
Fairness ==
  /\ \A w \in Workers : WF_vars(WorkerStep(w))
  /\ \A t \in Threads : WF_vars(CallerStep(t))
  /\ WF_vars(DtorStep)

Spec           == Init /\ [][Next]_vars
FairSpec       == Spec /\ Fairness
ConcurrentSpec == Init /\ [][ConcurrentNext]_vars

-----------------------------------------------------------------------------

TypeOK ==
  /\ fn \in Threads \cup {NoFn}
  /\ n_tasks \in Int
  /\ next_task \in Nat
  /\ active \in Int
  /\ generation \in 0 .. (GenMod - 1)
  /\ stop \in BOOLEAN
  /\ waiting \subseteq Threads
  /\ wpc \in [Workers -> {"start", "wait", "claimed", "running", "exited"}]
  /\ local_gen \in [Workers -> 0 .. (GenMod - 1)]
  /\ wtask \in [Workers -> Nat]
  /\ wfn \in [Workers -> Threads \cup {NoFn}]
  /\ cpc \in [Threads -> {"idle", "notify", "await"}]
  /\ calln \in [Threads -> Int]
  /\ ran \in [Threads -> [Tasks -> Nat]]
  /\ calls \in [Threads -> Nat]
  /\ opc \in {"alive", "notify", "join", "gone"}

\* "Execute fn(task_id) for task_id in [0, n_tasks) ... Blocks until every task
\* has finished" (thread_pool.h:24-25): once a call has returned, each of its
\* tasks has been completed exactly once.
BlocksUntilDone ==
  \A t \in Threads : cpc[t] = "idle" =>
    \A k \in Tasks : ran[t][k] = (IF k < calln[t] THEN 1 ELSE 0)

\* No worker reads fn_ or runs a function after the call that owns the function
\* has returned: the std::function lives on the caller's stack.
FnAlive ==
  /\ \A w \in Workers : wpc[w] = "claimed" => fn \in InFlight
  /\ \A w \in Workers : wpc[w] = "running" => wfn[w] \in InFlight

\* active_ counts the workers that hold a task, so the waits on active_ == 0
\* mean what they say (it never goes below zero or leaks).
ActiveCounts == active = Cardinality(Busy)

\* Once ~ThreadPool has begun no worker holds or takes a task.
QuietShutdown == opc # "alive" => Busy = {}

\* Every parallel_for returns: no wake-up is lost between the unlocked
\* notify_all, the workers' last decrement and the caller's wait.
CallReturns == \A t \in Clients : cpc[t] # "idle" ~> cpc[t] = "idle"

\* The destructor's join terminates.
DtorTerminates == opc # "alive" ~> opc = "gone"

-----------------------------------------------------------------------------
(***************************************************************************)
(* The inductive invariant behind the safety properties, for Spec.         *)
(***************************************************************************)

\* Tasks some worker holds, and tasks nobody claimed yet.
held == {wtask[w] : w \in Busy}
unclaimed == {k \in Tasks : next_task <= k /\ k < n_tasks}

\* At most one call is in flight, an application thread makes it, and its
\* parameters are the ones in the shared fields.
OneCall ==
  /\ InFlight \subseteq Clients
  /\ \A t, u \in InFlight : t = u
  /\ \A t \in InFlight : fn = t /\ n_tasks = calln[t]

\* next_task_ walks over 0 .. n_tasks_, and the held tasks lie behind it.
ClaimsBehindCursor ==
  /\ next_task <= n_tasks
  /\ 0 .. (n_tasks - 1) \subseteq Tasks
  /\ \A w \in Busy : wtask[w] < next_task

\* No two workers hold the same task.
HeldOnce == \A v, w \in Busy : wtask[v] = wtask[w] => v = w

\* Without a call in flight no task is held or left.
IdleIsDrained == InFlight = {} => Busy = {} /\ next_task = n_tasks

\* A worker that runs a function runs the current one.
RunsCurrentFn == \A w \in Workers : wpc[w] = "running" => wfn[w] = fn

\* The tasks completed so far are those claimed and given back, once each.
RanOnce ==
  \A t \in Threads, k \in Tasks :
    ran[t][k] = IF t \in InFlight
                THEN IF k < next_task /\ k \notin held THEN 1 ELSE 0
                ELSE IF k < calln[t] THEN 1 ELSE 0

\* The destructor runs only when no call is in flight.
DtorAlone == opc # "alive" => InFlight = {}

IInv ==
  /\ TypeOK
  /\ OneCall
  /\ ClaimsBehindCursor
  /\ HeldOnce
  /\ ActiveCounts
  /\ IdleIsDrained
  /\ RunsCurrentFn
  /\ RanOnce
  /\ DtorAlone

-----------------------------------------------------------------------------
(***************************************************************************)
(* With one call at a time the pool implements ParallelFor.                *)
(***************************************************************************)

serving == IF InFlight = {} THEN NoFn ELSE CHOOSE t \in Threads : t \in InFlight

PF == INSTANCE ParallelFor
        WITH NoCall <- NoFn, who <- serving, todo <- unclaimed, doing <- held

\* The pool implements ParallelFor: every claim takes a task nobody took
\* before, no task of an earlier call is ever executed for a later one, and a
\* call returns only when no task is unclaimed or held.
ImplementsParallelFor == PF!PFSpec

=============================================================================
