-------------------------- MODULE ThreadPoolProofs --------------------------
(* Proofs about ThreadPool, for every set of workers, clients and calls. *)
EXTENDS ThreadPool, FiniteSetTheorems, TLAPS

\* The generation counter stays in its range when it wraps.
LEMMA GenRange == \A a \in Int : a % GenMod \in 0 .. (GenMod - 1)
  BY PoolAssumption

\* What a task completion leaves of the history's type.
LEMMA CountType ==
  ASSUME NEW f \in [Threads -> [Tasks -> Nat]], NEW t, NEW k
  PROVE  [f EXCEPT ![t][k] = @ + 1] \in [Threads -> [Tasks -> Nat]]
  <1> DEFINE row == [f[t] EXCEPT ![k] = @ + 1]
  <1>1. CASE t \in Threads
    <2>1. f[t] \in [Tasks -> Nat]
      BY <1>1
    <2>2. row \in [Tasks -> Nat]
      <3>1. CASE k \in Tasks
        <4>1. f[t][k] + 1 \in Nat
          BY <2>1, <3>1
        <4>2. QED
          BY <2>1, <4>1
      <3>2. CASE k \notin Tasks
        <4>1. row = f[t]
          BY <2>1, <3>2
        <4>2. QED
          BY <2>1, <4>1
      <3>3. QED
        BY <3>1, <3>2
    <2>3. [f EXCEPT ![t] = row] \in [Threads -> [Tasks -> Nat]]
      BY <2>2
    <2>4. QED
      BY <2>3
  <1>2. CASE t \notin Threads
    BY <1>2
  <1>3. QED
    BY <1>1, <1>2

\* The empty history of a call.
LEMMA ZeroType == [k \in Tasks |-> 0] \in [Tasks -> Nat]
  OBVIOUS

\* A claim, or the return to the wait, with a tasks active.
LEMMA ClaimType ==
  ASSUME TypeOK, NEW w \in Workers, NEW a \in Int, ClaimOrWait(w, a)
  PROVE  /\ next_task' \in Nat
         /\ active' \in Int
         /\ wtask' \in [Workers -> Nat]
         /\ wpc' \in [Workers -> {"start", "wait", "claimed", "running", "exited"}]
  BY DEF TypeOK, ClaimOrWait

LEMMA TypeStep == TypeOK /\ [Next]_vars => TypeOK'
  <1> SUFFICES ASSUME TypeOK, [Next]_vars PROVE TypeOK'
    OBVIOUS
  <1> USE PoolAssumption DEF TypeOK, Threads, shared, worker, caller
  <1>1. ASSUME NEW w \in Workers, WorkerStart(w) PROVE TypeOK'
    <2>1. (generation - 1) % GenMod \in 0 .. (GenMod - 1)
      BY GenRange
    <2>2. QED
      BY <1>1, <2>1 DEF WorkerStart
  <1>2. ASSUME NEW w \in Workers, WorkerSleep(w) PROVE TypeOK'
    BY <1>2 DEF WorkerSleep
  <1>3. ASSUME NEW w \in Workers, WorkerExit(w) PROVE TypeOK'
    BY <1>3 DEF WorkerExit
  <1>4. ASSUME NEW w \in Workers, WorkerWake(w) PROVE TypeOK'
    <2>1. ClaimOrWait(w, active)
      BY <1>4 DEF WorkerWake
    <2>2. QED
      BY <1>4, <2>1, ClaimType DEF WorkerWake
  <1>5. ASSUME NEW w \in Workers, WorkerRun(w) PROVE TypeOK'
    BY <1>5 DEF WorkerRun
  <1>6. ASSUME NEW w \in Workers, WorkerFinish(w) PROVE TypeOK'
    <2>1. ran' \in [Threads -> [Tasks -> Nat]]
      BY <1>6, CountType DEF WorkerFinish
    <2>2. ClaimOrWait(w, active - 1) /\ active - 1 \in Int
      BY <1>6 DEF WorkerFinish
    <2>3. waiting' \subseteq Threads
      BY <1>6 DEF WorkerFinish
    <2>4. QED
      BY <1>6, <2>1, <2>2, <2>3, ClaimType DEF WorkerFinish
  <1>7. ASSUME NEW t \in Clients, NEW n \in TaskCounts, SerialCall(t, n)
        PROVE  TypeOK'
    <2>1. CASE CallEmpty(t, n)
      BY <2>1, ZeroType DEF CallEmpty, Begin
    <2>2. CASE Publish(t, n)
      <3>1. generation' \in 0 .. (GenMod - 1)
        BY <2>2, GenRange DEF Publish
      <3>2. ran' \in [Threads -> [Tasks -> Nat]]
        BY <2>2, ZeroType DEF Publish, Begin
      <3>3. QED
        BY <2>2, <3>1, <3>2 DEF Publish, Begin
    <2>3. QED
      BY <1>7, <2>1, <2>2 DEF SerialCall
  <1>8. ASSUME NEW t \in Threads, CallerStep(t) PROVE TypeOK'
    BY <1>8 DEF CallerStep, NotifyAll, AwaitSleep, AwaitReturn
  <1>9. ASSUME NEW t \in Threads, SpuriousWake(t) PROVE TypeOK'
    BY <1>9 DEF SpuriousWake
  <1>10. CASE DtorStop
    BY <1>10, GenRange DEF DtorStop
  <1>11. CASE DtorStep
    BY <1>11 DEF DtorStep, DtorNotify, DtorJoin
  <1>12. CASE UNCHANGED vars
    BY <1>12 DEF vars
  <1>13. QED
    BY <1>1, <1>2, <1>3, <1>4, <1>5, <1>6, <1>7, <1>8, <1>9, <1>10, <1>11, <1>12
       DEF Next, Background, WorkerStep, Gone

LEMMA InitType == Init => TypeOK
  <1> SUFFICES ASSUME Init PROVE TypeOK
    OBVIOUS
  <1>1. ran \in [Threads -> [Tasks -> Nat]]
    BY ZeroType DEF Init
  <1>2. 0 \in 0 .. (GenMod - 1)
    BY PoolAssumption
  <1>3. /\ fn \in Threads \cup {NoFn}
        /\ n_tasks \in Int /\ next_task \in Nat /\ active \in Int
        /\ generation \in 0 .. (GenMod - 1)
        /\ waiting \subseteq Threads
        /\ opc \in {"alive", "notify", "join", "gone"}
    BY <1>2 DEF Init
  <1>4. stop \in BOOLEAN
    BY DEF Init
  <1>5. /\ wpc \in [Workers -> {"start", "wait", "claimed", "running", "exited"}]
        /\ local_gen \in [Workers -> 0 .. (GenMod - 1)]
        /\ wtask \in [Workers -> Nat]
        /\ wfn \in [Workers -> Threads \cup {NoFn}]
    BY <1>2 DEF Init
  <1>6. /\ cpc \in [Threads -> {"idle", "notify", "await"}]
        /\ calln \in [Threads -> Int]
        /\ calls \in [Threads -> Nat]
    BY DEF Init
  <1>7. QED
    BY <1>1, <1>3, <1>4, <1>5, <1>6 DEF TypeOK

\* Type correctness of the pool's fields and of every thread's local state.
THEOREM TypeCorrect == Spec => []TypeOK
  BY InitType, TypeStep, PTL DEF Spec

-----------------------------------------------------------------------------
(***************************************************************************)
(* The inductive invariant                                                 *)
(***************************************************************************)

\* The set of busy workers is finite, so that active_ can count it.
LEMMA BusyFinite == IsFiniteSet(Busy) /\ Cardinality(Busy) \in Nat
  <1>1. Busy \subseteq Workers
    BY DEF Busy
  <1>2. QED
    BY <1>1, PoolAssumption, FS_Subset, FS_CardinalityType

\* A step that changes neither the call in flight nor the held tasks keeps the
\* invariant: sleeping, waking, notifying, starting and exiting.
LEMMA QuietStep ==
  ASSUME IInv, TypeOK', Busy' = Busy, InFlight' = InFlight,
         UNCHANGED <<fn, n_tasks, next_task, active, wtask, calln, ran>>,
         \A w \in Workers : wpc'[w] = "running" =>
            (wpc[w] = "running" /\ wfn'[w] = wfn[w]) \/ wfn'[w] = fn,
         opc' # "alive" => opc # "alive" \/ InFlight = {}
  PROVE  IInv'
  <1>1. held' = held
    BY DEF held
  <1>2. OneCall' /\ ClaimsBehindCursor' /\ HeldOnce' /\ IdleIsDrained'
    BY DEF IInv, OneCall, ClaimsBehindCursor, HeldOnce, IdleIsDrained
  <1>3. ActiveCounts' /\ RunsCurrentFn' /\ DtorAlone'
    BY DEF IInv, ActiveCounts, RunsCurrentFn, DtorAlone
  <1>4. RanOnce'
    BY <1>1 DEF IInv, RanOnce
  <1>5. QED
    BY <1>2, <1>3, <1>4 DEF IInv

\* A worker that held nothing claims the next task.
LEMMA FreshClaim ==
  ASSUME IInv, TypeOK', NEW w \in Workers, WorkerWake(w), next_task < n_tasks
  PROVE  IInv'
  <1> USE DEF IInv
  <1>1. /\ wpc[w] = "wait" /\ wpc' = [wpc EXCEPT ![w] = "claimed"]
        /\ wtask' = [wtask EXCEPT ![w] = next_task]
        /\ next_task' = next_task + 1 /\ active' = active + 1
        /\ UNCHANGED <<fn, n_tasks, wfn, cpc, calln, ran, opc>>
    BY DEF WorkerWake, ClaimOrWait, caller, TypeOK
  <1>2. w \notin Busy /\ Busy' = Busy \cup {w} /\ InFlight' = InFlight
    BY <1>1 DEF Busy, InFlight, TypeOK
  <1>3. InFlight # {}
    BY DEF IdleIsDrained, TypeOK
  <1>4. /\ wtask'[w] = next_task
        /\ \A v \in Busy : wtask'[v] = wtask[v]
    BY <1>1, <1>2 DEF TypeOK, Busy
  <1>5. held' = held \cup {next_task}
    BY <1>2, <1>4 DEF held
  <1>6. OneCall' /\ IdleIsDrained' /\ DtorAlone'
    BY <1>1, <1>2, <1>3 DEF OneCall, IdleIsDrained, DtorAlone
  <1>7. ClaimsBehindCursor'
    BY <1>1, <1>2, <1>4 DEF ClaimsBehindCursor, TypeOK, Busy
  <1>8. HeldOnce'
    BY <1>2, <1>4 DEF HeldOnce, ClaimsBehindCursor, TypeOK, Busy
  <1>9. ActiveCounts'
    BY <1>1, <1>2, BusyFinite, FS_AddElement DEF ActiveCounts, TypeOK
  <1>10. RunsCurrentFn'
    BY <1>1 DEF RunsCurrentFn, TypeOK
  <1>11. RanOnce'
    <2> SUFFICES ASSUME NEW t \in Threads, NEW k \in Tasks
                 PROVE  ran[t][k] = IF t \in InFlight
                          THEN IF k < next_task + 1 /\ k \notin held \cup {next_task}
                               THEN 1 ELSE 0
                          ELSE IF k < calln[t] THEN 1 ELSE 0
      BY <1>1, <1>2, <1>5 DEF RanOnce
    <2>1. k \in Int
      BY PoolAssumption DEF Tasks
    <2>2. QED
      BY <2>1 DEF RanOnce, TypeOK
  <1>12. QED
    BY <1>6, <1>7, <1>8, <1>9, <1>10, <1>11

\* What a worker that gives back its task knows: it ran the call in flight, and
\* the task is one of that call's.
LEMMA FinishFacts ==
  ASSUME IInv, NEW w \in Workers, WorkerFinish(w)
  PROVE  /\ w \in Busy /\ fn \in InFlight /\ wfn[w] = fn
         /\ wtask[w] \in Tasks /\ wtask[w] \in held /\ wtask[w] < next_task
         /\ \A t \in Threads, k \in Tasks :
              ran'[t][k] = IF t = fn /\ k = wtask[w] THEN ran[t][k] + 1
                                                     ELSE ran[t][k]
  <1> USE DEF IInv
  <1>1. w \in Busy /\ wfn[w] = fn
    BY DEF WorkerFinish, Busy, RunsCurrentFn
  <1>2. InFlight # {}
    BY <1>1 DEF IdleIsDrained
  <1>3. fn \in InFlight
    BY <1>2 DEF OneCall
  <1>4. wtask[w] < next_task /\ wtask[w] \in 0 .. (n_tasks - 1)
    BY <1>1 DEF ClaimsBehindCursor, TypeOK
  <1>5. wtask[w] \in Tasks /\ wtask[w] \in held
    BY <1>1, <1>4 DEF ClaimsBehindCursor, held
  <1>6. ran' = [ran EXCEPT ![fn][wtask[w]] = @ + 1] /\ fn \in Threads
    BY <1>1, <1>3 DEF WorkerFinish, InFlight
  <1>7. \A t \in Threads, k \in Tasks :
          ran'[t][k] = IF t = fn /\ k = wtask[w] THEN ran[t][k] + 1
                                                 ELSE ran[t][k]
    BY <1>5, <1>6 DEF TypeOK
  <1>8. QED
    BY <1>1, <1>3, <1>4, <1>5, <1>7

\* The last of a worker's tasks: it goes back to the wait.
LEMMA LastFinish ==
  ASSUME IInv, TypeOK', NEW w \in Workers, WorkerFinish(w), next_task >= n_tasks
  PROVE  IInv'
  <1> USE DEF IInv
  <1>1. /\ wpc' = [wpc EXCEPT ![w] = "wait"]
        /\ active' = active - 1
        /\ UNCHANGED <<fn, n_tasks, next_task, wtask, wfn, cpc, calln, opc>>
    BY DEF WorkerFinish, ClaimOrWait, caller, TypeOK
  <1>2. Busy' = Busy \ {w} /\ InFlight' = InFlight
    BY <1>1 DEF Busy, InFlight, TypeOK
  <1>3. held' = held \ {wtask[w]}
    BY <1>1, <1>2, FinishFacts DEF held, HeldOnce
  <1>4. OneCall' /\ IdleIsDrained' /\ DtorAlone'
    BY <1>1, <1>2, FinishFacts DEF OneCall, IdleIsDrained, DtorAlone
  <1>5. ClaimsBehindCursor' /\ HeldOnce' /\ RunsCurrentFn'
    BY <1>1, <1>2 DEF ClaimsBehindCursor, HeldOnce, RunsCurrentFn, TypeOK
  <1>6. ActiveCounts'
    BY <1>1, <1>2, FinishFacts, BusyFinite, FS_RemoveElement
       DEF ActiveCounts, TypeOK
  <1>7. RanOnce'
    <2> SUFFICES ASSUME NEW t \in Threads, NEW k \in Tasks
                 PROVE  ran'[t][k] = IF t \in InFlight
                          THEN IF k < next_task /\ k \notin held \ {wtask[w]}
                               THEN 1 ELSE 0
                          ELSE IF k < calln[t] THEN 1 ELSE 0
      BY <1>1, <1>2, <1>3 DEF RanOnce
    <2>1. CASE t \in InFlight
      <3>1. t = fn
        BY <2>1, FinishFacts DEF OneCall
      <3>2. QED
        BY <2>1, <3>1, FinishFacts DEF RanOnce
    <2>2. CASE t \notin InFlight
      BY <2>2, FinishFacts DEF RanOnce
    <2>3. QED
      BY <2>1, <2>2
  <1>8. QED
    BY <1>4, <1>5, <1>6, <1>7

\* A worker gives back its task and claims the next one under the same lock.
LEMMA FinishAndClaim ==
  ASSUME IInv, TypeOK', NEW w \in Workers, WorkerFinish(w), next_task < n_tasks
  PROVE  IInv'
  <1> USE DEF IInv
  <1>1. /\ wpc' = [wpc EXCEPT ![w] = "claimed"]
        /\ wtask' = [wtask EXCEPT ![w] = next_task]
        /\ next_task' = next_task + 1
        /\ active' = active - 1 + 1
        /\ UNCHANGED <<fn, n_tasks, wfn, cpc, calln, opc>>
    BY DEF WorkerFinish, ClaimOrWait, caller, TypeOK
  <1>2. Busy' = Busy /\ InFlight' = InFlight
    BY <1>1, FinishFacts DEF Busy, InFlight, TypeOK
  <1>3. /\ wtask'[w] = next_task
        /\ \A v \in Busy \ {w} : wtask'[v] = wtask[v]
    BY <1>1 DEF TypeOK, Busy
  <1>4. held' = (held \ {wtask[w]}) \cup {next_task}
    BY <1>2, <1>3, FinishFacts DEF held, HeldOnce
  <1>5. OneCall' /\ IdleIsDrained' /\ DtorAlone'
    BY <1>1, <1>2, FinishFacts DEF OneCall, IdleIsDrained, DtorAlone
  <1>6. ClaimsBehindCursor'
    <2>1. next_task' <= n_tasks'
      BY <1>1 DEF TypeOK
    <2>2. \A v \in Busy : wtask'[v] < next_task + 1
      <3> SUFFICES ASSUME NEW v \in Busy PROVE wtask'[v] < next_task + 1
        OBVIOUS
      <3>1. CASE v = w
        BY <3>1, <1>3 DEF TypeOK
      <3>2. CASE v # w
        <4>1. wtask'[v] = wtask[v] /\ wtask[v] \in Nat /\ wtask[v] < next_task
          BY <3>2, <1>3 DEF ClaimsBehindCursor, TypeOK, Busy
        <4>2. QED
          BY <4>1 DEF TypeOK
      <3>3. QED
        BY <3>1, <3>2
    <2>3. QED
      BY <1>1, <1>2, <2>1, <2>2 DEF ClaimsBehindCursor
  <1>7. HeldOnce'
    <2>1. \A v \in Busy \ {w} : wtask'[v] \in Nat /\ wtask'[v] < next_task
      BY <1>3 DEF ClaimsBehindCursor, TypeOK, Busy
    <2> SUFFICES ASSUME NEW u \in Busy, NEW v \in Busy, wtask'[u] = wtask'[v]
                 PROVE  u = v
      BY <1>2 DEF HeldOnce
    <2>2. CASE u = w \/ v = w
      BY <2>1, <2>2, <1>3 DEF TypeOK
    <2>3. CASE u # w /\ v # w
      BY <2>3, <1>3 DEF HeldOnce
    <2>4. QED
      BY <2>2, <2>3
  <1>8. ActiveCounts'
    BY <1>1, <1>2 DEF ActiveCounts, TypeOK
  <1>9. RunsCurrentFn'
    BY <1>1 DEF RunsCurrentFn, TypeOK
  <1>10. RanOnce'
    <2> SUFFICES ASSUME NEW t \in Threads, NEW k \in Tasks
                 PROVE  ran'[t][k] = IF t \in InFlight
                          THEN IF /\ k < next_task + 1
                                  /\ k \notin (held \ {wtask[w]}) \cup {next_task}
                               THEN 1 ELSE 0
                          ELSE IF k < calln[t] THEN 1 ELSE 0
      BY <1>1, <1>2, <1>4 DEF RanOnce
    <2>1. k \in Int
      BY PoolAssumption DEF Tasks
    <2>2. CASE t \in InFlight
      <3>1. t = fn
        BY <2>2, FinishFacts DEF OneCall
      <3>2. QED
        BY <2>1, <2>2, <3>1, FinishFacts DEF RanOnce, TypeOK
    <2>3. CASE t \notin InFlight
      BY <2>3, FinishFacts DEF RanOnce
    <2>4. QED
      BY <2>2, <2>3
  <1>11. QED
    BY <1>5, <1>6, <1>7, <1>8, <1>9, <1>10

\* Publishing a call when none is in flight.
LEMMA PublishStep ==
  ASSUME IInv, TypeOK', NEW t \in Clients, NEW n \in TaskCounts,
         InFlight = {}, Publish(t, n)
  PROVE  IInv'
  <1> USE DEF IInv
  <1>1. /\ fn' = t /\ n_tasks' = n /\ next_task' = 0 /\ active' = 0
        /\ cpc' = [cpc EXCEPT ![t] = "notify"]
        /\ calln' = [calln EXCEPT ![t] = n]
        /\ ran' = [ran EXCEPT ![t] = [k \in Tasks |-> 0]]
        /\ opc = "alive" /\ opc' = opc
        /\ n > 0 /\ n \in Int /\ t \in Threads
        /\ UNCHANGED <<wpc, wtask, wfn>>
    BY PoolAssumption DEF Publish, Begin, worker, Threads
  <1>2. Busy = {} /\ Busy' = {} /\ InFlight' = {t}
    BY <1>1 DEF IdleIsDrained, Busy, InFlight, TypeOK
  <1>3. OneCall' /\ IdleIsDrained' /\ DtorAlone' /\ HeldOnce'
    BY <1>1, <1>2 DEF OneCall, IdleIsDrained, DtorAlone, HeldOnce, TypeOK
  <1>4. ClaimsBehindCursor'
    BY <1>1, <1>2 DEF ClaimsBehindCursor, Tasks
  <1>5. ActiveCounts'
    BY <1>1, <1>2, FS_EmptySet DEF ActiveCounts
  <1>6. RunsCurrentFn'
    BY <1>1, <1>2 DEF RunsCurrentFn, Busy
  <1>7. RanOnce'
    <2> SUFFICES ASSUME NEW u \in Threads, NEW k \in Tasks
                 PROVE  ran'[u][k] = IF u \in {t} THEN IF k < 0 /\ k \notin held'
                                                       THEN 1 ELSE 0
                                     ELSE IF k < calln'[u] THEN 1 ELSE 0
      BY <1>1, <1>2 DEF RanOnce
    <2>1. k \in Int /\ ~(k < 0)
      BY PoolAssumption DEF Tasks
    <2>2. CASE u = t
      BY <2>1, <2>2, <1>1 DEF TypeOK
    <2>3. CASE u # t
      BY <2>3, <1>1 DEF RanOnce, TypeOK
    <2>4. QED
      BY <2>2, <2>3
  <1>8. QED
    BY <1>3, <1>4, <1>5, <1>6, <1>7

\* A call with no task touches only the caller's own record.
LEMMA EmptyCallStep ==
  ASSUME IInv, TypeOK', NEW t \in Clients, NEW n \in TaskCounts,
         InFlight = {}, CallEmpty(t, n)
  PROVE  IInv'
  <1> USE DEF IInv
  <1>1. /\ calln' = [calln EXCEPT ![t] = n]
        /\ ran' = [ran EXCEPT ![t] = [k \in Tasks |-> 0]]
        /\ n <= 0 /\ n \in Int /\ t \in Threads
        /\ UNCHANGED <<shared, worker, cpc, opc>>
    BY PoolAssumption DEF CallEmpty, Begin, Threads
  <1>2. Busy' = Busy /\ InFlight' = {} /\ UNCHANGED <<fn, n_tasks, next_task, active, wtask, wpc, wfn>>
    BY <1>1 DEF Busy, InFlight, shared, worker
  <1>3. OneCall' /\ IdleIsDrained' /\ DtorAlone' /\ HeldOnce' /\ ClaimsBehindCursor'
    BY <1>2 DEF OneCall, IdleIsDrained, DtorAlone, HeldOnce, ClaimsBehindCursor
  <1>4. ActiveCounts' /\ RunsCurrentFn'
    BY <1>2 DEF ActiveCounts, RunsCurrentFn
  <1>5. RanOnce'
    <2> SUFFICES ASSUME NEW u \in Threads, NEW k \in Tasks
                 PROVE  ran'[u][k] = IF k < calln'[u] THEN 1 ELSE 0
      BY <1>2 DEF RanOnce
    <2>1. k \in Int /\ ~(k < 0)
      BY PoolAssumption DEF Tasks
    <2>2. CASE u = t
      BY <2>1, <2>2, <1>1 DEF TypeOK
    <2>3. CASE u # t
      BY <2>3, <1>1 DEF RanOnce, TypeOK
    <2>4. QED
      BY <2>2, <2>3
  <1>6. QED
    BY <1>3, <1>4, <1>5

\* The caller returns: it saw active_ == 0 with every task claimed.
LEMMA ReturnStep ==
  ASSUME IInv, TypeOK', NEW t \in Threads, AwaitReturn(t)
  PROVE  IInv'
  <1> USE DEF IInv
  <1>1. /\ cpc[t] = "await" /\ cpc' = [cpc EXCEPT ![t] = "idle"]
        /\ active = 0 /\ next_task >= n_tasks
        /\ UNCHANGED <<fn, n_tasks, next_task, active, wpc, wtask, wfn, calln, ran, opc>>
    BY DEF AwaitReturn, Drained, shared, worker
  <1>2. t \in InFlight /\ n_tasks = calln[t]
    BY <1>1 DEF InFlight, OneCall
  <1>3. Busy = {} /\ Busy' = {} /\ held = {}
    <2>1. Busy = {}
      BY <1>1, BusyFinite, FS_EmptySet DEF ActiveCounts
    <2>2. QED
      BY <2>1, <1>1 DEF Busy, held
  <1>4. InFlight' = {}
    BY <1>1, <1>2 DEF InFlight, OneCall, TypeOK
  <1>5. next_task = n_tasks
    BY <1>1 DEF ClaimsBehindCursor, TypeOK
  <1>6. OneCall' /\ IdleIsDrained' /\ DtorAlone' /\ HeldOnce' /\ ClaimsBehindCursor'
    BY <1>1, <1>3, <1>4, <1>5
       DEF OneCall, IdleIsDrained, DtorAlone, HeldOnce, ClaimsBehindCursor
  <1>7. ActiveCounts' /\ RunsCurrentFn'
    BY <1>1, <1>3 DEF ActiveCounts, RunsCurrentFn
  <1>8. RanOnce'
    <2> SUFFICES ASSUME NEW u \in Threads, NEW k \in Tasks
                 PROVE  ran[u][k] = IF k < calln[u] THEN 1 ELSE 0
      BY <1>1, <1>4 DEF RanOnce
    <2>1. CASE u \in InFlight
      <3>1. u = t
        BY <2>1, <1>2 DEF OneCall
      <3>2. QED
        BY <2>1, <3>1, <1>2, <1>3, <1>5 DEF RanOnce
    <2>2. CASE u \notin InFlight
      BY <2>2 DEF RanOnce
    <2>3. QED
      BY <2>1, <2>2
  <1>9. QED
    BY <1>6, <1>7, <1>8

LEMMA InvStep == IInv /\ [Next]_vars => IInv'
  <1> SUFFICES ASSUME IInv, [Next]_vars PROVE IInv'
    OBVIOUS
  <1>1. TypeOK /\ TypeOK'
    BY TypeStep DEF IInv
  <1> USE DEF shared, worker, caller
  <1>2. ASSUME NEW w \in Workers, WorkerStart(w) \/ WorkerSleep(w) \/ WorkerExit(w)
        PROVE  IInv'
    <2>1. /\ UNCHANGED <<fn, n_tasks, next_task, active, wtask, wfn, cpc, calln, ran, opc>>
          /\ \/ wpc' = wpc
             \/ wpc[w] = "start" /\ wpc' = [wpc EXCEPT ![w] = "wait"]
             \/ wpc[w] = "wait" /\ wpc' = [wpc EXCEPT ![w] = "exited"]
      BY <1>2 DEF WorkerStart, WorkerSleep, WorkerExit
    <2>2. Busy' = Busy /\ InFlight' = InFlight
      BY <1>1, <2>1 DEF Busy, InFlight, TypeOK
    <2>3. \A v \in Workers : wpc'[v] = "running" => wpc[v] = "running"
      BY <1>1, <2>1 DEF TypeOK
    <2>4. QED
      BY <1>1, <2>1, <2>2, <2>3, QuietStep
  <1>3. ASSUME NEW w \in Workers, WorkerWake(w) PROVE IInv'
    <2>1. CASE next_task < n_tasks
      BY <1>1, <1>3, <2>1, FreshClaim
    <2>2. CASE ~(next_task < n_tasks)
      <3>1. /\ UNCHANGED <<fn, n_tasks, next_task, active, wtask, wfn, cpc, calln, ran, opc>>
            /\ wpc[w] = "wait" /\ wpc' = [wpc EXCEPT ![w] = "wait"]
        BY <1>3, <2>2 DEF WorkerWake, ClaimOrWait
      <3>2. wpc' = wpc
        BY <1>1, <3>1 DEF TypeOK
      <3>3. Busy' = Busy /\ InFlight' = InFlight
        BY <3>1, <3>2 DEF Busy, InFlight
      <3>4. QED
        BY <1>1, <3>1, <3>2, <3>3, QuietStep
    <2>3. QED
      BY <2>1, <2>2
  <1>4. ASSUME NEW w \in Workers, WorkerRun(w) PROVE IInv'
    <2>1. /\ UNCHANGED <<fn, n_tasks, next_task, active, wtask, cpc, calln, ran, opc>>
          /\ wpc[w] = "claimed" /\ wpc' = [wpc EXCEPT ![w] = "running"]
          /\ wfn' = [wfn EXCEPT ![w] = fn]
      BY <1>4 DEF WorkerRun
    <2>2. Busy' = Busy /\ InFlight' = InFlight
      BY <1>1, <2>1 DEF Busy, InFlight, TypeOK
    <2>3. \A v \in Workers : wpc'[v] = "running" =>
            (wpc[v] = "running" /\ wfn'[v] = wfn[v]) \/ wfn'[v] = fn
      BY <1>1, <2>1 DEF TypeOK
    <2>4. QED
      BY <1>1, <2>1, <2>2, <2>3, QuietStep
  <1>5. ASSUME NEW w \in Workers, WorkerFinish(w) PROVE IInv'
    <2>1. next_task < n_tasks \/ next_task >= n_tasks
      BY <1>1 DEF TypeOK
    <2>2. QED
      BY <1>1, <1>5, <2>1, LastFinish, FinishAndClaim
  <1>6. ASSUME NEW t \in Clients, NEW n \in TaskCounts, SerialCall(t, n)
        PROVE  IInv'
    BY <1>1, <1>6, PublishStep, EmptyCallStep DEF SerialCall
  <1>7. ASSUME NEW t \in Threads, NotifyAll(t) PROVE IInv'
    <2>1. /\ UNCHANGED <<fn, n_tasks, next_task, active, wpc, wtask, wfn, calln, ran, opc>>
          /\ cpc[t] = "notify" /\ cpc' = [cpc EXCEPT ![t] = "await"]
      BY <1>7 DEF NotifyAll
    <2>2. Busy' = Busy /\ InFlight' = InFlight
      BY <1>1, <2>1 DEF Busy, InFlight, TypeOK
    <2>3. QED
      BY <1>1, <2>1, <2>2, QuietStep
  <1>8. ASSUME NEW t \in Threads, AwaitReturn(t) PROVE IInv'
    BY <1>1, <1>8, ReturnStep
  <1>9. CASE UNCHANGED <<shared, worker, caller, ran, opc>>
    <2>1. Busy' = Busy /\ InFlight' = InFlight
      BY <1>9 DEF Busy, InFlight
    <2>2. QED
      BY <1>1, <1>9, <2>1, QuietStep
  <1>10. CASE DtorStop \/ DtorStep
    <2>1. /\ UNCHANGED <<fn, n_tasks, next_task, active, worker, caller, ran>>
          /\ opc # "alive" \/ InFlight = {}
      BY <1>10 DEF DtorStop, DtorStep, DtorNotify, DtorJoin
    <2>2. Busy' = Busy /\ InFlight' = InFlight
      BY <2>1 DEF Busy, InFlight
    <2>3. QED
      BY <1>1, <2>1, <2>2, QuietStep
  <1>11. ASSUME NEW t \in Threads, AwaitSleep(t) \/ SpuriousWake(t) PROVE IInv'
    BY <1>9, <1>11 DEF AwaitSleep, SpuriousWake
  <1>12. QED
    BY <1>2, <1>3, <1>4, <1>5, <1>6, <1>7, <1>8, <1>9, <1>10, <1>11
       DEF Next, Background, WorkerStep, CallerStep, Gone, vars

LEMMA InitInv == Init => IInv
  <1> SUFFICES ASSUME Init PROVE IInv
    OBVIOUS
  <1>1. TypeOK
    BY InitType
  <1>2. Busy = {} /\ InFlight = {}
    BY DEF Init, Busy, InFlight
  <1>3. OneCall /\ HeldOnce /\ IdleIsDrained /\ DtorAlone
    BY <1>2 DEF OneCall, HeldOnce, IdleIsDrained, DtorAlone, Init
  <1>4. ClaimsBehindCursor
    BY <1>2 DEF ClaimsBehindCursor, Init
  <1>5. ActiveCounts
    BY <1>2, FS_EmptySet DEF ActiveCounts, Init
  <1>6. RunsCurrentFn
    BY DEF RunsCurrentFn, Init
  <1>7. RanOnce
    <2> SUFFICES ASSUME NEW t \in Threads, NEW k \in Tasks
                 PROVE  ran[t][k] = IF k < calln[t] THEN 1 ELSE 0
      BY <1>2 DEF RanOnce
    <2>1. ~(k < 0)
      BY PoolAssumption DEF Tasks
    <2>2. ran[t][k] = 0 /\ calln[t] = 0
      BY DEF Init
    <2>3. QED
      BY <2>1, <2>2
  <1>8. QED
    BY <1>1, <1>3, <1>4, <1>5, <1>6, <1>7 DEF IInv

THEOREM Inductive == Spec => []IInv
  BY InitInv, InvStep, PTL DEF Spec

\* A call that has returned has had each of its tasks completed exactly once
\* (thread_pool.h:24-25), as long as calls do not overlap.
THEOREM PoolBlocksUntilDone == Spec => []BlocksUntilDone
  <1>1. IInv => BlocksUntilDone
    BY DEF IInv, RanOnce, BlocksUntilDone, InFlight
  <1>2. QED
    BY <1>1, Inductive, PTL

\* No worker touches the function of a call that has returned.
THEOREM PoolFnAlive == Spec => []FnAlive
  <1>1. IInv => FnAlive
    <2> SUFFICES ASSUME IInv PROVE FnAlive
      OBVIOUS
    <2>1. Busy # {} => fn \in InFlight
      BY DEF IInv, IdleIsDrained, OneCall
    <2>2. QED
      BY <2>1 DEF IInv, RunsCurrentFn, FnAlive, Busy
  <1>2. QED
    BY <1>1, Inductive, PTL

\* active_ always equals the number of workers that hold a task.
THEOREM PoolActiveCounts == Spec => []ActiveCounts
  <1>1. IInv => ActiveCounts
    BY DEF IInv
  <1>2. QED
    BY <1>1, Inductive, PTL

\* No worker holds or takes a task once the destructor has begun.
THEOREM PoolQuietShutdown == Spec => []QuietShutdown
  <1>1. IInv => QuietShutdown
    BY DEF IInv, DtorAlone, IdleIsDrained, QuietShutdown
  <1>2. QED
    BY <1>1, Inductive, PTL

-----------------------------------------------------------------------------
(***************************************************************************)
(* The pool implements ParallelFor                                         *)
(***************************************************************************)

\* With one call in flight, serving is that call's thread.
LEMMA ServingIs ==
  ASSUME NEW t \in Threads, InFlight = {t}
  PROVE  serving = t
  <1>1. \A u \in Threads : u \in InFlight <=> u = t
    OBVIOUS
  <1>2. (CHOOSE u \in Threads : u \in InFlight) \in InFlight
    BY <1>1
  <1>3. QED
    BY <1>2 DEF serving

\* Steps that keep the call in flight, the cursor and the held tasks are
\* stuttering steps of ParallelFor.
LEMMA QuietStutters ==
  ASSUME Busy' = Busy, InFlight' = InFlight, UNCHANGED <<n_tasks, next_task, wtask>>
  PROVE  UNCHANGED PF!pfvars
  BY DEF PF!pfvars, serving, unclaimed, held

\* Moving the cursor one up takes exactly one task out of the unclaimed ones.
LEMMA CursorStep ==
  \A a, b, k \in Int : (a + 1 <= k /\ k < b) <=> (a <= k /\ k < b /\ k # a)
  OBVIOUS

\* A fresh claim is Take.
LEMMA ClaimIsTake ==
  ASSUME IInv, NEW w \in Workers, WorkerWake(w), next_task < n_tasks
  PROVE  PF!Take(next_task)
  <1> USE DEF IInv
  <1>1. /\ wpc[w] = "wait" /\ wpc' = [wpc EXCEPT ![w] = "claimed"]
        /\ wtask' = [wtask EXCEPT ![w] = next_task]
        /\ next_task' = next_task + 1
        /\ UNCHANGED <<n_tasks, cpc>>
    BY DEF WorkerWake, ClaimOrWait, caller, TypeOK
  <1>2. w \notin Busy /\ Busy' = Busy \cup {w} /\ InFlight' = InFlight
    BY <1>1 DEF Busy, InFlight, TypeOK
  <1>3. /\ wtask'[w] = next_task
        /\ \A v \in Busy : wtask'[v] = wtask[v]
    BY <1>1, <1>2 DEF TypeOK, Busy
  <1>4. held' = held \cup {next_task}
    BY <1>2, <1>3 DEF held
  <1>5. next_task \in unclaimed
    BY DEF unclaimed, ClaimsBehindCursor, TypeOK
  <1>6. unclaimed' = unclaimed \ {next_task}
    <2>1. \A k \in Tasks : k \in Int
      BY PoolAssumption DEF Tasks
    <2>2. \A k \in Tasks : (next_task + 1 <= k /\ k < n_tasks) <=>
                            (next_task <= k /\ k < n_tasks /\ k # next_task)
      <3>1. next_task \in Int /\ n_tasks \in Int
        BY DEF TypeOK
      <3> HIDE DEF IInv
      <3>2. QED
        BY <3>1, <2>1, CursorStep
    <2>3. QED
      BY <1>1, <2>2 DEF unclaimed
  <1>7. serving' = serving
    BY <1>2 DEF serving
  <1>8. QED
    BY <1>4, <1>5, <1>6, <1>7 DEF PF!Take

\* Giving back a task is Done, or DoneAndTake when the worker claims another.
LEMMA FinishIsDone ==
  ASSUME IInv, NEW w \in Workers, WorkerFinish(w)
  PROVE  PF!Done(wtask[w]) \/ PF!DoneAndTake(wtask[w], next_task)
  <1> USE DEF IInv
  <1>1. wtask[w] \in held /\ w \in Busy
    BY FinishFacts
  <1>2. CASE next_task >= n_tasks
    <2>1. /\ wpc' = [wpc EXCEPT ![w] = "wait"]
          /\ UNCHANGED <<n_tasks, next_task, wtask, cpc>>
      BY <1>2 DEF WorkerFinish, ClaimOrWait, caller, TypeOK
    <2>2. Busy' = Busy \ {w} /\ InFlight' = InFlight
      BY <2>1 DEF Busy, InFlight, TypeOK
    <2>3. held' = held \ {wtask[w]}
      BY <2>1, <2>2, <1>1 DEF held, HeldOnce
    <2>4. serving' = serving /\ unclaimed' = unclaimed
      BY <2>1, <2>2 DEF serving, unclaimed
    <2>5. QED
      BY <1>1, <2>3, <2>4 DEF PF!Done
  <1>3. CASE next_task < n_tasks
    <2>1. /\ wpc' = [wpc EXCEPT ![w] = "claimed"]
          /\ wtask' = [wtask EXCEPT ![w] = next_task]
          /\ next_task' = next_task + 1
          /\ UNCHANGED <<n_tasks, cpc>>
      BY <1>3 DEF WorkerFinish, ClaimOrWait, caller, TypeOK
    <2>2. Busy' = Busy /\ InFlight' = InFlight
      BY <2>1, <1>1 DEF Busy, InFlight, TypeOK
    <2>3. /\ wtask'[w] = next_task
          /\ \A v \in Busy \ {w} : wtask'[v] = wtask[v]
      BY <2>1 DEF TypeOK, Busy
    <2>4. held' = (held \ {wtask[w]}) \cup {next_task}
      BY <2>2, <2>3, <1>1 DEF held, HeldOnce
    <2>5. next_task \in unclaimed
      BY <1>3 DEF unclaimed, ClaimsBehindCursor, TypeOK
    <2>6. unclaimed' = unclaimed \ {next_task}
      <3>1. \A k \in Tasks : k \in Int
        BY PoolAssumption DEF Tasks
      <3>2. \A k \in Tasks : (next_task + 1 <= k /\ k < n_tasks) <=>
                              (next_task <= k /\ k < n_tasks /\ k # next_task)
        <4>1. next_task \in Int /\ n_tasks \in Int
          BY DEF TypeOK
        <4> HIDE DEF IInv
        <4>2. QED
          BY <4>1, <3>1, CursorStep
      <3>3. QED
        BY <2>1, <3>2 DEF unclaimed
    <2>7. serving' = serving
      BY <2>2 DEF serving
    <2>8. QED
      BY <1>1, <2>4, <2>5, <2>6, <2>7 DEF PF!DoneAndTake
  <1>4. QED
    BY <1>2, <1>3 DEF TypeOK

\* Publishing is Call.
LEMMA PublishIsCall ==
  ASSUME IInv, TypeOK', NEW t \in Clients, NEW n \in TaskCounts,
         InFlight = {}, Publish(t, n)
  PROVE  PF!Call(t, n)
  <1> USE DEF IInv
  <1>1. /\ n_tasks' = n /\ next_task' = 0 /\ n > 0 /\ n \in Int
        /\ cpc' = [cpc EXCEPT ![t] = "notify"] /\ wpc' = wpc /\ t \in Threads
    BY PoolAssumption DEF Publish, Begin, worker, Threads
  <1>2. Busy' = {} /\ InFlight' = {t}
    BY <1>1 DEF IdleIsDrained, Busy, InFlight, TypeOK
  <1>3. held' = {}
    BY <1>2 DEF held
  <1>4. unclaimed' = 0 .. (n - 1)
    <2>1. \A k \in Tasks : k \in Int
      BY PoolAssumption DEF Tasks
    <2>2. 0 .. (n - 1) \subseteq Tasks
      BY DEF Tasks
    <2>3. QED
      BY <1>1, <2>1, <2>2 DEF unclaimed
  <1>5. serving = NoFn
    BY DEF serving
  <1>6. serving' = t
    <2>1. \A u \in Threads : u \in InFlight' <=> u = t
      BY <1>2
    <2>2. (CHOOSE u \in Threads : u \in InFlight') \in InFlight'
      BY <1>1, <2>1
    <2>3. QED
      BY <1>2, <2>2 DEF serving
  <1>7. QED
    BY <1>1, <1>3, <1>4, <1>5, <1>6 DEF PF!Call

\* The caller's return is Return.
LEMMA ReturnIsReturn ==
  ASSUME IInv, TypeOK', NEW t \in Threads, AwaitReturn(t)
  PROVE  PF!Return
  <1> USE DEF IInv
  <1>1. /\ cpc[t] = "await" /\ cpc' = [cpc EXCEPT ![t] = "idle"]
        /\ active = 0 /\ next_task >= n_tasks
        /\ UNCHANGED <<n_tasks, next_task, wpc, wtask>>
    BY DEF AwaitReturn, Drained, shared, worker
  <1>2. InFlight = {t} /\ InFlight' = {}
    BY <1>1 DEF InFlight, OneCall, TypeOK
  <1>3. Busy = {} /\ Busy' = {}
    <2>1. Busy = {}
      BY <1>1, BusyFinite, FS_EmptySet DEF ActiveCounts
    <2>2. QED
      BY <2>1, <1>1 DEF Busy
  <1>4. held = {} /\ held' = {}
    BY <1>3 DEF held
  <1>5. unclaimed = {} /\ unclaimed' = unclaimed
    <2>1. \A k \in Tasks : k \in Int
      BY PoolAssumption DEF Tasks
    <2>2. QED
      BY <1>1, <2>1 DEF unclaimed, TypeOK
  <1>6. serving = t /\ serving' = NoFn
    BY <1>2, ServingIs DEF serving
  <1>7. t # NoFn
    BY PoolAssumption DEF Threads
  <1>8. QED
    BY <1>4, <1>5, <1>6, <1>7 DEF PF!Return

LEMMA RefinementStep == IInv /\ [Next]_vars => [PF!PFNext]_(PF!pfvars)
  <1> SUFFICES ASSUME IInv, [Next]_vars PROVE [PF!PFNext]_(PF!pfvars)
    OBVIOUS
  <1>1. TypeOK /\ TypeOK'
    BY TypeStep DEF IInv
  <1> USE DEF shared, worker, caller
  <1>2. ASSUME NEW w \in Workers,
               \/ WorkerStart(w) \/ WorkerSleep(w) \/ WorkerExit(w) \/ WorkerRun(w)
               \/ WorkerWake(w) /\ ~(next_task < n_tasks)
        PROVE  UNCHANGED PF!pfvars
    <2>1. /\ UNCHANGED <<n_tasks, next_task, wtask, cpc>>
          /\ \/ wpc' = wpc
             \/ wpc[w] \in {"start", "wait"} /\ wpc' = [wpc EXCEPT ![w] = "wait"]
             \/ wpc[w] = "wait" /\ wpc' = [wpc EXCEPT ![w] = "exited"]
             \/ wpc[w] = "claimed" /\ wpc' = [wpc EXCEPT ![w] = "running"]
      BY <1>2 DEF WorkerStart, WorkerSleep, WorkerExit, WorkerRun, WorkerWake,
                  ClaimOrWait
    <2>2. Busy' = Busy /\ InFlight' = InFlight
      BY <1>1, <2>1 DEF Busy, InFlight, TypeOK
    <2>3. QED
      BY <2>1, <2>2, QuietStutters
  <1>3. ASSUME NEW w \in Workers, WorkerWake(w), next_task < n_tasks
        PROVE  PF!PFNext
    <2>1. PF!Take(next_task)
      BY <1>3, ClaimIsTake
    <2>2. QED
      BY <2>1 DEF PF!PFNext, PF!Take
  <1>4. ASSUME NEW w \in Workers, WorkerFinish(w) PROVE PF!PFNext
    <2>1. PF!Done(wtask[w]) \/ PF!DoneAndTake(wtask[w], next_task)
      BY <1>4, FinishIsDone
    <2>2. QED
      BY <2>1 DEF PF!PFNext, PF!Done, PF!DoneAndTake
  <1>5. ASSUME NEW t \in Clients, NEW n \in TaskCounts, SerialCall(t, n)
        PROVE  [PF!PFNext]_(PF!pfvars)
    <2>1. CASE Publish(t, n)
      <3>1. PF!Call(t, n)
        BY <1>1, <1>5, <2>1, PublishIsCall DEF SerialCall
      <3>2. QED
        BY <3>1 DEF PF!PFNext
    <2>2. CASE CallEmpty(t, n)
      <3>1. UNCHANGED <<n_tasks, next_task, wtask, wpc, cpc>>
        BY <2>2 DEF CallEmpty
      <3>2. Busy' = Busy /\ InFlight' = InFlight
        BY <3>1 DEF Busy, InFlight
      <3>3. QED
        BY <3>1, <3>2, QuietStutters
    <2>3. QED
      BY <1>5, <2>1, <2>2 DEF SerialCall
  <1>6. ASSUME NEW t \in Threads, NotifyAll(t) PROVE UNCHANGED PF!pfvars
    <2>1. /\ UNCHANGED <<n_tasks, next_task, wtask, wpc>>
          /\ cpc[t] = "notify" /\ cpc' = [cpc EXCEPT ![t] = "await"]
      BY <1>6 DEF NotifyAll
    <2>2. Busy' = Busy /\ InFlight' = InFlight
      BY <1>1, <2>1 DEF Busy, InFlight, TypeOK
    <2>3. QED
      BY <2>1, <2>2, QuietStutters
  <1>7. ASSUME NEW t \in Threads, AwaitReturn(t) PROVE PF!PFNext
    BY <1>1, <1>7, ReturnIsReturn DEF PF!PFNext
  <1>8. CASE UNCHANGED <<n_tasks, next_task, wtask, wpc, cpc>>
    <2>1. Busy' = Busy /\ InFlight' = InFlight
      BY <1>8 DEF Busy, InFlight
    <2>2. QED
      BY <1>8, <2>1, QuietStutters
  <1>9. ASSUME NEW t \in Threads, AwaitSleep(t) \/ SpuriousWake(t)
        PROVE  [PF!PFNext]_(PF!pfvars)
    BY <1>8, <1>9 DEF AwaitSleep, SpuriousWake
  <1>10. CASE DtorStop \/ DtorStep \/ Gone \/ UNCHANGED vars
    BY <1>8, <1>10 DEF DtorStop, DtorStep, DtorNotify, DtorJoin, Gone, vars
  <1>11. QED
    BY <1>2, <1>3, <1>4, <1>5, <1>6, <1>7, <1>9, <1>10
       DEF Next, Background, WorkerStep, CallerStep

\* The pool implements ParallelFor for every number of workers, clients, calls
\* and tasks, wrap-around of the generation counter included, as long as calls
\* do not overlap.
THEOREM PoolImplementsParallelFor == Spec => ImplementsParallelFor
  <1>1. Init => PF!PFInit
    <2> SUFFICES ASSUME Init PROVE PF!PFInit
      OBVIOUS
    <2>1. Busy = {} /\ InFlight = {}
      BY DEF Init, Busy, InFlight
    <2>2. unclaimed = {}
      BY PoolAssumption DEF Init, unclaimed, Tasks
    <2>3. QED
      BY <2>1, <2>2 DEF PF!PFInit, held, serving
  <1>2. QED
    BY <1>1, RefinementStep, Inductive, PTL DEF Spec, ImplementsParallelFor, PF!PFSpec

=============================================================================
