-------------------------- MODULE SchedulerProofs --------------------------
(***************************************************************************)
(* Proofs about Scheduler for any number of workers and tasks: FiberInv is     *)
(* inductive, and it implies the assertions of fiber.cpp, exclusive        *)
(* ownership of fibers and the single way back.                            *)
(***************************************************************************)
EXTENDS Scheduler, FiniteSetTheorems, TLAPS

(* push_back adds exactly the task of the new entry to the queued ones. *)
LEMMA AppendQueued ==
  ASSUME TypeOK, NEW t \in Task, NEW thread \in Worker \cup {NoThread},
         NEW cb \in BOOLEAN, ScheduleNoLock(t, thread, cb)
  PROVE  /\ queue' \in Seq(Entry)
         /\ \A u \in Task : Queued(u)' <=> Queued(u) \/ u = t
         /\ Len(queue') = Len(queue) + 1
         /\ \A i \in DOMAIN queue : queue'[i] = queue[i]
         /\ queue'[Len(queue) + 1] = [task |-> t, thread |-> thread, cb |-> cb]
<1> DEFINE e == [task |-> t, thread |-> thread, cb |-> cb]
<1>1. e \in Entry /\ queue \in Seq(Entry) /\ queue' = Append(queue, e)
  BY DEF Entry, TypeOK, ScheduleNoLock
<1>2. /\ queue' \in Seq(Entry)
      /\ Len(queue') = Len(queue) + 1
      /\ \A i \in DOMAIN queue : queue'[i] = queue[i]
      /\ queue'[Len(queue) + 1] = e
  BY <1>1
<1>3. DOMAIN queue = 1..Len(queue) /\ DOMAIN queue' = 1..(Len(queue) + 1)
      /\ Len(queue) \in Nat
  BY <1>1, <1>2
<1>4. ASSUME NEW u \in Task PROVE Queued(u)' <=> Queued(u) \/ u = t
  <2>1. Queued(u)' => Queued(u) \/ u = t
    BY <1>2, <1>3 DEF Queued
  <2>2. Queued(u) => Queued(u)'
    BY <1>2, <1>3 DEF Queued
  <2>3. u = t => Queued(u)'
    BY <1>2, <1>3 DEF Queued
  <2> QED BY <2>1, <2>2, <2>3
<1> QED BY <1>2, <1>4

(* A push_back of a task that is not queued keeps one entry per task. *)
LEMMA AppendQueueInv ==
  ASSUME TypeOK, QueueInv, NEW t \in Task, NEW thread \in Worker \cup {NoThread},
         NEW cb \in BOOLEAN, ScheduleNoLock(t, thread, cb), ~Queued(t),
         cb => fstate'[t] = "INIT",
         \A u \in Task : fstate[u] = "INIT" => fstate'[u] = "INIT"
  PROVE  QueueInv'
<1> DEFINE n == Len(queue)
<1>1. /\ Len(queue') = n + 1 /\ queue' \in Seq(Entry)
      /\ \A i \in DOMAIN queue : queue'[i] = queue[i]
      /\ queue'[n + 1] = [task |-> t, thread |-> thread, cb |-> cb]
  BY AppendQueued
<1>2. n \in Nat /\ DOMAIN queue = 1..n /\ DOMAIN queue' = 1..(n + 1)
      /\ queue \in Seq(Entry)
  BY <1>1 DEF TypeOK
<1>3. \A i \in 1..n : queue[i].task # t
  BY <1>2 DEF Queued
<1>4. \A i \in 1..n : queue[i] \in Entry
  BY <1>2
<1>5. \A i \in 1..n : queue[i].task \in Task
  BY <1>4 DEF Entry
<1>6. \A i, j \in 1..(n + 1) : queue'[i].task = queue'[j].task => i = j
  BY <1>1, <1>2, <1>3 DEF QueueInv
<1>7. \A i \in 1..(n + 1) : queue'[i].cb => fstate'[queue'[i].task] = "INIT"
  BY <1>1, <1>2, <1>5 DEF QueueInv
<1> QED BY <1>2, <1>6, <1>7 DEF QueueInv

(* list::erase removes exactly the popped task. *)
LEMMA RemoveAtQueued ==
  ASSUME TypeOK, QueueInv, NEW i \in DOMAIN queue, queue' = RemoveAt(queue, i)
  PROVE  /\ queue' \in Seq(Entry)
         /\ \A u \in Task : Queued(u)' <=> Queued(u) /\ u # queue[i].task
         /\ \A j \in DOMAIN queue' : \E k \in DOMAIN queue : k # i /\ queue'[j] = queue[k]
         /\ \A j, k \in DOMAIN queue' : queue'[j].task = queue'[k].task => j = k
<1> DEFINE n == Len(queue)
<1>1. n \in Nat /\ DOMAIN queue = 1..n /\ queue \in Seq(Entry) /\ i \in 1..n
  BY DEF TypeOK
<1>2. queue' = [j \in 1..(n - 1) |-> IF j < i THEN queue[j] ELSE queue[j + 1]]
  BY DEF RemoveAt
<1>3. DOMAIN queue' = 1..(n - 1) /\ n - 1 \in Nat
  BY <1>1, <1>2
<1>4. \A j \in 1..(n - 1) : queue'[j] = IF j < i THEN queue[j] ELSE queue[j + 1]
  BY <1>2
<1>5. \A j \in 1..(n - 1) : queue'[j] \in Entry
  BY <1>1, <1>4
<1>6. queue' \in Seq(Entry)
  BY <1>2, <1>3, <1>5
<1>7. \A j \in DOMAIN queue' : \E k \in DOMAIN queue : k # i /\ queue'[j] = queue[k]
  <2> SUFFICES ASSUME NEW j \in 1..(n - 1)
               PROVE \E k \in 1..n : k # i /\ queue'[j] = queue[k]
    BY <1>1, <1>3, Zenon
  <2>1. CASE j < i
    BY <1>1, <1>4, <2>1
  <2>2. CASE ~(j < i)
    <3>1. j + 1 \in 1..n /\ j + 1 # i
      BY <1>1, <2>2
    <3> QED BY <1>4, <2>2, <3>1
  <2> QED BY <2>1, <2>2
<1>8. \A k \in 1..n : k # i => \E j \in DOMAIN queue' : queue'[j] = queue[k]
  <2> SUFFICES ASSUME NEW k \in 1..n, k # i
               PROVE \E j \in 1..(n - 1) : queue'[j] = queue[k]
    BY <1>3
  <2>1. CASE k < i
    BY <1>1, <1>4, <2>1
  <2>2. CASE ~(k < i)
    <3>1. k - 1 \in 1..(n - 1) /\ ~(k - 1 < i) /\ (k - 1) + 1 = k
      BY <1>1, <2>2
    <3> QED BY <1>4, <3>1
  <2> QED BY <2>1, <2>2
<1>9. \A j, k \in DOMAIN queue' : queue'[j].task = queue'[k].task => j = k
  <2> DEFINE at(j) == IF j < i THEN j ELSE j + 1
  <2>1. \A j \in 1..(n - 1) : at(j) \in 1..n /\ queue'[j] = queue[at(j)]
    BY <1>1, <1>4
  <2>2. \A j, k \in 1..(n - 1) : at(j) = at(k) => j = k
    BY <1>1
  <2> HIDE DEF at
  <2> QED BY <1>1, <1>3, <2>1, <2>2 DEF QueueInv
<1>10. ASSUME NEW u \in Task
       PROVE Queued(u)' <=> Queued(u) /\ u # queue[i].task
  <2>1. Queued(u)' => Queued(u) /\ u # queue[i].task
    BY <1>1, <1>7 DEF Queued, QueueInv
  <2>2. Queued(u) /\ u # queue[i].task => Queued(u)'
    BY <1>1, <1>8 DEF Queued
  <2> QED BY <2>1, <2>2
<1> QED BY <1>6, <1>7, <1>9, <1>10

-----------------------------------------------------------------------------
(* m_activateThreadCount and the workers it counts. *)
CountedWorkers == {w \in Worker : wpc[w] \in Counted}

(* The counted workers are finitely many. *)
LEMMA CountedFinite == IsFiniteSet(CountedWorkers)
  BY SchedulerAssumption, FS_Subset DEF CountedWorkers

(* A worker that moves between two counted, or two uncounted, places. *)
LEMMA CountSame ==
  ASSUME TypeOK, ActiveIsCount, active' = active, NEW w \in Worker,
         NEW pc, Goto(w, pc), wpc[w] \in Counted <=> pc \in Counted
  PROVE  ActiveIsCount'
<1>1. CountedWorkers' = CountedWorkers
  BY DEF CountedWorkers, Goto, TypeOK
<1> QED BY <1>1 DEF ActiveIsCount, CountedWorkers

(* ++m_activateThreadCount *)
LEMMA CountUp ==
  ASSUME TypeOK, ActiveIsCount, active' = active + 1, NEW w \in Worker,
         NEW pc \in Counted, Goto(w, pc), wpc[w] \notin Counted
  PROVE  ActiveIsCount' /\ active' \in Nat
<1>1. CountedWorkers' = CountedWorkers \cup {w} /\ w \notin CountedWorkers
  BY DEF CountedWorkers, Goto, TypeOK
<1>2. Cardinality(CountedWorkers \cup {w}) = Cardinality(CountedWorkers) + 1
  BY <1>1, CountedFinite, FS_AddElement, Zenon
<1>3. active = Cardinality(CountedWorkers) /\ active \in Nat
  BY DEF ActiveIsCount, CountedWorkers, TypeOK
<1>4. active' = Cardinality(CountedWorkers') /\ active' \in Nat
  BY <1>1, <1>2, <1>3
<1> QED BY <1>4 DEF ActiveIsCount, CountedWorkers

(* --m_activateThreadCount *)
LEMMA CountDown ==
  ASSUME TypeOK, ActiveIsCount, active' = active - 1, NEW w \in Worker,
         NEW pc, pc \notin Counted, Goto(w, pc), wpc[w] \in Counted
  PROVE  ActiveIsCount' /\ active' \in Nat
<1>1. CountedWorkers' = CountedWorkers \ {w} /\ w \in CountedWorkers
  BY DEF CountedWorkers, Goto, TypeOK
<1>2. Cardinality(CountedWorkers \ {w}) = Cardinality(CountedWorkers) - 1
  BY <1>1, CountedFinite, FS_RemoveElement, Zenon
<1>3. Cardinality(CountedWorkers \ {w}) \in Nat
  BY CountedFinite, FS_RemoveElement, FS_CardinalityType
<1> QED BY <1>1, <1>2, <1>3, Zenon DEF ActiveIsCount, CountedWorkers, TypeOK

-----------------------------------------------------------------------------
(* The caller: nothing is held, queued or armed that was not. *)
LEMMA InitFiberInv == Init => FiberInv
<1> SUFFICES ASSUME Init PROVE FiberInv
  OBVIOUS
<1>1. TypeOK
  <2>1. queue \in Seq(Entry)
    BY DEF Init
  <2>2. yields \in [Task -> Nat] /\ active \in Nat
    BY DEF Init
  <2> QED
    BY <2>1, <2>2, Zenon DEF Init, TypeOK, FiberState, WorkerPc, CallerPc
<1>2. ActiveIsCount
  <2>1. {w \in Worker : wpc[w] \in Counted} = {}
    BY DEF Init, Counted
  <2> QED BY <2>1, FS_EmptySet, Zenon DEF ActiveIsCount, Init
<1>3. \A t \in Task : ~Queued(t)
  BY DEF Init, Queued
<1>4. OneOwner /\ QueueInv /\ \A w \in Worker : WorkerInv(w)
  BY DEF Init, OneOwner, QueueInv, WorkerInv, Holding
<1>5. \A t \in Task : TaskInv(t)
  BY <1>3 DEF Init, TaskInv, Finished
<1> QED BY <1>1, <1>2, <1>4, <1>5 DEF FiberInv

(* What a step of worker w does to task t alone cannot disturb the promises
   about the other workers and the other tasks. *)
LEMMA LocalStep ==
  ASSUME FiberInv, NEW w \in Worker, NEW t \in Task,
         \A v \in Worker \ {w} :
           /\ wpc'[v] = wpc[v] /\ cur'[v] = cur[v]
           /\ wpc[v] \in Holding /\ cur[v] = t =>
                fstate[t] \in Finished /\ fstate'[t] \in Finished,
         wpc[w] \in Holding => cur[w] = t,
         wpc'[w] \in Holding => cur'[w] = t,
         \A u \in Task \ {t} :
           /\ fstate'[u] = fstate[u]
           /\ u \in armed' <=> u \in armed
           /\ Queued(u)' <=> Queued(u),
         WorkerInv(w)', TaskInv(t)'
  PROVE  /\ OneOwner'
         /\ \A v \in Worker : WorkerInv(v)'
         /\ \A u \in Task : TaskInv(u)'
<1>0. /\ OneOwner
      /\ \A v \in Worker : WorkerInv(v)
      /\ \A u \in Task : TaskInv(u)
  BY Zenon DEF FiberInv
<1>1. \A v \in Worker : wpc[v] \in Holding => cur[v] \in Task
  BY <1>0, Zenon DEF WorkerInv
<1>2. OneOwner'
  BY <1>0, <1>1 DEF OneOwner
<1>3. ASSUME NEW v \in Worker PROVE WorkerInv(v)'
  <2>1. CASE v = w
    BY <2>1, Zenon
  <2>2. CASE v # w /\ wpc[v] \in Holding /\ cur[v] = t
    BY <1>0, <2>2 DEF WorkerInv, Finished
  <2>3. CASE v # w /\ wpc[v] \in Holding /\ cur[v] # t
    BY <1>0, <1>1, <2>3 DEF WorkerInv
  <2>4. CASE v # w /\ wpc[v] \notin Holding
    BY <1>0, <2>4 DEF WorkerInv, Holding
  <2> QED BY <2>1, <2>2, <2>3, <2>4, Zenon
<1>4. ASSUME NEW u \in Task PROVE TaskInv(u)'
  <2>1. CASE u = t
    BY <2>1, Zenon
  <2>2. CASE u # t
    <3>1. Held(u)' <=> Held(u)
      BY <2>2 DEF Held
    <3> QED BY <1>0, <2>2, <3>1 DEF TaskInv
  <2> QED BY <2>1, <2>2, Zenon
<1> QED BY <1>2, <1>3, <1>4

(* The queue is left alone and no queued fiber leaves INIT. *)
LEMMA SameQueue ==
  ASSUME TypeOK, QueueInv, queue' = queue,
         \A u \in Task : Queued(u) /\ fstate[u] = "INIT" => fstate'[u] = "INIT"
  PROVE  QueueInv' /\ \A u \in Task : Queued(u)' <=> Queued(u)
<1>1. \A i \in DOMAIN queue : queue[i] \in Entry
  BY DEF TypeOK
<1>2. \A i \in DOMAIN queue : queue[i].task \in Task /\ Queued(queue[i].task)
  BY <1>1 DEF Entry, Queued
<1>3. QueueInv'
  BY <1>2 DEF QueueInv
<1> QED BY <1>3 DEF Queued

(* The worker's program counter after Goto. *)
LEMMA AfterGoto ==
  ASSUME TypeOK, NEW w \in Worker, NEW pc \in WorkerPc, Goto(w, pc)
  PROVE  /\ wpc' \in [Worker -> WorkerPc]
         /\ wpc'[w] = pc
         /\ \A v \in Worker \ {w} : wpc'[v] = wpc[v]
  BY DEF TypeOK, Goto

(* The task a worker holds, and who else may hold it. *)
LEMMA HeldTask ==
  ASSUME FiberInv, NEW w \in Worker, wpc[w] \in Holding
  PROVE  /\ cur[w] \in Task
         /\ Held(cur[w])
         /\ \A v \in Worker \ {w} : wpc[v] \in Holding /\ cur[v] = cur[w] =>
                fstate[cur[w]] \in Finished
  BY DEF FiberInv, WorkerInv, OneOwner, Held

-----------------------------------------------------------------------------
(* A step inside the loop body: w keeps its fiber and queue and cur stay. *)
LEMMA KeepStep ==
  ASSUME FiberInv, NEW w \in Worker, wpc[w] \in Holding, NEW pc \in Holding,
         Goto(w, pc), UNCHANGED <<queue, cur>>, TypeOK',
         fstate[cur[w]] \in Finished => fstate'[cur[w]] = fstate[cur[w]],
         Queued(cur[w]) => fstate'[cur[w]] = fstate[cur[w]],
         \A u \in Task \ {cur[w]} :
           fstate'[u] = fstate[u] /\ (u \in armed' <=> u \in armed),
         WorkerInv(w)', TaskInv(cur[w])'
  PROVE  /\ OneOwner' /\ QueueInv'
         /\ \A v \in Worker : WorkerInv(v)'
         /\ \A u \in Task : TaskInv(u)'
<1> DEFINE t == cur[w]
<1>1. t \in Task /\ \A v \in Worker \ {w} :
        wpc[v] \in Holding /\ cur[v] = t => fstate[t] \in Finished
  BY HeldTask
<1>2. pc \in WorkerPc
  BY DEF Holding, WorkerPc
<1>3. wpc'[w] = pc /\ \A v \in Worker \ {w} : wpc'[v] = wpc[v]
  BY <1>2, AfterGoto DEF FiberInv
<1>4. QueueInv' /\ \A u \in Task : Queued(u)' <=> Queued(u)
  BY <1>1, SameQueue DEF FiberInv
<1> QED BY <1>1, <1>3, <1>4, LocalStep, Zenon

(* Fiber::swapIn keeps the invariant: only a fiber that is out of EXEC enters it. *)
LEMMA SwapInInv ==
  ASSUME FiberInv, NEW w \in Worker, SwapIn(w)
  PROVE  FiberInv'
<1> DEFINE t == cur[w]
<1>1. wpc[w] = "swapin" /\ wpc[w] \in Holding /\ Goto(w, "fiber")
      /\ UNCHANGED <<queue, cur>>
  BY DEF SwapIn, Holding
<1>2. t \in Task /\ Held(t) /\ TypeOK /\ WorkerInv(w) /\ TaskInv(t)
  BY <1>1, HeldTask, Zenon DEF FiberInv
<1>3. TypeOK'
  BY <1>2 DEF SwapIn, Goto, TypeOK, WorkerPc, FiberState
<1>4. ActiveIsCount'
  BY <1>1, CountSame DEF SwapIn, FiberInv, Counted
<1>5. wpc'[w] = "fiber" /\ (Queued(t)' <=> Queued(t))
  BY <1>1, <1>2 DEF Goto, TypeOK, Queued
<1>6. Held(t)'
  BY <1>1, <1>5 DEF Held, Holding
<1>7. /\ fstate[t] \in Finished => fstate'[t] = fstate[t]
      /\ Queued(t) => fstate'[t] = fstate[t]
      /\ \A u \in Task \ {t} :
           fstate'[u] = fstate[u] /\ (u \in armed' <=> u \in armed)
  BY <1>1, <1>2, Zenon DEF SwapIn, WorkerInv, TaskInv, TypeOK, Finished
<1>8. WorkerInv(w)' /\ TaskInv(t)'
  BY <1>1, <1>2, <1>5, <1>6, <1>7 DEF SwapIn, WorkerInv, TaskInv, TypeOK, Holding, Finished
<1>9. "fiber" \in Holding
  BY DEF Holding
<1>10. /\ OneOwner' /\ QueueInv'
       /\ \A v \in Worker : WorkerInv(v)'
       /\ \A u \in Task : TaskInv(u)'
  BY <1>1, <1>2, <1>3, <1>7, <1>8, <1>9, KeepStep, Zenon
<1> QED BY <1>3, <1>4, <1>10 DEF FiberInv

(* A fiber that registers its waker while it still runs keeps the invariant. *)
LEMMA FiberArmInv ==
  ASSUME FiberInv, NEW w \in Worker, FiberArm(w)
  PROVE  FiberInv'
<1> DEFINE t == cur[w]
<1>1. wpc[w] = "fiber" /\ wpc[w] \in Holding /\ Goto(w, "arming")
      /\ UNCHANGED <<queue, cur>>
  BY DEF FiberArm, Holding
<1>2. t \in Task /\ Held(t) /\ TypeOK /\ WorkerInv(w) /\ TaskInv(t)
  BY <1>1, HeldTask, Zenon DEF FiberInv
<1>3. TypeOK'
  BY <1>2 DEF FiberArm, Goto, TypeOK, WorkerPc
<1>4. ActiveIsCount'
  BY <1>1, CountSame DEF FiberArm, FiberInv, Counted
<1>5. wpc'[w] = "arming" /\ (Queued(t)' <=> Queued(t))
  BY <1>1, <1>2 DEF Goto, TypeOK, Queued
<1>6. Held(t)'
  BY <1>1, <1>5, Zenon DEF Held, Holding
<1>7. /\ fstate[t] \in Finished => fstate'[t] = fstate[t]
      /\ Queued(t) => fstate'[t] = fstate[t]
      /\ \A u \in Task \ {t} :
           fstate'[u] = fstate[u] /\ (u \in armed' <=> u \in armed)
  BY <1>1, <1>2, Zenon DEF FiberArm, WorkerInv, TaskInv, TypeOK, Finished
<1>8. WorkerInv(w)' /\ TaskInv(t)'
  BY <1>1, <1>2, <1>5, <1>6, <1>7 DEF FiberArm, WorkerInv, TaskInv, TypeOK, Holding, Finished
<1>9. "arming" \in Holding
  BY DEF Holding
<1>10. /\ OneOwner' /\ QueueInv'
       /\ \A v \in Worker : WorkerInv(v)'
       /\ \A u \in Task : TaskInv(u)'
  BY <1>1, <1>2, <1>3, <1>7, <1>8, <1>9, KeepStep, Zenon
<1> QED BY <1>3, <1>4, <1>10 DEF FiberInv

(* Fiber::YieldToHold keeps the invariant; the state stays EXEC. *)
LEMMA YieldToHoldInv ==
  ASSUME FiberInv, NEW w \in Worker, YieldToHold(w)
  PROVE  FiberInv'
<1> DEFINE t == cur[w]
<1>1. wpc[w] = "arming" /\ wpc[w] \in Holding /\ Goto(w, "leaving")
      /\ UNCHANGED <<queue, cur>>
  BY Zenon DEF YieldToHold, Holding
<1>2. t \in Task /\ Held(t) /\ TypeOK /\ WorkerInv(w) /\ TaskInv(t)
  BY <1>1, HeldTask, Zenon DEF FiberInv
<1>3. TypeOK'
  BY <1>2, Zenon DEF YieldToHold, Goto, TypeOK, WorkerPc
<1>4. ActiveIsCount'
  BY <1>1, CountSame DEF YieldToHold, FiberInv, Counted
<1>5. wpc'[w] = "leaving" /\ (Queued(t)' <=> Queued(t))
  BY <1>1, <1>2 DEF Goto, TypeOK, Queued
<1>6. Held(t)'
  BY <1>1, <1>5 DEF Held, Holding
<1>7. /\ fstate[t] \in Finished => fstate'[t] = fstate[t]
      /\ Queued(t) => fstate'[t] = fstate[t]
      /\ \A u \in Task \ {t} :
           fstate'[u] = fstate[u] /\ (u \in armed' <=> u \in armed)
  BY <1>1, <1>2, Zenon DEF YieldToHold, WorkerInv, TaskInv, TypeOK, Finished
<1>8. WorkerInv(w)' /\ TaskInv(t)'
  BY <1>1, <1>2, <1>5, <1>6, <1>7 DEF YieldToHold, WorkerInv, TaskInv, TypeOK, Holding, Finished
<1>9. "leaving" \in Holding
  BY DEF Holding
<1>10. /\ OneOwner' /\ QueueInv'
       /\ \A v \in Worker : WorkerInv(v)'
       /\ \A u \in Task : TaskInv(u)'
  BY <1>1, <1>2, <1>3, <1>7, <1>8, <1>9, KeepStep, Zenon
<1> QED BY <1>3, <1>4, <1>10, Zenon DEF FiberInv

(* Fiber::YieldToReady keeps the invariant. *)
LEMMA YieldToReadyInv ==
  ASSUME FiberInv, NEW w \in Worker, YieldToReady(w)
  PROVE  FiberInv'
<1> DEFINE t == cur[w]
<1>1. wpc[w] = "fiber" /\ wpc[w] \in Holding /\ Goto(w, "leaving")
      /\ UNCHANGED <<queue, cur>>
  BY DEF YieldToReady, Holding
<1>2. t \in Task /\ Held(t) /\ TypeOK /\ WorkerInv(w) /\ TaskInv(t)
  BY <1>1, HeldTask, Zenon DEF FiberInv
<1>3. TypeOK'
  BY <1>2 DEF YieldToReady, Goto, TypeOK, WorkerPc, FiberState
<1>4. ActiveIsCount'
  BY <1>1, CountSame DEF YieldToReady, FiberInv, Counted
<1>5. wpc'[w] = "leaving" /\ (Queued(t)' <=> Queued(t))
  BY <1>1, <1>2, Zenon DEF Goto, TypeOK, Queued
<1>6. Held(t)'
  BY <1>1, <1>5 DEF Held, Holding
<1>7. /\ fstate[t] \in Finished => fstate'[t] = fstate[t]
      /\ Queued(t) => fstate'[t] = fstate[t]
      /\ \A u \in Task \ {t} :
           fstate'[u] = fstate[u] /\ (u \in armed' <=> u \in armed)
  BY <1>1, <1>2 DEF YieldToReady, WorkerInv, TaskInv, TypeOK, Finished
<1>8. WorkerInv(w)' /\ TaskInv(t)'
  BY <1>1, <1>2, <1>5, <1>6, <1>7, Zenon
  DEF YieldToReady, WorkerInv, TaskInv, TypeOK, Holding, Finished
<1>9. "leaving" \in Holding
  BY DEF Holding
<1>10. /\ OneOwner' /\ QueueInv'
       /\ \A v \in Worker : WorkerInv(v)'
       /\ \A u \in Task : TaskInv(u)'
  BY <1>1, <1>2, <1>3, <1>7, <1>8, <1>9, KeepStep, Zenon
<1> QED BY <1>3, <1>4, <1>10 DEF FiberInv

(* The end of Fiber::MainFunc keeps the invariant. *)
LEMMA FiberEndInv ==
  ASSUME FiberInv, NEW w \in Worker, FiberEnd(w)
  PROVE  FiberInv'
<1> DEFINE t == cur[w]
<1>1. wpc[w] = "fiber" /\ wpc[w] \in Holding /\ Goto(w, "leaving")
      /\ UNCHANGED <<queue, cur>>
  BY Zenon DEF FiberEnd, Holding
<1>2. t \in Task /\ Held(t) /\ TypeOK /\ WorkerInv(w) /\ TaskInv(t)
  BY <1>1, HeldTask, Zenon DEF FiberInv
<1>3. TypeOK'
  BY <1>2, Zenon DEF FiberEnd, Goto, TypeOK, WorkerPc, FiberState, Finished
<1>4. ActiveIsCount'
  BY <1>1, CountSame, Zenon DEF FiberEnd, FiberInv, Counted
<1>5. wpc'[w] = "leaving" /\ (Queued(t)' <=> Queued(t))
  BY <1>1, <1>2 DEF Goto, TypeOK, Queued
<1>6. Held(t)'
  BY <1>1, <1>5, Zenon DEF Held, Holding
<1>7. /\ fstate[t] \in Finished => fstate'[t] = fstate[t]
      /\ Queued(t) => fstate'[t] = fstate[t]
      /\ \A u \in Task \ {t} :
           fstate'[u] = fstate[u] /\ (u \in armed' <=> u \in armed)
  BY <1>1, <1>2, Zenon DEF FiberEnd, WorkerInv, TaskInv, TypeOK, Finished
<1>8. WorkerInv(w)' /\ TaskInv(t)'
  BY <1>1, <1>2, <1>5, <1>6, <1>7 DEF FiberEnd, WorkerInv, TaskInv, TypeOK, Holding, Finished
<1>9. "leaving" \in Holding
  BY DEF Holding
<1>10. /\ OneOwner' /\ QueueInv'
       /\ \A v \in Worker : WorkerInv(v)'
       /\ \A u \in Task : TaskInv(u)'
  BY <1>1, <1>2, <1>3, <1>7, <1>8, <1>9, KeepStep, Zenon
<1> QED BY <1>3, <1>4, <1>10 DEF FiberInv

(* The switch back to the run loop keeps the invariant. *)
LEMMA SwapOutInv ==
  ASSUME FiberInv, NEW w \in Worker, SwapOut(w)
  PROVE  FiberInv'
<1> DEFINE t == cur[w]
<1>1. wpc[w] = "leaving" /\ wpc[w] \in Holding /\ Goto(w, "out")
      /\ UNCHANGED <<queue, cur>>
  BY DEF SwapOut, Holding
<1>2. t \in Task /\ Held(t) /\ TypeOK /\ WorkerInv(w) /\ TaskInv(t)
  BY <1>1, HeldTask, Zenon DEF FiberInv
<1>3. TypeOK'
  BY <1>2 DEF SwapOut, Goto, TypeOK, WorkerPc
<1>4. ActiveIsCount'
  BY <1>1, CountSame DEF SwapOut, FiberInv, Counted
<1>5. wpc'[w] = "out" /\ (Queued(t)' <=> Queued(t))
  BY <1>1, <1>2 DEF Goto, TypeOK, Queued
<1>6. Held(t)'
  BY <1>1, <1>5 DEF Held, Holding
<1>7. /\ fstate[t] \in Finished => fstate'[t] = fstate[t]
      /\ Queued(t) => fstate'[t] = fstate[t]
      /\ \A u \in Task \ {t} :
           fstate'[u] = fstate[u] /\ (u \in armed' <=> u \in armed)
  BY <1>1, <1>2, Zenon DEF SwapOut, WorkerInv, TaskInv, TypeOK, Finished
<1>8. WorkerInv(w)' /\ TaskInv(t)'
  BY <1>1, <1>2, <1>5, <1>6, <1>7 DEF SwapOut, WorkerInv, TaskInv, TypeOK, Holding, Finished
<1>9. "out" \in Holding
  BY DEF Holding
<1>10. /\ OneOwner' /\ QueueInv'
       /\ \A v \in Worker : WorkerInv(v)'
       /\ \A u \in Task : TaskInv(u)'
  BY <1>1, <1>2, <1>3, <1>7, <1>8, <1>9, KeepStep, Zenon
<1> QED BY <1>3, <1>4, <1>10 DEF FiberInv

(* --m_activateThreadCount after swapIn keeps the invariant. *)
LEMMA BackInRunInv ==
  ASSUME FiberInv, NEW w \in Worker, BackInRun(w)
  PROVE  FiberInv'
<1> DEFINE t == cur[w]
<1>1. wpc[w] = "out" /\ wpc[w] \in Holding /\ Goto(w, "post")
      /\ UNCHANGED <<queue, cur>>
  BY DEF BackInRun, Holding
<1>2. t \in Task /\ Held(t) /\ TypeOK /\ WorkerInv(w) /\ TaskInv(t)
  BY <1>1, HeldTask, Zenon DEF FiberInv
<1>4. ActiveIsCount' /\ active' \in Nat
  BY <1>1, CountDown DEF BackInRun, FiberInv, Counted
<1>3. TypeOK'
  BY <1>2, <1>4 DEF BackInRun, Goto, TypeOK, WorkerPc
<1>5. wpc'[w] = "post" /\ (Queued(t)' <=> Queued(t))
  BY <1>1, <1>2 DEF Goto, TypeOK, Queued
<1>6. Held(t)'
  BY <1>1, <1>5 DEF Held, Holding
<1>7. /\ fstate[t] \in Finished => fstate'[t] = fstate[t]
      /\ Queued(t) => fstate'[t] = fstate[t]
      /\ \A u \in Task \ {t} :
           fstate'[u] = fstate[u] /\ (u \in armed' <=> u \in armed)
  BY <1>1, <1>2, Zenon DEF BackInRun, WorkerInv, TaskInv, TypeOK, Finished
<1>8. WorkerInv(w)' /\ TaskInv(t)'
  BY <1>1, <1>2, <1>5, <1>6, <1>7 DEF BackInRun, WorkerInv, TaskInv, TypeOK, Holding, Finished
<1>9. "post" \in Holding
  BY DEF Holding
<1>10. /\ OneOwner' /\ QueueInv'
       /\ \A v \in Worker : WorkerInv(v)'
       /\ \A u \in Task : TaskInv(u)'
  BY <1>1, <1>2, <1>3, <1>7, <1>8, <1>9, KeepStep, Zenon
<1> QED BY <1>3, <1>4, <1>10 DEF FiberInv

-----------------------------------------------------------------------------
(* schedule() of task t by anyone: fibers and workers stay as they are. *)
LEMMA EnqueueStep ==
  ASSUME FiberInv, NEW t \in Task, NEW thread \in Worker \cup {NoThread},
         NEW cb \in BOOLEAN, ScheduleNoLock(t, thread, cb), ~Queued(t),
         armed' = armed \ {t}, UNCHANGED <<fstate, wpc, cur>>,
         UNCHANGED <<idleTerm, active, stopFlag, autoStop, cpc, yields>>,
         cb => fstate[t] = "INIT",
         \/ fstate[t] = "INIT" /\ ~Held(t)
         \/ fstate[t] \in Finished
         \/ t \in armed
  PROVE  FiberInv'
<1> USE DEF FiberInv
<1>1. queue' \in Seq(Entry) /\ \A u \in Task : Queued(u)' <=> Queued(u) \/ u = t
  BY AppendQueued, Zenon
<1>2. TypeOK'
  BY <1>1 DEF TypeOK
<1>3. ActiveIsCount'
  BY DEF ActiveIsCount
<1>4. QueueInv'
  BY AppendQueueInv, Zenon
<1>5. OneOwner'
  BY DEF OneOwner
<1>6. \A u \in Task : Held(u)' <=> Held(u)
  BY DEF Held
<1>7. ASSUME NEW w \in Worker PROVE WorkerInv(w)'
  <2>1. CASE wpc[w] \notin Holding
    BY <2>1, Zenon DEF WorkerInv, Holding
  <2>2. CASE wpc[w] \in Holding /\ cur[w] # t
    BY <1>1, <2>2, Zenon DEF WorkerInv
  <2>3. CASE wpc[w] \in Holding /\ cur[w] = t
    <3>1. Held(t)
      BY <2>3 DEF Held
    <3> QED BY <1>1, <2>3, <3>1, Zenon DEF WorkerInv, Finished, Holding
  <2> QED BY <2>1, <2>2, <2>3
<1>8. ASSUME NEW u \in Task PROVE TaskInv(u)'
  BY <1>1, <1>6, Zenon DEF TaskInv
<1> QED BY <1>2, <1>3, <1>4, <1>5, <1>7, <1>8

(* A schedule() from inside a fiber keeps the invariant. *)
LEMMA FiberScheduleInv ==
  ASSUME FiberInv, NEW w \in Worker, NEW t \in Task, FiberSchedule(w, t)
  PROVE  FiberInv'
<1>1. PICK thread \in {NoThread, w} : ScheduleNoLock(t, thread, t \in Callback)
  BY DEF FiberSchedule
<1>2. fstate[t] = "INIT" /\ ~Held(t) /\ ~Queued(t) /\ t \notin armed
  BY DEF FiberSchedule, Fresh, FiberInv, TaskInv
<1>3. (t \in Callback) \in BOOLEAN /\ thread \in Worker \cup {NoThread}
  OBVIOUS
<1>4. armed' = armed \ {t}
  BY <1>2 DEF FiberSchedule
<1> QED BY <1>1, <1>2, <1>3, <1>4, EnqueueStep, Zenon DEF FiberSchedule

(* A schedule() by the owner keeps the invariant. *)
LEMMA CallerScheduleInv ==
  ASSUME FiberInv, NEW t \in Task, CallerSchedule(t)
  PROVE  FiberInv'
<1>1. fstate[t] = "INIT" /\ ~Held(t) /\ ~Queued(t) /\ t \notin armed
  BY DEF CallerSchedule, Fresh, FiberInv, TaskInv
<1>2. (t \in Callback) \in BOOLEAN /\ armed' = armed \ {t}
  BY <1>1 DEF CallerSchedule
<1> QED BY <1>1, <1>2, EnqueueStep, Zenon DEF CallerSchedule

(* A schedule() of an ended fiber keeps the invariant. *)
LEMMA CallerScheduleEndedInv ==
  ASSUME FiberInv, NEW t \in Task, CallerScheduleEnded(t)
  PROVE  FiberInv'
<1>1. t \notin armed
  BY DEF CallerScheduleEnded, FiberInv, TaskInv
<1>2. armed' = armed \ {t}
  BY <1>1 DEF CallerScheduleEnded
<1> QED BY <1>2, EnqueueStep, Zenon DEF CallerScheduleEnded

(* A waker that schedules the fiber it was armed for keeps the invariant, also
   when the fiber has not left its thread. *)
LEMMA WakeInv ==
  ASSUME FiberInv, NEW t \in Task, Wake(t)
  PROVE  FiberInv'
<1>1. ~Queued(t)
  BY DEF Wake, FiberInv, TaskInv
<1> QED BY <1>1, EnqueueStep, Zenon DEF Wake

-----------------------------------------------------------------------------
(* The critical section of run(). *)
LEMMA PopTaskInv ==
  ASSUME FiberInv, NEW w \in Worker, PopTask(w)
  PROVE  FiberInv'
<1> USE DEF FiberInv
<1>1. PICK i \in DOMAIN queue :
        /\ Eligible(w, queue[i])
        /\ cur' = [cur EXCEPT ![w] = queue[i].task]
        /\ queue' = RemoveAt(queue, i)
  BY Zenon DEF PopTask
<1>2. queue[i] \in Entry
  BY DEF TypeOK
<1>3. PICK t \in Task : t = queue[i].task /\ Queued(t)
  BY <1>2, Zenon DEF Entry, Queued
<1>4. fstate[t] # "EXEC" /\ t \notin armed
  BY <1>1, <1>3, Zenon DEF Eligible, QueueInv, TaskInv
<1>5. /\ queue' \in Seq(Entry)
      /\ \A u \in Task : Queued(u)' <=> Queued(u) /\ u # t
  BY <1>1, <1>3, RemoveAtQueued
<1>6. wpc[w] = "pop" /\ Goto(w, "swapin") /\ UNCHANGED <<fstate, armed>>
  BY DEF PopTask
<1>7. /\ wpc' \in [Worker -> WorkerPc] /\ wpc'[w] = "swapin"
      /\ \A v \in Worker \ {w} : wpc'[v] = wpc[v]
  BY <1>6, AfterGoto DEF WorkerPc
<1>8. ActiveIsCount' /\ active' \in Nat
  BY <1>6, CountUp DEF PopTask, Counted
<1>9. TypeOK'
  BY <1>1, <1>3, <1>5, <1>7, <1>8, Zenon DEF PopTask, TypeOK
<1>10. cur'[w] = t /\ \A v \in Worker \ {w} : cur'[v] = cur[v]
  BY <1>1, <1>3, Zenon DEF TypeOK
<1>11. \A v \in Worker \ {w} : wpc[v] \in Holding /\ cur[v] = t => fstate[t] \in Finished
  BY <1>3, <1>4 DEF WorkerInv, Holding
<1>12. QueueInv'
  <2>1. \A j \in DOMAIN queue' : \E k \in DOMAIN queue : queue'[j] = queue[k]
    BY <1>1, RemoveAtQueued
  <2>2. \A j, k \in DOMAIN queue' : queue'[j].task = queue'[k].task => j = k
    BY <1>1, RemoveAtQueued
  <2>3. ASSUME NEW j \in DOMAIN queue', queue'[j].cb
        PROVE  fstate'[queue'[j].task] = "INIT"
    BY <1>6, <2>1, <2>3 DEF QueueInv
  <2> QED BY <2>2, <2>3, Zenon DEF QueueInv
<1>13. Held(t)'
  BY <1>7, <1>10 DEF Held, Holding
<1>14. WorkerInv(w)' /\ TaskInv(t)'
  BY <1>3, <1>4, <1>5, <1>6, <1>7, <1>10, <1>13, Zenon DEF WorkerInv, TaskInv, Holding, Finished
<1>15. wpc[w] \notin Holding
  BY <1>6 DEF Holding
<1>16. /\ OneOwner'
       /\ \A v \in Worker : WorkerInv(v)'
       /\ \A u \in Task : TaskInv(u)'
  BY <1>3, <1>5, <1>6, <1>7, <1>10, <1>11, <1>14, <1>15, LocalStep, Zenon
<1> QED BY <1>8, <1>9, <1>12, <1>16

(* A worker without a fiber moves on: PopNone and Idle. *)
LEMMA FreeStep ==
  ASSUME FiberInv, NEW w \in Worker, NEW pc \in WorkerPc \ Holding, Goto(w, pc),
         wpc[w] \notin Holding, idleTerm' \in SUBSET Worker,
         UNCHANGED <<fstate, queue, armed, cur, active, stopFlag, autoStop, yields>>,
         cpc' \in CallerPc
  PROVE  FiberInv'
<1> USE DEF FiberInv
<1>1. /\ wpc' \in [Worker -> WorkerPc] /\ wpc'[w] = pc
      /\ \A v \in Worker \ {w} : wpc'[v] = wpc[v]
  BY AfterGoto
<1>2. TypeOK'
  BY <1>1 DEF TypeOK
<1>3. Counted \subseteq Holding
  BY DEF Counted, Holding
<1>4. ActiveIsCount'
  BY <1>3, CountSame
<1>5. OneOwner'
  BY <1>1 DEF OneOwner
<1>6. QueueInv' /\ \A u \in Task : Queued(u)' <=> Queued(u)
  BY SameQueue, Zenon
<1>7. \A u \in Task : Held(u)' <=> Held(u)
  BY <1>1, Zenon DEF Held
<1>8. ASSUME NEW v \in Worker PROVE WorkerInv(v)'
  <2>1. CASE wpc'[v] \notin Holding
    BY <2>1, Zenon DEF WorkerInv, Holding
  <2>2. CASE wpc'[v] \in Holding
    BY <1>1, <1>6, <2>2, Zenon DEF WorkerInv
  <2> QED BY <2>1, <2>2
<1>9. \A u \in Task : TaskInv(u)'
  BY <1>6, <1>7 DEF TaskInv
<1> QED BY <1>2, <1>4, <1>5, <1>6, <1>8, <1>9

(* A round of run() that finds no task keeps the invariant. *)
LEMMA PopNoneInv ==
  ASSUME FiberInv, NEW w \in Worker, PopNone(w)
  PROVE  FiberInv'
<1>1. PICK pc \in {"done", "idle"} : Goto(w, pc)
  BY DEF PopNone
<1>2. pc \in WorkerPc \ Holding /\ wpc[w] \notin Holding
  BY DEF PopNone, WorkerPc, Holding
<1>3. idleTerm' \in SUBSET Worker /\ cpc' \in CallerPc
  BY DEF PopNone, FiberInv, TypeOK
<1> QED BY <1>1, <1>2, <1>3, FreeStep DEF PopNone

(* A round of Scheduler::idle keeps the invariant. *)
LEMMA IdleInv ==
  ASSUME FiberInv, NEW w \in Worker, Idle(w)
  PROVE  FiberInv'
<1>1. "pop" \in WorkerPc \ Holding /\ wpc[w] \notin Holding
  BY DEF Idle, WorkerPc, Holding
<1>2. idleTerm' \in SUBSET Worker /\ cpc' \in CallerPc
  BY DEF Idle, FiberInv, TypeOK
<1> QED BY <1>1, <1>2, FreeStep DEF Idle

(* Dropping a queued fiber that has ended keeps the invariant. *)
LEMMA SkipFinishedInv ==
  ASSUME FiberInv, NEW w \in Worker, SkipFinished(w)
  PROVE  FiberInv'
<1> USE DEF FiberInv
<1>1. wpc[w] = "swapin" /\ wpc[w] \in Holding /\ Goto(w, "pop")
      /\ UNCHANGED <<fstate, queue, armed>>
  BY DEF SkipFinished, Holding
<1>2. PICK t \in Task : t = cur[w] /\ fstate[t] \in Finished
  BY <1>1, HeldTask DEF SkipFinished
<1>3. /\ wpc' \in [Worker -> WorkerPc] /\ wpc'[w] = "pop"
      /\ \A v \in Worker \ {w} : wpc'[v] = wpc[v]
  BY <1>1, AfterGoto DEF WorkerPc
<1>4. ActiveIsCount' /\ active' \in Nat
  BY <1>1, CountDown DEF SkipFinished, Counted
<1>5. TypeOK' /\ \A v \in Worker \ {w} : cur'[v] = cur[v]
  BY <1>3, <1>4, Zenon DEF SkipFinished, TypeOK
<1>6. QueueInv' /\ \A u \in Task : Queued(u)' <=> Queued(u)
  BY <1>1, SameQueue, Zenon
<1>7. WorkerInv(w)' /\ wpc'[w] \notin Holding
  BY <1>3, Zenon DEF WorkerInv, Holding
<1>8. TaskInv(t)'
  BY <1>1, <1>2, <1>6, Zenon DEF TaskInv, Finished
<1>9. /\ OneOwner'
      /\ \A v \in Worker : WorkerInv(v)'
      /\ \A u \in Task : TaskInv(u)'
  BY <1>1, <1>2, <1>3, <1>5, <1>6, <1>7, <1>8, LocalStep, Zenon
<1> QED BY <1>4, <1>5, <1>6, <1>9

(* What run() does with a fiber that came back keeps the invariant. *)
LEMMA AfterRunInv ==
  ASSUME FiberInv, NEW w \in Worker, AfterRun(w)
  PROVE  FiberInv'
<1> USE DEF FiberInv
<1>1. /\ wpc[w] = "post" /\ wpc[w] \in Holding /\ Goto(w, "pop")
      /\ UNCHANGED <<armed, idleTerm, active, stopFlag, autoStop, cpc, yields>>
      /\ cur' = [cur EXCEPT ![w] = NoTask]
  BY DEF AfterRun, Holding
<1>2. PICK t \in Task : t = cur[w]
  BY <1>1, HeldTask, Zenon
<1>3. /\ wpc' \in [Worker -> WorkerPc] /\ wpc'[w] = "pop"
      /\ \A v \in Worker \ {w} : wpc'[v] = wpc[v] /\ cur'[v] = cur[v]
  BY <1>1, AfterGoto DEF WorkerPc, TypeOK
<1>4. ActiveIsCount'
  BY <1>1, CountSame, Zenon DEF Counted
<1>5. WorkerInv(w)' /\ wpc'[w] \notin Holding
  BY <1>3, Zenon DEF WorkerInv, Holding
<1>6. \A v \in Worker \ {w} : wpc[v] \in Holding /\ cur[v] = t => fstate[t] \in Finished
  BY <1>1, <1>2, HeldTask
<1>7. fstate[t] \notin Finished => ~Held(t)'
  BY <1>3, <1>5, <1>6 DEF Held
<1>8. CASE fstate[t] = "READY"
  <2>1. ScheduleNoLock(t, NoThread, FALSE) /\ fstate' = fstate
    BY <1>2, <1>8, Zenon DEF AfterRun
  <2>2. ~Queued(t) /\ t \notin armed
    BY <1>1, <1>2, <1>8 DEF WorkerInv
  <2>3. queue' \in Seq(Entry) /\ \A u \in Task : Queued(u)' <=> Queued(u) \/ u = t
    BY <2>1, AppendQueued, Zenon
  <2>4. QueueInv'
    BY <2>1, <2>2, AppendQueueInv, Zenon
  <2>5. TypeOK'
    BY <1>1, <1>3, <2>1, <2>3, Zenon DEF TypeOK
  <2>6. TaskInv(t)'
    BY <1>1, <1>8, <2>1, <2>2, <2>3, Zenon DEF TaskInv, Finished
  <2>7. /\ OneOwner'
        /\ \A v \in Worker : WorkerInv(v)'
        /\ \A u \in Task : TaskInv(u)'
    BY <1>1, <1>2, <1>3, <1>5, <1>6, <2>1, <2>3, <2>6, LocalStep, Zenon
  <2> QED BY <1>4, <2>4, <2>5, <2>7
<1>9. CASE fstate[t] # "READY"
  <2>1. /\ queue' = queue
        /\ fstate' = IF fstate[t] \in Finished THEN fstate
                     ELSE [fstate EXCEPT ![t] = "HOLD"]
    BY <1>2, <1>9, Zenon DEF AfterRun
  <2>2. fstate[t] \in Finished \/ (fstate[t] = "EXEC" /\ (Queued(t) \/ t \in armed))
    BY <1>1, <1>2, <1>9 DEF WorkerInv
  <2>3. /\ \A u \in Task \ {t} : fstate'[u] = fstate[u]
        /\ fstate'[t] = IF fstate[t] \in Finished THEN fstate[t] ELSE "HOLD"
    BY <2>1 DEF TypeOK
  <2>4. QueueInv' /\ \A u \in Task : Queued(u)' <=> Queued(u)
    BY <2>1, <2>2, <2>3, SameQueue DEF Finished
  <2>5. TypeOK'
    BY <1>1, <1>3, <2>1, Zenon DEF TypeOK, FiberState
  <2>6. TaskInv(t)'
    BY <1>1, <1>7, <2>2, <2>3, <2>4, Zenon DEF TaskInv, Finished
  <2>7. /\ OneOwner'
        /\ \A v \in Worker : WorkerInv(v)'
        /\ \A u \in Task : TaskInv(u)'
    BY <1>1, <1>2, <1>3, <1>5, <1>6, <2>3, <2>4, <2>6, LocalStep, Zenon
  <2> QED BY <1>4, <2>4, <2>5, <2>7
<1> QED BY <1>8, <1>9

-----------------------------------------------------------------------------
(* The caller's flags and program counter are not part of FiberInv. *)
LEMMA CallerOnly ==
  ASSUME FiberInv, UNCHANGED <<fstate, queue, armed, wpc, cur, idleTerm, active, yields>>,
         stopFlag' \in BOOLEAN, autoStop' \in BOOLEAN, cpc' \in CallerPc
  PROVE  FiberInv'
<1> USE DEF FiberInv
<1>1. TypeOK' /\ ActiveIsCount' /\ OneOwner'
  BY DEF TypeOK, ActiveIsCount, OneOwner
<1>2. QueueInv' /\ \A u \in Task : Queued(u)' <=> Queued(u)
  BY SameQueue
<1>3. \A u \in Task : Held(u)' <=> Held(u)
  BY DEF Held
<1>4. \A w \in Worker : WorkerInv(w)'
  <2> SUFFICES ASSUME NEW w \in Worker PROVE WorkerInv(w)'
    OBVIOUS
  <2>1. CASE wpc[w] \notin Holding
    BY <2>1, Zenon DEF WorkerInv, Holding
  <2>2. CASE wpc[w] \in Holding
    BY <1>2, <2>2, Zenon DEF WorkerInv
  <2> QED BY <2>1, <2>2
<1>5. \A u \in Task : TaskInv(u)'
  BY <1>2, <1>3 DEF TaskInv
<1> QED BY <1>1, <1>2, <1>4, <1>5

(* start() keeps the invariant. *)
LEMMA StartInv ==
  ASSUME IInv, Start
  PROVE  FiberInv'
<1> USE DEF IInv, FiberInv
<1>1. \A w \in Worker : wpc[w] = "off" /\ wpc'[w] \in {"off", "pop"}
  BY DEF Start, CallerInv
<1>2. \A w \in Worker : wpc[w] \notin Holding /\ wpc'[w] \notin Holding
                       /\ wpc[w] \notin Counted /\ wpc'[w] \notin Counted
  BY <1>1 DEF Holding, Counted
<1>3. TypeOK'
  BY Zenon DEF Start, TypeOK, WorkerPc, CallerPc
<1>4. ActiveIsCount'
  <2>1. {w \in Worker : wpc[w] \in Counted}' = {w \in Worker : wpc[w] \in Counted}
    BY <1>2, Zenon
  <2> QED BY <2>1 DEF ActiveIsCount, Start
<1>5. OneOwner' /\ \A w \in Worker : WorkerInv(w)'
  BY <1>2, Zenon DEF OneOwner, WorkerInv, Holding
<1>6. QueueInv' /\ \A u \in Task : Queued(u)' <=> Queued(u)
  BY SameQueue DEF Start
<1>7. \A u \in Task : Held(u)' <=> Held(u)
  BY <1>2 DEF Held
<1>8. \A u \in Task : TaskInv(u)'
  BY <1>6, <1>7 DEF TaskInv, Start
<1> QED BY <1>3, <1>4, <1>5, <1>6, <1>8

(* Entering the root fiber from stop() keeps the invariant. *)
LEMMA StopCallRootInv ==
  ASSUME IInv, StopCallRoot
  PROVE  FiberInv'
<1>1. CASE Root # NoThread /\ ~Stopping
  <2>1. Root \in Worker /\ Goto(Root, "pop")
    BY <1>1, SchedulerAssumption DEF StopCallRoot
  <2>2. wpc[Root] \notin Holding /\ "pop" \in WorkerPc \ Holding
    BY <2>1, Zenon DEF StopCallRoot, IInv, CallerInv, Holding, WorkerPc
  <2>3. idleTerm' \in SUBSET Worker /\ cpc' \in CallerPc
    BY <1>1 DEF StopCallRoot, IInv, FiberInv, TypeOK, CallerPc
  <2> QED BY <2>1, <2>2, <2>3, FreeStep DEF StopCallRoot, IInv
<1>2. CASE ~(Root # NoThread /\ ~Stopping)
  <2>1. cpc' \in CallerPc /\ stopFlag' \in BOOLEAN /\ autoStop' \in BOOLEAN
    BY <1>2 DEF StopCallRoot, IInv, FiberInv, TypeOK, CallerPc
  <2> QED BY <1>2, <2>1, CallerOnly DEF StopCallRoot, IInv
<1> QED BY <1>1, <1>2

(* Threads that have not begun run() stay out of it. *)
LEMMA OffStaysOff ==
  ASSUME CallerInv, cpc' = cpc, \A v \in Worker : wpc[v] = "off" => wpc'[v] = "off"
  PROVE  CallerInv'
  BY DEF CallerInv

(* No step lets a worker of a scheduler that was not started run, or the root
   worker outside stop(). *)
LEMMA CallerInvStep ==
  ASSUME IInv, [Next]_vars
  PROVE  CallerInv'
<1> USE DEF IInv, FiberInv
<1>1. CASE Start
  BY <1>1 DEF Start, CallerInv
<1>2. CASE StopBegin
  BY <1>2, Zenon DEF StopBegin, CallerInv
<1>3. CASE StopSetFlag \/ StopCallRoot \/ StopRootBack \/ StopJoin
  BY <1>3 DEF StopSetFlag, StopCallRoot, StopRootBack, StopJoin, CallerInv
<1>4. ASSUME NEW t \in Task, CallerSchedule(t) \/ CallerScheduleEnded(t) \/ Wake(t)
      PROVE  CallerInv'
  BY <1>4, OffStaysOff, Zenon DEF CallerSchedule, CallerScheduleEnded, Wake
<1>5. ASSUME NEW w \in Worker, Run(w)
      PROVE  CallerInv'
  BY <1>5, OffStaysOff, Zenon DEF Run, PopTask, PopNone, Idle, SwapIn, SkipFinished,
     BackInRun, AfterRun, Goto, TypeOK
<1>6. ASSUME NEW w \in Worker, FiberStep(w)
      PROVE  CallerInv'
  BY <1>6, OffStaysOff, Zenon DEF FiberStep, FiberSchedule, FiberArm, YieldToHold,
     YieldToReady, FiberEnd, SwapOut, Goto, TypeOK
<1>7. CASE UNCHANGED vars
  BY <1>7 DEF vars, CallerInv
<1> QED
  BY <1>1, <1>2, <1>3, <1>4, <1>5, <1>6, <1>7 DEF Next, Caller, CallerStop, Stopped

-----------------------------------------------------------------------------
(* The constructor establishes the inductive invariant. *)
LEMMA InitIInv == Init => IInv
<1>1. Init => CallerInv
  BY DEF Init, CallerInv
<1> QED BY <1>1, InitFiberInv DEF IInv

(* Every step of every thread keeps the inductive invariant. *)
LEMMA NextIInv == IInv /\ [Next]_vars => IInv'
<1> SUFFICES ASSUME IInv, [Next]_vars PROVE FiberInv'
  BY CallerInvStep DEF IInv
<1>1. FiberInv
  BY DEF IInv
<1>2. CASE Start
  BY <1>2, StartInv, Zenon
<1>3. CASE StopBegin \/ StopSetFlag \/ StopRootBack \/ StopJoin
  <2>1. stopFlag' \in BOOLEAN /\ autoStop' \in BOOLEAN /\ cpc' \in CallerPc
    BY <1>1, <1>3, Zenon DEF StopBegin, StopSetFlag, StopRootBack, StopJoin, FiberInv,
       TypeOK, CallerPc
  <2> QED
    BY <1>1, <1>3, <2>1, CallerOnly DEF StopBegin, StopSetFlag, StopRootBack, StopJoin
<1>4. CASE StopCallRoot
  BY <1>4, StopCallRootInv
<1>5. ASSUME NEW t \in Task, CallerSchedule(t) \/ CallerScheduleEnded(t) \/ Wake(t)
      PROVE  FiberInv'
  BY <1>1, <1>5, CallerScheduleInv, CallerScheduleEndedInv, WakeInv
<1>6. ASSUME NEW w \in Worker, Run(w)
      PROVE  FiberInv'
  BY <1>1, <1>6, PopTaskInv, PopNoneInv, IdleInv, SwapInInv, SkipFinishedInv,
     BackInRunInv, AfterRunInv DEF Run
<1>7. ASSUME NEW w \in Worker, FiberStep(w)
      PROVE  FiberInv'
  BY <1>1, <1>7, FiberScheduleInv, FiberArmInv, YieldToHoldInv, YieldToReadyInv,
     FiberEndInv, SwapOutInv DEF FiberStep
<1>8. CASE UNCHANGED vars
  <2>1. stopFlag' \in BOOLEAN /\ autoStop' \in BOOLEAN /\ cpc' \in CallerPc
    BY <1>1, <1>8 DEF vars, FiberInv, TypeOK
  <2> QED BY <1>1, <1>8, <2>1, CallerOnly DEF vars
<1> QED
  BY <1>2, <1>3, <1>4, <1>5, <1>6, <1>7, <1>8 DEF Next, Caller, CallerStop, Stopped

(* Every reachable state of the scheduler, for any number of workers and tasks,
   satisfies the inductive invariant: each fiber in the hands of a worker is in
   the state that point of Scheduler::run and of fiber.cpp relies on, and
   m_activateThreadCount is the number of workers inside a fiber. *)
THEOREM SchedulerInvariant == Spec => []IInv
  BY InitIInv, NextIInv, PTL DEF Spec

(* The variables keep their types; in particular m_activateThreadCount never
   becomes negative. *)
THEOREM SchedulerTypes == Spec => []TypeOK
<1>1. IInv => TypeOK
  BY DEF IInv, FiberInv
<1> QED BY <1>1, SchedulerInvariant, PTL

(* The assertions of Fiber::swapIn and Fiber::YieldToHold never fail. *)
THEOREM AssertionsHold == Spec => []FiberAssertions
<1>1. IInv => FiberAssertions
  BY DEF IInv, FiberInv, FiberAssertions, WorkerInv
<1> QED BY <1>1, SchedulerInvariant, PTL

(* No two workers ever hold the same live fiber. *)
THEOREM ExclusiveFibers == Spec => []OneOwner
<1>1. IInv => OneOwner
  BY DEF IInv, FiberInv
<1> QED BY <1>1, SchedulerInvariant, PTL

(* A suspended fiber is referenced by exactly one queue entry or waker. *)
THEOREM SingleWayBack == Spec => []OneWayBack
<1>1. IInv => OneWayBack
  <2> SUFFICES ASSUME IInv PROVE OneWayBack
    OBVIOUS
  <2>1. QueueInv /\ \A t \in Task : TaskInv(t)
    BY DEF IInv, FiberInv
  <2> QED BY <2>1, Zenon DEF OneWayBack, QueueInv, TaskInv
<1> QED BY <1>1, SchedulerInvariant, PTL

(* A worker ends its idle fiber only while nobody is inside a fiber and the
   queue is empty, because the counter stopping() reads is exact. *)
THEOREM QuietIdle == Spec => IdleEndsWhenQuiet
<1>1. ASSUME IInv, Stopping
      PROVE  queue = <<>> /\ \A w \in Worker : wpc[w] \notin Counted
  <2>1. Cardinality(CountedWorkers) = 0 /\ IsFiniteSet(CountedWorkers)
    BY <1>1, CountedFinite DEF IInv, FiberInv, ActiveIsCount, CountedWorkers, Stopping
  <2>2. CountedWorkers = {}
    BY <2>1, FS_EmptySet
  <2> QED BY <1>1, <2>2 DEF CountedWorkers, Stopping
<1>2. ASSUME IInv, [Next]_vars, idleTerm' # idleTerm
      PROVE  Stopping
  BY <1>2, Zenon DEF Next, vars, Caller, CallerStop, Stopped, Start, CallerSchedule,
     CallerScheduleEnded, StopBegin, StopSetFlag, StopCallRoot, StopRootBack,
     StopJoin, Run, PopTask, PopNone, Idle, SwapIn, SkipFinished, BackInRun,
     AfterRun, FiberStep, FiberSchedule, FiberArm, YieldToHold, YieldToReady,
     FiberEnd, SwapOut, Wake
<1>3. IInv /\ [Next]_vars =>
        [idleTerm' # idleTerm =>
           queue = <<>> /\ \A w \in Worker : wpc[w] \notin Counted]_vars
  BY <1>1, <1>2
<1> QED BY <1>3, SchedulerInvariant, PTL DEF Spec, IdleEndsWhenQuiet

=============================================================================
