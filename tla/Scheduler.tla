----------------------------- MODULE Scheduler -----------------------------
(***************************************************************************)
(* The N:M fiber scheduler of scheduler.cpp together with the fiber life   *)
(* cycle of fiber.cpp.                                                     *)
(*                                                                         *)
(* A task is what schedule() accepts: a Fiber object, or a callback that   *)
(* run() wraps into a fiber of its own.  Each worker thread executes       *)
(* Scheduler::run; the calling thread executes start(), schedule() and     *)
(* stop(), and is itself a worker (Root) when the scheduler was built with *)
(* use_call.  A step of a thread is what it does between two points where  *)
(* another thread can see the difference: a critical section of m_mutex,   *)
(* an access to a fiber's m_state, an update of m_activateThreadCount.     *)
(*                                                                         *)
(* A running fiber may hand a reference to itself to a waker (an event     *)
(* slot or a timer, see hook.cpp) and then call YieldToHold; armed is the  *)
(* set of fibers whose reference a waker holds.  The waker calls           *)
(* schedule(fiber) once, possibly before the fiber has left its thread.    *)
(***************************************************************************)
EXTENDS Integers, Sequences, FiniteSets

CONSTANTS
  Worker,       \* threads that execute Scheduler::run
  Root,         \* the caller's thread if use_call, otherwise NoThread
  Task,         \* tasks that may be scheduled
  Callback,     \* the tasks scheduled as std::function, the rest are fibers
  Suspending,   \* the tasks that may wait for an event or a timer
  NoThread,     \* thread id -1
  NoTask,       \* an empty FiberAndThread
  MaxYield,     \* bound on the yields of one task
  MayStop       \* whether the caller ever calls stop()

ASSUME SchedulerAssumption ==
  /\ IsFiniteSet(Worker)
  /\ Callback \subseteq Task
  /\ Suspending \subseteq Task
  /\ NoTask \notin Task
  /\ NoThread \notin Worker
  /\ Root \in Worker \cup {NoThread}
  /\ MaxYield \in Nat
  /\ MayStop \in BOOLEAN

VARIABLES
  fstate,     \* Fiber::m_state of each task's fiber
  queue,      \* Scheduler::m_fibers
  armed,      \* fibers whose reference is held by an event slot or a timer
  wpc,        \* where each worker is in Scheduler::run
  cur,        \* FiberAndThread ft of each worker
  idleTerm,   \* workers whose idle fiber is in state TERM
  active,     \* m_activateThreadCount
  stopFlag,   \* m_stopping
  autoStop,   \* m_autoStop
  cpc,        \* where the caller is in start() and stop()
  yields      \* how often each task has yielded

vars == <<fstate, queue, armed, wpc, cur, idleTerm, active, stopFlag, autoStop,
          cpc, yields>>

FiberState == {"INIT", "HOLD", "EXEC", "TERM", "READY", "EXCEPT"}

WorkerPc == {"off", "pop", "swapin", "fiber", "arming", "leaving", "out",
             "post", "idle", "done"}

CallerPc == {"init", "up", "stopping", "flagged", "rootcall", "join", "stopped"}

Entry == [task : Task, thread : Worker \cup {NoThread}, cb : BOOLEAN]

Finished == {"TERM", "EXCEPT"}

(* The worker has popped cur[w] and has not yet let go of it. *)
Holding == {"swapin", "fiber", "arming", "leaving", "out", "post"}

(* m_activateThreadCount counts the worker. *)
Counted == {"swapin", "fiber", "arming", "leaving", "out"}

Queued(t) == \E i \in DOMAIN queue : queue[i].task = t

Held(t) == \E w \in Worker : wpc[w] \in Holding /\ cur[w] = t

(* Nobody has scheduled the task yet. *)
Fresh(t) == fstate[t] = "INIT" /\ ~Queued(t) /\ ~Held(t)

(* Types; m_activateThreadCount, an unsigned counter, never goes below zero. *)
TypeOK ==
  /\ fstate \in [Task -> FiberState]
  /\ queue \in Seq(Entry)
  /\ armed \in SUBSET Task
  /\ wpc \in [Worker -> WorkerPc]
  /\ cur \in [Worker -> Task \cup {NoTask}]
  /\ idleTerm \in SUBSET Worker
  /\ active \in Nat
  /\ stopFlag \in BOOLEAN
  /\ autoStop \in BOOLEAN
  /\ cpc \in CallerPc
  /\ yields \in [Task -> Nat]

Init ==
  /\ fstate = [t \in Task |-> "INIT"]
  /\ queue = <<>>
  /\ armed = {}
  /\ wpc = [w \in Worker |-> "off"]
  /\ cur = [w \in Worker |-> NoTask]
  /\ idleTerm = {}
  /\ active = 0
  /\ stopFlag = TRUE
  /\ autoStop = FALSE
  /\ cpc = "init"
  /\ yields = [t \in Task |-> 0]

-----------------------------------------------------------------------------
(* schedule(fc, threadId): push_back under m_mutex. *)
ScheduleNoLock(t, thread, cb) ==
  queue' = Append(queue, [task |-> t, thread |-> thread, cb |-> cb])

RemoveAt(s, i) == [j \in 1..(Len(s) - 1) |-> IF j < i THEN s[j] ELSE s[j + 1]]

(* Mutant: a worker in the middle of a fiber is not waited for. *)
StoppingWhileActive == autoStop /\ stopFlag /\ queue = <<>>

(* Scheduler::stopping() *)
Stopping == autoStop /\ stopFlag /\ queue = <<>> /\ active = 0

Goto(w, pc) == wpc' = [wpc EXCEPT ![w] = pc]

-----------------------------------------------------------------------------
(* The calling thread. *)

(* start(): the pool threads begin to execute run(). *)
Start ==
  /\ cpc = "init"
  /\ cpc' = "up"
  /\ stopFlag' = FALSE
  /\ wpc' = [w \in Worker |-> IF w = Root THEN "off" ELSE "pop"]
  /\ UNCHANGED <<fstate, queue, armed, cur, idleTerm, active, autoStop, yields>>

(* schedule() called by the thread that owns the scheduler. *)
CallerSchedule(t) ==
  /\ cpc \in {"init", "up"}
  /\ Fresh(t)
  /\ ScheduleNoLock(t, NoThread, t \in Callback)
  /\ UNCHANGED <<fstate, armed, wpc, cur, idleTerm, active, stopFlag, autoStop,
                 cpc, yields>>

(* schedule() given a fiber that has already ended. *)
CallerScheduleEnded(t) ==
  /\ cpc = "up"
  /\ t \notin Callback
  /\ fstate[t] \in Finished
  /\ ~Queued(t)
  /\ ScheduleNoLock(t, NoThread, FALSE)
  /\ UNCHANGED <<fstate, armed, wpc, cur, idleTerm, active, stopFlag, autoStop,
                 cpc, yields>>

(* stop(), first part: m_autoStop, and the early return of a scheduler whose
   only worker would be the caller.  m_rootFiber is still in INIT here. *)
StopBegin ==
  /\ MayStop
  /\ cpc = "up"
  /\ autoStop' = TRUE
  /\ LET alone == Root # NoThread /\ Worker = {Root}
     IN  /\ stopFlag' = (stopFlag \/ alone)
         /\ cpc' = IF alone /\ queue = <<>> /\ active = 0
                     THEN "stopped" ELSE "stopping"
  /\ UNCHANGED <<fstate, queue, armed, wpc, cur, idleTerm, active, yields>>

StopSetFlag ==
  /\ cpc = "stopping"
  /\ stopFlag' = TRUE
  /\ cpc' = "flagged"
  /\ UNCHANGED <<fstate, queue, armed, wpc, cur, idleTerm, active, autoStop,
                 yields>>

(* if (m_rootFiber && !stopping()) m_rootFiber->call() *)
StopCallRoot ==
  /\ cpc = "flagged"
  /\ IF Root # NoThread /\ ~Stopping
       THEN cpc' = "rootcall" /\ Goto(Root, "pop")
       ELSE cpc' = "join" /\ UNCHANGED wpc
  /\ UNCHANGED <<fstate, queue, armed, cur, idleTerm, active, stopFlag,
                 autoStop, yields>>

(* run() has returned in the root fiber: Fiber::back to the caller. *)
StopRootBack ==
  /\ cpc = "rootcall"
  /\ wpc[Root] = "done"
  /\ cpc' = "join"
  /\ UNCHANGED <<fstate, queue, armed, wpc, cur, idleTerm, active, stopFlag,
                 autoStop, yields>>

StopJoin ==
  /\ cpc = "join"
  /\ \A w \in Worker \ {Root} : wpc[w] = "done"
  /\ cpc' = "stopped"
  /\ UNCHANGED <<fstate, queue, armed, wpc, cur, idleTerm, active, stopFlag,
                 autoStop, yields>>

CallerStop == StopSetFlag \/ StopCallRoot \/ StopRootBack \/ StopJoin

-----------------------------------------------------------------------------
(* Scheduler::run, one worker thread w. *)

(* Mutant: a fiber that is still in EXEC on its old thread may be taken. *)
EligibleInExec(w, e) == e.thread \in {NoThread, w}

(* The entry is not pinned to another thread and its fiber has left the
   thread it ran on. *)
Eligible(w, e) ==
  /\ e.thread \in {NoThread, w}
  /\ e.cb \/ fstate[e.task] # "EXEC"

(* Mutant: the entry is left in m_fibers. *)
PopTaskNoErase(w) ==
  /\ wpc[w] = "pop"
  /\ \E i \in DOMAIN queue :
       /\ Eligible(w, queue[i])
       /\ cur' = [cur EXCEPT ![w] = queue[i].task]
  /\ active' = active + 1
  /\ Goto(w, "swapin")
  /\ UNCHANGED <<fstate, queue, armed, idleTerm, stopFlag, autoStop, cpc, yields>>

(* The critical section of the loop found a task. *)
PopTask(w) ==
  /\ wpc[w] = "pop"
  /\ \E i \in DOMAIN queue :
       /\ Eligible(w, queue[i])
       /\ \A j \in 1..(i - 1) : ~Eligible(w, queue[j])
       /\ cur' = [cur EXCEPT ![w] = queue[i].task]
       /\ queue' = RemoveAt(queue, i)
  /\ active' = active + 1
  /\ Goto(w, "swapin")
  /\ UNCHANGED <<fstate, armed, idleTerm, stopFlag, autoStop, cpc, yields>>

(* Mutant: the idle fiber is looked at before the queue. *)
PopNoneFirst(w) ==
  /\ wpc[w] = "pop"
  /\ w \in idleTerm \/ \A i \in DOMAIN queue : ~Eligible(w, queue[i])
  /\ Goto(w, IF w \in idleTerm THEN "done" ELSE "idle")
  /\ UNCHANGED <<fstate, queue, armed, cur, idleTerm, active, stopFlag,
                 autoStop, cpc, yields>>

(* It found none: enter the idle fiber, or leave run() if that has ended. *)
PopNone(w) ==
  /\ wpc[w] = "pop"
  /\ \A i \in DOMAIN queue : ~Eligible(w, queue[i])
  /\ Goto(w, IF w \in idleTerm THEN "done" ELSE "idle")
  /\ UNCHANGED <<fstate, queue, armed, cur, idleTerm, active, stopFlag,
                 autoStop, cpc, yields>>

(* Scheduler::idle: one round of while (!stopping()) YieldToHold(). *)
Idle(w) ==
  /\ wpc[w] = "idle"
  /\ idleTerm' = IF Stopping THEN idleTerm \cup {w} ELSE idleTerm
  /\ Goto(w, "pop")
  /\ UNCHANGED <<fstate, queue, armed, cur, active, stopFlag, autoStop, cpc,
                 yields>>

(* Fiber::swapIn, guarded by its assertion m_state != EXEC. *)
SwapIn(w) ==
  /\ wpc[w] = "swapin"
  /\ fstate[cur[w]] \notin Finished \cup {"EXEC"}
  /\ fstate' = [fstate EXCEPT ![cur[w]] = "EXEC"]
  /\ Goto(w, "fiber")
  /\ UNCHANGED <<queue, armed, cur, idleTerm, active, stopFlag, autoStop, cpc,
                 yields>>

(* A fiber that ended while it was queued is dropped. *)
SkipFinished(w) ==
  /\ wpc[w] = "swapin"
  /\ fstate[cur[w]] \in Finished
  /\ active' = active - 1
  /\ cur' = [cur EXCEPT ![w] = NoTask]
  /\ Goto(w, "pop")
  /\ UNCHANGED <<fstate, queue, armed, idleTerm, stopFlag, autoStop, cpc,
                 yields>>

(* Mutant: the worker stays counted. *)
BackInRunCounted(w) ==
  /\ wpc[w] = "out"
  /\ Goto(w, "post")
  /\ UNCHANGED <<fstate, queue, armed, cur, idleTerm, active, stopFlag, autoStop,
                 cpc, yields>>

(* swapIn has returned in run(). *)
BackInRun(w) ==
  /\ wpc[w] = "out"
  /\ active' = active - 1
  /\ Goto(w, "post")
  /\ UNCHANGED <<fstate, queue, armed, cur, idleTerm, stopFlag, autoStop, cpc,
                 yields>>

(* Mutant: the fiber is left in EXEC. *)
AfterRunNoHold(w) ==
  /\ wpc[w] = "post"
  /\ IF fstate[cur[w]] = "READY"
       THEN ScheduleNoLock(cur[w], NoThread, FALSE)
       ELSE UNCHANGED queue
  /\ cur' = [cur EXCEPT ![w] = NoTask]
  /\ Goto(w, "pop")
  /\ UNCHANGED <<fstate, armed, idleTerm, active, stopFlag, autoStop, cpc, yields>>

(* Mutant: a READY fiber is not put back. *)
AfterRunNoReschedule(w) ==
  /\ wpc[w] = "post"
  /\ fstate' = IF fstate[cur[w]] \in Finished \cup {"READY"} THEN fstate
               ELSE [fstate EXCEPT ![cur[w]] = "HOLD"]
  /\ cur' = [cur EXCEPT ![w] = NoTask]
  /\ Goto(w, "pop")
  /\ UNCHANGED <<queue, armed, idleTerm, active, stopFlag, autoStop, cpc, yields>>

(* What run() does with the fiber after that: reschedule a READY one, let go
   of an ended one, mark any other HOLD. *)
AfterRun(w) ==
  /\ wpc[w] = "post"
  /\ LET t == cur[w]
     IN  /\ IF fstate[t] = "READY"
               THEN ScheduleNoLock(t, NoThread, FALSE)
               ELSE UNCHANGED queue
         /\ IF fstate[t] \in Finished \cup {"READY"}
               THEN UNCHANGED fstate
               ELSE fstate' = [fstate EXCEPT ![t] = "HOLD"]
  /\ cur' = [cur EXCEPT ![w] = NoTask]
  /\ Goto(w, "pop")
  /\ UNCHANGED <<armed, idleTerm, active, stopFlag, autoStop, cpc, yields>>

-----------------------------------------------------------------------------
(* The fiber that executes on worker w. *)

(* schedule() called by a task, unpinned or pinned to its own thread. *)
FiberSchedule(w, t) ==
  /\ wpc[w] = "fiber"
  /\ Fresh(t)
  /\ \E thread \in {NoThread, w} : ScheduleNoLock(t, thread, t \in Callback)
  /\ UNCHANGED <<fstate, armed, wpc, cur, idleTerm, active, stopFlag, autoStop,
                 cpc, yields>>

(* The fiber registers itself with an event slot or a timer ... *)
FiberArm(w) ==
  /\ wpc[w] = "fiber"
  /\ cur[w] \in Suspending
  /\ yields[cur[w]] < MaxYield
  /\ yields' = [yields EXCEPT ![cur[w]] = @ + 1]
  /\ armed' = armed \cup {cur[w]}
  /\ Goto(w, "arming")
  /\ UNCHANGED <<fstate, queue, cur, idleTerm, active, stopFlag, autoStop, cpc>>

(* Mutant: YieldToHold changes the state before the context is saved. *)
YieldToHoldEarly(w) ==
  /\ wpc[w] = "arming"
  /\ fstate' = [fstate EXCEPT ![cur[w]] = "HOLD"]
  /\ Goto(w, "leaving")
  /\ UNCHANGED <<queue, armed, cur, idleTerm, active, stopFlag, autoStop, cpc,
                 yields>>

(* ... and calls YieldToHold, which asserts m_state == EXEC and keeps it. *)
YieldToHold(w) ==
  /\ wpc[w] = "arming"
  /\ fstate[cur[w]] = "EXEC"
  /\ Goto(w, "leaving")
  /\ UNCHANGED <<fstate, queue, armed, cur, idleTerm, active, stopFlag,
                 autoStop, cpc, yields>>

YieldToReady(w) ==
  /\ wpc[w] = "fiber"
  /\ yields[cur[w]] < MaxYield
  /\ yields' = [yields EXCEPT ![cur[w]] = @ + 1]
  /\ fstate' = [fstate EXCEPT ![cur[w]] = "READY"]
  /\ Goto(w, "leaving")
  /\ UNCHANGED <<queue, armed, cur, idleTerm, active, stopFlag, autoStop, cpc>>

(* MainFunc: the callback returned or threw. *)
FiberEnd(w) ==
  /\ wpc[w] = "fiber"
  /\ \E s \in Finished : fstate' = [fstate EXCEPT ![cur[w]] = s]
  /\ Goto(w, "leaving")
  /\ UNCHANGED <<queue, armed, cur, idleTerm, active, stopFlag, autoStop, cpc,
                 yields>>

(* Fiber::swapOut: from here on the context is saved and can be resumed. *)
SwapOut(w) ==
  /\ wpc[w] = "leaving"
  /\ Goto(w, "out")
  /\ UNCHANGED <<fstate, queue, armed, cur, idleTerm, active, stopFlag,
                 autoStop, cpc, yields>>

(* The event or the timer fires: its holder gives the reference to schedule(). *)
Wake(t) ==
  /\ t \in armed
  /\ armed' = armed \ {t}
  /\ ScheduleNoLock(t, NoThread, FALSE)
  /\ UNCHANGED <<fstate, wpc, cur, idleTerm, active, stopFlag, autoStop, cpc,
                 yields>>

-----------------------------------------------------------------------------
Caller ==
  \/ Start
  \/ \E t \in Task : CallerSchedule(t) \/ CallerScheduleEnded(t)
  \/ StopBegin

Run(w) ==
  \/ PopTask(w) \/ PopNone(w) \/ Idle(w) \/ SwapIn(w) \/ SkipFinished(w)
  \/ BackInRun(w) \/ AfterRun(w)

FiberStep(w) ==
  \/ \E t \in Task : FiberSchedule(w, t)
  \/ FiberArm(w) \/ YieldToHold(w) \/ YieldToReady(w) \/ FiberEnd(w)
  \/ SwapOut(w)

(* stop() has returned; a waker may still hold a fiber. *)
Stopped == cpc = "stopped" /\ UNCHANGED vars

Next ==
  \/ Caller
  \/ CallerStop
  \/ \E w \in Worker : Run(w) \/ FiberStep(w)
  \/ \E t \in Task : Wake(t)
  \/ Stopped

Spec == Init /\ [][Next]_vars

(* The operating system runs every thread, and no fiber computes forever: the
   steps of a fiber are bounded by Task and MaxYield.  A waker need not fire,
   and nobody need call stop(); once it is called its thread goes on. *)
Fairness ==
  /\ \A w \in Worker : WF_vars(Run(w) \/ FiberStep(w))
  /\ WF_vars(CallerStop)

FairSpec == Spec /\ Fairness

-----------------------------------------------------------------------------
(* Properties. *)

(* The assertions of fiber.cpp:110 (swapIn: the fiber is not already in EXEC)
   and fiber.cpp:179 (YieldToHold: it still is) hold whenever they are reached,
   whatever the interleaving of workers and wakers. *)
FiberAssertions ==
  \A w \in Worker :
    /\ wpc[w] = "swapin" => fstate[cur[w]] # "EXEC"
    /\ wpc[w] = "arming" => fstate[cur[w]] = "EXEC"

(* A fiber that has not ended is in the hands of at most one worker from the
   pop to the end of the loop body: its context is never entered while another
   thread still saves it, and its m_state has one writer. *)
OneOwner ==
  \A v, w \in Worker :
    (v # w /\ wpc[v] \in Holding /\ wpc[w] \in Holding /\ cur[v] = cur[w])
      => fstate[cur[v]] \in Finished

(* A suspended fiber has exactly one way back: one queue entry, or one waker,
   never both and never neither.  Without one its last reference would be gone
   and ~Fiber would assert (fiber.cpp:73); with two it would be entered twice. *)
OneWayBack ==
  \A t \in Task :
    /\ \A i, j \in DOMAIN queue : queue[i].task = t /\ queue[j].task = t => i = j
    /\ ~(t \in armed /\ Queued(t))
    /\ (fstate[t] \in {"HOLD", "READY"} /\ ~Held(t)) => (t \in armed \/ Queued(t))

(* When stop() returns, every scheduled task has run to its end and is not in the
   queue (tests/test_scheduler.cpp:23 relies on it), also when other fibers wait
   and are woken meanwhile.  A task that waits for a waker itself is not promised
   that: the base class does not know of wakers, IOManager::stopping() adds them. *)
DrainedAtStop ==
  cpc = "stopped" =>
    \A t \in Task \ Suspending : (fstate[t] \in Finished \/ Fresh(t)) /\ ~Queued(t)

(* stop() returns: no worker waits for another for ever. *)
StopReturns == (cpc = "stopping") ~> (cpc = "stopped")

(* No wakeup is lost while the scheduler is up: a queued task is taken out by
   some worker, also when it was queued before it had left its old thread. *)
QueuedIsTaken == \A t \in Task : (cpc = "up" /\ Queued(t)) ~> ~Queued(t)

(* A worker ends its idle fiber, the first half of leaving run(), only when no
   worker is executing a fiber and the queue is empty. *)
IdleEndsWhenQuiet ==
  [][idleTerm' # idleTerm =>
       queue = <<>> /\ \A w \in Worker : wpc[w] \notin Counted]_vars

-----------------------------------------------------------------------------
(* The inductive invariant behind FiberAssertions, OneOwner and OneWayBack. *)

(* m_activateThreadCount counts the workers between the pop and the return of
   swapIn: the value stopping() trusts is never off. *)
ActiveIsCount == active = Cardinality({w \in Worker : wpc[w] \in Counted})

(* What a worker may rely on about the fiber it holds. *)
WorkerInv(w) ==
  /\ wpc[w] \in Holding => cur[w] \in Task
  /\ wpc[w] = "swapin" =>
       /\ fstate[cur[w]] # "EXEC"
       /\ fstate[cur[w]] \notin Finished => ~Queued(cur[w]) /\ cur[w] \notin armed
  /\ wpc[w] = "fiber" =>
       fstate[cur[w]] = "EXEC" /\ ~Queued(cur[w]) /\ cur[w] \notin armed
  /\ wpc[w] = "arming" =>
       fstate[cur[w]] = "EXEC" /\ (Queued(cur[w]) \/ cur[w] \in armed)
  /\ wpc[w] \in {"leaving", "out", "post"} =>
       /\ fstate[cur[w]] \in Finished \cup {"EXEC", "READY"}
       /\ fstate[cur[w]] = "EXEC" => Queued(cur[w]) \/ cur[w] \in armed
       /\ fstate[cur[w]] = "READY" => ~Queued(cur[w]) /\ cur[w] \notin armed

(* The references to a task: a waker's, and at most one queue entry. *)
TaskInv(t) ==
  /\ ~(t \in armed /\ Queued(t))
  /\ fstate[t] \in Finished => t \notin armed
  /\ ~Held(t) =>
       /\ fstate[t] # "EXEC"
       /\ fstate[t] = "HOLD" => (t \in armed \/ Queued(t))
       /\ fstate[t] = "READY" => Queued(t) /\ t \notin armed
       /\ fstate[t] = "INIT" => t \notin armed

QueueInv ==
  /\ \A i, j \in DOMAIN queue : queue[i].task = queue[j].task => i = j
  /\ \A i \in DOMAIN queue : queue[i].cb => fstate[queue[i].task] = "INIT"

FiberInv ==
  /\ TypeOK
  /\ ActiveIsCount
  /\ OneOwner
  /\ QueueInv
  /\ \A w \in Worker : WorkerInv(w)
  /\ \A t \in Task : TaskInv(t)

(* No thread executes run() before start(), nor the root fiber before stop(). *)
CallerInv ==
  /\ cpc = "init" => \A w \in Worker : wpc[w] = "off"
  /\ cpc \in {"init", "up", "stopping", "flagged"} /\ Root \in Worker =>
       wpc[Root] = "off"

(* The conjunction of all of the above is preserved by every step. *)
IInv == FiberInv /\ CallerInv

-----------------------------------------------------------------------------
(* The refinement mapping to TaskLife. *)
Status(t) ==
  CASE fstate[t] \in Finished -> "done"
    [] fstate[t] \notin Finished /\ Held(t) -> "running"
    [] fstate[t] \notin Finished /\ ~Held(t) /\ Queued(t) -> "ready"
    [] fstate[t] \notin Finished /\ ~Held(t) /\ ~Queued(t) /\ t \in armed -> "waiting"
    [] OTHER -> "new"

Runs(w) == wpc[w] \in Holding /\ fstate[cur[w]] \notin Finished

Life == INSTANCE TaskLife
          WITH status <- [t \in Task |-> Status(t)],
               runner <- [w \in Worker |-> IF Runs(w) THEN cur[w] ELSE NoTask]

(* The run loop, its queue and the fiber states implement TaskLife: a task is
   dispatched only from the queue, to one thread, and returns to the queue or to
   a waker exactly as it was left. *)
ImplementsTaskLife == Life!Spec

=============================================================================
