----------------------------- MODULE IOManager -----------------------------
(***************************************************************************)
(* The IOManager's idle loop and shutdown (iomanager.cpp) on top of the    *)
(* run loop of scheduler.cpp: fibers that sleep on a timer or wait for a   *)
(* file descriptor, the workers that collect expired timers and epoll      *)
(* events while they have nothing to run, and stop().                      *)
(*                                                                         *)
(* Fiber states and the owner of a fiber are Scheduler's subject; here a   *)
(* fiber is where its reference is.  stopping() is three reads of shared   *)
(* state with no lock around them, and is modelled as three steps.         *)
(***************************************************************************)
EXTENDS Integers, Sequences, FiniteSets

CONSTANTS
  Worker,     \* threads
  Pools,      \* the pools looked at, sets of threads (use_call = false)
  Fibers,     \* the fibers given to schedule()
  Nothing,    \* no item
  MaxWait,    \* bound on how often one fiber suspends
  MayStop     \* whether the destructor is ever called

ASSUME IOManagerAssumption ==
  /\ IsFiniteSet(Worker) /\ IsFiniteSet(Fibers)
  /\ Pools \subseteq SUBSET Worker
  /\ MaxWait \in Nat
  /\ MayStop \in BOOLEAN

VARIABLES
  queue,      \* m_fibers: fibers, and timer callbacks that will schedule one
  wpc,        \* where each worker is in run() and idle()
  cur,        \* the item each worker executes
  idleTerm,   \* workers whose idle fiber has ended
  active,     \* m_activateThreadCount
  timers,     \* fibers whose wakeup is in m_timers
  due,        \* those whose time has come
  events,     \* fibers registered in an FdEvent, m_pendingEventCount of them
  cbs,        \* callbacks taken out of m_timers by each worker, not yet queued
  batch,      \* epoll_wait's result in each worker, not yet dispatched
  waits,      \* how often each fiber has suspended
  ended,      \* fibers that have run to their end
  given,      \* fibers that were given to schedule()
  cpc         \* the thread that destroys the IOManager

vars == <<queue, wpc, cur, idleTerm, active, timers, due, events, cbs, batch,
          waits, ended, given, cpc>>

run == <<queue, cur, active>>
wakers == <<timers, due, events, cbs, batch>>
life == <<waits, ended, given, cpc>>

Item == [fiber : Fibers, timer : BOOLEAN]

WorkerPc == {"none", "pop", "exec", "leave", "post", "timers", "pending", "base",
             "wait", "expire", "schedule", "dispatch", "done"}

(* m_threads *)
Pool == {w \in Worker : wpc[w] # "none"}

(* m_activateThreadCount counts the worker. *)
Counted == {"exec", "leave"}

(* Types; m_activateThreadCount is the number of workers in run() that execute an
   item, also while others enter and leave. *)
TypeOK ==
  /\ queue \in Seq(Item)
  /\ wpc \in [Worker -> WorkerPc]
  /\ cur \in [Worker -> Item \cup {Nothing}]
  /\ idleTerm \in SUBSET Worker
  /\ active = Cardinality({w \in Worker : wpc[w] \in Counted})
  /\ timers \in SUBSET Fibers /\ due \in SUBSET timers
  /\ events \in SUBSET Fibers
  /\ cbs \in [Worker -> SUBSET Fibers]
  /\ batch \in [Worker -> SUBSET Fibers]
  /\ waits \in [Fibers -> 0..MaxWait]
  /\ ended \in SUBSET Fibers /\ given \in SUBSET Fibers
  /\ cpc \in {"up", "flagged", "stopped"}

(* The constructor ends with start(). *)
Init ==
  /\ queue = <<>>
  /\ \E P \in Pools : wpc = [w \in Worker |-> IF w \in P THEN "pop" ELSE "none"]
  /\ cur = [w \in Worker |-> Nothing]
  /\ idleTerm = {}
  /\ active = 0
  /\ timers = {} /\ due = {} /\ events = {}
  /\ cbs = [w \in Worker |-> {}]
  /\ batch = [w \in Worker |-> {}]
  /\ waits = [f \in Fibers |-> 0]
  /\ ended = {} /\ given = {}
  /\ cpc = "up"

-----------------------------------------------------------------------------
FiberItem(f) == [fiber |-> f, timer |-> FALSE]
TimerItem(f) == [fiber |-> f, timer |-> TRUE]

Goto(w, pc) == wpc' = [wpc EXCEPT ![w] = pc]

(* The fiber is still in EXEC on the thread that executes it. *)
OnWorker(f) == \E w \in Worker : cur[w] = FiberItem(f)

(* run() skips a queued fiber that is still in EXEC. *)
Runnable(item) == item.timer \/ ~OnWorker(item.fiber)

(* Any order of the elements of a set of fibers, as timer callbacks. *)
Listings(S) ==
  {s \in [1..Cardinality(S) -> {TimerItem(f) : f \in S}] :
     \A i, j \in DOMAIN s : s[i] = s[j] => i = j}

-----------------------------------------------------------------------------
(* The thread that owns the IOManager. *)
Schedule(f) ==
  /\ cpc = "up"
  /\ f \notin given
  /\ given' = given \cup {f}
  /\ queue' = Append(queue, FiberItem(f))
  /\ UNCHANGED <<wpc, cur, idleTerm, active, wakers, waits, ended, cpc>>

(* ~IOManager calls stop(): m_autoStop and m_stopping are set ... *)
StopFlags ==
  /\ MayStop
  /\ cpc = "up"
  /\ cpc' = "flagged"
  /\ UNCHANGED <<run, wpc, idleTerm, wakers, waits, ended, given>>

(* ... and the pool threads are joined. *)
StopJoin ==
  /\ cpc = "flagged"
  /\ \A w \in Pool : wpc[w] = "done"
  /\ cpc' = "stopped"
  /\ UNCHANGED <<run, wpc, idleTerm, wakers, waits, ended, given>>

-----------------------------------------------------------------------------
(* Scheduler::run. *)
PopTask(w) ==
  /\ wpc[w] = "pop"
  /\ \E i \in DOMAIN queue :
       /\ Runnable(queue[i])
       /\ \A j \in 1..(i - 1) : ~Runnable(queue[j])
       /\ cur' = [cur EXCEPT ![w] = queue[i]]
       /\ queue' = SubSeq(queue, 1, i - 1) \o SubSeq(queue, i + 1, Len(queue))
  /\ active' = active + 1
  /\ Goto(w, "exec")
  /\ UNCHANGED <<idleTerm, wakers, life>>

PopNone(w) ==
  /\ wpc[w] = "pop"
  /\ \A i \in DOMAIN queue : ~Runnable(queue[i])
  /\ Goto(w, IF w \in idleTerm THEN "done" ELSE "timers")
  /\ UNCHANGED <<run, idleTerm, wakers, life>>

(* The timer callback of sleep(): iom->schedule(fiber). *)
RunTimerCallback(w) ==
  /\ wpc[w] = "exec"
  /\ cur[w].timer
  /\ queue' = Append(queue, FiberItem(cur[w].fiber))
  /\ Goto(w, "leave")
  /\ UNCHANGED <<cur, idleTerm, active, wakers, life>>

(* hook.cpp sleep(): addTimer, then YieldToHold. *)
Sleep(w) ==
  /\ wpc[w] = "exec"
  /\ ~cur[w].timer
  /\ LET fiber == cur[w].fiber
     IN  /\ waits[fiber] < MaxWait
         /\ waits' = [waits EXCEPT ![fiber] = @ + 1]
         /\ timers' = timers \cup {fiber}
  /\ Goto(w, "leave")
  /\ UNCHANGED <<run, idleTerm, due, events, cbs, batch, ended, given, cpc>>

(* addEvent, then YieldToHold. *)
WaitEvent(w) ==
  /\ wpc[w] = "exec"
  /\ ~cur[w].timer
  /\ LET fiber == cur[w].fiber
     IN  /\ waits[fiber] < MaxWait
         /\ waits' = [waits EXCEPT ![fiber] = @ + 1]
         /\ events' = events \cup {fiber}
  /\ Goto(w, "leave")
  /\ UNCHANGED <<run, idleTerm, timers, due, cbs, batch, ended, given, cpc>>

End(w) ==
  /\ wpc[w] = "exec"
  /\ ~cur[w].timer
  /\ ended' = ended \cup {cur[w].fiber}
  /\ Goto(w, "leave")
  /\ UNCHANGED <<run, idleTerm, wakers, waits, given, cpc>>

(* Back in run(): --m_activateThreadCount ... *)
Leave(w) ==
  /\ wpc[w] = "leave"
  /\ active' = active - 1
  /\ Goto(w, "post")
  /\ UNCHANGED <<queue, cur, idleTerm, wakers, life>>

(* ... and then the fiber is marked HOLD. *)
Post(w) ==
  /\ wpc[w] = "post"
  /\ cur' = [cur EXCEPT ![w] = Nothing]
  /\ Goto(w, "pop")
  /\ UNCHANGED <<queue, active, idleTerm, wakers, life>>

-----------------------------------------------------------------------------
(* IOManager::idle.  stopping(): getNextTimer() ... *)
ReadTimers(w) ==
  /\ wpc[w] = "timers"
  /\ Goto(w, IF timers = {} THEN "pending" ELSE "wait")
  /\ UNCHANGED <<run, idleTerm, wakers, life>>

(* Mutant: the pending events are not looked at. *)
ReadNoPending(w) ==
  /\ wpc[w] = "pending"
  /\ Goto(w, "base")
  /\ UNCHANGED <<run, idleTerm, wakers, life>>

(* ... && m_pendingEventCount == 0 ... *)
ReadPending(w) ==
  /\ wpc[w] = "pending"
  /\ Goto(w, IF events = {} THEN "base" ELSE "wait")
  /\ UNCHANGED <<run, idleTerm, wakers, life>>

(* ... && Scheduler::stopping(), which holds m_mutex.  If so the idle fiber
   ends. *)
ReadBase(w) ==
  /\ wpc[w] = "base"
  /\ IF cpc # "up" /\ queue = <<>> /\ active = 0
       THEN Goto(w, "pop") /\ idleTerm' = idleTerm \cup {w}
       ELSE Goto(w, "wait") /\ UNCHANGED idleTerm
  /\ UNCHANGED <<run, wakers, life>>

(* epoll_wait returns after at most MAX_TIMEOUT with some ready events. *)
EpollWait(w) ==
  /\ wpc[w] = "wait"
  /\ \E S \in SUBSET events : batch' = [batch EXCEPT ![w] = S]
  /\ Goto(w, "expire")
  /\ UNCHANGED <<run, idleTerm, timers, due, events, cbs, life>>

(* listExpireCB takes the due timers out of m_timers ... *)
ListExpireCB(w) ==
  /\ wpc[w] = "expire"
  /\ cbs' = [cbs EXCEPT ![w] = due]
  /\ timers' = timers \ due
  /\ due' = {}
  /\ Goto(w, "schedule")
  /\ UNCHANGED <<run, idleTerm, events, batch, life>>

(* Mutant: the callbacks are dropped. *)
ScheduleNoCallbacks(w) ==
  /\ wpc[w] = "schedule"
  /\ cbs' = [cbs EXCEPT ![w] = {}]
  /\ Goto(w, "dispatch")
  /\ UNCHANGED <<run, idleTerm, timers, due, events, batch, life>>

(* ... and schedule(begin, end) queues their callbacks. *)
ScheduleCallbacks(w) ==
  /\ wpc[w] = "schedule"
  /\ \E s \in Listings(cbs[w]) : queue' = queue \o s
  /\ cbs' = [cbs EXCEPT ![w] = {}]
  /\ Goto(w, "dispatch")
  /\ UNCHANGED <<cur, active, idleTerm, timers, due, events, batch, life>>

(* Mutant: an event that was reported is triggered also when another worker
   has triggered it meanwhile. *)
DispatchStale(w) ==
  /\ wpc[w] = "dispatch"
  /\ \E f \in batch[w] :
       /\ batch' = [batch EXCEPT ![w] = @ \ {f}]
       /\ events' = events \ {f}
       /\ queue' = Append(queue, FiberItem(f))
  /\ UNCHANGED <<wpc, cur, active, idleTerm, timers, due, cbs, life>>

(* One round of the loop over epevents: an event that is no longer registered
   is skipped, otherwise it is unregistered and its fiber scheduled. *)
Dispatch(w) ==
  /\ wpc[w] = "dispatch"
  /\ \E f \in batch[w] :
       /\ batch' = [batch EXCEPT ![w] = @ \ {f}]
       /\ events' = events \ {f}
       /\ queue' = IF f \in events THEN Append(queue, FiberItem(f)) ELSE queue
  /\ UNCHANGED <<wpc, cur, active, idleTerm, timers, due, cbs, life>>

(* The idle fiber swaps out; run() looks at the queue again. *)
IdleSwapOut(w) ==
  /\ wpc[w] = "dispatch"
  /\ batch[w] = {}
  /\ Goto(w, "pop")
  /\ UNCHANGED <<run, idleTerm, wakers, life>>

(* Time passes: a timer's m_next is reached. *)
Elapse(f) ==
  /\ f \in timers \ due
  /\ due' = due \cup {f}
  /\ UNCHANGED <<run, wpc, idleTerm, timers, events, cbs, batch, life>>

-----------------------------------------------------------------------------
Run(w) ==
  \/ PopTask(w) \/ PopNone(w) \/ RunTimerCallback(w) \/ Sleep(w)
  \/ WaitEvent(w) \/ End(w) \/ Leave(w) \/ Post(w)

Idle(w) ==
  \/ ReadTimers(w) \/ ReadPending(w) \/ ReadBase(w) \/ EpollWait(w)
  \/ ListExpireCB(w) \/ ScheduleCallbacks(w) \/ Dispatch(w) \/ IdleSwapOut(w)

Stopped == cpc = "stopped" /\ UNCHANGED vars

Next ==
  \/ \E f \in Fibers : Schedule(f) \/ Elapse(f)
  \/ StopFlags \/ StopJoin
  \/ \E w \in Worker : Run(w) \/ Idle(w)
  \/ Stopped

Spec == Init /\ [][Next]_vars

(* Every pool thread is scheduled by the operating system, epoll_wait has a
   timeout, and time passes.  Descriptors need not ever become ready. *)
Fairness ==
  /\ \A w \in Worker : WF_vars(Run(w) \/ Idle(w))
  /\ \A f \in Fibers : WF_vars(Elapse(f))

FairSpec == Spec /\ Fairness

-----------------------------------------------------------------------------
(* Where the references to a fiber are: on a worker (unless its wakeup is
   already arranged), in the queue as itself or as a timer callback, in a
   callback that is executing, in m_timers, in an FdEvent, or between
   listExpireCB and schedule. *)
QueuePlaces(f) == {i \in DOMAIN queue : queue[i].fiber = f}
CallbackPlaces(f) == {w \in Worker : wpc[w] = "exec" /\ cur[w] = TimerItem(f)}
CbsPlaces(f) == {w \in Worker : f \in cbs[w]}
RunPlaces(f) == {w \in Worker : wpc[w] = "exec" /\ cur[w] = FiberItem(f)}

Places(f) ==
  Cardinality(QueuePlaces(f)) + Cardinality(CallbackPlaces(f))
    + Cardinality(CbsPlaces(f)) + Cardinality(RunPlaces(f))
    + Cardinality({f} \cap timers) + Cardinality({f} \cap events)

(* A fiber that was scheduled and has not ended is at exactly one place: no
   wakeup is lost between the timer set, the pollers and the queue, and none
   is delivered twice although an event may sit in the batches of two pollers. *)
OnePlace ==
  \A f \in Fibers : Places(f) = IF f \in given \ ended THEN 1 ELSE 0

(* A sleeping fiber is executed again, whichever worker collects its timer, unless
   the IOManager is stopped. *)
SleeperWakes ==
  \A f \in Fibers : (cpc = "up" /\ f \in timers)
                      ~> (f \in ended \/ RunPlaces(f) # {} \/ cpc # "up")

(* test_scheduler.cpp:23 relies on stop() executing the fibers to their end,
   and IOManager::stopping() refuses to stop while a timer or an event is
   pending: when the pool threads are joined every fiber should have ended.  With
   two threads a fiber can move from the queue to a timer and back between the
   three reads of another worker's stopping(). *)
StopRunsFibers == cpc = "stopped" => given \subseteq ended

(* With one pool thread nothing moves between the reads of its stopping(): stop()
   returns only when every fiber has run to its end, however often it waited. *)
LoneThreadRunsFibers == Cardinality(Pool) = 1 => StopRunsFibers

(* Types, and every fiber in one place: what the steps of idle, the timers and the
   event slots hand on to each other is never lost or doubled. *)
PlaceInv == TypeOK /\ OnePlace
=============================================================================
