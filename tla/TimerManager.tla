---------------------------- MODULE TimerManager ----------------------------
(***************************************************************************)
(* timer.cpp under the polling loop of IOManager::idle: timers added,      *)
(* cancelled, refreshed and reset by any thread while the pollers compute  *)
(* their epoll_wait timeout (getNextTimer) and collect expired callbacks   *)
(* (listExpireCB).                                                         *)
(*                                                                         *)
(* Time is gettimeofday: it may be set back.  Its values and the           *)
(* constants of the code (MAX_TIMEOUT, one hour, the width of int) are     *)
(* scaled down; GetCurrentMs() starts well after one hour.                 *)
(***************************************************************************)
EXTENDS Integers, FiniteSets

CONSTANTS
  Timer,        \* Timer objects
  Poller,       \* threads in IOManager::idle
  Settings,     \* what surrounds the manager, see Setting
  MAX_TIMEOUT,  \* cap of the epoll_wait timeout
  Hour,         \* 60 * 60 * 1000
  IntBits,      \* width of int
  MaxClock      \* bound on time

Setting ==
  [pollers   : Nat,             \* how many threads poll
   prompt    : BOOLEAN,         \* threads run at once: only epoll_wait takes time
   setBack   : BOOLEAN,         \* whether the clock may be set back
   signals   : Nat,             \* how often signals interrupt one wait
   oneThread : BOOLEAN,         \* all calls are made by fibers of the polling thread
   end       : Hour..MaxClock,  \* the last time looked at
   ms        : SUBSET (0..MaxClock),  \* the intervals used
   fromNow   : SUBSET BOOLEAN]  \* the values of reset()'s from_now used

ASSUME TimerManagerAssumption ==
  /\ MAX_TIMEOUT \in Nat /\ Hour \in Nat /\ IntBits \in Nat /\ MaxClock \in Nat
  /\ MaxClock >= Hour
  /\ Settings \subseteq Setting

Forever == -1      \* ~0ull, and an epoll_wait without timeout

VARIABLES
  env,        \* the setting, which never changes
  clock,      \* GetCurrentMs()
  prev,       \* m_previousTime
  inSet,      \* m_timers
  next,       \* m_next
  ms,         \* m_ms
  recurring,  \* m_recurring
  cb,         \* timers whose m_cb is set
  tickled,    \* m_tickled
  ppc,        \* where each poller is
  now,        \* now_time of listExpireCB in each poller
  timeout,    \* the timeout each poller hands to epoll_wait
  wake,       \* when epoll_wait of each poller times out, or Forever
  restarts,   \* how often EINTR made each poller call epoll_wait again
  fires,      \* how often each callback was collected, at most 2
  cancelled,  \* timers for which cancle() returned true
  crashed     \* *begin() of an empty set was followed

timer == <<inSet, next, ms, recurring, cb>>
poll == <<ppc, now, timeout, wake, restarts>>
vars == <<env, clock, prev, timer, tickled, poll, fires, cancelled, crashed>>

(* Types; m_previousTime is always a time that the clock has shown. *)
TypeOK ==
  /\ env \in Settings
  /\ clock \in Hour..MaxClock /\ prev \in Hour..MaxClock
  /\ inSet \in SUBSET Timer /\ cb \in SUBSET Timer
  /\ next \in [Timer -> Nat] /\ ms \in [Timer -> Nat]
  /\ recurring \in [Timer -> BOOLEAN]
  /\ tickled \in BOOLEAN
  /\ ppc \in [Poller -> {"none", "next", "wait", "begin", "locked"}]
  /\ now \in [Poller -> Nat] /\ wake \in [Poller -> Nat \cup {Forever}]
  /\ timeout \in [Poller -> Int] /\ restarts \in [Poller -> Nat]
  /\ fires \in [Timer -> 0..2]
  /\ cancelled \in SUBSET Timer
  /\ crashed \in BOOLEAN

Init ==
  /\ env \in Settings
  /\ clock = Hour /\ prev = Hour
  /\ inSet = {} /\ cb = {}
  /\ next = [t \in Timer |-> 0] /\ ms = [t \in Timer |-> 0]
  /\ recurring = [t \in Timer |-> FALSE]
  /\ tickled = FALSE
  /\ \E P \in SUBSET Poller :
       /\ Cardinality(P) = env.pollers
       /\ ppc = [p \in Poller |-> IF p \in P THEN "next" ELSE "none"]
  /\ now = [p \in Poller |-> 0] /\ wake = [p \in Poller |-> 0]
  /\ timeout = [p \in Poller |-> 0] /\ restarts = [p \in Poller |-> 0]
  /\ fires = [t \in Timer |-> 0]
  /\ cancelled = {}
  /\ crashed = FALSE

-----------------------------------------------------------------------------
(* A caller can run now. *)
CanCall == env.oneThread => \A p \in Poller : ppc[p] \in {"none", "next"}

Created(t) == t \in inSet \/ t \in cancelled \/ fires[t] > 0

(* insert, and the at_front test with m_tickled. *)
InsertTimer(t) ==
  /\ inSet' = inSet \cup {t}
  /\ tickled' = (tickled \/ \A u \in inSet \ {t} : next'[t] <= next'[u])

(* addTimer *)
AddTimer(t, m, r) ==
  /\ CanCall
  /\ ~Created(t)
  /\ ms' = [ms EXCEPT ![t] = m]
  /\ next' = [next EXCEPT ![t] = clock + m]
  /\ recurring' = [recurring EXCEPT ![t] = r]
  /\ cb' = cb \cup {t}
  /\ InsertTimer(t)
  /\ UNCHANGED <<clock, prev, poll, fires, cancelled, crashed>>

(* Mutant: the timer is left in m_timers. *)
CancelKeep(t) ==
  /\ CanCall
  /\ t \in cb
  /\ cb' = cb \ {t}
  /\ cancelled' = cancelled \cup {t}
  /\ UNCHANGED <<inSet, next, ms, recurring, clock, prev, tickled, poll, fires, crashed>>

(* Timer::cancle that returns true. *)
Cancel(t) ==
  /\ CanCall
  /\ t \in cb
  /\ cb' = cb \ {t}
  /\ inSet' = inSet \ {t}
  /\ cancelled' = cancelled \cup {t}
  /\ UNCHANGED <<next, ms, recurring, clock, prev, tickled, poll, fires, crashed>>

(* Timer::refresh that returns true. *)
Refresh(t) ==
  /\ CanCall
  /\ t \in cb /\ t \in inSet
  /\ next' = [next EXCEPT ![t] = clock + ms[t]]
  /\ UNCHANGED <<inSet, ms, recurring, cb, clock, prev, tickled, poll, fires,
                 cancelled, crashed>>

(* Mutant: the callback is not looked at. *)
ResetEnded(t, m, from_now) ==
  /\ CanCall
  /\ Created(t)
  /\ ms' = [ms EXCEPT ![t] = m]
  /\ next' = [next EXCEPT ![t] = (IF from_now THEN clock ELSE @ - ms[t]) + m]
  /\ InsertTimer(t)
  /\ UNCHANGED <<recurring, cb, clock, prev, poll, fires, cancelled, crashed>>

(* Timer::reset that returns true. *)
Reset(t, m, from_now) ==
  /\ CanCall
  /\ m # ms[t] \/ from_now
  /\ t \in cb /\ t \in inSet
  /\ ms' = [ms EXCEPT ![t] = m]
  /\ next' = [next EXCEPT ![t] = (IF from_now THEN clock ELSE @ - ms[t]) + m]
  /\ InsertTimer(t)
  /\ UNCHANGED <<recurring, cb, clock, prev, poll, fires, cancelled, crashed>>

-----------------------------------------------------------------------------
(* getNextTimer: the time until the first timer. *)
First == CHOOSE n \in {next[t] : t \in inSet} : \A t \in inSet : n <= next[t]
GetNextTimer == IF inSet = {} THEN Forever
                ELSE IF clock > First THEN 0 ELSE First - clock

(* A conversion to int. *)
ToInt(n) == LET r == n % 2^IntBits IN IF r < 2^(IntBits - 1) THEN r ELSE r - 2^IntBits

(* Mutant: the timeout is not capped. *)
EpollTimeoutUncapped(n) == IF n = Forever THEN MAX_TIMEOUT ELSE ToInt(n)

(* The timeout idle() hands to epoll_wait; a negative one never ends. *)
EpollTimeout(n) ==
  IF n = Forever THEN MAX_TIMEOUT
  ELSE IF ToInt(n) < MAX_TIMEOUT THEN ToInt(n) ELSE MAX_TIMEOUT

(* epoll_wait is called now. *)
EpollWait(p, n) == wake' = [wake EXCEPT ![p] = IF n < 0 THEN Forever ELSE clock + n]

(* stopping(next_timeout) in idle(), and the first epoll_wait. *)
NextTimer(p) ==
  /\ ppc[p] = "next"
  /\ tickled' = TRUE
  /\ timeout' = [timeout EXCEPT ![p] = EpollTimeout(GetNextTimer)]
  /\ EpollWait(p, timeout'[p])
  /\ restarts' = [restarts EXCEPT ![p] = 0]
  /\ ppc' = [ppc EXCEPT ![p] = "wait"]
  /\ UNCHANGED <<clock, prev, timer, now, fires, cancelled, crashed>>

(* A signal: the do loop calls epoll_wait again, with all of the old timeout and
   no look at the timers. *)
EpollInterrupted(p) ==
  /\ ppc[p] = "wait"
  /\ restarts[p] < env.signals
  /\ restarts' = [restarts EXCEPT ![p] = @ + 1]
  /\ EpollWait(p, timeout[p])
  /\ UNCHANGED <<clock, prev, timer, tickled, ppc, now, timeout, fires, cancelled, crashed>>

(* epoll_wait returns: the timeout has passed, or an event came. *)
EpollReturn(p) ==
  /\ ppc[p] = "wait"
  /\ ppc' = [ppc EXCEPT ![p] = "begin"]
  /\ timeout' = [timeout EXCEPT ![p] = 0] /\ wake' = [wake EXCEPT ![p] = 0]
  /\ UNCHANGED <<clock, prev, timer, tickled, now, restarts, fires, cancelled, crashed>>

(* listExpireCB: the time is read, and whether there is any timer. *)
BeginExpire(p) ==
  /\ ppc[p] = "begin"
  /\ IF inSet = {}
       THEN ppc' = [ppc EXCEPT ![p] = "next"] /\ UNCHANGED now
       ELSE ppc' = [ppc EXCEPT ![p] = "locked"] /\ now' = [now EXCEPT ![p] = clock]
  /\ UNCHANGED <<clock, prev, timer, tickled, timeout, wake, restarts, fires, cancelled, crashed>>

(* Mutant: any step back counts. *)
RolloverAny(n) == n < prev

(* detectClockRollover: now_time is more than an hour before m_previousTime. *)
Rollover(n) == n < prev - Hour

(* The timers listExpireCB takes out: all up to and including now_time. *)
Expired(n) == IF Rollover(n) THEN inSet ELSE {t \in inSet : next[t] <= n}

(* Mutant: one-shot timers keep their callback. *)
ListExpireCBKeep(p) ==
  /\ ppc[p] = "locked"
  /\ prev' = now[p]
  /\ LET S == Expired(now[p])
     IN  /\ fires' = [t \in Timer |-> IF t \in S /\ fires[t] < 2 THEN fires[t] + 1 ELSE fires[t]]
         /\ next' = [t \in Timer |-> IF t \in S /\ recurring[t] THEN now[p] + ms[t] ELSE next[t]]
         /\ inSet' = {t \in inSet : t \in S => recurring[t]}
  /\ crashed' = (inSet = {})
  /\ ppc' = [ppc EXCEPT ![p] = "next"]
  /\ now' = [now EXCEPT ![p] = 0]
  /\ UNCHANGED <<clock, ms, recurring, cb, tickled, timeout, wake, restarts, cancelled>>

(* listExpireCB under the write lock.  The set may have been emptied since it
   was looked at: then begin() has no element to compare with now_time. *)
ListExpireCB(p) ==
  /\ ppc[p] = "locked"
  /\ prev' = now[p]
  /\ LET S == Expired(now[p])
         once == {t \in S : ~recurring[t]}
     IN  /\ fires' = [t \in Timer |-> IF t \in S /\ fires[t] < 2 THEN fires[t] + 1 ELSE fires[t]]
         /\ next' = [t \in Timer |-> IF t \in S \ once THEN now[p] + ms[t] ELSE next[t]]
         /\ inSet' = inSet \ once
         /\ cb' = cb \ once
  /\ crashed' = (inSet = {} /\ ~Rollover(now[p]))
  /\ ppc' = [ppc EXCEPT ![p] = "next"]
  /\ now' = [now EXCEPT ![p] = 0]
  /\ UNCHANGED <<clock, ms, recurring, tickled, timeout, wake, restarts, cancelled>>

-----------------------------------------------------------------------------
(* Time passes; if threads are prompt, only while every poller waits, and not beyond the end
   of a timeout. *)
Tick ==
  /\ clock < env.end
  /\ env.prompt => \A p \in Poller :
       ppc[p] = "none" \/ (ppc[p] = "wait" /\ (wake[p] = Forever \/ clock < wake[p]))
  /\ clock' = clock + 1
  /\ UNCHANGED <<prev, timer, tickled, poll, fires, cancelled, crashed>>

(* The clock is set back. *)
TimeSetBack ==
  /\ env.setBack
  /\ clock > Hour
  /\ clock' \in Hour..(clock - 1)
  /\ UNCHANGED <<prev, timer, tickled, poll, fires, cancelled, crashed>>

Call(t) ==
  \/ \E m \in env.ms : \E r \in BOOLEAN : AddTimer(t, m, r)
  \/ Cancel(t)
  \/ Refresh(t)
  \/ \E m \in env.ms : \E from_now \in env.fromNow : Reset(t, m, from_now)

Poll(p) == NextTimer(p) \/ EpollInterrupted(p) \/ EpollReturn(p) \/ BeginExpire(p) \/ ListExpireCB(p)

Next ==
  /\ ~crashed
  /\ UNCHANGED env
  /\ \/ \E t \in Timer : Call(t)
     \/ \E p \in Poller : Poll(p)
     \/ Tick
     \/ TimeSetBack

Spec == Init /\ [][Next]_vars

-----------------------------------------------------------------------------
(* A timer has a callback exactly while it is in m_timers, so the unchecked
   erase(find(...)) of cancle() always finds it, and an ended or cancelled
   timer cannot be refreshed or reset back to life. *)
CallbackIffInSet == cb = inSet

(* A one-shot callback is collected at most once, however many pollers, resets
   and refreshes there are. *)
OneShotOnce == \A t \in Timer : ~recurring[t] => fires[t] <= 1

(* Once cancle() has returned true the callback is not collected again. *)
CancelIsFinal ==
  [][\A t \in cancelled : fires'[t] = fires[t] /\ t \notin inSet']_vars

(* A poller collects with a now_time that it read more than an hour ago. *)
HeldUp == \E p \in Poller : ppc[p] = "locked" /\ ppc'[p] = "next" /\ now[p] < clock - Hour

(* No callback is collected before its time while the clock runs forward, also
   when now_time is old by the time the lock is taken and another poller has
   moved m_previousTime past it: detectClockRollover does not take the old
   now_time for a clock that was set back.  Except that the poller was held up
   for more than an hour between the two, when it does, and fires every timer. *)
NeverEarly ==
  [][~env.setBack => \A t \in inSet : fires'[t] # fires[t] => next[t] <= clock \/ HeldUp]_vars

(* A timer is late by at most MAX_TIMEOUT, although tickle() does not wake a
   poller that sleeps towards a later timer, and by MAX_TIMEOUT more for every
   signal that interrupted the wait, since epoll_wait is restarted with the old
   timeout and without collecting: provided threads run at once, no interval
   reaches 2^31 ms, where the conversion to int would turn the timeout negative,
   the clock is not set back, and reset() does not move a timer into the past. *)
BoundedLateness ==
  env.prompt => \A t \in inSet, p \in Poller :
    ppc[p] # "none" => clock <= next[t] + (1 + restarts[p]) * MAX_TIMEOUT

(* m_timers.begin() is followed only when there is one: with one polling thread
   whose fibers make all the calls. *)
NeverEmptyBegin == env.oneThread => ~crashed

(* Types, and the timers in m_timers are what their callbacks and the collecting
   pollers take them for. *)
TimerSetInv == TypeOK /\ CallbackIffInSet /\ NeverEmptyBegin
=============================================================================
