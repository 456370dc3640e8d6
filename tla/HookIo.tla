------------------------------- MODULE HookIo -------------------------------
(***************************************************************************)
(* do_io and connect_with_timeout of hook.cpp: a hooked system call that   *)
(* would block registers its descriptor with the IOManager, arms a timer   *)
(* and yields.  The fiber is scheduled by the event (idle's dispatch loop) *)
(* or by the timer's callback, which runs on any worker, sees the call     *)
(* only through a weak pointer to its timer_info, and cancels whatever     *)
(* event is then registered for the descriptor.                            *)
(*                                                                         *)
(* One descriptor and one event type; FdEvents has the registration and    *)
(* TimerManager the timers in detail.  The fibers use the descriptor one   *)
(* after the other.                                                        *)
(***************************************************************************)
EXTENDS Integers, FiniteSets

CONSTANTS
  Fiber,
  Nobody,     \* no event registered
  MaxCalls,   \* bound on calls
  MaxTimers,  \* bound on timers, one for each time a call waits
  MaxSent     \* bound on messages that arrive

ASSUME HookIoAssumption ==
  /\ IsFiniteSet(Fiber) /\ Nobody \notin Fiber
  /\ MaxCalls \in Nat /\ MaxTimers \in Nat /\ MaxSent \in Nat

Call == 1..MaxCalls
TimerId == 1..MaxTimers

VARIABLES
  pc,         \* where each fiber is in the call
  kind,       \* do_io or connect_with_timeout
  call,       \* the call of each fiber: its timer_info; 0 outside
  limited,    \* whether the call has a timeout
  mine,       \* the timer of the fiber's present wait; 0 if none
  calls,      \* calls made so far
  cancelled,  \* calls whose timer_info::cancelled is set
  timers,     \* state of each timer and the call it was armed for
  slot,       \* who is registered for the event
  data,       \* messages the descriptor can deliver now
  sent,       \* messages that arrived so far
  eof,        \* the peer has closed: reads return 0 once the data is used up
  edge,       \* notifications of epoll not yet dispatched
  result,     \* of each fiber's last call
  early       \* calls cancelled while no event of theirs was registered

vars == <<pc, kind, call, limited, mine, calls, cancelled, timers, slot, data,
          sent, eof, edge, result, early>>

(* Types; a descriptor never delivers what has not arrived. *)
TypeOK ==
  /\ pc \in [Fiber -> {"out", "fun", "drain", "arm", "add", "held", "queued",
                       "resume", "check"}]
  /\ kind \in [Fiber -> {"io", "connect"}]
  /\ call \in [Fiber -> 0..MaxCalls] /\ calls \in 0..MaxCalls
  /\ limited \in [Fiber -> BOOLEAN]
  /\ mine \in [Fiber -> 0..MaxTimers]
  /\ cancelled \in SUBSET Call /\ early \in SUBSET cancelled
  /\ timers \in [TimerId -> [st : {"unused", "set", "queued", "firing", "ended"},
                             call : 0..MaxCalls]]
  /\ slot \in Fiber \cup {Nobody}
  /\ data \in 0..MaxSent /\ sent \in 0..MaxSent /\ edge \in Nat /\ eof \in BOOLEAN
  /\ result \in [Fiber -> {"none", "done", "error", "ETIMEDOUT"}]

Init ==
  /\ pc = [f \in Fiber |-> "out"] /\ kind = [f \in Fiber |-> "io"]
  /\ call = [f \in Fiber |-> 0] /\ calls = 0
  /\ limited = [f \in Fiber |-> FALSE] /\ mine = [f \in Fiber |-> 0]
  /\ cancelled = {} /\ early = {}
  /\ timers = [i \in TimerId |-> [st |-> "unused", call |-> 0]]
  /\ slot = Nobody /\ data = 0 /\ sent = 0 /\ eof = FALSE /\ edge = 0
  /\ result = [f \in Fiber |-> "none"]

-----------------------------------------------------------------------------
Goto(f, l) == pc' = [pc EXCEPT ![f] = l]

(* The call ends; its timer_info goes with it. *)
Return(f, r) ==
  /\ Goto(f, "out")
  /\ call' = [call EXCEPT ![f] = 0]
  /\ mine' = [mine EXCEPT ![f] = 0]
  /\ result' = [result EXCEPT ![f] = r]

StartCall(f, k, lim) ==
  /\ \A g \in Fiber : pc[g] = "out"
  /\ calls < MaxCalls
  /\ calls' = calls + 1
  /\ call' = [call EXCEPT ![f] = calls']
  /\ kind' = [kind EXCEPT ![f] = k]
  /\ limited' = [limited EXCEPT ![f] = lim]
  /\ Goto(f, "fun")
  /\ UNCHANGED <<mine, cancelled, timers, slot, data, sent, eof, edge, result, early>>

(* The system call: something to deliver, the end of the stream (0), EAGAIN
   (EINPROGRESS), EINTR, which do_io repeats, or another error, which is returned
   as EINTR is by connect_with_timeout. *)
Fun(f) ==
  /\ pc[f] = "fun"
  /\ \/ data > 0 /\ data' = data - 1 /\ Return(f, "done")
     \/ data = 0 /\ eof /\ kind[f] = "io" /\ Return(f, "done") /\ UNCHANGED data
     \/ data = 0 /\ ~eof /\ Goto(f, "arm") /\ UNCHANGED <<call, mine, result, data>>
     \/ kind[f] = "io" /\ Goto(f, "drain") /\ UNCHANGED <<call, mine, result, data>>
     \/ Return(f, "error") /\ UNCHANGED data
  /\ UNCHANGED <<kind, limited, calls, cancelled, timers, slot, sent, eof, edge, early>>

(* while (n == -1 && errno == EINTR) fun(...): the result is not kept, and a call
   that succeeds leaves errno as it was.  What it delivers is lost; EAGAIN ends the
   loop.  At the end of the stream every call returns 0, and the loop goes round
   without changing anything: no step of the model. *)
Drain(f) ==
  /\ pc[f] = "drain"
  /\ \/ data > 0 /\ data' = data - 1 /\ UNCHANGED pc
     \/ data = 0 /\ ~eof /\ Goto(f, "arm") /\ UNCHANGED data
  /\ UNCHANGED <<kind, call, limited, mine, calls, cancelled, timers, slot, sent, eof, edge,
                 result, early>>

(* Another errno ends the loop as well, and do_io returns the -1 of its first call. *)
DrainFails(f) ==
  /\ pc[f] = "drain"
  /\ Return(f, "error")
  /\ UNCHANGED <<kind, limited, calls, cancelled, timers, slot, data, sent, eof, edge, early>>

(* addConditionTimer, if the call has a timeout. *)
Arm(f) ==
  /\ pc[f] = "arm"
  /\ Goto(f, "add")
  /\ IF limited[f]
       THEN \E i \in TimerId :
              /\ timers[i].st = "unused" /\ \A j \in 1..(i - 1) : timers[j].st # "unused"
              /\ timers' = [timers EXCEPT ![i] = [st |-> "set", call |-> call[f]]]
              /\ mine' = [mine EXCEPT ![f] = i]
       ELSE UNCHANGED <<timers, mine>>
  /\ UNCHANGED <<kind, call, limited, calls, cancelled, slot, data, sent, eof, edge, result, early>>

(* Timer::cancle on the timer of this wait: without effect once it has expired. *)
Disarmed(f) ==
  [i \in TimerId |-> IF i = mine[f] /\ timers[i].st = "set"
                       THEN [timers[i] EXCEPT !.st = "ended"] ELSE timers[i]]

AddEvent(f) ==
  /\ pc[f] = "add"
  /\ slot = Nobody
  /\ slot' = f
  /\ edge' = IF (data > 0 \/ eof) /\ edge = 0 THEN 1 ELSE edge
  /\ Goto(f, "held")
  /\ UNCHANGED <<kind, call, limited, mine, calls, cancelled, timers, data, sent, eof,
                 result, early>>

(* addEvent returns -1: do_io returns, connect_with_timeout asks getsockopt. *)
AddEventFails(f) ==
  /\ pc[f] = "add"
  /\ timers' = Disarmed(f)
  /\ \E r \in {"error", "done"} : (r = "done" => kind[f] = "connect") /\ Return(f, r)
  /\ UNCHANGED <<kind, limited, calls, cancelled, slot, data, sent, eof, edge, early>>

(* The scheduled fiber comes back from YieldToHold and disarms its timer ... *)
Resume(f) ==
  /\ pc[f] = "resume"
  /\ timers' = Disarmed(f)
  /\ mine' = [mine EXCEPT ![f] = 0]
  /\ Goto(f, "check")
  /\ UNCHANGED <<kind, call, limited, calls, cancelled, slot, data, sent, eof, edge, result, early>>

(* Mutant: a timed-out call tries again. *)
CheckRetry(f) ==
  /\ pc[f] = "check"
  /\ Goto(f, "fun")
  /\ UNCHANGED <<kind, call, limited, mine, calls, cancelled, timers, slot, data, sent, eof, edge,
                 result, early>>

(* ... and looks at timer_info::cancelled: do_io then tries again,
   connect_with_timeout asks getsockopt. *)
Check(f) ==
  /\ pc[f] = "check"
  /\ \/ call[f] \in cancelled /\ Return(f, "ETIMEDOUT")
     \/ call[f] \notin cancelled /\ kind[f] = "connect"
        /\ \E r \in {"done", "error"} : Return(f, r)
     \/ call[f] \notin cancelled /\ kind[f] = "io"
        /\ Goto(f, "fun") /\ UNCHANGED <<call, mine, result>>
  /\ UNCHANGED <<kind, limited, calls, cancelled, timers, slot, data, sent, eof, edge, early>>

-----------------------------------------------------------------------------
(* The registered fiber is scheduled and the slot emptied: triggerEvent. *)
Wake == /\ slot # Nobody
        /\ pc' = [pc EXCEPT ![slot] = "queued"]
        /\ slot' = Nobody

(* idle's dispatch loop; what it dispatches may be used up by now, or nobody is
   registered any more. *)
Dispatch ==
  /\ edge > 0 /\ edge' = edge - 1
  /\ Wake \/ (slot = Nobody /\ UNCHANGED <<pc, slot>>)
  /\ UNCHANGED <<kind, call, limited, mine, calls, cancelled, timers, data, sent, eof,
                 result, early>>

SwapIn(f) ==
  /\ pc[f] = "queued"
  /\ Goto(f, "resume")
  /\ UNCHANGED <<kind, call, limited, mine, calls, cancelled, timers, slot, data, sent, eof, edge,
                 result, early>>

(* listExpireCB takes the callback and schedules it. *)
Expire(i) ==
  /\ timers[i].st = "set"
  /\ timers' = [timers EXCEPT ![i].st = "queued"]
  /\ UNCHANGED <<pc, kind, call, limited, mine, calls, cancelled, slot, data, sent, eof, edge,
                 result, early>>

Owner(i) == {f \in Fiber : call[f] = timers[i].call}

(* Mutant: the callback marks whoever is registered. *)
TimerCallbackAnyone(i) ==
  /\ timers[i].st = "queued"
  /\ slot # Nobody
  /\ cancelled' = cancelled \cup {call[slot]}
  /\ timers' = [timers EXCEPT ![i].st = "firing"]
  /\ UNCHANGED <<pc, kind, call, limited, mine, calls, slot, data, sent, eof, edge, result, early>>

(* The callback through OnTimer: nothing is left to do when the call has ended
   or is marked already, else it is marked ... *)
TimerCallback(i) ==
  /\ timers[i].st = "queued"
  /\ IF Owner(i) = {} \/ timers[i].call \in cancelled
       THEN timers' = [timers EXCEPT ![i].st = "ended"] /\ UNCHANGED <<cancelled, early>>
       ELSE /\ timers' = [timers EXCEPT ![i].st = "firing"]
            /\ cancelled' = cancelled \cup {timers[i].call}
            /\ early' = IF slot \in Owner(i) THEN early ELSE early \cup {timers[i].call}
  /\ UNCHANGED <<pc, kind, call, limited, mine, calls, slot, data, sent, eof, edge, result>>

(* Mutant: the event is left registered. *)
CancelEventNot(i) ==
  /\ timers[i].st = "firing"
  /\ timers' = [timers EXCEPT ![i].st = "ended"]
  /\ UNCHANGED <<pc, kind, call, limited, mine, calls, cancelled, data, sent, eof, edge, slot, result, early>>

(* ... and cancelEvent wakes who is registered now, perhaps for another call. *)
CancelEvent(i) ==
  /\ timers[i].st = "firing"
  /\ timers' = [timers EXCEPT ![i].st = "ended"]
  /\ Wake \/ (slot = Nobody /\ UNCHANGED <<pc, slot>>)
  /\ UNCHANGED <<kind, call, limited, mine, calls, cancelled, data, sent, eof, edge, result, early>>

Arrive ==
  /\ sent < MaxSent /\ ~eof
  /\ sent' = sent + 1 /\ data' = data + 1 /\ edge' = edge + 1
  /\ UNCHANGED <<pc, kind, call, limited, mine, calls, cancelled, timers, slot, eof, result, early>>

PeerClose ==
  /\ ~eof
  /\ eof' = TRUE /\ edge' = edge + 1
  /\ UNCHANGED <<pc, kind, call, limited, mine, calls, cancelled, timers, slot, data, sent,
                 result, early>>

Step(f) ==
  Fun(f) \/ Drain(f) \/ Arm(f) \/ AddEvent(f) \/ SwapIn(f) \/ Resume(f) \/ Check(f)

Fire(i) == Expire(i) \/ TimerCallback(i) \/ CancelEvent(i)

Next ==
  \/ \E f \in Fiber : Step(f) \/ DrainFails(f) \/ AddEventFails(f)
                      \/ \E k \in {"io", "connect"}, lim \in BOOLEAN : StartCall(f, k, lim)
  \/ \E i \in TimerId : Fire(i)
  \/ Dispatch
  \/ Arrive
  \/ PeerClose

Spec == Init /\ [][Next]_vars

(* The scheduler runs scheduled fibers and callbacks, the pollers collect expired
   timers. *)
FairSpec ==
  /\ Spec
  /\ \A f \in Fiber : WF_vars(Step(f))
  /\ \A i \in TimerId : WF_vars(Fire(i))

-----------------------------------------------------------------------------
(* Only a call whose own timer has expired is told ETIMEDOUT: the callback of an
   earlier call on the same descriptor, run late, does not end this one. *)
OwnTimeout ==
  [][\A f \in Fiber :
       (result'[f] = "ETIMEDOUT" /\ call[f] # 0 /\ call'[f] = 0) =>
         \E i \in TimerId : timers[i].call = call[f] /\ timers[i].st \in {"firing", "ended"}]_vars

(* A callback that will still wake the fibers of call c. *)
WillWake(c) ==
  \E i \in TimerId :
    \/ timers[i].call = c /\ c \notin cancelled /\ timers[i].st \in {"set", "queued"}
    \/ timers[i].st = "firing"

(* A fiber that waits with a timeout can always still be woken by a timer: it is
   registered, and a callback that has not run yet will cancel its event.  The
   exception is a callback that ran before the event was registered: it marks
   the call, cancels nothing, and makes every later callback of the call idle. *)
WaiterHasTimer ==
  \A f \in Fiber : pc[f] = "held" =>
    /\ slot = f
    /\ limited[f] => WillWake(call[f]) \/ call[f] \in early

(* The loop on EINTR has met the end of the stream. *)
Spins(f) == pc[f] = "drain" /\ data = 0 /\ eof

(* A call with a timeout that has come to wait returns, if the peer sends finitely
   often: an event that finds nothing to read sends it back to wait with a new timer,
   and that timer ends it.  Two exceptions: a callback that ran before the event was
   registered, as above, and the loop on EINTR, which no timer ends and which does
   not leave the end of the stream. *)
TimeoutReturns ==
  \A f \in Fiber :
    (pc[f] = "held" /\ limited[f]) ~> (pc[f] = "out" \/ call[f] \in early \/ Spins(f))

(* Types, and a fiber that waits with a timeout can still be woken by it. *)
WaitInv == TypeOK /\ WaiterHasTimer
=============================================================================
