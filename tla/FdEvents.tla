------------------------------ MODULE FdEvents ------------------------------
(***************************************************************************)
(* The per-descriptor event slots of IOManager (iomanager.cpp) against an  *)
(* edge-triggered epoll: addEvent, delEvent, cancelEvent, cancelAll and    *)
(* the dispatch loop of idle(), called by any threads.  Each of them is    *)
(* one critical section of FdEvent::mutex.  What epoll_wait returned may   *)
(* be stale when the dispatch loop gets that mutex.                        *)
(*                                                                         *)
(* A failed TINY_ASSERT ends the process: failed names its line.           *)
(***************************************************************************)
EXTENDS Integers, FiniteSets

CONSTANTS
  Fd,         \* descriptors
  Waiter,     \* fibers or callbacks that wait for an event
  Nobody,     \* an empty slot
  Poller,     \* threads in IOManager::idle
  Flag,       \* what the kernel may report: event types, perhaps "HUP"
  MayDelete,  \* whether delEvent is called
  MayClose    \* whether a descriptor is closed and its number reused

Type == {"READ", "WRITE"}

ASSUME FdEventsAssumption ==
  /\ IsFiniteSet(Fd) /\ IsFiniteSet(Waiter)
  /\ Nobody \notin Waiter
  /\ Flag \subseteq Type \cup {"HUP"}
  /\ MayDelete \in BOOLEAN /\ MayClose \in BOOLEAN

VARIABLES
  et,         \* FdEvent::et
  slot,       \* FdEvent::read and write: who is to be scheduled
  pending,    \* m_pendingEventCount
  interest,   \* epoll: registered events of each registered descriptor
  inEpoll,    \* epoll: the registered descriptors
  ready,      \* what each descriptor is ready for
  rdlist,     \* epoll: descriptors to be reported
  batch,      \* epoll_wait's result in each poller, not yet dispatched
  wst,        \* what each waiter does
  closing,    \* descriptors between cancelAll and close_f in hook.cpp close()
  failed      \* line of the assertion that failed, or 0

vars == <<et, slot, pending, interest, inEpoll, ready, rdlist, batch, wst,
          closing, failed>>

epoll == <<interest, inEpoll, rdlist>>

(* Types; m_pendingEventCount, an unsigned counter, never goes below zero. *)
TypeOK ==
  /\ et \in [Fd -> SUBSET Type]
  /\ slot \in [Fd -> [Type -> Waiter \cup {Nobody}]]
  /\ pending \in Nat
  /\ interest \in [Fd -> SUBSET Type]
  /\ inEpoll \in SUBSET Fd
  /\ ready \in [Fd -> SUBSET Flag]
  /\ rdlist \in SUBSET inEpoll
  /\ batch \in [Poller -> [Fd -> SUBSET Flag]]
  /\ wst \in [Waiter -> {"running", "held", "queued", "twice", "dropped"}]
  /\ closing \in SUBSET Fd
  /\ failed \in {0, 74, 125, 143}

Init ==
  /\ et = [f \in Fd |-> {}]
  /\ slot = [f \in Fd |-> [ty \in Type |-> Nobody]]
  /\ pending = 0
  /\ interest = [f \in Fd |-> {}]
  /\ inEpoll = {}
  /\ ready = [f \in Fd |-> {}]
  /\ rdlist = {}
  /\ batch = [p \in Poller |-> [f \in Fd |-> {}]]
  /\ wst = [x \in Waiter |-> "running"]
  /\ closing = {}
  /\ failed = 0

-----------------------------------------------------------------------------
(* epoll_ctl: ADD needs a descriptor that is not registered, MOD and DEL one
   that is. *)
EpollCtlOk(f, op) == (op = "ADD") <=> (f \notin inEpoll)

(* ADD and MOD look at the readiness again, also when it was reported before. *)
EpollCtl(f, op, events) ==
  /\ interest' = [interest EXCEPT ![f] = events]
  /\ inEpoll' = IF op = "DEL" THEN inEpoll \ {f} ELSE inEpoll \cup {f}
  /\ rdlist' = IF op # "DEL" /\ ready[f] \cap (events \cup {"HUP"}) # {}
                 THEN rdlist \cup {f} ELSE rdlist \ {f}

ModOrDel(left) == IF left = {} THEN "DEL" ELSE "MOD"

(* schedule(&event.cb) or schedule(&event.fiber) of every slot in S. *)
Scheduled(f, S) ==
  [x \in Waiter |->
     IF \E ty \in S : slot[f][ty] = x
       THEN IF wst[x] = "held" THEN "queued" ELSE "twice"
       ELSE wst[x]]

(* triggerEvent for each type of S in turn, --m_pendingEventCount after each.
   Its assertion is et & eventtype. *)
TriggerEvents(f, S) ==
  IF S \subseteq et[f]
    THEN /\ et' = [et EXCEPT ![f] = @ \ S]
         /\ wst' = Scheduled(f, S)
         /\ slot' = [slot EXCEPT ![f] = [ty \in Type |-> IF ty \in S THEN Nobody ELSE @[ty]]]
         /\ pending' = pending - Cardinality(S)
         /\ UNCHANGED failed
    ELSE failed' = 74 /\ UNCHANGED <<et, slot, pending, wst>>

Fail(line) == failed' = line /\ UNCHANGED <<et, slot, pending, wst, epoll>>

-----------------------------------------------------------------------------
(* No two waiters wait for the same thing: the caller's duty. *)
Unclaimed(f, ty) == \A x \in Waiter : ~(slot[f][ty] = x /\ wst[x] = "held")

(* addEvent by x itself (which then yields) or with x as the callback. *)
AddEvent(x, f, ty) ==
  /\ wst[x] = "running" /\ Unclaimed(f, ty)
  /\ LET op == IF et[f] = {} THEN "ADD" ELSE "MOD"
     IN  \/ ty \in et[f] /\ Fail(125)
         \/ ty \notin et[f] /\ EpollCtlOk(f, op) /\ slot[f][ty] # Nobody /\ Fail(143)
         \/ /\ ty \notin et[f] /\ EpollCtlOk(f, op) /\ slot[f][ty] = Nobody
            /\ EpollCtl(f, op, et[f] \cup {ty})
            /\ pending' = pending + 1
            /\ et' = [et EXCEPT ![f] = @ \cup {ty}]
            /\ slot' = [slot EXCEPT ![f][ty] = x]
            /\ wst' = [wst EXCEPT ![x] = "held"]
            /\ UNCHANGED failed
  /\ UNCHANGED <<ready, batch, closing>>

(* delEvent: resetEvent takes its Event by value, so the slot keeps what it
   holds; nobody will schedule it. *)
DelEvent(f, ty) ==
  /\ MayDelete
  /\ ty \in et[f]
  /\ LET left == et[f] \ {ty}
     IN  /\ EpollCtlOk(f, ModOrDel(left))
         /\ EpollCtl(f, ModOrDel(left), left)
         /\ et' = [et EXCEPT ![f] = left]
  /\ pending' = pending - 1
  /\ wst' = [wst EXCEPT ![slot[f][ty]] = "dropped"]
  /\ UNCHANGED <<slot, failed, ready, batch, closing>>

(* Mutant: the event is removed, but its waiter is not scheduled. *)
CancelEventSilent(f, ty) ==
  /\ ty \in et[f]
  /\ LET left == et[f] \ {ty}
     IN  EpollCtl(f, ModOrDel(left), left) /\ et' = [et EXCEPT ![f] = left]
  /\ slot' = [slot EXCEPT ![f][ty] = Nobody]
  /\ pending' = pending - 1
  /\ UNCHANGED <<wst, failed, ready, batch, closing>>

(* Mutant: the other event type of the descriptor is forgotten in epoll. *)
CancelEventAll(f, ty) ==
  /\ ty \in et[f]
  /\ EpollCtl(f, "DEL", {})
  /\ TriggerEvents(f, {ty})
  /\ UNCHANGED <<ready, batch, closing>>

CancelEvent(f, ty) ==
  /\ ty \in et[f]
  /\ LET left == et[f] \ {ty}
     IN  EpollCtlOk(f, ModOrDel(left)) /\ EpollCtl(f, ModOrDel(left), left)
  /\ TriggerEvents(f, {ty})
  /\ UNCHANGED <<ready, batch, closing>>

(* cancelAll: also the first half of hook.cpp close(), which goes on whatever
   cancelAll returns. *)
CancelAll(f) ==
  /\ \/ et[f] = {} /\ UNCHANGED <<et, slot, pending, wst, failed, epoll>>
     \/ et[f] # {} /\ ~EpollCtlOk(f, "DEL") /\ UNCHANGED <<et, slot, pending, wst, failed, epoll>>
     \/ et[f] # {} /\ EpollCtlOk(f, "DEL") /\ EpollCtl(f, "DEL", {}) /\ TriggerEvents(f, et[f])
  /\ closing' = IF MayClose THEN closing \cup {f} ELSE closing
  /\ UNCHANGED <<ready, batch>>

(* close_f, and the number is given to a new descriptor at once.  Who registered
   after cancelAll waits for a descriptor that is gone. *)
CloseReuse(f) ==
  /\ f \in closing
  /\ closing' = closing \ {f}
  /\ inEpoll' = inEpoll \ {f}
  /\ interest' = [interest EXCEPT ![f] = {}]
  /\ rdlist' = rdlist \ {f}
  /\ ready' = [ready EXCEPT ![f] = {}]
  /\ wst' = [x \in Waiter |->
               IF wst[x] = "held" /\ \E ty \in Type : slot[f][ty] = x
                 THEN "dropped" ELSE wst[x]]
  /\ UNCHANGED <<et, slot, pending, batch, failed>>

-----------------------------------------------------------------------------
(* epoll_wait returns the descriptors that are to be reported: fewer than the
   64 it has room for. *)
EpollWait(p) ==
  /\ \A f \in Fd : batch[p][f] = {}
  /\ rdlist # {}
  /\ batch' = [batch EXCEPT ![p] =
       [f \in Fd |-> IF f \in rdlist THEN ready[f] \cap (interest[f] \cup {"HUP"}) ELSE {}]]
  /\ rdlist' = {}
  /\ UNCHANGED <<et, slot, pending, interest, inEpoll, ready, wst, closing, failed>>

RealEvents(flags) == IF "HUP" \in flags THEN Type ELSE flags

(* Mutant: the descriptor is deleted from epoll although an event is left. *)
DispatchDel(p, f) ==
  LET real == RealEvents(batch[p][f])
  IN  /\ batch[p][f] # {}
      /\ batch' = [batch EXCEPT ![p][f] = {}]
      /\ IF real \cap et[f] = {} \/ ~EpollCtlOk(f, "DEL")
           THEN UNCHANGED <<et, slot, pending, wst, failed, epoll>>
           ELSE EpollCtl(f, "DEL", {}) /\ TriggerEvents(f, real)
      /\ UNCHANGED <<ready, closing>>

(* One round of the dispatch loop of idle(). *)
Dispatch(p, f) ==
  LET real == RealEvents(batch[p][f])
      left == et[f] \ real
  IN  /\ batch[p][f] # {}
      /\ batch' = [batch EXCEPT ![p][f] = {}]
      /\ IF real \cap et[f] = {} \/ ~EpollCtlOk(f, ModOrDel(left))
           THEN UNCHANGED <<et, slot, pending, wst, failed, epoll>>
           ELSE EpollCtl(f, ModOrDel(left), left) /\ TriggerEvents(f, real)
      /\ UNCHANGED <<ready, closing>>

-----------------------------------------------------------------------------
(* The kernel: data, space or a hang-up arrives. *)
BecomeReady(f, flag) ==
  /\ flag \notin ready[f]
  /\ ready' = [ready EXCEPT ![f] = @ \cup {flag}]
  /\ rdlist' = IF f \in inEpoll /\ flag \in interest[f] \cup {"HUP"}
                 THEN rdlist \cup {f} ELSE rdlist
  /\ UNCHANGED <<et, slot, pending, interest, inEpoll, batch, wst, closing, failed>>

(* A waiter that was scheduled runs again ... *)
Resume(x) ==
  /\ wst[x] = "queued"
  /\ wst' = [wst EXCEPT ![x] = "running"]
  /\ UNCHANGED <<et, slot, pending, epoll, ready, batch, closing, failed>>

(* ... and its system calls use up what the descriptor was ready for. *)
UseUp(f, ty) ==
  /\ ty \in ready[f]
  /\ \E x \in Waiter : wst[x] = "running"
  /\ ready' = [ready EXCEPT ![f] = @ \ {ty}]
  /\ UNCHANGED <<et, slot, pending, epoll, batch, wst, closing, failed>>

Poll(p) == EpollWait(p) \/ \E f \in Fd : Dispatch(p, f)

Next ==
  /\ failed = 0
  /\ \/ \E x \in Waiter : Resume(x) \/ \E f \in Fd, ty \in Type : AddEvent(x, f, ty)
     \/ \E f \in Fd, ty \in Type : DelEvent(f, ty) \/ CancelEvent(f, ty) \/ UseUp(f, ty)
     \/ \E f \in Fd : CancelAll(f) \/ CloseReuse(f)
     \/ \E f \in Fd, flag \in Flag : BecomeReady(f, flag)
     \/ \E p \in Poller : Poll(p)

Spec == Init /\ [][Next]_vars

(* A poller that epoll_wait has something for, or that has a batch, goes on. *)
FairSpec == Spec /\ \A p \in Poller : WF_vars(failed = 0 /\ Poll(p))

-----------------------------------------------------------------------------
(* m_pendingEventCount, which stopping() trusts, is the number of registered
   events over all descriptors. *)
PendingIsRegistered ==
  failed = 0 => pending = Cardinality({e \in Fd \X Type : e[2] \in et[e[1]]})

(* The number was reused while the event of a waiter was still registered. *)
Outlived(f) == \E ty \in et[f] : wst[slot[f][ty]] = "dropped"

(* epoll knows exactly the events of FdEvent::et, so no epoll_ctl of the
   functions above fails as long as no registration outlives its descriptor. *)
EpollMirrorsEt ==
  failed = 0 => \A f \in Fd : ~Outlived(f) =>
                  interest[f] = et[f] /\ (f \in inEpoll <=> et[f] # {})

(* A waiter is scheduled at most once for each registration, and while it waits a
   registered slot refers to it.  Two kinds of waiters are dropped and left out: the
   one that delEvent takes out of its slot, and the one that registered between the
   cancelAll and the close_f of close(), whose descriptor is gone. *)
WaiterInSlot ==
  failed = 0 => \A x \in Waiter :
    /\ wst[x] # "twice"
    /\ wst[x] = "held" => \E f \in Fd, ty \in Type : ty \in et[f] /\ slot[f][ty] = x

(* Edge-triggered notifications are not lost: a waiter whose event has come is
   scheduled, unless somebody else uses the event up, also when the registration
   changes between epoll_wait and the dispatch loop.  Waiters that delEvent or
   close() dropped, as above, are left out. *)
ReadyIsDelivered ==
  \A x \in Waiter, f \in Fd, ty \in Type :
    (failed = 0 /\ slot[f][ty] = x /\ wst[x] = "held" /\ ty \in ready[f])
      ~> (failed # 0 \/ wst[x] # "held" \/ ty \notin ready[f])

(* The assertion of triggerEvent (iomanager.cpp:74). *)
TriggerAssertion == failed # 74

(* The assertion of addEvent that the event is not registered yet
   (iomanager.cpp:125). *)
NotRegisteredAssertion == failed # 125

(* The assertion of addEvent that its slot is empty (iomanager.cpp:143). *)
SlotEmptyAssertion == failed # 143

(* Types, and the three records of what is registered, FdEvent::et, the pending
   counter and epoll's interest list, agree. *)
RegistrationInv == TypeOK /\ PendingIsRegistered /\ EpollMirrorsEt
=============================================================================
