----------------------------- MODULE FdManager ------------------------------
(***************************************************************************)
(* The descriptor table of fd_manager.cpp and the hooked calls of hook.cpp *)
(* that keep it: socket, accept, close, fcntl, ioctl, setsockopt.  FdCtx   *)
(* remembers for a descriptor NUMBER what the user asked for, while the    *)
(* kernel gives closed numbers to new sockets at once, to any thread.      *)
(*                                                                         *)
(* Only sockets are in the table: get(fd, true) is called by socket and    *)
(* accept alone.                                                           *)
(***************************************************************************)
EXTENDS Integers, Sequences, FiniteSets

CONSTANTS
  Fd,         \* descriptor numbers
  Thread,
  Hooked,     \* threads with t_hook_enable, run by an IOManager
  StartSize,  \* m_datas.resize(64), scaled
  MaxGen      \* bound on sockets made

ASSUME FdManagerAssumption ==
  /\ IsFiniteSet(Fd) /\ Fd \subseteq Nat
  /\ IsFiniteSet(Thread) /\ Hooked \subseteq Thread
  /\ StartSize \in Nat /\ StartSize >= 2
  /\ MaxGen \in Nat

NoFd == -1
NoCtx == [gen |-> 0, user |-> FALSE, timeout |-> FALSE]
Ctx == [gen : 1..MaxGen, user : BOOLEAN, timeout : BOOLEAN]

VARIABLES
  open,       \* kernel: which socket each number stands for, 0 if none
  gen,        \* sockets made so far
  oNonblock,  \* kernel: O_NONBLOCK of each number
  size,       \* m_datas.size()
  datas,      \* m_datas, NoCtx for a null reference
  todo,       \* steps left of each thread's call
  arg,        \* the descriptor of each thread's call
  born,       \* numbers whose socket was made by a hooked thread
  asked,      \* what the user last asked for: O_NONBLOCK or not
  odd         \* what happened to the number that the table does not follow

vars == <<open, gen, oNonblock, size, datas, todo, arg, born, asked, odd>>

(* Types of the kernel's and the manager's tables. *)
TypeOK ==
  /\ open \in [Fd -> 0..MaxGen] /\ gen \in 0..MaxGen
  /\ oNonblock \in [Fd -> BOOLEAN]
  /\ size \in Nat
  /\ datas \in [Fd -> Ctx \cup {NoCtx}]
  /\ \A t \in Thread : todo[t] \in Seq({"get", "create", "del", "close"})
  /\ arg \in [Thread -> Fd \cup {NoFd}]
  /\ born \in SUBSET Fd /\ asked \in [Fd -> BOOLEAN]
  /\ odd \in [Fd -> SUBSET {"leak", "ioctl", "setfd"}]

Init ==
  /\ open = [f \in Fd |-> 0] /\ gen = 0
  /\ oNonblock = [f \in Fd |-> FALSE]
  /\ size = StartSize /\ datas = [f \in Fd |-> NoCtx]
  /\ todo = [t \in Thread |-> <<>>] /\ arg = [t \in Thread |-> NoFd]
  /\ born = {} /\ asked = [f \in Fd |-> FALSE]
  /\ odd = [f \in Fd |-> {}]

-----------------------------------------------------------------------------
Idle(t) == todo[t] = <<>>

(* No call that makes or closes the descriptor is under way. *)
Settled(f) == open[f] # 0 /\ \A t \in Thread : arg[t] # f

(* FdManager::get(fd) without auto_create. *)
Get(f) == IF size <= f THEN NoCtx ELSE datas[f]

Begin(t, f, steps) ==
  /\ todo' = [todo EXCEPT ![t] = steps]
  /\ arg' = [arg EXCEPT ![t] = IF steps = <<>> THEN NoFd ELSE f]

StepDone(t) == Begin(t, arg[t], Tail(todo[t]))

(* The kernel makes a socket; get(fd, true) is still to come. *)
NewSocket(t, f, steps, hooked) ==
  /\ Idle(t)
  /\ open[f] = 0 /\ gen < MaxGen
  /\ gen' = gen + 1
  /\ open' = [open EXCEPT ![f] = gen']
  /\ oNonblock' = [oNonblock EXCEPT ![f] = FALSE]
  /\ asked' = [asked EXCEPT ![f] = FALSE]
  /\ born' = IF hooked THEN born \cup {f} ELSE born \ {f}
  /\ Begin(t, f, steps)
  /\ UNCHANGED <<size, datas, odd>>

Socket(t, f) ==
  \/ t \in Hooked /\ NewSocket(t, f, <<"get", "create">>, TRUE)
  \/ t \notin Hooked /\ NewSocket(t, f, <<>>, FALSE)

(* accept enters the new descriptor whether or not the thread is hooked. *)
Accept(t, f) == NewSocket(t, f, <<"get", "create">>, TRUE)

(* FdManager::get(fd, true) under the read lock. *)
GetRead(t) ==
  /\ ~Idle(t) /\ Head(todo[t]) = "get"
  /\ IF Get(arg[t]) # NoCtx THEN Begin(t, NoFd, <<>>) ELSE StepDone(t)
  /\ UNCHANGED <<open, gen, oNonblock, size, datas, born, asked, odd>>

(* m_datas.resize(fd * 1.5) *)
Resized(f) == IF f >= size THEN (f * 3) \div 2 ELSE size

(* FdCtx::init: the flags are reset and the kernel's socket is made
   non-blocking. *)
CtxInit(f) ==
  /\ datas' = [datas EXCEPT ![f] = [gen |-> open[f], user |-> FALSE, timeout |-> FALSE]]
  /\ oNonblock' = [oNonblock EXCEPT ![f] = TRUE]

(* FdManager::get(fd, true) under the write lock; the entry is not looked at
   again. *)
GetCreate(t) ==
  /\ ~Idle(t) /\ Head(todo[t]) = "create"
  /\ size' = Resized(arg[t])
  /\ CtxInit(arg[t])
  /\ StepDone(t)
  /\ UNCHANGED <<open, gen, born, asked, odd>>

-----------------------------------------------------------------------------
(* Mutant: the number is given back before its entry is erased. *)
CloseStepsSwapped(t, f) ==
  IF t \in Hooked /\ Get(f) # NoCtx THEN <<"close", "del">> ELSE <<"close">>

(* close: FdManager::del, after cancelAll, comes before close_f; a thread that is
   not hooked, or that has no IOManager, leaves the entry. *)
CloseSteps(t, f) ==
  IF t \in Hooked /\ Get(f) # NoCtx THEN <<"del", "close">> ELSE <<"close">>

Close(t, f) ==
  /\ Idle(t) /\ Settled(f)
  /\ Begin(t, f, CloseSteps(t, f))
  /\ odd' = [odd EXCEPT ![f] = IF t \notin Hooked /\ Get(f) # NoCtx THEN {"leak"} ELSE {}]
  /\ UNCHANGED <<open, gen, oNonblock, size, datas, born, asked>>

(* Mutant: the last entry is taken to lie outside. *)
DelNotLast(t) ==
  /\ ~Idle(t) /\ Head(todo[t]) = "del"
  /\ datas' = IF size <= arg[t] + 1 THEN datas ELSE [datas EXCEPT ![arg[t]] = NoCtx]
  /\ StepDone(t)
  /\ UNCHANGED <<open, gen, oNonblock, size, born, asked, odd>>

(* FdManager::del *)
Del(t) ==
  /\ ~Idle(t) /\ Head(todo[t]) = "del"
  /\ datas' = IF size <= arg[t] THEN datas ELSE [datas EXCEPT ![arg[t]] = NoCtx]
  /\ StepDone(t)
  /\ UNCHANGED <<open, gen, oNonblock, size, born, asked, odd>>

CloseFd(t) ==
  /\ ~Idle(t) /\ Head(todo[t]) = "close"
  /\ open' = [open EXCEPT ![arg[t]] = 0]
  /\ StepDone(t)
  /\ UNCHANGED <<gen, oNonblock, size, datas, born, asked, odd>>

-----------------------------------------------------------------------------
(* Mutant: what the user asks for reaches the kernel. *)
SetFlThrough(t, f, nonblock) ==
  /\ Idle(t) /\ Settled(f)
  /\ datas' = IF Get(f) = NoCtx THEN datas ELSE [datas EXCEPT ![f].user = nonblock]
  /\ oNonblock' = [oNonblock EXCEPT ![f] = nonblock]
  /\ asked' = [asked EXCEPT ![f] = nonblock]
  /\ UNCHANGED <<open, gen, size, todo, arg, born, odd>>

(* fcntl(F_SETFL): with an entry the kernel's flag follows m_sysNonblock, which is
   true of every socket. *)
SetFl(t, f, nonblock) ==
  /\ Idle(t) /\ Settled(f)
  /\ datas' = IF Get(f) = NoCtx THEN datas ELSE [datas EXCEPT ![f].user = nonblock]
  /\ oNonblock' = [oNonblock EXCEPT ![f] = (Get(f) # NoCtx \/ nonblock)]
  /\ asked' = [asked EXCEPT ![f] = nonblock]
  /\ UNCHANGED <<open, gen, size, todo, arg, born, odd>>

(* fcntl(F_SETFD, F_DUPFD...) shares the case of F_SETFL: its argument, which
   has nothing to do with O_NONBLOCK, becomes the user's flag. *)
SetFd(t, f) ==
  /\ Idle(t) /\ Settled(f) /\ Get(f) # NoCtx
  /\ datas' = [datas EXCEPT ![f].user = FALSE]
  /\ odd' = [odd EXCEPT ![f] = @ \cup {"setfd"}]
  /\ UNCHANGED <<open, gen, oNonblock, size, todo, arg, born, asked>>

(* Mutant: the entry is not told. *)
IoctlUntold(t, f, nonblock) ==
  /\ Idle(t) /\ Settled(f)
  /\ oNonblock' = [oNonblock EXCEPT ![f] = nonblock]
  /\ asked' = [asked EXCEPT ![f] = nonblock]
  /\ odd' = [odd EXCEPT ![f] = @ \cup {"ioctl"}]
  /\ UNCHANGED <<open, gen, size, datas, todo, arg, born>>

(* ioctl(FIONBIO): the request also goes to the kernel as it is. *)
Ioctl(t, f, nonblock) ==
  /\ Idle(t) /\ Settled(f)
  /\ datas' = IF Get(f) = NoCtx THEN datas ELSE [datas EXCEPT ![f].user = nonblock]
  /\ oNonblock' = [oNonblock EXCEPT ![f] = nonblock]
  /\ asked' = [asked EXCEPT ![f] = nonblock]
  /\ odd' = [odd EXCEPT ![f] = @ \cup {"ioctl"}]
  /\ UNCHANGED <<open, gen, size, todo, arg, born>>

(* setsockopt(SO_RCVTIMEO or SO_SNDTIMEO) *)
SetTimeout(t, f) ==
  /\ Idle(t) /\ Settled(f)
  /\ t \in Hooked /\ Get(f) # NoCtx
  /\ datas' = [datas EXCEPT ![f].timeout = TRUE]
  /\ UNCHANGED <<open, gen, oNonblock, size, todo, arg, born, asked, odd>>

Next ==
  \E t \in Thread :
    \/ GetRead(t) \/ GetCreate(t) \/ Del(t) \/ CloseFd(t)
    \/ \E f \in Fd :
         \/ Socket(t, f) \/ Accept(t, f) \/ Close(t, f)
         \/ SetFd(t, f) \/ SetTimeout(t, f)
         \/ \E nonblock \in BOOLEAN : SetFl(t, f, nonblock) \/ Ioctl(t, f, nonblock)

Spec == Init /\ [][Next]_vars

-----------------------------------------------------------------------------
(* Every entry lies inside m_datas, after every resize. *)
InBounds == \A f \in Fd : datas[f] # NoCtx => f < size

(* A socket made by a hooked thread or by accept has an entry once the call has
   returned, however its number was used and closed before; do_io would block
   the thread without one. *)
SocketIsManaged == \A f \in Fd : Settled(f) /\ f \in born => Get(f) # NoCtx

(* The entry of a descriptor was made for the socket it now stands for, with that
   socket's timeouts: unless the number was last closed by a thread without
   hooks, which leaves the old entry behind. *)
CtxIsFresh ==
  \A f \in Fd : Settled(f) /\ Get(f) # NoCtx /\ "leak" \notin odd[f] => datas[f].gen = open[f]

(* do_io relies on it: a managed socket is non-blocking in the kernel, whatever
   fcntl the user called.  FIONBIO and a left-over entry break it. *)
NonblockInKernel ==
  \A f \in Fd :
    Settled(f) /\ Get(f) # NoCtx /\ odd[f] \cap {"leak", "ioctl"} = {} => oNonblock[f]

(* F_GETFL, and do_io's choice between EAGAIN and waiting, follow what the user
   last asked for by F_SETFL or FIONBIO.  F_SETFD and F_DUPFD break it. *)
UserFlagKept ==
  \A f \in Fd :
    Settled(f) /\ Get(f) # NoCtx /\ odd[f] \cap {"leak", "setfd"} = {} =>
      datas[f].user = asked[f]

(* Types, and the table has room for, and an entry of, each socket that the hooked
   threads use. *)
TableInv == TypeOK /\ InBounds /\ SocketIsManaged
=============================================================================
