------------------------------ MODULE TcpServer -------------------------------
(***************************************************************************)
(* tcp_server.cpp: the owner of a server retries bind until it succeeds,   *)
(* starts the accept loops and at some time stops them.  bind, the loops,  *)
(* the closing task that stop() leaves to the accept worker, the clients   *)
(* and other users of the addresses interleave.                            *)
(*                                                                         *)
(* An accept loop is modelled down to the hooked accept, since cancelAll   *)
(* and close act on the fiber that waits in it.  Sockets are named by      *)
(* their address: bind makes one for each.                                 *)
(***************************************************************************)
EXTENDS Integers, Sequences, FiniteSets, SequencesExt

CONSTANTS
  Addr,        \* the addresses the server is given
  NewVector,   \* each call of bind has a fails of its own: bind(addr), or a caller with a new
               \* vector; else bind(addrs, fails) gets the same one again
  MaxTaken,    \* bound on how often others take an address
  MaxClients   \* bound on the clients

ASSUME TcpServerAssumption ==
  /\ IsFiniteSet(Addr) /\ Addr # {}
  /\ NewVector \in BOOLEAN
  /\ MaxTaken \in Nat /\ MaxClients \in Nat

VARIABLES
  oneThread,\* whether m_acceptWorker has one thread; never changes
  owner,    \* where the owner is: bind, retry, bound, running, stopped
  left,     \* addresses bind has still to try; their order does not matter
  fails,    \* the vector of failed addresses
  sockets,  \* m_sockets
  open,     \* sockets that are open in the kernel, listening
  taken,    \* addresses others listen on
  takes,    \* how often one was taken
  isStop,   \* m_isStop
  loop,     \* where the accept loop of each socket is
  closer,   \* the steps left of the closing task
  backlog,  \* clients that wait to be accepted
  clients,  \* clients so far
  late      \* clients each loop accepted after the stop

vars == <<oneThread, owner, left, fails, sockets, open, taken, takes, isStop, loop, closer,
          backlog, clients, late>>

(* Types of the state. *)
TypeOK ==
  /\ oneThread \in BOOLEAN
  /\ owner \in {"bind", "retry", "bound", "running", "stopped"}
  /\ left \in SUBSET Addr /\ fails \in SUBSET Addr
  /\ sockets \in SUBSET Addr /\ open \in SUBSET Addr
  /\ taken \in SUBSET (Addr \ open) /\ takes \in 0..MaxTaken
  /\ isStop \in BOOLEAN
  /\ loop \in [Addr -> {"none", "test", "accept", "add", "wait", "done"}]
  /\ closer \in Seq({"cancel", "hook", "close"} \X Addr)
  /\ backlog \in [Addr -> 0..MaxClients] /\ clients \in 0..MaxClients
  /\ late \in [Addr -> Nat]

Init ==
  /\ oneThread \in BOOLEAN
  /\ owner = "bind" /\ left = Addr /\ fails = {} /\ sockets = {} /\ open = {}
  /\ taken \in SUBSET Addr /\ takes = 0
  /\ isStop = TRUE
  /\ loop = [a \in Addr |-> "none"] /\ closer = <<>>
  /\ backlog = [a \in Addr |-> 0] /\ clients = 0
  /\ late = [a \in Addr |-> 0]

-----------------------------------------------------------------------------
(* One turn of the loop in bind: the socket is bound and listens, or fails
   gets its address and the socket is destroyed. *)
BindOne(a) ==
  /\ owner = "bind" /\ a \in left
  /\ left' = left \ {a}
  /\ \/ /\ a \in taken \cup open
        /\ fails' = fails \cup {a}
        /\ UNCHANGED <<sockets, open>>
     \/ /\ a \notin taken \cup open
        /\ sockets' = sockets \cup {a} /\ open' = open \cup {a}
        /\ UNCHANGED fails
  /\ UNCHANGED <<oneThread, owner, taken, takes, isStop, loop, closer, backlog, clients, late>>

(* Mutant: the sockets that were bound are kept. *)
BindReturnKeep ==
  /\ owner = "bind" /\ left = {}
  /\ owner' = IF fails = {} THEN "bound" ELSE "retry"
  /\ UNCHANGED <<oneThread, left, fails, sockets, open, taken, takes, isStop, loop, closer,
                 backlog, clients, late>>

(* The end of bind: with a failure m_sockets.clear() destroys, and closes, all. *)
BindReturn ==
  /\ owner = "bind" /\ left = {}
  /\ \/ fails = {} /\ owner' = "bound" /\ UNCHANGED <<sockets, open, backlog>>
     \/ /\ fails # {} /\ owner' = "retry"
        /\ sockets' = {} /\ open' = {}
        /\ backlog' = [a \in Addr |-> 0]
  /\ UNCHANGED <<oneThread, left, fails, taken, takes, isStop, loop, closer, clients, late>>

(* The owner sleeps and calls bind again. *)
BindAgain ==
  /\ owner = "retry"
  /\ owner' = "bind" /\ left' = Addr
  /\ fails' = IF NewVector THEN {} ELSE fails
  /\ UNCHANGED <<oneThread, sockets, open, taken, takes, isStop, loop, closer, backlog, clients, late>>

Start ==
  /\ owner = "bound"
  /\ owner' = "running"
  /\ isStop' = FALSE
  /\ loop' = [a \in Addr |-> IF a \in sockets THEN "test" ELSE loop[a]]
  /\ UNCHANGED <<oneThread, left, fails, sockets, open, taken, takes, closer, backlog, clients, late>>

(* What the closing task does with a socket: cancelAll of Socket, then in close
   the cancelAll of the hooked close, then the kernel's close. *)
CloseSteps(a) == <<<<"cancel", a>>, <<"hook", a>>, <<"close", a>>>>

(* Mutant: no task closes the sockets. *)
StopFlagOnly ==
  /\ owner = "running"
  /\ owner' = "stopped"
  /\ isStop' = TRUE
  /\ UNCHANGED <<oneThread, left, fails, sockets, open, taken, takes, loop, closer, backlog, clients, late>>

Stop ==
  /\ owner = "running"
  /\ owner' = "stopped"
  /\ isStop' = TRUE
  /\ closer' = FlattenSeq([i \in 1..Cardinality(sockets) |->
                             CloseSteps(SetToSeq(sockets)[i])])
  /\ UNCHANGED <<oneThread, left, fails, sockets, open, taken, takes, loop, backlog, clients, late>>

-----------------------------------------------------------------------------
(* The closing task does not yield: on a worker with one thread no fiber runs
   from its first step to its last. *)
CloserRuns == closer # <<>> /\ Len(closer) < 3 * Cardinality(sockets)

Free == ~(oneThread /\ CloserRuns)

(* cancelAll(fd), in either place, wakes the fiber that waits on the socket. *)
CancelAll ==
  /\ closer # <<>> /\ Head(closer)[1] \in {"cancel", "hook"}
  /\ LET a == Head(closer)[2]
     IN loop' = [loop EXCEPT ![a] = IF @ = "wait" THEN "accept" ELSE @]
  /\ closer' = Tail(closer)
  /\ UNCHANGED <<oneThread, owner, left, fails, sockets, open, taken, takes, isStop, backlog,
                 clients, late>>

(* close_f, and after the last one m_sockets.clear(). *)
CloseFd ==
  /\ closer # <<>> /\ Head(closer)[1] = "close"
  /\ LET a == Head(closer)[2]
     IN open' = open \ {a} /\ backlog' = [backlog EXCEPT ![a] = 0]
  /\ closer' = Tail(closer)
  /\ sockets' = IF closer' = <<>> THEN {} ELSE sockets
  /\ UNCHANGED <<oneThread, owner, left, fails, taken, takes, isStop, loop, clients, late>>

Step(a, from, to) == Free /\ loop[a] = from /\ loop' = [loop EXCEPT ![a] = to]

(* Mutant: the loop does not look at the flag. *)
LoopTestNever(a) ==
  /\ Step(a, "test", "accept")
  /\ UNCHANGED <<oneThread, owner, left, fails, sockets, open, taken, takes, isStop, closer, backlog,
                 clients, late>>

(* while (!m_isStop) *)
LoopTest(a) ==
  /\ Step(a, "test", IF isStop THEN "done" ELSE "accept")
  /\ UNCHANGED <<oneThread, owner, left, fails, sockets, open, taken, takes, isStop, closer, backlog,
                 clients, late>>

(* accept_f: a client, which is scheduled on m_worker, or EAGAIN, or another error
   (the descriptor is closed, or no descriptor is free), after which the loop goes
   round. *)
Accept(a) ==
  /\ \/ /\ a \in open /\ backlog[a] > 0
        /\ Step(a, "accept", "test")
        /\ backlog' = [backlog EXCEPT ![a] = @ - 1]
        /\ late' = [late EXCEPT ![a] = IF isStop THEN @ + 1 ELSE @]
     \/ Step(a, "accept", "test") /\ UNCHANGED <<backlog, late>>
     \/ a \in open /\ backlog[a] = 0 /\ Step(a, "accept", "add") /\ UNCHANGED <<backlog, late>>
  /\ UNCHANGED <<oneThread, owner, left, fails, sockets, open, taken, takes, isStop, closer, clients>>

(* addEvent on a closed descriptor fails and accept returns an error; else the
   fiber yields, and a client that came in between makes it ready at once. *)
AddEvent(a) ==
  /\ \/ a \in open /\ Step(a, "add", "wait")
     \/ a \notin open /\ Step(a, "add", "test")
  /\ UNCHANGED <<oneThread, owner, left, fails, sockets, open, taken, takes, isStop, closer, backlog,
                 clients, late>>

(* epoll reports the listening socket. *)
Ready(a) ==
  /\ a \in open /\ backlog[a] > 0
  /\ Step(a, "wait", "accept")
  /\ UNCHANGED <<oneThread, owner, left, fails, sockets, open, taken, takes, isStop, closer, backlog,
                 clients, late>>

-----------------------------------------------------------------------------
Arrive(a) ==
  /\ a \in open /\ clients < MaxClients
  /\ clients' = clients + 1
  /\ backlog' = [backlog EXCEPT ![a] = @ + 1]
  /\ UNCHANGED <<oneThread, owner, left, fails, sockets, open, taken, takes, isStop, loop, closer, late>>

Take(a) ==
  /\ a \notin open \cup taken /\ takes < MaxTaken
  /\ takes' = takes + 1
  /\ taken' = taken \cup {a}
  /\ UNCHANGED <<oneThread, owner, left, fails, sockets, open, isStop, loop, closer, backlog, clients, late>>

GiveUp(a) ==
  /\ a \in taken
  /\ taken' = taken \ {a}
  /\ UNCHANGED <<oneThread, owner, left, fails, sockets, open, takes, isStop, loop, closer, backlog,
                 clients, late>>

Owner == (\E a \in Addr : BindOne(a)) \/ BindReturn \/ BindAgain
Closing == CancelAll \/ CloseFd
Accepting(a) == LoopTest(a) \/ Accept(a) \/ AddEvent(a) \/ Ready(a)

Next ==
  \/ Owner \/ Start \/ Stop \/ Closing
  \/ \E a \in Addr : Accepting(a) \/ Arrive(a) \/ Take(a) \/ GiveUp(a)

Spec == Init /\ [][Next]_vars

(* The owner's loop, the closing task and the fibers are run by the scheduler,
   which gives every queued task a turn.  Nothing is assumed of others. *)
FairSpec == Spec /\ WF_vars(Owner) /\ WF_vars(Closing) /\ \A a \in Addr : WF_vars(Accepting(a))

-----------------------------------------------------------------------------
(* bind is all or nothing, though it tries the addresses one by one while others
   take and leave them: the server goes on with every address, and while the
   owner sleeps before the next try it holds none. *)
BindAllOrNothing ==
  /\ owner \in {"bound", "running"} => open = Addr
  /\ owner = "retry" => open = {}

(* A loop that was waiting when stop() was called may accept one client more, and
   no second one. *)
OneLateClient == \A a \in Addr : late[a] <= 1

(* A fiber waits in accept on an open socket only: close has cancelled its event
   before.  With one thread; with more, the woken fiber can wait again before
   the socket is closed, and nothing wakes it then. *)
WaitsOnOpen ==
  oneThread => \A a \in Addr : loop[a] = "wait" => a \in open

(* Each accept loop of such a server ends after stop(), and the addresses are free
   again. *)
StopEnds ==
  (oneThread /\ owner = "stopped") ~> (open = {} /\ \A a \in Addr : loop[a] \in {"none", "done"})

(* while (!bind(...)) sleep: once nobody else holds an address, the server gets
   them all, if each call of bind starts with no failures, as in bind(addr) and
   where the caller clears them.  A caller that keeps its vector
   (tests/test_tcp_server.cpp:19) never gets them after one failure, as bind only
   adds to it. *)
BindSucceeds == <>[](taken = {}) => <>(owner \notin {"bind", "retry"})

(* Types, and the sockets a server holds are those its owner, after bind, and its
   accept loops count on. *)
SocketInv == TypeOK /\ BindAllOrNothing /\ WaitsOnOpen
===============================================================================
