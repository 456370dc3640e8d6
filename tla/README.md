# TinyServer verification

TLA+ modules, TLC configurations and TLAPS proofs for TinyServer, a C++ server framework
built on an N:M fiber scheduler. Source paths below are relative to `src/` of the
repository.

## The system

* **Fibers and scheduler** (`fiber.cpp`, `scheduler.cpp`). Worker threads take fibers and
  callbacks from one locked list and swap them in. The thread that calls `stop()` may be
  a worker itself (`use_call`).
* **IOManager** (`iomanager.cpp`) is a scheduler whose idle fiber polls: it computes a
  timeout from the timers, waits in `epoll_wait`, queues the callbacks of expired timers
  and the fibers whose descriptors are ready. **TimerManager** (`timer.cpp`) is its base.
* **Hooks** (`hook.cpp`) turn a blocking call into "try, arm a timer, add an event, yield,
  try again". **FdManager** (`fd_manager.cpp`) remembers per descriptor number what the
  user asked for.
* **Sockets, streams, ByteArray** (`socket.cpp`, `socket_stream.cpp`, `bytearray.cpp`).
* **Servers and clients** (`tcp_server.cpp`, `http/`). `TcpServer` runs accept loops as
  fibers; `HttpConnectionPool` lends keep-alive connections.
* **Application and daemon** (`application.cpp`, `daemon.cpp`): pidfile, restart loop.
* Beside them: configuration, logging, addresses, URI and HTTP parsers, environment.

`PROJECT.json` lists every part with its status, and the places where the code is hard to
test (hazards) with the properties that cover them.

## Modules

| module | models | state and actions |
|---|---|---|
| `Scheduler` | `scheduler.cpp`, `fiber.cpp` | `m_fibers`, fiber states, a program counter per worker; one action per stretch between two points another thread can see |
| `TaskLife` | what the scheduler promises | new, ready, running, waiting, done; who runs what |
| `SchedulerProofs` | theorems about `Scheduler` | |
| `IOManager` | `idle()`, `stopping()`, shutdown | where a fiber's reference is: queue, timer, expired callbacks, event slot, thread. `stopping()` is three steps |
| `FdEvents` | event slots against edge-triggered epoll | `FdEvent::et`, slots, the pending counter, epoll's interest and ready lists; each public call is one critical section |
| `TimerManager` | `timer.cpp` under the polling loop | the timer set, `m_next`, `m_cb`, a bounded clock; `listExpireCB` is two steps, as its two locks are; a signal makes `epoll_wait` start again |
| `FdManager` | `fd_manager.cpp` and the hooked descriptor calls | the table, the kernel's descriptors, the steps left of each thread's call |
| `HookIo` | `do_io`, `connect_with_timeout` | one descriptor, calls with their `timer_info`, timers, notifications, a peer that sends and closes |
| `ByteArray` | node chain of `bytearray.cpp` | the concatenated nodes, current node, position, size, the last call with its arguments |
| `ByteStream` | what a ByteArray promises | one byte string with a position in a store that may reach further; what each call does for its arguments |
| `Serializer` | number and string formats | a value is written and read back; widths are scaled |
| `HttpPool` | `http_connection.cpp` | connection objects, pool list and counter, streams of requests and answers, writes that wait for the peer, answers in pieces |
| `TcpServer` | `tcp_server.cpp` | owner, accept loops down to the hooked `accept`, the closing task of `stop()` |
| `Daemon` | `application.cpp`, `daemon.cpp`, `IsRunningPidfile` | launches, parent and child, exit status, pidfile |

`MC*` modules give the constants model values for TLC. Operators marked "Mutant" change
one definition the way a plausible mistake would; each property of a passing run is shown
to fail on one of them.

The modules share interfaces and are not composed into one: `Scheduler` takes a waker as
a set of armed fibers, `IOManager` refines where those references are, `FdEvents` and
`TimerManager` give the two kinds of waker in detail, and `HookIo` uses both through the
interface the code has.

## Runs that pass

One run per module asks all its questions; where they need different circumstances (one
polling thread or two, a clock that is set back) the initial states offer the choice and a
property names the circumstance it is about.
Type correctness is checked together with the module's main state invariants, in a
conjunction of its own (`IInv`, `PlaceInv`, `RegistrationInv`, `TimerSetInv`, `TableInv`,
`WaitInv`, `ChainInv`, `FormatInv`, `PoolInv`, `SocketInv`, `RestartInv`); the conjuncts are
named and explained one by one in the module.

* `scheduler`: the assertions of `fiber.cpp` on fiber states hold; a live fiber has one
  owner and a suspended one exactly one way back; the run loop implements `TaskLife`;
  `stop()` drains the queue and returns; a wakeup that comes before the fiber has left its
  thread is not lost. The calling thread is a worker too (`Root`).
* `iomanager`: a fiber is in one place only; a sleeper wakes; with one worker thread
  `stop()` returns after every fiber has ended. With two it may not: see below.
* `fdevents`: the pending counter, epoll and the slots agree with the registered types
  until an assertion fails; a ready event is delivered, also with hang-ups and with
  descriptors that are closed and reused. Waiters that `delEvent` took out, and those that
  registered between the `cancelAll` and the `close_f` of `close()`, are left out.
* `timer`: a timer has its callback exactly while it is in the set; one-shot timers are
  collected once; after `cancle()` a timer is not collected again (a callback that was
  collected before still runs); with one polling thread `*begin()` of an empty set is never
  read. Nothing is collected early while the clock goes forward, with one exception: a
  poller that is held up for more than an hour between reading the time and taking the lock
  finds an `m_previousTime` of another poller, and `detectClockRollover` takes its own time
  for a clock that was set back (`HeldUp`). Under prompt polling a callback is at most
  `MAX_TIMEOUT` late although `tickle()` does nothing, and `MAX_TIMEOUT` more for each signal
  that interrupts the wait, as `epoll_wait` is then called again with the whole old timeout.
* `fd_manager`: a live socket made by a hooked thread is in the table with a context of
  its own, is non-blocking in the kernel, and the user's flag is the one asked for.
  Numbers touched by an unhooked `close`, by `FIONBIO` on the kernel side or by `F_SETFD`
  are marked (`odd`) and excluded where the code does not follow them.
* `hook_io`: `ETIMEDOUT` comes from a timer of the same call; a waiter with a limit still
  has a timer that will wake it, and its call returns. Two exceptions are named: the
  callback ran before `addEvent` (`early`), and the loop on `EINTR` met the end of the
  stream (`Spins`): the loop (`hook.cpp:106`) keeps neither the result nor a fresh `errno`,
  so that a read that returns 0 is repeated for ever.
* `bytearray`: the chain implements `ByteStream` as long as no null node is met. `op` is
  the last call with its arguments, so that a call must store, return or throw what the
  string does for these arguments; a failed receive leaves only its new nodes behind.
* `serializer`: reading gives exactly the part of the value that the format carries
  (`Carried`), for every value of its type: 32-bit integers, varint or fixed, come back
  whole; of 64-bit varints the low 32 bits come back; a string comes back whole if its
  size fits 16 bits, else cut, with the other characters left for the next reader. Strings
  with a varint length are left out here: writer and reader differ, see below.
* `http_pool`: one holder per connection, a correct counter, no more connections than
  users, a bound on requests per connection, only connected ones in the pool, and a user
  gets its own answer unless an earlier exchange on that connection failed and left it
  open. A direct request ends by its receive timeout, with two exceptions: no send timeout
  is set, so that it stays while the peer does not read (`blocked`), and every read has the
  whole timeout again, so that an answer sent in pieces without end keeps it.
* `tcp_server`: `bind` keeps all sockets or none and, when each call starts with no
  failures, succeeds once the addresses are free; at most one client per loop is accepted
  after `stop()`; on one accept thread the loops end.
* `daemon`: crashes are restarted and counted, an exit with status 0 ends the daemon.

## Disagreements

The run `fdevents_hangup` states the assertion of `triggerEvent` (`iomanager.cpp:74`) and
TLC shows how `EPOLLHUP`, widened to both types without regard to the registered ones,
breaks it. The configurations below are kept for the same purpose: each states what an
assertion, a message or a test of the repository says, and TLC prints a behaviour of the
code that differs (`tlc -config <name>.cfg MC<module>`).

| configuration | property | what the code does | what the repository says |
|---|---|---|---|
| `IOManagerStop` | `StopRunsFibers` | `stop()` returns with a fiber not ended: `stopping()` (`iomanager.cpp:281`) is not atomic | `tests/test_scheduler.cpp:23`: the fibers run in this call |
| `FdEventsDelete` | `SlotEmptyAssertion` | `delEvent` clears a copy of the slot (`iomanager.cpp:65`) | assertion `iomanager.cpp:143` |
| `FdEventsClose` | `NotRegisteredAssertion` | an event added between `cancelAll` and `close_f` (`hook.cpp:370`) outlives the descriptor | assertion `iomanager.cpp:125` |
| `ByteArrayNull` | `NoNullNode` | `addCapacity` (`bytearray.cpp:588`) adds one node too few | `tests/test_bytearray.cpp:22`, which uses nodes of 1 byte |
| `SerializerInt64` | `RoundTrip` | `writeInt64` (`bytearray.cpp:171`) encodes 32 bits | `tests/test_bytearray.cpp:22` |
| `SerializerUint64` | `RoundTrip` | `readUint64` (`bytearray.cpp:325`) decodes 32 bits | `tests/test_bytearray.cpp:22` |
| `SerializerF16` | `RoundTrip` | a size beyond 16 bits is cut (`bytearray.cpp:206`) and the rest of the string is left in front of the next reader | `bytearray.h:45` |
| `SerializerVint` | `RoundTrip` | varint length written, fixed length read (`bytearray.cpp:390`) | `bytearray.h:51` |
| `HttpPoolTimeout` | `PoolRequestEnds` | a pool request has no receive timeout (`http/http_connection.cpp:496`) | message at `http/http_connection.cpp:500` |
| `TcpServerRetry` | `BindSucceeds` | retrying `bind` with the same `fails` never succeeds (`tcp_server.cpp:58`) | `tests/test_tcp_server.cpp:19` |
| `DaemonSingle` | `SecondIsRefused` | the pid is not in the file while the server runs (`application.cpp:157`) | message at `application.cpp:124` |
| `DaemonFinished` | `CrashMeansCrash` | a normal end is taken for a crash (`application.cpp:162`) | messages at `daemon.cpp:59` and `63` |

## Bounds

Bounds are constants named in the guards. They were chosen so that each race has its
actors: two workers or pollers, two fibers, and enough suspensions or calls for one of
them to come back while another is still on the way.

* Scheduler: 2 pool threads and the caller, a callback that suspends and a fiber, 1 yield
  each. IOManager: 1 or 2 threads, 2 fibers, 2 suspensions each.
* FdEvents: 1 descriptor (slots of different descriptors share only the pending counter
  and the ready list), 2 waiters, 2 pollers. TimerManager: 2 timers; 2 pollers up to time
  3, 1 poller up to 4 with the clock set back, 1 prompt poller up to 6 with at most one
  signal in a wait; time starts at 1, `MAX_TIMEOUT` is 2 ticks and the hour of the rollover
  test 1 tick, so that a poller can be held up for less and for more than an hour.
* FdManager: 2 numbers, of which one is beyond the first table size, 3 threads, 3 sockets.
  HookIo: 2 fibers, 2 calls, 6 timers (more than the waits there can
  be), 1 message and a close by the peer.
* ByteArray: nodes of 3 bytes, up to 2 nodes, calls of up to 3 bytes. Serializer: 3 bits
  per varint byte, words of 7 and 10 bits, lengths of 5 bits, strings of up to 36
  bytes, which is beyond such a length.
* HttpPool: 4 connections, 3 requests by two fibers of the pool or by one of them and a
  direct one (the two kinds share no connection), 1 request per connection before it is
  spent. TcpServer: 2 addresses, 3 clients, 1 or several accept threads. Daemon: 3
  launches, 3 forks each.

Symmetry is used in `timer`, which checks no liveness. `CHECK_DEADLOCK FALSE` is set
where a run ends when its bounds are used up.

## Fairness

* Scheduler: every worker takes its next step (the operating system runs threads, and
  fibers do not compute for ever); once `stop()` is called the caller goes on. Wakers and
  callers of `schedule` owe nothing.
* IOManager: the same for workers; the time of a sleeping fiber passes. Events owe nothing.
* FdEvents: every poller polls. HookIo: each fiber's step and each armed timer; the peer
  owes nothing, and no error is owed to a loop that reads the end of the stream.
* HttpPool: the users; the peer owes nothing. TcpServer: owner, closing task and accept
  loops; clients and other holders of a port owe nothing (`BindSucceeds` assumes that in the
  end nobody else holds an address). Daemon: parent and child.

## Proofs

`SchedulerProofs` proves, for any finite set of workers, any set of tasks and any number
of yields (`SchedulerAssumption`):

* `SchedulerInvariant`: `Spec => []IInv`;
* `SchedulerTypes`, `AssertionsHold`, `ExclusiveFibers`, `SingleWayBack`: `TypeOK`,
  `FiberAssertions`, `OneOwner`, `OneWayBack` always hold;
* `QuietIdle`: the action property `IdleEndsWhenQuiet`.

None of these is inductive alone. That a worker may swap a fiber in depends on nobody
else holding it (`OneOwner`), which depends on the fiber having been taken from the only
queue entry (`QueueInv`), which depends on wakers queueing a fiber once (`TaskInv`). A
fiber is queued while still in EXEC, so what a worker may rely on depends on where it is
in the loop (`WorkerInv`). `ActiveIsCount` relates the counter to the workers and is what
makes `stopping()` trustworthy. `CallerInv` says that nobody runs before `start()`. The
conjunction is `IInv`; TLC checks it in `scheduler`. The proof has a lemma per
action, and below it one step per conjunct the action can disturb; counting lemmas give
the effect of one worker's step on `Cardinality`.

Only model-checked: liveness (fairness and ENABLED are out of the prover's reach), the
refinements to `TaskLife` and `ByteStream`, `Serializer` (recursion over data), and the
invariants of the other modules so far.

## Not modelled

Generated parsers (`uri.cpp`, `http/*.rl.cpp`), HTTP message formatting, addresses,
logging, configuration, servlets, sessions, thread wrappers, `ByteArray` file access,
`getReadBuffers(position)` and floating point formats (`readDouble` overruns its
variable). `schedule` with the id of another thread (`scheduler.h:34`; a task may be pinned
to the worker that schedules it), and the reuse of a worker's callback fiber through
`Fiber::reset` with its assertion (`fiber.cpp:93`). When timers fire after a clock that was
set back. Pid reuse by foreign processes, growth of `m_fdEvents`, `start()` after
`stop()` of a TCP server.

## Plan

1. Model next: servlet dispatch and its lock; `HttpSession::recvRequest` with the
   keep-alive loop of `HttpServer`; `Stream::readFixSize` and `writeFixSize`; growth of
   `m_fdEvents`; configuration variables and their listeners; the start-up handshake of
   `Thread`; the appender list of `Logger`.
   The server side belongs behind `TcpServer`, whose loops hand each client to it; the
   others are small enough to share a run with the module they serve.
2. Prove next: `ImplementsTaskLife` step by step; `CallbackIffInSet`, `CancelIsFinal` of
   `TimerManager`; `PendingIsRegistered` and `EpollMirrorsEt` of `FdEvents`; `OneHolder`
   and `TotalCounts` of `HttpPool`; `OnePlace` of `IOManager`; `Chain` of `ByteArray`.
