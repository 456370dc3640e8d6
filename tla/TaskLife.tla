------------------------------ MODULE TaskLife ------------------------------
(***************************************************************************)
(* What the scheduler promises to those who give it tasks: a task is       *)
(* executed by one thread at a time, it moves between threads only while   *)
(* it is suspended, every wakeup makes it runnable once, and an ended task *)
(* never runs again.  No queue, no locks, no fiber states.                 *)
(***************************************************************************)
CONSTANTS Worker, Task, NoTask

VARIABLES
  status,   \* the life of each task
  runner    \* the task each thread executes, or NoTask

vars == <<status, runner>>

Init ==
  /\ status = [t \in Task |-> "new"]
  /\ runner = [w \in Worker |-> NoTask]

Change(t, from, to) ==
  /\ status[t] = from
  /\ status' = [status EXCEPT ![t] = to]

Submit(t) == Change(t, "new", "ready") /\ UNCHANGED runner

Dispatch(w, t) ==
  /\ runner[w] = NoTask
  /\ Change(t, "ready", "running")
  /\ runner' = [runner EXCEPT ![w] = t]

(* The thread lets go of its task: it yielded, was woken before it had
   suspended, suspended, or ended. *)
Release(w, to) ==
  /\ runner[w] # NoTask
  /\ Change(runner[w], "running", to)
  /\ runner' = [runner EXCEPT ![w] = NoTask]

Wake(t) == Change(t, "waiting", "ready") /\ UNCHANGED runner

Next ==
  \/ \E t \in Task : Submit(t) \/ Wake(t)
  \/ \E w \in Worker, t \in Task : Dispatch(w, t)
  \/ \E w \in Worker, to \in {"ready", "waiting", "done"} : Release(w, to)

Spec == Init /\ [][Next]_vars
=============================================================================
