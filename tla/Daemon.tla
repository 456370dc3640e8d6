-------------------------------- MODULE Daemon --------------------------------
(***************************************************************************)
(* application.cpp, daemon.cpp and FSUtil::IsRunningPidfile of util.cpp:   *)
(* launches of the same program, each in the terminal or as a daemon whose *)
(* parent restarts its child.  They share the pidfile and the addresses    *)
(* the servers listen on.                                                  *)
(*                                                                         *)
(* The pid goes into an ofstream that lives as long as main: opening it    *)
(* empties the file, and what was written reaches the file when main       *)
(* returns.                                                                *)
(***************************************************************************)
EXTENDS Integers, FiniteSets

CONSTANTS
  Launch,   \* starts of the program
  AsDaemon, \* those with -d
  MaxForks  \* bound on the processes each launch makes

ASSUME DaemonAssumption ==
  IsFiniteSet(Launch) /\ AsDaemon \subseteq Launch /\ MaxForks \in Nat \ {0}

VARIABLES
  conf,     \* whether the configuration names a server to run
  parent,   \* off, fork, wait, sleep, failed, done: the launched process
  child,    \* none, main, fiber, serving, ended: the one that runs main
  how,      \* how the child ended: exit, returned, crashed
  status,   \* what waitpid gives the parent
  forks,    \* processes made, the pid of the child being <<launch, forks>>
  restarts, \* restart_count
  verdict,  \* what the parent logged last: finished, crash
  pidfile   \* what is in the file

vars == <<conf, parent, child, how, status, forks, restarts, verdict, pidfile>>

Running(l) == child[l] \in {"main", "fiber", "serving"}

(* Types of the state; pids are pairs. *)
TypeOK ==
  /\ conf \in BOOLEAN
  /\ parent \in [Launch -> {"off", "fork", "wait", "sleep", "failed", "done"}]
  /\ child \in [Launch -> {"none", "main", "fiber", "serving", "ended"}]
  /\ how \in [Launch -> {"not", "exit", "returned", "crashed"}]
  /\ status \in [Launch -> 0..255]
  /\ forks \in [Launch -> 0..MaxForks] /\ restarts \in [Launch -> 0..MaxForks]
  /\ verdict \in [Launch -> {"none", "finished", "crash"}]
  /\ pidfile \in {<<>>} \cup (Launch \X (1..MaxForks))

Init ==
  /\ conf \in BOOLEAN
  /\ parent = [l \in Launch |-> "off"] /\ child = [l \in Launch |-> "none"]
  /\ how = [l \in Launch |-> "not"] /\ status = [l \in Launch |-> 0]
  /\ forks = [l \in Launch |-> 0] /\ restarts = [l \in Launch |-> 0]
  /\ verdict = [l \in Launch |-> "none"]
  /\ pidfile = <<>>

-----------------------------------------------------------------------------
(* A zombie that was not waited for still answers kill(pid, 0). *)
Alive(l, n) == n = forks[l] /\ (Running(l) \/ (child[l] = "ended" /\ parent[l] = "wait"))

(* FSUtil::IsRunningPidfile: an empty or missing file is nobody's. *)
IsRunningPidfile == pidfile # <<>> /\ Alive(pidfile[1], pidfile[2])

(* Application::init, then run: main in this process, or a daemon's loop.  init
   also returns false for wrong arguments and when the work path cannot be
   made. *)
Start(l) ==
  /\ parent[l] = "off"
  /\ \/ parent' = [parent EXCEPT ![l] = "done"] /\ UNCHANGED <<child, forks>>
     \/ /\ ~IsRunningPidfile
        /\ \/ /\ l \in AsDaemon
              /\ parent' = [parent EXCEPT ![l] = "fork"]
              /\ UNCHANGED <<child, forks>>
           \/ /\ l \notin AsDaemon
              /\ parent' = [parent EXCEPT ![l] = "done"]
              /\ child' = [child EXCEPT ![l] = "main"]
              /\ forks' = [forks EXCEPT ![l] = 1]
  /\ UNCHANGED <<conf, how, status, restarts, verdict, pidfile>>

(* fork in real_daemon; when it fails the daemon returns -1. *)
Fork(l) ==
  /\ parent[l] = "fork"
  /\ \/ /\ forks[l] < MaxForks
        /\ parent' = [parent EXCEPT ![l] = "wait"]
        /\ child' = [child EXCEPT ![l] = "main"]
        /\ how' = [how EXCEPT ![l] = "not"]
        /\ forks' = [forks EXCEPT ![l] = @ + 1]
     \/ parent' = [parent EXCEPT ![l] = "failed"] /\ UNCHANGED <<child, how, forks>>
  /\ UNCHANGED <<conf, status, restarts, verdict, pidfile>>

(* Mutant: every status ends the daemon. *)
WaitpidBreak(l) ==
  /\ parent[l] = "wait" /\ child[l] = "ended"
  /\ verdict' = [verdict EXCEPT ![l] = IF status[l] # 0 THEN "crash" ELSE "finished"]
  /\ parent' = [parent EXCEPT ![l] = "done"]
  /\ UNCHANGED <<conf, child, how, status, forks, restarts, pidfile>>

(* Mutant: no status ends it. *)
WaitpidAgain(l) ==
  /\ parent[l] = "wait" /\ child[l] = "ended"
  /\ verdict' = [verdict EXCEPT ![l] = IF status[l] # 0 THEN "crash" ELSE "finished"]
  /\ parent' = [parent EXCEPT ![l] = "sleep"]
  /\ restarts' = [restarts EXCEPT ![l] = IF status[l] # 0 THEN @ + 1 ELSE @]
  /\ UNCHANGED <<conf, child, how, status, forks, pidfile>>

(* waitpid: a status other than 0 is a crash and the child is to be restarted. *)
Waitpid(l) ==
  /\ parent[l] = "wait" /\ child[l] = "ended"
  /\ \/ /\ status[l] # 0
        /\ verdict' = [verdict EXCEPT ![l] = "crash"]
        /\ restarts' = [restarts EXCEPT ![l] = @ + 1]
        /\ parent' = [parent EXCEPT ![l] = "sleep"]
     \/ /\ status[l] = 0
        /\ verdict' = [verdict EXCEPT ![l] = "finished"]
        /\ parent' = [parent EXCEPT ![l] = "done"]
        /\ UNCHANGED restarts
  /\ UNCHANGED <<conf, child, how, status, forks, pidfile>>

(* sleep(daemon_restart_interval) *)
Sleep(l) ==
  /\ parent[l] = "sleep"
  /\ parent' = [parent EXCEPT ![l] = "fork"]
  /\ UNCHANGED <<conf, child, how, status, forks, restarts, verdict, pidfile>>

-----------------------------------------------------------------------------
End(l, cause, value) ==
  /\ child' = [child EXCEPT ![l] = "ended"]
  /\ how' = [how EXCEPT ![l] = cause]
  /\ status' = [status EXCEPT ![l] = value]

(* Application::main opens the pidfile, which empties it; if it cannot, main
   returns false, which is 0. *)
OpenPidfile(l) ==
  /\ child[l] = "main"
  /\ \/ /\ child' = [child EXCEPT ![l] = "fiber"]
        /\ pidfile' = <<>>
        /\ UNCHANGED <<how, status>>
     \/ End(l, "exit", 0) /\ UNCHANGED pidfile
  /\ UNCHANGED <<conf, parent, forks, restarts, verdict>>

(* Mutant: a process that could not bind reports an error. *)
RunFiberFail(l) ==
  /\ child[l] = "fiber" /\ conf
  /\ \/ /\ \A other \in Launch : child[other] # "serving"
        /\ child' = [child EXCEPT ![l] = "serving"]
        /\ UNCHANGED <<how, status>>
     \/ End(l, "exit", 1)
  /\ UNCHANGED <<conf, parent, forks, restarts, verdict, pidfile>>

(* run_fiber with a configured server: exit(0) when it cannot bind, without the
   destructors of main.  Any process may hold the addresses, another launch that
   serves does. *)
RunFiber(l) ==
  /\ child[l] = "fiber" /\ conf
  /\ \/ /\ \A other \in Launch : child[other] # "serving"
        /\ child' = [child EXCEPT ![l] = "serving"]
        /\ UNCHANGED <<how, status>>
     \/ End(l, "exit", 0)
  /\ UNCHANGED <<conf, parent, forks, restarts, verdict, pidfile>>

(* Without one run_fiber ends, stop() returns and so does main: the pid reaches
   the file, and the true that main and run return is the exit status. *)
Return(l) ==
  /\ child[l] = "fiber" /\ ~conf
  /\ pidfile' = <<l, forks[l]>>
  /\ End(l, "returned", 1)
  /\ UNCHANGED <<conf, parent, forks, restarts, verdict>>

(* The process is ended by a signal, at any time. *)
Crash(l) ==
  /\ Running(l)
  /\ End(l, "crashed", 139)
  /\ UNCHANGED <<conf, parent, forks, restarts, verdict, pidfile>>

Parent(l) == Fork(l) \/ Waitpid(l) \/ Sleep(l)
Child(l) == OpenPidfile(l) \/ RunFiber(l) \/ Return(l)

Next == \E l \in Launch : Start(l) \/ Parent(l) \/ Child(l) \/ Crash(l)

Spec == Init /\ [][Next]_vars

(* The kernel runs every process. *)
FairSpec == Spec /\ \A l \in Launch : WF_vars(Parent(l)) /\ WF_vars(Child(l))

-----------------------------------------------------------------------------
(* restart_count: a daemon's child is replaced only after it ended with a status
   other than 0, so that the parent never has two, and every restart is
   counted. *)
RestartsCounted ==
  \A l \in AsDaemon :
    forks[l] = restarts[l] + (IF parent[l] = "wait" \/ verdict[l] = "finished" THEN 1 ELSE 0)

(* A daemon whose child crashes has a running child again, or fork failed. *)
CrashIsRestarted ==
  \A l \in AsDaemon :
    child[l] = "ended" /\ how[l] = "crashed" /\ parent[l] = "wait" ~>
      Running(l) \/ parent[l] = "failed"

(* A daemon that finds the addresses in use goes away, and its parent with it: the
   status of exit(0) ends the loop. *)
ExitEndsDaemon ==
  \A l \in AsDaemon : [](child[l] = "ended" /\ how[l] = "exit" => <>[](parent[l] = "done"))

(* "server is running": while a process has opened the pidfile and goes on, a new
   launch is refused. *)
SecondIsRefused ==
  [][(\E other \in Launch : child[other] \in {"fiber", "serving"}) =>
       \A l \in Launch : parent[l] = "off" => parent'[l] \in {"off", "done"} /\ child'[l] = "none"]_vars

(* "child crash" is logged, and the child restarted, only when it crashed. *)
CrashMeansCrash ==
  \A l \in AsDaemon : parent[l] = "sleep" => how[l] = "crashed"

(* Types, and the restarts a parent counts are the children it has replaced. *)
RestartInv == TypeOK /\ RestartsCounted
===============================================================================
