-------------------------- MODULE MCTimerManager ---------------------------
(* Instances of TimerManager for TLC. *)
EXTENDS TimerManager, TLC

CONSTANTS t1, t2, p1, p2

(* Two pollers and calls by other threads. *)
Races == [pollers |-> 2, prompt |-> FALSE, setBack |-> FALSE, signals |-> 0, oneThread |-> FALSE,
          end |-> 3, ms |-> {0, 1}, fromNow |-> BOOLEAN]

(* One thread that polls and runs all fibers; the clock is set back. *)
Rolls == [pollers |-> 1, prompt |-> FALSE, setBack |-> TRUE, signals |-> 0, oneThread |-> TRUE,
          end |-> 4, ms |-> {2}, fromNow |-> {TRUE}]

(* A prompt poller, intervals below and above the cap, and a signal. *)
Prompt == [pollers |-> 1, prompt |-> TRUE, setBack |-> FALSE, signals |-> 1, oneThread |-> FALSE,
           end |-> 6, ms |-> {1, 4}, fromNow |-> {TRUE}]

MCSettings == {Races, Rolls, Prompt}

(* Timers and pollers are interchangeable; no liveness is checked. *)
Symmetry == Permutations(Timer) \cup Permutations(Poller)
=============================================================================
