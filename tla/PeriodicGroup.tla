--------------------------- MODULE PeriodicGroup ---------------------------
(***************************************************************************)
(* What a group of periodic tasks promises to the program that owns it     *)
(* (tasks_from_config and main): they are started in order, run until they *)
(* are stopped together, are joined in order once they have ended, and are *)
(* freed only when all of them have been joined.  PeriodicTask implements  *)
(* it with threads that poll a flag.                                       *)
(***************************************************************************)
EXTENDS Naturals

CONSTANT N      \* number of tasks

Member == 1 .. N

VARIABLES
    life,       \* life[t]: "new", "running", "ended", "joined" or "freed"
    stopped,    \* the tasks were told to stop
    late        \* late[t]: cycles t started after it was told to stop

Init ==
    /\ life = [t \in Member |-> "new"]
    /\ stopped = FALSE
    /\ late = [t \in Member |-> 0]

Becomes(t, before, after) == life[t] = before /\ life' = [life EXCEPT ![t] = after]

Start(t) ==
    /\ \A u \in 1 .. (t - 1) : life[u] = "running"
    /\ Becomes(t, "new", "running")
    /\ UNCHANGED <<stopped, late>>

\* Nobody is told to stop before everybody runs.
Stop ==
    /\ ~ stopped
    /\ \A t \in Member : life[t] = "running"
    /\ stopped' = TRUE
    /\ UNCHANGED <<life, late>>

\* The cycle that a task had decided on when it was told to stop: there is one
\* at most, and it starts before the task ends.
LateCycle(t) ==
    /\ stopped
    /\ life[t] = "running"
    /\ late[t] = 0
    /\ late' = [late EXCEPT ![t] = 1]
    /\ UNCHANGED <<life, stopped>>

\* A task ends only because it was told to.
End(t) ==
    /\ stopped
    /\ Becomes(t, "running", "ended")
    /\ UNCHANGED <<stopped, late>>

Join(t) ==
    /\ \A u \in 1 .. (t - 1) : life[u] = "joined"
    /\ Becomes(t, "ended", "joined")
    /\ UNCHANGED <<stopped, late>>

Free(t) ==
    /\ \A u \in Member : life[u] \in {"joined", "freed"}
    /\ Becomes(t, "joined", "freed")
    /\ UNCHANGED <<stopped, late>>

Next ==
    \/ \E t \in Member : Start(t) \/ LateCycle(t) \/ End(t) \/ Join(t) \/ Free(t)
    \/ Stop

Spec == Init /\ [][Next]_<<life, stopped, late>>

=============================================================================
