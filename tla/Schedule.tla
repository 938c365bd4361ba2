------------------------------ MODULE Schedule ------------------------------
(***************************************************************************)
(* What the task queue promises, without a queue: each task, from the time *)
(* it is added, is invoked at most once per period, never before its       *)
(* period has elapsed, and at most as often as configured.  There is no    *)
(* heap, no rescheduling and no reader here; PriorityQ implements this     *)
(* module.  Period is the task's delta as the int the code casts it to.    *)
(***************************************************************************)
EXTENDS Integers

CONSTANTS Elem, Input, Period(_)

VARIABLES now, task, added, start, invoked

vars == <<now, task, added, start, invoked>>

\* Without end are the tasks built with -1 (PriorityQueueElement.h:22) and those the
\* configuration gives `times: 0` (is_infinite, yaml_api.cpp:24).
MayInvoke(e) == task[e].times \in {-1, 0} \/ invoked[e] < task[e].times

Init ==
    /\ now = 0
    /\ task \in [Elem -> Input]
    /\ added = {}
    /\ start = [e \in Elem |-> 0]
    /\ invoked = [e \in Elem |-> 0]

Tick == now' = now + 1 /\ UNCHANGED <<task, added, start, invoked>>

Add(e) ==
    /\ e \notin added
    /\ added' = added \cup {e}
    /\ start' = [start EXCEPT ![e] = now]
    /\ UNCHANGED <<now, task, invoked>>

Invoke(e) ==
    /\ e \in added
    /\ MayInvoke(e)
    /\ now > start[e] + (invoked[e] + 1) * Period(task[e].delta)
    /\ invoked' = [invoked EXCEPT ![e] = @ + 1]
    /\ UNCHANGED <<now, task, added, start>>

Next == Tick \/ \E e \in Elem : Add(e) \/ Invoke(e)

Spec == Init /\ [][Next]_vars
=============================================================================
