----------------------------- MODULE PriorityQ -----------------------------
(***************************************************************************)
(* The time-ordered queue of scheduled elements                            *)
(* (app/utils/PriorityQ.h, app/utils/PriorityQueueElement.h) and the two   *)
(* threads that use it: the one that builds and pushes the elements        *)
(* (tasks_from_config_impl) and the periodic task "Main", whose            *)
(* InteractiveTask::read drains the queue at every wake-up.                *)
(*                                                                         *)
(* Time is the steady clock in whole milliseconds.  try_pop truncates the  *)
(* clock to milliseconds and compares it STRICTLY with next_invokation;    *)
(* deltas are whole milliseconds, so the sub-millisecond part of           *)
(* next_invokation never changes the outcome of that comparison, and       *)
(* elements whose times differ only below a millisecond are tied here (any *)
(* of them may be on top).  The queue's mutex is held for the whole of     *)
(* push and try_pop: each is one step.                                     *)
(***************************************************************************)
EXTENDS Integers, Sequences

CONSTANTS
    Elem,       \* the elements (shared_ptr<PriorityQueueElement>)
    Input,      \* constructor arguments an element may be built with
    IntHalf,    \* 2^31 of the code: a uint32 delta at or above it is negative as an int
    Garbage,    \* what a read past the end of `deltas` may yield
    MaxTime     \* bound on the clock

\* "-1 for endless" (PriorityQueueElement.h:22)
Endless == -1

\* `times` and `delta` are uint32 in the configuration; an endless element can
\* only be built directly, and is taken to have a period of at least 1 ms.
ASSUME InputAssumption ==
    /\ IntHalf \in Nat
    /\ MaxTime \in Nat
    /\ Garbage \subseteq Int /\ Garbage # {}
    /\ \A in \in Input :
         /\ in.times \in Nat \cup {Endless}
         /\ in.delta \in 0 .. (2 * IntHalf - 1)
         /\ in.values \in Seq(Int)
         /\ in.deltas \in Seq(Int)
         /\ in.times = Endless => in.delta \in 1 .. (IntHalf - 1)

VARIABLES
    now,        \* Clock::now(), in milliseconds
    task,       \* task[e]: the constructor arguments of e
    built,      \* the elements constructed and pushed so far
    made,       \* made[e]: the time e was constructed
    queue,      \* m_queue, as the set of the elements in it
    next,       \* next_invokation
    occ,        \* occurrences
    idx,        \* idx
    values,     \* values
    pops,       \* pops[e]: how often try_pop has returned e (history)
    pc,         \* where Main's thread is in its loop
    elem        \* `elem` of InteractiveTask::read: the element popped last

elemVars == <<task, built, made, values, idx>>
vars == <<now, task, built, made, queue, next, occ, idx, values, pops, pc, elem>>

\* static_cast<int>(invokation_delta): two's complement wrap-around
CInt(d) == IF d < IntHalf THEN d ELSE d - 2 * IntHalf
Period(e) == CInt(task[e].delta)

Init ==
    /\ now = 0
    /\ task \in [Elem -> Input]
    /\ built = {}
    /\ made = [e \in Elem |-> 0]
    /\ queue = {}
    /\ next = [e \in Elem |-> 0]
    /\ occ = [e \in Elem |-> task[e].times]
    /\ idx = [e \in Elem |-> 0]
    /\ values = [e \in Elem |-> task[e].values]
    /\ pops = [e \in Elem |-> 0]
    /\ pc = "sleeping"
    /\ elem \in Elem

-----------------------------------------------------------------------------
\* The clock advances whatever the threads do.
Tick ==
    /\ now < MaxTime
    /\ now' = now + 1
    /\ UNCHANGED <<task, built, made, queue, next, occ, idx, values, pops, pc, elem>>

\* Faulty variant: the first invocation is due at once.
FirstInvocation_AtOnce(e) == now

\* The constructor: the first invocation is one period away.
FirstInvocation(e) == now + Period(e)

\* The constructor followed by push.
\* An element may arrive at any time: the queue "may change while we are
\* waiting" (PriorityQ.h:48-49).
Push(e) ==
    /\ e \notin built
    /\ built' = built \cup {e}
    /\ made' = [made EXCEPT ![e] = now]
    /\ next' = [next EXCEPT ![e] = FirstInvocation(e)]
    /\ queue' = queue \cup {e}
    /\ UNCHANGED <<now, task, occ, idx, values, pops, pc, elem>>

\* sleep_for(100ms) returns, at a time of the scheduler's choosing, and read starts.
Wake ==
    /\ pc = "sleeping"
    /\ pc' = "draining"
    /\ UNCHANGED <<now, task, built, made, queue, next, occ, idx, values, pops, elem>>

\* Faulty variants: the comparison of my_compare is lost, or inverted.
Top_Any(e) == e \in queue
Top_Latest(e) == e \in queue /\ \A f \in queue : next[e] >= next[f]

\* m_queue.top(): my_compare puts an earliest next_invokation first.
Top(e) == e \in queue /\ \A f \in queue : next[e] <= next[f]

Due(e) == now > next[e]

\* Faulty variant: the next period starts at the time of the pop.
NextInvocation_FromNow(e) == now + Period(e)

\* get_rescheduled_item_if_any: may e go back into the queue, with what left, and
\* when is it due then?
Again(e) == occ[e] = Endless \/ occ[e] > 1
Left(e) == IF occ[e] > 0 THEN occ[e] - 1 ELSE occ[e]
NextInvocation(e) == next[e] + Period(e)

\* try_pop when the top is due: it leaves the queue and is put back, one period
\* later, in the same critical section if it has invocations left.
TryPop(e) ==
    /\ pc = "draining"
    /\ Top(e) /\ Due(e)
    /\ queue' = IF Again(e) THEN queue ELSE queue \ {e}
    /\ next' = IF Again(e) THEN [next EXCEPT ![e] = NextInvocation(e)] ELSE next
    /\ occ' = [occ EXCEPT ![e] = Left(e)]
    /\ pops' = [pops EXCEPT ![e] = @ + 1]
    /\ elem' = e
    /\ pc' = "popped"
    /\ UNCHANGED <<now, elemVars>>

\* try_pop returns null: nothing is queued or the top is not due.  read ends the
\* drain, the rest of the cycle follows, and the thread sleeps again.
TryPopNone ==
    /\ pc = "draining"
    /\ ~ \E e \in Elem : Top(e) /\ Due(e)
    /\ pc' = "sleeping"
    /\ UNCHANGED <<now, task, built, made, queue, next, occ, idx, values, pops, elem>>

\* The arguments get_value can serve without leaving its vectors.
WellFormed(in) ==
    /\ in.values # <<>>
    /\ in.deltas = <<>> \/ Len(in.deltas) >= Len(in.values)

\* Faulty variants: the loop over the values stops one early; the index is reset
\* one call late.
Shift_OneShort(vs, ds, g) ==
    [i \in DOMAIN vs |-> IF i < Len(vs) /\ i \in DOMAIN ds THEN vs[i] + ds[i] ELSE vs[i]]
NextIdx_Late(i, n) == IF i = n THEN 0 ELSE i + 1

\* values[i] += deltas[i] for every i, reading past the end of a shorter deltas
Shift(vs, ds, g) ==
    [i \in DOMAIN vs |-> vs[i] + (IF i \in DOMAIN ds THEN ds[i] ELSE g)]

\* if (++idx == values.size()) idx = 0;
NextIdx(i, n) == IF i + 1 = n THEN 0 ELSE i + 1

\* get_value: the deltas are added first and `ret` is a reference, so the value
\* returned is values[idx] AFTER the addition.  InteractiveTask::read drops it.
GetValue ==
    LET vs == values[elem]
        ds == task[elem].deltas
    IN /\ pc = "popped"
       /\ vs # <<>>
       /\ \E g \in Garbage :
            values' = [values EXCEPT ![elem] = IF ds = <<>> THEN vs ELSE Shift(vs, ds, g)]
       /\ idx' = [idx EXCEPT ![elem] = NextIdx(@, Len(vs))]
       /\ pc' = "draining"
       /\ UNCHANGED <<now, task, built, made, queue, next, occ, pops, elem>>

\* get_value of an empty `values` reads through a null pointer; one with too few
\* deltas reads beyond an allocation, which may also stop the process.
Crash ==
    /\ pc = "popped"
    /\ ~ WellFormed(task[elem])
    /\ pc' = "crashed"
    /\ UNCHANGED <<now, task, built, made, queue, next, occ, idx, values, pops, elem>>

\* A crashed process takes no further step.
Crashed == pc = "crashed" /\ UNCHANGED vars

Running == pc # "crashed"

Next ==
    \/ Running /\ Tick
    \/ \E e \in Elem : Running /\ Push(e)
    \/ Wake
    \/ \E e \in Elem : TryPop(e)
    \/ TryPopNone
    \/ GetValue
    \/ Crash
    \/ Crashed

Spec == Init /\ [][Next]_vars

-----------------------------------------------------------------------------
TypeOK ==
    /\ now \in Nat
    /\ task \in [Elem -> Input]
    /\ built \subseteq Elem
    /\ made \in [Elem -> Nat]
    /\ queue \subseteq built
    /\ next \in [Elem -> Int]
    /\ occ \in [Elem -> Nat \cup {Endless}]
    /\ idx \in [Elem -> Nat]
    /\ values \in [Elem -> Seq(Int)]
    /\ pops \in [Elem -> Nat]
    /\ pc \in {"sleeping", "draining", "popped", "crashed"}
    /\ elem \in Elem

\* The counter: what is left and what was served add up to `times`, and an element
\* stays queued exactly as long as something is left.  This is what the code does also
\* with occurrences 0, which is served once (try_pop pops before it looks); what the
\* configuration means by it is in ZeroTimesIsEndless.
OccurrenceBudget ==
    \A e \in built :
        LET times == task[e].times
        IN IF times = Endless
             THEN occ[e] = Endless /\ e \in queue
             ELSE /\ IF times = 0 THEN occ[e] = 0 ELSE pops[e] + occ[e] = times
                  /\ e \in queue <=> (IF times = 0 THEN pops[e] = 0 ELSE pops[e] < times)

\* Rescheduling never drifts: however late the reader is, the next invocation of
\* a queued element stays on the grid that started when it was built.
OnSchedule ==
    \A e \in queue : next[e] = made[e] + (pops[e] + 1) * Period(e)

\* No invocation comes before its own period has elapsed (deltas that fit an int).
NeverEarly ==
    \A e \in built :
        (pops[e] > 0 /\ task[e].delta < IntHalf) => now > made[e] + pops[e] * task[e].delta

\* get_value walks the configured values cyclically: its index is the number of
\* completed calls modulo the length, and every value has been shifted by its
\* delta once per call, also by the calls that returned another value.
Calls(e) == pops[e] - (IF pc = "popped" /\ elem = e THEN 1 ELSE 0)
ValueSchedule ==
    \A e \in built :
        LET in == task[e]
        IN (WellFormed(in) /\ Running) =>
             /\ idx[e] = Calls(e) % Len(in.values)
             /\ \A i \in DOMAIN in.values :
                  values[e][i] = in.values[i]
                    + (IF in.deltas = <<>> THEN 0 ELSE Calls(e) * in.deltas[i])

\* A configuration whose every task has values, and a delta for each of them or
\* none, never makes get_value leave its vectors: idx stays a valid index.
NoOutOfRange ==
    /\ (pc = "popped" /\ WellFormed(task[elem])) => idx[elem] < Len(values[elem])
    /\ pc = "crashed" => ~ WellFormed(task[elem])

\* How many invocations of e are owed by time t: one for each multiple of its period
\* strictly before t, up to `times` unless it is endless.
Owed(e, t) ==
    LET elapsed == (t - made[e] - 1) \div task[e].delta
    IN IF task[e].times = Endless \/ elapsed < task[e].times THEN elapsed ELSE task[e].times

\* A drain that ends has caught up completely: every pushed element was served
\* once for each of its periods that elapsed, none lost and none twice, however
\* long the reader slept and whatever was pushed meanwhile (no claim is made for
\* `times: 0`, see ZeroTimesIsEndless).
NoInvocationLost ==
    [][ (pc = "draining" /\ pc' = "sleeping")
          => \A e \in built :
               (task[e].times # 0 /\ task[e].delta \in 1 .. (IntHalf - 1) /\ now > made[e])
                 => pops[e] = Owed(e, now) ]_vars

\* Invocations come in the order of their due times, over all elements and all
\* drains, even when several are overdue or a new element arrives between two pops
\* (all periods non-negative).
DueOrder ==
    [][ \A e \in Elem :
          (pops'[e] # pops[e] /\ pops[elem] > 0 /\ \A f \in built : Period(f) >= 0)
            => next[e] >= made[elem] + pops[elem] * Period(elem) ]_vars

\* No element starves in the endless drain, however often others come back in it: as
\* long as e waits, any other element f has had at most the invocations of its own
\* periods up to e's due time (all periods non-negative).
BoundedBypass ==
    \A e \in queue, f \in built :
        (pops[f] > 0 /\ \A g \in built : Period(g) >= 0)
            => made[f] + pops[f] * Period(f) <= next[e]

\* What the configuration says of `times: 0` (yaml_api.cpp:24 sets is_infinite, and
\* tasks.yaml:10 uses it): such a task never leaves the queue.  The code does not do it.
ZeroTimesIsEndless == \A e \in built : task[e].times = 0 => e \in queue

\* The queue implements the schedule: every pop is an invocation the schedule
\* allows, and nothing else the queue or its reader does is visible there.
Promise == INSTANCE Schedule WITH
               added <- built, start <- made, invoked <- pops, Period <- CInt
ImplementsSchedule == Promise!Spec

=============================================================================
