-------------------------- MODULE PriorityQ_proofs --------------------------
(* Proofs about PriorityQ for every set of elements, of inputs and of times. *)
EXTENDS PriorityQ, TLAPS, WellFoundedInduction

\* The cast of a delta yields an integer, and the delta itself when it fits.
LEMMA CIntIsInt ==
    ASSUME NEW in \in Input
    PROVE  /\ CInt(in.delta) \in Int
           /\ in.delta < IntHalf => CInt(in.delta) = in.delta
BY InputAssumption DEF CInt

\* One more invocation is one more period.
LEMMA OneMorePeriod ==
    ASSUME NEW n \in Int, NEW p \in Int
    PROVE  /\ n * p \in Int
           /\ (n + 1) * p \in Int
           /\ (n + 1) * p + p = ((n + 1) + 1) * p
OBVIOUS

\* The values of a shift are integers again: Shift changes no length.
LEMMA ShiftType ==
    ASSUME NEW vs \in Seq(Int), NEW ds \in Seq(Int), NEW g \in Int
    PROVE  Shift(vs, ds, g) \in Seq(Int)
<1>1. /\ DOMAIN vs = 1 .. Len(vs)
      /\ Len(vs) \in Nat
      /\ \A i \in DOMAIN vs : vs[i] \in Int
      /\ \A i \in DOMAIN ds : ds[i] \in Int
  OBVIOUS
<1>2. \A i \in 1 .. Len(vs) : vs[i] + (IF i \in DOMAIN ds THEN ds[i] ELSE g) \in Int
  BY <1>1
<1>3. Shift(vs, ds, g) = [i \in 1 .. Len(vs) |-> vs[i] + (IF i \in DOMAIN ds THEN ds[i] ELSE g)]
  BY <1>1 DEF Shift
<1> QED
  BY <1>1, <1>2, <1>3

\* Every element's variables keep their types in every step.
LEMMA TypeStep == TypeOK /\ [Next]_vars => TypeOK'
<1> SUFFICES ASSUME TypeOK, [Next]_vars PROVE TypeOK'
  OBVIOUS
<1> USE DEF TypeOK
<1>1. CASE Running /\ Tick
  BY <1>1 DEF Tick
<1>2. ASSUME NEW e \in Elem, Push(e) PROVE TypeOK'
  <2>1. Period(e) \in Int
    BY CIntIsInt DEF Period
  <2> QED
    BY <1>2, <2>1 DEF Push, FirstInvocation
<1>3. CASE Wake
  BY <1>3 DEF Wake
<1>4. ASSUME NEW e \in Elem, TryPop(e) PROVE TypeOK'
  <2>1. Period(e) \in Int
    BY CIntIsInt DEF Period
  <2>2. Left(e) \in Nat \cup {Endless}
    BY DEF Left, Endless
  <2>3. next' \in [Elem -> Int]
    BY <1>4, <2>1 DEF TryPop, NextInvocation
  <2>4. occ' \in [Elem -> Nat \cup {Endless}] /\ pops' \in [Elem -> Nat]
    BY <1>4, <2>2 DEF TryPop
  <2>5. queue' \subseteq built'
    BY <1>4 DEF TryPop, elemVars
  <2> QED
    BY <1>4, <2>3, <2>4, <2>5 DEF TryPop, elemVars
<1>5. CASE TryPopNone
  BY <1>5 DEF TryPopNone
<1>6. CASE GetValue
  <2>1. task[elem] \in Input /\ task[elem].deltas \in Seq(Int) /\ values[elem] \in Seq(Int)
    BY InputAssumption
  <2>2. PICK g \in Garbage : values' = [values EXCEPT ![elem] =
          IF task[elem].deltas = <<>> THEN values[elem] ELSE Shift(values[elem], task[elem].deltas, g)]
    BY <1>6 DEF GetValue
  <2>3. g \in Int
    BY InputAssumption
  <2>4. Shift(values[elem], task[elem].deltas, g) \in Seq(Int)
    BY <2>1, <2>3, ShiftType
  <2>5. values' \in [Elem -> Seq(Int)]
    BY <2>1, <2>2, <2>4
  <2>6. idx' \in [Elem -> Nat]
    BY <1>6 DEF GetValue, NextIdx
  <2> QED
    BY <1>6, <2>5, <2>6 DEF GetValue
<1>7. CASE Crash
  BY <1>7 DEF Crash
<1>8. CASE Crashed \/ UNCHANGED vars
  BY <1>8 DEF Crashed, vars
<1> QED
  BY <1>1, <1>2, <1>3, <1>4, <1>5, <1>6, <1>7, <1>8 DEF Next

\* The model is well-typed whatever the configuration.
THEOREM TypeCorrect == Spec => []TypeOK
<1>1. Init => TypeOK
  BY InputAssumption DEF Init, TypeOK
<1> QED
  BY <1>1, TypeStep, PTL DEF Spec

-----------------------------------------------------------------------------
\* The strengthening that makes the safety invariants inductive: the budget and
\* the grid of due times together, and an element never pushed has no history.
Fresh == \A e \in Elem \ built : pops[e] = 0 /\ occ[e] = task[e].times
Queueing == TypeOK /\ Fresh /\ OccurrenceBudget /\ OnSchedule /\ NeverEarly

\* Once built, an element's arguments and its construction time never change,
\* and an element leaves the queue or is served only by TryPop.
LEMMA OnlyTryPopServes ==
    ASSUME Next, \A e \in Elem : ~ Push(e), \A e \in Elem : ~ TryPop(e)
    PROVE  /\ UNCHANGED <<task, built, made, queue, next, occ, pops>>
           /\ TypeOK => now' >= now
BY DEF Next, Tick, Wake, TryPopNone, GetValue, Crash, Crashed, vars, TypeOK

\* A step of the queue preserves the budget, the grid and the lower bound on time.
LEMMA QueueingStep == Queueing /\ [Next]_vars => Queueing'
<1> SUFFICES ASSUME Queueing, [Next]_vars PROVE Queueing'
  OBVIOUS
<1>t. TypeOK /\ TypeOK'
  BY TypeStep DEF Queueing
<1>i. \A e \in Elem : /\ Period(e) \in Int
                      /\ task[e].times \in Nat \cup {Endless}
                      /\ task[e].delta \in Nat
                      /\ task[e].delta < IntHalf => Period(e) = task[e].delta
  BY <1>t, CIntIsInt, InputAssumption DEF TypeOK, Period
<1>y. /\ queue \subseteq built /\ built \subseteq Elem /\ now \in Int
      /\ made \in [Elem -> Nat] /\ next \in [Elem -> Int] /\ pops \in [Elem -> Nat]
  BY DEF Queueing, TypeOK
<1>z. now' \in Int
  BY <1>t DEF TypeOK
<1>1. ASSUME NEW e \in Elem, Push(e) PROVE Queueing'
  <2>1. /\ pops[e] = 0 /\ occ[e] = task[e].times /\ e \notin built
        /\ built' = built \cup {e} /\ queue' = queue \cup {e}
        /\ made' = [made EXCEPT ![e] = now] /\ next' = [next EXCEPT ![e] = now + Period(e)]
        /\ UNCHANGED <<now, task, occ, pops>>
    BY <1>1 DEF Push, FirstInvocation, Queueing, Fresh
  <2>2. Fresh'
    BY <2>1 DEF Queueing, Fresh
  <2>3. OccurrenceBudget'
    <3>1. e \notin queue
      BY <1>t, <2>1 DEF TypeOK
    <3>2. ASSUME NEW f \in built'
          PROVE  LET times == task'[f].times
                 IN IF times = Endless
                      THEN occ'[f] = Endless /\ f \in queue'
                      ELSE /\ IF times = 0 THEN occ'[f] = 0 ELSE pops'[f] + occ'[f] = times
                           /\ f \in queue' <=> (IF times = 0 THEN pops'[f] = 0 ELSE pops'[f] < times)
      <4>1. CASE f = e
        <5>1. task[e].times \in Nat \cup {-1}
          BY <1>i DEF Endless
        <5> QED
          BY <2>1, <4>1, <5>1 DEF Endless
      <4>2. CASE f # e
        BY <2>1, <4>2 DEF Queueing, OccurrenceBudget
      <4> QED
        BY <4>1, <4>2
    <3> QED
      BY <3>2 DEF OccurrenceBudget
  <2>4. OnSchedule'
    <3>1. ASSUME NEW f \in queue' PROVE next'[f] = made'[f] + (pops'[f] + 1) * Period(f)'
      <4>1. CASE f = e
        BY <1>i, <1>t, <2>1, <4>1 DEF Period, TypeOK
      <4>2. CASE f # e
        BY <1>t, <2>1, <3>1, <4>2 DEF Queueing, OnSchedule, Period, TypeOK
      <4> QED
        BY <4>1, <4>2
    <3> QED
      BY <3>1 DEF OnSchedule
  <2>5. NeverEarly'
    <3>1. ASSUME NEW f \in built', pops'[f] > 0 /\ task'[f].delta < IntHalf
          PROVE  now' > made'[f] + pops'[f] * task'[f].delta
      <4>1. f # e
        BY <2>1, <3>1
      <4> QED
        BY <1>y, <2>1, <3>1, <4>1 DEF Queueing, NeverEarly
    <3> QED
      BY <3>1 DEF NeverEarly
  <2> QED
    BY <1>t, <2>2, <2>3, <2>4, <2>5 DEF Queueing
<1>2. ASSUME NEW e \in Elem, TryPop(e) PROVE Queueing'
  <2>1. /\ e \in queue /\ e \in built /\ now > next[e]
        /\ queue' = IF Again(e) THEN queue ELSE queue \ {e}
        /\ next' = IF Again(e) THEN [next EXCEPT ![e] = @ + Period(e)] ELSE next
        /\ occ' = [occ EXCEPT ![e] = Left(e)]
        /\ pops' = [pops EXCEPT ![e] = @ + 1]
        /\ UNCHANGED <<now, task, built, made>>
    BY <1>2, <1>t DEF TryPop, NextInvocation, Top, Due, TypeOK, elemVars
  <2>2. Fresh'
    BY <2>1, <1>t DEF Queueing, Fresh, TypeOK
  <2>3. OccurrenceBudget'
    <3>1. ASSUME NEW f \in built'
          PROVE  LET times == task'[f].times
                 IN IF times = Endless
                      THEN occ'[f] = Endless /\ f \in queue'
                      ELSE /\ IF times = 0 THEN occ'[f] = 0 ELSE pops'[f] + occ'[f] = times
                           /\ f \in queue' <=> (IF times = 0 THEN pops'[f] = 0 ELSE pops'[f] < times)
      <4>1. CASE f = e
        <5>1. /\ task'[f].times = task[e].times /\ task[e].times \in Nat \cup {-1}
              /\ occ'[f] = Left(e) /\ pops'[f] = pops[e] + 1 /\ pops[e] \in Nat
              /\ occ[e] \in Nat \cup {-1}
              /\ f \in queue' <=> Again(e)
          BY <1>i, <1>t, <2>1, <4>1 DEF TypeOK, Endless
        <5>2. LET times == task[e].times
              IN IF times = -1 THEN occ[e] = -1
                 ELSE /\ IF times = 0 THEN occ[e] = 0 ELSE pops[e] + occ[e] = times
                      /\ IF times = 0 THEN pops[e] = 0 ELSE pops[e] < times
          BY <2>1 DEF Queueing, OccurrenceBudget, Endless
        <5> QED
          BY <5>1, <5>2 DEF Again, Left, Endless
      <4>2. CASE f # e
        BY <1>t, <2>1, <4>2 DEF Queueing, OccurrenceBudget, TypeOK
      <4> QED
        BY <4>1, <4>2
    <3> QED
      BY <3>1 DEF OccurrenceBudget
  <2>4. next[e] = made[e] + (pops[e] + 1) * Period(e)
    BY <2>1 DEF Queueing, OnSchedule
  <2>5. OnSchedule'
    <3>1. ASSUME NEW f \in queue' PROVE next'[f] = made'[f] + (pops'[f] + 1) * Period(f)'
      <4>1. CASE f = e
        <5>1. next'[e] = next[e] + Period(e) /\ pops'[e] = pops[e] + 1 /\ Period(e)' = Period(e)
          BY <1>t, <2>1, <3>1, <4>1 DEF Period, TypeOK
        <5>2. made[e] \in Int /\ pops[e] \in Int /\ Period(e) \in Int
          BY <1>i, <1>t DEF TypeOK
        <5>3. /\ (pops[e] + 1) * Period(e) + Period(e) = ((pops[e] + 1) + 1) * Period(e)
              /\ (pops[e] + 1) * Period(e) \in Int
          BY <5>2, OneMorePeriod
        <5> DEFINE due == (pops[e] + 1) * Period(e)
        <5>4. next'[e] = made[e] + due + Period(e) /\ due \in Int
          BY <2>4, <5>1, <5>3
        <5>5. next'[e] = made[e] + (due + Period(e))
          <6> HIDE DEF due
          <6> QED
            BY <5>2, <5>4
        <5> QED
          BY <2>1, <4>1, <5>1, <5>3, <5>5
      <4>2. CASE f # e
        BY <1>t, <2>1, <3>1, <4>2 DEF Queueing, OnSchedule, Period, TypeOK
      <4> QED
        BY <4>1, <4>2
    <3> QED
      BY <3>1 DEF OnSchedule
  <2>6. NeverEarly'
    <3>1. ASSUME NEW f \in built', pops'[f] > 0 /\ task'[f].delta < IntHalf
          PROVE  now' > made'[f] + pops'[f] * task'[f].delta
      <4>1. CASE f = e
        BY <1>i, <1>t, <2>1, <2>4, <3>1, <4>1 DEF TypeOK
      <4>2. CASE f # e
        BY <1>t, <2>1, <3>1, <4>2 DEF Queueing, NeverEarly, TypeOK
      <4> QED
        BY <4>1, <4>2
    <3> QED
      BY <3>1 DEF NeverEarly
  <2> QED
    BY <1>t, <2>2, <2>3, <2>5, <2>6 DEF Queueing
<1>3. CASE /\ UNCHANGED <<task, built, made, queue, next, occ, pops>>
           /\ now' >= now
  <2>1. Fresh' /\ OccurrenceBudget' /\ OnSchedule'
    BY <1>3 DEF Queueing, Fresh, OccurrenceBudget, OnSchedule, Period
  <2>2. NeverEarly'
    <3>1. ASSUME NEW f \in built, pops[f] > 0 /\ task[f].delta < IntHalf
          PROVE  now' > made[f] + pops[f] * task[f].delta
      <4>1. now > made[f] + pops[f] * task[f].delta
        BY <3>1 DEF Queueing, NeverEarly
      <4>2. now' \in Int /\ now \in Int /\ made[f] + pops[f] * task[f].delta \in Int
        <5>1. f \in Elem /\ pops[f] \in Int /\ task[f].delta \in Int /\ made[f] \in Int
          BY <1>i, <1>y
        <5>2. pops[f] * task[f].delta \in Int
          BY <5>1, OneMorePeriod
        <5> QED
          <6> DEFINE gone == pops[f] * task[f].delta
          <6>1. gone \in Int
            BY <5>2
          <6> HIDE DEF gone
          <6>3. made[f] + gone \in Int
            BY <5>1, <6>1
          <6> QED
            BY <1>y, <1>z, <6>3 DEF gone
      <4> QED
        BY <1>3, <4>1, <4>2
    <3> QED
      BY <1>3, <3>1 DEF NeverEarly
  <2> QED
    BY <1>t, <2>1, <2>2 DEF Queueing
<1>4. CASE UNCHANGED vars
  BY <1>3, <1>4, <1>t DEF vars, TypeOK
<1> QED
  BY <1>1, <1>2, <1>3, <1>4, <1>t, OnlyTryPopServes

\* The invariants hold of every run of the queue.
LEMMA QueueingInvariant == Spec => []Queueing
<1>1. Init => Queueing
  <2> SUFFICES ASSUME Init PROVE Queueing
    OBVIOUS
  <2>1. TypeOK
    BY InputAssumption DEF Init, TypeOK
  <2> QED
    BY <2>1 DEF Init, Queueing, Fresh, OccurrenceBudget, OnSchedule, NeverEarly
<1> QED
  BY <1>1, QueueingStep, PTL DEF Spec

\* Every element is invoked exactly as often as configured (PriorityQueueElement.h:65).
THEOREM BudgetHolds == Spec => []OccurrenceBudget
<1>1. Queueing => OccurrenceBudget
  BY DEF Queueing
<1> QED
  BY <1>1, QueueingInvariant, PTL

\* Rescheduling adds the period to the old due time: no drift (PriorityQueueElement.h:68).
THEOREM NoDrift == Spec => []OnSchedule
<1>1. Queueing => OnSchedule
  BY DEF Queueing
<1> QED
  BY <1>1, QueueingInvariant, PTL

\* No invocation precedes its due time (PriorityQ.h:91).
THEOREM NotBeforeDue == Spec => []NeverEarly
<1>1. Queueing => NeverEarly
  BY DEF Queueing
<1> QED
  BY <1>1, QueueingInvariant, PTL

-----------------------------------------------------------------------------
\* Every step of the queue is a step of the schedule, or invisible to it: a pop
\* happens only when the schedule may invoke, because of the budget and the grid.
LEMMA QueueStepIsScheduleStep ==
    ASSUME Queueing, [Next]_vars
    PROVE  [Promise!Next]_(Promise!vars)
<1> USE DEF Promise!vars
<1>1. CASE Running /\ Tick
  BY <1>1 DEF Tick, Promise!Next, Promise!Tick
<1>2. ASSUME NEW e \in Elem, Push(e) PROVE Promise!Next
  BY <1>2 DEF Push, Promise!Next, Promise!Add
<1>3. ASSUME NEW e \in Elem, TryPop(e) PROVE Promise!Next
  <2>1. e \in queue /\ e \in built /\ now > next[e]
    BY <1>3 DEF TryPop, Top, Due, Queueing, TypeOK
  <2>2. now > made[e] + (pops[e] + 1) * CInt(task[e].delta)
    BY <2>1 DEF Queueing, OnSchedule, Period
  <2>3. Promise!MayInvoke(e)
    BY <2>1 DEF Queueing, OccurrenceBudget, Promise!MayInvoke, Endless
  <2>4. Promise!Invoke(e)
    BY <1>3, <2>1, <2>2, <2>3 DEF TryPop, elemVars, Promise!Invoke
  <2> QED
    BY <2>4 DEF Promise!Next
<1>4. CASE Wake \/ TryPopNone \/ GetValue \/ Crash \/ Crashed \/ UNCHANGED vars
  BY <1>4 DEF Wake, TryPopNone, GetValue, Crash, Crashed, vars
<1> QED
  BY <1>1, <1>2, <1>3, <1>4 DEF Next

\* The queue with its reader implements the abstract schedule.
THEOREM QueueImplementsSchedule == Spec => ImplementsSchedule
<1>1. Init => Promise!Init
  BY DEF Init, Promise!Init
<1>2. Queueing /\ [Next]_vars => [Promise!Next]_(Promise!vars)
  BY QueueStepIsScheduleStep
<1> QED
  BY <1>1, <1>2, QueueingInvariant, PTL DEF Spec, ImplementsSchedule, Promise!Spec

-----------------------------------------------------------------------------
\* The index stays inside the values of a well-formed element: get_value resets
\* it exactly when it reaches the end, and no step changes how many values there are.
IndexInside ==
    /\ TypeOK
    /\ \A e \in Elem : /\ DOMAIN values[e] = DOMAIN task[e].values
                       /\ Len(values[e]) = Len(task[e].values)
                       /\ Len(values[e]) > 0 => idx[e] < Len(values[e])
    /\ pc = "crashed" => ~ WellFormed(task[elem])

\* Shift keeps the domain of its first argument.
LEMMA ShiftDomain ==
    ASSUME NEW vs \in Seq(Int), NEW ds \in Seq(Int), NEW g \in Int
    PROVE  DOMAIN Shift(vs, ds, g) = DOMAIN vs /\ Len(Shift(vs, ds, g)) = Len(vs)
<1>1. DOMAIN Shift(vs, ds, g) = 1 .. Len(vs) /\ Len(vs) \in Nat /\ DOMAIN vs = 1 .. Len(vs)
  BY DEF Shift
<1>2. Shift(vs, ds, g) \in Seq(Int)
  BY ShiftType
<1> QED
  BY <1>1, <1>2

\* Every step keeps the index inside.
LEMMA IndexStep == IndexInside /\ [Next]_vars => IndexInside'
<1> SUFFICES ASSUME IndexInside, [Next]_vars PROVE IndexInside'
  OBVIOUS
<1>t. TypeOK /\ TypeOK'
  BY TypeStep DEF IndexInside
<1>1. CASE GetValue
  <2>1. /\ elem \in Elem /\ values[elem] \in Seq(Int) /\ idx[elem] \in Nat
        /\ task[elem].deltas \in Seq(Int) /\ Garbage \subseteq Int
    BY <1>t, InputAssumption DEF TypeOK
  <2>2. PICK g \in Garbage : values' = [values EXCEPT ![elem] =
          IF task[elem].deltas = <<>> THEN values[elem] ELSE Shift(values[elem], task[elem].deltas, g)]
    BY <1>1 DEF GetValue
  <2>3. \A e \in Elem : DOMAIN values'[e] = DOMAIN values[e] /\ Len(values'[e]) = Len(values[e])
    <3>1. values \in [Elem -> Seq(Int)]
      BY <1>t DEF TypeOK
    <3>2. g \in Int
      BY <2>1
    <3> DEFINE shifted == Shift(values[elem], task[elem].deltas, g)
    <3>3. DOMAIN shifted = DOMAIN values[elem] /\ Len(shifted) = Len(values[elem])
      BY <2>1, <3>2, ShiftDomain
    <3>4. values' = [values EXCEPT ![elem] = IF task[elem].deltas = <<>> THEN values[elem] ELSE shifted]
      BY <2>2
    <3> HIDE DEF shifted
    <3> QED
      BY <2>1, <3>1, <3>3, <3>4
  <2>4. idx' = [idx EXCEPT ![elem] = IF @ + 1 = Len(values[elem]) THEN 0 ELSE @ + 1]
        /\ pc' = "draining" /\ task' = task
    BY <1>1 DEF GetValue, NextIdx
  <2>5. ASSUME NEW e \in Elem, Len(values'[e]) > 0 PROVE idx'[e] < Len(values'[e])
    <3>1. Len(values[e]) \in Nat /\ Len(values'[e]) = Len(values[e]) /\ idx[e] \in Nat
      BY <1>t, <2>3 DEF TypeOK
    <3>2. idx[e] < Len(values[e])
      BY <2>5, <3>1 DEF IndexInside
    <3>3. idx'[e] = IF e = elem THEN (IF idx[e] + 1 = Len(values[e]) THEN 0 ELSE idx[e] + 1) ELSE idx[e]
      BY <1>t, <2>4 DEF TypeOK
    <3> QED
      BY <3>1, <3>2, <3>3
  <2> QED
    BY <1>t, <2>3, <2>4, <2>5 DEF IndexInside
<1>2. CASE Crash
  BY <1>t, <1>2 DEF Crash, IndexInside
<1>3. ASSUME UNCHANGED <<task, values, idx>>, pc' # "crashed" PROVE IndexInside'
  BY <1>t, <1>3 DEF IndexInside
<1>4. CASE Crashed \/ UNCHANGED vars
  BY <1>t, <1>4 DEF Crashed, IndexInside, vars
<1>5. ASSUME NEW e \in Elem, (Running /\ Push(e)) \/ TryPop(e) PROVE IndexInside'
  BY <1>3, <1>5, <1>t DEF Push, TryPop, elemVars, Running, TypeOK
<1>6. CASE (Running /\ Tick) \/ Wake \/ TryPopNone
  BY <1>3, <1>6 DEF Tick, Wake, TryPopNone, Running
<1> QED
  BY <1>1, <1>2, <1>4, <1>5, <1>6 DEF Next

\* With values, and as many deltas or none, get_value never leaves its vectors
\* (PriorityQueueElement.h:78, 85, 89).
THEOREM IndexInRange == Spec => []NoOutOfRange
<1>1. Init => IndexInside
  <2> SUFFICES ASSUME Init PROVE IndexInside
    OBVIOUS
  <2>1. TypeOK
    BY InputAssumption DEF Init, TypeOK
  <2> QED
    BY <2>1 DEF Init, IndexInside
<1>2. IndexInside => NoOutOfRange
  <2> SUFFICES ASSUME IndexInside, WellFormed(task[elem]) PROVE idx[elem] < Len(values[elem])
    BY DEF NoOutOfRange, IndexInside
  <2>1. values[elem] \in Seq(Int) /\ task[elem].values \in Seq(Int) /\ elem \in Elem
    BY InputAssumption DEF IndexInside, TypeOK
  <2>2. Len(values[elem]) = Len(task[elem].values) /\ Len(task[elem].values) > 0
    BY <2>1 DEF IndexInside, WellFormed
  <2> QED
    BY <2>1, <2>2 DEF IndexInside
<1> QED
  BY <1>1, <1>2, IndexStep, PTL DEF Spec

-----------------------------------------------------------------------------
(* The order of the invocations *)

\* When the element popped last was due.
LastDue(f) == made[f] + pops[f] * Period(f)

\* Due times are integers, and those of the past are past.
LEMMA LastDuePast ==
    ASSUME Queueing, NEW f \in built
    PROVE  /\ LastDue(f) \in Int
           /\ (pops[f] > 0 /\ Period(f) >= 0) => LastDue(f) < now
<1>1. /\ f \in Elem /\ Period(f) \in Int /\ pops[f] \in Int /\ made[f] \in Int /\ now \in Int
      /\ task[f].delta \in Nat /\ IntHalf \in Nat /\ task[f].delta < 2 * IntHalf
  BY CIntIsInt, InputAssumption DEF Queueing, TypeOK, Period
<1> DEFINE gone == pops[f] * Period(f)
<1>2. gone \in Int
  BY <1>1, OneMorePeriod
<1>3. LastDue(f) \in Int
  <2>1. LastDue(f) = made[f] + gone
    BY DEF LastDue
  <2> HIDE DEF gone
  <2> QED
    BY <1>1, <1>2, <2>1
<1>4. ASSUME pops[f] > 0, Period(f) >= 0 PROVE LastDue(f) < now
  <2>1. task[f].delta < IntHalf /\ Period(f) = task[f].delta
    BY <1>1, <1>4 DEF Period, CInt
  <2>2. now > made[f] + gone
    BY <1>4, <2>1 DEF Queueing, NeverEarly
  <2>3. LastDue(f) = made[f] + gone
    BY DEF LastDue
  <2> HIDE DEF gone
  <2> QED
    BY <1>1, <1>2, <2>2, <2>3
<1> QED
  BY <1>3, <1>4

\* The element on top has the least due time of all, and becomes the latest one served; a
\* new element is due no earlier than now, and one that is put back later than before.
LEMMA BypassStep == Queueing /\ BoundedBypass /\ [Next]_vars => BoundedBypass'
<1> SUFFICES ASSUME Queueing, BoundedBypass, [Next]_vars,
                    NEW e \in queue', NEW f \in built', pops'[f] > 0,
                    \A g \in built' : Period(g)' >= 0
             PROVE  LastDue(f)' <= next'[e]
  BY DEF BoundedBypass, LastDue
<1>t. TypeOK /\ TypeOK'
  BY TypeStep DEF Queueing
<1>p. \A g \in Elem : Period(g) \in Int
  BY <1>t, CIntIsInt DEF TypeOK, Period
<1>e. e \in Elem /\ f \in Elem /\ next[e] \in Int /\ next'[e] \in Int
  BY <1>t DEF TypeOK
<1>f. LastDue(f)' \in Int
  <2>1. pops'[f] \in Int /\ made'[f] \in Int /\ Period(f)' \in Int
    BY <1>t, <1>e, CIntIsInt DEF TypeOK, Period
  <2>2. pops'[f] * Period(f)' \in Int
    BY <2>1, OneMorePeriod
  <2> DEFINE gone == pops'[f] * Period(f)'
  <2> HIDE DEF gone
  <2>3. made'[f] + gone \in Int
    BY <2>1, <2>2 DEF gone
  <2> QED
    BY <2>3 DEF LastDue, gone
<1>b. (e \in queue /\ f \in built /\ pops[f] > 0 /\ \A g \in built : Period(g) >= 0)
        => LastDue(f) <= next[e]
  BY DEF BoundedBypass, LastDue
<1>1. ASSUME NEW x \in Elem, Push(x) PROVE LastDue(f)' <= next'[e]
  <2>1. /\ x \notin built /\ built' = built \cup {x} /\ queue' = queue \cup {x}
        /\ made' = [made EXCEPT ![x] = now] /\ next' = [next EXCEPT ![x] = now + Period(x)]
        /\ UNCHANGED <<now, task, pops>>
    BY <1>1 DEF Push, FirstInvocation
  <2>2. \A g \in Elem : Period(g)' = Period(g)
    BY <2>1 DEF Period
  <2>3. f # x /\ f \in built
    BY <2>1 DEF Queueing, Fresh
  <2>4. LastDue(f)' = LastDue(f)
    BY <1>t, <1>e, <2>1, <2>2, <2>3 DEF LastDue, TypeOK
  <2>5. \A g \in built : Period(g) >= 0
    BY <1>t, <2>1, <2>2 DEF TypeOK
  <2>6. CASE e # x
    <3>1. e \in queue /\ next'[e] = next[e]
      BY <1>t, <1>e, <2>1, <2>6 DEF TypeOK
    <3> QED
      BY <1>b, <2>1, <2>3, <2>4, <2>5, <3>1
  <2>7. CASE e = x
    <3>1. next'[e] = now + Period(e) /\ now \in Int /\ Period(e) \in Int /\ Period(e) >= 0
      BY <1>t, <1>e, <1>p, <2>1, <2>2, <2>7 DEF TypeOK
    <3>2. LastDue(f) \in Int /\ LastDue(f) < now
      BY <2>1, <2>3, <2>5, LastDuePast
    <3> QED
      BY <2>4, <3>1, <3>2
  <2> QED
    BY <2>6, <2>7
<1>2. ASSUME NEW x \in Elem, TryPop(x) PROVE LastDue(f)' <= next'[e]
  <2>1. /\ x \in queue /\ x \in built /\ \A g \in queue : next[x] <= next[g]
        /\ queue' \subseteq queue
        /\ next' = [next EXCEPT ![x] = next[x] + Period(x)] \/ next' = next
        /\ pops' = [pops EXCEPT ![x] = pops[x] + 1]
        /\ UNCHANGED <<now, task, built, made>>
    BY <1>2, <1>t DEF TryPop, NextInvocation, Top, TypeOK, elemVars
  <2>2. \A g \in Elem : Period(g)' = Period(g)
    BY <2>1 DEF Period
  <2>3. /\ e \in queue /\ f \in built /\ next[x] <= next[e] /\ next[x] \in Int
        /\ Period(x) \in Int /\ Period(x) >= 0 /\ \A g \in built : Period(g) >= 0
    BY <1>t, <1>p, <2>1, <2>2 DEF TypeOK
  <2>4. next[e] <= next'[e]
    <3>1. next'[e] = next[e] \/ (e = x /\ next'[e] = next[x] + Period(x))
      BY <1>t, <1>e, <2>1 DEF TypeOK
    <3> QED
      BY <1>e, <2>3, <3>1
  <2>5. CASE f = x
    <3>1. next[x] = made[x] + (pops[x] + 1) * Period(x) /\ pops'[x] = pops[x] + 1
      BY <1>t, <2>1 DEF Queueing, OnSchedule, TypeOK
    <3>2. LastDue(f)' = next[x]
      BY <2>1, <2>2, <2>5, <3>1, <1>e DEF LastDue
    <3> QED
      BY <1>e, <2>3, <2>4, <3>2
  <2>6. CASE f # x
    <3>1. pops'[f] = pops[f]
      BY <1>t, <1>e, <2>1, <2>6 DEF TypeOK
    <3>2. LastDue(f)' = LastDue(f)
      BY <1>e, <2>1, <2>2, <3>1 DEF LastDue
    <3> QED
      BY <1>b, <1>e, <1>f, <2>3, <2>4, <3>1, <3>2
  <2> QED
    BY <2>5, <2>6
<1>3. CASE UNCHANGED <<task, built, made, queue, next, occ, pops>>
  <2>1. LastDue(f)' = LastDue(f) /\ \A g \in Elem : Period(g)' = Period(g)
    BY <1>3 DEF LastDue, Period
  <2> QED
    BY <1>3, <1>b, <1>t, <2>1 DEF TypeOK
<1>4. CASE UNCHANGED vars
  BY <1>3, <1>4 DEF vars
<1> QED
  BY <1>1, <1>2, <1>3, <1>4, OnlyTryPopServes

\* While an element waits, every other one has had at most the invocations of its periods
\* up to that element's due time (PriorityQ.h:83-105, InteractiveTask.h:87-103).
THEOREM NobodyStarves == Spec => []BoundedBypass
<1>1. Init => BoundedBypass
  BY DEF Init, BoundedBypass
<1> QED
  BY <1>1, BypassStep, QueueingInvariant, PTL DEF Spec

\* Invocations come in the order of their due times, over elements and drains
\* (PriorityQ.h:83-105, PriorityQueueElement.h:129-138).
THEOREM ServedInOrder == Spec => DueOrder
<1> DEFINE A(e) == (pops'[e] # pops[e] /\ pops[elem] > 0 /\ \A f \in built : Period(f) >= 0)
                     => next[e] >= made[elem] + pops[elem] * Period(elem)
<1>1. ASSUME Queueing, BoundedBypass, [Next]_vars, NEW e \in Elem PROVE A(e)
  <2> SUFFICES ASSUME pops'[e] # pops[e], \A f \in built : Period(f) >= 0, pops[elem] > 0
               PROVE  next[e] >= LastDue(elem)
    BY DEF LastDue
  <2>1. e \in queue
    <3>1. PICK f \in Elem : TryPop(f)
      BY <1>1 DEF Next, vars, Tick, Push, Wake, TryPopNone, GetValue, Crash, Crashed
    <3>2. f = e
      BY <1>1, <3>1 DEF TryPop, Queueing, TypeOK
    <3> QED
      BY <3>1, <3>2 DEF TryPop, Top
  <2>2. elem \in built /\ next[e] \in Int
    BY <1>1 DEF Queueing, Fresh, TypeOK
  <2>3. LastDue(elem) \in Int
    BY <1>1, <2>2, LastDuePast
  <2>4. LastDue(elem) <= next[e]
    BY <1>1, <2>1, <2>2 DEF BoundedBypass, LastDue
  <2> QED
    BY <2>2, <2>3, <2>4
<1>2. Queueing /\ BoundedBypass /\ [Next]_vars => [\A e \in Elem : A(e)]_vars
  BY <1>1
<1> QED
  BY <1>2, QueueingInvariant, NobodyStarves, PTL DEF Spec, DueOrder

-----------------------------------------------------------------------------
(* Nothing is lost: a drain that ends has caught up *)

\* The order of the naturals as a relation, for the library's theorem on minimal elements.
LEMMA NatOrder ==
    \E R : IsWellFoundedOn(R, Nat) /\ \A x, y \in Nat : y < x => <<y, x>> \in R
<1>1. \A x, y \in Nat : y < x => <<y, x>> \in OpToRel(<, Nat)
  BY DEF OpToRel
<1> QED
  BY <1>1, NatLessThanWellFounded, Zenon

\* A set of naturals has a least element.
LEMMA LeastNat ==
    ASSUME NEW T \in SUBSET Nat, T # {}
    PROVE  \E x \in T : \A y \in T : x <= y
<1>1. PICK R : IsWellFoundedOn(R, Nat) /\ \A x, y \in Nat : y < x => <<y, x>> \in R
  BY NatOrder
<1>2. PICK x \in T : \A y \in T : ~ (<<y, x>> \in R)
  BY <1>1, WFMin
<1>3. ASSUME NEW y \in T PROVE x <= y
  <2>1. x \in Nat /\ y \in Nat
    OBVIOUS
  <2>2. ~ (y < x)
    BY <1>1, <1>2, <2>1, Zenon
  <2> QED
    BY <2>1, <2>2
<1> QED
  BY <1>3

\* Only finitely many periods have been subtracted, so that the due times in the queue
\* have a lower bound, however many elements there are.
Bounded == \E b \in Int : \A f \in queue : next[f] >= b

\* A step subtracts one period at most.
LEMMA BoundedStep == TypeOK /\ Bounded /\ [Next]_vars => Bounded'
<1> SUFFICES ASSUME TypeOK, Bounded, [Next]_vars PROVE Bounded'
  OBVIOUS
<1>1. PICK b \in Int : \A f \in queue : next[f] >= b
  BY DEF Bounded
<1>2. TypeOK'
  BY TypeStep
<1>3. ASSUME NEW e \in Elem, queue' \subseteq queue \cup {e}, \A f \in Elem : f # e => next'[f] = next[f]
      PROVE  Bounded'
  <2>1. next'[e] \in Int /\ \A f \in queue : next[f] \in Int
    BY <1>2 DEF TypeOK
  <2>2. PICK c \in Int : c <= b /\ c <= next'[e]
    <3>1. CASE b <= next'[e]
      BY <3>1
    <3>2. CASE ~ (b <= next'[e])
      BY <2>1, <3>2
    <3> QED
      BY <3>1, <3>2
  <2>3. ASSUME NEW f \in queue' PROVE next'[f] >= c
    <3>1. CASE f = e
      BY <2>2, <3>1
    <3>2. CASE f # e
      <4>1. f \in queue /\ f \in Elem
        BY <1>3, <3>2 DEF TypeOK
      <4>2. next'[f] = next[f] /\ next[f] >= b /\ next[f] \in Int
        BY <1>1, <1>3, <2>1, <3>2, <4>1
      <4> QED
        BY <2>2, <4>2
    <3> QED
      BY <3>1, <3>2
  <2> QED
    BY <2>3 DEF Bounded
<1>4. CASE UNCHANGED <<queue, next>>
  BY <1>4 DEF Bounded
<1>5. UNCHANGED <<queue, next>> \/ (\E e \in Elem : Push(e)) \/ (\E e \in Elem : TryPop(e))
  BY DEF Next, Tick, Wake, TryPopNone, GetValue, Crash, Crashed, vars
<1>6. ASSUME NEW e \in Elem, Push(e) \/ TryPop(e)
      PROVE  queue' \subseteq queue \cup {e} /\ \A f \in Elem : f # e => next'[f] = next[f]
  BY <1>6 DEF Push, TryPop, TypeOK
<1> QED
  BY <1>3, <1>4, <1>5, <1>6

\* Something is on top of a queue that is not empty.
LEMMA SomethingOnTop ==
    ASSUME TypeOK, Bounded, queue # {}
    PROVE  \E e \in Elem : Top(e)
<1>1. PICK b \in Int : \A f \in queue : next[f] >= b
  BY DEF Bounded
<1>2. \A f \in queue : f \in Elem /\ next[f] \in Int /\ next[f] - b \in Nat
  BY <1>1 DEF TypeOK
<1> DEFINE T == {next[f] - b : f \in queue}
<1>3. T \in SUBSET Nat /\ T # {}
  BY <1>2
<1>4. PICK x \in T : \A y \in T : x <= y
  BY <1>3, LeastNat
<1>5. PICK e \in queue : x = next[e] - b
  BY <1>4
<1>6. \A f \in queue : next[e] - b <= next[f] - b
  BY <1>4, <1>5
<1>7. \A f \in queue : next[e] <= next[f]
  BY <1>2, <1>6
<1> QED
  BY <1>2, <1>7 DEF Top

\* The counter of a finite element never becomes -1, the mark of an endless one.
CountedOut == \A e \in built : task[e].times # Endless => occ[e] # Endless

\* The test of the counter and its decrement keep it away from -1.
LEMMA CountedOutStep == Queueing /\ CountedOut /\ [Next]_vars => CountedOut'
<1> SUFFICES ASSUME Queueing, CountedOut, [Next]_vars PROVE CountedOut'
  OBVIOUS
<1>1. ASSUME NEW e \in Elem, Push(e) PROVE CountedOut'
  <2>1. /\ pops[e] = 0 /\ occ[e] = task[e].times
        /\ built' = built \cup {e} /\ UNCHANGED <<task, occ, pops>>
    BY <1>1 DEF Push, Queueing, Fresh
  <2> QED
    BY <2>1 DEF CountedOut
<1>2. ASSUME NEW e \in Elem, TryPop(e) PROVE CountedOut'
  <2>1. /\ e \in queue /\ e \in built /\ occ' = [occ EXCEPT ![e] = Left(e)]
        /\ pops' = [pops EXCEPT ![e] = pops[e] + 1] /\ UNCHANGED <<task, built>>
    BY <1>2 DEF TryPop, Top, elemVars, Queueing, TypeOK
  <2>2. ASSUME task[e].times # Endless
        PROVE  Left(e) # Endless
    <3>1. occ[e] \in Nat
      BY <2>1, <2>2 DEF CountedOut, Queueing, TypeOK
    <3> QED
      BY <3>1 DEF Left, Endless
  <2>3. \A f \in built : f # e => pops'[f] = pops[f] /\ occ'[f] = occ[f]
    BY <2>1 DEF Queueing, TypeOK
  <2>4. pops'[e] = pops[e] + 1 /\ occ'[e] = Left(e)
    BY <2>1 DEF Queueing, TypeOK
  <2> QED
    BY <2>1, <2>2, <2>3, <2>4 DEF CountedOut
<1>3. CASE UNCHANGED <<task, built, occ, pops>>
  BY <1>3 DEF CountedOut
<1>4. CASE UNCHANGED vars
  BY <1>3, <1>4 DEF vars
<1> QED
  BY <1>1, <1>2, <1>3, <1>4, OnlyTryPopServes

\* One more of k periods.
LEMMA Distribute ==
    ASSUME NEW n \in Int, NEW p \in Int
    PROVE  n * p \in Int /\ (n + 1) * p = n * p + p
OBVIOUS

\* Division by a positive number.
LEMMA AtLeast ==
    ASSUME NEW a \in Int, NEW p \in Int, p > 0, NEW k \in Int, k * p <= a
    PROVE  a \div p \in Int /\ a \div p >= k
OBVIOUS

\* A quotient that is known from both sides.
LEMMA Exactly ==
    ASSUME NEW a \in Int, NEW p \in Int, p > 0, NEW k \in Int, k * p <= a, a < k * p + p
    PROVE  a \div p = k
OBVIOUS

\* When nothing in the queue is due, each element was served as often as is owed.
LEMMA CaughtUp ==
    ASSUME Queueing, Bounded, CountedOut, TryPopNone, NEW e \in built,
           task[e].times # 0, task[e].delta \in 1 .. (IntHalf - 1), now > made[e]
    PROVE  pops[e] = Owed(e, now)
<1> DEFINE p == task[e].delta
           k == pops[e]
           gone == k * p
           times == task[e].times
           elapsed == (now - made[e] - 1) \div p
           limit == times
<1>1. /\ e \in Elem /\ k \in Nat /\ p \in Int /\ p > 0 /\ p < IntHalf /\ Period(e) = p
      /\ now \in Int /\ made[e] \in Int /\ times \in Nat \cup {Endless}
      /\ next[e] \in Int
  BY InputAssumption DEF Queueing, TypeOK, Period, CInt
<1>2. gone \in Int /\ (k + 1) * p = gone + p
  <2>1. k \in Int /\ p \in Int
    BY <1>1
  <2> QED
    BY <2>1, Distribute
<1>3. gone <= now - made[e] - 1
  <2>1. CASE k = 0
    <3>1. gone = 0
      BY <1>1, <2>1
    <3> HIDE DEF gone
    <3> QED
      BY <1>1, <3>1
  <2>2. CASE k > 0
    <3>1. now > made[e] + gone
      BY <1>1, <2>2 DEF Queueing, NeverEarly
    <3> HIDE DEF gone
    <3> QED
      BY <1>1, <1>2, <3>1
  <2> QED
    BY <1>1, <2>1, <2>2
<1>4. elapsed \in Int /\ elapsed >= k
  <2>1. now - made[e] - 1 \in Int /\ k \in Int
    BY <1>1
  <2> QED
    BY <1>1, <1>3, <2>1, AtLeast
<1>5. Owed(e, now) = IF times = Endless \/ elapsed < limit THEN elapsed ELSE limit
  BY DEF Owed
<1>6. CASE e \in queue
  <2>1. ~ Due(e)
    <3>1. PICK f \in Elem : Top(f)
      BY <1>6, SomethingOnTop DEF Queueing
    <3>2. ~ Due(f) /\ next[f] <= next[e] /\ next[f] \in Int
      BY <1>6, <3>1 DEF TryPopNone, Top, Queueing, TypeOK
    <3> QED
      BY <1>1, <3>2 DEF Due
  <2>2. now <= made[e] + (k + 1) * p
    BY <1>1, <1>6, <2>1 DEF Due, Queueing, OnSchedule
  <2>3. now - made[e] - 1 < gone + p
    <3> HIDE DEF gone
    <3> QED
      BY <1>1, <1>2, <2>2
  <2>4. elapsed = k
    <3>1. now - made[e] - 1 \in Int /\ k \in Int
      BY <1>1
    <3> QED
      BY <1>1, <1>3, <2>3, <3>1, Exactly
  <2>5. times = Endless \/ k < limit
    BY <1>1, <1>6 DEF Queueing, OccurrenceBudget, Endless
  <2> HIDE DEF elapsed, limit, k, times
  <2> QED
    BY <1>5, <2>4, <2>5 DEF k
<1>7. CASE e \notin queue
  <2>1. times # Endless /\ k = limit
    <3>1. times # Endless
      BY <1>7 DEF Queueing, OccurrenceBudget
    <3>2. occ[e] \in Nat /\ times \in Nat
      BY <1>1, <3>1 DEF Queueing, TypeOK, CountedOut
    <3>3. k + occ[e] = times /\ ~ (k < times)
      BY <1>7, <3>1 DEF Queueing, OccurrenceBudget
    <3>4. limit = times /\ k \in Nat
      BY <1>1
    <3> HIDE DEF limit, k, times
    <3> QED
      BY <3>1, <3>2, <3>3, <3>4
  <2>2. limit \in Int
    BY <1>1, <2>1
  <2> HIDE DEF elapsed, limit, k, times
  <2>3. elapsed >= limit
    BY <1>4, <2>1
  <2>4. ~ (elapsed < limit)
    BY <1>4, <2>2, <2>3
  <2> QED
    BY <1>5, <2>1, <2>4 DEF k
<1> QED
  BY <1>6, <1>7

\* A drain ends only with the null of try_pop, and then every element was served once for
\* each of its periods (InteractiveTask.h:87-103, PriorityQ.h:83-105).
THEOREM DrainsCatchUp == Spec => NoInvocationLost
<1> DEFINE J == Queueing /\ Bounded /\ CountedOut
           A == (pc = "draining" /\ pc' = "sleeping")
                  => \A e \in built :
                       (task[e].times # 0 /\ task[e].delta \in 1 .. (IntHalf - 1)
                          /\ now > made[e])
                         => pops[e] = Owed(e, now)
<1>1. Init => J
  <2> SUFFICES ASSUME Init PROVE J
    OBVIOUS
  <2>1. TypeOK
    BY InputAssumption DEF Init, TypeOK
  <2>2. Queueing
    BY <2>1 DEF Init, Queueing, Fresh, OccurrenceBudget, OnSchedule, NeverEarly
  <2>3. Bounded /\ CountedOut
    BY DEF Init, Bounded, CountedOut
  <2> QED
    BY <2>2, <2>3
<1>2. J /\ [Next]_vars => J'
  BY QueueingStep, BoundedStep, CountedOutStep DEF Queueing
<1>3. ASSUME J, [Next]_vars PROVE A
  <2> SUFFICES ASSUME pc = "draining", pc' = "sleeping" PROVE A
    OBVIOUS
  <2>1. TryPopNone
    BY <1>3 DEF Next, vars, Tick, Push, Wake, TryPop, GetValue, Crash, Crashed
  <2> QED
    BY <1>3, <2>1, CaughtUp
<1>4. J /\ [Next]_vars => [A]_vars
  BY <1>3
<1> QED
  BY <1>1, <1>2, <1>4, PTL DEF Spec, NoInvocationLost

-----------------------------------------------------------------------------
(* The values an element goes through *)

\* Quotient and remainder make up the dividend.
LEMMA Division ==
    ASSUME NEW a \in Nat, NEW n \in Nat, n > 0
    PROVE  /\ a \div n \in Int /\ a % n \in 0 .. (n - 1)
           /\ a = (a \div n) * n + (a % n)
OBVIOUS

\* The remainder is what is left of a multiple.
LEMMA Remainder ==
    ASSUME NEW a \in Nat, NEW n \in Nat, n > 0, NEW q \in Int, NEW r \in 0 .. (n - 1),
           a = q * n + r
    PROVE  a % n = r
<1>1. q * n \in Int /\ q * n <= a /\ a < q * n + n
  OBVIOUS
<1>2. a \div n = q
  BY <1>1, Exactly
<1>3. a = q * n + (a % n) /\ a % n \in Int
  BY <1>2, Division
<1> QED
  BY <1>1, <1>3

\* Counting one further, modulo a length.
LEMMA OneFurther ==
    ASSUME NEW c \in Nat, NEW n \in Nat, n > 0
    PROVE  (c + 1) % n = IF (c % n) + 1 = n THEN 0 ELSE (c % n) + 1
<1> DEFINE q == c \div n
           r == c % n
<1>1. q \in Int /\ r \in 0 .. (n - 1) /\ c = q * n + r
  BY Division
<1> HIDE DEF q, r
<1>2. CASE r + 1 = n
  <2>1. c + 1 = (q + 1) * n + 0 /\ q + 1 \in Int /\ 0 \in 0 .. (n - 1)
    BY <1>1, <1>2, Distribute
  <2>2. (c + 1) % n = 0
    <3>1. c + 1 \in Nat
      OBVIOUS
    <3> QED
      BY <2>1, <3>1, Remainder
  <2> QED
    BY <1>2, <2>2 DEF r
<1>3. CASE r + 1 # n
  <2>1. c + 1 = q * n + (r + 1) /\ r + 1 \in 0 .. (n - 1)
    BY <1>1, <1>3
  <2>2. (c + 1) % n = r + 1
    BY <1>1, <2>1, Remainder
  <2> QED
    BY <1>3, <2>2 DEF r
<1> QED
  BY <1>2, <1>3

\* An element that was popped last was popped, and one not yet built is as configured.
Walk ==
    /\ pc = "popped" => elem \in built /\ pops[elem] > 0
    /\ \A e \in Elem \ built : idx[e] = 0 /\ values[e] = task[e].values
    /\ ValueSchedule

\* The number of calls of get_value is a natural.
LEMMA CallsCount ==
    ASSUME TypeOK, Walk, NEW e \in Elem
    PROVE  Calls(e) \in Nat
BY DEF TypeOK, Walk, Calls

\* A step that calls no get_value: the calls counted, the index and the values stay.
LEMMA WalkFrame ==
    ASSUME ValueSchedule, UNCHANGED <<task, idx, values>>, Running' => Running,
           \A e \in built' : e \in built /\ Calls(e)' = Calls(e)
    PROVE  ValueSchedule'
BY DEF ValueSchedule

\* get_value goes one further and shifts all values; no other step touches them.
LEMMA WalkStep == Queueing /\ IndexInside /\ Walk /\ [Next]_vars => Walk'
<1> SUFFICES ASSUME Queueing, IndexInside, Walk, [Next]_vars PROVE Walk'
  OBVIOUS
<1>t. TypeOK /\ TypeOK'
  BY TypeStep DEF Queueing
<1>1. ASSUME NEW e \in Elem, Running, Push(e) PROVE Walk'
  <2>1. /\ e \notin built /\ built' = built \cup {e} /\ pops[e] = 0
        /\ idx[e] = 0 /\ values[e] = task[e].values
        /\ UNCHANGED <<task, idx, values, pops, pc, elem>>
    BY <1>1 DEF Push, Queueing, Fresh, Walk
  <2>2. \A f \in Elem : Calls(f)' = Calls(f)
    BY <2>1 DEF Calls
  <2>3. Calls(e) = 0
    <3>1. ~ (pc = "popped" /\ elem = e)
      BY <2>1 DEF Walk
    <3>2. Calls(e) = pops[e] - 0
      BY <3>1, Zenon DEF Calls
    <3> QED
      BY <2>1, <3>2
  <2>4. ASSUME NEW f \in built', WellFormed(task'[f]) /\ Running'
        PROVE  /\ idx'[f] = Calls(f)' % Len(task'[f].values)
               /\ \A i \in DOMAIN task'[f].values :
                    values'[f][i] = task'[f].values[i]
                      + (IF task'[f].deltas = <<>> THEN 0 ELSE Calls(f)' * task'[f].deltas[i])
    <3>1. CASE f = e
      <4>1. /\ task[e].values \in Seq(Int) /\ task[e].deltas \in Seq(Int)
            /\ WellFormed(task[e])
        BY <1>t, <2>1, <2>4, <3>1, InputAssumption DEF TypeOK
      <4>2. Len(task[e].values) \in Nat /\ Len(task[e].values) > 0
        BY <4>1 DEF WellFormed
      <4>3. 0 % Len(task[e].values) = 0
        <5> DEFINE n == Len(task[e].values)
        <5>1. n \in Nat /\ n > 0 /\ 0 \in 0 .. (n - 1) /\ 0 = 0 * n + 0
          BY <4>2
        <5> HIDE DEF n
        <5>2. 0 % n = 0
          BY <5>1, Remainder
        <5> QED
          BY <5>2 DEF n
      <4>4. ASSUME NEW i \in DOMAIN task[e].values
            PROVE  values[e][i] = task[e].values[i]
                     + (IF task[e].deltas = <<>> THEN 0 ELSE 0 * task[e].deltas[i])
        <5>1. task[e].values[i] \in Int
          BY <4>1
        <5>2. task[e].deltas # <<>> => task[e].deltas[i] \in Int
          BY <4>1 DEF WellFormed
        <5> QED
          BY <2>1, <5>1, <5>2
      <4> QED
        BY <2>1, <2>2, <2>3, <3>1, <4>3, <4>4
    <3>2. CASE f # e
      <4>1. f \in built /\ f \in Elem /\ Calls(f)' = Calls(f)
        BY <1>t, <2>1, <2>2, <3>2 DEF TypeOK
      <4> QED
        BY <1>1, <2>1, <2>4, <4>1 DEF Walk, ValueSchedule
    <3> QED
      BY <3>1, <3>2
  <2>5. ValueSchedule'
    BY <2>4 DEF ValueSchedule
  <2> QED
    BY <2>1, <2>5 DEF Walk
<1>2. ASSUME NEW e \in Elem, TryPop(e) PROVE Walk'
  <2>1. /\ e \in queue /\ e \in built /\ pc = "draining" /\ pc' = "popped" /\ elem' = e
        /\ pops' = [pops EXCEPT ![e] = pops[e] + 1]
        /\ UNCHANGED <<task, built, idx, values>>
    BY <1>2 DEF TryPop, Top, elemVars, Queueing, TypeOK
  <2>2. \A f \in Elem : pops[f] \in Nat /\ pops'[f] = IF f = e THEN pops[f] + 1 ELSE pops[f]
    BY <1>t, <2>1 DEF TypeOK
  <2>3. \A f \in Elem : Calls(f)' = Calls(f)
    BY <2>1, <2>2 DEF Calls
  <2>4. ValueSchedule'
    BY <1>t, <2>1, <2>3, WalkFrame DEF Walk, Running, TypeOK
  <2> QED
    BY <2>1, <2>2, <2>4 DEF Walk
<1>3. ASSUME GetValue PROVE Walk'
  <2> DEFINE e == elem
             vs == values[e]
             ds == task[e].deltas
             n == Len(task[e].values)
  <2>1. /\ e \in Elem /\ e \in built /\ pc = "popped" /\ pc' = "draining" /\ vs # <<>>
        /\ idx' = [idx EXCEPT ![e] = IF idx[e] + 1 = Len(vs) THEN 0 ELSE idx[e] + 1]
        /\ \A f \in Elem : f # e => values'[f] = values[f]
        /\ UNCHANGED <<task, built, pops, elem>>
    BY <1>t, <1>3 DEF GetValue, NextIdx, Walk, TypeOK
  <2>2. PICK g \in Garbage : values'[e] = IF ds = <<>> THEN vs ELSE Shift(vs, ds, g)
    BY <1>t, <1>3 DEF GetValue, TypeOK
  <2>3. /\ vs \in Seq(Int) /\ ds \in Seq(Int) /\ task[e].values \in Seq(Int)
        /\ DOMAIN vs = DOMAIN task[e].values /\ Len(vs) = n /\ idx[e] \in Nat
    BY <1>t, InputAssumption DEF TypeOK, IndexInside
  <2>4. Calls(e) \in Nat /\ Calls(e)' = Calls(e) + 1 /\ \A f \in Elem : f # e => Calls(f)' = Calls(f)
    BY <1>t, <2>1, CallsCount DEF Calls, TypeOK
  <2>5. ASSUME WellFormed(task[e])
        PROVE  /\ idx'[e] = Calls(e)' % n
               /\ \A i \in DOMAIN task[e].values :
                    values'[e][i] = task[e].values[i]
                      + (IF ds = <<>> THEN 0 ELSE Calls(e)' * ds[i])
    <3>1. /\ idx[e] = Calls(e) % n
          /\ \A i \in DOMAIN task[e].values :
               vs[i] = task[e].values[i] + (IF ds = <<>> THEN 0 ELSE Calls(e) * ds[i])
      BY <2>1, <2>5 DEF Walk, ValueSchedule, Running
    <3>2. n \in Nat /\ n > 0
      BY <2>3, <2>5 DEF WellFormed
    <3>3. idx'[e] = Calls(e)' % n
      <4>1. idx'[e] = IF idx[e] + 1 = n THEN 0 ELSE idx[e] + 1
        BY <1>t, <2>1, <2>3 DEF TypeOK
      <4>2. (Calls(e) + 1) % n = IF (Calls(e) % n) + 1 = n THEN 0 ELSE (Calls(e) % n) + 1
        BY <2>4, <3>2, OneFurther
      <4> QED
        BY <2>4, <3>1, <4>1, <4>2
    <3>4. ASSUME NEW i \in DOMAIN task[e].values
          PROVE  values'[e][i] = task[e].values[i]
                   + (IF ds = <<>> THEN 0 ELSE Calls(e)' * ds[i])
      <4>1. CASE ds = <<>>
        BY <2>2, <3>1, <4>1
      <4>2. CASE ds # <<>>
        <5>1. i \in DOMAIN ds
          BY <2>3, <2>5, <4>2 DEF WellFormed
        <5>2. values'[e][i] = vs[i] + ds[i]
          BY <2>2, <2>3, <4>2, <5>1 DEF Shift
        <5>3. ds[i] \in Int /\ task[e].values[i] \in Int /\ Calls(e) \in Int
          BY <2>3, <2>4, <5>1
        <5>4. Calls(e) * ds[i] \in Int /\ Calls(e)' * ds[i] = Calls(e) * ds[i] + ds[i]
          BY <2>4, <5>3, Distribute
        <5>5. vs[i] = task[e].values[i] + Calls(e) * ds[i]
          BY <3>1, <4>2
        <5> DEFINE before == Calls(e) * ds[i]
                   after == Calls(e)' * ds[i]
        <5>6. values'[e][i] = task[e].values[i] + after
          <6>1. vs[i] = task[e].values[i] + before /\ after = before + ds[i] /\ before \in Int
            BY <5>4, <5>5
          <6> HIDE DEF before, after
          <6> QED
            BY <5>2, <5>3, <6>1
        <5> QED
          BY <4>2, <5>6
      <4> QED
        BY <4>1, <4>2
    <3> QED
      BY <3>3, <3>4
  <2> HIDE DEF n, vs
  <2>6. ASSUME NEW f \in built', f # e, WellFormed(task'[f])
        PROVE  /\ idx'[f] = Calls(f)' % Len(task'[f].values)
               /\ \A i \in DOMAIN task'[f].values :
                    values'[f][i] = task'[f].values[i]
                      + (IF task'[f].deltas = <<>> THEN 0 ELSE Calls(f)' * task'[f].deltas[i])
    <3>1. f \in Elem /\ f \in built /\ idx'[f] = idx[f] /\ values'[f] = values[f]
          /\ Calls(f)' = Calls(f) /\ task' = task
      BY <1>t, <2>1, <2>4, <2>6 DEF TypeOK
    <3> QED
      BY <2>1, <2>6, <3>1 DEF Walk, ValueSchedule, Running
  <2>7. ValueSchedule'
    BY <2>1, <2>5, <2>6 DEF ValueSchedule, n
  <2>8. \A f \in Elem \ built' : idx'[f] = 0 /\ values'[f] = task'[f].values
    <3> SUFFICES ASSUME NEW f \in Elem \ built PROVE idx'[f] = 0 /\ values'[f] = task[f].values
      BY <2>1
    <3>1. f # e /\ idx[f] = 0 /\ values[f] = task[f].values
      BY <2>1 DEF Walk
    <3> QED
      BY <1>t, <2>1, <3>1 DEF TypeOK
  <2> QED
    BY <2>1, <2>7, <2>8 DEF Walk
<1>4. ASSUME Crash PROVE Walk'
  BY <1>4 DEF Crash, Walk, ValueSchedule, Running
<1>5. ASSUME UNCHANGED <<task, built, idx, values, pops, elem>>,
             pc' = pc \/ {pc, pc'} \subseteq {"sleeping", "draining"}
      PROVE  Walk'
  <2>1. \A f \in Elem : Calls(f)' = Calls(f)
    BY <1>5 DEF Calls
  <2>2. ValueSchedule'
    BY <1>t, <1>5, <2>1, WalkFrame DEF Walk, Running, TypeOK
  <2> QED
    BY <1>5, <2>2 DEF Walk
<1>6. CASE Tick \/ Wake \/ TryPopNone \/ Crashed \/ UNCHANGED vars
  BY <1>5, <1>6 DEF Tick, Wake, TryPopNone, Crashed, vars
<1> QED
  BY <1>1, <1>2, <1>3, <1>4, <1>6 DEF Next

\* get_value walks the configured values in a circle, each of them shifted once per call
\* (PriorityQueueElement.h:75-93), for every number of values and of calls.
THEOREM ValuesOnSchedule == Spec => []ValueSchedule
<1> DEFINE J == Queueing /\ IndexInside /\ Walk
<1>1. Init => J
  <2> SUFFICES ASSUME Init PROVE J
    OBVIOUS
  <2>1. TypeOK
    BY InputAssumption DEF Init, TypeOK
  <2>2. Queueing
    BY <2>1 DEF Init, Queueing, Fresh, OccurrenceBudget, OnSchedule, NeverEarly
  <2>3. IndexInside
    BY <2>1 DEF Init, IndexInside
  <2>4. Walk
    BY DEF Init, Walk, ValueSchedule
  <2> QED
    BY <2>2, <2>3, <2>4
<1>2. J /\ [Next]_vars => J'
  BY QueueingStep, IndexStep, WalkStep
<1>3. J => ValueSchedule
  BY DEF Walk
<1> QED
  BY <1>1, <1>2, <1>3, PTL DEF Spec

=============================================================================
