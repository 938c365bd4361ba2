------------------------- MODULE EngineControl_proofs -------------------------
(***************************************************************************)
(* Proofs about the control of one engine (EngineControl), for every       *)
(* number of lost updates.                                                 *)
(*                                                                         *)
(* The argument: the tuner's direction belongs to a value, its copy while  *)
(* it has one (Settling).  In phase, a value going down lies at most at    *)
(* High and one going up at most one above it, and the tuner's step        *)
(* outside the band exchanges the two.  Only the write of a stale copy     *)
(* pairs a value with a direction it does not belong to, and that moves    *)
(* the bound by one (no function), or cannot happen near it (bend and      *)
(* rotate, whose results are far enough from the top).                     *)
(***************************************************************************)
EXTENDS EngineControl, TLAPS

High == IF func = "none" THEN 98 + lost ELSE IF func = "bend" THEN 98 ELSE 100
Low == IF func = "none" THEN -lost ELSE 0

\* A bent engine has no lower bound once an update was lost.
Guarded == func = "bend" => lost = 0

InPhase(v, u) ==
    /\ v <= (IF u THEN High + 1 ELSE High)
    /\ Guarded => v >= (IF u THEN Low + 1 ELSE Low)

InRange(v) == v <= High + 1 /\ (Guarded => v >= Low)

\* What "Main" is about to write.
Result(v) ==
    /\ func = "none" => InRange(v) /\ (~ stale["Main"] => v = value)
    /\ func = "bend" => /\ v <= 98
                        /\ (lost = 0 /\ ~ stale["Main"]) => v >= 0 /\ (value >= 1 => v >= 1)
    /\ func = "rotate" => 1 <= v /\ v <= 100

MainCopy ==
    /\ pc["Main"] = "process" =>
         InRange(data["Main"]) /\ (~ stale["Main"] => data["Main"] = value)
    /\ pc["Main"] = "write" => Result(data["Main"])

Inv == TypeOK /\ InPhase(Settling, up) /\ InRange(value) /\ MainCopy

-----------------------------------------------------------------------------
(* Lemmas about the functions *)

\* The tuner keeps value and direction in phase (TasksFromConfig.cpp:70-83).
LEMMA TuneInPhase ==
    ASSUME TypeOK, NEW v \in Int, InPhase(v, up), NEW w \in Tune(v, up)
    PROVE  /\ w \in Int
           /\ InPhase(w, IF InBand(v) THEN up ELSE ~ up)
<1>1. High \in Int /\ High >= 98 /\ Low \in Int /\ Low <= 0
  BY DEF TypeOK, High, Low
<1>2. CASE InBand(v)
  <2>1. v \in 1 .. 98
    BY <1>2 DEF InBand
  <2>2. CASE up
    <3>1. w \in (v * 101) \div 100 .. ((v + 1) * 101 - 1) \div 100
      BY <1>2, <2>2 DEF Tune, Scale
    <3>2. w \in Int /\ w >= v /\ w <= v + 1
      BY <2>1, <3>1
    <3> QED
      BY <1>1, <1>2, <2>1, <2>2, <3>2 DEF InPhase
  <2>3. CASE ~ up
    <3>1. w \in (v * 99) \div 100 .. ((v + 1) * 99 - 1) \div 100
      BY <1>2, <2>3 DEF Tune, Scale
    <3>2. w \in Int /\ w >= v - 1 /\ w <= v
      BY <2>1, <3>1
    <3> QED
      BY <1>1, <1>2, <2>1, <2>3, <3>2 DEF InPhase
  <2> QED
    BY <2>2, <2>3
<1>3. CASE ~ InBand(v)
  <2>1. w = IF up THEN v - 1 ELSE v + 1
    BY <1>3 DEF Tune
  <2>2. up \in BOOLEAN
    BY DEF TypeOK
  <2>3. CASE up
    BY <1>1, <1>3, <2>1, <2>3 DEF InPhase
  <2>4. CASE ~ up
    BY <1>1, <1>3, <2>1, <2>4 DEF InPhase
  <2> QED
    BY <2>3, <2>4
<1> QED
  BY <1>2, <1>3

\* Bend cuts off at the top and does not make a value negative or zero
\* (NetFunctionFactory.h:30-36).
LEMMA BendBound ==
    ASSUME NEW v \in Int, v <= 99, NEW w \in Bend(v)
    PROVE  w \in Int /\ w <= 98 /\ (v >= 0 => w >= 0) /\ (v >= 1 => w >= 1)
<1>1. CASE v < 90
  <2>1. w \in (v * 105) \div 100 .. ((v + 1) * 105 - 1) \div 100
    BY <1>1 DEF Bend, Scale
  <2> QED
    BY <1>1, <2>1
<1>2. CASE v >= 90
  <2>1. w = v \div 2
    BY <1>2 DEF Bend
  <2> QED
    BY <1>2, <2>1
<1> QED
  BY <1>1, <1>2

\* Rotate's results are positive and at most 1 (NetFunctionFactory.h:42-48).
LEMMA RotateBound ==
    ASSUME NEW v \in Int, v <= 101, NEW w \in Rotate(v)
    PROVE  w \in Int /\ 1 <= w /\ w <= 100
<1>1. CASE v < 10
  BY <1>1 DEF Rotate
<1>2. CASE v >= 10
  <2> DEFINE lo == 60000 * v - v * v * v
             n == v + 1
             hi == 80000 * n - n * n * n
  <2>1. w \in lo \div 60000 .. hi \div 80000
    BY <1>2 DEF Rotate
  <2>2. v * v \in Int /\ v * v <= 101 * 101 /\ v * v * v = v * (v * v)
    BY <1>2
  <2>3. lo \in Int /\ lo >= 60000
    BY <1>2, <2>2
  <2>4. hi \in Int /\ hi < 80000 * 101
    <3>1. n * n \in Int /\ n * n >= 100 /\ n * n * n = n * (n * n)
      BY <1>2
    <3>2. CASE n <= 100
      BY <1>2, <3>1, <3>2
    <3>3. CASE n = 101 \/ n = 102
      BY <3>3
    <3> QED
      BY <1>2, <3>2, <3>3
  <2> HIDE DEF lo, hi
  <2> QED
    BY <2>1, <2>3, <2>4
<1> QED
  BY <1>1, <1>2

-----------------------------------------------------------------------------
(* The invariant *)

\* The initial states satisfy the invariant.
LEMMA InitInv == Init => Inv
<1> SUFFICES ASSUME Init PROVE Inv
  OBVIOUS
<1>1. TypeOK
  BY DEF Init, TypeOK, Task
<1>2. lost = 0
  BY DEF Init
<1>a. High \in Int /\ High >= 98
  BY <1>2 DEF High
<1>b. Low \in Int /\ Low <= 0
  BY <1>2 DEF Low
<1>3. Settling = 50 /\ value = 50
  BY DEF Init, Settling, Task
<1>4. MainCopy
  BY DEF Init, MainCopy, Task
<1> QED
  BY <1>1, <1>a, <1>b, <1>3, <1>4 DEF Inv, InPhase, InRange, Init

\* "Main" copies the value: nothing changes but its copy.
LEMMA ReadMain == ASSUME Inv, Read("Main") PROVE Inv'
<1>1. TypeOK'
  BY DEF Inv, Read, TypeOK, Task
<1>2. /\ pc' = [pc EXCEPT !["Main"] = "process"]
      /\ data' = [data EXCEPT !["Main"] = value]
      /\ UNCHANGED <<func, value, up, lost>>
  BY DEF Read
<1>3. Settling' = Settling /\ High' = High /\ Low' = Low /\ Guarded' = Guarded
  BY <1>2 DEF Inv, TypeOK, Task, Settling, High, Low, Guarded
<1>4. pc'["Main"] = "process" /\ data'["Main"] = value
  BY <1>2 DEF Inv, TypeOK, Task
<1> QED
  BY <1>1, <1>2, <1>3, <1>4 DEF Inv, InPhase, InRange, MainCopy

\* So does the tuner, whose copy is the value the direction belongs to.
LEMMA ReadEngines == ASSUME Inv, Read("Engines") PROVE Inv'
<1>1. TypeOK'
  BY DEF Inv, Read, TypeOK, Task
<1>2. /\ pc["Engines"] = "idle"
      /\ pc' = [pc EXCEPT !["Engines"] = "process"]
      /\ data' = [data EXCEPT !["Engines"] = value]
      /\ stale' = [stale EXCEPT !["Engines"] = FALSE]
      /\ UNCHANGED <<func, value, up, lost>>
  BY DEF Read
<1>3. Settling' = Settling /\ High' = High /\ Low' = Low /\ Guarded' = Guarded
  BY <1>2 DEF Inv, TypeOK, Task, Settling, High, Low, Guarded
<1>4. pc'["Main"] = pc["Main"] /\ data'["Main"] = data["Main"] /\ stale'["Main"] = stale["Main"]
  BY <1>2 DEF Inv, TypeOK, Task
<1> QED
  BY <1>1, <1>2, <1>3, <1>4 DEF Inv, InPhase, InRange, MainCopy, Result

\* The tuner turns its direction with the value it computes.
LEMMA TuneStep == ASSUME Inv, ProcessEngines PROVE Inv'
<1>1. PICK w \in Tune(data["Engines"], up) : data' = [data EXCEPT !["Engines"] = w]
  BY DEF ProcessEngines
<1>2. /\ pc["Engines"] = "process"
      /\ pc' = [pc EXCEPT !["Engines"] = "write"]
      /\ up' = (IF InBand(data["Engines"]) THEN up ELSE ~ up)
      /\ UNCHANGED <<func, value, stale, lost>>
  BY DEF ProcessEngines
<1>3. Settling = data["Engines"] /\ data["Engines"] \in Int
  BY <1>2 DEF Inv, TypeOK, Task, Settling
<1>4. w \in Int /\ InPhase(w, up')
  BY <1>1, <1>2, <1>3, TuneInPhase DEF Inv
<1>5. TypeOK'
  BY <1>1, <1>2, <1>4 DEF Inv, TypeOK, Task
<1>6. High' = High /\ Low' = Low /\ Guarded' = Guarded
  BY <1>2 DEF High, Low, Guarded
<1>7. Settling' = w
  BY <1>1, <1>2 DEF Inv, TypeOK, Task, Settling
<1>8. pc'["Main"] = pc["Main"] /\ data'["Main"] = data["Main"]
  BY <1>1, <1>2 DEF Inv, TypeOK, Task
<1> QED
  BY <1>2, <1>4, <1>5, <1>6, <1>7, <1>8 DEF Inv, InPhase, InRange, MainCopy, Result

\* What the net functions compute stays within their bounds.
LEMMA NetFunctionStep == ASSUME Inv, ProcessMain PROVE Inv'
<1>1. PICK w \in NetFunction(data["Main"]) : data' = [data EXCEPT !["Main"] = w]
  BY DEF ProcessMain
<1>2. /\ pc["Main"] = "process"
      /\ pc' = [pc EXCEPT !["Main"] = "write"]
      /\ UNCHANGED <<func, value, up, stale, lost>>
  BY DEF ProcessMain
<1> DEFINE v == data["Main"]
<1>3. v \in Int /\ InRange(v) /\ (~ stale["Main"] => v = value)
  BY <1>2 DEF Inv, TypeOK, Task, MainCopy
<1>4. w \in Int /\ Result(w)
  <2>1. CASE func = "none"
    BY <1>1, <1>3, <2>1 DEF NetFunction, Result
  <2>2. CASE func = "bend"
    <3>1. v <= 99 /\ (lost = 0 => v >= 0) /\ w \in Bend(v)
      BY <1>1, <1>3, <2>2 DEF InRange, High, Low, Guarded, NetFunction
    <3>2. w \in Int /\ w <= 98 /\ (v >= 0 => w >= 0) /\ (v >= 1 => w >= 1)
      BY <1>3, <3>1, BendBound
    <3> QED
      BY <1>3, <2>2, <3>1, <3>2 DEF Result
  <2>3. CASE func = "rotate"
    <3>1. v <= 101 /\ w \in Rotate(v)
      BY <1>1, <1>3, <2>3 DEF InRange, High, NetFunction
    <3> QED
      BY <1>3, <2>3, <3>1, RotateBound DEF Result
  <2> QED
    BY <2>1, <2>2, <2>3 DEF Inv, TypeOK
<1>5. TypeOK'
  BY <1>1, <1>2, <1>4 DEF Inv, TypeOK, Task
<1>6. Settling' = Settling /\ High' = High /\ Low' = Low /\ Guarded' = Guarded
  BY <1>1, <1>2 DEF Inv, TypeOK, Task, Settling, High, Low, Guarded
<1>7. pc'["Main"] = "write" /\ data'["Main"] = w
  BY <1>1, <1>2 DEF Inv, TypeOK, Task
<1> QED
  BY <1>2, <1>4, <1>5, <1>6, <1>7 DEF Inv, InPhase, InRange, MainCopy, Result

\* A further loss never narrows what is in phase or in range.
LEMMA LossWidens ==
    ASSUME TypeOK, func' = func, lost' \in {lost, lost + 1}
    PROVE  /\ High \in Int /\ High' \in Int /\ High' >= High
           /\ Low \in Int /\ Low' \in Int /\ Low' <= Low
           /\ Guarded' => Guarded
           /\ lost \in Nat /\ lost' \in Nat
<1>1. lost \in Nat
  BY DEF TypeOK
<1>2. CASE lost' = lost
  BY <1>1, <1>2 DEF High, Low, Guarded
<1>3. CASE lost' = lost + 1
  BY <1>1, <1>3 DEF High, Low, Guarded
<1> QED
  BY <1>2, <1>3

\* The tuner's write makes its copy the value; in phase before, in phase after.
LEMMA WriteEngines == ASSUME Inv, Write("Engines") PROVE Inv'
<1>1. /\ pc["Engines"] = "write"
      /\ pc' = [pc EXCEPT !["Engines"] = "idle"]
      /\ value' = data["Engines"]
      /\ data' = [data EXCEPT !["Engines"] = 0]
      /\ stale' = [stale EXCEPT !["Engines"] = FALSE, !["Main"] = pc["Main"] # "idle"]
      /\ lost' \in {lost, lost + 1}
      /\ func' = func /\ up' = up
  BY DEF Write, Other
<1>t. /\ pc' \in [Task -> {"idle", "process", "write"}]
      /\ data' \in [Task -> Int] /\ value' \in Int
  BY <1>1 DEF Inv, TypeOK, Task
<1>s. stale' \in [Task -> BOOLEAN]
  BY DEF Inv, Write, Other, TypeOK, Task
<1>n. lost' \in Nat
  BY <1>1 DEF Inv, TypeOK
<1>2. TypeOK'
  BY <1>1, <1>t, <1>s, <1>n DEF Inv, TypeOK
<1>3. Settling = value' /\ Settling' = value'
  BY <1>1 DEF Inv, TypeOK, Task, Settling
<1>4. /\ pc'["Main"] = pc["Main"] /\ data'["Main"] = data["Main"]
      /\ pc["Main"] # "idle" => stale'["Main"]
  BY <1>1 DEF Inv, TypeOK, Task
<1>5. InPhase(Settling, up)' /\ InRange(value)'
  BY <1>1, <1>2, <1>3, LossWidens DEF Inv, InPhase, InRange, TypeOK, Task
<1>6. data["Main"] \in Int
  BY DEF Inv, TypeOK, Task
<1>7. MainCopy'
  BY <1>1, <1>4, <1>6, LossWidens DEF Inv, MainCopy, Result, InRange
<1> QED
  BY <1>2, <1>5, <1>7 DEF Inv

\* The other write: it may pair its result with any direction.
LEMMA WriteMain == ASSUME Inv, Write("Main") PROVE Inv'
<1>1. /\ pc["Main"] = "write"
      /\ pc' = [pc EXCEPT !["Main"] = "idle"]
      /\ value' = data["Main"]
      /\ data' = [data EXCEPT !["Main"] = 0]
      /\ lost' = (IF stale["Main"] THEN lost + 1 ELSE lost)
      /\ func' = func /\ up' = up
  BY DEF Write, Other
<1>t. /\ pc' \in [Task -> {"idle", "process", "write"}]
      /\ data' \in [Task -> Int] /\ value' \in Int
  BY <1>1 DEF Inv, TypeOK, Task
<1>s. stale' \in [Task -> BOOLEAN]
  BY DEF Inv, Write, Other, TypeOK, Task
<1>n. lost' \in Nat
  BY <1>1 DEF Inv, TypeOK
<1>2. TypeOK'
  BY <1>1, <1>t, <1>s, <1>n DEF Inv, TypeOK
<1>3. /\ pc'["Main"] = "idle"
      /\ pc'["Engines"] = pc["Engines"] /\ data'["Engines"] = data["Engines"]
      /\ Settling' = IF pc["Engines"] = "idle" THEN value' ELSE Settling
      /\ value' \in Int /\ value \in Int /\ Settling \in Int
      /\ pc["Engines"] = "idle" => Settling = value
  BY <1>1 DEF Inv, TypeOK, Task, Settling
<1>4. lost' \in {lost, lost + 1} /\ func \in {"none", "bend", "rotate"} /\ lost \in Nat
  BY <1>1 DEF Inv, TypeOK
<1>5. Result(value')
  BY <1>1 DEF Inv, MainCopy
<1>6. pc["Engines"] = "idle" => InPhase(value, up)
  BY <1>3 DEF Inv
<1>7. InRange(value)'
  <2>1. CASE func = "none"
    BY <1>1, <1>3, <1>4, <1>5, <2>1 DEF Result, InRange, High, Low, Guarded
  <2>2. CASE func = "bend"
    BY <1>1, <1>3, <1>4, <1>5, <2>2 DEF Result, InRange, High, Low, Guarded
  <2>3. CASE func = "rotate"
    BY <1>1, <1>3, <1>4, <1>5, <2>3 DEF Result, InRange, High, Low, Guarded
  <2> QED
    BY <1>4, <2>1, <2>2, <2>3
<1>8. InPhase(Settling, up)'
  <2>1. CASE pc["Engines"] # "idle"
    BY <1>1, <1>2, <1>3, <1>4, <2>1, LossWidens DEF Inv, InPhase
  <2>2. CASE pc["Engines"] = "idle"
    <3>1. CASE func = "none"
      BY <1>1, <1>3, <1>4, <1>5, <1>6, <2>2, <3>1 DEF Result, InRange, InPhase, High, Low, Guarded
    <3>2. CASE func = "bend"
      BY <1>1, <1>3, <1>4, <1>5, <1>6, <2>2, <3>2 DEF Result, InPhase, High, Low, Guarded
    <3>3. CASE func = "rotate"
      BY <1>1, <1>3, <1>4, <1>5, <2>2, <3>3 DEF Result, InPhase, High, Low, Guarded
    <3> QED
      BY <1>4, <3>1, <3>2, <3>3
  <2> QED
    BY <2>1, <2>2
<1>9. MainCopy'
  BY <1>3 DEF MainCopy
<1> QED
  BY <1>2, <1>7, <1>8, <1>9 DEF Inv

\* Every step preserves the invariant.
LEMMA StepInv == Inv /\ [Next]_vars => Inv'
<1> SUFFICES ASSUME Inv, [Next]_vars PROVE Inv'
  OBVIOUS
<1>1. CASE UNCHANGED vars
  BY <1>1 DEF vars, Inv, TypeOK, Settling, InPhase, InRange, High, Low, Guarded, MainCopy, Result
<1>2. CASE Engines
  BY <1>2, ReadEngines, TuneStep, WriteEngines DEF Engines
<1>3. CASE Main
  BY <1>3, ReadMain, NetFunctionStep, WriteMain DEF Main
<1> QED
  BY <1>1, <1>2, <1>3 DEF Next

\* The inductive invariant holds in every reachable state (TasksFromConfig.cpp:27-85).
THEOREM Invariance == Spec => []Inv
  BY InitInv, StepInv, PTL DEF Spec

\* An engine without function leaves the band by no more than a hundredth for each
\* update lost, however many there are (InteractiveTask.h:106, TasksFromConfig.cpp:70-83).
THEOREM DriftIsPaidFor == Spec => []DriftNeedsLosses
<1>1. Inv => DriftNeedsLosses
  BY DEF Inv, TypeOK, InRange, High, Low, Guarded, DriftNeedsLosses
<1> QED
  BY <1>1, Invariance, PTL

\* Bend and rotate bound their engines whatever is lost
\* (NetFunctionFactory.h:30-48).
THEOREM FunctionsAreBounds == Spec => []FunctionsBound
<1>1. Inv => FunctionsBound
  BY DEF Inv, TypeOK, InRange, High, Low, Guarded, FunctionsBound
<1> QED
  BY <1>1, Invariance, PTL

\* Out of phase once, out of phase until another update is lost
\* (TasksFromConfig.cpp:77-82).
THEOREM NoRecovery == Spec => OffPhaseStays
<1>1. ASSUME Inv, [Next]_vars, func = "none", OffPhase, lost' = lost PROVE OffPhase'
  <2>t. /\ TypeOK /\ up \in BOOLEAN /\ Settling \in Int
        /\ value \in Int /\ data["Engines"] \in Int /\ data["Main"] \in Int
    BY <1>1 DEF Inv, TypeOK, Settling, Task
  <2>1. ASSUME Settling' = Settling, up' = up PROVE OffPhase'
    BY <1>1, <2>1 DEF OffPhase
  <2>2. CASE Read("Engines")
    BY <2>1, <2>2, <2>t DEF Read, Settling, TypeOK, Task
  <2>3. CASE Read("Main")
    BY <2>1, <2>3, <2>t DEF Read, Settling, TypeOK, Task
  <2>4. CASE ProcessMain
    BY <2>1, <2>4, <2>t DEF ProcessMain, Settling, TypeOK, Task
  <2>5. CASE Write("Engines")
    BY <2>1, <2>5, <2>t DEF Write, Other, Settling, TypeOK, Task
  <2>6. CASE Write("Main")
    <3>1. ~ stale["Main"] /\ value' = data["Main"] /\ pc["Main"] = "write" /\ up' = up
      BY <1>1, <2>6, <2>t DEF Write, TypeOK
    <3>2. value' = value
      BY <1>1, <3>1 DEF Inv, MainCopy, Result
    <3>3. Settling' = Settling
      BY <2>6, <2>t, <3>2 DEF Write, Other, Settling, TypeOK, Task
    <3> QED
      BY <2>1, <3>1, <3>3
  <2>7. CASE ProcessEngines
    <3>1. PICK w \in Tune(data["Engines"], up) : data' = [data EXCEPT !["Engines"] = w]
      BY <2>7 DEF ProcessEngines
    <3>2. Settling = data["Engines"] /\ Settling' = w
      BY <2>7, <2>t, <3>1 DEF ProcessEngines, Settling, TypeOK, Task
    <3>3. ~ InBand(Settling)
      BY <1>1, <2>t DEF OffPhase, InBand
    <3>4. up' = (~ up) /\ w = IF up THEN Settling - 1 ELSE Settling + 1
      BY <2>7, <3>1, <3>2, <3>3 DEF ProcessEngines, Tune
    <3>5. CASE up
      <4>1. up' = FALSE /\ Settling' = Settling - 1 /\ (Settling >= 100 \/ Settling <= 0)
        BY <1>1, <3>2, <3>4, <3>5 DEF OffPhase
      <4> QED
        BY <2>t, <4>1 DEF OffPhase
    <3>6. CASE ~ up
      <4>1. up' = TRUE /\ Settling' = Settling + 1 /\ (Settling >= 99 \/ Settling <= -1)
        BY <1>1, <3>2, <3>4, <3>6 DEF OffPhase
      <4> QED
        BY <2>t, <4>1 DEF OffPhase
    <3> QED
      BY <3>5, <3>6
  <2>8. CASE UNCHANGED vars
    BY <2>1, <2>8 DEF vars, Settling
  <2> QED
    BY <1>1, <2>2, <2>3, <2>4, <2>5, <2>6, <2>7, <2>8 DEF Next, Engines, Main
<1> QED
  BY <1>1, Invariance, PTL DEF Spec, OffPhaseStays

\* The model is well-typed.
THEOREM TypeCorrect == Spec => []TypeOK
<1>1. Inv => TypeOK
  BY DEF Inv
<1> QED
  BY <1>1, Invariance, PTL

=============================================================================
