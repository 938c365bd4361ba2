----------------------------- MODULE EngineControl -----------------------------
(***************************************************************************)
(* The value of one engine under the two tasks that control it             *)
(* (execute_auto_tune_function and execute_net_function in                 *)
(* app/TasksFromConfig.cpp, Bend and Rotate in app/NetFunctionFactory.h,   *)
(* InteractiveTask::read, process and write).                              *)
(*                                                                         *)
(* Each cycle of "Engines" (the tuner) and of "Main" (the net functions)   *)
(* copies the component, computes, and writes the component back: a write  *)
(* of the other task in between is lost.  The tuner's direction, however,  *)
(* lives in a table of its own and is turned at once.  Engines do not      *)
(* influence each other: one is enough.                                    *)
(*                                                                         *)
(* Values are hundredths, rounded down: v stands for [v/100, (v+1)/100).   *)
(* All thresholds of the code are whole hundredths and so are the steps    *)
(* outside the band; a multiplication may end in any of the hundredths     *)
(* its exact result can lie in.                                            *)
(***************************************************************************)
EXTENDS Integers

CONSTANTS
    MaxLost,    \* bound: with this many updates lost the cycles overlap no more
    Depth       \* bound: "Main" starts no cycle on a value below -Depth

ASSUME BoundsAssumption == MaxLost \in Nat /\ Depth \in Nat

VARIABLES
    func,       \* the function execute_net_function finds for the engine
    value,      \* its value in component "Engines"
    up,         \* inc_dec_hash: the tuner's direction
    pc,         \* pc[t]: where task t is in its cycle
    data,       \* data[t]: its copy of the value; 0 while there is none
    stale,      \* stale[t]: the other task has written since t read (history)
    lost        \* writes that were based on a stale copy (history)

vars == <<func, value, up, pc, data, stale, lost>>

Task == {"Engines", "Main"}

Init ==
    /\ func \in {"none", "bend", "rotate"}
    /\ value = 50
    /\ up = TRUE
    /\ pc = [t \in Task |-> "idle"]
    /\ data = [t \in Task |-> 0]
    /\ stale = [t \in Task |-> FALSE]
    /\ lost = 0

-----------------------------------------------------------------------------
\* v times p percent
Scale(v, p) == (v * p) \div 100 .. ((v + 1) * p - 1) \div 100

\* value < 0.99f && value > 0.01
InBand(v) == 1 <= v /\ v <= 98

\* Faulty variants: the direction is turned before the step, not after it; the side
\* of the band decides.
Tune_TurnedFirst(v, u) ==
    IF InBand(v) THEN Scale(v, IF u THEN 101 ELSE 99)
                 ELSE {IF u THEN v + 1 ELSE v - 1}
Tune_Inward(v, u) ==
    IF InBand(v) THEN Scale(v, IF u THEN 101 ELSE 99)
                 ELSE {IF v > 98 THEN v - 1 ELSE v + 1}

\* execute_auto_tune_function: inside the band on in the direction u, outside it one
\* hundredth against it.
Tune(v, u) ==
    IF InBand(v) THEN Scale(v, IF u THEN 101 ELSE 99)
                 ELSE {IF u THEN v - 1 ELSE v + 1}

\* Faulty variant: the value is not halved.
Bend_On(v) == Scale(v, 105)

Bend(v) == IF v < 90 THEN Scale(v, 105) ELSE {v \div 2}

\* sin x lies between x - x^3/6 and x - x^3/8 for x in (0.1, 1.1]
Rotate(v) ==
    IF v >= 10
      THEN (60000 * v - v * v * v) \div 60000
             .. (80000 * (v + 1) - (v + 1) * (v + 1) * (v + 1)) \div 80000
      ELSE {100}

\* execute_net_function
NetFunction(v) ==
    CASE func = "bend" -> Bend(v)
      [] func = "rotate" -> Rotate(v)
      [] OTHER -> {v}

-----------------------------------------------------------------------------
Other(t) == IF t = "Main" THEN "Engines" ELSE "Main"

\* read: get_component_db copies the value, without the component's mutex.
Read(t) ==
    /\ pc[t] = "idle"
    /\ lost < MaxLost \/ pc[Other(t)] = "idle"
    /\ t = "Main" => value >= -Depth
    /\ pc' = [pc EXCEPT ![t] = "process"]
    /\ data' = [data EXCEPT ![t] = value]
    /\ stale' = [stale EXCEPT ![t] = FALSE]
    /\ UNCHANGED <<func, value, up, lost>>

\* process of the tuner: the copy changes, and the direction if it is outside.
ProcessEngines ==
    /\ pc["Engines"] = "process"
    /\ pc' = [pc EXCEPT !["Engines"] = "write"]
    /\ \E v \in Tune(data["Engines"], up) : data' = [data EXCEPT !["Engines"] = v]
    /\ up' = (IF InBand(data["Engines"]) THEN up ELSE ~ up)
    /\ UNCHANGED <<func, value, stale, lost>>

ProcessMain ==
    /\ pc["Main"] = "process"
    /\ pc' = [pc EXCEPT !["Main"] = "write"]
    /\ \E v \in NetFunction(data["Main"]) : data' = [data EXCEPT !["Main"] = v]
    /\ UNCHANGED <<func, value, up, stale, lost>>

\* write: set_component_db; the copy is dead until the next read.
Write(t) ==
    /\ pc[t] = "write"
    /\ pc' = [pc EXCEPT ![t] = "idle"]
    /\ value' = data[t]
    /\ data' = [data EXCEPT ![t] = 0]
    /\ stale' = [stale EXCEPT ![t] = FALSE, ![Other(t)] = pc[Other(t)] # "idle"]
    /\ lost' = IF stale[t] THEN lost + 1 ELSE lost
    /\ UNCHANGED <<func, up>>

Engines == Read("Engines") \/ ProcessEngines \/ Write("Engines")
Main == Read("Main") \/ ProcessMain \/ Write("Main")
Next == Engines \/ Main

\* Both threads are scheduled; the order of their cycles is left open, also that
\* "Engines" makes ten of them for each one of "Main".
Spec == Init /\ [][Next]_vars
FairSpec == Spec /\ WF_vars(Engines) /\ WF_vars(Main)

-----------------------------------------------------------------------------
TypeOK ==
    /\ func \in {"none", "bend", "rotate"}
    /\ value \in Int
    /\ up \in BOOLEAN
    /\ pc \in [Task -> {"idle", "process", "write"}]
    /\ data \in [Task -> Int]
    /\ stale \in [Task -> BOOLEAN]
    /\ lost \in Nat

\* Every excursion from the band is paid for by a lost update: an engine without a
\* function is never further above 0.99 or below 0 than a hundredth per loss, so
\* that without a loss the tuner alone keeps it in [0, 1).
DriftNeedsLosses == func = "none" => -lost <= value /\ value <= 99 + lost

\* A function of the engine cuts excursions off at the top, whatever is lost: a
\* bent engine stays below 1, a rotated one (which is set to 1) below 1.02 and
\* never negative.  Only the loss of an update drives a bent one below 0.
FunctionsBound ==
    /\ func = "bend" => value <= 99 /\ (lost = 0 => value >= 0)
    /\ func = "rotate" => 0 <= value /\ value <= 101

\* The value the tuner's direction belongs to: its copy while it has one.
Settling == IF pc["Engines"] = "idle" THEN value ELSE data["Engines"]

\* The tuner walks on the spot: outside the band, and the direction is the one
\* that takes the next step out.
OffPhase ==
    \/ Settling >= (IF up THEN 100 ELSE 99)
    \/ Settling <= (IF up THEN 0 ELSE -1)

\* An engine without a function never recovers by itself: once direction and value
\* are out of phase they remain so, at least until another update is lost.
OffPhaseStays ==
    [][ (func = "none" /\ OffPhase /\ lost' = lost) => OffPhase' ]_vars

\* As long as no update is lost the engine comes back into the band each time it
\* leaves it, also when "rotate" has thrown it out on the side the tuner came from.
ExcursionEnds == ~ InBand(value) ~> (InBand(value) \/ lost > 0)

=============================================================================
