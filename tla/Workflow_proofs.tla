-------------------------- MODULE Workflow_proofs --------------------------
(* Proofs about Workflow, for every file and every set of keys and motors. *)
EXTENDS Workflow, TLAPS

\* What the loaded tables have to do with the engines' database.
Tables ==
    /\ phase \in {"init", "loading", "prepared", "running", "threw"}
    /\ \A k \in Key : tasks[k].motors \subseteq gpMotors
    /\ \A k \in Key : actions[k].motors \subseteq netMotors
    /\ phase \in {"init", "loading"} => queued = {}
    /\ \A q \in queued : q[2] \subseteq gpMotors
    /\ phase # "running" => motorsOf = [f \in Function |-> {}]
    /\ \A f \in Function : motorsOf[f] \subseteq netMotors
    /\ active \subseteq Function
    /\ phase = "running" => engines = gpMotors \cup netMotors

\* The tables have a component per key.
Shapes ==
    /\ DOMAIN tasks = Key /\ DOMAIN actions = Key
    /\ DOMAIN applied = Motor

\* An engine is subject to what the dispatch calls for it, and before the tasks
\* run to nothing.
Dispatched ==
    /\ phase # "running" => \A m \in Motor : applied[m] = {}
    /\ phase = "running" => \A m \in Motor : applied[m] \subseteq Called(m)

Inv == Shapes /\ Tables /\ Dispatched

\* Reading an entry keeps the tables together.
LEMMA LoadEntryStep ==
    ASSUME Inv, LoadTask \/ LoadAction
    PROVE  Inv'
<1> DEFINE e == Head(config)
<1>1. phase = "loading" /\ phase' = "loading"
      /\ UNCHANGED <<queued, active, motorsOf, engines, applied>>
  BY DEF LoadTask, LoadAction, Reading
<1>2. Shapes'
  BY DEF Inv, Shapes, LoadTask, LoadAction, Store
<1>3. Tables'
  <2>1. CASE LoadTask
    <3>1. /\ gpMotors' = gpMotors \cup e.motors
          /\ tasks' = [tasks EXCEPT ![e.key] = [motors |-> gpMotors \cup e.motors, action |-> "task"]]
          /\ UNCHANGED <<netMotors, actions>>
      BY <2>1 DEF LoadTask, Gather, Store
    <3> HIDE DEF e
    <3>2. \A k \in Key : tasks'[k].motors \subseteq gpMotors'
      BY <3>1 DEF Inv, Shapes, Tables
    <3> QED
      BY <1>1, <3>1, <3>2 DEF Inv, Tables
  <2>2. CASE LoadAction
    <3>1. /\ netMotors' = netMotors \cup e.motors
          /\ \/ actions' = actions
             \/ actions' = [actions EXCEPT ![e.key] =
                              [motors |-> netMotors \cup e.motors, action |-> e.action]]
          /\ UNCHANGED <<gpMotors, tasks>>
      BY <2>2 DEF LoadAction, Gather
    <3> HIDE DEF e
    <3>2. \A k \in Key : actions'[k].motors \subseteq netMotors'
      BY <3>1 DEF Inv, Shapes, Tables
    <3>3. \A f \in Function : motorsOf'[f] \subseteq netMotors'
      BY <1>1, <3>1 DEF Inv, Tables
    <3> QED
      BY <1>1, <3>1, <3>2, <3>3 DEF Inv, Tables
  <2> QED
    BY <2>1, <2>2
<1>4. Dispatched'
  BY <1>1 DEF Inv, Dispatched
<1> QED
  BY <1>2, <1>3, <1>4 DEF Inv

\* Pushing the elements and making the functions does, too.
LEMMA PrepareStep == ASSUME Inv, Prepare PROVE Inv'
<1>1. /\ phase = "loading" /\ phase' = "prepared"
      /\ queued' = {<<k, tasks[k].motors>> : k \in {j \in Key : tasks[j] # Absent}}
      /\ active' = active \cup ({actions[k].action : k \in Key} \cap Function)
      /\ UNCHANGED <<gpMotors, netMotors, tasks, actions, motorsOf, engines, applied>>
  BY DEF Prepare, Made
<1>2. \A q \in queued' : q[2] \subseteq gpMotors'
  BY <1>1 DEF Inv, Tables
<1>3. Tables'
  BY <1>1, <1>2 DEF Inv, Tables
<1>4. Shapes' /\ Dispatched'
  BY <1>1 DEF Inv, Shapes, Dispatched
<1> QED
  BY <1>3, <1>4 DEF Inv

\* So does the start of the tasks, which fixes the motors of every function.
LEMMA StartStep == ASSUME Inv, Start PROVE Inv'
<1>1. /\ phase = "prepared" /\ phase' = "running"
      /\ motorsOf' = [f \in Function |-> motorsOf[f] \cup
                        UNION {actions[k].motors : k \in {j \in Configured : actions[j].action = f}}]
      /\ engines' = gpMotors \cup netMotors
      /\ UNCHANGED <<gpMotors, netMotors, tasks, actions, queued, active, applied>>
  BY DEF Start, MotorsFor, AllMotors
<1>2. \A f \in Function : motorsOf'[f] \subseteq netMotors'
  <2> SUFFICES ASSUME NEW f \in Function, NEW m \in motorsOf'[f] PROVE m \in netMotors
    BY <1>1
  <2>1. CASE m \in motorsOf[f]
    BY <2>1 DEF Inv, Tables
  <2>2. CASE m \notin motorsOf[f]
    <3>1. PICK k \in Configured : m \in actions[k].motors
      BY <1>1, <2>2
    <3> QED
      BY <3>1 DEF Inv, Tables, Configured
  <2> QED
    BY <2>1, <2>2
<1>3. Tables'
  BY <1>1, <1>2 DEF Inv, Tables
<1>4. Shapes' /\ Dispatched'
  BY <1>1 DEF Inv, Shapes, Dispatched
<1> QED
  BY <1>3, <1>4 DEF Inv

\* A cycle applies to an engine what the dispatch calls for it.
LEMMA ExecuteStep == ASSUME Inv, NEW m \in Motor, Execute(m) PROVE Inv'
<1>1. /\ phase = "running" /\ phase' = "running"
      /\ applied' = [applied EXCEPT ![m] = @ \cup Called(m)]
      /\ UNCHANGED <<gpMotors, netMotors, tasks, actions, queued, active, motorsOf, engines>>
  BY DEF Execute
<1>2. \A n \in Motor : Called(n)' = Called(n)
  BY <1>1 DEF Called, First, Handles
<1>3. \A n \in Motor : applied'[n] \subseteq Called(n)'
  <2> SUFFICES ASSUME NEW n \in Motor PROVE applied'[n] \subseteq Called(n)
    BY <1>2
  <2>1. applied[n] \subseteq Called(n)
    BY <1>1 DEF Inv, Dispatched
  <2> QED
    BY <1>1, <2>1 DEF Inv, Shapes
<1>4. Tables' /\ Shapes'
  BY <1>1 DEF Inv, Tables, Shapes
<1> QED
  BY <1>1, <1>3, <1>4 DEF Inv, Dispatched

\* Steps that leave the tables alone.
LEMMA OtherStep ==
    ASSUME Inv, LoadFile \/ LoadThrows \/ StartThrows \/ UNCHANGED vars
    PROVE  Inv'
<1>1. CASE UNCHANGED vars
  BY <1>1 DEF vars, Inv, Shapes, Tables, Dispatched, Called, First, Handles
<1>2. CASE LoadFile \/ LoadThrows \/ StartThrows
  <2>1. /\ UNCHANGED <<gpMotors, netMotors, tasks, actions, queued, active, motorsOf, engines, applied>>
        /\ phase # "running" /\ phase' \in {"loading", "threw"}
        /\ phase' = "loading" => phase = "init"
    BY <1>2 DEF LoadFile, LoadThrows, StartThrows, Reading
  <2> QED
    BY <2>1 DEF Inv, Shapes, Tables, Dispatched
<1> QED
  BY <1>1, <1>2

\* The invariant holds of every run.
LEMMA InvHolds == Spec => []Inv
<1>1. Init => Inv
  BY DEF Init, Inv, Shapes, Tables, Dispatched, Absent
<1>2. Inv /\ [Next]_vars => Inv'
  BY LoadEntryStep, PrepareStep, StartStep, ExecuteStep, OtherStep DEF Next, Load, Stopped
<1> QED
  BY <1>1, <1>2, PTL DEF Spec

\* Every motor a task or a function has is in the engines' database
\* (TasksFromConfig.cpp:176-185), for every file.
THEOREM AllCovered == Spec => []EnginesCoverAll
<1>1. Inv => EnginesCoverAll
  BY DEF Inv, Tables, EnginesCoverAll
<1> QED
  BY <1>1, InvHolds, PTL

\* The functions have different ranks: the first in map order is unique.
LEMMA FirstIsUnique ==
    ASSUME NEW m \in Motor, NEW f \in Called(m), NEW g \in Called(m)
    PROVE  f = g
<1>1. f \in Function /\ g \in Function /\ Rank[f] <= Rank[g] /\ Rank[g] <= Rank[f]
  BY DEF Called, First
<1> QED
  BY <1>1 DEF Function, Rank

\* No engine is subject to two functions (TasksFromConfig.cpp:46-54).
THEOREM OneFunction == Spec => []OneFunctionPerEngine
<1>1. Inv => OneFunctionPerEngine
  <2> SUFFICES ASSUME Inv, NEW m \in Motor, NEW f \in applied[m], NEW g \in applied[m] PROVE f = g
    BY DEF OneFunctionPerEngine
  <2>1. f \in Called(m) /\ g \in Called(m)
    BY DEF Inv, Tables, Dispatched
  <2> QED
    BY <2>1, FirstIsUnique
<1> QED
  BY <1>1, InvHolds, PTL

-----------------------------------------------------------------------------
(* What the tables have to do with the file *)

\* The entries of the file that have been read.
Done == Len(file) - Len(config)

\* The last task entry of key k among the first n.
LastUpTo(k, n) ==
    {i \in EntriesOf("task") : i <= n /\ file[i].key = k
        /\ \A j \in EntriesOf("task") : j <= n /\ file[j].key = k => j <= i}

TaskRow == [motors : SUBSET Motor, action : {"task"}]
ActionRow == [motors : SUBSET Motor, action : Function \cup {"unknown"}]

Typed ==
    /\ file \in Seq(Entry) /\ config \in Seq(Entry)
    /\ phase \in {"init", "loading", "prepared", "running", "threw"}
    /\ tasks \in [Key -> TaskRow \cup {Absent}]
    /\ actions \in [Key -> ActionRow \cup {Absent}]

\* Nothing was loaded: main has not come so far, or the file could not be parsed.
Untouched ==
    /\ config = <<>>
    /\ gpMotors = {}
    /\ \A k \in Key : tasks[k] = Absent /\ actions[k] = Absent

\* The tables stand for the entries read, and config holds the others.
Follows ==
    /\ Done \in 0 .. Len(file)
    /\ \A j \in 1 .. Len(config) : config[j] = file[Done + j]
    /\ gpMotors = Union("task", Done)
    /\ \A k \in Key : tasks[k] # Absent => LastUpTo(k, Done) # {}
    /\ \A i \in EntriesOf("task") : i <= Done => tasks[file[i].key] # Absent
    /\ \A k \in Key : \A i \in LastUpTo(k, Done) :
         tasks[k] # Absent /\ tasks[k].motors = Union("task", i)
    /\ \A k \in Configured : \E i \in EntriesOf("action") : file[i].action = actions[k].action

\* Why a program stops.
BadFile ==
    \E i \in DOMAIN file : \/ ~ file[i].complete
                           \/ file[i].kind = "action" /\ file[i].action = "unknown"

Stages ==
    /\ phase = "init" => Untouched
    /\ phase # "init" => Untouched \/ Follows
    /\ phase \in {"init", "loading"} => active = {}
    /\ phase \in {"prepared", "running"} =>
         /\ config = <<>>
         /\ queued = {<<k, tasks[k].motors>> : k \in {j \in Key : tasks[j] # Absent}}
         /\ active = {actions[k].action : k \in Key} \cap Function
    /\ phase = "threw" => BadFile

FileInv == Typed /\ Stages

\* One more entry of the kind adds its motors; one of the other kind adds nothing.
LEMMA UnionStep ==
    ASSUME file \in Seq(Entry), NEW n \in Nat, n + 1 \in DOMAIN file, NEW kind
    PROVE  Union(kind, n + 1) = IF file[n + 1].kind = kind
                                THEN Union(kind, n) \cup file[n + 1].motors
                                ELSE Union(kind, n)
<1> DEFINE Upto(b) == {j \in EntriesOf(kind) : j <= b}
<1>1. \A j \in EntriesOf(kind) : j \in Int
  BY DEF EntriesOf
<1>2. CASE file[n + 1].kind = kind
  <2>1. Upto(n + 1) = Upto(n) \cup {n + 1}
    BY <1>1, <1>2 DEF EntriesOf
  <2> QED
    BY <1>2, <2>1 DEF Union
<1>3. CASE file[n + 1].kind # kind
  <2>1. Upto(n + 1) = Upto(n)
    BY <1>1, <1>3 DEF EntriesOf
  <2> QED
    BY <1>3, <2>1 DEF Union
<1> QED
  BY <1>2, <1>3

\* The next entry is the last one of its key, and changes nothing for other keys.
LEMMA LastStep ==
    ASSUME file \in Seq(Entry), NEW n \in Nat, n + 1 \in DOMAIN file, NEW k \in Key
    PROVE  LastUpTo(k, n + 1) = IF file[n + 1].kind = "task" /\ file[n + 1].key = k
                                THEN {n + 1} ELSE LastUpTo(k, n)
<1>1. \A j \in EntriesOf("task") : j \in Int /\ (j <= n + 1 <=> (j <= n \/ j = n + 1))
  BY DEF EntriesOf
<1>2. CASE file[n + 1].kind = "task" /\ file[n + 1].key = k
  <2>1. n + 1 \in EntriesOf("task")
    BY <1>2 DEF EntriesOf
  <2> QED
    BY <1>1, <1>2, <2>1 DEF LastUpTo
<1>3. CASE ~ (file[n + 1].kind = "task" /\ file[n + 1].key = k)
  <2> DEFINE Read(j, m) == j <= m /\ file[j].key = k
  <2>1. \A j \in EntriesOf("task") : Read(j, n + 1) <=> Read(j, n)
    BY <1>1, <1>3 DEF EntriesOf
  <2>2. \A m, i : i \in LastUpTo(k, m) <=>
          /\ i \in EntriesOf("task") /\ Read(i, m)
          /\ \A j \in EntriesOf("task") : Read(j, m) => j <= i
    BY Zenon DEF LastUpTo
  <2> HIDE DEF Read
  <2>3. \A i : i \in LastUpTo(k, n + 1) <=> i \in LastUpTo(k, n)
    BY <2>1, <2>2
  <2>4. LastUpTo(k, n + 1) = LastUpTo(k, n)
    BY <2>3
  <2> QED
    BY <1>3, <2>4
<1> QED
  BY <1>2, <1>3

\* When an entry is to be read, config begins with the entry after those read.
LEMMA NextEntry ==
    ASSUME FileInv, Reading
    PROVE  /\ Follows /\ Done \in Nat /\ Done + 1 \in DOMAIN file
           /\ Head(config) = file[Done + 1] /\ Head(config) \in Entry
<1>1. Follows /\ config # <<>> /\ config \in Seq(Entry) /\ file \in Seq(Entry)
  BY DEF FileInv, Typed, Stages, Untouched, Reading
<1>2. Len(config) \in Nat \ {0} /\ Len(file) \in Nat
  BY <1>1
<1>3. Done \in Nat /\ Done + 1 \in 1 .. Len(file)
  BY <1>1, <1>2 DEF Follows, Done
<1> QED
  BY <1>1, <1>2, <1>3 DEF Follows

\* A turn of the loop takes the entry off config.
LEMMA TakeEntry ==
    ASSUME FileInv, Reading, config' = Tail(config), file' = file
    PROVE  /\ config' \in Seq(Entry) /\ Done' = Done + 1 /\ Done' \in 0 .. Len(file')
           /\ \A j \in 1 .. Len(config') : config'[j] = file'[Done' + j]
<1>1. Follows /\ Done \in Nat /\ config \in Seq(Entry) /\ config # <<>> /\ file \in Seq(Entry)
  BY NextEntry DEF FileInv, Typed, Reading
<1>2. /\ config' \in Seq(Entry) /\ Len(config') = Len(config) - 1
      /\ Len(config) \in Nat \ {0} /\ Len(file) \in Nat
      /\ \A j \in 1 .. Len(config') : config'[j] = config[j + 1]
  BY <1>1
<1>3. Done' = Done + 1 /\ Done' \in 0 .. Len(file')
  BY <1>1, <1>2 DEF Follows, Done
<1>4. ASSUME NEW j \in 1 .. Len(config') PROVE config'[j] = file'[Done' + j]
  <2>1. j + 1 \in 1 .. Len(config) /\ config[j + 1] = file[Done + (j + 1)]
    BY <1>1, <1>2 DEF Follows
  <2>2. Done + (j + 1) = Done' + j
    BY <1>1, <1>3
  <2> QED
    BY <1>2, <2>1, <2>2
<1> QED
  BY <1>2, <1>3, <1>4

\* A task entry adds its motors and is the last of its key.
LEMMA LoadTaskStep == ASSUME FileInv, LoadTask PROVE FileInv'
<1> DEFINE e == Head(config)
           n == Done
<1>1. /\ Reading /\ phase = "loading" /\ e.kind = "task"
      /\ gpMotors' = gpMotors \cup e.motors
      /\ tasks' = [tasks EXCEPT ![e.key] = [motors |-> gpMotors \cup e.motors, action |-> "task"]]
      /\ config' = Tail(config)
      /\ UNCHANGED <<file, phase, actions, queued, active>>
  BY DEF LoadTask, Gather, Store, Reading
<1>2. Follows /\ n \in Nat /\ n + 1 \in DOMAIN file /\ e = file[n + 1] /\ e \in Entry
  BY <1>1, NextEntry
<1>3. /\ config' \in Seq(Entry) /\ Done' = n + 1 /\ Done' \in 0 .. Len(file')
      /\ \A j \in 1 .. Len(config') : config'[j] = file'[Done' + j]
  BY <1>1, TakeEntry
<1>4. /\ \A kind, m : Union(kind, m)' = Union(kind, m)
      /\ \A k, m : LastUpTo(k, m)' = LastUpTo(k, m)
      /\ \A kind : EntriesOf(kind)' = EntriesOf(kind)
  BY <1>1 DEF Union, LastUpTo, EntriesOf
<1>5. gpMotors' = Union("task", n + 1)
  <2>1. Union("task", n + 1) = Union("task", n) \cup e.motors
    BY <1>1, <1>2, UnionStep DEF FileInv, Typed
  <2> QED
    BY <1>1, <1>2, <2>1 DEF Follows
<1>6. \A k \in Key : LastUpTo(k, n + 1) = IF k = e.key THEN {n + 1} ELSE LastUpTo(k, n)
  BY <1>1, <1>2, LastStep DEF FileInv, Typed
<1>7. e.key \in Key /\ e.motors \subseteq Motor
  BY <1>2 DEF Entry
<1> HIDE DEF e, n
<1>8. Typed'
  <2>1. gpMotors \subseteq Motor
    <3>1. Union("task", n) \subseteq Motor
      <4>1. \A i \in DOMAIN file : file[i].motors \subseteq Motor
        <5>1. \A i \in DOMAIN file : file[i] \in Entry
          BY DEF FileInv, Typed
        <5> QED
          BY <5>1 DEF Entry
      <4> QED
        BY <4>1 DEF Union, EntriesOf
    <3> QED
      BY <1>2, <3>1 DEF Follows, n
  <2>2. [motors |-> gpMotors \cup e.motors, action |-> "task"] \in TaskRow
    BY <1>7, <2>1 DEF TaskRow
  <2>3. tasks' \in [Key -> TaskRow \cup {Absent}]
    BY <1>1, <2>2 DEF FileInv, Typed
  <2> QED
    BY <1>1, <1>3, <2>3 DEF FileInv, Typed
<1>9. Follows'
  <2>1. \A k \in Key : tasks'[k] = IF k = e.key THEN [motors |-> gpMotors', action |-> "task"]
                                   ELSE tasks[k]
    BY <1>1 DEF FileInv, Typed
  <2>2. [motors |-> gpMotors', action |-> "task"] # Absent
    BY DEF Absent
  <2>3. \A k \in Key : tasks'[k] # Absent => LastUpTo(k, n + 1) # {}
    BY <1>2, <1>6, <2>1 DEF Follows, n
  <2>4. \A k \in Key : \A i \in LastUpTo(k, n + 1) :
          tasks'[k] # Absent /\ tasks'[k].motors = Union("task", i)
    BY <1>2, <1>5, <1>6, <2>1, <2>2 DEF Follows, n
  <2>5. \A k \in Configured' : \E i \in EntriesOf("action")' : file'[i].action = actions'[k].action
    BY <1>1, <1>2, <1>4 DEF Follows, Configured
  <2>6. ASSUME NEW i \in EntriesOf("task"), i <= n + 1 PROVE tasks'[file[i].key] # Absent
    <3>1. i \in Int /\ n \in Int /\ file[i].key \in Key
      <4>1. i \in DOMAIN file /\ file \in Seq(Entry)
        BY DEF EntriesOf, FileInv, Typed
      <4>2. i \in Int /\ file[i] \in Entry
        BY <4>1
      <4> QED
        BY <1>2, <4>2 DEF Entry
    <3>2. CASE i <= n
      BY <1>2, <2>1, <2>2, <3>1, <3>2 DEF Follows, n
    <3>3. CASE i = n + 1
      BY <1>2, <2>1, <2>2, <3>1, <3>3
    <3> QED
      BY <2>6, <3>1, <3>2, <3>3
  <2> QED
    BY <1>1, <1>3, <1>4, <1>5, <2>3, <2>4, <2>5, <2>6 DEF Follows
<1>10. Stages'
  BY <1>1, <1>9 DEF FileInv, Stages
<1> QED
  BY <1>8, <1>10 DEF FileInv

\* An action entry leaves the tasks alone.
LEMMA LoadActionStep == ASSUME FileInv, netMotors \subseteq Motor, LoadAction PROVE FileInv'
<1> DEFINE e == Head(config)
           n == Done
           row == [motors |-> netMotors \cup e.motors, action |-> e.action]
<1>1. /\ Reading /\ phase = "loading" /\ e.kind = "action"
      /\ actions' = actions \/ actions' = [actions EXCEPT ![e.key] = row]
      /\ config' = Tail(config)
      /\ UNCHANGED <<file, phase, gpMotors, tasks, queued, active>>
  BY DEF LoadAction, Gather, Reading
<1>2. Follows /\ n \in Nat /\ n + 1 \in DOMAIN file /\ e = file[n + 1] /\ e \in Entry
  BY <1>1, NextEntry
<1>3. /\ config' \in Seq(Entry) /\ Done' = n + 1 /\ Done' \in 0 .. Len(file')
      /\ \A j \in 1 .. Len(config') : config'[j] = file'[Done' + j]
  BY <1>1, TakeEntry
<1>4. /\ \A kind, m : Union(kind, m)' = Union(kind, m)
      /\ \A k, m : LastUpTo(k, m)' = LastUpTo(k, m)
      /\ \A kind : EntriesOf(kind)' = EntriesOf(kind)
  BY <1>1 DEF Union, LastUpTo, EntriesOf
<1>5. gpMotors' = Union("task", n + 1)
  <2>1. Union("task", n + 1) = Union("task", n)
    BY <1>1, <1>2, UnionStep DEF FileInv, Typed
  <2> QED
    BY <1>1, <1>2, <2>1 DEF Follows
<1>6. \A k \in Key : LastUpTo(k, n + 1) = LastUpTo(k, n)
  BY <1>1, <1>2, LastStep DEF FileInv, Typed
<1>7. e.key \in Key /\ row \in ActionRow
  BY <1>2 DEF Entry, ActionRow
<1>8. n + 1 \in EntriesOf("action") /\ file[n + 1].action = row.action
  BY <1>1, <1>2 DEF EntriesOf
<1> HIDE DEF e, n, row
<1>9. Typed'
  <2>1. actions' \in [Key -> ActionRow \cup {Absent}]
    BY <1>1, <1>7 DEF FileInv, Typed
  <2> QED
    BY <1>1, <1>3, <2>1 DEF FileInv, Typed
<1>10. Follows'
  <2>1. \A k \in Key : tasks'[k] # Absent => LastUpTo(k, n + 1) # {}
    BY <1>1, <1>2, <1>6 DEF Follows, n
  <2>2. \A k \in Key : \A i \in LastUpTo(k, n + 1) :
          tasks'[k] # Absent /\ tasks'[k].motors = Union("task", i)
    BY <1>1, <1>2, <1>6 DEF Follows, n
  <2>3. ASSUME NEW k \in Key, actions'[k] # Absent
        PROVE  \E i \in EntriesOf("action") : file[i].action = actions'[k].action
    <3>1. actions'[k] = actions[k] \/ actions'[k] = row
      BY <1>1 DEF FileInv, Typed
    <3> QED
      BY <1>2, <1>8, <2>3, <3>1 DEF Follows, Configured
  <2>4. \A k \in Configured' : \E i \in EntriesOf("action")' : file'[i].action = actions'[k].action
    BY <1>1, <1>4, <2>3 DEF Configured
  <2>5. ASSUME NEW i \in EntriesOf("task"), i <= n + 1 PROVE tasks'[file[i].key] # Absent
    <3>1. i \in Int /\ n \in Int /\ i # n + 1
      BY <1>1, <1>2 DEF EntriesOf, FileInv, Typed
    <3> QED
      BY <1>1, <1>2, <2>5, <3>1 DEF Follows, n
  <2> QED
    BY <1>1, <1>3, <1>4, <1>5, <2>1, <2>2, <2>4, <2>5 DEF Follows
<1>11. Stages'
  BY <1>1, <1>10 DEF FileInv, Stages
<1> QED
  BY <1>9, <1>11 DEF FileInv

\* A step that keeps the tables of the file.
LEMMA FileFrame ==
    ASSUME FileInv, UNCHANGED <<file, config, gpMotors, tasks, actions>>
    PROVE  /\ (Untouched' <=> Untouched) /\ (Follows' <=> Follows) /\ (BadFile' <=> BadFile)
           /\ phase' \in {"init", "loading", "prepared", "running", "threw"} => Typed'
BY DEF FileInv, Typed, Untouched, Follows, BadFile, Done, Union, LastUpTo, EntriesOf, Configured

\* A file that can be read is to be read from its first entry.
LEMMA LoadFileStep == ASSUME FileInv, LoadFile PROVE FileInv'
<1>1. /\ phase = "init" /\ phase' = "loading" /\ config' \in {file, <<>>} /\ Untouched
      /\ UNCHANGED <<file, gpMotors, tasks, actions, active>>
  BY DEF LoadFile, FileInv, Stages
<1>2. Typed'
  <2>1. <<>> \in Seq(Entry)
    OBVIOUS
  <2>2. config' \in Seq(Entry)
    <3>1. CASE config' = <<>>
      BY <2>1, <3>1
    <3>2. CASE config' = file
      BY <3>2 DEF FileInv, Typed
    <3> QED
      BY <1>1, <3>1, <3>2
  <2> QED
    BY <1>1, <2>2 DEF FileInv, Typed
<1>3. CASE config' = <<>>
  <2>1. Untouched'
    BY <1>1, <1>3 DEF Untouched
  <2> QED
    BY <1>1, <1>2, <2>1 DEF FileInv, Stages
<1>4. CASE config' = file
  <2>1. Done' = 0 /\ Len(file) \in Nat
    BY <1>1, <1>4 DEF FileInv, Typed, Done
  <2>2. \A kind : {j \in EntriesOf(kind) : j <= 0} = {}
    BY DEF FileInv, Typed, EntriesOf
  <2>3. Union("task", 0)' = {} /\ \A k \in Key : LastUpTo(k, 0)' = {}
    BY <1>1, <2>2 DEF Union, LastUpTo, EntriesOf
  <2>4. \A i \in EntriesOf("task")' : ~ (i <= 0)
    BY <1>1 DEF EntriesOf, FileInv, Typed
  <2>5. Follows'
    BY <1>1, <1>4, <2>1, <2>3, <2>4 DEF Follows, Untouched, Configured
  <2> QED
    BY <1>1, <1>2, <2>5 DEF FileInv, Stages
<1> QED
  BY <1>1, <1>3, <1>4

\* The program stops at an entry that lacks something, or for an action nobody knows.
LEMMA LoadThrowsStep == ASSUME FileInv, LoadThrows PROVE FileInv'
<1>1. /\ Reading /\ ~ Head(config).complete /\ phase = "loading" /\ phase' = "threw"
      /\ UNCHANGED <<file, config, gpMotors, tasks, actions>>
  BY DEF LoadThrows, Reading
<1>2. BadFile
  BY <1>1, NextEntry DEF BadFile
<1> QED
  BY <1>1, <1>2, FileFrame DEF FileInv, Stages

\* An action that the factory does not know is in the file.
LEMMA StartThrowsStep == ASSUME FileInv, StartThrows PROVE FileInv'
<1>1. /\ phase = "prepared" /\ phase' = "threw"
      /\ UNCHANGED <<file, config, gpMotors, tasks, actions>>
  BY DEF StartThrows
<1>2. PICK k \in Configured : actions[k].action \notin active
  BY DEF StartThrows
<1>3. actions[k].action = "unknown"
  <2>1. actions[k] \in ActionRow /\ actions[k].action \notin Function
    BY <1>1, <1>2 DEF FileInv, Typed, Stages, Configured
  <2> QED
    BY <2>1 DEF ActionRow
<1>4. Follows
  BY <1>1, <1>2 DEF FileInv, Stages, Untouched, Configured
<1>5. BadFile
  BY <1>2, <1>3, <1>4 DEF Follows, BadFile, EntriesOf
<1> QED
  BY <1>1, <1>5, FileFrame DEF FileInv, Stages

\* The queue and the factory get what the tables hold.
LEMMA FilePrepareStep == ASSUME FileInv, Prepare PROVE FileInv'
<1>1. /\ phase = "loading" /\ config = <<>> /\ phase' = "prepared"
      /\ queued' = {<<k, tasks[k].motors>> : k \in {j \in Key : tasks[j] # Absent}}
      /\ active' = active \cup ({actions[k].action : k \in Key} \cap Function)
      /\ UNCHANGED <<file, config, gpMotors, tasks, actions>>
  BY DEF Prepare, Made
<1>2. active' = {actions'[k].action : k \in Key} \cap Function
  BY <1>1 DEF FileInv, Stages
<1> QED
  BY <1>1, <1>2, FileFrame DEF FileInv, Stages

\* Nothing of the file changes any more.
LEMMA RunningStep ==
    ASSUME FileInv, Start \/ (\E m \in Motor : Execute(m)) \/ UNCHANGED vars PROVE FileInv'
<1>1. /\ phase' = phase \/ (phase = "prepared" /\ phase' = "running")
      /\ UNCHANGED <<file, config, gpMotors, tasks, actions, queued, active>>
  BY DEF Start, Execute, vars
<1> QED
  BY <1>1, FileFrame DEF FileInv, Typed, Stages

\* No entry's motors are of another kind.
LEMMA NetMotorsStep ==
    ASSUME FileInv, netMotors \subseteq Motor, [Next]_vars PROVE netMotors' \subseteq Motor
<1>1. CASE LoadAction
  <2>1. Head(config).motors \subseteq Motor /\ netMotors' = netMotors \cup Head(config).motors
    BY <1>1, NextEntry DEF LoadAction, Gather, Entry
  <2> QED
    BY <2>1
<1>2. CASE ~ LoadAction
  BY <1>2 DEF Next, Load, Stopped, vars, LoadFile, LoadTask, LoadThrows, Prepare, Start,
              StartThrows, Execute
<1> QED
  BY <1>1, <1>2

\* The second invariant holds throughout every run.
LEMMA FileInvHolds == Spec => []FileInv
<1> DEFINE J == FileInv /\ netMotors \subseteq Motor
<1>1. Init => J
  <2> SUFFICES ASSUME Init PROVE J
    OBVIOUS
  <2>1. Typed
    BY DocumentAssumption DEF Init, Typed
  <2> QED
    BY <2>1 DEF Init, FileInv, Stages, Untouched
<1>2. J /\ [Next]_vars => J'
  BY LoadFileStep, LoadTaskStep, LoadActionStep, LoadThrowsStep, FilePrepareStep, RunningStep,
     StartThrowsStep, NetMotorsStep DEF Next, Load, Stopped
<1> QED
  BY <1>1, <1>2, PTL DEF Spec

\* What stops the program is always in its file (app/TasksFromConfig.cpp:168,
\* src/yaml_api/yaml_api.cpp:114-139): no order of entries of a good file does.
THEOREM OnlyBadFilesThrow == Spec => []ThrowsOnlyOnBadFile
<1>1. FileInv => ThrowsOnlyOnBadFile
  BY DEF FileInv, Stages, BadFile, ThrowsOnlyOnBadFile
<1> QED
  BY <1>1, FileInvHolds, PTL

\* The queue holds one element for each key of a task, which moves at least the motors of
\* the key's last entry and none that no task names (src/yaml_api/yaml_api.cpp:114-139).
THEOREM QueueIsOfFile == Spec => []QueueMatchesFile
<1>1. FileInv => QueueMatchesFile
  <2> SUFFICES ASSUME FileInv, Loaded PROVE QueueMatchesFile
    BY DEF QueueMatchesFile
  <2>1. /\ Follows /\ Done = Len(file)
        /\ queued = {<<k, tasks[k].motors>> : k \in {j \in Key : tasks[j] # Absent}}
    BY DEF Loaded, FileInv, Typed, Stages, Untouched, Done
  <2>2. \A k \in Key : LastUpTo(k, Done) = LastOf(k)
    BY <2>1 DEF FileInv, Typed, LastUpTo, LastOf, EntriesOf
  <2>3. ASSUME NEW k \in Key, tasks[k] # Absent
        PROVE  \E i \in LastOf(k) : tasks[k].motors = Union("task", i)
    BY <2>1, <2>2, <2>3 DEF Follows
  <2>4. {q[1] : q \in queued} = {k \in Key : tasks[k] # Absent}
    <3> DEFINE el(k) == <<k, tasks[k].motors>>
    <3>1. queued = {el(k) : k \in {j \in Key : tasks[j] # Absent}}
      BY <2>1
    <3>2. \A k : el(k)[1] = k
      OBVIOUS
    <3> HIDE DEF el
    <3> QED
      BY <3>1, <3>2
  <2>5. {k \in Key : tasks[k] # Absent} = {file[i].key : i \in EntriesOf("task")}
    <3>1. \A i \in EntriesOf("task") : file[i].key \in Key /\ i <= Done
      <4> SUFFICES ASSUME NEW i \in EntriesOf("task") PROVE file[i].key \in Key /\ i <= Done
        OBVIOUS
      <4>1. i \in DOMAIN file /\ file \in Seq(Entry)
        BY DEF EntriesOf, FileInv, Typed
      <4>2. file[i] \in Entry /\ i \in 1 .. Len(file)
        BY <4>1
      <4> QED
        BY <2>1, <4>2 DEF Entry
    <3>2. \A i \in EntriesOf("task") : tasks[file[i].key] # Absent
      BY <2>1, <3>1 DEF Follows
    <3>3. \A k \in Key : tasks[k] # Absent => \E i \in EntriesOf("task") : file[i].key = k
      BY <2>3 DEF LastOf
    <3> QED
      BY <3>1, <3>2, <3>3
  <2>6. \A p, q \in queued : p[1] = q[1] => p = q
    BY <2>1
  <2>7. ASSUME NEW q \in queued, NEW i \in LastOf(q[1])
        PROVE  file[i].motors \subseteq q[2] /\ q[2] \subseteq Union("task", Len(file))
    <3>1. q[1] \in Key /\ q[2] = tasks[q[1]].motors
      BY <2>1
    <3>2. q[2] = Union("task", i)
      BY <2>1, <2>2, <2>7, <3>1 DEF Follows
    <3>3. i \in EntriesOf("task") /\ i <= i /\ \A j \in EntriesOf("task") : j <= Len(file)
      BY DEF LastOf, EntriesOf, FileInv, Typed
    <3> QED
      BY <3>2, <3>3 DEF Union
  <2> QED
    BY <2>4, <2>5, <2>6, <2>7 DEF QueueMatchesFile
<1> QED
  BY <1>1, FileInvHolds, PTL

-----------------------------------------------------------------------------
(* Types *)

\* What is read from the file goes into the tables it belongs to.
LEMMA LoadTyped == ASSUME TypeOK, LoadAction \/ LoadTask PROVE TypeOK'
<1> DEFINE e == Head(config)
<1>1. e \in Entry /\ config' \in Seq(Entry)
  <2>1. config \in Seq(Entry) /\ config # <<>> /\ config' = Tail(config)
    BY DEF TypeOK, Reading, LoadAction, LoadTask
  <2> QED
    BY <2>1
<1>2. /\ e.key \in Key /\ e.motors \subseteq Motor /\ e.action \in Function \cup {"unknown"}
  BY <1>1 DEF Entry
<1>3. CASE LoadAction
  <2> DEFINE row == [motors |-> Gather(netMotors, e), action |-> e.action]
  <2>1. row \in ActionRow /\ Gather(netMotors, e) \subseteq Motor
    BY <1>2 DEF ActionRow, Gather, TypeOK
  <2>2. netMotors' = Gather(netMotors, e)
        /\ (actions' = actions \/ actions' = [actions EXCEPT ![e.key] = row])
    BY <1>3 DEF LoadAction
  <2>3. actions \in [Key -> ActionRow \cup {Absent}]
    BY DEF TypeOK, ActionRow
  <2> HIDE DEF row, e
  <2>4. actions' \in [Key -> ActionRow \cup {Absent}]
    BY <1>2, <2>1, <2>2, <2>3
  <2> QED
    BY <1>1, <1>3, <2>1, <2>2, <2>4 DEF TypeOK, LoadAction, ActionRow
<1>4. CASE LoadTask
  <2> DEFINE row == [motors |-> Gather(gpMotors, e), action |-> "task"]
  <2>1. row \in TaskRow /\ Gather(gpMotors, e) \subseteq Motor
    BY <1>2 DEF TaskRow, Gather, TypeOK
  <2>2. gpMotors' = Gather(gpMotors, e) /\ tasks' = [tasks EXCEPT ![e.key] = row]
    BY <1>4 DEF LoadTask, Store
  <2>3. tasks \in [Key -> TaskRow \cup {Absent}]
    BY DEF TypeOK, TaskRow
  <2> HIDE DEF row, e
  <2>4. tasks' \in [Key -> TaskRow \cup {Absent}]
    BY <1>2, <2>1, <2>2, <2>3
  <2> QED
    BY <1>1, <1>4, <2>1, <2>2, <2>4 DEF TypeOK, LoadTask, TaskRow
<1> QED
  BY <1>3, <1>4

\* What is queued and called comes from the tables.
LEMMA RunTyped ==
    ASSUME TypeOK, Prepare \/ Start \/ \E m \in Motor : Execute(m) PROVE TypeOK'
<1>1. CASE Prepare
  <2>1. \A k \in Key : tasks[k] # Absent => tasks[k].motors \subseteq Motor
    BY DEF TypeOK
  <2>2. queued' \subseteq Key \X SUBSET Motor
    BY <1>1, <2>1 DEF Prepare
  <2>3. active' \subseteq Function
    BY <1>1 DEF Prepare, Made, TypeOK
  <2> QED
    BY <1>1, <2>2, <2>3 DEF TypeOK, Prepare
<1>2. CASE Start
  <2>1. \A k \in Configured : actions[k].motors \subseteq Motor
    BY DEF TypeOK, Configured
  <2>2. \A f \in Function : MotorsFor(f) \subseteq Motor
    BY <2>1 DEF TypeOK, MotorsFor
  <2>3. motorsOf' \in [Function -> SUBSET Motor] /\ engines' \subseteq Motor
    BY <1>2, <2>2 DEF TypeOK, Start, AllMotors
  <2> QED
    BY <1>2, <2>3 DEF TypeOK, Start
<1>3. ASSUME NEW m \in Motor, Execute(m) PROVE TypeOK'
  <2>1. Called(m) \subseteq Function
    BY DEF Called
  <2>2. applied' \in [Motor -> SUBSET Function]
    BY <1>3, <2>1 DEF TypeOK, Execute
  <2>3. drawn' \in BOOLEAN
    BY <1>3, Zenon DEF TypeOK, Execute, Draws
  <2> QED
    BY <1>3, <2>2, <2>3 DEF TypeOK, Execute
<1> QED
  BY <1>1, <1>2, <1>3

\* The tables and what is made of them keep their types, for every file.
THEOREM TypeCorrect == Spec => []TypeOK
<1>1. Init => TypeOK
  <2> SUFFICES ASSUME Init PROVE TypeOK
    OBVIOUS
  <2>1. file \in Document /\ config \in Seq(Entry)
    BY DEF Init
  <2> QED
    BY <2>1 DEF Init, TypeOK
<1>2. TypeOK /\ [Next]_vars => TypeOK'
  <2> SUFFICES ASSUME TypeOK, [Next]_vars PROVE TypeOK'
    OBVIOUS
  <2>1. CASE LoadFile
    <3>1. config' \in Seq(Entry)
      <4>1. file \in Seq(Entry) /\ config' \in {file, <<>>}
        BY <2>1, DocumentAssumption DEF TypeOK, LoadFile
      <4>2. CASE config' = file
        BY <4>1, <4>2
      <4>3. CASE config' = <<>>
        BY <4>3
      <4> QED
        BY <4>1, <4>2, <4>3
    <3> QED
      BY <2>1, <3>1 DEF TypeOK, LoadFile
  <2>2. CASE LoadThrows \/ StartThrows
    BY <2>2 DEF TypeOK, LoadThrows, StartThrows
  <2>3. CASE Stopped \/ UNCHANGED vars
    BY <2>3 DEF TypeOK, Stopped, vars
  <2> QED
    BY <2>1, <2>2, <2>3, LoadTyped, RunTyped DEF Next, Load
<1> QED
  BY <1>1, <1>2, PTL DEF Spec

=============================================================================
