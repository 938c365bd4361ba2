------------------------------ MODULE Workflow ------------------------------
(***************************************************************************)
(* From the configuration file to the running system: workflow::init and   *)
(* load_work (src/yaml_api/yaml_api.cpp), the preparation done by          *)
(* tasks_from_config_impl (app/TasksFromConfig.cpp), NetFunctionFactory    *)
(* (app/NetFunctionFactory.h), and execute_net_function, which applies the *)
(* configured actions to the engines.                                      *)
(*                                                                         *)
(* The file is a sequence of entries in document order.  An entry whose    *)
(* key contains "net_action" is an action, any other one is a task; a key  *)
(* may occur twice.  An entry that lacks a mandatory attribute makes the   *)
(* conversion throw, and nothing catches that.                             *)
(***************************************************************************)
EXTENDS Integers, Sequences

CONSTANTS
    Key,        \* keys of the entries
    Motor,      \* motor numbers, called engines once the program runs
    Document    \* the files the program may be given

\* The actions NetFunctionFactory knows, in the order std::map keeps them.
Function == {"bend", "dashboard", "rotate"}
Rank == [bend |-> 1, dashboard |-> 2, rotate |-> 3]

Entry == [key : Key, kind : {"task", "action"}, motors : SUBSET Motor,
          action : Function \cup {"unknown"}, complete : BOOLEAN]

ASSUME DocumentAssumption == Document \subseteq Seq(Entry)

VARIABLES
    file,       \* the file's entries
    config,     \* workflow::config: the entries still to be read
    phase,      \* how far main has come
    gpMotors,   \* workflow::gp_motors
    netMotors,  \* workflow::net_func_motors
    tasks,      \* workflow::tasks: the motors of each task; absent keys: no task
    actions,    \* workflow::net_actions: key -> motors and action, for the keys in it
    queued,     \* the elements pushed on the queue: pairs <<key, target motors>>
    active,     \* active_net_functions: the functions made by the factory
    motorsOf,   \* NetFunction::motors
    engines,    \* the keys of component "Engines", and those of inc_dec_hash: one loop
                \* over the motors fills both tables (TasksFromConfig.cpp:180-184)
    applied,    \* applied[m]: what was executed on engine m so far (history)
    drawn       \* whether the dashboard was drawn (history)

vars == <<file, config, phase, gpMotors, netMotors, tasks, actions, queued,
          active, motorsOf, engines, applied, drawn>>

Absent == [motors |-> {}, action |-> "absent"]

Init ==
    /\ file \in Document
    /\ config = <<>>
    /\ phase = "init"
    /\ gpMotors = {} /\ netMotors = {}
    /\ tasks = [k \in Key |-> Absent]
    /\ actions = [k \in Key |-> Absent]
    /\ queued = {}
    /\ active = {}
    /\ motorsOf = [f \in Function |-> {}]
    /\ engines = {}
    /\ applied = [m \in Motor |-> {}]
    /\ drawn = FALSE

-----------------------------------------------------------------------------
\* init(): the file is parsed, or that fails and config stays empty.  main.cc
\* ignores the result and goes on with whatever config holds.
LoadFile ==
    /\ phase = "init"
    /\ config' \in {file, <<>>}
    /\ phase' = "loading"
    /\ UNCHANGED <<file, gpMotors, netMotors, tasks, actions, queued, active,
                   motorsOf, engines, applied, drawn>>

Reading == phase = "loading" /\ config # <<>>

\* gp_motors and net_func_motors are members that no entry clears.
Gather(set, e) == set \cup e.motors

\* constract_net_action: the motors join those of all earlier actions, and the
\* action gets the whole set; emplace keeps the first entry of a key.
LoadAction ==
    LET e == Head(config)
        all == Gather(netMotors, e)
    IN /\ Reading /\ e.kind = "action" /\ e.complete
       /\ netMotors' = all
       /\ actions' = IF actions[e.key] = Absent
                     THEN [actions EXCEPT ![e.key] = [motors |-> all, action |-> e.action]]
                     ELSE actions
       /\ config' = Tail(config)
       /\ UNCHANGED <<file, phase, gpMotors, tasks, queued, active, motorsOf,
                      engines, applied, drawn>>

\* Faulty variant: emplace, as for the actions, which keeps the first task of a key.
Store_KeepsFirst(k, row) == IF tasks[k] = Absent THEN [tasks EXCEPT ![k] = row] ELSE tasks

\* tasks[key] = ...: a later entry of the same key replaces the earlier task.
Store(k, row) == [tasks EXCEPT ![k] = row]

\* The motors join those of all earlier tasks, and the task gets the whole set.
LoadTask ==
    LET e == Head(config)
        all == Gather(gpMotors, e)
    IN /\ Reading /\ e.kind = "task" /\ e.complete
       /\ gpMotors' = all
       /\ tasks' = Store(e.key, [motors |-> all, action |-> "task"])
       /\ config' = Tail(config)
       /\ UNCHANGED <<file, phase, netMotors, actions, queued, active, motorsOf,
                      engines, applied, drawn>>

\* as<uint32_t>() of a missing attribute throws out of main.
LoadThrows ==
    /\ Reading /\ ~ Head(config).complete
    /\ phase' = "threw"
    /\ UNCHANGED <<file, config, gpMotors, netMotors, tasks, actions, queued,
                   active, motorsOf, engines, applied, drawn>>

\* Faulty variant: the factory does not know "bend".
Made_NoBend(names) == names \cap {"dashboard", "rotate"}

\* supportNetFunction for each of the names
Made(names) == names \cap Function

\* One element per task is pushed, then the factory makes every function that
\* is named and that it knows.
Prepare ==
    /\ phase = "loading" /\ config = <<>>
    /\ queued' = {<<k, tasks[k].motors>> : k \in {j \in Key : tasks[j] # Absent}}
    /\ active' = active \cup Made({actions[k].action : k \in Key})
    /\ phase' = "prepared"
    /\ UNCHANGED <<file, config, gpMotors, netMotors, tasks, actions, motorsOf,
                   engines, applied, drawn>>

Configured == {k \in Key : actions[k] # Absent}

\* Faulty variants: set_motors replaces instead of adding; actions are forgotten.
MotorsFor_Replaced(f) ==
    LET ks == {k \in Configured : actions[k].action = f}
    IN IF ks = {} THEN motorsOf[f] ELSE actions[CHOOSE k \in ks : TRUE].motors
AllMotors_TasksOnly == gpMotors

\* set_motors inserts the motors of every action of function f.
MotorsFor(f) ==
    motorsOf[f] \cup UNION {actions[k].motors : k \in {j \in Configured : actions[j].action = f}}

\* get_all_motors
AllMotors == gpMotors \cup netMotors

\* set_motors adds the motors of every action to its function; "Engines" and
\* inc_dec_hash get the motors of all tasks and actions; the tasks are started.
Start ==
    /\ phase = "prepared"
    /\ \A k \in Configured : actions[k].action \in active
    /\ motorsOf' = [f \in Function |-> MotorsFor(f)]
    /\ engines' = AllMotors
    /\ phase' = "running"
    /\ UNCHANGED <<file, config, gpMotors, netMotors, tasks, actions, queued,
                   active, applied, drawn>>

\* net_functions.at() throws for an action the factory does not know.
StartThrows ==
    /\ phase = "prepared"
    /\ \E k \in Configured : actions[k].action \notin active
    /\ phase' = "threw"
    /\ UNCHANGED <<file, config, gpMotors, netMotors, tasks, actions, queued,
                   active, motorsOf, engines, applied, drawn>>

\* Faulty variant: the walk does not return after a call.
First_All(f, m) == f \in active /\ f # "dashboard" /\ m \in motorsOf[f]

\* execute_net_function walks the functions in map order: "dashboard" is drawn
\* and passed over, the first other one that has the engine is called.
Handles(f, m) == f \in active /\ f # "dashboard" /\ m \in motorsOf[f]
First(f, m) == Handles(f, m) /\ \A g \in Function : Handles(g, m) => Rank[f] <= Rank[g]
Called(m) == {f \in Function : First(f, m)}
Draws(m) == "dashboard" \in active /\ \A f \in Called(m) : Rank["dashboard"] < Rank[f]

\* The task "Main" processes one engine.
Execute(m) ==
    /\ phase = "running"
    /\ m \in engines
    /\ applied' = [applied EXCEPT ![m] = @ \cup Called(m)]
    /\ drawn' = (drawn \/ Draws(m))
    /\ UNCHANGED <<file, config, phase, gpMotors, netMotors, tasks, actions,
                   queued, active, motorsOf, engines>>

\* The program is done, or goes on as before.
Stopped == phase \in {"running", "threw"} /\ UNCHANGED vars

Load == LoadFile \/ LoadAction \/ LoadTask \/ LoadThrows \/ Prepare \/ Start \/ StartThrows

Next == Load \/ (\E m \in Motor : Execute(m)) \/ Stopped

Spec == Init /\ [][Next]_vars

\* main runs on until the tasks are started; Main's cycles reach every engine.
FairSpec == Spec /\ WF_vars(Load) /\ \A m \in Motor : WF_vars(Execute(m))

-----------------------------------------------------------------------------
TypeOK ==
    /\ file \in Document
    /\ config \in Seq(Entry)
    /\ phase \in {"init", "loading", "prepared", "running", "threw"}
    /\ gpMotors \subseteq Motor /\ netMotors \subseteq Motor
    /\ tasks \in [Key -> [motors : SUBSET Motor, action : {"task"}] \cup {Absent}]
    /\ actions \in [Key -> [motors : SUBSET Motor, action : Function \cup {"unknown"}] \cup {Absent}]
    /\ queued \subseteq (Key \X SUBSET Motor)
    /\ active \subseteq Function
    /\ motorsOf \in [Function -> SUBSET Motor]
    /\ engines \subseteq Motor
    /\ applied \in [Motor -> SUBSET Function]
    /\ drawn \in BOOLEAN

Loaded == phase = "running" /\ queued # {}
EntriesOf(kind) == {i \in DOMAIN file : file[i].kind = kind}

\* The motors named by the entries of a kind among the first i of the file.
Union(kind, i) == UNION {file[j].motors : j \in {j \in EntriesOf(kind) : j <= i}}

\* The entry that counts for a key, its last one.
LastOf(k) == {i \in EntriesOf("task") : file[i].key = k
                 /\ \A j \in EntriesOf("task") : file[j].key = k => j <= i}

\* What is queued is what the file asks for: one element for each key of a task and none
\* for an action, which moves at least the motors of its key's last entry, and none that
\* no task names.  Whether it should also move those of the entries before it, as it
\* does (yaml_api.cpp:117-121; tasks.yaml:9 names motor 3 alone), is left open.
QueueMatchesFile ==
    Loaded =>
        /\ {q[1] : q \in queued} = {file[i].key : i \in EntriesOf("task")}
        /\ \A p, q \in queued : p[1] = q[1] => p = q
        /\ \A q \in queued : \A i \in LastOf(q[1]) :
             file[i].motors \subseteq q[2] /\ q[2] \subseteq Union("task", Len(file))

\* Whatever is configured ends up in the engines' database: every motor of a
\* queued element and every motor of a function, so that none of them is missing
\* from the cycles, which go over the engines of the database alone.
EnginesCoverAll ==
    phase = "running" =>
        /\ \A q \in queued : q[2] \subseteq engines
        /\ \A f \in active : motorsOf[f] \subseteq engines

\* One engine is never subject to two functions, in any order of cycles.
OneFunctionPerEngine == \A m \in Motor : \A f, g \in applied[m] : f = g

\* Only a file with an entry that lacks an attribute, or with an unknown action,
\* stops the program; every other file, and an unreadable one, starts it.
ThrowsOnlyOnBadFile ==
    phase = "threw" => \E i \in DOMAIN file :
        \/ ~ file[i].complete
        \/ file[i].kind = "action" /\ file[i].action = "unknown"

\* Every motor of a loaded action other than the dashboard is eventually acted
\* upon, by that action or by one that comes before it in map order.
ActionsReachMotors ==
    \A m \in Motor :
        (phase = "running" /\ \E k \in Configured : /\ m \in actions[k].motors
                                                   /\ actions[k].action # "dashboard")
            ~> applied[m] # {}

-----------------------------------------------------------------------------
\* What configured/tasks.yaml:15-17 says of net_action_1, `target_motors: [4]` and
\* `action: rotate`: an action applies to the motors its own entry names.
ActionAppliesToItsMotors ==
    phase = "running" =>
        \A m \in Motor : \A f \in applied[m] :
            \E i \in EntriesOf("action") : m \in file[i].motors /\ file[i].action = f

=============================================================================
