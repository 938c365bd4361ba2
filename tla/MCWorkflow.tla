---------------------------- MODULE MCWorkflow ----------------------------
(* A small instance of Workflow: all files of up to three of the entries below. *)
EXTENDS Workflow

TaskEntry(k, ms) ==
    [key |-> k, kind |-> "task", motors |-> ms, action |-> "unknown", complete |-> TRUE]
ActionEntry(k, ms, f) ==
    [key |-> k, kind |-> "action", motors |-> ms, action |-> f, complete |-> TRUE]

MCKey == {"f1", "f2", "a1", "a2", "a3"}
MCMotor == 1 .. 4

MCEntry == {
    TaskEntry("f1", {1, 2}),
    TaskEntry("f1", {2}),
    TaskEntry("f2", {3}),
    ActionEntry("a1", {3}, "rotate"),
    ActionEntry("a2", {4}, "bend"),
    ActionEntry("a2", {1}, "rotate"),
    ActionEntry("a3", {}, "dashboard"),
    ActionEntry("a1", {2}, "unknown"),
    [TaskEntry("f2", {1}) EXCEPT !.complete = FALSE] }

\* The shape of configured/tasks.yaml, its motors renumbered to four.
TasksYaml == <<
    TaskEntry("f1", {1}), TaskEntry("f2", {2}),
    ActionEntry("a1", {3}, "rotate"), ActionEntry("a2", {4}, "bend"),
    ActionEntry("a3", {}, "dashboard") >>

MCDocument == {TasksYaml} \cup UNION {[1 .. n -> MCEntry] : n \in 0 .. 3}
YamlDocument == {TasksYaml}
=============================================================================
