---------------------------- MODULE PeriodicTask ----------------------------
(***************************************************************************)
(* The life of the periodic tasks: construction by the main thread         *)
(* (InteractiveTask and PeriodicTask constructors), the worker thread each *)
(* of them starts, the stop flag, join and destruction                     *)
(* (app/utils/PeriodicTask.h, app/InteractiveTask.h and the end of         *)
(* tasks_from_config_impl in app/TasksFromConfig.cpp).                     *)
(*                                                                         *)
(* The worker starts in the FIRST member initialiser of PeriodicTask, so   *)
(* it runs beside the rest of the construction: the constructor's steps    *)
(* are numbered below and interleave with the worker's.  A member read     *)
(* before its initialiser ran is undefined behaviour: the process stops,   *)
(* or the member happens to look empty and is skipped.  What a cycle does  *)
(* to data is not modelled here.                                           *)
(***************************************************************************)
EXTENDS Integers

CONSTANT N      \* number of tasks; they are built, and joined, in this order

ASSUME NAssumption == N \in Nat \ {0}

Task == 1 .. N

\* How far the construction of a task has come: the initialisers run in the
\* order in which the members are declared.
Started == 1    \* PeriodicTask::task_context: the worker exists
DoneSet == 2    \* PeriodicTask::done{false}
TcbNull == 3    \* PeriodicTask::task_control_block, default-constructed
                \* 4, 5, 6: InteractiveTask's process_callback, get_ and set_new_data_func
Built   == 7    \* InteractiveTask::data; the object is complete

VARIABLES
    main,       \* phase of the main thread
    ctor,       \* ctor[t]: construction steps done, 0 .. Built
    tcb,        \* PeriodicTask::task_control_block
    done,       \* PeriodicTask::done
    endTask,    \* *end_task, shared by all tasks
    pc,         \* pc[t]: where worker t is
    joined,     \* number of tasks joined, from the first
    dtor,       \* destruction of the task object
    late,       \* late[t]: cycles t carried out after the stop flag was set (history)
    crashed     \* the process was stopped by undefined behaviour

vars == <<main, ctor, tcb, done, endTask, pc, joined, dtor, late, crashed>>

Init ==
    /\ main = "building"
    /\ ctor = [t \in Task |-> 0]
    /\ tcb = [t \in Task |-> "raw"]
    /\ done \in [Task -> BOOLEAN]       \* uninitialised memory
    /\ endTask = FALSE
    /\ pc = [t \in Task |-> "none"]
    /\ joined = 0
    /\ dtor = [t \in Task |-> "alive"]
    /\ late = [t \in Task |-> 0]
    /\ crashed = FALSE

-----------------------------------------------------------------------------
(* The main thread *)

\* The tasks are built one after the other.
UnderConstruction(t) == ctor[t] < Built /\ \A u \in 1 .. (t - 1) : ctor[u] = Built

\* The next initialiser of the task under construction.
Construct(t) ==
    /\ main = "building"
    /\ UnderConstruction(t)
    /\ ctor' = [ctor EXCEPT ![t] = @ + 1]
    /\ pc' = IF ctor'[t] = Started THEN [pc EXCEPT ![t] = "assign"] ELSE pc
    /\ done' = IF ctor'[t] = DoneSet THEN [done EXCEPT ![t] = FALSE] ELSE done
    /\ tcb' = IF ctor'[t] = TcbNull THEN [tcb EXCEPT ![t] = "null"] ELSE tcb
    /\ main' = IF t = N /\ ctor'[t] = Built THEN "sleeping" ELSE main
    /\ UNCHANGED <<endTask, joined, dtor, late, crashed>>

\* sleep_for(5000ms) is over: end_task->store(true)
StoreEnd ==
    /\ main = "sleeping"
    /\ endTask' = TRUE
    /\ main' = "joining"
    /\ UNCHANGED <<ctor, tcb, done, pc, joined, dtor, late, crashed>>

\* Faulty variant: join returns at once.
Join_NoWait ==
    /\ main = "joining"
    /\ joined' = joined + 1
    /\ main' = IF joined' = N THEN "exiting" ELSE main
    /\ UNCHANGED <<ctor, tcb, done, endTask, pc, dtor, late, crashed>>

\* join() spins on done, task after task; the build is unoptimised, so every
\* iteration reads it again.  After the last task tasks_from_config returns.
Join ==
    /\ main = "joining"
    /\ done[joined + 1]
    /\ joined' = joined + 1
    /\ main' = IF joined' = N THEN "exiting" ELSE main
    /\ UNCHANGED <<ctor, tcb, done, endTask, pc, dtor, late, crashed>>

\* main() has returned and InteractiveTasks is destroyed, one task at a time:
\* first the members declared after periodic_task ...
DropCallbacks(t) ==
    /\ main = "exiting"
    /\ dtor[t] = "alive"
    /\ \A u \in Task : dtor[u] # "joining"
    /\ dtor' = [dtor EXCEPT ![t] = "joining"]
    /\ UNCHANGED <<main, ctor, tcb, done, endTask, pc, joined, late, crashed>>

\* ... then ~PeriodicTask, which waits for the thread itself.
JoinThread(t) ==
    /\ dtor[t] = "joining"
    /\ pc[t] = "exited"
    /\ dtor' = [dtor EXCEPT ![t] = "gone"]
    /\ main' = IF \A u \in Task : dtor'[u] = "gone" THEN "exited" ELSE main
    /\ UNCHANGED <<ctor, tcb, done, endTask, pc, joined, late, crashed>>

-----------------------------------------------------------------------------
(* The worker of task t *)

At(t, here, there) == pc[t] = here /\ pc' = [pc EXCEPT ![t] = there]

\* thread_routine_wrapper stores its argument in the member, which the
\* constructor may not have initialised yet, or may be about to reset to null.
AssignControlBlock(t) ==
    /\ At(t, "assign", "name")
    /\ tcb' = [tcb EXCEPT ![t] = "set"]
    /\ crashed' \in BOOLEAN /\ (crashed' => tcb[t] = "raw")
    /\ UNCHANGED <<main, ctor, done, endTask, joined, dtor, late>>

\* set_thread_name(task_control_block->task_name), then the copy that
\* thread_routine works on: both read the member again.
SetName(t) ==
    /\ At(t, "name", "enter")
    /\ crashed' = (tcb[t] # "set")
    /\ UNCHANGED <<main, ctor, tcb, done, endTask, joined, dtor, late>>

EnterRoutine(t) ==
    /\ At(t, "enter", "check")
    /\ crashed' = (tcb[t] # "set")
    /\ UNCHANGED <<main, ctor, tcb, done, endTask, joined, dtor, late>>

\* while (!end_task->load())
CheckEnd(t) ==
    /\ At(t, "check", IF endTask THEN "finish" ELSE "sleep")
    /\ UNCHANGED <<main, ctor, tcb, done, endTask, joined, dtor, late, crashed>>

Sleep(t) ==
    /\ At(t, "sleep", "read")
    /\ UNCHANGED <<main, ctor, tcb, done, endTask, joined, dtor, late, crashed>>

\* A callback uses a std::function member and the data of its task: they must
\* have been initialised, and not yet destroyed.
UsesMembers(t) ==
    /\ crashed' \in BOOLEAN
    /\ crashed' => ctor[t] < Built \/ dtor[t] # "alive"

\* readData, process, writeData: bound to InteractiveTask::read, process, write.
Read(t) ==
    /\ At(t, "read", "process")
    /\ late' = [late EXCEPT ![t] = IF endTask THEN @ + 1 ELSE @]
    /\ UsesMembers(t)
    /\ UNCHANGED <<main, ctor, tcb, done, endTask, joined, dtor>>

ProcessData(t) ==
    /\ At(t, "process", "write")
    /\ UsesMembers(t)
    /\ UNCHANGED <<main, ctor, tcb, done, endTask, joined, dtor, late>>

\* Faulty variant: the flag is read only once, before the loop.
Write_NoCheck(t) ==
    /\ At(t, "write", "sleep")
    /\ UsesMembers(t)
    /\ UNCHANGED <<main, ctor, tcb, done, endTask, joined, dtor, late>>

Write(t) ==
    /\ At(t, "write", "check")
    /\ UsesMembers(t)
    /\ UNCHANGED <<main, ctor, tcb, done, endTask, joined, dtor, late>>

\* Faulty variant: the end is not announced.
Finish_Silent(t) ==
    /\ At(t, "finish", "return")
    /\ UNCHANGED <<main, ctor, tcb, done, endTask, joined, dtor, late, crashed>>

\* done = true, the worker's last access to the object
Finish(t) ==
    /\ At(t, "finish", "return")
    /\ done' = [done EXCEPT ![t] = TRUE]
    /\ UNCHANGED <<main, ctor, tcb, endTask, joined, dtor, late, crashed>>

Return(t) ==
    /\ At(t, "return", "exited")
    /\ UNCHANGED <<main, ctor, tcb, done, endTask, joined, dtor, late, crashed>>

Worker(t) ==
    \/ AssignControlBlock(t) \/ SetName(t) \/ EnterRoutine(t)
    \/ CheckEnd(t) \/ Sleep(t) \/ Read(t) \/ ProcessData(t) \/ Write(t)
    \/ Finish(t) \/ Return(t)

-----------------------------------------------------------------------------
MainThread ==
    \/ \E t \in Task : Construct(t) \/ DropCallbacks(t) \/ JoinThread(t)
    \/ StoreEnd
    \/ Join

\* The process has ended, in one way or the other.
Ended == (crashed \/ main = "exited") /\ UNCHANGED vars

Next ==
    \/ ~ crashed /\ MainThread
    \/ \E t \in Task : ~ crashed /\ Worker(t)
    \/ Ended

\* Each thread is scheduled; sleep_for returns.
Fairness ==
    /\ WF_vars(~ crashed /\ MainThread)
    /\ \A t \in Task : WF_vars(~ crashed /\ Worker(t))

Spec == Init /\ [][Next]_vars
FairSpec == Spec /\ Fairness

-----------------------------------------------------------------------------
TypeOK ==
    /\ main \in {"building", "sleeping", "joining", "exiting", "exited"}
    /\ ctor \in [Task -> 0 .. Built]
    /\ tcb \in [Task -> {"raw", "null", "set"}]
    /\ done \in [Task -> BOOLEAN]
    /\ endTask \in BOOLEAN
    /\ pc \in [Task -> {"none", "assign", "name", "enter", "check", "sleep",
                        "read", "process", "write", "finish", "return", "exited"}]
    /\ joined \in 0 .. N
    /\ dtor \in [Task -> {"alive", "joining", "gone"}]
    /\ late \in [Task -> Nat]
    /\ crashed \in BOOLEAN

\* The worker will still touch the data or the callbacks of its task.
InCycle(t) == pc[t] \in {"assign", "name", "enter", "check", "sleep", "read", "process", "write"}

\* A task that was joined makes no further cycle: the plain `done` really means it.
JoinMeansQuiescent == \A t \in 1 .. joined : ~ InCycle(t)

\* No callback runs on a task whose members have been destroyed, and no worker
\* still has its last store to `done` ahead of it then: static destruction at
\* exit is safe although ~PeriodicTask waits for the thread only afterwards.
NoUseAfterDestroy == \A t \in Task : dtor[t] # "alive" => pc[t] \in {"return", "exited"}

\* Once the stop flag is set no task starts more than the one cycle it had
\* already decided to make.
AtMostOneLateCycle == \A t \in Task : late[t] <= 1

\* `done` is never lost: neither the constructor's late done{false} nor anything
\* else takes it back once the worker announced it.
DoneIsFinal == [][\A t \in Task : (pc[t] \in {"return", "exited"} /\ done[t]) => done'[t]]_vars

\* The program ends: once the workers are told to stop, main gets past every
\* join and every destructor, unless the process crashed.
StopEndsProgram == endTask ~> (main = "exited" \/ crashed)

\* Undefined behaviour is confined to the construction: a process that survives
\* until all tasks are built and in their loops never crashes any more, whatever
\* the order in which they are stopped, joined and destroyed.  No run
\* checks it: the theorem LoopsAreSafe derives it, for any number of tasks.
OnlyStartupCrashes ==
    [][ (\A t \in Task : ctor[t] = Built /\ pc[t] \notin {"none", "assign", "name", "enter"})
          => crashed' = crashed ]_vars

\* What README.md:9 and tests/gtest_scheduled_task.cpp:118-123 rely on: a task
\* that was started gets into its cycles.  Neither of the two places that read the
\* control block before the loop finds it null and stops the program.
StartIsSafe == [][\A t \in Task : SetName(t) \/ EnterRoutine(t) => ~ crashed']_vars

-----------------------------------------------------------------------------
(* The owner's view: a group of tasks that start, end, are joined and freed *)

LifeOf(t) ==
    IF dtor[t] # "alive" THEN "freed"
    ELSE IF t <= joined THEN "joined"
    ELSE IF pc[t] = "none" THEN "new"
    ELSE IF pc[t] \in {"return", "exited"} THEN "ended"
    ELSE "running"

Group == INSTANCE PeriodicGroup
           WITH life <- [t \in Task |-> LifeOf(t)], stopped <- endTask, late <- late

\* The threads, the flags and the destructors give main what a group of tasks
\* promises: all run before any is told to stop, each makes at most one more
\* cycle after that, is joined after it has ended, in order, and none is torn
\* down before the last one was joined.
ImplementsGroup == Group!Spec

=============================================================================
