# ForMontee: formal models

ForMontee is a C++ program that runs periodic tasks read from a YAML file. The
tasks move simulated engines, tune them, and publish what they do in a component
database that a Python script can read through shared memory. Its repository also
holds three Python scripts that run clang-tidy, clang-format and
include-what-you-use over the code in several threads or processes. This directory
holds TLA+ models of the concurrent and stateful parts of both, the TLC runs that
check them on small instances, and TLAPS proofs of the most important results for
all instances.

    tlc -config MCPriorityQ.cfg MCPriorityQ      model-check one run
    tlapm PriorityQ_proofs.tla                   check the proofs of one module

Paths such as `app/utils/DB.h` are relative to the repository.

## The system

`main` (app/main.cc) builds a `workflow`, loads the YAML file, creates the
components of the database, and calls `tasks_from_config`, which builds the queue
of scheduled elements and the periodic tasks, lets them run for 5 s, stops and
joins them, and returns.

| Part | Source | State | Operations | Talks to |
|---|---|---|---|---|
| Configuration | src/yaml_api/ | the YAML node, `gp_motors`, `net_func_motors`, `tasks`, `net_actions` | `init`, `load_work` (one step per entry), queries | called by `main` and `tasks_from_config` |
| Preparation | app/TasksFromConfig.cpp | `active_net_functions`, `inc_dec_hash`, the callbacks of the tasks | make the functions, fill the queue and the engine table, build, stop and join the tasks | everything below |
| Net functions | app/NetFunctionFactory.h | one object per function, with its motors | `supportNetFunction`, `set_motors`, `operator()` | called by the process callback of "Main" |
| Scheduled elements | app/utils/PriorityQueueElement.h | `next_invokation`, `occurrences`, `idx`, `values` | constructor, `get_rescheduled_item_if_any`, `get_value` | owned by the queue |
| Priority queue | app/utils/PriorityQ.h | a heap and its mutex | `push`, `try_pop` | pushed by the preparation, drained by task "Main" |
| Periodic task | app/utils/PeriodicTask.h | thread, `task_control_block`, `done`, shared `end_task` | thread routine, `join`, destructor | calls the three callbacks of InteractiveTask |
| Interactive task | app/InteractiveTask.h | `data`, the get, set and process functions | `read` (drain the queue, get the component), `process`, `write` | queue, database |
| Component database | app/utils/DB.h, DB.cpp | one map and one mutex per component | `set_component_db`, `get_component_db`, `get_all_values`, `update_sm` | tasks; shared memory |
| Shared memory | app/utils/SharedMemoryWrapper.cpp | boost segment, interprocess mutex, map | `init`, `update`, `retrieve` | the Python script |
| Thread-safe queue | app/utils/thread_safe_queue.h | deque, mutex, condition variable | push and pop variants | not used by the program |
| Storage, camera | app/utils/Storage.h, app/opencv/ | test storage; capture state | | tests only |
| run-clang-tidy | tools/run-clang-tidy.py | a bounded task queue with its count, daemon threads, the list of failed files, a temporary directory of fixes | fill, join, merge, apply, clean up; the thread routine `run_tidy`; the Ctrl-C handler | clang-tidy and clang-apply-replacements, one process each |
| run-clang-format | tools/run-clang-format.py | the ignore patterns, the list of files, a pool of processes or a generator, the exit code | `list_files`, `run_clang_format_diff`, the result loop of `main` | clang-format, through two pipes |
| iwyu_tool | tools/iwyu_tool.py | the compilation database, the invocations left, the processes pending, the exit code | `slice_compilation_db`, `from_compile_command` with `win_split`, `execute`, `clang_formatter` | include-what-you-use, the load of the machine |

### What is hard in it, and what makes each part correct

* **Threads start inside constructors.** `PeriodicTask` starts its worker in its
  first member initialiser, so the worker runs beside the rest of two constructors.
  A later initialiser resets what the worker has set (`task_control_block`) or
  could erase what it announces (`done`). Correct: the announcement is never lost,
  a joined task is quiet, nothing is used after destruction, the program ends.
* **A queue whose elements come back while it is drained.** The reader is late,
  several periods are overdue, elements are pushed meanwhile, deltas may be zero
  or negative as an int. Correct: nothing lost, nothing twice, nothing early, no
  drift, order by due time, and nobody overtaken by more than what is due before it.
* **A configuration that accumulates.** The motor sets are members no entry
  clears, so the effect of a file depends on its order. Correct: what a task or a function
  is to move is an engine of the database, an engine has one function, only a bad file
  stops the program.
* **Writers that publish with two locks, a reader in another process, and a mutex
  that outlives its owner.** Correct: no torn component or half-filled map is seen,
  an update shows its own write, everyone returns unless an owner died.
* **Read-modify-write on one component by two tasks** ("Engines" and "Main"), with
  a direction table changed at once and not with the write. Correct: what an engine's
  value can be is bounded, and every excursion from the tuner's band has a cause.

* **Threads that may die holding a task** (run-clang-tidy). A count of unfinished tasks
  is the only barrier between them and the main thread, and Ctrl-C removes a directory
  they are writing to. Correct: behind the join every file was checked and nobody is at
  work, status 0 is true, no fix is applied from a partial run, and a run that ends by
  itself removes its directory.
* **One loop over two kinds of workers** (run-clang-format): a pool whose results come in
  any order, or a generator that an exception ends. Correct: no file is reported twice,
  the exit code is the worst report, and 0 means that all files were reported; the two
  kinds differ in what follows an error, and the specification says how.
* **Slices with a computed bound** (iwyu_tool): the capacity may be zero or negative and
  slices the list of commands twice. Correct: no command is lost or run twice, every
  process is reported, the script ends under any load.
* **Text read a piece at a time** (iwyu_tool): backslashes and quotes, sections and end
  marks. Correct: what the one-pass reader gives is what the rules say of each position.

PROJECT.json lists each hazard at its line with the properties about it.

## Modules

### PriorityQ, Schedule, MCPriorityQ, PriorityQ_proofs

`PriorityQ` is the queue with its two users. `Push(e)` is the constructor of an
element and `push`; `Wake` is the end of the 100 ms sleep of "Main"; `TryPop(e)` and
`TryPopNone` are `try_pop` (one critical section each, with the re-queueing that
`get_rescheduled_item_if_any` decides); `GetValue` is the `get_value` that
`InteractiveTask::read` calls on what it popped; `Crash` is undefined behaviour in
it. `task[e]` is a constructor's arguments; `made` and `pops` are history.

* Time is in whole milliseconds and `Tick` is always possible: a thread can be late
  by any amount. `try_pop` truncates the clock to milliseconds and compares
  strictly, and deltas are whole milliseconds, so a finer clock would add only
  different orders of elements due in the same millisecond. Here these are tied, and
  either may be on top.
* `delta` is uint32 and cast to int: `CInt` wraps at `2 * IntHalf`, and the run takes
  `IntHalf = 4` so that a delta of 6 is -2.
* The value popped is dropped by the program (the code that would use it,
  InteractiveTask.h:99-102, is commented out): the model's `read` drops it too.
* Constructing an element and pushing it are one step. Between the two, nothing
  else can see it, so this differs from the code only in the time that may pass;
  the properties are about elements that are queued.

`Schedule` is what the queue promises, without a queue: for an element that was
added, an invocation may happen when its next due time has passed and it has one
left; a task with `times` 0 always has, as the configuration says (yaml_api.cpp:24).
`PriorityQ` implements it under the mapping `added <- built, start <- made,
invoked <- pops`. Most of the reader's steps are stutters there.

### PeriodicTask, PeriodicGroup, PeriodicTask_proofs

The life of `N` tasks. `Construct(t)` is the next member initialiser of the task
under construction (seven of them: four of PeriodicTask's and InteractiveTask's that
the worker may race with have names, the three function members are counted);
`AssignControlBlock`, `SetName`, `EnterRoutine` are the worker's accesses to
`task_control_block`; `CheckEnd`, `Sleep`, `Read`, `ProcessData`, `Write` its loop;
`Finish` is `done = true`; `Return` leaves the thread. `StoreEnd`, `Join`,
`DropCallbacks`, `JoinThread` are main's end: the flag, the spin on `done`, the
destruction of the members declared after `periodic_task`, and the wait for the
thread that comes last.

A member read before its initialiser has run, or after its destructor has, is
undefined: the step may stop the process or may happen to do no harm. Torn reads of
the `shared_ptr` `task_control_block` while it is written are part of that choice: the
window is the same. `done` is a plain bool; the
build sets no optimisation level, so each turn of `join` reads it again.

`PeriodicGroup` is the owner's view, without threads: tasks are started in order, stopped
together once all run, make one more cycle at most, end, are joined in order and are freed
after the last join. PeriodicTask implements it: a task is `running` from the moment its
worker exists, `ended` from its store to `done` on, `joined` when main is past it and `freed`
when its destruction begins (`LifeOf`). Construction, the racing accesses, the cycles before
the stop and the wait in the destructor are stutters; a crash is the end of all steps.

### Workflow, MCWorkflow, Workflow_proofs

The path from a file to the running tables. A file is a sequence of entries;
`LoadFile` is `init` with its ignored failure, `LoadAction`, `LoadTask` and `LoadThrows`
one turn of `load_work` each, `Prepare` the pushing of the elements and the factory,
`Start` and `StartThrows` the motors of the functions and the engine table, and
`Execute(m)` one call of `execute_net_function` for engine `m`. The walk over
the functions in map order is `First`, `Called` and `Draws`. An attribute that is missing makes the
conversion throw (`complete` is FALSE); which one it is makes no difference.

### EngineControl, EngineControl_proofs

The value of one engine. `Read`, `ProcessEngines` or `ProcessMain`, and `Write` are the three
callbacks of a cycle of "Engines" and of "Main": `get_component_db` (which takes no
mutex), the tuner or the net function, `set_component_db`. `up` is the engine's entry
in `inc_dec_hash`, which the tuner turns when it computes, before it writes. `func` is the
function `execute_net_function` finds for the engine (Workflow says which): none, also when
only the dashboard is configured, or bend, or rotate. `stale` and `lost` are history: a write
is lost when a task writes back what it computed from a copy the other has
overwritten since. Engines do not read each other's values, and a single float is copied
whole, so a model of one engine says everything about a component of many.

Values are hundredths rounded down. The thresholds (0.01, 0.1, 0.9, 0.99) and the steps outside
the band (0.01) are whole hundredths, so these are exact; products may end in each of the
hundredths the exact product can be in; `Rotate` uses x - x^3/6 < sin x < x - x^3/8.
Single precision differs from this only for the few values that lie on the edge of a
hundredth (the float written 0.9f is less than 0.9, for one).

### SharedDB, MCSharedDB, SharedDB_proofs

The component database exported to shared memory, with `use_shared_memory::active`
set. (It is FALSE by default and nothing in the program sets it: the model is of the
program with the export switched on.) `LockComponent`, `WriteId`, `UnlockComponent`
are the locked loop of `set_component_db`, an id at a time; `CopyComponent` is
`get_all_values`, a component at a time under its own mutex; `LockShared`, `Clear`,
`Insert`, `UnlockShared` are `SharedMemoryWrapper::update`; `ReaderLock`, `ReaderCopy`,
`ReaderUnlock` are `retrieve`. Either process may be killed between any two steps; the
segment, the map and the mutex stay, and the boost mutex is not robust. A
value is the number of the write it comes from, so that a component is whole when all
its ids carry one number. The model starts after main has created and published both
components, because no component and no id is added after that.

### TidyRunner, MCTidyRunner, TidyRunner_proofs

`tools/run-clang-tidy.py` as a whole. The main thread goes through the phases
`find_compilation_database`, `find_binary`, `MakeDirectory`, `CheckInvocation`, `Load`,
`Put` and `EndFill`, `Join`, `merge_replacement_files`, `apply_fixes`, `Clean`;
`Interrupt`, `CleanUp` and `Kill` are Ctrl-C and its handler. `rmtree`, at the end and in the
handler, is two steps: the files it finds (`RemoveFiles`), then the directory
(`RemoveDirectory`), which fails if a thread has made a file in between. `Get`, `get_tidy_invocation`, `Communicate`, `Report` and `TaskDone` are
one turn of `run_tidy` in a thread; any of them that can raise may end the thread (`Die`)
without `task_done`. A Ctrl-C inside merge or apply goes to a bare `except`, which is their
failing branch. Paths are sequences of names, `make_absolute` joins and normalises
the relative ones and leaves absolute ones as they are; `selected` is the set of names that
the loop over `files` goes through, in which one file may stand under two names.

### FormatRunner, FormatFiles, FormatScript, LintReport, MCFormatScript, FormatScript_proofs

`tools/run-clang-format.py` in two parts and their composition. `FormatFiles` is
`excludes_from_file` and `list_files`: `TakeArgument` is a turn of the outer loop, `Walk` one
directory of `os.walk` with the lists the code trims in place. `FormatRunner` is the rest of
`main`: `Take`, `Open` and `Close` are a job (in a pool process, or in the main process for
`-j 1` and for a single file), `Noise` and `Block` what clang-format writes to its stderr pipe
while its stdout is read first, `Handle` a turn of the result loop (`Report`, or `WriteFails` if the report cannot be
written), `StopIteration` its end.
`FormatScript` runs the one, then the other, with the number of files the listing gave.
`LintReport` is the promise in the script's docstring, without processes: every file
reported once, in any order, and the worst code returned. It also says what the docstring
and the comments do not: a worker that lints alone stops at its first error of any kind.

### IwyuExecute, IwyuTool, Subsequence, IwyuTool_proofs

`IwyuExecute` is `execute` with its processes: `StartOne` and `FinishOne` for one job,
`Poll` (one process after another), `Collect` (those found complete) and `Schedule` for
several, `End` the end of a process at any time, also between two polls,
`StartRaises` and `PrintRaises` the exceptions nothing catches, which leave a round half
done. `UpTo` and `From` are Python's slices with their meaning for negative bounds, `Capacity` the
arithmetic of jobs and load, in halves so that `int()` has something to cut off. It
is an open component: its caller hands it any list (`Begin`). `IwyuTool` is `main`
around it: `Read` the database and `fixup_compilation_db`, `slice_compilation_db` with
`is_subpath_of`, one path of the selection in each step, `Convert` every entry, `Execute`,
`Exit`. A path is a sequence of characters, since that is what the code compares; what the
selection means is said without the comparison, by the directories a path is in (`Parents`).
`Subsequence` has the operator `Pick(s, S)`, what a sequence has at a set of places:
a list comprehension whose condition depends on the place, not on the element alone.

### WinSplit, ClangFormatter, IwyuText, MCIwyuTool

The text of iwyu_tool. `WinSplit` is `win_split`, an action per branch for one more
character; its property `SplitsLikeMsdn` defines the arguments again, position by position,
from the rules quoted in the code's comments. `ClangFormatter` is `clang_formatter`, an action
per branch for one more line. `IwyuText` puts the two one after the other, as every entry
of the database meets them. They are functions of a text, without a share in the state of the
processes: `MCIwyuTool` follows them beside a script that had nothing to do, and otherwise
explores `IwyuTool`.

## Runs

| Run | Module | States | What it shows |
|---|---|---|---|
| queue | MCPriorityQ | 323,614 | The value walk (`ValueSchedule`), no index out of range, each drain catches up (`NoInvocationLost`), order over all drains (`DueOrder`), no element is overtaken by more than what is due before it (`BoundedBypass`), and `Schedule` is implemented |
| queue_zero_times | PriorityQ_ZeroTimes | | violated: a task with `times: 0`, endless to the configuration, leaves the queue after one invocation |
| lifecycle | PeriodicTask | 99,190 | No use after destruction, the program ends, and `PeriodicGroup` is implemented, its one late cycle included |
| lifecycle_startup | PeriodicTask_Startup | | violated: the worker assigns its control block, the constructor sets it to null, the worker dereferences it |
| workflow | MCWorkflow | 8,026 | What a file becomes: the queue, the engine table, which function is called; only bad files stop the program; every configured motor is reached |
| workflow_action_motors | Workflow_ActionMotors | | violated with the shape of the shipped file: the engine configured for rotate is bent |
| engine | EngineControl | 1,826,325 | Excursions from the band are paid for by lost updates (`DriftNeedsLosses`), bend and rotate bound their engines (`FunctionsBound`), an engine out of phase with its direction stays so (`OffPhaseStays`), and without losses each excursion ends (`ExcursionEnds`) |
| shared | MCSharedDB | 161,046 | No torn snapshot, no half-filled map even after a kill, the script sees one update, an update shows its own write or a newer one, everyone returns unless the mutex was orphaned |
| shared_stale | SharedDB_Stale | | violated: with all writers idle the export may be older than the database |
| tidy | MCTidyRunner | 608,229 | The join is a barrier (`AllCheckedAfterJoin`), status 0 is true (`ZeroMeansClean`), the removal of the directory at the end cannot fail and leaves nothing (`DirectoryGone`), a file of a normalised database is started once (`StartedOnce`), and with threads to do the work only one that dies hangs the script |
| format | MCFormatScript | 989,644 | What is listed and how often (`ListsExactly`), exit code 0 is true, `LintReport` is implemented with a pool, one job and a negative `-j`, and a clang-format that blocks on its stderr pipe holds up its own file only, unless every job is blocked (`ReportsTheRest`) |
| iwyu | MCIwyuTool | 690,037 | Exactly the selected files run (`RunsSelection`), nothing is lost in slicing, every process is reported once and counts, with a job the script ends under any load; the one-pass splitter gives the arguments that the rules define, and each diagnostic names the file of its section |

### Bounds

* **queue**: two elements, all 64 pairs of eight inputs (several values with and without
  deltas, `times` 0, 2, 3 and endless, delta 0, 1, 2 and one that wraps, no values,
  too few deltas), and a clock up to 8. Two elements are enough for every
  comparison of the order properties, which relate two elements at a time; eight ticks
  make a period of 1 overdue many times within one sleep, so that an element of period 2 has
  several turns against it. That nobody starves is not left to the end of the clock:
  `BoundedBypass` bounds, in every state, what others are served before an element that
  waits, and its theorem holds for every `MaxTime`. The clock is the only
  counter that needs a bound: once it stops, the number of pops is bounded too, by
  the due times. A consequence is that a drain always ends in the model. An endless
  task whose period is shorter than the time one turn takes would keep `read` in its
  loop for ever in the program; the model does not say how long a turn takes and
  makes no claim about this.
* **lifecycle**: three tasks, which is what the program starts ("Engines", "Main",
  "PositionLoop"); no counter grows without bound (`late` is at most 1: `OneLateCycle`).
* **workflow**: all files of up to three of nine entries (among them two entries with one
  key, an unknown action, an incomplete entry, an action without motors), and the
  shape of configured/tasks.yaml with its five entries. The sets only grow with an
  entry, and a disagreement needs at most two entries before the one it is about.
* **engine**: the code's own thresholds; cycles overlap until two updates were lost
  (`MaxLost`), which is enough for a loss to act on the result of another one; "Main"
  starts no cycle on a value below -0.02 (`Depth`), because bend multiplies a negative
  value for ever.
* **shared**: the program's three writers on its two components, two ids, one write
  each, two runs of the script, a kill of each process at any point. Two ids and two
  components tell a torn copy from a whole one; three writers give every overtaking of
  two publishers with a third in its write. `CHECK_DEADLOCK FALSE`, because the system
  really stops: when all writes and reads were made, when a process was killed, and when
  a mutex was orphaned.
* **tidy**: two threads on four databases (one with a file under two names, one file
  outside the filter and two more; one with a single file twice; an empty one; one whose
  absolute names are not normalised, for which `StartedOnce` claims nothing and the file does
  run twice). Two threads
  and three tasks give a thread that works, one that dies and a task that nobody takes. The
  bound of the queue is the code's own (`Room`). `CHECK_DEADLOCK FALSE`: the script
  stops, and with dead threads it hangs, which is one of the results.
* **format**: a tree of three directories and four files under three ignore files, three
  `--exclude` options and six arguments, which give 0 to 5 files (`Counts`); `-j 0` on one
  processor is a pool of two processes, `-j 1` and a single file the case of the main
  process, `-j -1` a pool that cannot be made. A pipe of one unit with up to two to write can
  fill; more would fill it sooner.
  Three files and two jobs already give every order of results and a diff after an error.
* **iwyu**: six databases of up to four entries, seven selections (empty, overlapping, a
  path that is a prefix of another by characters only, with a trailing separator, not on
  disk), `-j` from -1 to 3, three load limits, four loads, three exit codes (one of them of
  a signal). With four commands and three jobs a round may start none, some or all.
  Of the texts: command lines of up to 7 of four kinds of characters, outputs of up to 4
  lines about two files. Seven characters hold an argument, a space and a quoted part with
  three backslashes; four lines hold two heads, an end mark and a text, in any order.

### Fairness

A thread that can take a step eventually takes one (`WF` per thread; the worker, the
main thread and the Python process are scheduled by the operating system), and
`sleep_for` returns. The queue's run needs no fairness: all it checks is safety. Nothing
obliges the script to start, or anyone to be killed. Mutexes get weak fairness only, on the thread and not on each of its
steps: liveness in SharedDB holds without a fair lock because the writes are bounded.
In EngineControl no order or ratio of the two tasks' cycles is assumed. In Workflow the fairness of `Execute(m)` stands for the cycles of "Main", about 50 in
the 5 s the program runs, each over all engines.

Of the scripts: the main thread of run-clang-tidy and each of its threads are scheduled and
every clang-tidy ends (its `Main` and `run_tidy(t)`); the pool of run-clang-format as a whole
makes progress and a clang-format ends unless its pipe is full; an include-what-you-use
process ends some time, and the polling loop of iwyu_tool goes on. Nothing forces a Ctrl-C,
an exception, or a write to stderr. No fairness is put on one load or another: `ToolEnds`
holds for any sequence of loads.

## Proofs

All are of the specification for any constants that satisfy the assumptions named in
the modules.

* **PriorityQ_proofs** (assumption `InputAssumption`: times are naturals or -1, deltas
  are uint32 of any width, values and deltas are sequences of integers, an endless
  task has a period that is a positive int). `OccurrenceBudget` is not inductive:
  a pop keeps the sum of what is left and what was served only for an element that is
  in the queue with something left, and an element not built yet must still be as
  its constructor's arguments say (`Fresh`). `NeverEarly` speaks of elements that were
  popped and needs `OnSchedule`, from which the strict comparison at the pop gives it.
  The inductive invariant is `Queueing`: TypeOK, Fresh, OccurrenceBudget, OnSchedule and
  NeverEarly together. It gives `TypeCorrect`, `BudgetHolds`, `NoDrift`, `NotBeforeDue`, and
  `QueueImplementsSchedule`, where `TryPop` maps to an invocation (the budget and the grid
  are exactly its guard), `Push` to an addition and everything else to a stutter.
  `IndexInRange` has its own invariant, `IndexInside`: the index is within the values of an
  element, whose number never changes. Four more theorems stand on `Queueing`.
  `NobodyStarves`: with periods that are not negative nothing queued is ever due before any
  element's last invocation was, since that one was on top; `ServedInOrder` reads off it that
  the next one popped comes no earlier, whatever is pushed or put back. `DrainsCatchUp`: a drain ends when
  nothing is due at the top; then nothing in the queue is due, because the due times
  have a lower bound (`Bounded`) and a set of naturals has a least element (the library's
  theorem on well-founded orders), and for an element that left the queue the counter never
  passed through -1 (`CountedOut`). `ValuesOnSchedule`: counting calls modulo the length is
  what the reset of the index does (`Walk`, with lemmas about division).
* **PeriodicTask_proofs** (assumption `N` positive). The invariant `Inv` is TypeOK with
  `Phases` (what each phase of main says of construction: tasks not under construction
  are complete or untouched, and after the building all are complete), `Stopping` (after
  the stop flag, joins and destructors; a `done` that is read TRUE after construction was
  written by the worker) and `Cycles` (a worker past the test of the flag makes its one
  late cycle). The point of the argument is that memory is uninitialised before step
  `DoneSet`, so `done` says nothing of the worker until then, and main reads it only after.
  `JoinedIsQuiescent`, `DestroyedIsQuiescent`, `OneLateCycle` and the action property
  `DoneNeverLost` follow. In the last the case to exclude is an initialiser that runs after
  the worker has finished: it cannot, since the flag is set when all tasks are built.
  `LoopsAreSafe` (which no run checks, as it follows from these) confines undefined behaviour
  to the construction: a callback in the loop finds its members built, and by
  `DestroyedIsQuiescent`'s argument not yet destroyed.
  `GroupRefinement`: `Stages` reads off `Inv` what life a task is in at each place of main and
  of its worker, and there is one lemma per kind of step. What it rests on is that nobody
  announces an end before the flag, and that the flag comes after the last construction.
* **EngineControl_proofs** (any bounds on losses and depth, so any number of losses). The
  invariant `Inv` pairs the tuner's direction with the value it belongs to (`Settling`: the
  tuner's copy while it has one, otherwise the shared value). A value going down is at most
  `High`, one going up at most one hundredth above it (`InPhase`), and a step outside the band
  exchanges the two. `MainCopy` says what the other task may write: without a function its
  copy is the value itself unless it is stale, and a stale write widens the range by a
  hundredth; with one, the result is far enough from the top to be in phase with both
  directions. It gives `DriftIsPaidFor`, `FunctionsAreBounds` and, with the tuner's step, the
  action property `NoRecovery`.
* **Workflow_proofs** (any keys, motors and set of files). The invariant `Shapes` /
  `Tables` / `Dispatched`: the motors of every stored task and action are within the two
  accumulated sets, what is queued or given to a function within the engine table, and what
  was applied to an engine is the one function that comes first for it. It gives
  `AllCovered` and `OneFunction`. A second invariant, `FileInv`, relates the
  tables to the file: either nothing was loaded (`Untouched`) or the tables are those of the
  entries read so far and `config` holds the others (`Follows`: the motors of a key are the
  union of all task entries down to its last one). `QueueIsOfFile` is its end,
  `OnlyBadFilesThrow` what `Stages` says of the phase in which the program stops.
  `TypeCorrect` needs no more than TypeOK.
* **SharedDB_proofs** (any writers, components, ids, writes and reads, either process killed
  anywhere). The invariant says who works under which mutex (`OwnInv`), that a component
  nobody writes is whole and one that is being written is new up to its writer's index
  (`DbInv`), that what a thread has copied is whole and not older than its own write
  (`SnapInv`), that the shared map is the last complete update unless a writer has the mutex,
  whose snapshot it then holds as far as it is filled (`SmInv`), and that the reader copies from
  that update (`ReadInv`). A writer that is killed keeps the mutex, so the half-filled map
  is never behind a free one.
* **TidyRunner_proofs** (any finite set of threads, empty included, any databases). The
  count of unfinished tasks is the length of the queue and the number of tasks held,
  by dead threads too (`Counting`); a selected file that was not checked is still to be
  put, queued or held (`Placed`). A count of zero then leaves only checked files, which
  is `BarrierSound`; behind the join no thread steps any more, which is also why the removal of
  the directory meets no new file there (`NoDirectoryLeft`). `Directory`, `Result` and `Output`
  give the others.
* **FormatScript_proofs** (any numbers of files, jobs, processors, any pipe; `ListingAssumption`
  says that the file system is a finite tree, where what is on the way from a directory to
  something in it is a directory). For the jobs: a file that was handed out is at one job, in one result or
  handled (`Known`, `Single`); an exception that ends the generator is on its way into the exit
  code (`Faults`). `SuccessIsTrue` and `Refinement`, each step a step of
  `LintReport` or a stutter, hold for every `-j`. With one job and several files the
  generator ends at the first error, which `Alone` ties to the exit code: nothing is taken
  after it, and `LintReport` finishes there as its `Broken` allows. For the walk (`FilesListed`): the invariant is a balance
  (`Balanced`). For each file, the times it was listed and the directories still to be visited
  that lead to it are together as many as the arguments taken so far that list it: an argument
  adds one to both sides or to none, a visited directory passes its part on to the one of its
  files and directories that lies on the way. `ScriptSuccess`, `ScriptRefinement` and
  `WalkIsFormatted` are about the composition: the runner has the number of files that the
  finished walk has listed, so an exit code 0 speaks of the listed files.
* **IwyuTool_proofs** (any databases whose paths are canonical, `ToolAssumption`, any
  selection, `-j`, limit, loads and codes). First `execute` under any caller. A slice up to a
  bound and the slice from it are the list, also for a negative bound (`SlicesRejoin`),
  which gives `ListPreserved`. `AllReported`: until something is raised, what is pending was not
  printed, what is not was printed once and its code counts (`Accounts`). Then the script: each
  of its steps is one of these for a list of commands (`ToolCallsExecute`), so both hold in it
  (`ToolReportsAll`, `ToolDropsNone`). `SelectionRuns` needs that a path is inside another exactly
  if the comparison of characters says so (`SubpathIsInside`, with the separators and the root),
  that picking entries takes those and no others (`PickTakes`), and the invariant `Selects`: after n
  paths of the selection the database holds the entries of these, and what is converted, still
  to start or started are the files of the selection. `SectionsReported` is about the formatter,
  line by line (`TextInv`): the state is what the last head or end mark makes it, and for each
  file the additions and removals reported are as many as the lines of text below its heads. `LinesSplit`
  is about the splitter, character by character, and its point is that the rules of MSDN look ahead
  and the loop does not: what a backslash means is open until the run it is in has ended. The
  invariant (`Reads`) splits the piece being read into what is settled and the run at its end,
  which is what `arg` and `backslashes` hold; a character can change the meaning of that run and
  of nothing before it (`StaysStays`), so the arguments yielded are final (`SeparatorsStay`); and a
  mark settles the first half of the run (`HalfStays`, `QuoteSettles`). What a sequence has at
  a set of places, when places are added behind it, is the lemma all of this rests on (`PickGoesOn`).

Only model-checked: all liveness (`StopEndsProgram`, `ActionsReachMotors`,
`ExcursionEnds`, `CallsReturnUnlessOrphaned`, `EndsUnlessThreadDies`, `ReportsTheRest`,
`ToolEnds`), which is out of the prover's reach, and `StartedOnce`, whose normal form of a
path is a fold. Every other invariant and action property of a passing run, and every
refinement, is also proved.

## Disagreements found

1. A worker that has assigned its control block may find it null again, because the
   constructor that started it initialises that member only afterwards (PeriodicTask.h:66,
   100-106; lifecycle_startup). The models also have the assignment to the member before it
   is initialised, and the use of callbacks that do not exist yet.
2. The motors of an action include those of all earlier actions, and the first function in
   map order wins: with the shipped file the engine configured for rotate is bent
   (workflow_action_motors).
3. `times: 0` is endless to the configuration (`is_infinite`, yaml_api.cpp:24) and
   configured/tasks.yaml:10 uses it so; the queue invokes such a task once
   (PriorityQueueElement.h:65; queue_zero_times).
4. A delayed publisher overwrites a newer export with an older one, and it stays until
   some other write (shared_stale).

Three more places say something else than the code does; the models have what the code
does, no property claims the first two either way, and `LintReport` states the third as it is:

* The motors of a task include those of all earlier tasks (yaml_api.cpp:92-121), while
  tasks.yaml:9 gives net_function_2 motor 3 alone. It is the accumulation of disagreement 2,
  and `QueueMatchesFile` leaves open which motors beside its own a task moves.
* A last argument of backslashes alone is lost (iwyu_tool.py:194), although "backslashes are
  interpreted literally, unless they immediately precede a double quotation mark"
  (iwyu_tool.py:162-164). `SplitsLikeMsdn` makes no claim about such an argument.
* run-clang-format takes `-j 1` for the same lint with less overhead and simpler stack traces
  (run-clang-format.py:366-367), and only an unexpected error is meant to stop it (388-390).
  With one job any error does, since it ends the generator (368): the files after it are not
  reported. Exit code 0 stays true, as the error has been counted.

Seen on the way and part of the models, though we found no text that says otherwise:

* A task without the optional `values` makes `get_value` leave its vectors (`NoOutOfRange` is
  about elements that have them).
* An engine without a function that "Main" writes back at the wrong moment is put out of
  phase, and the tuner then steps between two values outside its band until another lost
  update happens to put it back.
* run-clang-tidy: a thread that dies of an exception leaves its task counted and the join
  waits for ever (lines 197-217, 361), as it does with a negative `-j`, which starts no thread
  (no run has that case; the proofs include it);
  the exit status of clang-apply-replacements is ignored (line 189); a run that is refused after
  `mkdtemp` leaves its directory, as does one interrupted while a thread makes a file in it; an
  absolute name that is not normalised is a second name of its file, which then runs twice
  (lines 87-88).
* run-clang-format: a full stderr pipe blocks clang-format and the script with it (line
  190); an unreadable ignore file, or a diff that cannot be written, ends in an exception, whose
  status 1 means "diff" elsewhere;
  `pool.terminate` may leave a clang-format behind.
* iwyu_tool: with `-j 0` or less no command starts and the loop goes on for ever (line 383);
  overlapping paths of a selection run an entry twice (line 358); a superfluous line without line numbers meets a match
  that is None (line 94).

## Not modelled

The dashboard's drawing, logging, timers and the terminal layout are output only, as are
the diffs, colours and help texts of the scripts and the options they only pass on. The
camera code, `Storage` and `SimpleBoostSharedMemory` serve tests; the thread-safe queue is
declared but nothing uses it. The YAML and JSON parsers, boost, the operating system's threads and
processes, clang-tidy, clang-format and include-what-you-use are external and appear by their
effect. The failure of `init_sm` and of an allocation in the segment are left out: the code ignores
both, and what a segment does that was not opened or is full is not in it. The walk of
`PositionLoop`'s noise is a random walk with one writer and no bound. PROJECT.json says for
every part what is and is not modelled.

## Plan

What was planned and is done: the core (queue, life cycle, configuration, engines,
database), its proofs including SharedDB and the order and completeness of the drains, and
the three scripts. What could follow, in this order:

1. The composition of queue and life cycle: what is still queued when the stop flag is set.
2. **ThreadSafeQueue** with an abstract FIFO it implements, once a part of the program uses it.
3. Failures of shared memory, should the code come to handle them.
