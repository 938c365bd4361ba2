----------------------------- MODULE TidyRunner -----------------------------
(***************************************************************************)
(* tools/run-clang-tidy.py: a main thread that fills a bounded queue with  *)
(* file names, daemon threads that run clang-tidy on them, a temporary     *)
(* directory for the fixes, and the three ways the script can end: its own *)
(* exit, Ctrl-C with the kill of its process group, an uncaught exception. *)
(*                                                                         *)
(* External and nondeterministic: whether the programs exist and start,    *)
(* how clang-tidy ends, whether it writes fixes, whether its output can be *)
(* decoded, whether merging and applying succeed.                          *)
(***************************************************************************)
EXTENDS Integers, Sequences, FiniteSets

LOCAL INSTANCE SequencesExt

CONSTANTS Workers,    \* the threads started, one for each of range(max_task)
          Databases,  \* the compilation databases: sequences of [file, directory]
          Matching,   \* the absolute paths that file_name_re finds
          NoFile      \* what a thread holds while it has no task

\* A negative -j starts no thread at all, hence no assumption that there is one.
ASSUME TidyAssumption == IsFiniteSet(Workers) /\ NoFile \notin Matching

VARIABLES args,         \* the options that matter: [fix, export_fixes]
          main,         \* where the main thread is
          return_code,
          tmpdir,       \* the temporary directory exists
          temps,        \* tasks that have a .yaml file in it
          fixes,        \* tasks whose .yaml file holds suggested fixes
          database,     \* the entries of the compilation database
          selected,     \* the names it gives its files, those that match
          toPut,        \* those the main thread has yet to put
          task_queue,
          unfinished,   \* the queue's count of tasks put and not task_done
          worker,       \* where each thread is
          name,         \* the task each thread holds
          failed_files,
          checked,      \* history: tasks whose clang-tidy was run to its end
          exported,     \* history: the fixes written to the export file
          applied       \* history: "no", "yes", or "failed" by its exit status

output  == <<exported, applied>>
disk    == <<tmpdir, temps, fixes>>
threads == <<worker, name, failed_files, checked>>
tasks   == <<database, selected, toPut, task_queue, unfinished>>
vars    == <<args, main, return_code, disk, tasks, threads, output>>
-----------------------------------------------------------------------------
Ended    == {"exited", "killed", "crashed", "refused"}
PastJoin == {"export", "apply", "clean", "clean_dir", "exited"}
Phases   == {"start", "find_tidy", "find_apply", "mkdtemp", "check", "load", "fill",
             "join", "interrupt", "rmdir", "kill"}
              \cup PastJoin \cup Ended

\* os.path.normpath, one component at a time: ".." goes up and stops at the root.
Normal(path, part) ==
  IF part # ".." THEN Append(path, part) ELSE IF path = <<>> THEN <<>> ELSE Front(path)

\* Faulty variant: joined, but not normalised.
make_absolute_Joined(f, directory) ==
  IF f.abs THEN f ELSE [abs |-> TRUE, parts |-> directory.parts \o f.parts]

\* Paths are absolute or not and a sequence of components; only the paths that
\* are joined with their directory are normalised.
make_absolute(f, directory) ==
  IF f.abs THEN f
  ELSE [abs |-> TRUE, parts |-> FoldLeft(Normal, <<>>, directory.parts \o f.parts)]

\* The set of the names of the entries that the regular expression matches.
Selected(entries) ==
  {make_absolute(e.file, e.directory) : e \in ToSet(entries)} \cap Matching

UsesTmpdir == args.fix \/ args.export_fixes
Running    == main \notin Ended
Holding    == {t \in Workers : worker[t] # "idle"}
Dead       == {t \in Workers : worker[t] = "dead"}

\* queue.Queue(max_task): a size that is not positive means no bound.
Room == Workers = {} \/ Len(task_queue) < Cardinality(Workers)
-----------------------------------------------------------------------------
Init ==
  /\ args \in [fix : BOOLEAN, export_fixes : BOOLEAN]
  /\ main = "start"
  /\ return_code = 0
  /\ tmpdir = FALSE /\ temps = {} /\ fixes = {}
  /\ database = <<>> /\ selected = {} /\ toPut = {} /\ task_queue = <<>> /\ unfinished = 0
  /\ worker = [t \in Workers |-> "idle"]
  /\ name = [t \in Workers |-> NoFile]
  /\ failed_files = {} /\ checked = {}
  /\ exported = {} /\ applied = "no"

Goto(place) == main' = place /\ UNCHANGED return_code
Fail(place) == main' = place /\ return_code' = 1

\* Without -p, the database is looked for upwards from the current directory.
find_compilation_database ==
  /\ main = "start"
  /\ Fail("refused") \/ Goto("find_tidy")
  /\ UNCHANGED <<args, disk, tasks, threads, output>>

\* A program that was named, or is in the PATH or below the build directory; or
\* SystemExit. The second one is looked for only when there will be fixes.
find_binary ==
  /\ \/ main = "find_tidy" /\ (Fail("refused") \/ Goto(IF UsesTmpdir THEN "find_apply" ELSE "check"))
     \/ main = "find_apply" /\ (Fail("refused") \/ Goto("mkdtemp"))
  /\ UNCHANGED <<args, disk, tasks, threads, output>>

MakeDirectory ==
  /\ main = "mkdtemp"
  /\ tmpdir' = TRUE
  /\ Goto("check")
  /\ UNCHANGED <<args, temps, fixes, tasks, threads, output>>

\* clang-tidy is called once to see that it can be: sys.exit(1) leaves the directory.
CheckInvocation ==
  /\ main = "check"
  /\ Fail("refused") \/ Goto("load")
  /\ UNCHANGED <<args, disk, tasks, threads, output>>

Load ==
  /\ main = "load"
  /\ \/ /\ database' \in Databases
        /\ selected' = Selected(database')
        /\ Goto("fill")
        /\ toPut' = selected'
     \/ Fail("crashed") /\ UNCHANGED <<database, selected, toPut>>
  /\ UNCHANGED <<args, disk, task_queue, unfinished, threads, output>>

Put ==
  /\ main = "fill"
  /\ Room
  /\ \E f \in toPut : toPut' = toPut \ {f} /\ task_queue' = Append(task_queue, f)
  /\ unfinished' = unfinished + 1
  /\ UNCHANGED <<args, main, return_code, disk, database, selected, threads, output>>

EndFill ==
  /\ main = "fill" /\ toPut = {}
  /\ Goto("join")
  /\ UNCHANGED <<args, disk, tasks, threads, output>>

Join_QueueEmpty ==
  /\ main = "join"
  /\ task_queue = <<>>
  /\ main' = "export"
  /\ return_code' = IF failed_files # {} THEN 1 ELSE 0
  /\ UNCHANGED <<args, disk, tasks, threads, output>>

Join_Forgets ==
  /\ main = "join"
  /\ unfinished = 0
  /\ Goto("export")
  /\ UNCHANGED <<args, disk, tasks, threads, output>>

\* queue.join returns when each task put has had its task_done.
Join ==
  /\ main = "join"
  /\ unfinished = 0
  /\ main' = "export"
  /\ return_code' = IF failed_files # {} THEN 1 ELSE 0
  /\ UNCHANGED <<args, disk, tasks, threads, output>>

merge_replacement_files ==
  /\ main = "export"
  /\ \/ /\ exported' = IF args.export_fixes THEN fixes \cap temps ELSE exported
        /\ Goto("apply")
     \/ args.export_fixes /\ Fail("apply") /\ UNCHANGED exported
  /\ UNCHANGED <<args, disk, tasks, threads, applied>>

\* subprocess.call gives back an exit status that nobody looks at.
apply_fixes ==
  /\ main = "apply"
  /\ \/ /\ applied' \in IF args.fix THEN {"yes", "failed"} ELSE {applied}
        /\ Goto("clean")
     \/ args.fix /\ Fail("clean") /\ UNCHANGED applied
  /\ UNCHANGED <<args, disk, tasks, threads, exported>>

\* shutil.rmtree, at the end and in the handler: the files found are unlinked, then the
\* directory is removed, ...
RemoveFiles(last, end) ==
  /\ temps' = {}
  /\ Goto(IF tmpdir THEN last ELSE end)
  /\ UNCHANGED <<args, tmpdir, fixes, tasks, threads, output>>

\* ... which raises when a thread has made a file in it meanwhile.
RemoveDirectory(end) ==
  /\ \/ temps = {} /\ tmpdir' = FALSE /\ Goto(end)
     \/ temps # {} /\ Fail("crashed") /\ UNCHANGED tmpdir
  /\ UNCHANGED <<args, temps, fixes, tasks, threads, output>>

Clean ==
  \/ main = "clean" /\ RemoveFiles("clean_dir", "exited")
  \/ main = "clean_dir" /\ RemoveDirectory("exited")
-----------------------------------------------------------------------------
\* Ctrl-C. The handler is around the filling and the join; in merge and apply a
\* bare except takes it (their failing branch), in the first call too.
Interrupt ==
  /\ \/ main \in {"fill", "join"} /\ Goto("interrupt")
     \/ main \in {"start", "find_tidy", "find_apply", "mkdtemp", "load", "clean", "clean_dir",
                 "interrupt", "rmdir"} /\ Fail("crashed")
  /\ UNCHANGED <<args, disk, tasks, threads, output>>

\* In the handler the threads go on while the directory is removed.
CleanUp ==
  \/ main = "interrupt" /\ RemoveFiles("rmdir", "kill")
  \/ main = "rmdir" /\ RemoveDirectory("kill")

\* os.kill(0, 9): the whole process group, this process included.
Kill ==
  /\ main = "kill"
  /\ Goto("killed")
  /\ UNCHANGED <<args, disk, tasks, threads, output>>
-----------------------------------------------------------------------------
\* run_tidy, the routine of a thread.
Get(t) ==
  /\ Running /\ worker[t] = "idle"
  /\ task_queue # <<>>
  /\ name' = [name EXCEPT ![t] = Head(task_queue)]
  /\ task_queue' = Tail(task_queue)
  /\ worker' = [worker EXCEPT ![t] = "making"]
  /\ UNCHANGED <<args, main, return_code, disk, database, selected, toPut, unfinished,
                 failed_files, checked, output>>

\* The routine has no handler: an exception ends the thread without task_done.
Die(t) == worker' = [worker EXCEPT ![t] = "dead"]

\* The file for the fixes is made, if there is a directory for it, and clang-tidy started.
get_tidy_invocation(t) ==
  /\ Running /\ worker[t] = "making"
  /\ \/ /\ UsesTmpdir => tmpdir
        /\ temps' = IF UsesTmpdir THEN temps \cup {name[t]} ELSE temps
        /\ worker' = [worker EXCEPT ![t] = "running"] \/ Die(t)
     \/ UsesTmpdir /\ ~tmpdir /\ Die(t) /\ UNCHANGED temps
  /\ UNCHANGED <<args, main, return_code, tmpdir, fixes, tasks, name, failed_files, checked,
                 output>>

\* communicate returns: clang-tidy has ended, well or not, with or without fixes.
Communicate(t) ==
  /\ Running /\ worker[t] = "running"
  /\ worker' = [worker EXCEPT ![t] = "reporting"]
  /\ checked' = checked \cup {name[t]}
  /\ failed_files' \in {failed_files, failed_files \cup {name[t]}}
  /\ \/ tmpdir /\ fixes' = fixes \cup {name[t]} /\ temps' = temps \cup {name[t]}
     \/ UNCHANGED <<fixes, temps>>
  /\ UNCHANGED <<args, main, return_code, tmpdir, tasks, name, output>>

\* The output is printed under the lock; bytes that are no UTF-8 end the thread there
\* (and give the lock back).
Report(t) ==
  /\ Running /\ worker[t] = "reporting"
  /\ worker' = [worker EXCEPT ![t] = "reported"] \/ Die(t)
  /\ UNCHANGED <<args, main, return_code, disk, tasks, name, failed_files, checked, output>>

TaskDone_Forgotten(t) ==
  /\ Running /\ worker[t] = "reported"
  /\ worker' = [worker EXCEPT ![t] = "idle"]
  /\ name' = [name EXCEPT ![t] = NoFile]
  /\ UNCHANGED <<args, main, return_code, disk, tasks, failed_files, checked, output>>

TaskDone(t) ==
  /\ Running /\ worker[t] = "reported"
  /\ unfinished' = unfinished - 1
  /\ worker' = [worker EXCEPT ![t] = "idle"]
  /\ name' = [name EXCEPT ![t] = NoFile]
  /\ UNCHANGED <<args, main, return_code, disk, database, selected, toPut, task_queue,
                 failed_files, checked, output>>

run_tidy(t) ==
  Get(t) \/ get_tidy_invocation(t) \/ Communicate(t) \/ Report(t) \/ TaskDone(t)

Main ==
  \/ find_compilation_database \/ find_binary \/ MakeDirectory \/ CheckInvocation
  \/ Load \/ Put \/ EndFill \/ Join
  \/ merge_replacement_files \/ apply_fixes \/ Clean \/ CleanUp \/ Kill

Next == Main \/ Interrupt \/ \E t \in Workers : run_tidy(t)

\* The threads are scheduled, and every clang-tidy ends.
Spec == Init /\ [][Next]_vars /\ WF_vars(Main) /\ \A t \in Workers : WF_vars(run_tidy(t))
-----------------------------------------------------------------------------
TypeOK ==
  /\ args \in [fix : BOOLEAN, export_fixes : BOOLEAN]
  /\ main \in Phases
  /\ return_code \in {0, 1}
  /\ tmpdir \in BOOLEAN
  /\ selected \subseteq Matching /\ toPut \subseteq selected
  /\ task_queue \in Seq(selected) /\ unfinished \in Nat
  /\ worker \in [Workers -> {"idle", "making", "running", "reporting", "reported", "dead"}]
  /\ name \in [Workers -> Matching \cup {NoFile}]
  /\ \A t \in Workers : IF worker[t] = "idle" THEN name[t] = NoFile ELSE name[t] \in selected
  /\ failed_files \subseteq checked /\ checked \subseteq selected
  /\ temps \subseteq selected /\ fixes \subseteq checked /\ exported \subseteq fixes
  /\ applied \in {"no", "yes", "failed"}

\* The join of the queue is a sound barrier: behind it every selected file was run
\* through clang-tidy, and no thread holds a task, not even one that died.
AllCheckedAfterJoin == main \in PastJoin => checked = selected /\ Holding = {}

\* Exit status 0 is never a false success: all files were run, none failed, and the
\* export file, if one was asked for, holds every fix that was suggested.
ZeroMeansClean ==
  main = "exited" /\ return_code = 0 =>
    /\ checked = selected /\ failed_files = {}
    /\ args.export_fixes => exported = fixes

\* Fixes are exported or applied only after all files, never from the part that a
\* Ctrl-C or a dying thread left behind.
AppliesOnlyWhenComplete ==
  exported # {} \/ applied # "no" => checked = selected /\ Holding = {}

\* At the end of a run the temporary directory is removed, and the removal cannot fail,
\* though the threads live on: none makes a file between its two halves. (A Ctrl-C is
\* another matter: there the removal may fail and leave the directory, unless the run
\* ends as killed; and a refused run leaves it, too.)
DirectoryGone ==
  /\ main = "clean_dir" => temps = {}
  /\ main \in {"exited", "killed"} => ~tmpdir /\ temps = {}

\* The file that a name stands for, and the databases that write every absolute name in
\* the shortest form, as cmake does.
Canonical(f) == FoldLeft(Normal, <<>>, f.parts)
Normalised(entries) ==
  \A e \in ToSet(entries) : e.file.abs => e.file.parts = Canonical(e.file)

\* clang-tidy is started at most once for a file, whatever number of entries such a
\* database has for it and under whatever names: with -fix, a second run would suggest
\* the same fixes again. (An absolute name that is not normalised is taken as it is, and
\* its file may be run twice.)
StartedOnce ==
  [][Normalised(database) =>
       \A t \in Workers : worker[t] = "making" /\ worker'[t] = "running" =>
         \A f \in checked \cup {name[u] : u \in Holding \ {t}} :
           Canonical(f) # Canonical(name[t])]_vars

\* The script ends, unless a thread dies of an exception.
EndsUnlessThreadDies == <>(main \in Ended \/ Dead # {})
=============================================================================
