------------------------- MODULE TidyRunner_proofs -------------------------
(* Proofs about TidyRunner, for any number of threads and any databases. *)
EXTENDS TidyRunner, FiniteSetTheorems, SequenceTheorems, TLAPS

\* Nothing is selected before the database is loaded, so no task exists either.
Early ==
  main \in {"start", "find_tidy", "find_apply", "mkdtemp", "check", "load"} => selected = {}

\* The count that join waits for: the tasks in the queue and those the threads hold.
Counting == unfinished = Len(task_queue) + Cardinality(Holding)

\* Where a selected file can be.
ToBePut(f) == f \in toPut
Queued(f)  == \E i \in 1 .. Len(task_queue) : task_queue[i] = f
Held(f)    == \E t \in Workers : worker[t] # "idle" /\ name[t] = f

\* No task gets lost: a selected file that was not checked is on its way to it.
Placed ==
  /\ \A f \in selected : ToBePut(f) \/ Queued(f) \/ Held(f) \/ f \in checked
  /\ \A t \in Workers : worker[t] \in {"reporting", "reported"} => name[t] \in checked

\* Behind the join nothing is left to do.
Barrier ==
  /\ main \in {"join"} \cup PastJoin => toPut = {}
  /\ main \in PastJoin => unfinished = 0

\* The exit code and the export file tell the result.
Result ==
  /\ main \in PastJoin /\ return_code = 0 => failed_files = {}
  /\ main \in {"apply", "clean", "clean_dir", "exited"} /\ return_code = 0 /\ args.export_fixes =>
       exported = fixes
  /\ main \notin {"clean_dir", "rmdir", "kill"} \cup Ended => fixes \subseteq temps

\* Fixes leave the directory only behind the join.
Output ==
  exported # {} \/ applied # "no" =>
    main \in PastJoin \cup {"crashed"} /\ toPut = {} /\ unfinished = 0

Directory ==
  /\ ~tmpdir => temps = {}
  /\ main \in {"kill", "killed", "exited"} => ~tmpdir
  /\ main = "clean_dir" => temps = {}

\* The inductive invariant.
IInv ==
  TypeOK /\ Early /\ Counting /\ Placed /\ Barrier /\ Result /\ Output /\ Directory

\* The initial states satisfy it.
LEMMA InitInv == Init => IInv
<1> SUFFICES ASSUME Init PROVE IInv
  OBVIOUS
<1>1. Holding = {}
  BY DEF Init, Holding
<1>2. Counting
  BY <1>1, FS_EmptySet DEF Init, Counting
<1>3. TypeOK
  <2>1. worker \in [Workers -> {"idle", "making", "running", "reporting", "reported", "dead"}]
    BY DEF Init
  <2>2. \A t \in Workers : IF worker[t] = "idle" THEN name[t] = NoFile ELSE name[t] \in selected
    BY DEF Init
  <2>3. task_queue \in Seq(selected) /\ unfinished \in Nat /\ toPut \subseteq selected
    BY DEF Init
  <2>4. args \in [fix : BOOLEAN, export_fixes : BOOLEAN] /\ tmpdir \in BOOLEAN
        /\ name \in [Workers -> Matching \cup {NoFile}]
    BY DEF Init
  <2> QED
    BY <2>1, <2>2, <2>3, <2>4 DEF Init, TypeOK, Phases
<1>4. Early /\ Placed /\ Barrier /\ Result /\ Output /\ Directory
  BY DEF Init, Early, Placed, Barrier, Result, Output, Directory, PastJoin, Ended
<1> QED
  BY <1>2, <1>3, <1>4 DEF IInv

\* A step touches the tasks or the threads only in one of these ways.
LEMMA Steps ==
  ASSUME [Next]_vars
  PROVE  \/ Load \/ Put
         \/ \E t \in Workers : run_tidy(t)
         \/ UNCHANGED <<args, tasks, threads>>
BY DEF Next, Main, Interrupt, vars, find_compilation_database, find_binary, MakeDirectory,
       CheckInvocation, EndFill, Join, merge_replacement_files, apply_fixes, Clean, CleanUp,
       RemoveFiles, RemoveDirectory, Kill

\* The count is right: by the steps that put, get and finish tasks.
LEMMA CountingStays ==
  ASSUME IInv, [Next]_vars
  PROVE  Counting'
<1> USE DEF IInv
<1>0. /\ IsFiniteSet(Workers) /\ IsFiniteSet(Holding) /\ Cardinality(Holding) \in Nat
      /\ task_queue \in Seq(selected) /\ unfinished \in Nat
  BY TidyAssumption, FS_Subset, FS_CardinalityType DEF Holding, TypeOK
<1>1. CASE Load
  BY <1>1 DEF Load, Counting, Holding, threads
<1>2. CASE Put
  <2>1. \E f \in selected : task_queue' = Append(task_queue, f)
    BY <1>2 DEF Put, TypeOK
  <2>2. Len(task_queue') = Len(task_queue) + 1
    BY <1>0, <2>1
  <2>3. Holding' = Holding /\ unfinished' = unfinished + 1
    BY <1>2 DEF Put, Holding, threads
  <2> QED
    BY <1>0, <2>2, <2>3 DEF Counting
<1>3. ASSUME NEW t \in Workers, Get(t) PROVE Counting'
  <2>1. Holding' = Holding \cup {t} /\ t \notin Holding
    BY <1>3 DEF Get, Holding, TypeOK
  <2>2. Cardinality(Holding') = Cardinality(Holding) + 1
    BY <1>0, <2>1, FS_AddElement
  <2>3. Len(task_queue') = Len(task_queue) - 1 /\ Len(task_queue) \in Nat
    BY <1>0, <1>3 DEF Get
  <2> QED
    BY <1>0, <1>3, <2>2, <2>3 DEF Get, Counting
<1>4. ASSUME NEW t \in Workers, TaskDone(t) PROVE Counting'
  <2>1. Holding' = Holding \ {t} /\ t \in Holding
    BY <1>4 DEF TaskDone, Holding, TypeOK
  <2>2. Cardinality(Holding') = Cardinality(Holding) - 1
    BY <1>0, <2>1, FS_RemoveElement
  <2>3. Len(task_queue) \in Nat /\ task_queue' = task_queue /\ unfinished' = unfinished - 1
    BY <1>0, <1>4 DEF TaskDone
  <2> QED
    BY <1>0, <2>2, <2>3 DEF Counting
<1>5. ASSUME NEW t \in Workers, get_tidy_invocation(t) \/ Communicate(t) \/ Report(t)
      PROVE  Counting'
  <2>1. Holding' = Holding
    BY <1>5 DEF get_tidy_invocation, Communicate, Report, Die, Holding, TypeOK
  <2> QED
    BY <1>5, <2>1 DEF get_tidy_invocation, Communicate, Report, Counting, tasks
<1>6. CASE UNCHANGED <<args, tasks, threads>>
  BY <1>6 DEF Counting, Holding, tasks, threads
<1> QED
  BY <1>1, <1>2, <1>3, <1>4, <1>5, <1>6, Steps DEF run_tidy

\* The steps of the main thread that leave tasks and threads alone keep the types.
LEMMA TypeMain ==
  ASSUME IInv, Main \/ Interrupt, ~Load, ~Put
  PROVE  TypeOK'
<1> USE DEF IInv
<1>1. UNCHANGED <<args, tasks, threads>>
  BY DEF Main, Interrupt, find_compilation_database, find_binary, MakeDirectory,
         CheckInvocation, EndFill, Join, merge_replacement_files, apply_fixes, Clean, CleanUp,
         RemoveFiles, RemoveDirectory, Kill
<1>2. main' \in Phases /\ return_code' \in {0, 1}
  BY DEF TypeOK, Main, Interrupt, find_compilation_database, find_binary, MakeDirectory,
         CheckInvocation, EndFill, Join, merge_replacement_files, apply_fixes, Clean, CleanUp,
         RemoveFiles, RemoveDirectory, Kill, Goto, Fail, Phases, PastJoin, Ended
<1>3. tmpdir' \in BOOLEAN /\ temps' \subseteq selected /\ fixes' = fixes
  BY DEF TypeOK, Main, Interrupt, find_compilation_database, find_binary, MakeDirectory,
         CheckInvocation, EndFill, Join, merge_replacement_files, apply_fixes, Clean, CleanUp,
         RemoveFiles, RemoveDirectory, Kill, disk
<1>4. exported' \subseteq fixes /\ applied' \in {"no", "yes", "failed"}
  BY DEF TypeOK, Main, Interrupt, find_compilation_database, find_binary, MakeDirectory,
         CheckInvocation, EndFill, Join, merge_replacement_files, apply_fixes, Clean, CleanUp,
         RemoveFiles, RemoveDirectory, Kill, output
<1> QED
  BY <1>1, <1>2, <1>3, <1>4 DEF TypeOK, tasks, threads

\* Reading and filling keep the types.
LEMMA TypeTasks ==
  ASSUME IInv, Load \/ Put
  PROVE  TypeOK'
<1> USE DEF IInv
<1>1. CASE Load
  <2>1. selected = {}
    BY <1>1 DEF Load, Early
  <2>2. selected' \subseteq Matching /\ toPut' \subseteq selected'
    BY <1>1, <2>1 DEF Load, Selected, TypeOK
  <2>3. task_queue' \in Seq(selected')
    BY <1>1, <2>1, ElementOfSeq DEF Load, TypeOK
  <2>4. \A t \in Workers : worker[t] = "idle" /\ name[t] = NoFile
    BY <2>1 DEF TypeOK
  <2>5. main' \in Phases /\ return_code' \in {0, 1}
    BY <1>1 DEF Load, Goto, Fail, Phases, Ended, TypeOK
  <2> QED
    BY <1>1, <2>1, <2>2, <2>3, <2>4, <2>5 DEF Load, TypeOK, disk, threads, output
<1>2. CASE Put
  <2>1. \E f \in selected : task_queue' = Append(task_queue, f)
    BY <1>2 DEF Put, TypeOK
  <2>2. task_queue' \in Seq(selected)
    BY <2>1 DEF TypeOK
  <2> QED
    BY <1>2, <2>2 DEF Put, TypeOK, disk, threads, output
<1> QED
  BY <1>1, <1>2

\* The routine of a thread keeps the types.
LEMMA TypeThread ==
  ASSUME IInv, NEW t \in Workers, run_tidy(t)
  PROVE  TypeOK'
<1> USE DEF IInv
<1>1. CASE Get(t)
  <2>1. Head(task_queue) \in selected /\ task_queue' \in Seq(selected)
    BY <1>1 DEF Get, TypeOK
  <2>2. worker' = [worker EXCEPT ![t] = "making"] /\ name' = [name EXCEPT ![t] = Head(task_queue)]
    BY <1>1 DEF Get
  <2>3. \A u \in Workers : IF worker'[u] = "idle" THEN name'[u] = NoFile ELSE name'[u] \in selected
    BY <2>1, <2>2 DEF TypeOK
  <2>4. name' \in [Workers -> Matching \cup {NoFile}]
    BY <2>1, <2>2 DEF TypeOK
  <2> QED
    BY <1>1, <2>1, <2>2, <2>3, <2>4 DEF Get, TypeOK, disk, output
<1>2. CASE get_tidy_invocation(t)
  <2>1. name[t] \in selected
    BY <1>2 DEF get_tidy_invocation, TypeOK
  <2>2. temps' \subseteq selected
    BY <1>2, <2>1 DEF get_tidy_invocation, TypeOK
  <2>3. worker' = [worker EXCEPT ![t] = "running"] \/ worker' = [worker EXCEPT ![t] = "dead"]
    BY <1>2 DEF get_tidy_invocation, Die
  <2>4. worker' \in [Workers -> {"idle", "making", "running", "reporting", "reported", "dead"}]
    BY <2>3 DEF TypeOK
  <2>5. \A u \in Workers : IF worker'[u] = "idle" THEN name[u] = NoFile ELSE name[u] \in selected
    BY <2>1, <2>3 DEF TypeOK
  <2> QED
    BY <1>2, <2>2, <2>4, <2>5 DEF get_tidy_invocation, TypeOK, tasks, output
<1>3. CASE Communicate(t)
  <2>1. name[t] \in selected
    BY <1>3 DEF Communicate, TypeOK
  <2>2. worker' = [worker EXCEPT ![t] = "reporting"]
    BY <1>3 DEF Communicate
  <2>3. \A u \in Workers : IF worker'[u] = "idle" THEN name[u] = NoFile ELSE name[u] \in selected
    BY <2>1, <2>2 DEF TypeOK
  <2>4. /\ checked' \subseteq selected /\ failed_files' \subseteq checked'
        /\ fixes' \subseteq checked' /\ temps' \subseteq selected
    BY <1>3, <2>1 DEF Communicate, TypeOK
  <2>5. exported \subseteq fixes'
    BY <1>3 DEF Communicate, TypeOK
  <2> QED
    BY <1>3, <2>2, <2>3, <2>4, <2>5 DEF Communicate, TypeOK, tasks, output
<1>4. CASE Report(t)
  <2>1. worker' = [worker EXCEPT ![t] = "reported"] \/ worker' = [worker EXCEPT ![t] = "dead"]
    BY <1>4 DEF Report, Die
  <2>2. worker' \in [Workers -> {"idle", "making", "running", "reporting", "reported", "dead"}]
    BY <2>1 DEF TypeOK
  <2>3. \A u \in Workers : IF worker'[u] = "idle" THEN name[u] = NoFile ELSE name[u] \in selected
    BY <1>4, <2>1 DEF TypeOK, Report
  <2> QED
    BY <1>4, <2>2, <2>3 DEF Report, TypeOK, disk, tasks, output
<1>5. CASE TaskDone(t)
  <2>1. t \in Holding /\ IsFiniteSet(Holding)
    BY <1>5, TidyAssumption, FS_Subset DEF TaskDone, Holding
  <2>2. Cardinality(Holding) \in Nat \ {0}
    BY <2>1, FS_EmptySet, FS_CardinalityType
  <2>3. unfinished' \in Nat
    BY <1>5, <2>2 DEF TaskDone, Counting, TypeOK
  <2>4. worker' = [worker EXCEPT ![t] = "idle"] /\ name' = [name EXCEPT ![t] = NoFile]
    BY <1>5 DEF TaskDone
  <2>5. name' \in [Workers -> Matching \cup {NoFile}]
    BY <2>4 DEF TypeOK
  <2>6. \A u \in Workers : IF worker'[u] = "idle" THEN name'[u] = NoFile ELSE name'[u] \in selected
    BY <2>4 DEF TypeOK
  <2> QED
    BY <1>5, <2>3, <2>4, <2>5, <2>6 DEF TaskDone, TypeOK, disk, output
<1> QED
  BY <1>1, <1>2, <1>3, <1>4, <1>5 DEF run_tidy

\* No task gets lost.
LEMMA PlacedStays ==
  ASSUME IInv, [Next]_vars
  PROVE  Placed'
<1> USE DEF IInv
<1>1. CASE Load
  <2>1. \A t \in Workers : worker[t] = "idle"
    BY <1>1, TidyAssumption DEF Load, Early, TypeOK
  <2>2. toPut' = selected' \/ selected' = {}
    BY <1>1 DEF Load, Early
  <2> QED
    BY <1>1, <2>1, <2>2 DEF Load, Placed, ToBePut, threads
<1>2. CASE Put
  <2>1. PICK g \in toPut : toPut' = toPut \ {g} /\ task_queue' = Append(task_queue, g)
    BY <1>2 DEF Put
  <2>2. /\ Len(task_queue') = Len(task_queue) + 1 /\ Len(task_queue) \in Nat
        /\ task_queue'[Len(task_queue) + 1] = g
        /\ \A i \in 1 .. Len(task_queue) : task_queue'[i] = task_queue[i]
    BY <2>1 DEF TypeOK
  <2>3. ASSUME NEW f \in selected PROVE (ToBePut(f) \/ Queued(f) \/ Held(f) \/ f \in checked)'
    <3>1. CASE f = g
      BY <2>2, <3>1 DEF Queued
    <3>2. CASE f # g
      BY <1>2, <2>1, <2>2, <3>2 DEF Put, Placed, ToBePut, Queued, Held, threads
    <3> QED
      BY <3>1, <3>2
  <2> QED
    BY <1>2, <2>3 DEF Put, Placed, threads
<1>3. ASSUME NEW t \in Workers, Get(t) PROVE Placed'
  <2>1. /\ worker' = [worker EXCEPT ![t] = "making"]
        /\ name' = [name EXCEPT ![t] = Head(task_queue)] /\ worker[t] = "idle"
    BY <1>3 DEF Get
  <2>2. /\ Head(task_queue) = task_queue[1]
        /\ Len(task_queue) \in Nat \ {0} /\ Len(task_queue') = Len(task_queue) - 1
        /\ \A i \in 1 .. Len(task_queue') : task_queue'[i] = task_queue[i + 1]
    BY <1>3 DEF Get, TypeOK
  <2>3. \A f : Held(f) => Held(f)'
    BY <2>1 DEF Held, TypeOK
  <2>4. \A f : f = task_queue[1] => Held(f)'
    BY <2>1, <2>2 DEF Held, TypeOK
  <2>5. ASSUME NEW f, Queued(f) PROVE Queued(f)' \/ Held(f)'
    <3>1. PICK i \in 1 .. Len(task_queue) : task_queue[i] = f
      BY <2>5 DEF Queued
    <3>2. CASE i = 1
      BY <2>4, <3>1, <3>2
    <3>3. CASE i # 1
      <4>1. i - 1 \in 1 .. Len(task_queue') /\ task_queue'[i - 1] = task_queue[(i - 1) + 1]
        BY <2>2, <3>3
      <4>2. task_queue'[i - 1] = f
        BY <3>1, <4>1
      <4> QED
        BY <4>1, <4>2 DEF Queued
    <3> QED
      BY <3>2, <3>3
  <2>6. \A u \in Workers : worker'[u] \in {"reporting", "reported"} => name'[u] \in checked
    BY <2>1 DEF Placed, TypeOK
  <2> QED
    BY <1>3, <2>3, <2>5, <2>6 DEF Get, Placed, ToBePut
<1>4. ASSUME NEW t \in Workers, get_tidy_invocation(t) \/ Communicate(t) \/ Report(t)
      PROVE  Placed'
  <2>1. /\ UNCHANGED <<name, tasks>>
        /\ checked \subseteq checked'
        /\ worker'[t] \in {"reporting", "reported"} => name[t] \in checked'
        /\ \A u \in Workers \ {t} : worker'[u] = worker[u]
        /\ worker[t] # "idle" /\ worker'[t] # "idle"
    BY <1>4 DEF get_tidy_invocation, Communicate, Report, Die, TypeOK, Placed
  <2> QED
    BY <2>1 DEF Placed, ToBePut, Queued, Held, tasks
<1>5. ASSUME NEW t \in Workers, TaskDone(t) PROVE Placed'
  <2>1. /\ worker' = [worker EXCEPT ![t] = "idle"] /\ name' = [name EXCEPT ![t] = NoFile]
        /\ name[t] \in checked
        /\ UNCHANGED <<selected, toPut, task_queue, checked>>
    BY <1>5 DEF TaskDone, Placed
  <2>2. \A f : Held(f) => Held(f)' \/ f \in checked
    BY <2>1 DEF Held, TypeOK
  <2> QED
    BY <2>1, <2>2 DEF Placed, ToBePut, Queued, TypeOK
<1>6. CASE UNCHANGED <<args, tasks, threads>>
  BY <1>6 DEF Placed, ToBePut, Queued, Held, tasks, threads
<1> QED
  BY <1>1, <1>2, <1>3, <1>4, <1>5, <1>6, Steps DEF run_tidy

\* The count is zero only with no task in the queue and none held.
LEMMA NothingLeft ==
  ASSUME IInv
  PROVE  unfinished = 0 <=> task_queue = <<>> /\ Holding = {}
<1>1. IsFiniteSet(Holding) /\ Cardinality(Holding) \in Nat
  BY TidyAssumption, FS_Subset, FS_CardinalityType DEF Holding
<1>2. Cardinality(Holding) = 0 <=> Holding = {}
  BY <1>1, FS_EmptySet
<1>3. Len(task_queue) \in Nat /\ (Len(task_queue) = 0 <=> task_queue = <<>>)
  BY EmptySeq DEF IInv, TypeOK
<1> QED
  BY <1>1, <1>2, <1>3 DEF IInv, Counting

\* Then every selected file was checked.
LEMMA AllChecked ==
  ASSUME IInv, toPut = {}, unfinished = 0
  PROVE  checked = selected /\ Holding = {}
<1>1. task_queue = <<>> /\ Holding = {}
  BY NothingLeft
<1>2. \A f \in selected : f \in checked
  BY <1>1 DEF IInv, Placed, ToBePut, Queued, Held, Holding
<1> QED
  BY <1>1, <1>2 DEF IInv, TypeOK

\* So no thread steps behind the join.
LEMMA ThreadsIdle ==
  ASSUME IInv, unfinished = 0, NEW t \in Workers
  PROVE  ~run_tidy(t)
BY NothingLeft DEF run_tidy, Get, get_tidy_invocation, Communicate, Report, TaskDone, Holding

\* The main thread's phases, the result, the output and the directory.
LEMMA MainStays ==
  ASSUME IInv, Main \/ Interrupt
  PROVE  (Early /\ Barrier /\ Result /\ Output /\ Directory)'
<1> USE DEF IInv
<1>1. Early'
  BY DEF Early, Main, Interrupt, find_compilation_database, find_binary, MakeDirectory,
         CheckInvocation, Load, Put, EndFill, Join, merge_replacement_files, apply_fixes, Clean,
         CleanUp, RemoveFiles, RemoveDirectory, Kill, Goto, Fail, tasks, UsesTmpdir
<1>2. Barrier'
  <2>1. CASE Load \/ Put
    BY <2>1 DEF Barrier, Load, Put, Goto, Fail, PastJoin
  <2>2. CASE ~Load /\ ~Put
    BY <2>2 DEF Barrier, Main, Interrupt, find_compilation_database, find_binary, MakeDirectory,
         CheckInvocation, EndFill, Join, merge_replacement_files, apply_fixes, Clean,
         CleanUp, RemoveFiles, RemoveDirectory, Kill, Goto, Fail, tasks, UsesTmpdir, PastJoin
  <2> QED
    BY <2>1, <2>2
<1>3. Result'
  <2>1. CASE Join
    BY <2>1 DEF Result, Join, PastJoin, Ended, disk, threads, output
  <2>3. CASE merge_replacement_files
    <3>1. fixes \cap temps = fixes
      BY <2>3 DEF Result, merge_replacement_files, Ended
    <3>2. UNCHANGED <<args, failed_files, fixes, temps>> /\ main = "export" /\ main' = "apply"
      BY <2>3 DEF merge_replacement_files, Goto, Fail, disk, threads
    <3>3. return_code' = 0 => return_code = 0 /\ (args.export_fixes => exported' = fixes)
      <4>1. \/ /\ exported' = (IF args.export_fixes THEN fixes \cap temps ELSE exported)
               /\ return_code' = return_code
            \/ return_code' = 1
        BY <2>3 DEF merge_replacement_files, Goto, Fail
      <4>2. CASE args.export_fixes
        BY <3>1, <4>1, <4>2
      <4>3. CASE ~args.export_fixes
        BY <4>1, <4>3
      <4> QED
        BY <4>2, <4>3
    <3> QED
      BY <3>2, <3>3 DEF Result, PastJoin, Ended
  <2>4. CASE apply_fixes
    BY <2>4 DEF Result, apply_fixes, Goto, Fail, PastJoin, Ended, disk, threads
  <2>2. CASE ~Join /\ ~merge_replacement_files /\ ~apply_fixes
    BY <2>2 DEF Result, Main, Interrupt, find_compilation_database, find_binary, MakeDirectory,
         CheckInvocation, Load, Put, EndFill, Clean, CleanUp, RemoveFiles, RemoveDirectory,
         Kill, Goto, Fail, PastJoin,
         Ended, disk, threads, output, UsesTmpdir
  <2> QED
    BY <2>1, <2>2, <2>3, <2>4
<1>4. Output'
  <2>1. CASE Load \/ Put
    BY <2>1 DEF Output, Load, Put, Goto, Fail, PastJoin, output
  <2>2. CASE merge_replacement_files \/ apply_fixes
    BY <2>2 DEF Output, Barrier, merge_replacement_files, apply_fixes, Goto, Fail, PastJoin, tasks
  <2>3. CASE ~Load /\ ~Put /\ ~merge_replacement_files /\ ~apply_fixes
    BY <2>3 DEF Output, Main, Interrupt, find_compilation_database, find_binary, MakeDirectory,
         CheckInvocation, EndFill, Join, Clean, CleanUp, RemoveFiles, RemoveDirectory,
         Kill, Goto, Fail, tasks, output,
         UsesTmpdir, PastJoin
  <2> QED
    BY <2>1, <2>2, <2>3
<1>5. Directory'
  BY DEF Directory, Main, Interrupt, find_compilation_database, find_binary, MakeDirectory,
         CheckInvocation, Load, Put, EndFill, Join, merge_replacement_files, apply_fixes, Clean,
         CleanUp, RemoveFiles, RemoveDirectory, Kill, Goto, Fail, disk, UsesTmpdir
<1> QED
  BY <1>1, <1>2, <1>3, <1>4, <1>5

\* The same under a step of a thread.
LEMMA ThreadKeepsMain ==
  ASSUME IInv, NEW t \in Workers, run_tidy(t)
  PROVE  (Early /\ Barrier /\ Result /\ Output /\ Directory)'
<1> USE DEF IInv
<1>1. unfinished # 0 /\ main \notin PastJoin /\ main \notin Ended
  BY ThreadsIdle
     DEF Barrier, run_tidy, Get, get_tidy_invocation, Communicate, Report, TaskDone, Running
<1>2. UNCHANGED <<args, main, return_code, tmpdir, selected, toPut, output>>
  BY DEF run_tidy, Get, get_tidy_invocation, Communicate, Report, TaskDone, tasks, disk
<1>3. /\ fixes \subseteq temps => fixes' \subseteq temps'
      /\ ~tmpdir => temps' = temps
  BY DEF run_tidy, Get, get_tidy_invocation, Communicate, Report, TaskDone, disk
<1>4. exported = {} /\ applied = "no"
  BY <1>1 DEF Output
<1>5. Early' /\ Barrier'
  BY <1>1, <1>2 DEF Early, Barrier
<1>6. Result'
  BY <1>1, <1>2, <1>3 DEF Result, PastJoin
<1>7. Output' /\ Directory'
  BY <1>1, <1>2, <1>3, <1>4 DEF Output, Directory, output, PastJoin
<1> QED
  BY <1>5, <1>6, <1>7

\* Every step preserves the invariant.
LEMMA Inductive ==
  ASSUME IInv, [Next]_vars
  PROVE  IInv'
<1>1. Counting' /\ Placed'
  BY CountingStays, PlacedStays
<1>2. CASE Main \/ Interrupt
  <2>1. TypeOK'
    BY <1>2, TypeMain, TypeTasks
  <2> QED
    BY <1>1, <1>2, <2>1, MainStays DEF IInv
<1>3. CASE \E t \in Workers : run_tidy(t)
  BY <1>1, <1>3, TypeThread, ThreadKeepsMain DEF IInv
<1>4. CASE UNCHANGED vars
  <2> USE <1>4 DEF vars, disk, tasks, threads, output
  <2>1. TypeOK'
    BY DEF IInv, TypeOK
  <2>2. (Early /\ Barrier /\ Result /\ Output /\ Directory)'
    BY DEF IInv, Early, Barrier, Result, Output, Directory
  <2> QED
    BY <1>1, <2>1, <2>2 DEF IInv
<1> QED
  BY <1>2, <1>3, <1>4 DEF Next

\* The inductive invariant holds in every reachable state (run-clang-tidy.py:192-393).
THEOREM Invariance == Spec => []IInv
<1>1. IInv /\ [Next]_vars => IInv'
  BY Inductive
<1> QED
  BY <1>1, InitInv, PTL DEF Spec

\* The state of the script is well typed whatever its threads and clang-tidy do.
THEOREM TypeCorrect == Spec => []TypeOK
<1>1. IInv => TypeOK
  BY DEF IInv
<1> QED
  BY <1>1, Invariance, PTL

\* The join in run-clang-tidy is a sound barrier, for any number of threads.
THEOREM BarrierSound == Spec => []AllCheckedAfterJoin
<1>1. IInv => AllCheckedAfterJoin
  BY AllChecked DEF IInv, Barrier, AllCheckedAfterJoin
<1> QED
  BY <1>1, Invariance, PTL

\* Exit status 0 of the script: all files run, none failed, all fixes exported.
THEOREM SuccessIsTrue == Spec => []ZeroMeansClean
<1>1. IInv => ZeroMeansClean
  BY AllChecked DEF IInv, Barrier, Result, ZeroMeansClean, PastJoin
<1> QED
  BY <1>1, Invariance, PTL

\* No fix leaves the temporary directory before all files were checked.
THEOREM AppliesComplete == Spec => []AppliesOnlyWhenComplete
<1>1. IInv => AppliesOnlyWhenComplete
  BY AllChecked DEF IInv, Output, AppliesOnlyWhenComplete
<1> QED
  BY <1>1, Invariance, PTL

\* The removal of the temporary directory at the end of a run cannot fail, and a finished
\* and a killed run leave no directory (run-clang-tidy.py:391-393).
THEOREM NoDirectoryLeft == Spec => []DirectoryGone
<1>1. IInv => DirectoryGone
  BY DEF IInv, Directory, DirectoryGone
<1> QED
  BY <1>1, Invariance, PTL
=============================================================================
