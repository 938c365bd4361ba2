---------------------------- MODULE FormatRunner ----------------------------
(***************************************************************************)
(* tools/run-clang-format.py from the version check to the exit code: the  *)
(* files are formatted by a pool of processes or, with one job, by a       *)
(* generator in the main process; the main loop takes their results and    *)
(* folds them into the exit code. FormatFiles models which files these are.*)
(*                                                                         *)
(* External: what clang-format says of a file, how much it writes to the   *)
(* stderr pipe meanwhile, which files can be read and decoded.             *)
(***************************************************************************)
EXTENDS Integers, Sequences, FiniteSets

CONSTANTS Counts,     \* the numbers of files the listing may give
          JobOptions, \* the values of -j
          Cpus,       \* multiprocessing.cpu_count()
          PipeSize,   \* what a pipe holds before its writer blocks
          MaxNoise    \* the most that clang-format writes to stderr for a file

ASSUME FormatAssumption ==
  /\ Counts \subseteq Nat
  /\ JobOptions \subseteq Int /\ Cpus \in Nat \ {0} /\ PipeSize \in Nat /\ MaxNoise \in Nat

VARIABLES args,       \* [in_place, dry_run, j]
          main,       \* where the main process is
          retcode,
          n,          \* the number of files
          njobs,
          taken,      \* the files handed out so far; they are handed out in order
          doing,      \* the file each job works on, 0 for none
          stage,      \* what it is at with it
          pipe,       \* what is in the stderr pipe of its clang-format
          results,    \* results that wait for the main loop
          raised,     \* the generator was ended by an exception
          handled,    \* history: files whose result the main loop has reported
          rewritten   \* history: files that clang-format -i has written

SUCCESS == 0
DIFF    == 1
TROUBLE == 2

jobs == <<taken, doing, stage, pipe, results, raised>>
vars == <<args, main, retcode, n, njobs, jobs, handled, rewritten>>
-----------------------------------------------------------------------------
Files  == 1..n
Jobs   == 1..njobs
Direct == njobs = 1
Ended  == {"returned", "crashed"}

Smaller(a, b) == IF a < b THEN a ELSE b

Init ==
  /\ args \in [in_place : BOOLEAN, dry_run : BOOLEAN, j : JobOptions]
  /\ main = "start" /\ retcode = SUCCESS
  /\ n = 0 /\ njobs = 0
  /\ taken = 0 /\ doing = <<>> /\ stage = <<>> /\ pipe = <<>> /\ results = <<>>
  /\ raised = FALSE /\ handled = {} /\ rewritten = {}

\* clang-format --version fails, or cannot be started.
CheckVersion ==
  /\ main = "start"
  /\ \/ main' = "returned" /\ retcode' = TROUBLE
     \/ main' = "listing" /\ UNCHANGED retcode
  /\ UNCHANGED <<args, n, njobs, jobs, handled, rewritten>>

\* The main process dies of an exception: the interpreter's exit status is 1.
Crash == main' = "crashed" /\ retcode' = 1

\* An ignore file that exists and cannot be read, or decoded, is an uncaught exception.
ListFails ==
  /\ main = "listing"
  /\ Crash
  /\ UNCHANGED <<args, n, njobs, jobs, handled, rewritten>>

\* No files: main returns None. Otherwise one job runs in the main process and more
\* make a pool, which refuses a number below one.
List ==
  /\ main = "listing"
  /\ n' \in Counts
  /\ njobs' = Smaller(n', IF args.j = 0 THEN Cpus + 1 ELSE args.j)
  /\ IF n' # 0 /\ njobs' < 1 THEN Crash
     ELSE /\ main' = IF n' = 0 THEN "returned" ELSE "loop"
          /\ UNCHANGED retcode
  /\ doing' = [j \in 1..njobs' |-> 0]
  /\ stage' = [j \in 1..njobs' |-> "idle"]
  /\ pipe' = [j \in 1..njobs' |-> 0]
  /\ UNCHANGED <<args, taken, results, raised, handled, rewritten>>
-----------------------------------------------------------------------------
\* A free job takes the next file; the generator only when the loop asks it, and never
\* again once an exception has passed through it.
Take(j) ==
  /\ main = "loop"
  /\ stage[j] = "idle" /\ taken < n
  /\ Direct => results = <<>> /\ ~raised
  /\ taken' = taken + 1
  /\ doing' = [doing EXCEPT ![j] = taken + 1]
  /\ stage' = [stage EXCEPT ![j] = "opening"]
  /\ UNCHANGED <<args, main, retcode, n, njobs, pipe, results, raised, handled, rewritten>>

\* run_clang_format_diff_wrapper: a result, a DiffError, or else an UnexpectedError.
Give(j, verdict) ==
  /\ results' = Append(results, [file |-> doing[j], verdict |-> verdict])
  /\ raised' = (raised \/ (Direct /\ verdict \in {"error", "unexpected"}))
  /\ doing' = [doing EXCEPT ![j] = 0]
  /\ stage' = [stage EXCEPT ![j] = "idle"]
  /\ pipe' = [pipe EXCEPT ![j] = 0]

\* The file is read, then clang-format is started unless this is a dry run.
Open(j) ==
  /\ main = "loop" /\ stage[j] = "opening"
  /\ \/ Give(j, "error")
     \/ Give(j, "unexpected")
     \/ args.dry_run /\ Give(j, "clean")
     \/ /\ ~args.dry_run
        /\ stage' = [stage EXCEPT ![j] = "formatting"]
        /\ UNCHANGED <<doing, pipe, results, raised>>
  /\ UNCHANGED <<args, main, retcode, n, njobs, taken, handled, rewritten>>

\* clang-format writes to stderr, where nobody reads before stdout is at its end: with
\* a full pipe it blocks and never gets to "ending".
Noise(j) ==
  /\ main = "loop" /\ stage[j] = "formatting"
  /\ pipe[j] < Smaller(PipeSize, MaxNoise)
  /\ pipe' = [pipe EXCEPT ![j] = @ + 1]
  /\ UNCHANGED <<args, main, retcode, n, njobs, taken, doing, stage, results, raised, handled,
                 rewritten>>

Block(j) ==
  /\ main = "loop" /\ stage[j] = "formatting"
  /\ pipe[j] = PipeSize /\ MaxNoise > PipeSize
  /\ stage' = [stage EXCEPT ![j] = "blocked"]
  /\ UNCHANGED <<args, main, retcode, n, njobs, taken, doing, pipe, results, raised, handled,
                 rewritten>>

Close_IgnoresStatus(j) ==
  /\ main = "loop" /\ stage[j] = "formatting"
  /\ \/ Give(j, "unexpected") /\ rewritten' \in {rewritten, rewritten \cup {doing[j]}}
     \/ Give(j, "clean") /\ UNCHANGED rewritten
     \/ ~args.in_place /\ Give(j, "diff") /\ UNCHANGED rewritten
  /\ UNCHANGED <<args, main, retcode, n, njobs, taken, handled>>

\* clang-format ends: its output cannot be decoded, or its exit status is not zero, or
\* there is a diff, unless it was to rewrite the file.
Close(j) ==
  /\ main = "loop" /\ stage[j] = "formatting"
  /\ \/ /\ Give(j, "unexpected") \/ Give(j, "error")
        /\ rewritten' \in {rewritten} \cup IF args.in_place THEN {rewritten \cup {doing[j]}} ELSE {}
     \/ /\ Give(j, "clean")
        /\ rewritten' = IF args.in_place THEN rewritten \cup {doing[j]} ELSE rewritten
     \/ ~args.in_place /\ Give(j, "diff") /\ UNCHANGED rewritten
  /\ UNCHANGED <<args, main, retcode, n, njobs, taken, handled>>
-----------------------------------------------------------------------------
Worse_Last(c, verdict) ==
  IF verdict = "clean" THEN c ELSE IF verdict = "diff" THEN DIFF ELSE TROUBLE

\* The exit code is the worst of what was found.
Worse(c, verdict) ==
  IF verdict = "clean" THEN c
  ELSE IF verdict # "diff" THEN TROUBLE
  ELSE IF c = SUCCESS THEN DIFF ELSE c

\* An unexpected error ends the loop and terminates the pool: jobs and results are gone.
Report(result) ==
  /\ handled' = handled \cup {result.file}
  /\ retcode' = Worse(retcode, result.verdict)
  /\ main' = IF result.verdict = "unexpected" THEN "join" ELSE main

\* Writing the diff or the messages fails; a dry run has written its line in the job.
WriteFails(result) ==
  /\ ~(args.dry_run /\ result.verdict = "clean")
  /\ Crash /\ UNCHANGED <<results, handled>>

\* With Pool.imap the results would come in the order of the files.
Handle_InOrder ==
  /\ main = "loop"
  /\ \E i \in DOMAIN results :
       /\ results[i].file = Cardinality(handled) + 1
       /\ \/ Report(results[i]) /\ results' = SelectSeq(results, LAMBDA r : r # results[i])
          \/ WriteFails(results[i])
  /\ UNCHANGED <<args, n, njobs, taken, doing, stage, pipe, raised, rewritten>>

\* next(it) gives a result or raises the job's exception, as the jobs have ended.
Handle ==
  /\ main = "loop" /\ results # <<>>
  /\ \/ Report(Head(results)) /\ results' = Tail(results)
     \/ WriteFails(Head(results))
  /\ UNCHANGED <<args, n, njobs, taken, doing, stage, pipe, raised, rewritten>>

\* The pool's iterator ends after as many results as tasks, the generator after the last
\* file or after an exception.
StopIteration ==
  /\ main = "loop" /\ results = <<>>
  /\ \/ ~Direct /\ Cardinality(handled) = n
     \/ Direct /\ stage[1] = "idle" /\ (raised \/ taken = n)
  /\ main' = "join"
  /\ UNCHANGED <<args, retcode, n, njobs, jobs, handled, rewritten>>

\* pool.join, then the exit code.
Return ==
  /\ main = "join"
  /\ main' = "returned"
  /\ UNCHANGED <<args, retcode, n, njobs, jobs, handled, rewritten>>

Main == CheckVersion \/ List \/ Handle \/ StopIteration \/ Return
Job(j) == Take(j) \/ Open(j) \/ Close(j)
Next == Main \/ ListFails \/ \E j \in Jobs : Job(j) \/ Noise(j) \/ Block(j)

\* The processes are scheduled and clang-format ends when it is not blocked.
Spec == Init /\ [][Next]_vars /\ WF_vars(Main \/ \E j \in Jobs : Job(j))
-----------------------------------------------------------------------------
Verdicts == {"clean", "diff", "error", "unexpected"}

TypeOK ==
  /\ args \in [in_place : BOOLEAN, dry_run : BOOLEAN, j : JobOptions]
  /\ main \in {"start", "listing", "loop", "join"} \cup Ended
  /\ retcode \in {SUCCESS, DIFF, TROUBLE}
  /\ n \in Nat /\ njobs \in Int /\ njobs <= n
  /\ taken \in 0..n
  /\ doing \in [Jobs -> 0..taken]
  /\ stage \in [Jobs -> {"idle", "opening", "formatting", "blocked"}]
  /\ pipe \in [Jobs -> 0..Smaller(PipeSize, MaxNoise)]
  /\ results \in Seq([file : 1..taken, verdict : Verdicts])
  /\ raised \in BOOLEAN
  /\ handled \subseteq 1..taken /\ rewritten \subseteq 1..taken

\* Exit code 0 is never a false success: every file was reported, and with -i every
\* file was rewritten (a dry run rewrites none).
NoFalseSuccess ==
  main = "returned" /\ retcode = SUCCESS =>
    /\ handled = Files
    /\ args.in_place /\ ~args.dry_run => rewritten = Files

\* What the docstring promises as far as the code keeps it, LintReport: each file is
\* reported exactly once, in whatever order the jobs end, and the exit code is the worst;
\* but one job that runs in the main process ends the lint at its first error.
Lint == INSTANCE LintReport WITH
  Lists    <- {1..k : k \in Counts \ {0}},
  files    <- IF njobs >= 1 THEN Files ELSE {},
  alone    <- Direct,
  reported <- handled,
  code     <- retcode,
  state    <- IF main \in {"start", "listing"} THEN "idle"
              ELSE IF main = "loop" THEN "linting"
              ELSE IF main = "join" THEN "ending"
              ELSE IF njobs < 1 THEN "refused"
              ELSE IF main = "returned" THEN "returned" ELSE "aborted"
ImplementsLint == Lint!Spec

\* The script ends; or else a clang-format has filled its stderr pipe, and holds up no
\* file but its own for as long as another job is free: the rest is still reported.
Blocked == {j \in Jobs : stage[j] = "blocked"}
ReportsTheRest ==
  <>(\/ main \in Ended
     \/ /\ Blocked # {}
        /\ Blocked = Jobs \/ Files \ handled \subseteq {doing[j] : j \in Blocked})
=============================================================================
