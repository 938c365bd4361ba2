------------------------ MODULE FormatScript_proofs ------------------------
(* Proofs about FormatRunner and FormatScript, for any tree, jobs and processors. *)
EXTENDS FormatScript, FiniteSetTheorems, SequenceTheorems, FunctionTheorems, TLAPS

\* Before the files are listed there is nothing.
Nothing ==
  main \in {"start", "listing"} =>
    /\ n = 0 /\ njobs = 0 /\ taken = 0 /\ retcode = SUCCESS /\ ~raised
    /\ handled = {} /\ results = <<>> /\ rewritten = {}

\* The loop runs over some files with some jobs.
Sized == main \in {"loop", "join"} => n \in Counts \ {0} /\ njobs >= 1

Working(f)  == \E j \in Jobs : stage[j] # "idle" /\ doing[j] = f
InResult(f) == \E i \in 1 .. Len(results) : results[i].file = f

\* A file that was taken is at one job, or in one result, or handled.
Known == \A f \in 1 .. taken : Working(f) \/ InResult(f) \/ f \in handled

Single ==
  /\ \A j \in Jobs : stage[j] # "idle" =>
       doing[j] \in 1 .. taken /\ ~InResult(doing[j]) /\ doing[j] \notin handled
  /\ \A j, k \in Jobs : stage[j] # "idle" /\ stage[k] # "idle" /\ doing[j] = doing[k] => j = k
  /\ \A i \in 1 .. Len(results) : results[i].file \notin handled
  /\ \A i, k \in 1 .. Len(results) : results[i].file = results[k].file => i = k

\* The generator is ended by an error that is on its way into the exit code.
Faults ==
  raised /\ main # "crashed" =>
    /\ taken >= 1
    /\ retcode = TROUBLE \/ \E i \in 1 .. Len(results) : results[i].verdict \in {"error", "unexpected"}

\* The one job in the main process has nothing more to do before its result is taken, and
\* nothing at all after an error.
Alone ==
  main = "loop" /\ Direct =>
    /\ Len(results) <= 1
    /\ stage[1] # "idle" => results = <<>> /\ ~raised
    /\ retcode = TROUBLE => raised /\ results = <<>>
    /\ \A i \in 1 .. Len(results) : results[i].verdict \in {"error", "unexpected"} => raised

\* The loop ends with exit code 0 only when all is handled, and rewritten.
Success ==
  /\ main \in {"join", "returned"} /\ retcode = SUCCESS => handled = Files
  /\ args.in_place /\ ~args.dry_run =>
       /\ \A i \in 1 .. Len(results) :
            results[i].verdict = "clean" => results[i].file \in rewritten
       /\ retcode = SUCCESS => handled \subseteq rewritten

\* The inductive invariant.
IInv == TypeOK /\ Nothing /\ Sized /\ Known /\ Single /\ Faults /\ Alone /\ Success

\* The initial states satisfy it.
LEMMA InitInv == Init => IInv
<1> SUFFICES ASSUME Init PROVE IInv
  OBVIOUS
<1>1. Jobs = {} /\ taken = 0 /\ Len(results) = 0
  BY DEF Init, Jobs
<1>2. TypeOK
  <2>1. /\ doing \in [Jobs -> 0 .. taken] /\ pipe \in [Jobs -> 0 .. Smaller(PipeSize, MaxNoise)]
        /\ stage \in [Jobs -> {"idle", "opening", "formatting", "blocked"}]
    BY <1>1 DEF Init
  <2>2. results \in Seq([file : 1 .. taken, verdict : Verdicts])
    BY DEF Init
  <2>3. /\ args \in [in_place : BOOLEAN, dry_run : BOOLEAN, j : JobOptions] /\ raised \in BOOLEAN
        /\ retcode \in {SUCCESS, DIFF, TROUBLE}
        /\ main \in {"start", "listing", "loop", "join"} \cup Ended
    BY DEF Init
  <2>4. n \in Nat /\ njobs \in Int /\ njobs <= n /\ taken \in 0 .. n
    BY DEF Init
  <2> QED
    BY <2>1, <2>2, <2>3, <2>4 DEF Init, TypeOK
<1>3. Nothing /\ Sized /\ Known /\ Single /\ Faults /\ Alone /\ Success
  BY <1>1 DEF Init, Nothing, Sized, Known, Single, Faults, Alone, Success, Working, InResult
<1> QED
  BY <1>2, <1>3 DEF IInv

\* Handing a result to the main loop.
LEMMA GiveKeeps ==
  ASSUME IInv, NEW j \in Jobs, NEW v \in Verdicts, main = "loop", stage[j] # "idle", Give(j, v),
         UNCHANGED <<args, main, retcode, n, njobs, taken, handled>>,
         rewritten \subseteq rewritten', rewritten' \subseteq 1 .. taken,
         args.in_place /\ ~args.dry_run /\ v = "clean" => doing[j] \in rewritten'
  PROVE  IInv'
<1> USE DEF IInv
<1> DEFINE r == [file |-> doing[j], verdict |-> v]
<1>1. /\ results' = Append(results, r)
      /\ doing' = [doing EXCEPT ![j] = 0] /\ stage' = [stage EXCEPT ![j] = "idle"]
      /\ pipe' = [pipe EXCEPT ![j] = 0]
      /\ raised' = (raised \/ (Direct /\ v \in {"error", "unexpected"}))
  BY DEF Give
<1>2. doing[j] \in 1 .. taken /\ ~InResult(doing[j]) /\ doing[j] \notin handled
  BY DEF Single
<1>3. r \in [file : 1 .. taken, verdict : Verdicts]
  BY <1>2
<1>4. /\ Len(results) \in Nat /\ Len(results') = Len(results) + 1
      /\ results'[Len(results) + 1] = r
      /\ \A i \in 1 .. Len(results) : results'[i] = results[i]
      /\ results' \in Seq([file : 1 .. taken, verdict : Verdicts])
  BY <1>1, <1>3 DEF TypeOK
<1>5. \A i \in 1 .. Len(results') : i \in 1 .. Len(results) \/ i = Len(results) + 1
  BY <1>4
<1>6. Jobs' = Jobs /\ taken \in Nat /\ n \in Nat
  BY DEF Jobs, TypeOK
<1>7. /\ \A k \in Jobs : stage'[k] # "idle" => k # j /\ stage[k] # "idle" /\ doing'[k] = doing[k]
      /\ \A k \in Jobs \ {j} : stage'[k] = stage[k] /\ doing'[k] = doing[k]
  BY <1>1 DEF TypeOK
<1>8. TypeOK'
  <2>1. doing' \in [Jobs -> 0 .. taken]
    BY <1>1, <1>6 DEF TypeOK
  <2>2. pipe' \in [Jobs -> 0 .. Smaller(PipeSize, MaxNoise)]
    BY <1>1, FormatAssumption DEF TypeOK, Smaller
  <2>3. stage' \in [Jobs -> {"idle", "opening", "formatting", "blocked"}] /\ raised' \in BOOLEAN
    BY <1>1 DEF TypeOK
  <2> QED
    BY <1>4, <1>6, <2>1, <2>2, <2>3 DEF TypeOK
<1>9. Nothing' /\ Sized'
  BY DEF Nothing, Sized, Direct
<1>10. Known'
  <2> SUFFICES ASSUME NEW f \in 1 .. taken PROVE (Working(f) \/ InResult(f) \/ f \in handled)'
    BY DEF Known
  <2>1. CASE f = doing[j]
    BY <1>4, <2>1 DEF InResult
  <2>2. CASE InResult(f) \/ f \in handled
    BY <1>4, <2>2 DEF InResult
  <2>3. CASE Working(f) /\ f # doing[j]
    BY <1>6, <1>7, <2>3 DEF Working
  <2> QED
    BY <2>1, <2>2, <2>3 DEF Known
<1>11. Single'
  <2>1. \A f : InResult(f)' => InResult(f) \/ f = doing[j]
    BY <1>4, <1>5 DEF InResult
  <2>2. ASSUME NEW k \in Jobs, stage'[k] # "idle"
        PROVE  doing'[k] \in 1 .. taken /\ doing'[k] \notin handled /\ ~InResult(doing[k])
               /\ doing[k] # doing[j] /\ doing'[k] = doing[k]
    BY <1>7, <2>2 DEF Single
  <2>3. ASSUME NEW k \in Jobs, stage'[k] # "idle"
        PROVE  \A i \in 1 .. Len(results') : results'[i].file # doing'[k]
    BY <1>4, <1>5, <2>2, <2>3 DEF InResult
  <2>4. \A k, l \in Jobs : stage'[k] # "idle" /\ stage'[l] # "idle" /\ doing'[k] = doing'[l] => k = l
    BY <1>7 DEF Single
  <2>5. \A i \in 1 .. Len(results') : results'[i].file \notin handled
    BY <1>2, <1>4, <1>5 DEF Single
  <2>6. \A i, k \in 1 .. Len(results') : results'[i].file = results'[k].file => i = k
    BY <1>2, <1>4, <1>5 DEF Single, InResult
  <2> QED
    BY <1>6, <2>2, <2>3, <2>4, <2>5, <2>6 DEF Single, InResult
<1>12. Faults'
  <2>1. CASE raised
    BY <1>4, <2>1 DEF Faults
  <2>2. CASE ~raised
    <3> SUFFICES ASSUME raised'
                 PROVE  taken' >= 1 /\ \E i \in 1 .. Len(results') :
                                         results'[i].verdict \in {"error", "unexpected"}
      BY DEF Faults
    <3>1. v \in {"error", "unexpected"}
      BY <1>1, <2>2
    <3>3. taken' >= 1
      BY <1>2, <1>6
    <3>2. Len(results) + 1 \in 1 .. Len(results') /\ r.verdict = v
      BY <1>4
    <3> QED
      BY <1>4, <3>1, <3>2, <3>3
  <2> QED
    BY <2>1, <2>2
<1>13. Success'
  <2>1. ASSUME args.in_place, ~args.dry_run, NEW i \in 1 .. Len(results'),
               results'[i].verdict = "clean"
        PROVE  results'[i].file \in rewritten'
    <3>1. CASE i \in 1 .. Len(results)
      <4>1. results'[i] = results[i] /\ results[i].file \in rewritten
        BY <1>4, <2>1, <3>1 DEF Success
      <4> QED
        BY <4>1
    <3>2. CASE i = Len(results) + 1
      <4>1. results'[i] = r /\ v = "clean"
        BY <1>4, <2>1, <3>2
      <4> QED
        BY <2>1, <4>1
    <3> QED
      BY <1>5, <3>1, <3>2
  <2> QED
    BY <2>1 DEF Success, Files
<1>14. Alone'
  <2> SUFFICES ASSUME Direct PROVE Alone'
    BY DEF Alone, Direct
  <2>1. j = 1 /\ results = <<>> /\ ~raised /\ retcode # TROUBLE
    BY DEF Alone, Direct, Jobs
  <2>2. Len(results) = 0 /\ stage'[1] = "idle" /\ Direct'
    BY <1>1, <1>6, <2>1 DEF TypeOK, Direct
  <2>3. Len(results') = 1 /\ \A i \in 1 .. Len(results') : results'[i].verdict = v
    BY <1>4, <1>5, <2>2
  <2>4. retcode' # TROUBLE /\ (v \in {"error", "unexpected"} => raised')
    BY <1>1, <2>1
  <2> QED
    BY <2>2, <2>3, <2>4 DEF Alone
<1> QED
  BY <1>8, <1>9, <1>10, <1>11, <1>12, <1>13, <1>14

\* The steps inside a job.
LEMMA InsideKeeps ==
  ASSUME IInv, NEW j \in Jobs, stage[j] # "idle", NEW s \in {"formatting", "blocked"},
         stage' = [stage EXCEPT ![j] = s], pipe' \in [Jobs -> 0 .. Smaller(PipeSize, MaxNoise)],
         UNCHANGED <<args, main, retcode, n, njobs, taken, doing, results, raised, handled, rewritten>>
  PROVE  IInv'
<1> USE DEF IInv
<1>1. \A k \in Jobs : stage'[k] # "idle" <=> stage[k] # "idle"
  BY DEF TypeOK
<1>2. TypeOK'
  <2>1. stage' \in [Jobs -> {"idle", "opening", "formatting", "blocked"}]
    BY DEF TypeOK
  <2> QED
    BY <2>1 DEF TypeOK, Jobs
<1>3. \A f : Working(f)' <=> Working(f)
  BY <1>1 DEF Working, Jobs
<1>4. \A f : InResult(f)' <=> InResult(f)
  BY DEF InResult
<1>5. Nothing' /\ Sized' /\ Faults' /\ Success'
  BY DEF Nothing, Sized, Faults, Success, Files, Direct
<1>6. Known'
  BY <1>3, <1>4 DEF Known
<1>7. Single'
  BY <1>1 DEF Single, InResult, Jobs
<1>8. Alone'
  <2>1. Direct' <=> Direct
    BY DEF Direct
  <2>2. Direct => 1 \in Jobs
    BY DEF Direct, Jobs
  <2> QED
    BY <1>1, <2>1, <2>2 DEF Alone
<1> QED
  BY <1>2, <1>5, <1>6, <1>7, <1>8

\* A free job takes the next file.
LEMMA TakeKeeps ==
  ASSUME IInv, NEW j \in Jobs, Take(j)
  PROVE  IInv'
<1> USE DEF IInv
<1>1. /\ stage[j] = "idle" /\ taken < n /\ taken' = taken + 1 /\ main = "loop"
      /\ doing' = [doing EXCEPT ![j] = taken + 1] /\ stage' = [stage EXCEPT ![j] = "opening"]
      /\ UNCHANGED <<args, main, retcode, n, njobs, pipe, results, raised, handled, rewritten>>
  BY DEF Take
<1>2. /\ taken \in Nat /\ n \in Nat /\ taken' \in 0 .. n /\ Jobs' = Jobs
      /\ taken + 1 \in 1 .. taken' /\ 1 .. taken \subseteq 1 .. taken' /\ 0 .. taken \subseteq 0 .. taken'
      /\ \A f \in 1 .. taken' : f \in 1 .. taken \/ f = taken + 1
      /\ taken + 1 \notin 1 .. taken
  BY <1>1 DEF TypeOK, Jobs
<1>3. /\ doing'[j] = taken + 1 /\ stage'[j] = "opening"
      /\ \A k \in Jobs \ {j} : doing'[k] = doing[k] /\ stage'[k] = stage[k]
  BY <1>1 DEF TypeOK
<1>4. \A i \in 1 .. Len(results) : results[i] \in [file : 1 .. taken, verdict : Verdicts]
  BY ElementOfSeq DEF TypeOK
<1>5. TypeOK'
  <2>1. doing' \in [Jobs -> 0 .. taken'] /\ stage' \in [Jobs -> {"idle", "opening", "formatting", "blocked"}]
    BY <1>1, <1>2 DEF TypeOK
  <2>2. results' \in Seq([file : 1 .. taken', verdict : Verdicts])
    <3>1. [file : 1 .. taken, verdict : Verdicts] \subseteq [file : 1 .. taken', verdict : Verdicts]
      BY <1>2
    <3>2. results \in Seq([file : 1 .. taken, verdict : Verdicts])
      BY DEF TypeOK
    <3>3. results \in Seq([file : 1 .. taken', verdict : Verdicts])
      BY <3>1, <3>2, SeqMonotonic, Zenon
    <3> QED
      BY <1>1, <3>3
  <2> QED
    BY <1>1, <1>2, <2>1, <2>2 DEF TypeOK
<1>6. Nothing' /\ Sized' /\ Success'
  BY <1>1 DEF Nothing, Sized, Success, Direct, Files
<1>7. Faults'
  BY <1>1, <1>2 DEF Faults
<1>8. Known'
  <2> SUFFICES ASSUME NEW f \in 1 .. taken' PROVE (Working(f) \/ InResult(f) \/ f \in handled)'
    BY DEF Known
  <2>1. CASE f = taken + 1
    BY <1>2, <1>3, <2>1 DEF Working
  <2>2. CASE f # taken + 1
    <3>1. Working(f) \/ InResult(f) \/ f \in handled
      BY <1>2, <2>2 DEF Known
    <3> QED
      BY <1>1, <1>2, <1>3, <3>1 DEF Working, InResult
  <2> QED
    BY <2>1, <2>2
<1>9. Single'
  <2>1. ASSUME NEW k \in Jobs, stage'[k] # "idle"
        PROVE  /\ doing'[k] \in 1 .. taken' /\ doing'[k] \notin handled
               /\ \A i \in 1 .. Len(results) : results[i].file # doing'[k]
    <3>1. CASE k = j
      BY <1>2, <1>3, <1>4, <3>1 DEF TypeOK
    <3>2. CASE k # j
      BY <1>2, <1>3, <2>1, <3>2 DEF Single, InResult
    <3> QED
      BY <3>1, <3>2
  <2>2. ASSUME NEW k \in Jobs, NEW l \in Jobs, stage'[k] # "idle", stage'[l] # "idle",
               doing'[k] = doing'[l]
        PROVE  k = l
    <3>1. \A m \in Jobs \ {j} : stage'[m] # "idle" => doing'[m] \in 1 .. taken
      BY <1>3 DEF Single
    <3> QED
      BY <1>2, <1>3, <2>2, <3>1 DEF Single
  <2> QED
    BY <1>1, <1>2, <2>1, <2>2 DEF Single, InResult
<1>10. Alone'
  <2> SUFFICES ASSUME Direct PROVE Alone'
    BY <1>1 DEF Alone, Direct
  <2>1. results = <<>> /\ ~raised /\ retcode # TROUBLE
    BY DEF Take, Alone
  <2> QED
    BY <1>1, <2>1 DEF Alone
<1> QED
  BY <1>5, <1>6, <1>7, <1>8, <1>9, <1>10

\* All steps of a job.
LEMMA JobKeeps ==
  ASSUME IInv, NEW j \in Jobs, Job(j) \/ Noise(j) \/ Block(j)
  PROVE  IInv'
<1>1. CASE Take(j)
  BY <1>1, TakeKeeps
<1>2. CASE Open(j)
  <2>1. /\ main = "loop" /\ stage[j] # "idle"
        /\ UNCHANGED <<args, main, retcode, n, njobs, taken, handled, rewritten>>
    BY <1>2 DEF Open
  <2>2. rewritten \subseteq 1 .. taken
    BY DEF IInv, TypeOK
  <2>3. CASE \E v \in {"error", "unexpected"} : Give(j, v)
    BY <2>1, <2>2, <2>3, GiveKeeps DEF Verdicts
  <2>4. CASE args.dry_run /\ Give(j, "clean")
    BY <2>1, <2>2, <2>4, GiveKeeps DEF Verdicts
  <2>5. CASE stage' = [stage EXCEPT ![j] = "formatting"] /\ UNCHANGED <<doing, pipe, results, raised>>
    BY <2>1, <2>5, InsideKeeps DEF IInv, TypeOK
  <2> QED
    BY <1>2, <2>3, <2>4, <2>5 DEF Open
<1>3. CASE Close(j)
  <2>1. /\ main = "loop" /\ stage[j] # "idle"
        /\ UNCHANGED <<args, main, retcode, n, njobs, taken, handled>>
    BY <1>3 DEF Close
  <2>2. rewritten \subseteq 1 .. taken /\ doing[j] \in 1 .. taken
    BY <2>1 DEF IInv, TypeOK, Single
  <2>3. rewritten \subseteq rewritten' /\ rewritten' \subseteq 1 .. taken
    BY <1>3, <2>2 DEF Close
  <2>4. \/ \E v \in {"error", "unexpected", "diff"} : Give(j, v)
        \/ Give(j, "clean") /\ (args.in_place => doing[j] \in rewritten')
    BY <1>3 DEF Close
  <2> QED
    BY <2>1, <2>3, <2>4, GiveKeeps DEF Verdicts
<1>4. CASE Noise(j)
  <2>1. pipe' \in [Jobs -> 0 .. Smaller(PipeSize, MaxNoise)] /\ stage' = [stage EXCEPT ![j] = "formatting"]
    BY <1>4, FormatAssumption DEF Noise, IInv, TypeOK, Smaller
  <2> QED
    BY <1>4, <2>1, InsideKeeps DEF Noise
<1>5. CASE Block(j)
  BY <1>5, InsideKeeps DEF Block, IInv, TypeOK
<1> QED
  BY <1>1, <1>2, <1>3, <1>4, <1>5 DEF Job

\* Where the loop ends without an exception, every file was handled, unless the generator
\* was ended by an error.
LEMMA AllHandled ==
  ASSUME IInv, StopIteration
  PROVE  handled = Files \/ (raised /\ retcode = TROUBLE)
<1> USE DEF IInv
<1>1. /\ results = <<>> /\ main = "loop" /\ n \in Nat /\ taken \in 0 .. n /\ njobs >= 1 /\ njobs \in Int
      /\ handled \subseteq 1 .. n
  BY DEF StopIteration, TypeOK, Sized
<1>2. CASE Cardinality(handled) = n
  <2>1. IsFiniteSet(1 .. n) /\ Cardinality(1 .. n) = n
    BY <1>1, FS_Interval
  <2> QED
    BY <1>1, <1>2, <2>1, FS_Subset DEF Files
<1>3. CASE Direct /\ stage[1] = "idle" /\ taken = n
  <2>1. \A f : ~InResult(f) /\ ~Working(f)
    BY <1>1, <1>3 DEF InResult, Working, Jobs, Direct
  <2> QED
    BY <1>1, <1>3, <2>1 DEF Known, Files
<1>4. CASE raised
  BY <1>1, <1>4 DEF Faults
<1> QED
  BY <1>2, <1>3, <1>4 DEF StopIteration

\* The loop takes a result.
LEMMA HandleKeeps ==
  ASSUME IInv, Handle, Report(results[1]), results' = Tail(results)
  PROVE  IInv'
<1> USE DEF IInv
<1> DEFINE r == results[1]
<1>1. /\ main = "loop" /\ main' \in {"loop", "join"}
      /\ handled' = handled \cup {r.file} /\ retcode' = Worse(retcode, r.verdict)
      /\ main' = "join" => r.verdict = "unexpected"
      /\ UNCHANGED <<args, n, njobs, taken, doing, stage, pipe, raised, rewritten>>
  BY DEF Handle, Report, TypeOK
<1>2. /\ Len(results) \in Nat \ {0} /\ Len(results') = Len(results) - 1
      /\ \A i \in 1 .. Len(results') : results'[i] = results[i + 1] /\ i + 1 \in 1 .. Len(results)
      /\ results' \in Seq([file : 1 .. taken, verdict : Verdicts])
      /\ 1 \in 1 .. Len(results)
  BY DEF Handle, TypeOK
<1>3. r \in [file : 1 .. taken, verdict : Verdicts]
  BY <1>2, ElementOfSeq DEF TypeOK
<1>4. r.file \in 1 .. taken /\ r.verdict \in Verdicts
  BY <1>3
<1>5. retcode' \in {SUCCESS, DIFF, TROUBLE}
  BY <1>1 DEF TypeOK, Worse
<1>6. TypeOK'
  BY <1>1, <1>2, <1>4, <1>5 DEF TypeOK, Jobs
<1>7. Nothing' /\ Sized'
  BY <1>1 DEF Nothing, Sized, Direct
<1>8. \A f : InResult(f)' => InResult(f) /\ f # r.file
  <2> SUFFICES ASSUME NEW f, NEW i \in 1 .. Len(results'), results'[i].file = f
               PROVE  InResult(f) /\ f # r.file
    BY DEF InResult
  <2>1. i + 1 \in 1 .. Len(results) /\ results[i + 1].file = f /\ i + 1 # 1
    BY <1>2
  <2> QED
    BY <1>2, <2>1 DEF InResult, Single
<1>9. \A f : InResult(f) => InResult(f)' \/ f = r.file
  <2> SUFFICES ASSUME NEW f, NEW i \in 1 .. Len(results), results[i].file = f, f # r.file
               PROVE  \E k \in 1 .. Len(results') : results'[k].file = f
    BY DEF InResult
  <2>1. i # 1
    OBVIOUS
  <2>2. i - 1 \in 1 .. Len(results') /\ results'[i - 1] = results[(i - 1) + 1] /\ (i - 1) + 1 = i
    BY <1>2, <2>1
  <2> QED
    BY <2>2
<1>10. \A f : Working(f)' <=> Working(f)
  BY <1>1 DEF Working, Jobs
<1>11. Known'
  BY <1>1, <1>9, <1>10 DEF Known
<1>12. InResult(r.file)
  BY <1>2 DEF InResult
<1>13. Single'
  <2>1. ASSUME NEW j \in Jobs, stage[j] # "idle"
        PROVE  /\ doing[j] \in 1 .. taken /\ doing[j] \notin handled'
               /\ \A i \in 1 .. Len(results') : results'[i].file # doing[j]
    <3>1. doing[j] \in 1 .. taken /\ ~InResult(doing[j]) /\ doing[j] \notin handled
      BY <2>1 DEF Single
    <3>2. doing[j] # r.file
      BY <1>12, <3>1
    <3> QED
      BY <1>1, <1>2, <3>1, <3>2 DEF InResult
  <2>2. \A i \in 1 .. Len(results') : results'[i].file \notin handled'
    BY <1>1, <1>2, <1>8 DEF Single, InResult
  <2>3. ASSUME NEW i \in 1 .. Len(results'), NEW k \in 1 .. Len(results'),
               results'[i].file = results'[k].file
        PROVE  i = k
    <3>2. /\ i + 1 \in 1 .. Len(results) /\ k + 1 \in 1 .. Len(results)
          /\ results[i + 1].file = results[k + 1].file
      BY <1>2, <2>3
    <3>1. i + 1 = k + 1
      BY <3>2 DEF Single
    <3> QED
      BY <3>1
  <2> QED
    BY <1>1, <2>1, <2>2, <2>3 DEF Single, InResult, Jobs
<1>14. Faults'
  <2> SUFFICES ASSUME raised, retcode' # TROUBLE
               PROVE  taken >= 1 /\ \E i \in 1 .. Len(results') : results'[i].verdict \in {"error", "unexpected"}
    BY <1>1 DEF Faults
  <2>1. retcode # TROUBLE /\ r.verdict \notin {"error", "unexpected"}
    BY <1>1, <1>4 DEF Worse, Verdicts, TROUBLE, DIFF, SUCCESS, TypeOK
  <2>5. main # "crashed" /\ taken >= 1
    BY <1>1 DEF Faults
  <2>2. PICK i \in 1 .. Len(results) : results[i].verdict \in {"error", "unexpected"}
    BY <1>1, <2>1, <2>5 DEF Faults
  <2>3. i # 1
    BY <2>1, <2>2
  <2>4. i - 1 \in 1 .. Len(results') /\ results'[i - 1] = results[(i - 1) + 1] /\ (i - 1) + 1 = i
    BY <1>2, <2>3
  <2> QED
    BY <2>2, <2>4, <2>5 DEF Faults
<1>15. Success'
  <2>1. retcode' = SUCCESS => retcode = SUCCESS /\ r.verdict = "clean"
    BY <1>1, <1>4 DEF Worse, Verdicts, TROUBLE, DIFF, SUCCESS, TypeOK
  <2>2. main' \in {"join", "returned"} => retcode' # SUCCESS
    BY <1>1, <2>1
  <2>3. ASSUME args.in_place, ~args.dry_run
        PROVE  /\ \A i \in 1 .. Len(results') :
                    results'[i].verdict = "clean" => results'[i].file \in rewritten
               /\ retcode' = SUCCESS => handled' \subseteq rewritten
    BY <1>1, <1>2, <2>1, <2>3 DEF Success
  <2> QED
    BY <1>1, <2>2, <2>3 DEF Success
<1>16. Alone'
  <2> SUFFICES ASSUME Direct PROVE Alone'
    BY <1>1 DEF Alone, Direct
  <2>1. Len(results) <= 1 /\ Len(results) # 0
    BY <1>1, <1>2 DEF Alone
  <2>5. Len(results) = 1 /\ Len(results') = 0 /\ results' = <<>> /\ results # <<>>
    BY <1>2, <2>1
  <2>2. retcode # TROUBLE /\ stage[1] = "idle"
    BY <1>1, <2>5 DEF Alone, Jobs, Direct, TypeOK
  <2>3. retcode' = TROUBLE => r.verdict \in {"error", "unexpected"}
    BY <1>1, <1>4, <2>2 DEF Worse, Verdicts, TROUBLE, DIFF, SUCCESS, TypeOK
  <2>4. retcode' = TROUBLE => raised
    BY <1>1, <1>2, <2>3 DEF Alone
  <2>6. results' = <<>> /\ Len(results') = 0 /\ stage'[1] = "idle" /\ (retcode' = TROUBLE => raised')
    BY <1>1, <2>5, <2>2, <2>4
  <2> HIDE DEF r
  <2> QED
    BY <2>6, SMTT(30) DEF Alone
<1> QED
  BY <1>6, <1>7, <1>11, <1>13, <1>14, <1>15, <1>16

\* The loop dies of a result that it cannot write.
LEMMA WriteFailsKeeps ==
  ASSUME IInv, Handle, WriteFails(results[1])
  PROVE  IInv'
<1> USE DEF IInv
<1>1. /\ main = "loop" /\ main' = "crashed" /\ retcode' = DIFF
      /\ UNCHANGED <<args, n, njobs, taken, doing, stage, pipe, results, raised, handled, rewritten>>
  BY DEF Handle, WriteFails, Crash, DIFF
<1>2. TypeOK'
  BY <1>1 DEF TypeOK, Jobs, Ended
<1>3. Nothing' /\ Sized' /\ Faults' /\ Alone'
  BY <1>1 DEF Nothing, Sized, Faults, Alone
<1>4. Known' /\ Single'
  BY <1>1 DEF Known, Single, Working, InResult, Jobs
<1>5. Success'
  BY <1>1 DEF Success, Files, SUCCESS, DIFF
<1> QED
  BY <1>2, <1>3, <1>4, <1>5

\* The listing of the files.
LEMMA ListKeeps ==
  ASSUME IInv, List
  PROVE  IInv'
<1> USE DEF IInv
<1>1. /\ n' \in Counts /\ njobs' = Smaller(n', IF args.j = 0 THEN Cpus + 1 ELSE args.j) /\ main = "listing"
      /\ \/ n' # 0 /\ njobs' < 1 /\ main' = "crashed" /\ retcode' = 1
         \/ ~(n' # 0 /\ njobs' < 1) /\ main' = (IF n' = 0 THEN "returned" ELSE "loop") /\ retcode' = retcode
      /\ doing' = [j \in Jobs' |-> 0] /\ stage' = [j \in Jobs' |-> "idle"]
      /\ pipe' = [j \in Jobs' |-> 0]
      /\ UNCHANGED <<args, taken, results, raised, handled, rewritten>>
  BY DEF List, Crash, Jobs
<1>2. n = 0 /\ taken = 0 /\ retcode = SUCCESS /\ ~raised /\ handled = {} /\ results = <<>> /\ rewritten = {}
  BY <1>1 DEF Nothing
<1>3. n' \in Nat /\ njobs' \in Int /\ njobs' <= n'
  <2>1. args.j \in Int /\ Cpus \in Nat \ {0} /\ n' \in Nat
    BY <1>1, FormatAssumption DEF TypeOK
  <2> QED
    BY <1>1, <2>1 DEF Smaller
<1>4. \A j \in Jobs' : stage'[j] = "idle"
  BY <1>1
<1>5. \A f : ~InResult(f)'
  BY <1>1, <1>2 DEF InResult
<1>6. TypeOK'
  <2>1. /\ doing' \in [Jobs' -> 0 .. taken'] /\ stage' \in [Jobs' -> {"idle", "opening", "formatting", "blocked"}]
    BY <1>1, <1>2
  <2>2. pipe' \in [Jobs' -> 0 .. Smaller(PipeSize, MaxNoise)]
    BY <1>1, FormatAssumption DEF Smaller
  <2>3. taken' \in 0 .. n'
    BY <1>1, <1>2, <1>3
  <2>4. main' \in {"start", "listing", "loop", "join"} \cup Ended /\ retcode' \in {SUCCESS, DIFF, TROUBLE}
    BY <1>1, <1>2 DEF Ended, SUCCESS, DIFF, TROUBLE
  <2> QED
    BY <1>1, <1>3, <2>1, <2>2, <2>3, <2>4 DEF TypeOK
<1>7. Nothing'
  BY <1>1 DEF Nothing
<1>8. Sized' /\ Alone'
  <2>1. main' \in {"loop", "join"} => n' # 0 /\ njobs' >= 1
    BY <1>1, <1>3
  <2>2. Direct' => 1 \in Jobs'
    BY DEF Direct, Jobs
  <2>3. main' = "loop" => retcode' # TROUBLE
    BY <1>1, <1>2 DEF SUCCESS, TROUBLE
  <2> QED
    BY <1>1, <1>2, <1>4, <2>1, <2>2, <2>3 DEF Sized, Alone
<1>9. Known'
  BY <1>1, <1>2 DEF Known
<1>10. Single'
  BY <1>1, <1>2, <1>4, <1>5 DEF Single, InResult
<1>11. Faults'
  BY <1>1, <1>2 DEF Faults
<1>12. Success'
  BY <1>1, <1>2, <1>3 DEF Success, Files
<1> QED
  BY <1>6, <1>7, <1>8, <1>9, <1>10, <1>11, <1>12

\* The other steps of the main process touch only its place and the exit code.
LEMMA OtherKeeps ==
  ASSUME IInv, CheckVersion \/ ListFails \/ StopIteration \/ Return
  PROVE  IInv'
<1> USE DEF IInv
<1>1. UNCHANGED <<args, n, njobs, taken, doing, stage, pipe, results, raised, handled, rewritten>>
  BY DEF CheckVersion, ListFails, StopIteration, Return, jobs
<1>2. TypeOK'
  <2>1. main' \in {"start", "listing", "loop", "join"} \cup Ended /\ retcode' \in {SUCCESS, DIFF, TROUBLE}
    BY DEF CheckVersion, ListFails, StopIteration, Return, Crash, Ended, SUCCESS, DIFF, TROUBLE, TypeOK
  <2> QED
    BY <1>1, <2>1 DEF TypeOK, Jobs
<1>3. Nothing' /\ Sized'
  BY <1>1 DEF CheckVersion, ListFails, StopIteration, Return, Crash, Nothing, Sized, Direct
<1>4. Known' /\ Single' /\ Alone'
  <2>1. main' # "loop"
    BY DEF CheckVersion, ListFails, StopIteration, Return, Crash
  <2> QED
    BY <1>1, <2>1 DEF Known, Single, Alone, Working, InResult, Jobs
<1>5. Faults' /\ Success'
  <2>1. CASE StopIteration
    BY <1>1, <2>1, AllHandled DEF StopIteration, Faults, Success, Files, SUCCESS, TROUBLE
  <2>2. CASE CheckVersion \/ ListFails
    BY <1>1, <2>2 DEF CheckVersion, ListFails, Crash, Nothing, Faults, Success, Files, SUCCESS, TROUBLE
  <2>3. CASE Return
    BY <1>1, <2>3 DEF Return, Faults, Success, Files
  <2> QED
    BY <2>1, <2>2, <2>3
<1> QED
  BY <1>2, <1>3, <1>4, <1>5

\* Every step preserves the invariant.
LEMMA Inductive ==
  ASSUME IInv, [Next]_vars
  PROVE  IInv'
<1>1. CASE UNCHANGED vars
  <2> USE <1>1 DEF vars, jobs
  <2>1. TypeOK' /\ Known' /\ Single'
    BY DEF IInv, TypeOK, Known, Single, Working, InResult, Jobs
  <2>2. Nothing' /\ Sized' /\ Faults' /\ Alone' /\ Success'
    BY DEF IInv, Nothing, Sized, Faults, Alone, Success, Files, Direct
  <2> QED
    BY <2>1, <2>2 DEF IInv
<1>2. CASE Handle
  <2>1. Head(results) = results[1]
    BY <1>2 DEF Handle
  <2> QED
    BY <1>2, <2>1, HandleKeeps, WriteFailsKeeps DEF Handle
<1> QED
  BY <1>1, <1>2, JobKeeps, ListKeeps, OtherKeeps DEF Next, Main

\* The inductive invariant holds in every reachable state (run-clang-format.py:330-404).
THEOREM Invariance == Spec => []IInv
<1>1. IInv /\ [Next]_vars => IInv'
  BY Inductive
<1> QED
  BY <1>1, InitInv, PTL DEF Spec

\* run-clang-format's state is well typed whatever clang-format does.
THEOREM TypeCorrect == Spec => []TypeOK
<1>1. IInv => TypeOK
  BY DEF IInv
<1> QED
  BY <1>1, Invariance, PTL

\* The invariant leaves no false success.
LEMMA NothingMissed == IInv => NoFalseSuccess
<1> SUFFICES ASSUME IInv PROVE NoFalseSuccess
  OBVIOUS
<1>1. rewritten \subseteq Files
  BY DEF IInv, TypeOK, Files
<1> QED
  BY <1>1 DEF IInv, Success, NoFalseSuccess

\* Exit code 0 means that all files were reported, and rewritten with -i, for any number
\* of jobs, one included.
THEOREM SuccessIsTrue == Spec => []NoFalseSuccess
BY NothingMissed, Invariance, PTL

\* The mapping of the states, as LintReport sees them.
LEMMA StepImplements ==
  ASSUME IInv, [Next]_vars
  PROVE  [Lint!Next]_(Lint!vars)
<1> USE DEF IInv
<1> DEFINE listed == IF njobs >= 1 THEN Files ELSE {}
           state == IF main \in {"start", "listing"} THEN "idle"
                    ELSE IF main = "loop" THEN "linting"
                    ELSE IF main = "join" THEN "ending"
                    ELSE IF njobs < 1 THEN "refused"
                    ELSE IF main = "returned" THEN "returned" ELSE "aborted"
<1>1. ASSUME UNCHANGED <<listed, Direct, handled, retcode, state>> PROVE UNCHANGED Lint!vars
  BY <1>1 DEF Lint!vars
<1>2. CASE CheckVersion \/ ListFails
  <2>1. njobs = 0 /\ njobs' = 0 /\ state = "idle" /\ handled' = handled
    BY <1>2 DEF CheckVersion, ListFails, Nothing
  <2>2. listed = {} /\ listed' = {} /\ ~Direct /\ ~Direct'
    BY <2>1 DEF Direct
  <2>3. CASE CheckVersion /\ main' = "listing"
    BY <1>1, <2>1, <2>2, <2>3 DEF CheckVersion, Direct
  <2>4. CASE ListFails \/ main' = "returned"
    <3>1. state' = "refused" /\ retcode' \in {0, 1, 2}
      BY <1>2, <2>1, <2>4 DEF CheckVersion, ListFails, Crash, TROUBLE
    <3>2. Lint!Refuse
      BY <2>1, <2>2, <3>1 DEF Lint!Refuse, Lint!SUCCESS, Lint!DIFF, Lint!TROUBLE, Direct
    <3> QED
      BY <3>2 DEF Lint!Next
  <2> QED
    BY <1>2, <2>3, <2>4 DEF CheckVersion
<1>3. CASE List
  <2>1. /\ njobs = 0 /\ state = "idle" /\ handled' = handled /\ n' \in Counts /\ n' \in Nat
        /\ retcode = SUCCESS /\ njobs' \in Int /\ njobs' <= n'
    <3>1. args.j \in Int /\ Cpus \in Nat /\ n' \in Nat
      BY <1>3, FormatAssumption DEF List, TypeOK
    <3> QED
      BY <1>3, <3>1 DEF List, Nothing, Smaller
  <2>2. listed = {} /\ ~Direct
    BY <2>1 DEF Direct
  <2>3. CASE njobs' >= 1
    <3>1. main' = "loop" /\ n' # 0 /\ retcode' = retcode
      BY <1>3, <2>1, <2>3 DEF List
    <3>2. state' = "linting" /\ listed' = 1 .. n' /\ Direct' \in BOOLEAN
      BY <2>3, <3>1 DEF Files, Direct
    <3>3. listed' \in {1 .. k : k \in Counts \ {0}}
      BY <2>1, <3>1, <3>2
    <3>4. Lint!Begin
      BY <2>1, <3>1, <3>2, <3>3 DEF Lint!Begin
    <3> QED
      BY <3>4 DEF Lint!Next
  <2>4. CASE ~(njobs' >= 1)
    <3>1. main' \in {"returned", "crashed"} /\ retcode' \in {0, 1, 2}
      BY <1>3, <2>1, <2>4 DEF List, Crash, SUCCESS
    <3>2. state' = "refused" /\ listed' = {} /\ ~Direct'
      BY <2>1, <2>4, <3>1 DEF Direct
    <3>3. Lint!Refuse
      BY <2>1, <2>2, <3>1, <3>2 DEF Lint!Refuse, Lint!SUCCESS, Lint!DIFF, Lint!TROUBLE, Direct
    <3> QED
      BY <3>3 DEF Lint!Next
  <2> QED
    BY <2>3, <2>4
<1>4. CASE Handle
  <2> DEFINE f == results[1].file
             v == results[1].verdict
  <2>1. /\ main = "loop" /\ n' = n /\ njobs' = njobs /\ njobs >= 1 /\ njobs \in Int
        /\ 1 \in 1 .. Len(results) /\ Head(results) = results[1] /\ results # <<>>
    BY <1>4 DEF Handle, TypeOK, Sized
  <2>2. results[1] \in [file : 1 .. taken, verdict : Verdicts]
    <3>1. results \in Seq([file : 1 .. taken, verdict : Verdicts])
      BY DEF TypeOK
    <3> QED
      BY <2>1, <3>1, ElementOfSeq, Zenon
  <2>3. v \in Lint!Verdicts /\ f \in Files /\ f \notin handled
    BY <2>1, <2>2 DEF Verdicts, Lint!Verdicts, Files, TypeOK, Single
  <2>4. listed = Files /\ listed' = listed /\ state = "linting" /\ (Direct' <=> Direct)
    BY <2>1 DEF Files, Direct
  <2>5. CASE Report(results[1])
    <3>1. /\ retcode' = Worse(retcode, v) /\ handled' = handled \cup {f}
          /\ main' = IF v = "unexpected" THEN "join" ELSE "loop"
      BY <2>1, <2>5 DEF Report
    <3>2. retcode' = Lint!Worse(retcode, v)
      BY <3>1 DEF Worse, Lint!Worse, SUCCESS, DIFF, TROUBLE, Lint!SUCCESS, Lint!DIFF, Lint!TROUBLE
    <3>3. state' = IF v = "unexpected" THEN "ending" ELSE state
      BY <2>1, <3>1
    <3>4. ~(Direct /\ retcode = TROUBLE)
      BY <2>1 DEF Alone
    <3>5. ~Lint!Broken
      BY <3>4 DEF Lint!Broken, TROUBLE, Lint!TROUBLE
    <3>6. Lint!Report(f, v)
      BY <2>3, <2>4, <3>1, <3>2, <3>3, <3>5 DEF Lint!Report, Direct
    <3> QED
      BY <2>3, <2>4, <3>6 DEF Lint!Next
  <2>6. CASE WriteFails(results[1])
    <3>1. main' = "crashed" /\ retcode' = 1 /\ handled' = handled
      BY <2>6 DEF WriteFails, Crash
    <3>2. state' = "aborted"
      BY <2>1, <3>1
    <3>3. Lint!Abort
      BY <2>3, <2>4, <3>1, <3>2 DEF Lint!Abort, Lint!DIFF, Direct
    <3> QED
      BY <3>3 DEF Lint!Next
  <2> QED
    BY <1>4, <2>1, <2>5, <2>6 DEF Handle
<1>5. CASE StopIteration
  <2>1. main = "loop" /\ main' = "join" /\ n' = n /\ njobs' = njobs /\ njobs >= 1
        /\ handled' = handled /\ retcode' = retcode
    BY <1>5 DEF StopIteration, jobs, Sized
  <2>2. listed = Files /\ listed' = listed /\ state = "linting" /\ state' = "ending"
    BY <2>1 DEF Files
  <2>3. handled = Files \/ (Direct /\ retcode = TROUBLE)
    <3>1. CASE Cardinality(handled) = n
      <4>1. n \in Nat /\ handled \subseteq 1 .. n
        BY DEF TypeOK
      <4>2. IsFiniteSet(1 .. n) /\ Cardinality(1 .. n) = n
        BY <4>1, FS_Interval
      <4> QED
        BY <3>1, <4>1, <4>2, FS_Subset DEF Files
    <3>2. CASE Direct
      BY <1>5, <3>2, AllHandled
    <3> QED
      BY <1>5, <3>1, <3>2 DEF StopIteration
  <2>4. handled = listed \/ Lint!Broken
    BY <2>2, <2>3 DEF Lint!Broken, TROUBLE, Lint!TROUBLE
  <2> QED
    BY <2>1, <2>2, <2>4 DEF Lint!Next, Lint!Finish, Direct
<1>6. CASE Return
  <2>1. /\ main = "join" /\ main' = "returned" /\ n' = n /\ njobs' = njobs /\ njobs >= 1
        /\ njobs \in Int /\ handled' = handled /\ retcode' = retcode
    BY <1>6 DEF Return, Sized, TypeOK
  <2>2. listed' = listed /\ state = "ending" /\ state' = "returned"
    BY <2>1 DEF Files
  <2> QED
    BY <2>1, <2>2 DEF Lint!Next, Lint!Return, Direct
<1>7. ASSUME NEW j \in Jobs, Job(j) \/ Noise(j) \/ Block(j)
      PROVE  UNCHANGED Lint!vars
  <2>1. UNCHANGED <<main, n, njobs, handled, retcode>>
    BY <1>7 DEF Job, Take, Open, Close, Noise, Block
  <2> QED
    BY <1>1, <2>1 DEF Files, Direct
<1>8. CASE UNCHANGED vars
  BY <1>1, <1>8 DEF vars, Files, Direct
<1> QED
  BY <1>2, <1>3, <1>4, <1>5, <1>6, <1>7, <1>8 DEF Next, Main

\* Every lint, for every -j, is one that LintReport describes.
THEOREM Refinement == Spec => ImplementsLint
<1>1. Init => Lint!Init
  BY DEF Init, Lint!Init, SUCCESS, Lint!SUCCESS, Direct
<1>2. IInv /\ [Next]_vars => [Lint!Next]_(Lint!vars)
  BY StepImplements
<1> QED
  BY <1>1, <1>2, Invariance, PTL DEF ImplementsLint, Lint!Spec, Spec

-----------------------------------------------------------------------------
(* The listing of the files *)

\* How many places of s hold a member of X.
Held(s, X)  == {k \in DOMAIN s : s[k] \in X}
Times(s, X) == Cardinality(Held(s, X))

\* FormatFiles counts as this module does.
LEMMA SameCounts ==
  /\ \A S : Listing!Cardinality(S) = Cardinality(S)
  /\ \A S : Listing!IsFiniteSet(S) <=> IsFiniteSet(S)
<1>1. \A S : Listing!Cardinality(S) = Cardinality(S)
  BY DEF Listing!Cardinality, Cardinality
<1>2. \A S : Listing!IsFiniteSet(S) <=> IsFiniteSet(S)
  BY DEF Listing!IsFiniteSet, IsFiniteSet
<1> QED
  BY <1>1, <1>2

\* The places of a sequence are finite in number.
LEMMA HeldFinite ==
  ASSUME NEW A, NEW s \in Seq(A), NEW X
  PROVE  Held(s, X) \subseteq 1 .. Len(s) /\ IsFiniteSet(Held(s, X)) /\ Times(s, X) \in Nat
<1>1. Len(s) \in Nat /\ DOMAIN s = 1 .. Len(s)
  BY LenProperties
<1>2. Held(s, X) \subseteq 1 .. Len(s)
  BY <1>1 DEF Held
<1>3. IsFiniteSet(1 .. Len(s))
  BY <1>1, FS_Interval
<1>4. IsFiniteSet(Held(s, X))
  BY <1>2, <1>3, FS_Subset
<1> QED
  BY <1>2, <1>4, FS_CardinalityType DEF Times

\* Moving a finite set of numbers by a distance does not change its size.
LEMMA ShiftKeepsSize ==
  ASSUME NEW S, S \subseteq Nat, IsFiniteSet(S), NEW d \in Nat
  PROVE  IsFiniteSet({d + k : k \in S}) /\ Cardinality({d + k : k \in S}) = Cardinality(S)
<1> DEFINE T == {d + k : k \in S}
           f == [k \in S |-> d + k]
<1>1. f \in Bijection(S, T)
  <2>1. f \in [S -> T] /\ \A t \in T : \E k \in S : f[k] = t
    OBVIOUS
  <2>2. \A a, b \in S : f[a] = f[b] => a = b
    OBVIOUS
  <2> QED
    BY <2>1, <2>2, Fun_IsBij
<1>2. ExistsBijection(S, T)
  BY <1>1 DEF ExistsBijection
<1> QED
  BY <1>2, FS_Bijection

\* Concatenation adds the counts.
LEMMA CountConcat ==
  ASSUME NEW A, NEW s \in Seq(A), NEW t \in Seq(A), NEW X
  PROVE  Times(s \o t, X) = Times(s, X) + Times(t, X)
<1> DEFINE u == s \o t
           moved == {Len(s) + k : k \in Held(t, X)}
<1>1. /\ Len(s) \in Nat /\ Len(t) \in Nat /\ DOMAIN s = 1 .. Len(s) /\ DOMAIN t = 1 .. Len(t)
      /\ DOMAIN u = 1 .. (Len(s) + Len(t))
      /\ \A i \in 1 .. Len(s) + Len(t) : u[i] = IF i <= Len(s) THEN s[i] ELSE t[i - Len(s)]
  <2>1. u \in Seq(A) /\ Len(u) = Len(s) + Len(t)
    BY ConcatProperties
  <2>2. DOMAIN u = 1 .. Len(u)
    BY <2>1, LenProperties
  <2> QED
    BY <2>1, <2>2, ConcatProperties, LenProperties
<1> HIDE DEF u
<1>2. Held(u, X) = Held(s, X) \cup moved
  <2>1. ASSUME NEW i \in Held(u, X) PROVE i \in Held(s, X) \cup moved
    <3>1. i \in 1 .. (Len(s) + Len(t)) /\ u[i] \in X
      BY <1>1, <2>1 DEF Held
    <3>2. CASE i <= Len(s)
      BY <1>1, <3>1, <3>2 DEF Held
    <3>3. CASE ~(i <= Len(s))
      <4>1. i - Len(s) \in 1 .. Len(t) /\ i = Len(s) + (i - Len(s)) /\ t[i - Len(s)] \in X
        BY <1>1, <3>1, <3>3
      <4> QED
        BY <1>1, <4>1 DEF Held
    <3> QED
      BY <3>2, <3>3
  <2>2. ASSUME NEW i \in Held(s, X) PROVE i \in Held(u, X)
    BY <1>1, <2>2 DEF Held
  <2>3. ASSUME NEW k \in Held(t, X) PROVE Len(s) + k \in Held(u, X)
    <3>1. k \in 1 .. Len(t) /\ t[k] \in X
      BY <1>1, <2>3 DEF Held
    <3>2. Len(s) + k \in 1 .. (Len(s) + Len(t)) /\ ~(Len(s) + k <= Len(s)) /\ (Len(s) + k) - Len(s) = k
      BY <1>1, <3>1
    <3>3. u[Len(s) + k] = t[k]
      BY <1>1, <3>2
    <3> QED
      BY <1>1, <3>1, <3>2, <3>3 DEF Held
  <2> QED
    BY <2>1, <2>2, <2>3
<1>3. Held(s, X) \cap moved = {}
  <2>1. \A k \in Held(t, X) : k \in Nat /\ k >= 1
    BY <1>1, HeldFinite
  <2>2. \A k \in Held(s, X) : k \in Nat /\ k <= Len(s)
    BY <1>1, HeldFinite
  <2> QED
    BY <1>1, <2>1, <2>2
<1>4. IsFiniteSet(moved) /\ Cardinality(moved) = Times(t, X)
  <2>1. Held(t, X) \subseteq Nat /\ IsFiniteSet(Held(t, X))
    BY <1>1, HeldFinite
  <2> QED
    BY <1>1, <2>1, ShiftKeepsSize DEF Times
<1>5. IsFiniteSet(Held(s, X)) /\ Times(s, X) \in Nat /\ Times(t, X) \in Nat
  BY HeldFinite
<1>6. Cardinality(Held(s, X) \cup moved) = Cardinality(Held(s, X)) + Cardinality(moved)
                                             - Cardinality(Held(s, X) \cap moved)
  BY <1>4, <1>5, FS_Union
<1>7. Cardinality(Held(s, X) \cap moved) = 0
  BY <1>3, FS_EmptySet
<1> QED
  BY <1>2, <1>4, <1>5, <1>6, <1>7 DEF Times, u

\* One place, or none.
LEMMA CountOne ==
  ASSUME NEW A, NEW s \in Seq(A), NEW X,
         \A i, k \in DOMAIN s : s[i] \in X /\ s[k] \in X => i = k
  PROVE  Times(s, X) = IF \E k \in DOMAIN s : s[k] \in X THEN 1 ELSE 0
<1>1. CASE \E k \in DOMAIN s : s[k] \in X
  <2>1. PICK k \in DOMAIN s : s[k] \in X
    BY <1>1
  <2>2. Held(s, X) = {k}
    BY <2>1 DEF Held
  <2> QED
    BY <1>1, <2>2, FS_Singleton DEF Times
<1>2. CASE ~ \E k \in DOMAIN s : s[k] \in X
  <2>1. Held(s, X) = {}
    BY <1>2 DEF Held
  <2> QED
    BY <1>2, <2>1, FS_EmptySet DEF Times
<1> QED
  BY <1>1, <1>2

\* The order in which os.walk lists a directory is one of its entries, each once.
LEMMA Listed ==
  ASSUME NEW S, IsFiniteSet(S)
  PROVE  /\ Listing!SetToSeq(S) \in Seq(S)
         /\ \A i, k \in DOMAIN Listing!SetToSeq(S) :
              Listing!SetToSeq(S)[i] = Listing!SetToSeq(S)[k] => i = k
         /\ \A x \in S : \E k \in DOMAIN Listing!SetToSeq(S) : Listing!SetToSeq(S)[k] = x
<1> DEFINE c == Cardinality(S)
           s == Listing!SetToSeq(S)
<1>1. c \in Nat /\ ExistsBijection(1 .. c, S)
  BY FS_CardinalityType
<1>2. PICK g \in Bijection(1 .. c, S) : TRUE
  BY <1>1 DEF ExistsBijection
<1>3. g \in [1 .. c -> S] /\ \A a, b \in 1 .. c : g[a] = g[b] => a = b
  BY <1>2, Fun_BijectionProperties
<1>4. Listing!IsInjective(g)
  BY <1>3 DEF Listing!IsInjective
<1>5. s = CHOOSE f \in [1 .. c -> S] : Listing!IsInjective(f)
  BY SameCounts DEF Listing!SetToSeq
<1> HIDE DEF s
<1>6. s \in [1 .. c -> S] /\ Listing!IsInjective(s)
  BY <1>3, <1>4, <1>5
<1>7. s \in Injection(1 .. c, S)
  BY <1>6, Fun_IsInj DEF Listing!IsInjective
<1>8. IsFiniteSet(1 .. c) /\ Cardinality(1 .. c) = c
  BY <1>1, FS_Interval
<1>9. s \in Surjection(1 .. c, S)
  BY <1>7, <1>8, FS_Injection
<1>10. \A x \in S : \E k \in 1 .. c : s[k] = x
  BY <1>9 DEF Surjection
<1>11. s \in Seq(S)
  BY <1>1, <1>6, SeqDef
<1> QED
  BY <1>6, <1>10, <1>11 DEF Listing!IsInjective, s

\* Paths are sequences; a strict prefix is shorter and what the longer one begins with.
LEMMA Prefixes ==
  ASSUME NEW A, NEW a \in Seq(A), NEW f \in Seq(A)
  PROVE  /\ Len(a) \in Nat /\ Len(f) \in Nat
         /\ Listing!IsStrictPrefix(a, f) <=> Len(a) < Len(f) /\ a = SubSeq(f, 1, Len(a))
<1>1. Len(a) \in Nat /\ Len(f) \in Nat
  BY LenProperties
<1>2. SubSeq(a, 1, Len(a)) = a /\ SubSeq(f, 1, Len(f)) = f
  BY SubSeqFull
<1>3. ASSUME Listing!IsStrictPrefix(a, f) PROVE Len(a) < Len(f) /\ a = SubSeq(f, 1, Len(a))
  <2>1. Len(a) <= Len(f) /\ a = SubSeq(f, 1, Len(a)) /\ a # f
    BY <1>2, <1>3 DEF Listing!IsStrictPrefix, Listing!IsPrefix
  <2>2. Len(a) # Len(f)
    BY <1>2, <2>1
  <2> QED
    BY <1>1, <2>1, <2>2
<1>4. ASSUME Len(a) < Len(f), a = SubSeq(f, 1, Len(a)) PROVE Listing!IsStrictPrefix(a, f)
  <2>1. Len(a) <= Len(f) /\ a # f
    BY <1>1, <1>4
  <2> QED
    BY <1>2, <1>4, <2>1 DEF Listing!IsStrictPrefix, Listing!IsPrefix
<1> QED
  BY <1>1, <1>3, <1>4

\* The first names of a path, and the first of those.
LEMMA Beginnings ==
  ASSUME NEW A, NEW f \in Seq(A), NEW k \in 0 .. Len(f)
  PROVE  /\ SubSeq(f, 1, k) \in Seq(A) /\ Len(SubSeq(f, 1, k)) = k
         /\ \A m \in 0 .. k : SubSeq(SubSeq(f, 1, k), 1, m) = SubSeq(f, 1, m)
<1>1. Len(f) \in Nat /\ \A i \in 1 .. Len(f) : f[i] \in A
  BY LenProperties, ElementOfSeq
<1>2. \A i \in 1 .. k : f[i] \in A
  BY <1>1
<1>3. SubSeq(f, 1, k) \in Seq(A) /\ Len(SubSeq(f, 1, k)) = k
      /\ \A i \in 1 .. k : SubSeq(f, 1, k)[i] = f[i]
  BY <1>1, <1>2, SubSeqProperties
<1>4. ASSUME NEW m \in 0 .. k PROVE SubSeq(SubSeq(f, 1, k), 1, m) = SubSeq(f, 1, m)
  <2> DEFINE g == SubSeq(f, 1, k)
  <2>1. \A i \in 1 .. m : g[i] \in A /\ f[i] \in A /\ g[i] = f[i]
    BY <1>1, <1>2, <1>3, <1>4
  <2> HIDE DEF g
  <2>2. SubSeq(g, 1, m) \in Seq(A) /\ Len(SubSeq(g, 1, m)) = m /\ \A i \in 1 .. m : SubSeq(g, 1, m)[i] = g[i]
    BY <2>1, SubSeqProperties
  <2>3. SubSeq(f, 1, m) \in Seq(A) /\ Len(SubSeq(f, 1, m)) = m /\ \A i \in 1 .. m : SubSeq(f, 1, m)[i] = f[i]
    BY <2>1, SubSeqProperties
  <2>4. SubSeq(g, 1, m) = SubSeq(f, 1, m)
    BY <2>1, <2>2, <2>3, SeqEqual
  <2> QED
    BY <2>4 DEF g
<1> QED
  BY <1>3, <1>4

\* What the walk of directory d is to list.
Below(d, f) ==
  /\ f \in Plain /\ Listing!IsStrictPrefix(d, f) /\ Listing!Last(f) \in Extensions
  /\ \A p \in Listing!Between(d, f) : ~Listing!Excluded(p)

\* The directories whose walk lists f.
Leading(f) == {d \in Dirs : Below(d, f)}

Paths == Plain \cup Dirs

\* The subdirectories and the files that one turn of the walk keeps.
Dnames(d) == {p \in Listing!Children(d, Dirs) : ~Listing!Excluded(p)}
Fnames(d) == {p \in Listing!Children(d, Plain) : ~Listing!Excluded(p) /\ Listing!Last(p) \in Extensions}

\* The entries of a directory.
LEMMA Entries ==
  ASSUME NEW S, S \subseteq Paths, NEW d, NEW p \in Listing!Children(d, S)
  PROVE  /\ p \in S /\ p \in Seq(Listing!Names) /\ Len(p) \in Nat
         /\ Len(p) = Len(d) + 1 /\ d = SubSeq(p, 1, Len(d))
<1>1. p \in S /\ p # <<>> /\ SubSeq(p, 1, Len(p) - 1) = d /\ p \in Seq(Listing!Names)
  BY ListingAssumption DEF Listing!Children, Listing!Front, Paths, Listing!Tree
<1>2. Len(p) \in Nat /\ Len(p) # 0
  BY <1>1, EmptySeq
<1>3. Len(p) - 1 \in 0 .. Len(p)
  BY <1>2
<1>4. Len(d) = Len(p) - 1
  BY <1>1, <1>3, Beginnings
<1> QED
  BY <1>1, <1>2, <1>4

\* A turn of the walk at d divides what is below it: into the files listed now and what is
\* below the subdirectories that were kept.
LEMMA WalkDivides ==
  ASSUME NEW d \in Dirs, NEW f \in Paths
  PROVE  /\ Below(d, f) <=> f \in Fnames(d) \/ \E c \in Dnames(d) : Below(c, f)
         /\ ~(f \in Fnames(d) /\ \E c \in Dnames(d) : Below(c, f))
         /\ \A b, c \in Dnames(d) : Below(b, f) /\ Below(c, f) => b = c
<1>1. d \in Seq(Listing!Names) /\ f \in Seq(Listing!Names) /\ Len(d) \in Nat /\ Len(f) \in Nat
  <2>1. d \in Seq(Listing!Names) /\ f \in Seq(Listing!Names)
    BY ListingAssumption DEF Listing!Tree, Paths
  <2> QED
    BY <2>1, LenProperties
<1>2. Listing!IsStrictPrefix(d, f) <=> Len(d) < Len(f) /\ d = SubSeq(f, 1, Len(d))
  BY <1>1, Prefixes
<1>3. SubSeq(f, 1, Len(f)) = f
  BY <1>1, SubSeqFull
<1>4. ASSUME NEW c \in Dnames(d)
      PROVE  /\ c \in Dirs /\ ~Listing!Excluded(c) /\ c \in Seq(Listing!Names)
             /\ Len(c) = Len(d) + 1 /\ d = SubSeq(c, 1, Len(d))
             /\ Listing!IsStrictPrefix(c, f) <=> Len(c) < Len(f) /\ c = SubSeq(f, 1, Len(c))
  <2>1. c \in Listing!Children(d, Dirs) /\ ~Listing!Excluded(c) /\ Dirs \subseteq Paths
    BY <1>4 DEF Dnames, Paths
  <2>2. c \in Dirs /\ c \in Seq(Listing!Names) /\ Len(c) = Len(d) + 1 /\ d = SubSeq(c, 1, Len(d))
    BY <2>1, Entries
  <2> QED
    BY <1>1, <2>1, <2>2, Prefixes
<1>5. ASSUME f \in Fnames(d)
      PROVE  /\ f \in Plain /\ ~Listing!Excluded(f) /\ Listing!Last(f) \in Extensions
             /\ Len(f) = Len(d) + 1 /\ d = SubSeq(f, 1, Len(d))
  <2>1. f \in Listing!Children(d, Plain) /\ ~Listing!Excluded(f) /\ Listing!Last(f) \in Extensions
        /\ Plain \subseteq Paths
    BY <1>5 DEF Fnames, Paths
  <2> QED
    BY <2>1, Entries
<1>6. ASSUME Below(d, f) PROVE f \in Fnames(d) \/ \E c \in Dnames(d) : Below(c, f)
  <2>1. /\ f \in Plain /\ Len(d) < Len(f) /\ d = SubSeq(f, 1, Len(d)) /\ Listing!Last(f) \in Extensions
        /\ \A k \in (Len(d) + 1) .. Len(f) : ~Listing!Excluded(SubSeq(f, 1, k))
    BY <1>2, <1>6 DEF Below, Listing!Between
  <2>2. CASE Len(f) = Len(d) + 1
    <3>1. Listing!Front(f) = d /\ f # <<>>
      BY <1>1, <2>1, <2>2 DEF Listing!Front
    <3>2. ~Listing!Excluded(f)
      <4>1. Len(f) \in (Len(d) + 1) .. Len(f)
        BY <1>1, <2>2
      <4>2. ~Listing!Excluded(SubSeq(f, 1, Len(f)))
        BY <2>1, <4>1
      <4> QED
        BY <1>3, <4>2
    <3> QED
      BY <2>1, <3>1, <3>2 DEF Fnames, Listing!Children
  <2>3. CASE Len(f) # Len(d) + 1
    <3> DEFINE k == Len(d) + 1
               c == SubSeq(f, 1, k)
    <3>1. k \in 0 .. Len(f) /\ k < Len(f) /\ k \in Len(d) .. (Len(f) - 1) /\ k \in (Len(d) + 1) .. Len(f)
      BY <1>1, <2>1, <2>3
    <3>2. c \in Seq(Listing!Names) /\ Len(c) = k /\ \A m \in 0 .. k : SubSeq(c, 1, m) = SubSeq(f, 1, m)
      BY <1>1, <3>1, Beginnings
    <3>3. c \in Dirs
      BY <1>2, <2>1, <3>1, ListingAssumption DEF Listing!Tree
    <3>4. ~Listing!Excluded(c)
      BY <2>1, <3>1
    <3>5. Listing!Front(c) = d /\ c # <<>>
      <4>1. SubSeq(c, 1, Len(d)) = d /\ Len(c) - 1 = Len(d)
        BY <1>1, <2>1, <3>2
      <4>2. Len(c) # 0
        BY <1>1, <3>2
      <4> QED
        BY <4>1, <4>2, EmptySeq DEF Listing!Front
    <3> HIDE DEF c
    <3>6. c \in Dnames(d)
      BY <3>3, <3>4, <3>5 DEF Dnames, Listing!Children
    <3>7. Listing!IsStrictPrefix(c, f)
      BY <1>4, <3>1, <3>2, <3>6 DEF c
    <3>8. Listing!Between(c, f) \subseteq Listing!Between(d, f)
      BY <1>1, <3>1, <3>2 DEF Listing!Between
    <3>9. Below(c, f)
      BY <1>6, <3>7, <3>8 DEF Below
    <3> QED
      BY <3>6, <3>9
  <2> QED
    BY <2>2, <2>3
<1>7. ASSUME f \in Fnames(d) PROVE Below(d, f)
  <2>1. Listing!Between(d, f) = {f}
    BY <1>1, <1>3, <1>5, <1>7 DEF Listing!Between
  <2> QED
    BY <1>1, <1>2, <1>5, <1>7, <2>1 DEF Below
<1>8. ASSUME NEW c \in Dnames(d), Below(c, f) PROVE Below(d, f) /\ f \notin Fnames(d) /\ c = SubSeq(f, 1, Len(d) + 1)
  <2>1. /\ f \in Plain /\ Len(c) < Len(f) /\ c = SubSeq(f, 1, Len(c)) /\ Listing!Last(f) \in Extensions
        /\ \A k \in (Len(c) + 1) .. Len(f) : ~Listing!Excluded(SubSeq(f, 1, k))
    BY <1>4, <1>8 DEF Below, Listing!Between
  <2>2. Len(c) = Len(d) + 1 /\ Len(c) \in 0 .. Len(f) /\ Len(d) \in 0 .. Len(c)
    <3>1. Len(c) = Len(d) + 1
      BY <1>4
    <3> QED
      BY <1>1, <2>1, <3>1
  <2>3. SubSeq(SubSeq(f, 1, Len(c)), 1, Len(d)) = SubSeq(f, 1, Len(d))
    BY <1>1, <2>2, Beginnings
  <2>4. Listing!IsStrictPrefix(d, f)
    BY <1>1, <1>2, <1>4, <2>1, <2>2, <2>3
  <2>5. \A k \in (Len(d) + 1) .. Len(f) : ~Listing!Excluded(SubSeq(f, 1, k))
    <3>1. ASSUME NEW k \in (Len(d) + 1) .. Len(f) PROVE k = Len(c) \/ k \in (Len(c) + 1) .. Len(f)
      BY <1>1, <2>2, <3>1
    <3> QED
      BY <1>4, <2>1, <3>1
  <2>6. f \notin Fnames(d)
    BY <1>1, <1>5, <2>1, <2>2
  <2> QED
    BY <2>1, <2>2, <2>4, <2>5, <2>6 DEF Below, Listing!Between
<1> QED
  BY <1>6, <1>7, <1>8

\* The arguments stay as they are given; the walk visits directories and lists what is there.
Given == {files[i] : i \in DOMAIN files}

Walking ==
  /\ files \in Seq(Given) /\ next \in 1 .. (Len(files) + 1)
  /\ todo \in Seq(Dirs) /\ out \in Seq(Paths \cup Given)
  /\ todo # <<>> => recursive

\* Until argument i the directories of todo and what is listed are what is to be listed.
Taken(f) == {i \in 1 .. (next - 1) : Listing!Lists(files[i], f)}
Balanced == \A f \in Paths : Times(out, {f}) + Times(todo, Leading(f)) = Cardinality(Taken(f))

\* What an argument contributes.
LEMMA Contribution ==
  ASSUME NEW a, NEW f \in Paths
  PROVE  Listing!Lists(a, f) <=> IF recursive /\ a \in Dirs THEN a \in Leading(f) ELSE a = f
BY DEF Listing!Lists, Leading, Below

\* One argument more is looked at.
LEMMA OneMoreTaken ==
  ASSUME Walking, next <= Len(files), next' = next + 1, UNCHANGED <<files, recursive, exclude>>, NEW f
  PROVE  Cardinality(Taken(f)') = Cardinality(Taken(f))
                                    + (IF Listing!Lists(files[next], f) THEN 1 ELSE 0)
<1>1. next \in Nat /\ next >= 1 /\ (next + 1) - 1 = next
  BY DEF Walking
<1>2. Taken(f)' = Taken(f) \cup (IF Listing!Lists(files[next], f) THEN {next} ELSE {})
  <2>1. \A i : Listing!Lists(files[i], f)' <=> Listing!Lists(files[i], f)
    BY DEF Listing!Lists, Listing!Excluded
  <2>2. 1 .. (next' - 1) = (1 .. (next - 1)) \cup {next}
    BY <1>1
  <2> QED
    BY <2>1, <2>2 DEF Taken
<1>3. IsFiniteSet(1 .. (next - 1))
  BY <1>1, FS_Interval
<1>4. IsFiniteSet(Taken(f)) /\ next \notin Taken(f)
  <2>1. Taken(f) \subseteq 1 .. (next - 1)
    BY DEF Taken
  <2> QED
    BY <1>1, <1>3, <2>1, FS_Subset
<1>5. Cardinality(Taken(f)) \in Nat /\ Cardinality(Taken(f) \cup {next}) = Cardinality(Taken(f)) + 1
  BY <1>4, FS_CardinalityType, FS_AddElement
<1>6. CASE Listing!Lists(files[next], f)
  BY <1>2, <1>5, <1>6
<1>7. CASE ~Listing!Lists(files[next], f)
  BY <1>2, <1>5, <1>7
<1> QED
  BY <1>6, <1>7

\* A sequence of one.
LEMMA CountSingle ==
  ASSUME NEW A, NEW x \in A, NEW X
  PROVE  <<x>> \in Seq(A) /\ Times(<<x>>, X) = IF x \in X THEN 1 ELSE 0
<1>1. <<x>> \in Seq(A) /\ DOMAIN <<x>> = {1} /\ <<x>>[1] = x
  OBVIOUS
<1>2. Times(<<x>>, X) = IF \E k \in DOMAIN <<x>> : <<x>>[k] \in X THEN 1 ELSE 0
  BY <1>1, CountOne
<1> QED
  BY <1>1, <1>2

\* Nothing is counted in an empty sequence.
LEMMA CountNone ==
  ASSUME NEW X PROVE Times(<<>>, X) = 0
<1>1. Held(<<>>, X) = {}
  BY DEF Held
<1> QED
  BY <1>1, FS_EmptySet DEF Times

\* The loop takes an argument.
LEMMA ArgumentKeeps ==
  ASSUME Walking, Balanced, Listing!TakeArgument
  PROVE  Walking' /\ Balanced'
<1> DEFINE a == files[next]
<1>1. /\ next <= Len(files) /\ todo = <<>> /\ next' = next + 1
      /\ UNCHANGED <<files, recursive, exclude>>
      /\ IF recursive /\ a \in Dirs THEN todo' = <<a>> /\ out' = out
         ELSE out' = Append(out, a) /\ todo' = todo
  BY DEF Listing!TakeArgument
<1>2. /\ files \in Seq(Given) /\ Len(files) \in Nat /\ next \in 1 .. Len(files) /\ a \in Given
      /\ out \in Seq(Paths \cup Given) /\ todo \in Seq(Dirs)
  BY <1>1, LenProperties DEF Walking, Given
<1>3. Given' = Given /\ \A f : Leading(f)' = Leading(f)
  BY <1>1 DEF Given, Leading, Below, Listing!Excluded, Listing!Between
<1>4. \A f \in Paths : /\ Times(out, {f}) \in Nat
                       /\ Times(todo, Leading(f)) = 0
                       /\ Times(out, {f}) = Cardinality(Taken(f))
  <2> TAKE f \in Paths
  <2>1. Times(out, {f}) \in Nat /\ Times(todo, Leading(f)) = 0
    BY <1>1, <1>2, HeldFinite, CountNone
  <2> QED
    BY <2>1 DEF Balanced
<1>5. \A f \in Paths : Cardinality(Taken(f)') = Cardinality(Taken(f))
                         + (IF Listing!Lists(a, f) THEN 1 ELSE 0)
  BY <1>1, OneMoreTaken
<1> HIDE DEF a
<1>6. CASE recursive /\ a \in Dirs
  <2>1. todo' = <<a>> /\ out' = out /\ recursive'
    BY <1>1, <1>6
  <2>2. todo' \in Seq(Dirs) /\ \A f : Times(todo', Leading(f)) = IF a \in Leading(f) THEN 1 ELSE 0
    BY <1>6, <2>1, CountSingle
  <2>3. Walking'
    BY <1>1, <1>2, <1>3, <2>1, <2>2 DEF Walking
  <2>4. ASSUME NEW f \in Paths
        PROVE  Times(out', {f}) + Times(todo', Leading(f)) = Cardinality(Taken(f)')
    <3>1. Listing!Lists(a, f) <=> a \in Leading(f)
      BY <1>6, Contribution
    <3> QED
      BY <1>4, <1>5, <2>1, <2>2, <3>1
  <2> QED
    BY <1>3, <2>3, <2>4 DEF Balanced, Times, Held
<1>7. CASE ~(recursive /\ a \in Dirs)
  <2> DEFINE one == <<a>>
  <2>1. out' = Append(out, a) /\ todo' = <<>>
    BY <1>1, <1>7
  <2>2. a \in Paths \cup Given
    BY <1>2
  <2>3. out' = out \o one
    BY <1>2, <2>1, <2>2, AppendIsConcat
  <2>4. one \in Seq(Paths \cup Given) /\ \A f : Times(one, {f}) = IF a \in {f} THEN 1 ELSE 0
    BY <2>2, CountSingle
  <2> HIDE DEF one
  <2>5. out' \in Seq(Paths \cup Given) /\ \A f : Times(out', {f}) = Times(out, {f}) + Times(one, {f})
    <3>1. out \o one \in Seq(Paths \cup Given)
      BY <1>2, <2>4, ConcatProperties
    <3>2. \A f : Times(out \o one, {f}) = Times(out, {f}) + Times(one, {f})
      <4> TAKE f
      <4>1. one \in Seq(Paths \cup Given) /\ out \in Seq(Paths \cup Given)
        BY <1>2, <2>4
      <4> QED
        BY <4>1, CountConcat
    <3> QED
      BY <2>3, <3>1, <3>2
  <2>6. Walking'
    BY <1>1, <1>2, <1>3, <2>1, <2>5 DEF Walking
  <2>7. ASSUME NEW f \in Paths
        PROVE  Times(out', {f}) + Times(todo', Leading(f)) = Cardinality(Taken(f)')
    <3>1. Listing!Lists(a, f) <=> a = f
      BY <1>7, Contribution
    <3>2. Times(todo', Leading(f)) = 0
      BY <2>1, CountNone
    <3>3. Times(out', {f}) = Times(out, {f}) + (IF a = f THEN 1 ELSE 0)
      BY <2>4, <2>5
    <3> QED
      BY <1>4, <1>5, <3>1, <3>2, <3>3
  <2> QED
    BY <1>3, <2>6, <2>7 DEF Balanced, Times, Held
<1> QED
  BY <1>6, <1>7

\* One turn of os.walk.
LEMMA WalkKeeps ==
  ASSUME Walking, Balanced, Listing!Walk
  PROVE  Walking' /\ Balanced'
<1> DEFINE d    == Head(todo)
           rest == Tail(todo)
           now  == Listing!SetToSeq(Fnames(d))
           into == Listing!SetToSeq(Dnames(d))
<1>1. /\ todo # <<>> /\ out' = out \o now /\ todo' = into \o rest
      /\ UNCHANGED <<files, recursive, exclude, next>>
  <2>1. Fnames(d) = {p \in {q \in Listing!Children(d, Plain) : ~Listing!Excluded(q)} :
                       Listing!Last(p) \in Extensions}
    BY DEF Fnames
  <2> QED
    BY <2>1 DEF Listing!Walk, Dnames
<1>2. /\ d \in Dirs /\ rest \in Seq(Dirs) /\ <<d>> \in Seq(Dirs) /\ todo = <<d>> \o rest
      /\ out \in Seq(Paths \cup Given) /\ recursive
  <2>1. todo \in Seq(Dirs) /\ todo # <<>>
    BY <1>1 DEF Walking
  <2>2. d \in Dirs /\ rest \in Seq(Dirs)
    BY <2>1, HeadTailProperties
  <2>3. todo = <<d>> \o rest
    BY <2>1
  <2> QED
    BY <1>1, <2>2, <2>3 DEF Walking
<1>3. /\ IsFiniteSet(Fnames(d)) /\ IsFiniteSet(Dnames(d))
      /\ Fnames(d) \subseteq Paths /\ Dnames(d) \subseteq Dirs
  <2>1. Fnames(d) \subseteq Plain /\ Dnames(d) \subseteq Dirs
    BY DEF Fnames, Dnames, Listing!Children
  <2>2. IsFiniteSet(Plain) /\ IsFiniteSet(Dirs)
    BY SameCounts, ListingAssumption DEF Listing!Tree
  <2> QED
    BY <2>1, <2>2, FS_Subset DEF Paths
<1>4. /\ now \in Seq(Fnames(d)) /\ \A i, k \in DOMAIN now : now[i] = now[k] => i = k
      /\ \A x \in Fnames(d) : \E k \in DOMAIN now : now[k] = x
  BY <1>3, Listed
<1>5. /\ into \in Seq(Dnames(d)) /\ \A i, k \in DOMAIN into : into[i] = into[k] => i = k
      /\ \A x \in Dnames(d) : \E k \in DOMAIN into : into[k] = x
  BY <1>3, Listed
<1> HIDE DEF d, rest, now, into
<1>6. now \in Seq(Paths \cup Given) /\ into \in Seq(Dirs)
  <2>1. Fnames(d) \subseteq Paths \cup Given
    BY <1>3
  <2> QED
    BY <1>3, <1>4, <1>5, <2>1, SeqMonotonic
<1>7. out' \in Seq(Paths \cup Given) /\ todo' \in Seq(Dirs)
  <2>1. out \o now \in Seq(Paths \cup Given)
    BY <1>2, <1>6, ConcatProperties
  <2>2. into \o rest \in Seq(Dirs)
    BY <1>2, <1>6, ConcatProperties
  <2> QED
    BY <1>1, <2>1, <2>2
<1>8. /\ Given' = Given /\ \A f : Leading(f)' = Leading(f)
      /\ \A f : Taken(f)' = Taken(f)
  BY <1>1 DEF Given, Leading, Below, Listing!Excluded, Listing!Between, Taken, Listing!Lists
<1>9. Walking'
  BY <1>1, <1>2, <1>7, <1>8 DEF Walking
<1>10. ASSUME NEW f \in Paths
       PROVE  Times(out', {f}) + Times(todo', Leading(f)) = Times(out, {f}) + Times(todo, Leading(f))
  <2>1. Times(out', {f}) = Times(out, {f}) + Times(now, {f})
    BY <1>1, <1>2, <1>6, CountConcat
  <2>2. Times(todo', Leading(f)) = Times(into, Leading(f)) + Times(rest, Leading(f))
    BY <1>1, <1>2, <1>6, CountConcat
  <2>3. Times(todo, Leading(f)) = (IF d \in Leading(f) THEN 1 ELSE 0) + Times(rest, Leading(f))
    <3>1. Times(<<d>> \o rest, Leading(f)) = Times(<<d>>, Leading(f)) + Times(rest, Leading(f))
      BY <1>2, CountConcat
    <3>2. Times(<<d>>, Leading(f)) = IF d \in Leading(f) THEN 1 ELSE 0
      BY <1>2, CountSingle
    <3> QED
      BY <1>2, <3>1, <3>2
  <2>4. Times(now, {f}) = IF f \in Fnames(d) THEN 1 ELSE 0
    <3>1. \A i, k \in DOMAIN now : now[i] \in {f} /\ now[k] \in {f} => i = k
      BY <1>4
    <3>2. Times(now, {f}) = IF \E k \in DOMAIN now : now[k] \in {f} THEN 1 ELSE 0
      BY <1>4, <3>1, CountOne
    <3>3. \A k \in DOMAIN now : now[k] \in Fnames(d)
      BY <1>4, LenProperties, ElementOfSeq
    <3> QED
      BY <1>4, <3>2, <3>3
  <2>5. Times(into, Leading(f)) = IF \E c \in Dnames(d) : Below(c, f) THEN 1 ELSE 0
    <3>1. \A k \in DOMAIN into : into[k] \in Dnames(d)
      BY <1>5, LenProperties, ElementOfSeq
    <3>2. \A c \in Dnames(d) : c \in Leading(f) <=> Below(c, f)
      BY <1>3 DEF Leading
    <3>3. \A i, k \in DOMAIN into : into[i] \in Leading(f) /\ into[k] \in Leading(f) => i = k
      <4> SUFFICES ASSUME NEW i \in DOMAIN into, NEW k \in DOMAIN into,
                          into[i] \in Leading(f), into[k] \in Leading(f)
                   PROVE  i = k
        OBVIOUS
      <4>1. into[i] \in Dnames(d) /\ into[k] \in Dnames(d) /\ Below(into[i], f) /\ Below(into[k], f)
        BY <3>1, <3>2
      <4>2. into[i] = into[k]
        BY <1>2, <4>1, WalkDivides
      <4> QED
        BY <1>5, <4>2
    <3>4. Times(into, Leading(f)) = IF \E k \in DOMAIN into : into[k] \in Leading(f) THEN 1 ELSE 0
      BY <1>5, <3>3, CountOne
    <3>5. (\E k \in DOMAIN into : into[k] \in Leading(f)) <=> \E c \in Dnames(d) : Below(c, f)
      BY <1>5, <3>1, <3>2
    <3> QED
      BY <3>4, <3>5
  <2>6. d \in Leading(f) <=> f \in Fnames(d) \/ \E c \in Dnames(d) : Below(c, f)
    BY <1>2, WalkDivides DEF Leading
  <2>7. ~(f \in Fnames(d) /\ \E c \in Dnames(d) : Below(c, f))
    BY <1>2, WalkDivides
  <2>8. Times(out, {f}) \in Nat /\ Times(rest, Leading(f)) \in Nat
    BY <1>2, HeldFinite
  <2>9. (IF d \in Leading(f) THEN 1 ELSE 0) = Times(now, {f}) + Times(into, Leading(f))
    BY <2>4, <2>5, <2>6, <2>7
  <2>10. Times(now, {f}) \in Nat /\ Times(into, Leading(f)) \in Nat
    BY <2>4, <2>5
  <2> QED
    BY <2>1, <2>2, <2>3, <2>8, <2>9, <2>10
<1>11. Balanced'
  BY <1>8, <1>10 DEF Balanced, Times, Held
<1> QED
  BY <1>9, <1>11

ListInv == Walking /\ Balanced

\* Nothing is listed at first.
LEMMA ListingStarts == Listing!Init => ListInv
<1> SUFFICES ASSUME Listing!Init PROVE ListInv
  OBVIOUS
<1>1. next = 1 /\ todo = <<>> /\ out = <<>> /\ files \in Arguments
  BY DEF Listing!Init
<1>2. files \in Seq(Given) /\ Len(files) \in Nat
  <2>1. files \in Seq(Given)
    BY <1>1, ListingAssumption DEF Listing!ArgumentLists, Given
  <2> QED
    BY <2>1, LenProperties
<1>3. Walking
  BY <1>1, <1>2 DEF Walking
<1>4. ASSUME NEW f \in Paths
      PROVE  Times(out, {f}) + Times(todo, Leading(f)) = Cardinality(Taken(f))
  <2>1. Taken(f) = {}
    BY <1>1 DEF Taken
  <2> QED
    BY <1>1, <2>1, CountNone, FS_EmptySet
<1> QED
  BY <1>3, <1>4 DEF ListInv, Balanced

\* The listing is a listing of FormatFiles, whatever formatting does.
LEMMA ListSteps ==
  ASSUME [ScriptNext]_<<vars, list>>
  PROVE  Listing!Next \/ UNCHANGED list
BY DEF ScriptNext, ListFiles, Count, IgnoreFails, Format, Stderr, list

\* The formatting is a formatting of FormatRunner, whatever the listing does.
LEMMA FormatSteps ==
  ASSUME [ScriptNext]_<<vars, list>>
  PROVE  [Next]_vars
BY DEF ScriptNext, ListFiles, Count, IgnoreFails, Format, Stderr, Next, Main

\* What is formatted, and how many times: a file as often as there are arguments that are it or
\* a directory whose walk comes to it.
THEOREM FilesListed == ScriptSpec => []ListsExactly
<1>1. ListInv /\ [ScriptNext]_<<vars, list>> => ListInv'
  <2> SUFFICES ASSUME ListInv, [ScriptNext]_<<vars, list>> PROVE ListInv'
    OBVIOUS
  <2>1. CASE Listing!TakeArgument
    BY <2>1, ArgumentKeeps DEF ListInv
  <2>2. CASE Listing!Walk
    BY <2>2, WalkKeeps DEF ListInv
  <2>3. CASE UNCHANGED list
    BY <2>3 DEF list, ListInv, Walking, Balanced, Given, Times, Held, Leading, Taken, Below,
                Listing!Lists, Listing!Excluded, Listing!Between
  <2> QED
    BY <2>1, <2>2, <2>3, ListSteps DEF Listing!Next
<1>2. ListInv => ListsExactly
  <2> SUFFICES ASSUME ListInv, Listing!Done, NEW f \in Paths
               PROVE  Cardinality({k \in DOMAIN out : out[k] = f})
                        = Cardinality({i \in DOMAIN files : Listing!Lists(files[i], f)})
    BY SameCounts DEF ListsExactly, Listing!ListsExactly, Paths
  <2>1. todo = <<>> /\ next > Len(files)
    BY DEF Listing!Done
  <2>2. next - 1 = Len(files) /\ DOMAIN files = 1 .. Len(files) /\ out \in Seq(Paths \cup Given)
    BY <2>1, LenProperties DEF ListInv, Walking
  <2>3. {k \in DOMAIN out : out[k] = f} = Held(out, {f})
    BY DEF Held
  <2>4. {i \in DOMAIN files : Listing!Lists(files[i], f)} = Taken(f)
    BY <2>2 DEF Taken
  <2>5. Times(todo, Leading(f)) = 0 /\ Times(out, {f}) \in Nat
    BY <2>1, <2>2, CountNone, HeldFinite
  <2>6. Times(out, {f}) + Times(todo, Leading(f)) = Cardinality(Taken(f))
    BY DEF ListInv, Balanced
  <2>7. Times(out, {f}) = Cardinality(Taken(f))
    BY <2>5, <2>6
  <2> QED
    BY <2>3, <2>4, <2>7 DEF Times
<1>3. ScriptInit => ListInv
  BY ListingStarts DEF ScriptInit
<1> QED
  BY <1>1, <1>2, <1>3, PTL DEF ScriptSpec

\* The whole script keeps the invariant of FormatRunner.
LEMMA ScriptInvariance == ScriptSpec => []IInv
<1>1. IInv /\ [ScriptNext]_<<vars, list>> => IInv'
  BY FormatSteps, Inductive
<1>2. ScriptInit => IInv
  BY InitInv DEF ScriptInit
<1> QED
  BY <1>1, <1>2, PTL DEF ScriptSpec

\* Exit code 0 of the script is no false success.
THEOREM ScriptSuccess == ScriptSpec => []NoFalseSuccess
BY NothingMissed, ScriptInvariance, PTL

\* What the script does is a lint that LintReport describes, for every -j.
THEOREM ScriptRefinement == ScriptSpec => ImplementsLint
<1>1. ScriptInit => Lint!Init
  BY DEF ScriptInit, Init, Lint!Init, SUCCESS, Lint!SUCCESS, Direct
<1>2. IInv /\ [ScriptNext]_<<vars, list>> => [Lint!Next]_(Lint!vars)
  BY FormatSteps, StepImplements
<1> QED
  BY <1>1, <1>2, ScriptInvariance, PTL DEF ImplementsLint, Lint!Spec, ScriptSpec

\* Formatting begins when the walk is over, with as many files as it has found.
Handover ==
  main \in {"loop", "join"} \/ (main = "returned" /\ retcode # TROUBLE) =>
    Listing!Done /\ n = Len(out)

\* With exit code 0 every file of the walk, as often as it was listed, was reported, and
\* rewritten with -i.
AllOfTheWalk ==
  main = "returned" /\ retcode = SUCCESS =>
    /\ Listing!Done /\ handled = 1 .. Len(out)
    /\ args.in_place /\ ~args.dry_run => rewritten = 1 .. Len(out)

\* The files that list_files has found, and no others, are what a successful run formats.
THEOREM WalkIsFormatted == ScriptSpec => []AllOfTheWalk
<1>1. ScriptInit => Handover
  BY DEF ScriptInit, Init, Handover
<1>2. IInv /\ Handover /\ [ScriptNext]_<<vars, list>> => Handover'
  <2> SUFFICES ASSUME IInv, Handover, [ScriptNext]_<<vars, list>> PROVE Handover'
    OBVIOUS
  <2>1. CASE ListFiles
    BY <2>1 DEF ListFiles, vars, Handover
  <2>2. CASE Count
    <3>1. Listing!Done' /\ n' = Len(out) /\ out' = out
      BY <2>2 DEF Count, list, Listing!Done
    <3> QED
      BY <3>1 DEF Handover
  <2>3. CASE IgnoreFails
    BY <2>3 DEF IgnoreFails, ListFails, Crash, Handover
  <2>4. ASSUME UNCHANGED list, n' = n,
               \/ main' = main /\ retcode' = retcode
               \/ main \in {"loop", "join"}
               \/ main' = "listing"
               \/ retcode' = TROUBLE /\ main' = "returned"
        PROVE  Handover'
    BY <2>4 DEF list, Handover, Listing!Done
  <2>5. CASE Format
    BY <2>4, <2>5 DEF Format, CheckVersion, Handle, StopIteration, Return, Job, Take, Open, Close
  <2>6. CASE Stderr
    BY <2>4, <2>6 DEF Stderr, Noise, Block
  <2>7. CASE UNCHANGED <<vars, list>>
    BY <2>4, <2>7 DEF vars
  <2> QED
    BY <2>1, <2>2, <2>3, <2>5, <2>6, <2>7 DEF ScriptNext
<1>3. IInv /\ Handover => AllOfTheWalk
  BY NothingMissed DEF NoFalseSuccess, Handover, AllOfTheWalk, Files, SUCCESS, TROUBLE
<1> QED
  BY <1>1, <1>2, <1>3, ScriptInvariance, PTL DEF ScriptSpec
=============================================================================
