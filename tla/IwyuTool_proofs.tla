--------------------------- MODULE IwyuTool_proofs ---------------------------
(***************************************************************************)
(* Proofs about IwyuTool and IwyuExecute, for any database, selection, -j, *)
(* limit and loads.  First execute alone, where the caller is left open    *)
(* and may hand it any list of any commands C; then the whole tool; then   *)
(* the texts it reads on its way (IwyuText), which share no state with it. *)
(***************************************************************************)
EXTENDS IwyuTool, IwyuText, SequenceTheorems, FiniteSetTheorems, FunctionTheorems, TLAPS

-----------------------------------------------------------------------------
\* execute under any caller, with the processes it starts.
Call(C) == \E commands \in Seq(C) : Begin(commands)
AnyEnd == \E p \in running : End(p)
ExecuteNext(C) == Call(C) \/ execute \/ Raise \/ AnyEnd
ExecuteSpec(C) == Init /\ [][ExecuteNext(C)]_vars

-----------------------------------------------------------------------------
\* The processes started so far.
Born == 1 .. Len(started)

Typed(C) ==
  /\ jobs \in Int /\ max_load_average \in Nat
  /\ main \in {"idle", "one", "collect", "schedule", "returned", "crashed"}
  /\ invocations \in Seq(C) /\ started \in Seq(C)
  /\ code \in Seq(Int) /\ Len(code) = Len(started)
  /\ printed \in Seq(Nat) /\ Len(printed) = Len(started)
  /\ exit_code \in Int
  /\ pending \subseteq Born /\ running \subseteq pending

\* Until something is raised: what is pending was not printed, what is not was, once,
\* and its code counts.
Accounts ==
  main # "crashed" =>
    /\ \A p \in Born : IF p \in pending THEN printed[p] = 0
                       ELSE printed[p] = 1 /\ code[p] <= exit_code
    /\ exit_code = 0 \/ \E p \in Born \ pending : code[p] = exit_code
    /\ main = "returned" => invocations = <<>> /\ pending = {}

\* What was found complete has ended and was not taken out; it is forgotten in the end.
Polled == complete \subseteq pending \ running /\ (main # "collect" => complete = {})

\* The inductive invariant.
IInv(C) == Typed(C) /\ Accounts /\ Polled

-----------------------------------------------------------------------------
(* Slices *)

\* A slice bound is cut off at the ends of the sequence.
LEMMA CutInside ==
  ASSUME NEW S, NEW s \in Seq(S), NEW k \in Int
  PROVE  Cut(s, k) \in 0 .. Len(s)
BY DEF Cut, Smaller, Larger

\* s[:k] and s[k:] together are s, for every k, also a negative one or one beyond the end.
LEMMA SlicesRejoin ==
  ASSUME NEW S, NEW s \in Seq(S), NEW k \in Int
  PROVE  /\ UpTo(s, k) \in Seq(S) /\ From(s, k) \in Seq(S)
         /\ UpTo(s, k) \o From(s, k) = s
<1> DEFINE c == Cut(s, k)
<1>1. c \in 0 .. Len(s) /\ Len(s) \in Nat
  BY CutInside
<1> HIDE DEF c
<1>2. SubSeq(s, 1, c) \in Seq(S) /\ SubSeq(s, c + 1, Len(s)) \in Seq(S)
  <2>1. \A i \in 1 .. c : s[i] \in S
    BY <1>1
  <2>2. \A i \in (c + 1) .. Len(s) : s[i] \in S
    BY <1>1
  <2> QED
    BY <1>1, <2>1, <2>2, SubSeqProperties
<1>3. SubSeq(s, 1, c) \o SubSeq(s, c + 1, Len(s)) = SubSeq(s, 1, Len(s))
  <2>1. 1 \in 1 .. (Len(s) + 1) /\ c \in (1 - 1) .. Len(s) /\ Len(s) \in c .. Len(s)
    BY <1>1
  <2> QED
    BY <2>1, ConcatAdjacentSubSeq
<1> QED
  BY <1>2, <1>3, SubSeqFull DEF UpTo, From, c

\* The number of processes to start is an integer.
LEMMA CapacityInt ==
  ASSUME NEW C, Typed(C), NEW l \in Loads PROVE Capacity(l) \in Int
<1>1. Cardinality(pending) \in Nat
  <2>1. IsFiniteSet(1 .. Len(started))
    BY FS_Interval DEF Typed
  <2>2. IsFiniteSet(pending)
    BY <2>1, FS_Subset DEF Typed, Born
  <2> QED
    BY <2>2, FS_CardinalityType
<1>2. l \in Nat
  BY ExecuteAssumption
<1> QED
  BY <1>1, <1>2 DEF Capacity, Larger, Typed

-----------------------------------------------------------------------------
(* Starting and reporting *)

\* What Show does to the counts.
LEMMA ShowEffect ==
  ASSUME printed \in Seq(Nat), NEW ps, Show(ps)
  PROVE  /\ printed' \in Seq(Nat) /\ Len(printed') = Len(printed)
         /\ \A p \in 1 .. Len(printed) : printed'[p] = IF p \in ps THEN printed[p] + 1 ELSE printed[p]
<1> DEFINE n == Len(printed)
<1>1. n \in Nat /\ DOMAIN printed = 1 .. n /\ \A p \in 1 .. n : printed[p] \in Nat
  BY LenProperties
<1> HIDE DEF n
<1>2. printed' = [p \in 1 .. n |-> IF p \in ps THEN printed[p] + 1 ELSE printed[p]]
  BY <1>1 DEF Show
<1>3. printed' \in Seq(Nat) /\ Len(printed') = n
  BY <1>1, <1>2
<1> QED
  BY <1>2, <1>3 DEF n

\* What Start does to the processes and the list.
LEMMA StartEffect ==
  ASSUME NEW C, Typed(C), NEW k \in Int, Start(k)
  PROVE  /\ invocations' \in Seq(C) /\ started' \in Seq(C)
         /\ started' \o invocations' = started \o invocations
         /\ code' \in Seq(Int) /\ Len(code') = Len(started')
         /\ printed' \in Seq(Nat) /\ Len(printed') = Len(started')
         /\ Born \subseteq Born'
         /\ pending' = pending \cup (Born' \ Born)
         /\ running' = running \cup (Born' \ Born)
         /\ \A p \in Born : code'[p] = code[p] /\ printed'[p] = printed[p]
         /\ \A p \in Born' \ Born : printed'[p] = 0
<1> DEFINE first == UpTo(invocations, k)
           zeros == [i \in DOMAIN first |-> 0]
           n == Len(first)
<1>1. first \in Seq(C) /\ From(invocations, k) \in Seq(C)
      /\ first \o From(invocations, k) = invocations
  BY SlicesRejoin DEF Typed
<1>2. n \in Nat /\ DOMAIN first = 1 .. n
  BY <1>1, LenProperties
<1>3. zeros \in Seq(Nat) /\ zeros \in Seq(Int) /\ Len(zeros) = n /\ \A i \in 1 .. n : zeros[i] = 0
  BY <1>2
<1>4. /\ started' = started \o first /\ invocations' = From(invocations, k)
      /\ pending' = pending \cup Following(n) /\ running' = running \cup Following(n)
      /\ code' = code \o zeros /\ printed' = printed \o zeros
  BY DEF Start
<1> HIDE DEF first, zeros, n
<1>5. started' \in Seq(C) /\ Len(started') = Len(started) + n /\ Len(started) \in Nat
  <2>1. started \in Seq(C) /\ Len(first) = n
    BY DEF Typed, n
  <2> QED
    BY <1>1, <1>4, <2>1, ConcatProperties, LenProperties
<1>6. started' \o invocations' = started \o invocations
  <2>1. (started \o first) \o From(invocations, k) = started \o (first \o From(invocations, k))
    <3>1. \A s, t, u \in Seq(C) : (s \o t) \o u = s \o (t \o u)
      BY ConcatAssociative
    <3>2. started \in Seq(C)
      BY DEF Typed
    <3> QED
      BY <1>1, <3>1, <3>2, Zenon
  <2> QED
    BY <1>1, <1>4, <2>1
<1>7. /\ code' \in Seq(Int) /\ Len(code') = Len(started) + n
      /\ \A p \in 1 .. (Len(started) + n) : code'[p] = IF p <= Len(started) THEN code[p] ELSE zeros[p - Len(started)]
  BY <1>3, <1>4, ConcatProperties DEF Typed
<1>8. /\ printed' \in Seq(Nat) /\ Len(printed') = Len(started) + n
      /\ \A p \in 1 .. (Len(started) + n) : printed'[p] = IF p <= Len(started) THEN printed[p] ELSE zeros[p - Len(started)]
  BY <1>3, <1>4, ConcatProperties DEF Typed
<1>9. Born \subseteq Born' /\ Following(n) = Born' \ Born
  BY <1>2, <1>5 DEF Born, Following
<1>10. \A p \in Born : code'[p] = code[p] /\ printed'[p] = printed[p]
  BY <1>2, <1>5, <1>7, <1>8 DEF Born
<1>11. \A p \in Born' \ Born : printed'[p] = 0
  <2> SUFFICES ASSUME NEW p \in Born', p \notin Born PROVE printed'[p] = 0
    OBVIOUS
  <2>1. p \in 1 .. (Len(started) + n) /\ ~ (p <= Len(started)) /\ p - Len(started) \in 1 .. n
    BY <1>2, <1>5 DEF Born
  <2> QED
    BY <1>3, <1>8, <2>1
<1> QED
  BY <1>1, <1>4, <1>5, <1>6, <1>7, <1>8, <1>9, <1>10, <1>11

\* Starting keeps the types and the accounts.
LEMMA StartKeeps ==
  ASSUME NEW C, IInv(C), NEW k \in Int, Start(k), main \in {"one", "schedule"},
         main' \in {"one", "collect", "crashed"}, UNCHANGED <<options, polls, exit_code>>
  PROVE  IInv(C)'
<1> USE DEF IInv
<1>1. Typed(C)'
  BY StartEffect DEF Typed, options
<1>2. Accounts'
  <2> SUFFICES ASSUME main' # "crashed" PROVE Accounts'
    BY DEF Accounts
  <2>1. ASSUME NEW p \in Born'
        PROVE  IF p \in pending' THEN printed'[p] = 0 ELSE printed'[p] = 1 /\ code'[p] <= exit_code'
    <3>1. CASE p \in Born
      BY <3>1, StartEffect DEF Accounts
    <3>2. CASE p \notin Born
      BY <2>1, <3>2, StartEffect
    <3> QED
      BY <3>1, <3>2
  <2>2. exit_code' = 0 \/ \E p \in Born' \ pending' : code'[p] = exit_code'
    <3>1. CASE exit_code = 0
      BY <3>1
    <3>2. CASE exit_code # 0
      <4>1. PICK p \in Born \ pending : code[p] = exit_code
        BY <3>2 DEF Accounts
      <4>2. p \in Born' \ pending' /\ code'[p] = exit_code'
        BY <4>1, StartEffect
      <4> QED
        BY <4>2
    <3> QED
      BY <3>1, <3>2
  <2> QED
    BY <2>1, <2>2 DEF Accounts
<1>3. Polled'
  BY DEF Polled, polls
<1> QED
  BY <1>1, <1>2, <1>3

\* Printing the outputs of processes that have ended and taking them out keeps them too.
LEMMA ReportKeeps ==
  ASSUME NEW C, IInv(C), NEW ps \in SUBSET (pending \ running), Report(ps),
         pending' = pending \ ps, main \notin {"crashed", "returned"},
         main' \in {"one", "schedule"}, complete' = {}, UNCHANGED <<options, invocations, procs>>
  PROVE  IInv(C)'
<1> USE DEF IInv
<1>1. /\ printed' \in Seq(Nat) /\ Len(printed') = Len(printed)
      /\ \A p \in Born : printed'[p] = IF p \in ps THEN printed[p] + 1 ELSE printed[p]
  BY ShowEffect DEF Report, Typed, Born
<1>2. /\ exit_code' \in {exit_code} \cup {code[p] : p \in ps}
      /\ exit_code' >= exit_code /\ \A p \in ps : exit_code' >= code[p]
  BY DEF Report
<1>3. Born' = Born /\ code' = code /\ running' = running /\ started' = started
      /\ invocations' = invocations /\ jobs' = jobs /\ max_load_average' = max_load_average
  BY DEF procs, options, Born
<1>4. code \in Seq(Int) /\ ps \subseteq Born /\ \A p \in Born : code[p] \in Int
  BY DEF Typed, Born
<1>5. exit_code' \in Int /\ exit_code \in Int
  BY <1>2, <1>4 DEF Typed
<1>6. Typed(C)'
  BY <1>1, <1>3, <1>5 DEF Typed
<1>7. ASSUME NEW p \in Born
      PROVE  IF p \in pending' THEN printed'[p] = 0 ELSE printed'[p] = 1 /\ code'[p] <= exit_code'
  <2>1. CASE p \in ps
    BY <1>1, <1>2, <1>3, <1>4, <1>5, <2>1 DEF Accounts
  <2>2. CASE p \notin ps
    <3>1. p \in pending' <=> p \in pending
      BY <2>2
    <3> QED
      BY <1>1, <1>2, <1>3, <1>4, <1>5, <2>2, <3>1 DEF Accounts
  <2> QED
    BY <2>1, <2>2
<1>8. exit_code' = 0 \/ \E p \in Born \ pending' : code[p] = exit_code'
  BY <1>2, <1>4 DEF Accounts
<1>9. Polled'
  BY DEF Polled
<1> QED
  BY <1>3, <1>6, <1>7, <1>8, <1>9 DEF Accounts

-----------------------------------------------------------------------------
(* The invariant, step by step *)

\* A process that ends is pending: its code does not count yet.
LEMMA EndKeeps == ASSUME NEW C, IInv(C), NEW p \in running, End(p) PROVE IInv(C)'
<1> USE DEF IInv
<1>1. PICK c \in Codes : code' = [code EXCEPT ![p] = c]
  BY DEF End
<1>2. c \in Int /\ p \in 1 .. Len(code) /\ p \in pending
  BY ExecuteAssumption DEF Typed, Born
<1>3. code' \in Seq(Int) /\ Len(code') = Len(code) /\ \A q \in Born : q # p => code'[q] = code[q]
  BY <1>1, <1>2, ExceptSeq DEF Typed, Born
<1>4. /\ running' = running \ {p} /\ Born' = Born
      /\ UNCHANGED <<jobs, max_load_average, main, invocations, started, pending, printed, exit_code>>
  BY DEF End, options, Born
<1>5. Typed(C)'
  BY <1>3, <1>4 DEF Typed
<1>6. Accounts'
  BY <1>2, <1>3, <1>4 DEF Accounts
<1>7. Polled'
  BY <1>4 DEF Polled, End, polls
<1> QED
  BY <1>5, <1>6, <1>7

\* Every step of execute, its caller or its processes preserves the invariant.
LEMMA InvStep == ASSUME NEW C PROVE IInv(C) /\ [ExecuteNext(C)]_vars => IInv(C)'
<1> SUFFICES ASSUME IInv(C), [ExecuteNext(C)]_vars PROVE IInv(C)'
  OBVIOUS
<1> USE DEF IInv
<1>1. CASE Call(C)
  BY <1>1 DEF Call, Begin, Typed, Accounts, Polled, Born, options, procs, polls
<1>2. CASE StartOne
  BY <1>2, StartKeeps DEF StartOne
<1>3. CASE FinishOne
  <2>1. pending \in SUBSET (pending \ running) /\ pending' = pending \ pending /\ complete' = {}
    BY <1>3 DEF FinishOne, Polled, polls
  <2> QED
    BY <1>3, <2>1, ReportKeeps DEF FinishOne
<1>4. CASE Collect
  <2>1. complete \in SUBSET (pending \ running)
    BY DEF Polled
  <2> QED
    BY <1>4, <2>1, ReportKeeps DEF Collect
<1>11. CASE Poll
  <2>1. UNCHANGED <<options, main, invocations, procs, pending, printed, exit_code>> /\ main = "collect"
    BY <1>11 DEF Poll
  <2>2. PICK p \in pending : complete' = complete \/ (p \notin running /\ complete' = complete \cup {p})
    BY <1>11 DEF Poll, Unpolled
  <2>3. Polled'
    BY <2>1, <2>2 DEF Polled, procs
  <2>4. Typed(C)' /\ Accounts'
    BY <2>1 DEF Typed, Accounts, Born, options, procs
  <2> QED
    BY <2>3, <2>4
<1>5. CASE Schedule
  <2>1. PICK l \in Loads : Start(Capacity(l))
    BY <1>5 DEF Schedule
  <2>2. Capacity(l) \in Int
    BY CapacityInt
  <2> QED
    BY <1>5, <2>1, <2>2, StartKeeps DEF Schedule
<1>6. CASE Return
  BY <1>6 DEF Return, Typed, Accounts, Polled, Born, options, procs, polls
<1>7. CASE StartRaises
  <2>1. PICK k \in Int : Start(k)
    <3>1. CASE main = "one" /\ Start(0)
      BY <3>1
    <3>2. CASE \E l \in Loads : \E n \in 0 .. (Len(UpTo(invocations, Capacity(l))) - 1) : Start(n)
      BY <3>2
    <3> QED
      BY <1>7, <3>1, <3>2 DEF StartRaises
  <2> QED
    BY <1>7, <2>1, StartKeeps DEF StartRaises
<1>8. CASE PrintRaises
  <2> DEFINE ended == IF main = "one" THEN pending \ running ELSE complete
  <2>1. PICK p \in ended : LET before == {q \in ended : q < p}
                          IN  Report(before) /\ pending' = pending \ (before \cup {p})
    BY <1>8 DEF PrintRaises
  <2>4. ended \subseteq pending \ running
    BY DEF Polled
  <2> HIDE DEF ended
  <2>ps. PICK ps \in SUBSET (pending \ running) : Report(ps) /\ pending' = pending \ (ps \cup {p})
    <3>1. {q \in ended : q < p} \in SUBSET (pending \ running)
      BY <2>4
    <3> QED
      BY <2>1, <3>1
  <2>5. p \in pending \ running
    BY <2>4
  <2>6. Polled'
    BY <1>8 DEF PrintRaises, Polled
  <2>2. printed' \in Seq(Nat) /\ Len(printed') = Len(printed)
    BY <2>ps, ShowEffect DEF Report, Typed
  <2>3. exit_code' \in Int
    BY <2>ps DEF Report, Typed, Born
  <2> QED
    BY <1>8, <2>ps, <2>2, <2>3, <2>5, <2>6 DEF PrintRaises, Typed, Accounts, Born, options, procs
<1>9. CASE AnyEnd
  BY <1>9, EndKeeps DEF AnyEnd
<1>10. CASE UNCHANGED vars
  BY <1>10 DEF vars, options, procs, polls, Typed, Accounts, Polled, Born
<1> QED
  BY <1>1, <1>2, <1>3, <1>4, <1>5, <1>6, <1>7, <1>8, <1>9, <1>10, <1>11 DEF ExecuteNext, execute, Raise

\* The initial states satisfy it.
LEMMA InitInv == ASSUME NEW C PROVE Init => IInv(C)
BY ExecuteAssumption DEF Init, IInv, Typed, Accounts, Polled, Born

\* It holds throughout every run.
LEMMA InvHolds == ASSUME NEW C PROVE ExecuteSpec(C) => []IInv(C)
BY InitInv, InvStep, PTL DEF ExecuteSpec

\* On return everything was started, has ended and was printed once, and the exit code is
\* the largest (iwyu_tool.py:363-401).
THEOREM AllReported == ASSUME NEW C PROVE ExecuteSpec(C) => []ReturnReportsAll
<1>1. IInv(C) => ReturnReportsAll
  <2> SUFFICES ASSUME IInv(C), main = "returned" PROVE ReturnReportsAll
    BY DEF ReturnReportsAll
  <2>1. DOMAIN started = Born /\ pending = {} /\ running = {} /\ invocations = <<>>
    BY LenProperties DEF IInv, Typed, Accounts, Born
  <2> QED
    BY <2>1 DEF IInv, Accounts, ReturnReportsAll
<1> QED
  BY <1>1, InvHolds, PTL

\* No step of execute, its caller or its processes drops or doubles a command.
LEMMA ListKept ==
  ASSUME NEW C, IInv(C), [ExecuteNext(C)]_vars, main # "idle"
  PROVE  started' \o invocations' = started \o invocations
<1>1. ASSUME NEW k \in Int, Start(k) PROVE started' \o invocations' = started \o invocations
  BY <1>1, StartEffect DEF IInv
<1>2. CASE Call(C)
  BY <1>2 DEF Call, Begin
<1>3. CASE StartOne
  BY <1>1, <1>3 DEF StartOne
<1>4. CASE Schedule
  BY <1>1, <1>4, CapacityInt DEF Schedule, IInv
<1>5. CASE StartRaises
  BY <1>1, <1>5 DEF StartRaises
<1>6. CASE FinishOne \/ Poll \/ Collect \/ Return \/ PrintRaises \/ AnyEnd \/ UNCHANGED vars
  BY <1>6 DEF FinishOne, Poll, Collect, Return, PrintRaises, AnyEnd, End, vars, procs
<1> QED
  BY <1>2, <1>3, <1>4, <1>5, <1>6 DEF ExecuteNext, execute, Raise

\* No slice drops or doubles a command, whatever -j and the load give as the capacity
\* (iwyu_tool.py:383-397).
THEOREM ListPreserved == ASSUME NEW C PROVE ExecuteSpec(C) => NothingDropped
<1>1. IInv(C) /\ [ExecuteNext(C)]_vars
        => [main # "idle" => started' \o invocations' = started \o invocations]_vars
  BY ListKept
<1> QED
  BY <1>1, InvHolds, PTL DEF ExecuteSpec, NothingDropped

-----------------------------------------------------------------------------
(* Picking from a sequence *)

\* How many members of S there are up to and with k.
Rank(S, k) == Cardinality({j \in S : j <= k})

\* The rank numbers the members of a finite set of numbers from 1 on, each with its own.
LEMMA Ranks ==
  ASSUME NEW S \in SUBSET Nat, IsFiniteSet(S)
  PROVE  /\ \A k \in S : Rank(S, k) \in 1 .. Cardinality(S)
         /\ \A j, k \in S : Rank(S, j) = Rank(S, k) => j = k
         /\ \A n \in 1 .. Cardinality(S) : \E k \in S : Rank(S, k) = n
<1> DEFINE rank == [k \in S |-> Rank(S, k)]
           upTo(k) == {j \in S : j <= k}
<1>1. Cardinality(S) \in Nat
  BY FS_CardinalityType
<1>2. ASSUME NEW k \in S
      PROVE  /\ IsFiniteSet(upTo(k)) /\ Cardinality(upTo(k)) \in 1 .. Cardinality(S)
             /\ Rank(S, k) = Cardinality(upTo(k))
  <2>1. IsFiniteSet(upTo(k)) /\ Cardinality(upTo(k)) <= Cardinality(S)
    BY FS_Subset
  <2>2. Cardinality(upTo(k)) # 0
    BY <2>1, FS_EmptySet
  <2> QED
    BY <1>1, <2>1, <2>2, FS_CardinalityType DEF Rank
<1>3. rank \in [S -> 1 .. Cardinality(S)]
  BY <1>2
<1>4. ASSUME NEW j \in S, NEW k \in S, j < k PROVE rank[j] # rank[k]
  <2>0. j \in Nat /\ k \in Nat
    OBVIOUS
  <2>1. upTo(j) \subseteq upTo(k) /\ upTo(j) # upTo(k)
    <3>1. k \in upTo(k) /\ k \notin upTo(j)
      BY <1>4, <2>0
    <3>2. upTo(j) \subseteq upTo(k)
      <4>1. ASSUME NEW i \in S, i <= j PROVE i <= k
        <5>1. i \in Nat
          OBVIOUS
        <5> QED
          BY <1>4, <2>0, <4>1, <5>1
      <4> QED
        BY <4>1
    <3> QED
      BY <3>1, <3>2
  <2>2. Cardinality(upTo(j)) # Cardinality(upTo(k))
    BY <1>2, <2>1, FS_Subset
  <2> QED
    BY <1>2, <2>2
<1>5. rank \in Injection(S, 1 .. Cardinality(S))
  <2>1. \A j, k \in S : rank[j] = rank[k] => j = k
    BY <1>4
  <2> QED
    BY <1>3, <2>1, Fun_IsInj
<1>6. IsFiniteSet(1 .. Cardinality(S)) /\ Cardinality(1 .. Cardinality(S)) = Cardinality(S)
  BY <1>1, FS_Interval
<1>7. rank \in Surjection(S, 1 .. Cardinality(S))
  BY <1>5, <1>6, FS_Injection
<1>8. \A n \in 1 .. Cardinality(S) : \E k \in S : rank[k] = n
  BY <1>7 DEF Surjection
<1>9. \A k \in S : rank[k] = Rank(S, k)
  OBVIOUS
<1>10. \A j, k \in S : rank[j] = rank[k] => j = k
  BY <1>5, <1>9, <1>4
<1> HIDE DEF rank
<1> QED
  BY <1>2, <1>8, <1>9, <1>10

\* So there is an n-th member, and each member is the one of its rank.
LEMMA NthMember ==
  ASSUME NEW S \in SUBSET Nat, IsFiniteSet(S)
  PROVE  /\ \A n \in 1 .. Cardinality(S) : Nth(S, n) \in S /\ Rank(S, Nth(S, n)) = n
         /\ \A k \in S : Rank(S, k) \in 1 .. Cardinality(S) /\ Nth(S, Rank(S, k)) = k
<1>1. /\ \A k \in S : Rank(S, k) \in 1 .. Cardinality(S)
      /\ \A j, k \in S : Rank(S, j) = Rank(S, k) => j = k
      /\ \A n \in 1 .. Cardinality(S) : \E k \in S : Rank(S, k) = n
  BY Ranks
<1>2. ASSUME NEW n \in 1 .. Cardinality(S) PROVE Nth(S, n) \in S /\ Rank(S, Nth(S, n)) = n
  <2>1. \E k \in S : Rank(S, k) = n
    BY <1>1
  <2> QED
    BY <2>1 DEF Nth, Rank
<1>3. ASSUME NEW k \in S PROVE Rank(S, k) \in 1 .. Cardinality(S) /\ Nth(S, Rank(S, k)) = k
  <2>1. Rank(S, k) \in 1 .. Cardinality(S)
    BY <1>1
  <2>2. Nth(S, Rank(S, k)) \in S /\ Rank(S, Nth(S, Rank(S, k))) = Rank(S, k)
    BY <1>2, <2>1
  <2> QED
    BY <1>1, <2>1, <2>2
<1> QED
  BY <1>2, <1>3

\* Picking gives a sequence of exactly what is at the places.
LEMMA PickTakes ==
  ASSUME NEW T, NEW s \in Seq(T), NEW S \in SUBSET (1 .. Len(s))
  PROVE  Pick(s, S) \in Seq(T) /\ ToSet(Pick(s, S)) = {s[i] : i \in S}
<1>1. S \in SUBSET Nat /\ IsFiniteSet(S) /\ Cardinality(S) \in Nat
  <2>1. IsFiniteSet(1 .. Len(s)) /\ Len(s) \in Nat
    BY FS_Interval, LenProperties
  <2>2. IsFiniteSet(S)
    BY <2>1, FS_Subset
  <2> QED
    BY <2>2, FS_CardinalityType
<1>2. /\ \A n \in 1 .. Cardinality(S) : Nth(S, n) \in S
      /\ \A k \in S : Rank(S, k) \in 1 .. Cardinality(S) /\ Nth(S, Rank(S, k)) = k
  BY <1>1, NthMember
<1>3. \A i \in S : s[i] \in T
  OBVIOUS
<1>4. Pick(s, S) \in [1 .. Cardinality(S) -> T]
  BY <1>2, <1>3 DEF Pick
<1>5. Pick(s, S) \in Seq(T)
  BY <1>1, <1>4, SeqDef
<1>6. ToSet(Pick(s, S)) = {s[Nth(S, n)] : n \in 1 .. Cardinality(S)}
  BY DEF ToSet, Pick
<1>7. {s[Nth(S, n)] : n \in 1 .. Cardinality(S)} = {s[i] : i \in S}
  <2>1. ASSUME NEW i \in S PROVE \E n \in 1 .. Cardinality(S) : s[i] = s[Nth(S, n)]
    BY <1>2
  <2> QED
    BY <1>2, <2>1
<1> QED
  BY <1>5, <1>6, <1>7

\* What two sequences hold together.
LEMMA ToSetConcat ==
  ASSUME NEW T, NEW s \in Seq(T), NEW t \in Seq(T)
  PROVE  ToSet(s \o t) = ToSet(s) \cup ToSet(t)
<1>1. /\ Len(s) \in Nat /\ Len(t) \in Nat /\ s \o t \in Seq(T) /\ Len(s \o t) = Len(s) + Len(t)
      /\ DOMAIN s = 1 .. Len(s) /\ DOMAIN t = 1 .. Len(t)
      /\ DOMAIN (s \o t) = 1 .. (Len(s) + Len(t))
      /\ \A i \in 1 .. (Len(s) + Len(t)) :
           (s \o t)[i] = IF i <= Len(s) THEN s[i] ELSE t[i - Len(s)]
  BY ConcatProperties, LenProperties
<1>2. ASSUME NEW i \in DOMAIN (s \o t) PROVE (s \o t)[i] \in ToSet(s) \cup ToSet(t)
  <2>1. CASE i <= Len(s)
    BY <1>1, <2>1 DEF ToSet
  <2>2. CASE ~ (i <= Len(s))
    <3>1. i - Len(s) \in 1 .. Len(t)
      BY <1>1, <2>2
    <3> QED
      BY <1>1, <2>2, <3>1 DEF ToSet
  <2> QED
    BY <2>1, <2>2
<1>3. ASSUME NEW i \in DOMAIN s PROVE s[i] \in ToSet(s \o t)
  <2>1. i \in 1 .. (Len(s) + Len(t)) /\ i <= Len(s)
    BY <1>1
  <2> QED
    BY <1>1, <2>1 DEF ToSet
<1>4. ASSUME NEW i \in DOMAIN t PROVE t[i] \in ToSet(s \o t)
  <2>1. i + Len(s) \in 1 .. (Len(s) + Len(t)) /\ ~ (i + Len(s) <= Len(s)) /\ (i + Len(s)) - Len(s) = i
    BY <1>1
  <2>2. (s \o t)[i + Len(s)] = t[i]
    BY <1>1, <2>1
  <2> QED
    BY <1>1, <2>1, <2>2 DEF ToSet
<1> QED
  BY <1>2, <1>3, <1>4 DEF ToSet

-----------------------------------------------------------------------------
(* Paths *)

\* The test on characters finds what is equal to or inside a directory, for all canonical
\* paths.
LEMMA SubpathIsInside ==
  ASSUME NEW path \in Paths, NEW parent \in Paths
  PROVE  is_subpath_of(path, parent) <=> parent \in Parents(path) \cup {path}
<1> DEFINE stripped == IF parent # <<>> /\ Last(parent) = "/" THEN Front(parent) ELSE parent
           n == Len(parent)
           m == Len(path)
<1>1. /\ path \in Seq(STRING) /\ m \in Nat /\ m >= 1 /\ path[1] = "/"
      /\ parent \in Seq(STRING) /\ n \in Nat /\ n >= 1 /\ parent[1] = "/"
      /\ parent[n] = "/" => n = 1
  BY EmptySeq, LenProperties DEF Paths
<1>2. is_subpath_of(path, parent) <=>
        path = parent \/ (IsPrefix(parent, path) /\ path[Len(stripped) + 1] = "/")
  BY DEF is_subpath_of
<1> HIDE DEF m
<1>3. CASE n = 1
  <2>1. parent = <<"/">>
    BY <1>1, <1>3
  <2>2. Len(stripped) = 0
    <3>1. Last(parent) = "/" /\ parent # <<>>
      <4>1. parent # <<>>
        BY DEF Paths
      <4>2. Last(parent) = parent[1]
        BY <1>3 DEF Last
      <4> QED
        BY <1>1, <4>1, <4>2
    <3>2. Front(parent) = SubSeq(parent, 1, 0)
      BY <1>3 DEF Front
    <3>3. Len(SubSeq(parent, 1, 0)) = 0
      BY <1>1
    <3> QED
      BY <3>1, <3>2, <3>3
  <2>3. IsPrefix(parent, path)
    <3>1. ASSUME NEW s \in Seq(STRING), Len(s) >= 1 PROVE SubSeq(s, 1, 1) = <<s[1]>>
      <4>1. /\ SubSeq(s, 1, 1) \in Seq(STRING) /\ Len(SubSeq(s, 1, 1)) = 1
            /\ SubSeq(s, 1, 1)[1] = s[1]
        BY <3>1, SubSeqProperties
      <4>2. <<s[1]>> \in Seq(STRING) /\ Len(<<s[1]>>) = 1 /\ <<s[1]>>[1] = s[1]
        BY <3>1
      <4>3. \A i \in 1 .. 1 : SubSeq(s, 1, 1)[i] = <<s[1]>>[i]
        BY <4>1, <4>2
      <4> QED
        BY <4>1, <4>2, <4>3, SeqEqual
    <3>2. SubSeq(parent, 1, 1) = <<"/">> /\ SubSeq(path, 1, 1) = <<"/">>
      BY <1>1, <1>3, <3>1 DEF m
    <3> QED
      BY <1>1, <1>3, <3>2 DEF IsPrefix, m
  <2>4. is_subpath_of(path, parent)
    BY <1>1, <1>2, <2>2, <2>3
  <2>5. parent \in Parents(path) \cup {path}
    <3>1. CASE m = 1
      BY <1>1, <2>1, <3>1 DEF m
    <3>2. CASE m # 1
      BY <2>1, <3>2 DEF Parents, m
    <3> QED
      BY <3>1, <3>2
  <2> QED
    BY <2>4, <2>5
<1>4. CASE n # 1
  <2>1. stripped = parent
    BY <1>1, <1>4 DEF Last
  <2>2. parent # <<"/">>
    BY <1>1, <1>4
  <2>3. IsPrefix(parent, path) <=> n <= m /\ parent = SubSeq(path, 1, n)
    BY <1>1, SubSeqFull DEF IsPrefix, m
  <2>4. ASSUME is_subpath_of(path, parent), path # parent PROVE parent \in Parents(path)
    <3>1. n <= m /\ parent = SubSeq(path, 1, n) /\ path[n + 1] = "/"
      BY <1>2, <2>1, <2>3, <2>4
    <3>2. n # m
      BY <1>1, <2>4, <3>1, SubSeqFull DEF m
    <3> HIDE DEF n
    <3>3. n + 1 \in 2 .. m /\ (n + 1) - 1 = n
      BY <1>1, <3>1, <3>2
    <3> QED
      BY <3>1, <3>3 DEF Parents, m
  <2>5. ASSUME parent \in Parents(path) PROVE is_subpath_of(path, parent)
    <3>1. PICK i \in 2 .. m : path[i] = "/" /\ parent = SubSeq(path, 1, i - 1)
      BY <2>2, <2>5 DEF Parents, m
    <3>2. i - 1 = n /\ n <= m
      <4>1. i - 1 \in Nat /\ i - 1 <= m
        BY <1>1
      <4>2. Len(SubSeq(path, 1, i - 1)) = i - 1
        <5>1. \A j \in 1 .. (i - 1) : path[j] \in STRING
          BY <1>1, <4>1 DEF m
        <5> QED
          BY <4>1, <5>1, SubSeqProperties
      <4> QED
        BY <3>1, <4>1, <4>2
    <3>3. i = n + 1 /\ parent = SubSeq(path, 1, n)
      BY <1>1, <3>1, <3>2
    <3> QED
      BY <1>2, <2>1, <2>3, <3>1, <3>2, <3>3
  <2> QED
    BY <1>2, <2>4, <2>5
<1> QED
  BY <1>3, <1>4

-----------------------------------------------------------------------------
(* The tool *)

\* What it can run: the invocations that entries of a database give.
Command == {from_compile_command(e) : e \in Entries}

\* The entries of the database that was read, canonical, and those of the selection.
Given  == ToSet(fixup_compilation_db(database))
Chosen == {e \in Given : InSelection(e.file)}

\* The files of some entries, or of some commands.
FilesOf(es) == {e.file : e \in es}

ToolTyped ==
  /\ phase \in {"start", "slice", "convert", "execute", "ended"}
  /\ database \in Seq(Entries) /\ compilation_db \in Seq(Entries)
  /\ selection \in Seq(Paths)
  /\ sliced \in 0 .. Len(selection)
  /\ (phase = "start" => sliced = 0) /\ (phase = "slice" => sliced < Len(selection))
  /\ exit_status \in Int

\* What was sliced so far is what lies below the paths so far; when it is converted, it is
\* the selection; from then on every file of the selection is waiting or was started, and no
\* other.
Selects ==
  /\ phase = "slice" =>
       ToSet(compilation_db) = {e \in Given : \E i \in 1 .. sliced :
         selection[i] \in OnDisk /\ is_subpath_of(e.file, selection[i])}
  /\ phase = "convert" => ToSet(compilation_db) = Chosen
  /\ phase \in {"start", "slice", "convert"} => main = "idle"
  /\ main = "idle" => started = <<>>
  /\ main # "idle" => FilesOf(ToSet(started \o invocations)) = FilesOf(Chosen)
  /\ phase = "ended" /\ exit_status = 0 => main = "returned"

\* The inductive invariant of the tool.
ToolInv == IInv(Command) /\ ToolTyped /\ Selects

-----------------------------------------------------------------------------
(* The database *)

\* Its entries keep their shape, and get a canonical file.
LEMMA FixupKeeps ==
  ASSUME NEW db \in Seq(Entries)
  PROVE  /\ fixup_compilation_db(db) \in Seq(Entries)
         /\ \A e \in ToSet(fixup_compilation_db(db)) : e \in Entries /\ e.file \in Paths
<1> DEFINE file(e) == IF e.has_directory /\ ~e.abs THEN e.joined ELSE e.alone
           fixed == fixup_compilation_db(db)
<1>1. Len(db) \in Nat /\ DOMAIN db = 1 .. Len(db) /\ \A i \in DOMAIN db : db[i] \in Entries
  BY LenProperties
<1>2. ASSUME NEW e \in Entries
      PROVE  [e EXCEPT !.file = file(e)] \in Entries /\ [e EXCEPT !.file = file(e)].file \in Paths
  <2>1. file(e) \in Paths /\ file(e) \in Seq(STRING)
    BY DEF Entries, Paths
  <2> HIDE DEF file
  <2> QED
    BY <2>1 DEF Entries
<1>3. fixed = [i \in DOMAIN db |-> [db[i] EXCEPT !.file = file(db[i])]]
  BY DEF fixup_compilation_db
<1> HIDE DEF file, fixed
<1>4. DOMAIN fixed = 1 .. Len(db) /\ \A i \in 1 .. Len(db) : fixed[i] \in Entries /\ fixed[i].file \in Paths
  BY <1>1, <1>2, <1>3
<1>5. fixed \in [1 .. Len(db) -> Entries]
  BY <1>1, <1>3, <1>4
<1>6. fixed \in Seq(Entries)
  BY <1>1, <1>5, SeqDef
<1>7. \A e \in ToSet(fixed) : e \in Entries /\ e.file \in Paths
  BY <1>4 DEF ToSet
<1> QED
  BY <1>6, <1>7 DEF fixed

\* What is found below a path are the entries whose file is.
LEMMA FoundBelow ==
  ASSUME NEW db \in Seq(Entries), NEW path
  PROVE  /\ found(db, path) \in Seq(Entries)
         /\ ToSet(found(db, path)) = {e \in ToSet(db) : is_subpath_of(e.file, path)}
<1> DEFINE kept == {i \in DOMAIN db : is_subpath_of(db[i].file, path)}
<1>1. kept \in SUBSET (1 .. Len(db)) /\ DOMAIN db = 1 .. Len(db)
  BY LenProperties
<1>2. found(db, path) = Pick(db, kept)
  BY DEF found
<1>3. {db[i] : i \in kept} = {e \in ToSet(db) : is_subpath_of(e.file, path)}
  BY DEF ToSet
<1> HIDE DEF kept
<1> QED
  BY <1>1, <1>2, <1>3, PickTakes

\* Which files the selection holds, by the test on characters.
LEMMA SelectedFiles ==
  ASSUME ToolTyped, NEW e \in Given
  PROVE  InSelection(e.file) <=>
           selection = <<>> \/ \E i \in 1 .. Len(selection) :
             selection[i] \in OnDisk /\ is_subpath_of(e.file, selection[i])
<1>1. e.file \in Paths
  BY FixupKeeps DEF ToolTyped, Given
<1>2. DOMAIN selection = 1 .. Len(selection) /\ \A i \in 1 .. Len(selection) : selection[i] \in Paths
  BY LenProperties DEF ToolTyped
<1>3. ASSUME NEW i \in 1 .. Len(selection)
      PROVE  is_subpath_of(e.file, selection[i]) <=> selection[i] \in Parents(e.file) \cup {e.file}
  BY <1>1, <1>2, SubpathIsInside
<1> QED
  BY <1>2, <1>3 DEF InSelection

\* Each command of a converted database is one of the tool's, with the file of its entry.
LEMMA Converted ==
  ASSUME NEW db \in Seq(Entries), NEW commands,
         commands = [i \in DOMAIN db |-> from_compile_command(db[i])]
  PROVE  commands \in Seq(Command) /\ FilesOf(ToSet(commands)) = FilesOf(ToSet(db))
<1>1. Len(db) \in Nat /\ DOMAIN db = 1 .. Len(db) /\ \A i \in 1 .. Len(db) : db[i] \in Entries
  BY LenProperties
<1>2. commands \in [1 .. Len(db) -> Command]
  BY <1>1 DEF Command
<1>3. commands \in Seq(Command)
  BY <1>1, <1>2, SeqDef
<1>4. \A i \in 1 .. Len(db) : commands[i].file = db[i].file
  BY <1>1 DEF from_compile_command
<1>5. DOMAIN commands = 1 .. Len(db)
  BY <1>1
<1>6. FilesOf(ToSet(commands)) = {commands[i].file : i \in 1 .. Len(db)}
  BY <1>5 DEF FilesOf, ToSet
<1>7. FilesOf(ToSet(db)) = {db[i].file : i \in 1 .. Len(db)}
  BY <1>1 DEF FilesOf, ToSet
<1>8. {commands[i].file : i \in 1 .. Len(db)} = {db[i].file : i \in 1 .. Len(db)}
  BY <1>4
<1> QED
  BY <1>3, <1>6, <1>7, <1>8

-----------------------------------------------------------------------------
(* The tool, step by step *)

\* What reading the database leaves alone.
LEMMA IdleKeeps == ASSUME IInv(Command), UNCHANGED <<main, idle>> PROVE IInv(Command)'
BY DEF IInv, Typed, Accounts, Polled, Born, idle, procs, polls, options

\* The initial states satisfy the invariant.
LEMMA ToolInit_Inv == ToolInit => ToolInv
<1> SUFFICES ASSUME ToolInit PROVE ToolInv
  OBVIOUS
<1>1. IInv(Command)
  BY InitInv DEF ToolInit
<1>2. ToolTyped
  BY ToolAssumption, LenProperties DEF ToolInit, ToolTyped
<1>3. Selects
  BY DEF ToolInit, Init, Selects
<1> QED
  BY <1>1, <1>2, <1>3 DEF ToolInv

\* Reading keeps it.
LEMMA ReadKeeps == ASSUME ToolInv, Read PROVE ToolInv'
<1>1. database' \in Seq(Entries)
  BY ToolAssumption DEF Read
<1>2. IInv(Command)'
  BY IdleKeeps DEF Read, ToolInv
<1>3. /\ main' = "idle" /\ started' = <<>>
      /\ selection' = selection /\ sliced' = sliced /\ exit_status' = exit_status
  BY DEF Read, ToolInv, Selects, idle, procs
<1>4. CASE selection = <<>>
  <2>1. compilation_db' = fixup_compilation_db(database') /\ phase' = "convert"
    BY <1>4 DEF Read
  <2>2. ToolTyped'
    BY <1>1, <1>3, <2>1, FixupKeeps DEF ToolInv, ToolTyped
  <2>3. ToSet(compilation_db') = Given'
    BY <2>1 DEF Given
  <2>4. Chosen' = Given'
    BY <1>3, <1>4 DEF Chosen, InSelection
  <2>5. Selects'
    BY <1>3, <2>1, <2>3, <2>4 DEF Selects
  <2> QED
    BY <1>2, <2>2, <2>5 DEF ToolInv
<1>5. CASE selection # <<>>
  <2>1. compilation_db' = <<>> /\ phase' = "slice"
    BY <1>5 DEF Read
  <2>2. sliced = 0 /\ Len(selection) \in Nat /\ Len(selection) # 0
    <3>1. selection \in Seq(Paths) /\ sliced = 0
      BY DEF Read, ToolInv, ToolTyped
    <3> QED
      BY <1>5, <3>1, LenProperties, EmptySeq
  <2>3. ToolTyped'
    BY <1>1, <1>3, <2>1, <2>2 DEF ToolInv, ToolTyped
  <2>4. Selects'
    <3>1. ToSet(<<>>) = {}
      BY DEF ToSet
    <3>2. {e \in Given' : \E i \in 1 .. sliced' : selection'[i] \in OnDisk /\ is_subpath_of(e.file, selection'[i])} = {}
      BY <1>3, <2>2
    <3> QED
      BY <1>3, <2>1, <3>1, <3>2 DEF Selects
  <2> QED
    BY <1>2, <2>3, <2>4 DEF ToolInv
<1> QED
  BY <1>4, <1>5

\* Slicing for one more path of the selection adds what lies below it.
LEMMA SliceKeeps == ASSUME ToolInv, slice_compilation_db PROVE ToolInv'
<1> DEFINE db == fixup_compilation_db(database)
           path == selection[sliced + 1]
           on(e, i) == selection[i] \in OnDisk /\ is_subpath_of(e.file, selection[i])
<1>1. /\ phase = "slice" /\ sliced' = sliced + 1
      /\ phase' = IF sliced' = Len(selection) THEN "convert" ELSE "slice"
      /\ compilation_db' = IF path \in OnDisk THEN compilation_db \o found(db, path)
                           ELSE compilation_db
      /\ UNCHANGED <<database, selection, exit_status, main, idle>>
  BY DEF slice_compilation_db
<1>2. /\ sliced \in Nat /\ Len(selection) \in Nat /\ sliced < Len(selection)
      /\ selection \in Seq(Paths) /\ compilation_db \in Seq(Entries)
      /\ db \in Seq(Entries) /\ Given = ToSet(db)
  BY <1>1, LenProperties, FixupKeeps DEF ToolInv, ToolTyped, Given
<1>3. IInv(Command)'
  BY <1>1, IdleKeeps DEF ToolInv
<1>4. Given' = Given /\ Chosen' = Chosen /\ FilesOf(Chosen)' = FilesOf(Chosen)
      /\ main' = "idle" /\ started' = <<>>
  BY <1>1 DEF Given, Chosen, InSelection, ToolInv, Selects, idle, procs
<1>5. ToSet(compilation_db) = {e \in Given : \E i \in 1 .. sliced : on(e, i)}
  BY <1>1 DEF ToolInv, Selects
<1> HIDE DEF db, path
<1>6. /\ found(db, path) \in Seq(Entries)
      /\ ToSet(found(db, path)) = {e \in Given : is_subpath_of(e.file, path)}
  BY <1>2, FoundBelow
<1>7. compilation_db \o found(db, path) \in Seq(Entries)
      /\ ToSet(compilation_db \o found(db, path)) = ToSet(compilation_db) \cup ToSet(found(db, path))
  BY <1>2, <1>6, ToSetConcat, ConcatProperties
<1>8. ToSet(compilation_db') = {e \in Given : \E i \in 1 .. sliced' : on(e, i)}
  <2>1. path = selection[sliced + 1]
    BY DEF path
  <2>2. ASSUME NEW e \in Given
        PROVE  (\E i \in 1 .. sliced' : on(e, i))
                 <=> (\E i \in 1 .. sliced : on(e, i))
                       \/ (path \in OnDisk /\ is_subpath_of(e.file, path))
    <3> HIDE DEF on
    <3>1. on(e, sliced + 1) <=> path \in OnDisk /\ is_subpath_of(e.file, path)
      BY <2>1 DEF on
    <3>2. \A i : i \in 1 .. sliced' <=> i \in 1 .. sliced \/ i = sliced + 1
      BY <1>1, <1>2
    <3> QED
      BY <3>1, <3>2
  <2> HIDE DEF on
  <2>3. CASE path \in OnDisk
    BY <1>1, <1>5, <1>6, <1>7, <2>2, <2>3
  <2>4. CASE path \notin OnDisk
    BY <1>1, <1>5, <2>2, <2>4
  <2> QED
    BY <2>3, <2>4
<1>9. ToolTyped'
  BY <1>1, <1>2, <1>7 DEF ToolInv, ToolTyped
<1>10. Selects'
  <2>1. phase' = "slice" => ToSet(compilation_db') = {e \in Given' : \E i \in 1 .. sliced' :
          selection'[i] \in OnDisk /\ is_subpath_of(e.file, selection'[i])}
    BY <1>1, <1>4, <1>8
  <2>2. phase' = "convert" => ToSet(compilation_db') = Chosen'
    <3> SUFFICES ASSUME phase' = "convert" PROVE ToSet(compilation_db') = Chosen
      BY <1>4
    <3>1. sliced' = Len(selection) /\ selection # <<>>
      BY <1>1, <1>2
    <3>2. \A e \in Given : InSelection(e.file) <=> \E i \in 1 .. Len(selection) : on(e, i)
      BY <3>1, SelectedFiles DEF ToolInv
    <3> HIDE DEF on
    <3> QED
      BY <1>8, <3>1, <3>2 DEF Chosen
  <2>3. phase' \in {"slice", "convert"}
    BY <1>1
  <2> QED
    BY <1>4, <2>1, <2>2, <2>3 DEF Selects
<1> QED
  BY <1>3, <1>9, <1>10 DEF ToolInv

\* Converting the selection hands its files to execute, or ends the script.
LEMMA ConvertKeeps == ASSUME ToolInv, Convert PROVE ToolInv'
<1>1. phase = "convert" /\ UNCHANGED <<database, compilation_db, selection, sliced>>
  BY DEF Convert
<1>2. Given' = Given /\ Chosen' = Chosen /\ ToSet(compilation_db) = Chosen
      /\ main = "idle" /\ started = <<>>
  BY <1>1 DEF Given, Chosen, InSelection, ToolInv, Selects
<1> DEFINE commands == [i \in DOMAIN compilation_db |-> from_compile_command(compilation_db[i])]
<1>3. commands \in Seq(Command) /\ FilesOf(ToSet(commands)) = FilesOf(Chosen)
  BY <1>2, Converted DEF ToolInv, ToolTyped
<1> HIDE DEF commands
<1>4. CASE Begin(commands) /\ phase' = "execute" /\ UNCHANGED exit_status
  <2>1. IInv(Command)'
    BY <1>3, <1>4, InvStep DEF ToolInv, ExecuteNext, Call
  <2>2. started' = <<>> /\ invocations' = commands /\ main' # "idle"
    BY <1>2, <1>4 DEF Begin, procs, ToolInv, Selects
  <2>3. ToolTyped'
    BY <1>1, <1>4 DEF ToolInv, ToolTyped
  <2>4. FilesOf(ToSet(started' \o invocations')) = FilesOf(Chosen)'
    <3>1. <<>> \o commands = commands
      BY <1>3, ConcatEmptySeq
    <3> QED
      BY <1>2, <1>3, <2>2, <3>1 DEF FilesOf
  <2>5. Selects'
    BY <1>4, <2>2, <2>4 DEF Selects
  <2> QED
    BY <2>1, <2>3, <2>5 DEF ToolInv
<1>5. CASE Finish(1) /\ UNCHANGED <<main, idle>>
  <2>1. IInv(Command)'
    BY <1>5, IdleKeeps DEF ToolInv
  <2>2. ToolTyped'
    BY <1>1, <1>5 DEF ToolInv, ToolTyped, Finish
  <2>3. Selects'
    BY <1>2, <1>5 DEF Selects, Finish, idle, procs
  <2> QED
    BY <2>1, <2>2, <2>3 DEF ToolInv
<1> QED
  BY <1>4, <1>5 DEF Convert, commands

\* A step of execute or of a process keeps what was asked for: the commands started and
\* those waiting stay the same ones.
LEMMA RunningKeeps ==
  ASSUME ToolInv, execute \/ Raise \/ AnyEnd, UNCHANGED tool,
         phase = "execute" \/ main' = main
  PROVE  ToolInv'
<1>1. IInv(Command)'
  BY InvStep DEF ToolInv, ExecuteNext
<1>2. ToolTyped'
  BY DEF ToolInv, ToolTyped, tool
<1>3. Chosen' = Chosen /\ FilesOf(Chosen)' = FilesOf(Chosen)
  BY DEF tool, Chosen, Given, InSelection, FilesOf
<1>4. main = "idle" <=> main' = "idle"
  BY DEF execute, StartOne, FinishOne, Poll, Collect, Schedule, Return, Raise, StartRaises,
         PrintRaises, AnyEnd, End
<1>5. main = "idle" => started' = started
  BY DEF execute, StartOne, FinishOne, Poll, Collect, Schedule, Return, Raise, StartRaises,
         PrintRaises, AnyEnd, End
<1>6. main # "idle" => started' \o invocations' = started \o invocations
  BY ListKept DEF ToolInv, ExecuteNext
<1>7. main = "returned" => main' = "returned"
  BY DEF execute, StartOne, FinishOne, Poll, Collect, Schedule, Return, Raise, StartRaises,
         PrintRaises, AnyEnd, End
<1>8. phase' = phase /\ exit_status' = exit_status /\ compilation_db' = compilation_db
      /\ sliced' = sliced /\ selection' = selection /\ Given' = Given
  BY DEF tool, Given
<1>9. phase \in {"slice", "convert", "start"} => main' = "idle"
  BY <1>4 DEF ToolInv, Selects
<1>10. main' # "idle" => FilesOf(ToSet(started' \o invocations')) = FilesOf(Chosen)'
  BY <1>3, <1>4, <1>6 DEF ToolInv, Selects
<1>11. Selects'
  BY <1>3, <1>4, <1>5, <1>7, <1>8, <1>9, <1>10 DEF ToolInv, Selects
<1> QED
  BY <1>1, <1>2, <1>11 DEF ToolInv

\* Ending the script keeps it: the status is 0 only if execute has returned.
LEMMA EndsKeep == ASSUME ToolInv, Refuse \/ Exit PROVE ToolInv'
<1>1. IInv(Command)' /\ main' = main /\ started' = started /\ invocations' = invocations
  BY IdleKeeps DEF ToolInv, Refuse, Exit, idle, procs
<1>2. phase' = "ended" /\ UNCHANGED <<database, compilation_db, selection, sliced>>
  BY DEF Refuse, Exit, Finish
<1>3. exit_status' \in Int /\ (exit_status' = 0 => main = "returned")
  BY DEF Refuse, Exit, Finish, ToolInv, IInv, Typed
<1>4. FilesOf(Chosen)' = FilesOf(Chosen)
  BY <1>2 DEF Chosen, Given, InSelection, FilesOf
<1>5. ToolTyped'
  BY <1>2, <1>3 DEF ToolInv, ToolTyped
<1>6. Selects'
  BY <1>1, <1>2, <1>3, <1>4 DEF ToolInv, Selects
<1> QED
  BY <1>1, <1>5, <1>6 DEF ToolInv

\* Every step of the tool keeps the invariant.
LEMMA ToolStep == ToolInv /\ [ToolNext]_<<vars, tool>> => ToolInv'
<1> SUFFICES ASSUME ToolInv, [ToolNext]_<<vars, tool>> PROVE ToolInv'
  OBVIOUS
<1>1. CASE Read
  BY <1>1, ReadKeeps
<1>2. CASE slice_compilation_db
  BY <1>2, SliceKeeps
<1>3. CASE Convert
  BY <1>3, ConvertKeeps
<1>4. CASE Execute \/ Fail
  BY <1>4, RunningKeeps DEF Execute, Fail
<1>5. CASE ProcessEnds
  <2>1. AnyEnd /\ main' = main /\ UNCHANGED tool
    BY <1>5 DEF ProcessEnds, AnyEnd, End
  <2> QED
    BY <2>1, RunningKeeps
<1>6. CASE Refuse \/ Exit
  BY <1>6, EndsKeep
<1>7. CASE UNCHANGED <<vars, tool>>
  <2>1. IInv(Command)'
    BY <1>7, InvStep DEF ToolInv
  <2>2. ToolTyped'
    BY <1>7 DEF ToolInv, ToolTyped, tool
  <2>3. Selects'
    BY <1>7 DEF ToolInv, Selects, Chosen, Given, InSelection, FilesOf, tool, vars, procs
  <2> QED
    BY <2>1, <2>2, <2>3 DEF ToolInv
<1> QED
  BY <1>1, <1>2, <1>3, <1>4, <1>5, <1>6, <1>7 DEF ToolNext, Script

\* It holds in every run of the tool.
LEMMA ToolInvHolds == ToolSpec => []ToolInv
BY ToolInit_Inv, ToolStep, PTL DEF ToolSpec

\* When the script ends with status 0, iwyu ran for every file of the selection, for no
\* other, and each process was reported once, for any database, any selection of canonical
\* paths, any file system, any -j and any loads (iwyu_tool.py:103-134, 322-435).
THEOREM SelectionRuns == ToolSpec => []RunsSelection
<1>1. ToolInv => RunsSelection
  <2> SUFFICES ASSUME ToolInv, phase = "ended", exit_status = 0 PROVE RunsSelection
    BY DEF RunsSelection
  <2>1. main = "returned" /\ FilesOf(ToSet(started \o invocations)) = FilesOf(Chosen)
    BY DEF ToolInv, Selects
  <2>2. invocations = <<>> /\ pending = {} /\ \A p \in Born : printed[p] = 1
    BY <2>1 DEF ToolInv, IInv, Accounts
  <2>3. started \o invocations = started /\ DOMAIN started = Born
    BY <2>2, ConcatEmptySeq, LenProperties DEF ToolInv, IInv, Typed, Born
  <2> QED
    BY <2>1, <2>2, <2>3 DEF RunsSelection, FilesOf, Chosen, Given
<1> QED
  BY <1>1, ToolInvHolds, PTL

\* The tool is one of the callers that execute is proved for.
THEOREM ToolCallsExecute == ToolSpec => ExecuteSpec(Command)
<1>1. ToolInit => Init
  BY DEF ToolInit
<1>2. ToolInv /\ [ToolNext]_<<vars, tool>> => [ExecuteNext(Command)]_vars
  <2> SUFFICES ASSUME ToolInv, ToolNext \/ UNCHANGED <<vars, tool>>
               PROVE  [ExecuteNext(Command)]_vars
    OBVIOUS
  <2>1. CASE Convert
    <3>1. CASE Begin([i \in DOMAIN compilation_db |-> from_compile_command(compilation_db[i])])
      BY <3>1, Converted DEF ToolInv, ToolTyped, ExecuteNext, Call
    <3>2. CASE UNCHANGED <<main, idle>>
      BY <3>2 DEF idle, vars
    <3> QED
      BY <2>1, <3>1, <3>2 DEF Convert
  <2>2. CASE Execute \/ Fail \/ ProcessEnds
    BY <2>2 DEF Execute, Fail, ProcessEnds, AnyEnd, ExecuteNext
  <2>3. CASE Refuse \/ Read \/ slice_compilation_db \/ Exit
    BY <2>3 DEF Refuse, Read, slice_compilation_db, Exit, idle, vars
  <2>4. CASE UNCHANGED <<vars, tool>>
    BY <2>4
  <2> QED
    BY <2>1, <2>2, <2>3, <2>4 DEF ToolNext, Script
<1> QED
  BY <1>1, <1>2, ToolInvHolds, PTL DEF ToolSpec, ExecuteSpec

\* In the tool as a whole execute reports all that it ran (iwyu_tool.py:363-401).
THEOREM ToolReportsAll == ToolSpec => []ReturnReportsAll
<1>1. ExecuteSpec(Command) => []ReturnReportsAll
  BY AllReported
<1> QED
  BY <1>1, ToolCallsExecute, PTL

\* In the tool as a whole no command of the list is dropped or doubled
\* (iwyu_tool.py:383-397).
THEOREM ToolDropsNone == ToolSpec => NothingDropped
<1>1. ExecuteSpec(Command) => NothingDropped
  BY ListPreserved
<1> QED
  BY <1>1, ToolCallsExecute, PTL

-----------------------------------------------------------------------------
(* The output of include-what-you-use *)

\* What a head or an end mark makes of the state.
Sets(line) ==
  IF line.kind = "end" THEN Formatter!General
  ELSE [section |-> line.kind, file |-> line.file]

\* The diagnostics there are, and those there should be, as places; n lines were read.
Told(is, file) == {j \in DOMAIN formatted : formatted[j].is \in is /\ formatted[j].file = file}
Asked(section, file) ==
  {i \in DOMAIN output : /\ output[i].kind \in Formatter!Texts
                         /\ \E k \in Formatter!Under(i) :
                              output[k] = [kind |-> section, file |-> file]}

States == [section : {"general", "add", "remove", "list"},
           file : Names \cup {Formatter!Nowhere}]
Diagnostics == [is : {"note", "text", "add", "add_reason", "superfluous"},
                file : Names \cup {Formatter!Nowhere}]

\* The state is what the head or mark above the next line makes it, and so far every
\* diagnostic was asked for.
TextInv ==
  /\ output \in Seq(Formatter!Lines)
  /\ state \in States
  /\ formatted \in Seq(Diagnostics)
  /\ raised \in BOOLEAN
  /\ LET above == Formatter!Under(Len(output) + 1)
     IN  /\ above = {} => state = Formatter!General
         /\ \A k \in above : state = Sets(output[k])
  /\ ~raised => \A f \in Names :
       /\ Cardinality(Told({"add", "add_reason"}, f)) = Cardinality(Asked("add", f))
       /\ Cardinality(Told({"superfluous"}, f)) = Cardinality(Asked("remove", f))

\* Cardinality is the same one in the module of the formatter.
LEMMA SameCardinality == ASSUME NEW S PROVE Formatter!Cardinality(S) = Cardinality(S)
BY DEF Formatter!Cardinality, Cardinality, Formatter!IsFiniteSet, IsFiniteSet

\* A new place at the end adds one to the size of a set of places.
LEMMA OneMorePlace ==
  ASSUME NEW n \in Nat, NEW A \in SUBSET (1 .. n)
  PROVE  /\ IsFiniteSet(A) /\ Cardinality(A) \in Nat
         /\ Cardinality(A \cup {n + 1}) = Cardinality(A) + 1
<1>1. IsFiniteSet(A)
  <2>1. IsFiniteSet(1 .. n)
    BY FS_Interval
  <2> QED
    BY <2>1, FS_Subset
<1>2. n + 1 \notin A
  OBVIOUS
<1> QED
  BY <1>1, <1>2, FS_AddElement, FS_CardinalityType

\* The same head or mark stays above a line when another one is read behind it.
LEMMA UnderStays ==
  ASSUME NEW line \in Formatter!Lines, output \in Seq(Formatter!Lines),
         output' = Append(output, line), NEW i \in 1 .. (Len(output) + 1)
  PROVE  /\ Formatter!Under(i)' = Formatter!Under(i)
         /\ \A k \in Formatter!Under(i) : k \in 1 .. Len(output) /\ output'[k] = output[k]
<1>1. Len(output) \in Nat /\ \A k \in 1 .. Len(output) : output'[k] = output[k]
  BY AppendProperties, LenProperties
<1>2. ASSUME NEW k \in 1 .. (i - 1) PROVE k \in 1 .. Len(output)
  BY <1>1
<1>3. ASSUME NEW k \in 1 .. (i - 1)
      PROVE  Formatter!Opens(k)' <=> Formatter!Opens(k)
  BY <1>1, <1>2 DEF Formatter!Opens
<1>4. ASSUME NEW k \in 1 .. (i - 1), NEW m \in (k + 1) .. (i - 1) PROVE m \in 1 .. (i - 1)
  BY <1>1
<1>5. Formatter!Under(i)' = {k \in 1 .. (i - 1) : Formatter!Opens(k)' /\ \A m \in (k + 1) .. (i - 1) : ~ Formatter!Opens(m)'}
  BY DEF Formatter!Under
<1>6. Formatter!Under(i) = {k \in 1 .. (i - 1) : Formatter!Opens(k) /\ \A m \in (k + 1) .. (i - 1) : ~ Formatter!Opens(m)}
  BY DEF Formatter!Under
<1>7. Formatter!Under(i)' = Formatter!Under(i)
  BY <1>3, <1>4, <1>5, <1>6
<1> QED
  BY <1>1, <1>2, <1>6, <1>7

\* What is above the line after the next one: the next one itself if it is a head or a mark.
LEMMA UnderMoves ==
  ASSUME NEW line \in Formatter!Lines, output \in Seq(Formatter!Lines),
         output' = Append(output, line), NEW n, n = Len(output)
  PROVE  Formatter!Under(n + 2)' =
           IF line.kind \in Formatter!Heads \cup {"end"} THEN {n + 1}
           ELSE Formatter!Under(n + 1)
<1>1. n \in Nat /\ output'[n + 1] = line /\ \A k \in 1 .. n : output'[k] = output[k]
  BY AppendProperties, LenProperties
<1>2. /\ \A k \in 1 .. n : Formatter!Opens(k)' <=> Formatter!Opens(k)
      /\ Formatter!Opens(n + 1)' <=> line.kind \in Formatter!Heads \cup {"end"}
  BY <1>1 DEF Formatter!Opens
<1>3. Formatter!Under(n + 2)' =
        {k \in 1 .. (n + 2 - 1) : Formatter!Opens(k)' /\ \A m \in (k + 1) .. (n + 2 - 1) : ~ Formatter!Opens(m)'}
  BY DEF Formatter!Under
<1>4. Formatter!Under(n + 1) =
        {k \in 1 .. (n + 1 - 1) : Formatter!Opens(k) /\ \A m \in (k + 1) .. (n + 1 - 1) : ~ Formatter!Opens(m)}
  BY DEF Formatter!Under
<1>5. n + 2 - 1 = n + 1 /\ n + 1 - 1 = n
  BY <1>1
<1>6. CASE Formatter!Opens(n + 1)'
  <2>1. ASSUME NEW k \in 1 .. (n + 1), \A m \in (k + 1) .. (n + 1) : ~ Formatter!Opens(m)' PROVE k = n + 1
    <3>1. n + 1 \notin (k + 1) .. (n + 1)
      BY <1>6, <2>1
    <3> QED
      BY <1>1, <2>1, <3>1
  <2>2. \A m \in (n + 1 + 1) .. (n + 1) : ~ Formatter!Opens(m)'
    BY <1>1
  <2>3. n + 1 \in 1 .. (n + 1)
    BY <1>1
  <2>4. Formatter!Under(n + 2)' = {n + 1}
    BY <1>3, <1>5, <1>6, <2>1, <2>2, <2>3
  <2> QED
    BY <1>2, <1>6, <2>4
<1>7. CASE ~ Formatter!Opens(n + 1)'
  <2>1. ASSUME NEW k \in 1 .. n
        PROVE  (\A m \in (k + 1) .. (n + 1) : ~ Formatter!Opens(m)') <=> (\A m \in (k + 1) .. n : ~ Formatter!Opens(m))
    <3>1. \A m \in (k + 1) .. n : m \in 1 .. n /\ m \in (k + 1) .. (n + 1)
      BY <1>1
    <3>2. \A m \in (k + 1) .. (n + 1) : m \in (k + 1) .. n \/ m = n + 1
      BY <1>1
    <3> QED
      BY <1>2, <1>7, <3>1, <3>2
  <2>2. \A k : k \in 1 .. (n + 1) <=> k \in 1 .. n \/ k = n + 1
    BY <1>1
  <2>3. Formatter!Under(n + 2)' = Formatter!Under(n + 1)
    <3>1. Formatter!Under(n + 2)' = {k \in 1 .. (n + 1) :
            Formatter!Opens(k)' /\ \A m \in (k + 1) .. (n + 1) : ~ Formatter!Opens(m)'}
      BY <1>3, <1>5, Zenon
    <3>2. Formatter!Under(n + 1) = {k \in 1 .. n :
            Formatter!Opens(k) /\ \A m \in (k + 1) .. n : ~ Formatter!Opens(m)}
      BY <1>4, <1>5, Zenon
    <3>3. \A k \in 1 .. n : Formatter!Opens(k)' <=> Formatter!Opens(k)
      BY <1>2
    <3>4. \A k \in 1 .. (n + 1) : Formatter!Opens(k)' => k \in 1 .. n
      BY <1>7, <2>2
    <3> QED
      BY <2>1, <2>2, <3>1, <3>2, <3>3, <3>4
  <2> QED
    BY <1>2, <1>7, <2>3
<1> QED
  BY <1>6, <1>7

\* A line is asked to be reported when it is text and the state has the section and the file.
LEMMA AskedMoves ==
  ASSUME TextInv, NEW line \in Formatter!Lines, output' = Append(output, line),
         NEW section \in {"add", "remove"}, NEW file \in Names, NEW n, n = Len(output)
  PROVE  /\ Asked(section, file) \in SUBSET (1 .. n)
         /\ Asked(section, file)' =
              IF line.kind \in Formatter!Texts /\ state = [section |-> section, file |-> file]
              THEN Asked(section, file) \cup {n + 1} ELSE Asked(section, file)
<1> DEFINE head == [kind |-> section, file |-> file]
           below(i) == /\ output[i].kind \in Formatter!Texts
                       /\ \E k \in Formatter!Under(i) : output[k] = head
           last == line.kind \in Formatter!Texts
                     /\ state = [section |-> section, file |-> file]
<1>1. /\ n \in Nat /\ output'[n + 1] = line /\ \A k \in 1 .. n : output'[k] = output[k]
      /\ DOMAIN output = 1 .. n /\ DOMAIN output' = 1 .. (n + 1)
      /\ output \in Seq(Formatter!Lines)
  <2>1. output \in Seq(Formatter!Lines)
    BY DEF TextInv
  <2> QED
    BY <2>1, AppendProperties, LenProperties
<1>2. Asked(section, file) = {i \in 1 .. n : below(i)}
  BY <1>1 DEF Asked
<1>3. Asked(section, file)' = {i \in 1 .. (n + 1) : below(i)'}
  BY <1>1 DEF Asked
<1>4. ASSUME NEW i \in 1 .. n PROVE below(i)' <=> below(i)
  <2>1. i \in 1 .. (Len(output) + 1)
    BY <1>1
  <2>2. /\ Formatter!Under(i)' = Formatter!Under(i)
        /\ \A k \in Formatter!Under(i) : output'[k] = output[k]
    BY <1>1, <2>1, UnderStays
  <2> QED
    BY <1>1, <2>2
<1>5. below(n + 1)' <=> last
  <2> DEFINE above == Formatter!Under(n + 1)
  <2>1. n + 1 \in 1 .. (Len(output) + 1)
    BY <1>1
  <2>2. above' = above /\ \A k \in above : k \in 1 .. n /\ output'[k] = output[k]
    BY <1>1, <2>1, UnderStays
  <2>3. /\ above = {} => state = Formatter!General
        /\ \A k \in above : state = Sets(output[k])
    BY DEF TextInv
  <2> HIDE DEF above
  <2>4. ASSUME NEW k \in above, output[k] = head PROVE state = [section |-> section, file |-> file]
    BY <2>3, <2>4 DEF Sets
  <2>5. ASSUME state = [section |-> section, file |-> file] PROVE \E k \in above : output[k] = head
    <3>1. state.section = section /\ state.file = file /\ section # "general"
      BY <2>5
    <3>2. state # Formatter!General
      BY <3>1 DEF Formatter!General
    <3>3. PICK k \in above : state = Sets(output[k])
      BY <2>3, <3>2
    <3>4. output[k] \in Formatter!Lines
      BY <1>1, <2>2
    <3>5. output[k].kind = section /\ output[k].file = file
      BY <3>1, <3>2, <3>3 DEF Sets
    <3> QED
      BY <3>4, <3>5 DEF Formatter!Lines
  <2>6. (\E k \in above' : output'[k] = head) <=> state = [section |-> section, file |-> file]
    BY <2>2, <2>4, <2>5
  <2> QED
    BY <1>1, <2>6 DEF above
<1> HIDE DEF last
<1>6. \A i : i \in 1 .. (n + 1) <=> i \in 1 .. n \/ i = n + 1
  BY <1>1
<1>7. Asked(section, file) \in SUBSET (1 .. n)
  BY <1>2
<1>8. Asked(section, file)' = IF last THEN Asked(section, file) \cup {n + 1} ELSE Asked(section, file)
  BY <1>2, <1>3, <1>4, <1>5, <1>6
<1> QED
  BY <1>7, <1>8 DEF last

\* One more diagnostic: it is told if it is of the kind and about the file.
LEMMA ToldMoves ==
  ASSUME TextInv, NEW d \in Diagnostics,
         formatted' = Append(formatted, d), NEW is, NEW file, NEW n, n = Len(formatted)
  PROVE  /\ n \in Nat /\ Told(is, file) \in SUBSET (1 .. n)
         /\ Told(is, file)' = IF d.is \in is /\ d.file = file THEN Told(is, file) \cup {n + 1}
                              ELSE Told(is, file)
<1>1. /\ n \in Nat /\ formatted'[n + 1] = d /\ \A j \in 1 .. n : formatted'[j] = formatted[j]
      /\ DOMAIN formatted = 1 .. n /\ DOMAIN formatted' = 1 .. (n + 1)
  <2>1. formatted \in Seq(Diagnostics)
    BY DEF TextInv
  <2> QED
    BY <2>1, AppendProperties, LenProperties
<1>2. Told(is, file) = {j \in 1 .. n : formatted[j].is \in is /\ formatted[j].file = file}
  BY <1>1 DEF Told
<1>3. Told(is, file)' = {j \in 1 .. (n + 1) : formatted'[j].is \in is /\ formatted'[j].file = file}
  BY <1>1 DEF Told
<1>4. \A j : j \in 1 .. (n + 1) <=> j \in 1 .. n \/ j = n + 1
  BY <1>1
<1>5. \A j \in 1 .. n : formatted'[j].is = formatted[j].is /\ formatted'[j].file = formatted[j].file
  BY <1>1
<1>6. formatted'[n + 1].is = d.is /\ formatted'[n + 1].file = d.file
  BY <1>1
<1> QED
  BY <1>1, <1>2, <1>3, <1>4, <1>5, <1>6

\* Is the line to be reported, in this section and for this file?
Asks(line, section, file) ==
  line.kind \in Formatter!Texts /\ state = [section |-> section, file |-> file]

\* The state stays one.
LEMMA StateTyped ==
  ASSUME TextInv, NEW line \in Formatter!Lines,
         state' = IF line.kind \in Formatter!Heads \cup {"end"} THEN Sets(line) ELSE state
  PROVE  state' \in States
<1>1. CASE line.kind \in Formatter!Heads
  <2>1. line.kind \in {"add", "remove", "list"}
    BY <1>1 DEF Formatter!Heads
  <2>2. line \in [kind : Formatter!Heads \cup {"correct"}, file : Names]
    BY <2>1 DEF Formatter!Lines, Formatter!Texts
  <2>3. line.file \in Names /\ line.kind # "end"
    BY <2>1, <2>2
  <2> QED
    BY <1>1, <2>1, <2>3 DEF Sets, States
<1>2. CASE line.kind = "end"
  BY <1>2 DEF Sets, Formatter!General, States
<1>3. CASE line.kind \notin Formatter!Heads \cup {"end"}
  BY <1>3 DEF TextInv
<1> QED
  BY <1>1, <1>2, <1>3

\* The state is what is above the line after the next one.
LEMMA StateMoves ==
  ASSUME TextInv, NEW line \in Formatter!Lines, output' = Append(output, line),
         state' = IF line.kind \in Formatter!Heads \cup {"end"} THEN Sets(line) ELSE state
  PROVE  LET above == Formatter!Under(Len(output) + 1)'
         IN  /\ above = {} => state' = Formatter!General
             /\ \A k \in above : state' = Sets(output'[k])
<1>1. PICK n : n = Len(output)
  OBVIOUS
<1>2. /\ output \in Seq(Formatter!Lines) /\ output' \in Seq(Formatter!Lines)
      /\ n \in Nat /\ Len(output') = n + 1 /\ output'[n + 1] = line
      /\ \A k \in 1 .. n : output'[k] = output[k]
  BY <1>1, AppendProperties, LenProperties DEF TextInv
<1>3. Formatter!Under(n + 2)' =
        IF line.kind \in Formatter!Heads \cup {"end"} THEN {n + 1}
        ELSE Formatter!Under(n + 1)
  BY <1>1, <1>2, UnderMoves
<1>4. Formatter!Under(Len(output) + 1)' = Formatter!Under(n + 2)'
  <2>1. Len(output') + 1 = n + 2
    BY <1>2
  <2> QED
    BY <2>1 DEF Formatter!Under
<1>5. CASE line.kind \in Formatter!Heads \cup {"end"}
  BY <1>2, <1>3, <1>4, <1>5
<1>6. CASE line.kind \notin Formatter!Heads \cup {"end"}
  <2>1. \A k \in Formatter!Under(n + 1) : k \in 1 .. n
    BY <1>2 DEF Formatter!Under
  <2>2. /\ Formatter!Under(n + 1) = {} => state = Formatter!General
        /\ \A k \in Formatter!Under(n + 1) : state = Sets(output[k])
    BY <1>1 DEF TextInv
  <2> QED
    BY <1>2, <1>3, <1>4, <1>6, <2>1, <2>2
<1> QED
  BY <1>5, <1>6

\* What is told and what is asked for stay as many, when a diagnostic is told exactly when
\* the line asks for it.
LEMMA CountsMove ==
  ASSUME TextInv, NEW line \in Formatter!Lines, output' = Append(output, line),
         NEW section \in {"add", "remove"}, NEW file \in Names, NEW is,
         NEW m \in Nat, m = Len(formatted),
         Cardinality(Told(is, file)) = Cardinality(Asked(section, file)),
         Told(is, file)' =
           IF Asks(line, section, file) THEN Told(is, file) \cup {m + 1} ELSE Told(is, file)
  PROVE  Cardinality(Told(is, file)') = Cardinality(Asked(section, file)')
<1>1. PICK n : n = Len(output)
  OBVIOUS
<1>2. n \in Nat
  BY <1>1, LenProperties DEF TextInv
<1>3. Asked(section, file) \in SUBSET (1 .. n)
  BY <1>1, AskedMoves
<1>4. Asked(section, file)' =
        IF Asks(line, section, file) THEN Asked(section, file) \cup {n + 1} ELSE Asked(section, file)
  BY <1>1, AskedMoves DEF Asks
<1>5. Told(is, file) \in SUBSET (1 .. m)
  BY LenProperties DEF Told, TextInv
<1>6. Cardinality(Asked(section, file) \cup {n + 1}) = Cardinality(Asked(section, file)) + 1
  BY <1>2, <1>3, OneMorePlace
<1>7. Cardinality(Told(is, file) \cup {m + 1}) = Cardinality(Told(is, file)) + 1
  BY <1>5, OneMorePlace
<1> QED
  BY <1>4, <1>6, <1>7

\* A step that tells a diagnostic exactly when the line asks for it keeps the invariant.
LEMMA LineKeeps ==
  ASSUME TextInv, NEW line \in Formatter!Lines, output' = Append(output, line), ~raised,
         state' = IF line.kind \in Formatter!Heads \cup {"end"} THEN Sets(line) ELSE state,
         formatted' = formatted \/ \E d \in Diagnostics : formatted' = Append(formatted, d),
         raised' \in BOOLEAN, NEW m, m = Len(formatted),
         ~raised' => \A f \in Names :
           /\ Told({"add", "add_reason"}, f)' =
                IF Asks(line, "add", f) THEN Told({"add", "add_reason"}, f) \cup {m + 1}
                ELSE Told({"add", "add_reason"}, f)
           /\ Told({"superfluous"}, f)' =
                IF Asks(line, "remove", f) THEN Told({"superfluous"}, f) \cup {m + 1}
                ELSE Told({"superfluous"}, f)
  PROVE  TextInv'
<1>1. output' \in Seq(Formatter!Lines)
  BY AppendProperties DEF TextInv
<1>2. formatted' \in Seq(Diagnostics) /\ m \in Nat
  <2>1. formatted \in Seq(Diagnostics)
    BY DEF TextInv
  <2> QED
    BY <2>1, AppendProperties, LenProperties
<1>3. ASSUME ~raised', NEW f \in Names
      PROVE  /\ Cardinality(Told({"add", "add_reason"}, f)') = Cardinality(Asked("add", f)')
             /\ Cardinality(Told({"superfluous"}, f)') = Cardinality(Asked("remove", f)')
  <2>1. /\ Cardinality(Told({"add", "add_reason"}, f)) = Cardinality(Asked("add", f))
        /\ Cardinality(Told({"superfluous"}, f)) = Cardinality(Asked("remove", f))
    BY DEF TextInv
  <2>2. Cardinality(Told({"add", "add_reason"}, f)') = Cardinality(Asked("add", f)')
    BY <1>2, <1>3, <2>1, CountsMove
  <2>3. Cardinality(Told({"superfluous"}, f)') = Cardinality(Asked("remove", f)')
    BY <1>2, <1>3, <2>1, CountsMove
  <2> QED
    BY <2>2, <2>3
<1> QED
  BY <1>1, <1>2, <1>3, StateTyped, StateMoves DEF TextInv

\* A line that tells nothing, because nothing is asked for.
LEMMA SilentKeeps ==
  ASSUME TextInv, NEW line \in Formatter!Lines, output' = Append(output, line), ~raised,
         state' = IF line.kind \in Formatter!Heads \cup {"end"} THEN Sets(line) ELSE state,
         formatted' = formatted, raised' = raised,
         line.kind \notin Formatter!Texts \/ state.section \notin {"add", "remove"}
  PROVE  TextInv'
<1>1. \A f \in Names : ~ Asks(line, "add", f) /\ ~ Asks(line, "remove", f)
  BY DEF Asks
<1>2. \A is, f : Told(is, f)' = Told(is, f)
  BY DEF Told
<1>3. PICK m : m = Len(formatted)
  OBVIOUS
<1>4. raised' \in BOOLEAN
  BY DEF TextInv
<1> QED
  BY <1>1, <1>2, <1>3, <1>4, LineKeeps

\* A line that tells one diagnostic d, of a kind and about a file.
LEMMA TellingKeeps ==
  ASSUME TextInv, NEW line \in Formatter!Lines, output' = Append(output, line), ~raised,
         line.kind \notin Formatter!Heads \cup {"end"}, state' = state, raised' = raised,
         NEW d \in Diagnostics, formatted' = Append(formatted, d),
         \A f \in Names : /\ Asks(line, "add", f) <=> d.is \in {"add", "add_reason"} /\ d.file = f
                          /\ Asks(line, "remove", f) <=> d.is \in {"superfluous"} /\ d.file = f
  PROVE  TextInv'
<1>1. PICK m : m = Len(formatted)
  OBVIOUS
<1>2. ASSUME NEW f \in Names, NEW is
      PROVE  Told(is, f)' = IF d.is \in is /\ d.file = f THEN Told(is, f) \cup {m + 1} ELSE Told(is, f)
  BY <1>1, ToldMoves
<1>3. ASSUME NEW f \in Names
      PROVE  /\ Told({"add", "add_reason"}, f)' =
                  IF Asks(line, "add", f) THEN Told({"add", "add_reason"}, f) \cup {m + 1}
                  ELSE Told({"add", "add_reason"}, f)
             /\ Told({"superfluous"}, f)' =
                  IF Asks(line, "remove", f) THEN Told({"superfluous"}, f) \cup {m + 1}
                  ELSE Told({"superfluous"}, f)
  BY <1>2
<1>4. raised' \in BOOLEAN
  BY DEF TextInv
<1> QED
  BY <1>1, <1>3, <1>4, LineKeeps

\* The state with a section, seen as a record.
LEMMA StateIs ==
  ASSUME TextInv, NEW section, NEW file
  PROVE  state = [section |-> section, file |-> file]
           <=> state.section = section /\ state.file = file
BY DEF TextInv, States

\* Each line that is read keeps the invariant.
LEMMA ReadingKeeps == ASSUME TextInv, Formatter!Next PROVE TextInv'
<1> USE DEF Formatter!Read
<1>1. PICK line \in Formatter!Lines :
        \/ Formatter!Correct(line) \/ Formatter!Section(line) \/ Formatter!End(line)
        \/ Formatter!Blank(line) \/ Formatter!Copy(line) \/ Formatter!Added(line)
        \/ Formatter!Removed(line)
  BY DEF Formatter!Next
<1>2. /\ Formatter!Texts = {"plain", "comment", "lines"}
      /\ Formatter!Heads = {"add", "remove", "list"}
  BY DEF Formatter!Texts, Formatter!Heads
<1>3. CASE Formatter!Section(line) \/ Formatter!End(line) \/ Formatter!Blank(line)
  <2>1. /\ output' = Append(output, line) /\ ~raised /\ formatted' = formatted /\ raised' = raised
        /\ line.kind \notin Formatter!Texts
    BY <1>2, <1>3 DEF Formatter!Section, Formatter!End, Formatter!Blank
  <2>2. state' = IF line.kind \in Formatter!Heads \cup {"end"} THEN Sets(line) ELSE state
    BY <1>2, <1>3 DEF Formatter!Section, Formatter!End, Formatter!Blank, Sets
  <2> QED
    BY <2>1, <2>2, SilentKeeps
<1>4. CASE Formatter!Correct(line)
  <2> DEFINE d == [is |-> "note", file |-> line.file]
  <2>1. /\ output' = Append(output, line) /\ ~raised /\ formatted' = Append(formatted, d)
        /\ raised' = raised /\ state' = state /\ line.kind = "correct"
    BY <1>4 DEF Formatter!Correct
  <2>2. d \in Diagnostics
    <3>1. line.file \in Names \cup {Formatter!Nowhere}
      BY DEF Formatter!Lines
    <3> QED
      BY <3>1 DEF Diagnostics
  <2>3. \A f \in Names : ~ Asks(line, "add", f) /\ ~ Asks(line, "remove", f)
    BY <1>2, <2>1 DEF Asks
  <2> QED
    BY <1>2, <2>1, <2>2, <2>3, TellingKeeps
<1>5. CASE Formatter!Copy(line)
  <2>1. /\ output' = Append(output, line) /\ ~raised /\ raised' = raised /\ state' = state
        /\ line.kind \in Formatter!Texts /\ state.section \in {"general", "list"}
    BY <1>5 DEF Formatter!Copy
  <2>2. line.kind \notin Formatter!Heads \cup {"end"}
    BY <1>2, <2>1
  <2>3. CASE formatted' = formatted
    BY <2>1, <2>2, <2>3, SilentKeeps
  <2>4. CASE formatted' = Append(formatted, [is |-> "text", file |-> Formatter!Nowhere])
    <3>1. [is |-> "text", file |-> Formatter!Nowhere] \in Diagnostics
      BY DEF Diagnostics
    <3>2. \A f \in Names : ~ Asks(line, "add", f) /\ ~ Asks(line, "remove", f)
      BY <2>1, StateIs DEF Asks
    <3> QED
      BY <2>1, <2>2, <2>4, <3>1, <3>2, TellingKeeps
  <2> QED
    BY <1>5, <2>3, <2>4 DEF Formatter!Copy
<1>6. CASE Formatter!Added(line)
  <2> DEFINE d == [is |-> IF line.kind = "plain" THEN "add" ELSE "add_reason", file |-> state.file]
  <2>1. /\ output' = Append(output, line) /\ ~raised /\ raised' = raised /\ state' = state
        /\ line.kind \in Formatter!Texts /\ state.section = "add"
        /\ formatted' = Append(formatted, d)
    BY <1>6 DEF Formatter!Added
  <2>2. line.kind \notin Formatter!Heads \cup {"end"}
    BY <1>2, <2>1
  <2>3. d \in Diagnostics
    BY DEF Diagnostics, TextInv, States
  <2>4. \A f \in Names : Asks(line, "add", f) <=> d.is \in {"add", "add_reason"} /\ d.file = f
    BY <2>1, StateIs DEF Asks
  <2>5. \A f \in Names : ~ Asks(line, "remove", f)
    BY <2>1, StateIs DEF Asks
  <2>6. d.is \notin {"superfluous"}
    OBVIOUS
  <2> HIDE DEF d
  <2> QED
    BY <2>1, <2>2, <2>3, <2>4, <2>5, <2>6, TellingKeeps
<1>7. CASE Formatter!Removed(line)
  <2> DEFINE d == [is |-> "superfluous", file |-> state.file]
  <2>1. /\ output' = Append(output, line) /\ ~raised /\ state' = state
        /\ line.kind \in Formatter!Texts /\ state.section = "remove"
    BY <1>7 DEF Formatter!Removed
  <2>2. line.kind \notin Formatter!Heads \cup {"end"}
    BY <1>2, <2>1
  <2>3. CASE formatted' = Append(formatted, d) /\ raised' = raised
    <3>1. d \in Diagnostics
      BY DEF Diagnostics, TextInv, States
    <3>2. \A f \in Names : Asks(line, "remove", f) <=> d.is \in {"superfluous"} /\ d.file = f
      BY <2>1, StateIs DEF Asks
    <3>3. \A f \in Names : ~ Asks(line, "add", f)
      BY <2>1, StateIs DEF Asks
    <3>4. d.is \notin {"add", "add_reason"}
      OBVIOUS
    <3> HIDE DEF d
    <3> QED
      BY <2>1, <2>2, <2>3, <3>1, <3>2, <3>3, <3>4, TellingKeeps
  <2>4. CASE raised' = TRUE /\ formatted' = formatted
    <3>1. PICK m : m = Len(formatted)
      OBVIOUS
    <3> QED
      BY <2>1, <2>2, <2>4, <3>1, LineKeeps
  <2> QED
    BY <1>7, <2>3, <2>4 DEF Formatter!Removed
<1> QED
  BY <1>1, <1>3, <1>4, <1>5, <1>6, <1>7

\* The initial states satisfy it.
LEMMA TextStarts == TextInit => TextInv
<1> SUFFICES ASSUME TextInit PROVE TextInv
  OBVIOUS
<1>1. output = <<>> /\ state = Formatter!General /\ formatted = <<>> /\ raised = FALSE
  BY DEF TextInit, Formatter!Init
<1>2. Formatter!Under(Len(output) + 1) = {}
  BY <1>1 DEF Formatter!Under
<1>3. state \in States
  BY <1>1 DEF Formatter!General, States
<1>4. /\ \A is, f : Told(is, f) = {}
      /\ \A section, f : Asked(section, f) = {}
  BY <1>1 DEF Told, Asked
<1>5. \A f \in Names :
        /\ Cardinality(Told({"add", "add_reason"}, f)) = Cardinality(Asked("add", f))
        /\ Cardinality(Told({"superfluous"}, f)) = Cardinality(Asked("remove", f))
  BY <1>4
<1>6. output \in Seq(Formatter!Lines) /\ formatted \in Seq(Diagnostics) /\ raised \in BOOLEAN
  BY <1>1, EmptySeq
<1> QED
  BY <1>1, <1>2, <1>3, <1>5, <1>6 DEF TextInv

\* In every output, of any lines about any files, each line to add and to remove is reported
\* once and for the file whose section it is in, and no other line is
\* (iwyu_tool.py:54-92).
THEOREM SectionsReported == TextSpec => []ReportsEachSection
<1>1. TextInv /\ [TextNext]_<<splitter, formatter>> => TextInv'
  <2> SUFFICES ASSUME TextInv, TextNext \/ UNCHANGED <<splitter, formatter>>
               PROVE  TextInv'
    OBVIOUS
  <2>1. CASE Format
    BY <2>1, ReadingKeeps DEF Format
  <2>2. CASE Split \/ UNCHANGED <<splitter, formatter>>
    <3>1. output' = output /\ state' = state /\ formatted' = formatted /\ raised' = raised
      BY <2>2 DEF Split, formatter
    <3>2. \A i : Formatter!Under(i)' = Formatter!Under(i)
      BY <3>1 DEF Formatter!Under, Formatter!Opens
    <3>3. /\ \A is, f : Told(is, f)' = Told(is, f)
          /\ \A section, f : Asked(section, f)' = Asked(section, f)
      BY <3>1, <3>2 DEF Told, Asked
    <3>4. \A f \in Names :
            /\ Told({"add", "add_reason"}, f)' = Told({"add", "add_reason"}, f)
            /\ Told({"superfluous"}, f)' = Told({"superfluous"}, f)
            /\ Asked("add", f)' = Asked("add", f) /\ Asked("remove", f)' = Asked("remove", f)
      BY <3>3
    <3>5. Formatter!Under(Len(output) + 1)' = Formatter!Under(Len(output) + 1)
      BY <3>1, <3>2 DEF Formatter!Under, Formatter!Opens
    <3> QED
      BY <3>1, <3>4, <3>5 DEF TextInv, Sets
  <2> QED
    BY <2>1, <2>2 DEF TextNext
<1>2. TextInv => ReportsEachSection
  <2>1. \A is, f : Formatter!Reported(is, f) = Cardinality(Told(is, f))
    BY SameCardinality DEF Formatter!Reported, Told
  <2>2. \A section, f : Formatter!Expected(section, f) = Cardinality(Asked(section, f))
    BY SameCardinality DEF Formatter!Expected, Asked
  <2> QED
    BY <2>1, <2>2 DEF TextInv, ReportsEachSection, Formatter!ReportsEachSection
<1> QED
  BY <1>1, <1>2, TextStarts, PTL DEF TextSpec

-----------------------------------------------------------------------------
(* Picking, place by place *)

\* Picking takes nothing from no place.
LEMMA PickNothing == ASSUME NEW s PROVE Pick(s, {}) = <<>>
<1>1. Cardinality({}) = 0
  BY FS_EmptySet
<1> QED
  BY <1>1 DEF Pick

\* A set of places and the h places after it.
LEMMA PlacesAdd ==
  ASSUME NEW a \in Nat, NEW A \in SUBSET (1 .. a), NEW h \in Nat
  PROVE  /\ IsFiniteSet(A \cup ((a + 1) .. (a + h)))
         /\ Cardinality(A) \in Nat
         /\ Cardinality(A \cup ((a + 1) .. (a + h))) = Cardinality(A) + h
<1> DEFINE B == (a + 1) .. (a + h)
<1>1. IsFiniteSet(A) /\ Cardinality(A) \in Nat
  BY OneMorePlace
<1>2. IsFiniteSet(B) /\ Cardinality(B) = h
  <2>1. a + 1 \in Int /\ a + h \in Int
    OBVIOUS
  <2>2. IsFiniteSet(B) /\ Cardinality(B) = IF a + 1 > a + h THEN 0 ELSE (a + h) - (a + 1) + 1
    BY <2>1, FS_Interval
  <2> QED
    BY <2>2
<1>3. A \cap B = {}
  OBVIOUS
<1>4. Cardinality(A \cap B) = 0
  BY <1>3, FS_EmptySet
<1>5. IsFiniteSet(A \cup B)
      /\ Cardinality(A \cup B) = Cardinality(A) + Cardinality(B) - Cardinality(A \cap B)
  BY <1>1, <1>2, FS_Union
<1> QED
  BY <1>1, <1>2, <1>4, <1>5

\* Two sequences of a set, which agree on the places A, and u, what the one
\* has from place a on; C are the places A and those of u.
GoesOn(T, s, t, a, A, C, u) ==
  /\ s \in Seq(T) /\ t \in Seq(T) /\ a \in Nat /\ A \in SUBSET (1 .. a)
  /\ a <= Len(s) /\ \A i \in A : t[i] = s[i]
  /\ u \in Seq(T) /\ a + Len(u) <= Len(t) /\ \A i \in 1 .. Len(u) : t[a + i] = u[i]
  /\ C = A \cup ((a + 1) .. (a + Len(u)))

\* Picking from them is picking from the set and then going on.
LEMMA PickGoesOn ==
  ASSUME NEW T, NEW s, NEW t, NEW a, NEW A, NEW C, NEW u, GoesOn(T, s, t, a, A, C, u)
  PROVE  Pick(t, C) = Pick(s, A) \o u
<1> DEFINE h == Len(u)
           S == A \cup ((a + 1) .. (a + h))
           c == Cardinality(A)
<1>0. /\ s \in Seq(T) /\ t \in Seq(T) /\ a \in Nat /\ A \in SUBSET (1 .. a) /\ h \in Nat
      /\ a <= Len(s) /\ a + h <= Len(t) /\ \A i \in A : t[i] = s[i]
      /\ u \in Seq(T) /\ \A i \in 1 .. h : t[a + i] = u[i]
      /\ C = A \cup ((a + 1) .. (a + h))
  BY LenProperties DEF GoesOn
<1> HIDE DEF h
<1>1. IsFiniteSet(S) /\ c \in Nat /\ Cardinality(S) = c + h
  BY <1>0, PlacesAdd
<1>2. IsFiniteSet(A) /\ A \in SUBSET Nat /\ S \in SUBSET Nat
  <2>1. A \in SUBSET Nat /\ S \in SUBSET Nat
    BY <1>0
  <2> QED
    BY <1>0, <2>1, OneMorePlace
<1>3. /\ \A n \in 1 .. c : Nth(A, n) \in A /\ Rank(A, Nth(A, n)) = n
      /\ \A k \in S : Nth(S, Rank(S, k)) = k
  BY <1>0, <1>1, <1>2, NthMember
<1>4. ASSUME NEW n \in 1 .. c PROVE Nth(S, n) = Nth(A, n) /\ Nth(A, n) \in A
  <2> DEFINE k == Nth(A, n)
  <2>1. k \in A /\ Rank(A, k) = n
    BY <1>0, <1>3
  <2> HIDE DEF k
  <2>2. {j \in S : j <= k} = {j \in A : j <= k}
    BY <1>0, <2>1
  <2>3. Rank(S, k) = n /\ k \in S
    BY <1>0, <2>1, <2>2 DEF Rank
  <2> QED
    BY <1>0, <1>3, <2>1, <2>3 DEF k
<1>5. ASSUME NEW i \in 1 .. h PROVE Nth(S, c + i) = a + i
  <2>1. {j \in S : j <= a + i} = A \cup ((a + 1) .. (a + i))
    <3>1. \A j \in A : j \in Nat /\ j <= a
      BY <1>0
    <3>2. \A j \in (a + 1) .. (a + h) : j <= a + i <=> j \in (a + 1) .. (a + i)
      BY <1>0
    <3>3. \A j \in (a + 1) .. (a + i) : j \in (a + 1) .. (a + h) /\ j <= a + i
      BY <1>0
    <3>4. \A j \in A : j <= a + i
      BY <1>0, <3>1
    <3> QED
      BY <1>0, <3>2, <3>3, <3>4
  <2>2. Rank(S, a + i) = c + i
    <3>1. i \in Nat
      BY <1>0
    <3>2. Cardinality(A \cup ((a + 1) .. (a + i))) = Cardinality(A) + i
      BY <1>0, <3>1, PlacesAdd
    <3> QED
      BY <1>0, <2>1, <3>2 DEF Rank
  <2>3. a + i \in S
    BY <1>0
  <2> QED
    BY <1>0, <1>3, <2>2, <2>3
<1> HIDE DEF S, c
<1>6. Pick(s, A) \in Seq(T) /\ Len(Pick(s, A)) = c /\ \A n \in 1 .. c : Pick(s, A)[n] = s[Nth(A, n)]
  <2>1. Pick(s, A) = [n \in 1 .. c |-> s[Nth(A, n)]]
    BY <1>0 DEF Pick, c
  <2>2. \A n \in 1 .. c : s[Nth(A, n)] \in T
    <3>1. \A i \in A : s[i] \in T
      BY <1>0
    <3> QED
      BY <1>4, <3>1
  <2> QED
    BY <1>0, <1>1, <2>1, <2>2
<1>7. Len(u) = h
  BY DEF h
<1>8. Pick(t, S) = [n \in 1 .. (c + h) |-> t[Nth(S, n)]]
  BY <1>0, <1>1 DEF Pick
<1>9. /\ Pick(s, A) \o u \in Seq(T) /\ Len(Pick(s, A) \o u) = c + h
      /\ \A n \in 1 .. (c + h) :
           (Pick(s, A) \o u)[n] = IF n <= c THEN Pick(s, A)[n] ELSE u[n - c]
  BY <1>0, <1>6, <1>7, ConcatProperties
<1>10. ASSUME NEW n \in 1 .. (c + h) PROVE t[Nth(S, n)] = (Pick(s, A) \o u)[n] /\ t[Nth(S, n)] \in T
  <2>1. CASE n <= c
    <3>1. n \in 1 .. c
      BY <1>0, <1>1, <2>1
    <3>2. Nth(S, n) = Nth(A, n) /\ Nth(A, n) \in A
      BY <1>0, <1>4, <3>1
    <3>3. t[Nth(A, n)] = s[Nth(A, n)] /\ s[Nth(A, n)] \in T
      <4>1. \A i \in A : t[i] = s[i] /\ s[i] \in T
        BY <1>0
      <4> QED
        BY <1>0, <3>2, <4>1
    <3>4. (Pick(s, A) \o u)[n] = s[Nth(A, n)]
      BY <1>0, <1>6, <1>9, <2>1, <3>1
    <3> QED
      BY <1>0, <3>2, <3>3, <3>4
  <2>2. CASE ~ (n <= c)
    <3>1. n - c \in 1 .. h /\ c + (n - c) = n
      BY <1>0, <1>1, <2>2
    <3>2. Nth(S, n) = a + (n - c)
      BY <1>0, <1>5, <3>1
    <3>3. t[a + (n - c)] \in T
      BY <1>0, <3>1
    <3> QED
      BY <1>0, <1>7, <1>9, <2>2, <3>1, <3>2, <3>3
  <2> QED
    BY <1>0, <2>1, <2>2
<1>11. Pick(t, S) \in Seq(T) /\ Len(Pick(t, S)) = c + h /\ \A n \in 1 .. (c + h) : Pick(t, S)[n] = t[Nth(S, n)]
  BY <1>0, <1>1, <1>8, <1>10
<1>12. Pick(t, S) = Pick(s, A) \o u
  BY <1>0, <1>9, <1>10, <1>11, SeqEqual
<1>13. C = S
  BY <1>0 DEF S
<1> QED
  BY <1>12, <1>13

\* Picking from the same places of two sequences that agree there.
LEMMA PickAgrees ==
  ASSUME NEW s, NEW t, NEW a \in Nat, NEW A \in SUBSET (1 .. a), \A i \in A : t[i] = s[i]
  PROVE  Pick(t, A) = Pick(s, A)
<1>1. IsFiniteSet(A) /\ A \in SUBSET Nat
  <2>1. A \in SUBSET Nat
    OBVIOUS
  <2> QED
    BY <2>1, OneMorePlace
<1>2. \A n \in 1 .. Cardinality(A) : Nth(A, n) \in A
  BY <1>1, NthMember
<1> QED
  BY <1>2 DEF Pick

\* Two sequences of a set, which agree on the places A, and the place after a with them.
OneOn(T, s, t, a, A, C) ==
  /\ s \in Seq(T) /\ t \in Seq(T) /\ a \in Nat /\ A \in SUBSET (1 .. a)
  /\ a <= Len(s) /\ a + 1 <= Len(t) /\ \A i \in A : t[i] = s[i]
  /\ C = A \cup {a + 1}

\* One more place behind the others adds what is at it.
LEMMA PickOneMore ==
  ASSUME NEW T, NEW s, NEW t, NEW a, NEW A, NEW C, OneOn(T, s, t, a, A, C)
  PROVE  Pick(t, C) = Append(Pick(s, A), t[a + 1])
<1> DEFINE one == <<t[a + 1]>>
<1>1. GoesOn(T, s, t, a, A, C, one)
  <2>1. A \cup {a + 1} = A \cup ((a + 1) .. (a + 1))
    BY DEF OneOn
  <2>2. one \in Seq(T) /\ Len(one) = 1 /\ one[1] = t[a + 1]
    BY DEF OneOn
  <2> HIDE DEF one
  <2> QED
    BY <2>1, <2>2 DEF OneOn, GoesOn
<1>2. Pick(s, A) \in Seq(T) /\ t[a + 1] \in T
  <2>1. A \in SUBSET (1 .. Len(s)) /\ s \in Seq(T) /\ t[a + 1] \in T
    BY LenProperties DEF OneOn
  <2> QED
    BY <2>1, PickTakes
<1>3. Append(Pick(s, A), t[a + 1]) = Pick(s, A) \o one
  BY <1>2, AppendIsConcat
<1> HIDE DEF one
<1>4. Pick(t, C) = Pick(s, A) \o one
  BY <1>1, PickGoesOn
<1> QED
  BY <1>3, <1>4

\* Picking is the same in the module of the splitter.
LEMMA SamePick ==
  /\ \A S : Splitter!Cardinality(S) = Cardinality(S)
  /\ \A s, S : Splitter!Pick(s, S) = Pick(s, S)
<1>1. ASSUME NEW S PROVE Splitter!Cardinality(S) = Cardinality(S)
  BY DEF Splitter!Cardinality, Cardinality, Splitter!IsFiniteSet, IsFiniteSet
<1>2. ASSUME NEW S, NEW n PROVE Splitter!Nth(S, n) = Nth(S, n)
  BY <1>1 DEF Splitter!Nth, Nth
<1>3. ASSUME NEW s, NEW S PROVE Splitter!Pick(s, S) = Pick(s, S)
  BY <1>1, <1>2 DEF Splitter!Pick, Pick
<1> QED
  BY <1>1, <1>3
-----------------------------------------------------------------------------
(* The command line, place by place *)

Chars == Letters \cup {Splitter!Backslash, Splitter!Mark, Splitter!Space}

\* Three different characters.
LEMMA Distinct ==
  /\ Splitter!Backslash # Splitter!Mark /\ Splitter!Backslash # Splitter!Space /\ Splitter!Mark # Splitter!Space
  /\ Splitter!Backslash \in Chars /\ Splitter!Mark \in Chars
BY DEF Splitter!Backslash, Splitter!Mark, Splitter!Space, Chars

\* k backslashes are right before place i.
Trail(line, i, k) ==
  k \in 0 .. i - 1 /\ Splitter!Run(line, i - k, i - 1) /\ (k = i - 1 \/ line[i - k - 1] # Splitter!Backslash)

\* Their number is one only.
LEMMA OneTrail ==
  ASSUME NEW line, NEW i \in Nat, NEW k, NEW m, Trail(line, i, k), Trail(line, i, m)
  PROVE  ~ (k < m)
<1> SUFFICES ASSUME k < m PROVE FALSE
  OBVIOUS
<1>1. k \in 0 .. i - 1 /\ m \in 0 .. i - 1 /\ k # i - 1
  BY DEF Trail
<1>2. i - k - 1 \in (i - m) .. (i - 1)
  BY <1>1
<1>3. line[i - k - 1] = Splitter!Backslash
  BY <1>2 DEF Trail, Splitter!Run
<1> QED
  BY <1>1, <1>3 DEF Trail

\* It is what Leading gives.
LEMMA LeadingIs ==
  ASSUME NEW line, NEW i, i \in Nat, NEW k, Trail(line, i, k)
  PROVE  Splitter!Leading(line, i) = k
<1>1. Splitter!Leading(line, i) = CHOOSE m : Trail(line, i, m)
  BY DEF Splitter!Leading, Trail
<1>2. Trail(line, i, Splitter!Leading(line, i))
  BY <1>1
<1>3. ~ (k < Splitter!Leading(line, i)) /\ ~ (Splitter!Leading(line, i) < k)
  BY <1>2, OneTrail
<1> QED
  BY <1>2, <1>3 DEF Trail

\* A line of n characters with b backslashes at its end, and with one more character.
Longer(line, c, n, new, b) ==
  /\ line \in Seq(Chars) /\ c \in Chars /\ n = Len(line) /\ new = Append(line, c)
  /\ Trail(line, n + 1, b) /\ \A i \in 1 .. n + 1 : \E k : Trail(line, i, k)

\* What that means.
LEMMA LongerIs ==
  ASSUME NEW line, NEW c, NEW n, NEW new, NEW b, Longer(line, c, n, new, b)
  PROVE  /\ n \in Nat /\ line \in Seq(Chars) /\ Len(line) = n /\ DOMAIN line = 1 .. n
         /\ new \in Seq(Chars) /\ Len(new) = n + 1 /\ DOMAIN new = 1 .. (n + 1)
         /\ new[n + 1] = c /\ \A i \in 1 .. n : new[i] = line[i]
         /\ b \in 0 .. n /\ \A i \in (n - b + 1) .. n : line[i] = Splitter!Backslash
         /\ b = n \/ line[n - b] # Splitter!Backslash
<1>1. /\ n \in Nat /\ line \in Seq(Chars) /\ Len(line) = n /\ DOMAIN line = 1 .. n /\ c \in Chars
  BY LenProperties DEF Longer
<1>2. /\ new \in Seq(Chars) /\ Len(new) = n + 1 /\ new[n + 1] = c
      /\ \A i \in 1 .. n : new[i] = line[i]
  BY <1>1, AppendProperties DEF Longer
<1>3. DOMAIN new = 1 .. (n + 1)
  BY <1>1, <1>2, LenProperties
<1>4. Trail(line, n + 1, b)
  BY DEF Longer
<1>5. b \in 0 .. n
  BY <1>1, <1>4 DEF Trail
<1>6. (n + 1) - b = n - b + 1 /\ (n + 1) - 1 = n /\ (n + 1) - b - 1 = n - b
  BY <1>1, <1>5
<1>7. Splitter!Run(line, n - b + 1, n) /\ (b = n \/ line[n - b] # Splitter!Backslash)
  BY <1>4, <1>6 DEF Trail
<1> QED
  BY <1>1, <1>2, <1>3, <1>5, <1>7 DEF Splitter!Run

\* The places up to the new one have as many backslashes before them as they had.
LEMMA LeadingStays ==
  ASSUME NEW line, NEW c, NEW n, NEW new, NEW b, Longer(line, c, n, new, b), NEW i \in 1 .. n + 1
  PROVE  /\ Splitter!Leading(new, i) = Splitter!Leading(line, i) /\ Trail(line, i, Splitter!Leading(line, i))
         /\ Trail(new, i, Splitter!Leading(line, i))
<1>1. n \in Nat /\ \A j \in 1 .. n : new[j] = line[j]
  BY LongerIs
<1>2. PICK k : Trail(line, i, k)
  BY DEF Longer
<1>3. i \in Nat /\ i >= 1 /\ i <= n + 1
  BY <1>1
<1>4. k \in 0 .. i - 1
  BY <1>2 DEF Trail
<1>5. \A j \in (i - k) .. (i - 1) : j \in 1 .. n
  BY <1>1, <1>3, <1>4
<1>6. k # i - 1 => i - k - 1 \in 1 .. n
  BY <1>1, <1>3, <1>4
<1>7. Trail(new, i, k)
  BY <1>1, <1>2, <1>5, <1>6 DEF Trail, Splitter!Run
<1> QED
  BY <1>2, <1>3, <1>7, LeadingIs

\* Behind the new one there is one backslash more, or none.
LEMMA LeadingMoves ==
  ASSUME NEW line, NEW c, NEW n, NEW new, NEW b, Longer(line, c, n, new, b)
  PROVE  /\ Trail(new, n + 2, IF c = Splitter!Backslash THEN b + 1 ELSE 0)
         /\ \A i \in 1 .. n + 2 : \E k : Trail(new, i, k)
<1>1. /\ n \in Nat /\ b \in 0 .. n /\ new[n + 1] = c /\ \A i \in 1 .. n : new[i] = line[i]
      /\ \A i \in (n - b + 1) .. n : line[i] = Splitter!Backslash
      /\ b = n \/ line[n - b] # Splitter!Backslash
  BY LongerIs
<1>2. Trail(new, n + 2, IF c = Splitter!Backslash THEN b + 1 ELSE 0)
  <2>1. CASE c = Splitter!Backslash
    <3>1. b + 1 \in 0 .. (n + 2) - 1 /\ (n + 2) - (b + 1) = n - b + 1 /\ (n + 2) - 1 = n + 1
          /\ (n + 2) - (b + 1) - 1 = n - b
      BY <1>1
    <3>2. \A i \in (n - b + 1) .. (n + 1) : i = n + 1 \/ (i \in (n - b + 1) .. n /\ i \in 1 .. n)
      BY <1>1
    <3>3. Splitter!Run(new, n - b + 1, n + 1)
      BY <1>1, <2>1, <3>2 DEF Splitter!Run
    <3>4. b + 1 = n + 1 \/ new[n - b] # Splitter!Backslash
      <4>1. b # n => n - b \in 1 .. n
        BY <1>1
      <4> QED
        BY <1>1, <4>1
    <3>5. Trail(new, n + 2, b + 1)
      BY <3>1, <3>3, <3>4 DEF Trail
    <3> QED
      BY <2>1, <3>5
  <2>2. CASE c # Splitter!Backslash
    <3>1. 0 \in 0 .. (n + 2) - 1 /\ (n + 2) - 0 = n + 2 /\ (n + 2) - 1 = n + 1
          /\ (n + 2) - 0 - 1 = n + 1
      BY <1>1
    <3>2. Splitter!Run(new, n + 2, n + 1)
      <4>1. (n + 2) .. (n + 1) = {}
        BY <1>1
      <4> QED
        BY <4>1 DEF Splitter!Run
    <3>3. Trail(new, n + 2, 0)
      BY <1>1, <2>2, <3>1, <3>2 DEF Trail
    <3> QED
      BY <2>2, <3>3
  <2> QED
    BY <2>1, <2>2
<1>3. ASSUME NEW i \in 1 .. n + 1 PROVE \E k : Trail(new, i, k)
  BY <1>3, LeadingStays
<1>4. \A i \in 1 .. n + 2 : i = n + 2 \/ i \in 1 .. n + 1
  BY <1>1
<1> QED
  BY <1>2, <1>3, <1>4

\* Which marks delimit, what is quoted and what separates stays, up to the new character.
LEMMA MeaningStays ==
  ASSUME NEW line, NEW c, NEW n, NEW new, NEW b, Longer(line, c, n, new, b)
  PROVE  /\ \A i \in 1 .. n : Splitter!Delimits(new, i) <=> Splitter!Delimits(line, i)
         /\ \A i \in 1 .. n + 1 : Splitter!Quoted(new, i) <=> Splitter!Quoted(line, i)
         /\ \A i \in 1 .. n : Splitter!Separates(new, i) <=> Splitter!Separates(line, i)
<1>1. n \in Nat /\ \A i \in 1 .. n : new[i] = line[i] /\ i \in 1 .. n + 1
  BY LongerIs
<1>2. ASSUME NEW i \in 1 .. n PROVE Splitter!Delimits(new, i) <=> Splitter!Delimits(line, i)
  <2>1. Splitter!Leading(new, i) = Splitter!Leading(line, i) /\ new[i] = line[i]
    BY <1>1, LeadingStays
  <2> QED
    BY <2>1 DEF Splitter!Delimits
<1>3. ASSUME NEW i \in 1 .. n + 1 PROVE Splitter!Quoted(new, i) <=> Splitter!Quoted(line, i)
  <2>1. \A k \in 1 .. i - 1 : k \in 1 .. n
    BY <1>1
  <2>2. {k \in 1 .. i - 1 : Splitter!Delimits(new, k)} = {k \in 1 .. i - 1 : Splitter!Delimits(line, k)}
    BY <1>2, <2>1
  <2> QED
    BY <2>2 DEF Splitter!Quoted
<1>4. ASSUME NEW i \in 1 .. n PROVE Splitter!Separates(new, i) <=> Splitter!Separates(line, i)
  <2>1. (Splitter!Quoted(new, i) <=> Splitter!Quoted(line, i)) /\ new[i] = line[i]
    BY <1>1, <1>3
  <2> QED
    BY <2>1 DEF Splitter!Separates
<1> QED
  BY <1>2, <1>3, <1>4

\* What the new character means.
LEMMA MeaningOfNew ==
  ASSUME NEW line, NEW c, NEW n, NEW new, NEW b, Longer(line, c, n, new, b)
  PROVE  /\ Splitter!Delimits(new, n + 1) <=> c = Splitter!Mark /\ b % 2 = 0
         /\ Splitter!Separates(new, n + 1) <=> c = Splitter!Space /\ ~ Splitter!Quoted(line, n + 1)
<1>1. n \in Nat /\ new[n + 1] = c /\ n + 1 \in 1 .. n + 1
  BY LongerIs
<1>2. Splitter!Leading(new, n + 1) = b
  <2>1. Trail(line, n + 1, b)
    BY DEF Longer
  <2>2. Splitter!Leading(line, n + 1) = b
    BY <1>1, <2>1, LeadingIs
  <2> QED
    BY <1>1, <2>2, LeadingStays
<1>3. Splitter!Quoted(new, n + 1) <=> Splitter!Quoted(line, n + 1)
  BY <1>1, MeaningStays
<1> QED
  BY <1>1, <1>2, <1>3 DEF Splitter!Delimits, Splitter!Separates

\* Parity: one more turns it over.
LEMMA ParityTurns == ASSUME NEW k \in Nat PROVE (k + 1) % 2 = 1 <=> ~ (k % 2 = 1)
OBVIOUS

\* A mark that delimits opens or closes the quotes.
LEMMA QuotedMoves ==
  ASSUME NEW line, NEW c, NEW n, NEW new, NEW b, Longer(line, c, n, new, b)
  PROVE  Splitter!Quoted(new, n + 2) <=> (Splitter!Quoted(line, n + 1) # (c = Splitter!Mark /\ b % 2 = 0))
<1> DEFINE A == {k \in 1 .. n : Splitter!Delimits(line, k)}
           B == {k \in 1 .. n + 1 : Splitter!Delimits(new, k)}
           turns == c = Splitter!Mark /\ b % 2 = 0
<1>1. n \in Nat /\ (n + 2) - 1 = n + 1 /\ (n + 1) - 1 = n
      /\ \A k : k \in 1 .. n + 1 <=> k \in 1 .. n \/ k = n + 1
  <2>1. n \in Nat
    BY LongerIs
  <2> QED
    BY <2>1
<1>2. B = IF turns THEN A \cup {n + 1} ELSE A
  <2>1. /\ \A i \in 1 .. n : Splitter!Delimits(new, i) <=> Splitter!Delimits(line, i)
        /\ Splitter!Delimits(new, n + 1) <=> turns
    BY MeaningStays, MeaningOfNew
  <2> QED
    BY <1>1, <2>1
<1>3. A \in SUBSET (1 .. n)
  OBVIOUS
<1> HIDE DEF A
<1>4. Cardinality(A) \in Nat /\ Cardinality(A \cup {n + 1}) = Cardinality(A) + 1
  BY <1>1, <1>3, OneMorePlace
<1>5. /\ Splitter!Quoted(line, n + 1) <=> Cardinality(A) % 2 = 1
      /\ Splitter!Quoted(new, n + 2) <=> Cardinality(B) % 2 = 1
  <2>1. Splitter!Quoted(line, n + 1) <=> Splitter!Cardinality(A) % 2 = 1
    BY <1>1 DEF Splitter!Quoted, A
  <2>2. Splitter!Quoted(new, n + 2) <=> Splitter!Cardinality(B) % 2 = 1
    BY <1>1 DEF Splitter!Quoted
  <2> QED
    BY <2>1, <2>2, SamePick
<1>6. CASE turns
  <2>1. Cardinality(B) = Cardinality(A) + 1
    BY <1>2, <1>4, <1>6
  <2>2. Cardinality(B) % 2 = 1 <=> ~ (Cardinality(A) % 2 = 1)
    BY <1>4, <2>1, ParityTurns
  <2>3. Splitter!Quoted(new, n + 2) <=> ~ Splitter!Quoted(line, n + 1)
    BY <1>5, <2>2
  <2> QED
    BY <1>6, <2>3 DEF Splitter!Quoted
<1>7. CASE ~ turns
  <2>1. B = A
    BY <1>2, <1>7
  <2>2. Splitter!Quoted(new, n + 2) <=> Splitter!Quoted(line, n + 1)
    BY <1>5, <2>1
  <2> QED
    BY <1>7, <2>2 DEF Splitter!Quoted
<1> QED
  BY <1>6, <1>7

\* How many backslashes are before one of those at the end, and before the new character.
LEMMA LeadingAtEnd ==
  ASSUME NEW line, NEW c, NEW n, NEW new, NEW b, Longer(line, c, n, new, b)
  PROVE  /\ Splitter!Leading(new, n + 1) = b
         /\ \A i \in (n - b + 1) .. n : Splitter!Leading(new, i) = i - (n - b) - 1
<1>1. /\ n \in Nat /\ b \in 0 .. n /\ \A i \in (n - b + 1) .. n : line[i] = Splitter!Backslash
      /\ b = n \/ line[n - b] # Splitter!Backslash
  BY LongerIs
<1>2. n + 1 \in 1 .. n + 1 /\ \A i \in (n - b + 1) .. n : i \in 1 .. n + 1 /\ i \in Nat
  BY <1>1
<1>3. Splitter!Leading(new, n + 1) = b
  <2>1. Trail(line, n + 1, b)
    BY DEF Longer
  <2>2. Splitter!Leading(line, n + 1) = b
    BY <1>1, <2>1, LeadingIs
  <2> QED
    BY <1>2, <2>2, LeadingStays
<1>4. ASSUME NEW i \in (n - b + 1) .. n PROVE Splitter!Leading(new, i) = i - (n - b) - 1
  <2> DEFINE k == i - (n - b) - 1
  <2>1. k \in 0 .. i - 1 /\ i - k = n - b + 1 /\ i - k - 1 = n - b /\ (b = n => k = i - 1)
    BY <1>1
  <2>2. \A j \in (n - b + 1) .. (i - 1) : j \in (n - b + 1) .. n
    BY <1>1
  <2> HIDE DEF k
  <2>3. Trail(line, i, k)
    BY <1>1, <2>1, <2>2 DEF Trail, Splitter!Run
  <2>4. Splitter!Leading(line, i) = k
    BY <1>2, <2>3, LeadingIs
  <2>5. Splitter!Leading(new, i) = k
    BY <1>2, <2>4, LeadingStays
  <2> QED
    BY <2>5 DEF k
<1> QED
  BY <1>3, <1>4

\* What stays is decided, but for the backslashes at the end if a mark comes.
LEMMA StaysStays ==
  ASSUME NEW line, NEW c, NEW n, NEW new, NEW b, Longer(line, c, n, new, b),
         NEW i \in 1 .. n, c # Splitter!Mark \/ i <= n - b
  PROVE  Splitter!Stays(new, i) <=> Splitter!Stays(line, i)
<1>1. /\ n \in Nat /\ DOMAIN line = 1 .. n /\ DOMAIN new = 1 .. (n + 1) /\ new[n + 1] = c
      /\ \A j \in 1 .. n : new[j] = line[j]
      /\ b \in 0 .. n /\ (b = n \/ line[n - b] # Splitter!Backslash)
  BY LongerIs
<1>2. /\ \A j \in 1 .. n : Splitter!Leading(new, j) = Splitter!Leading(line, j)
      /\ Splitter!Delimits(new, i) <=> Splitter!Delimits(line, i)
  <2>1. \A j \in 1 .. n : j \in 1 .. n + 1
    BY <1>1
  <2> QED
    BY <2>1, LeadingStays, MeaningStays
<1>3. ASSUME NEW j \in 1 .. n PROVE Splitter!Run(new, i, j - 1) <=> Splitter!Run(line, i, j - 1)
  <2>1. \A k \in i .. j - 1 : k \in 1 .. n
    BY <1>1
  <2> QED
    BY <1>1, <2>1 DEF Splitter!Run
<1>4. ~ (c = Splitter!Mark /\ Splitter!Run(new, i, (n + 1) - 1))
  <2> SUFFICES ASSUME c = Splitter!Mark, Splitter!Run(new, i, (n + 1) - 1) PROVE FALSE
    OBVIOUS
  <2>1. i <= n - b
    OBVIOUS
  <2>2. n - b \in i .. (n + 1) - 1 /\ n - b \in 1 .. n /\ b # n
    BY <1>1, <2>1
  <2>3. new[n - b] = Splitter!Backslash
    BY <2>2 DEF Splitter!Run
  <2> QED
    BY <1>1, <2>2, <2>3
<1>5. \A j : j \in 1 .. (n + 1) <=> j \in 1 .. n \/ j = n + 1
  BY <1>1
<1>6. (\A j \in DOMAIN new : j > i /\ new[j] = Splitter!Mark /\ Splitter!Run(new, i, j - 1) =>
         2 * (Splitter!Leading(new, i) + 1) <= Splitter!Leading(new, j))
      <=> (\A j \in DOMAIN line : j > i /\ line[j] = Splitter!Mark /\ Splitter!Run(line, i, j - 1) =>
             2 * (Splitter!Leading(line, i) + 1) <= Splitter!Leading(line, j))
  BY <1>1, <1>2, <1>3, <1>4, <1>5
<1> QED
  BY <1>1, <1>2, <1>6 DEF Splitter!Stays

\* Until a mark comes, the backslashes at the end stay.
LEMMA EndStays ==
  ASSUME NEW line, NEW c, NEW n, NEW new, NEW b, Longer(line, c, n, new, b),
         NEW i \in (n - b + 1) .. n
  PROVE  Splitter!Stays(line, i)
<1>1. /\ n \in Nat /\ DOMAIN line = 1 .. n /\ b \in 0 .. n
      /\ \A j \in (n - b + 1) .. n : line[j] = Splitter!Backslash
  BY LongerIs
<1>2. \A j \in 1 .. n : j > i => j \in (n - b + 1) .. n
  BY <1>1
<1>3. \A j \in DOMAIN line : j > i => line[j] # Splitter!Mark
  BY <1>1, <1>2, Distinct
<1>4. line[i] # Splitter!Mark
  BY <1>1, Distinct
<1> QED
  BY <1>3, <1>4 DEF Splitter!Stays

\* With a mark, the first half of them does.
LEMMA HalfStays ==
  ASSUME NEW line, NEW c, NEW n, NEW new, NEW b, Longer(line, c, n, new, b),
         NEW i \in (n - b + 1) .. n, c = Splitter!Mark
  PROVE  Splitter!Stays(new, i) <=> 2 * (i - (n - b)) <= b
<1>1. /\ n \in Nat /\ DOMAIN new = 1 .. (n + 1) /\ b \in 0 .. n
      /\ \A j \in (n - b + 1) .. n : line[j] = Splitter!Backslash
      /\ new[n + 1] = c /\ \A j \in 1 .. n : new[j] = line[j]
  BY LongerIs
<1>2. \A j \in i .. n : j \in (n - b + 1) .. n /\ j \in 1 .. n
  BY <1>1
<1>3. i \in i .. n /\ n + 1 > i /\ (n + 1) - 1 = n /\ n + 1 \in 1 .. (n + 1)
      /\ \A j \in 1 .. (n + 1) : j > i => j = n + 1 \/ j \in i .. n
  BY <1>1
<1>4. Splitter!Run(new, i, n) /\ new[i] # Splitter!Mark /\ new[i] = Splitter!Backslash
  BY <1>1, <1>2, <1>3, Distinct DEF Splitter!Run
<1>5. \A j \in DOMAIN new : j > i /\ new[j] = Splitter!Mark => j = n + 1
  BY <1>1, <1>2, <1>3, Distinct
<1>6. Splitter!Leading(new, n + 1) = b /\ Splitter!Leading(new, i) = i - (n - b) - 1
  BY LeadingAtEnd
<1>7. Splitter!Stays(new, i) <=> 2 * (Splitter!Leading(new, i) + 1) <= Splitter!Leading(new, n + 1)
  BY <1>1, <1>3, <1>4, <1>5 DEF Splitter!Stays
<1>8. Splitter!Leading(new, i) + 1 = i - (n - b)
  BY <1>1, <1>6
<1> QED
  BY <1>6, <1>7, <1>8

\* The new character stays unless it is a mark that delimits.
LEMMA NewStays ==
  ASSUME NEW line, NEW c, NEW n, NEW new, NEW b, Longer(line, c, n, new, b)
  PROVE  Splitter!Stays(new, n + 1) <=> (c = Splitter!Mark => b % 2 = 1)
<1>1. n \in Nat /\ b \in Nat /\ DOMAIN new = 1 .. (n + 1) /\ new[n + 1] = c
  BY LongerIs
<1>2. \A j \in DOMAIN new : ~ (j > n + 1)
  BY <1>1
<1>3. Splitter!Delimits(new, n + 1) <=> c = Splitter!Mark /\ b % 2 = 0
  BY MeaningOfNew
<1>4. b % 2 = 0 <=> ~ (b % 2 = 1)
  BY <1>1
<1> QED
  BY <1>1, <1>2, <1>3, <1>4 DEF Splitter!Stays

\* The places of the piece before place k, and those of the piece being read, without
\* the b backslashes that are still buffered.
Kept(line, k) == {i \in 1 .. k - 1 : Splitter!Stays(line, i) /\ \A j \in i .. k - 1 : ~ Splitter!Separates(line, j)}
Settled(line, n, b) ==
  {i \in 1 .. n - b : Splitter!Stays(line, i) /\ \A j \in i .. n : ~ Splitter!Separates(line, j)}

\* A piece is what the line has there.
LEMMA PieceIs == ASSUME NEW line, NEW k PROVE Splitter!Piece(line, k) = Pick(line, Kept(line, k))
BY SamePick DEF Splitter!Piece, Kept

\* The pieces before the places so far, unless backslashes at the end meet a mark, are final.
LEMMA PieceStays ==
  ASSUME NEW line, NEW c, NEW n, NEW new, NEW b, Longer(line, c, n, new, b),
         NEW k \in 1 .. n + 1, c # Splitter!Mark \/ k <= n - b + 1
  PROVE  Splitter!Piece(new, k) = Splitter!Piece(line, k)
<1>1. n \in Nat /\ b \in 0 .. n /\ \A i \in 1 .. n : new[i] = line[i]
  BY LongerIs
<1>2. \A i \in 1 .. k - 1 : i \in 1 .. n /\ (c # Splitter!Mark \/ i <= n - b)
  BY <1>1
<1>3. ASSUME NEW i \in 1 .. k - 1
      PROVE  /\ Splitter!Stays(new, i) <=> Splitter!Stays(line, i)
             /\ Splitter!Separates(new, i) <=> Splitter!Separates(line, i)
  BY <1>2, StaysStays, MeaningStays
<1>4. \A i \in 1 .. k - 1 : \A j \in i .. k - 1 : j \in 1 .. k - 1
  BY <1>1
<1>5. Kept(new, k) = Kept(line, k)
  BY <1>3, <1>4 DEF Kept
<1>6. Kept(line, k) \in SUBSET (1 .. n)
  BY <1>2 DEF Kept
<1> DEFINE A == Kept(line, k)
<1>7. A \in SUBSET (1 .. n) /\ \A i \in A : new[i] = line[i]
  BY <1>1, <1>6
<1> HIDE DEF A
<1>8. Pick(new, A) = Pick(line, A)
  BY <1>1, <1>7, PickAgrees
<1> QED
  BY <1>5, <1>8, PieceIs DEF A

\* What is buffered, as characters.
LEMMA BufferedIs ==
  ASSUME NEW k \in Nat
  PROVE  /\ Splitter!Buffered(k) \in Seq(Chars) /\ Len(Splitter!Buffered(k)) = k
         /\ \A i \in 1 .. k : Splitter!Buffered(k)[i] = Splitter!Backslash
BY Distinct DEF Splitter!Buffered

\* The piece being read is what is settled and what is buffered.
LEMMA PieceOfEnd ==
  ASSUME NEW line, NEW c, NEW n, NEW new, NEW b, Longer(line, c, n, new, b)
  PROVE  /\ Splitter!Piece(line, n + 1) = Pick(line, Settled(line, n, b)) \o Splitter!Buffered(b)
         /\ Kept(line, n + 1) = Settled(line, n, b) \cup ((n - b + 1) .. n)
<1> DEFINE A == Settled(line, n, b)
           C == Kept(line, n + 1)
           u == Splitter!Buffered(b)
<1>1. /\ n \in Nat /\ b \in 0 .. n /\ line \in Seq(Chars) /\ Len(line) = n
      /\ \A i \in (n - b + 1) .. n : line[i] = Splitter!Backslash
  BY LongerIs
<1>2. \A i \in (n - b + 1) .. n : Splitter!Stays(line, i) /\ ~ Splitter!Separates(line, i)
  BY <1>1, EndStays, Distinct DEF Splitter!Separates
<1>3. (n + 1) - 1 = n /\ \A i : i \in 1 .. n <=> i \in 1 .. n - b \/ i \in (n - b + 1) .. n
  BY <1>1
<1>4. \A i \in (n - b + 1) .. n : \A j \in i .. n : j \in (n - b + 1) .. n
  BY <1>1
<1>5. C = A \cup ((n - b + 1) .. n)
  BY <1>2, <1>3, <1>4 DEF Kept, Settled
<1>6. A \in SUBSET (1 .. n - b)
  BY DEF Settled
<1>7. u \in Seq(Chars) /\ Len(u) = b /\ \A i \in 1 .. b : u[i] = Splitter!Backslash
  BY <1>1, BufferedIs
<1> HIDE DEF A, C, u
<1>8. GoesOn(Chars, line, line, n - b, A, C, u)
  <2>1. (n - b) + Len(u) = n /\ n - b \in Nat /\ n - b <= Len(line)
    BY <1>1, <1>7
  <2>2. \A i \in 1 .. Len(u) : line[(n - b) + i] = u[i]
    <3>1. \A i \in 1 .. b : (n - b) + i \in (n - b + 1) .. n
      BY <1>1
    <3> QED
      BY <1>1, <1>7, <3>1
  <2> QED
    BY <1>1, <1>5, <1>6, <1>7, <2>1, <2>2 DEF GoesOn
<1>9. Pick(line, C) = Pick(line, A) \o u
  BY <1>8, PickGoesOn
<1>10. Splitter!Piece(line, n + 1) = Pick(line, C)
  BY PieceIs DEF C
<1> QED
  BY <1>5, <1>9, <1>10 DEF A, C, u

\* One more character: what a place must be for the new piece.
LEMMA SettledMoves ==
  ASSUME NEW line, NEW c, NEW n, NEW new, NEW b, Longer(line, c, n, new, b),
         NEW i \in 1 .. n
  PROVE  (\A j \in i .. n + 1 : ~ Splitter!Separates(new, j)) <=>
           /\ \A j \in i .. n : ~ Splitter!Separates(line, j)
           /\ ~ (c = Splitter!Space /\ ~ Splitter!Quoted(line, n + 1))
<1>1. n \in Nat
  BY LongerIs
<1>2. (\A j : j \in i .. n + 1 <=> j \in i .. n \/ j = n + 1) /\ \A j \in i .. n : j \in 1 .. n
  BY <1>1
<1>3. \A j \in i .. n : Splitter!Separates(new, j) <=> Splitter!Separates(line, j)
  BY <1>2, MeaningStays
<1>4. Splitter!Separates(new, n + 1) <=> c = Splitter!Space /\ ~ Splitter!Quoted(line, n + 1)
  BY MeaningOfNew
<1> QED
  BY <1>2, <1>3, <1>4

\* A backslash settles nothing.
LEMMA BufferSettles ==
  ASSUME NEW line, NEW c, NEW n, NEW new, NEW b, Longer(line, c, n, new, b), c = Splitter!Backslash
  PROVE  Pick(new, Settled(new, n + 1, b + 1)) = Pick(line, Settled(line, n, b))
<1>1. n \in Nat /\ b \in 0 .. n /\ \A i \in 1 .. n : new[i] = line[i]
  BY LongerIs
<1>2. (n + 1) - (b + 1) = n - b /\ \A i \in 1 .. n - b : i \in 1 .. n
  BY <1>1
<1>3. \A i \in 1 .. n - b : Splitter!Stays(new, i) <=> Splitter!Stays(line, i)
  BY <1>2, StaysStays
<1>4. \A i \in 1 .. n - b : (\A j \in i .. n + 1 : ~ Splitter!Separates(new, j)) <=>
                           (\A j \in i .. n : ~ Splitter!Separates(line, j))
  BY <1>2, SettledMoves, Distinct
<1> DEFINE A == Settled(line, n, b)
<1>5. Settled(new, n + 1, b + 1) = A
  BY <1>2, <1>3, <1>4 DEF Settled
<1>6. A \in SUBSET (1 .. n) /\ \A i \in A : new[i] = line[i]
  BY <1>1, <1>2 DEF Settled
<1> HIDE DEF A
<1>7. Pick(new, A) = Pick(line, A)
  BY <1>1, <1>6, PickAgrees
<1> QED
  BY <1>5, <1>7 DEF A

\* A space out of quotes begins a new piece.
LEMMA SeparateSettles ==
  ASSUME NEW line, NEW c, NEW n, NEW new, NEW b, Longer(line, c, n, new, b),
         c = Splitter!Space, ~ Splitter!Quoted(line, n + 1)
  PROVE  Pick(new, Settled(new, n + 1, 0)) = <<>>
<1>1. n \in Nat
  BY LongerIs
<1>2. Splitter!Separates(new, n + 1)
  BY MeaningOfNew
<1>3. \A i \in 1 .. (n + 1) - 0 : n + 1 \in i .. n + 1
  BY <1>1
<1>4. Settled(new, n + 1, 0) = {}
  BY <1>2, <1>3 DEF Settled
<1> QED
  BY <1>4, PickNothing

\* Any other character is added to what was settled and buffered.
LEMMA AddSettles ==
  ASSUME NEW line, NEW c, NEW n, NEW new, NEW b, Longer(line, c, n, new, b),
         c # Splitter!Backslash, c # Splitter!Mark, c # Splitter!Space \/ Splitter!Quoted(line, n + 1)
  PROVE  Pick(new, Settled(new, n + 1, 0)) =
           Append(Pick(line, Settled(line, n, b)) \o Splitter!Buffered(b), c)
<1> DEFINE A == Kept(line, n + 1)
           C == Settled(new, n + 1, 0)
<1>1. /\ n \in Nat /\ line \in Seq(Chars) /\ Len(line) = n /\ new \in Seq(Chars) /\ Len(new) = n + 1
      /\ new[n + 1] = c /\ \A i \in 1 .. n : new[i] = line[i]
  BY LongerIs
<1>2. /\ (n + 1) - 0 = n + 1 /\ (n + 1) - 1 = n
      /\ \A i : i \in 1 .. n + 1 <=> i \in 1 .. n \/ i = n + 1
      /\ \A j \in n + 1 .. n + 1 : j = n + 1
  BY <1>1
<1>3. ASSUME NEW i \in 1 .. n
      PROVE  /\ Splitter!Stays(new, i) <=> Splitter!Stays(line, i)
             /\ (\A j \in i .. n + 1 : ~ Splitter!Separates(new, j)) <=>
                  (\A j \in i .. n : ~ Splitter!Separates(line, j))
  BY StaysStays, SettledMoves
<1>4. Splitter!Stays(new, n + 1) /\ ~ Splitter!Separates(new, n + 1)
  BY NewStays, MeaningOfNew
<1>5. C = A \cup {n + 1}
  BY <1>2, <1>3, <1>4 DEF Settled, Kept
<1>6. A \in SUBSET (1 .. n)
  BY <1>2 DEF Kept
<1> HIDE DEF A, C
<1>7. OneOn(Chars, line, new, n, A, C)
  BY <1>1, <1>5, <1>6 DEF OneOn
<1>8. Pick(new, C) = Append(Pick(line, A), new[n + 1])
  BY <1>7, PickOneMore
<1>9. Pick(line, A) = Pick(line, Settled(line, n, b)) \o Splitter!Buffered(b)
  BY PieceIs, PieceOfEnd DEF A
<1> QED
  BY <1>1, <1>8, <1>9 DEF C

\* A mark settles half of the backslashes, and itself after an odd one.
LEMMA QuoteSettles ==
  ASSUME NEW line, NEW c, NEW n, NEW new, NEW b, Longer(line, c, n, new, b), c = Splitter!Mark
  PROVE  Pick(new, Settled(new, n + 1, 0)) =
           Pick(line, Settled(line, n, b)) \o Splitter!Buffered(b \div 2)
             \o (IF b % 2 = 1 THEN <<Splitter!Mark>> ELSE <<>>)
<1> DEFINE A == Settled(line, n, b)
           h == b \div 2
           u == Splitter!Buffered(h)
           B == A \cup ((n - b + 1) .. (n - b + h))
           C == Settled(new, n + 1, 0)
<1>1. /\ n \in Nat /\ line \in Seq(Chars) /\ Len(line) = n /\ new \in Seq(Chars) /\ Len(new) = n + 1
      /\ new[n + 1] = c /\ \A i \in 1 .. n : new[i] = line[i]
      /\ b \in 0 .. n /\ \A i \in (n - b + 1) .. n : line[i] = Splitter!Backslash
  BY LongerIs
<1>2. h \in 0 .. b /\ \A m \in Nat : 2 * m <= b <=> m <= h
  BY <1>1
<1> HIDE DEF h
<1>3. /\ (n + 1) - 0 = n + 1
      /\ \A i : i \in 1 .. n + 1 <=> i \in 1 .. n - b \/ i \in (n - b + 1) .. n \/ i = n + 1
      /\ \A j \in n + 1 .. n + 1 : j = n + 1
      /\ \A i \in 1 .. n - b : i \in 1 .. n /\ i <= n - b
      /\ \A i \in (n - b + 1) .. n : i \in 1 .. n
      /\ \A i : i \in (n - b + 1) .. n /\ i - (n - b) <= h <=> i \in (n - b + 1) .. (n - b + h)
      /\ \A i \in (n - b + 1) .. n : i - (n - b) \in Nat
  BY <1>1, <1>2
<1>4. ASSUME NEW i \in 1 .. n - b
      PROVE  /\ Splitter!Stays(new, i) <=> Splitter!Stays(line, i)
             /\ (\A j \in i .. n + 1 : ~ Splitter!Separates(new, j)) <=>
                  (\A j \in i .. n : ~ Splitter!Separates(line, j))
  BY <1>3, StaysStays, SettledMoves, Distinct
<1>5. ASSUME NEW i \in (n - b + 1) .. n
      PROVE  /\ Splitter!Stays(new, i) <=> i \in (n - b + 1) .. (n - b + h)
             /\ \A j \in i .. n + 1 : ~ Splitter!Separates(new, j)
  <2>1. Splitter!Stays(new, i) <=> 2 * (i - (n - b)) <= b
    BY HalfStays
  <2>2. Splitter!Stays(new, i) <=> i \in (n - b + 1) .. (n - b + h)
    BY <1>2, <1>3, <2>1
  <2>3. \A j \in i .. n : j \in (n - b + 1) .. n
    BY <1>1
  <2>4. \A j \in i .. n : ~ Splitter!Separates(line, j)
    BY <1>1, <2>3, Distinct DEF Splitter!Separates
  <2>5. i \in 1 .. n
    BY <1>3
  <2>6. \A j \in i .. n + 1 : ~ Splitter!Separates(new, j)
    BY <2>4, <2>5, SettledMoves, Distinct
  <2> QED
    BY <2>2, <2>6
<1>6. (Splitter!Stays(new, n + 1) <=> b % 2 = 1) /\ ~ Splitter!Separates(new, n + 1)
  BY NewStays, MeaningOfNew, Distinct
<1>7. C = IF b % 2 = 1 THEN B \cup {n + 1} ELSE B
  <2>1. \A i : i \in C <=> /\ i \in 1 .. n + 1 /\ Splitter!Stays(new, i)
                           /\ \A j \in i .. n + 1 : ~ Splitter!Separates(new, j)
    BY <1>3 DEF Settled
  <2>2. \A i : i \in A <=> /\ i \in 1 .. n - b /\ Splitter!Stays(line, i)
                           /\ \A j \in i .. n : ~ Splitter!Separates(line, j)
    BY DEF Settled
  <2> HIDE DEF A, C
  <2>3. ASSUME NEW i \in 1 .. n - b PROVE i \in C <=> i \in A
    BY <1>3, <1>4, <2>1, <2>2
  <2>4. ASSUME NEW i \in (n - b + 1) .. n PROVE i \in C <=> i \in (n - b + 1) .. (n - b + h)
    BY <1>3, <1>5, <2>1
  <2>5. n + 1 \in C <=> b % 2 = 1
    BY <1>3, <1>6, <2>1
  <2>6. /\ \A i \in A : i \in 1 .. n - b
        /\ \A i \in (n - b + 1) .. (n - b + h) : i \in (n - b + 1) .. n
    <3>1. \A i \in A : i \in 1 .. n - b
      BY <2>2, Zenon
    <3> QED
      BY <1>3, <3>1
  <2>7. \A i \in C : i \in 1 .. n - b \/ i \in (n - b + 1) .. n \/ i = n + 1
    BY <1>3, <2>1
  <2>8. \A i \in 1 .. n - b : ~ (i \in (n - b + 1) .. n) /\ i # n + 1
    BY <1>1
  <2>9. n + 1 \notin (n - b + 1) .. n
    BY <1>1
  <2> QED
    BY <2>3, <2>4, <2>5, <2>6, <2>7, <2>8, <2>9
<1>8. A \in SUBSET (1 .. n - b) /\ B \in SUBSET (1 .. n)
  <2>1. A \in SUBSET (1 .. n - b)
    BY DEF Settled
  <2> HIDE DEF A
  <2>2. \A i \in 1 .. n - b : i \in 1 .. n
    BY <1>3
  <2>3. \A i \in (n - b + 1) .. (n - b + h) : i \in 1 .. n
    BY <1>3
  <2> QED
    BY <2>1, <2>2, <2>3
<1>9. u \in Seq(Chars) /\ Len(u) = h /\ \A i \in 1 .. h : u[i] = Splitter!Backslash
  BY <1>2, BufferedIs
<1> HIDE DEF A, B, C, u
<1>10. GoesOn(Chars, line, line, n - b, A, B, u)
  <2>1. (n - b) + Len(u) <= n /\ n - b \in Nat /\ n - b <= Len(line)
    BY <1>1, <1>2, <1>9
  <2>2. \A i \in 1 .. Len(u) : line[(n - b) + i] = u[i]
    <3>1. \A i \in 1 .. h : (n - b) + i \in (n - b + 1) .. n
      BY <1>1, <1>2
    <3> QED
      BY <1>1, <1>9, <3>1
  <2> QED
    BY <1>1, <1>8, <1>9, <2>1, <2>2 DEF GoesOn, B
<1>11. Pick(line, B) = Pick(line, A) \o u
  BY <1>10, PickGoesOn
<1>12. CASE b % 2 = 1
  <2>1. OneOn(Chars, line, new, n, B, C)
    BY <1>1, <1>7, <1>8, <1>12 DEF OneOn
  <2>2. Pick(new, C) = Append(Pick(line, B), new[n + 1])
    BY <2>1, PickOneMore
  <2>3. Pick(line, B) \in Seq(Chars)
    BY <1>1, <1>8, PickTakes
  <2>4. Append(Pick(line, B), Splitter!Mark) = Pick(line, B) \o <<Splitter!Mark>>
    BY <2>3, Distinct, AppendIsConcat
  <2> QED
    BY <1>1, <1>11, <1>12, <2>2, <2>4 DEF A, u, h, C
<1>13. CASE ~ (b % 2 = 1)
  <2>1. C = B
    BY <1>7, <1>13
  <2>2. \A i \in B : new[i] = line[i]
    BY <1>1, <1>8
  <2>3. Pick(new, B) = Pick(line, B)
    BY <1>1, <1>8, <2>2, PickAgrees
  <2>4. Pick(line, B) \in Seq(Chars)
    BY <1>1, <1>8, PickTakes
  <2>5. Pick(line, B) \o <<>> = Pick(line, B)
    BY <2>4, ConcatEmptySeq
  <2> QED
    BY <1>11, <1>13, <2>1, <2>3, <2>5 DEF A, u, h, C
<1> QED
  BY <1>12, <1>13

-----------------------------------------------------------------------------
(* The arguments *)

\* The pieces before all places, and the places of some whose pieces are not empty.
Pieces(line) == [k \in 1 .. Len(line) + 1 |-> Splitter!Piece(line, k)]
Full(line, ends) == {k \in ends : Splitter!Piece(line, k) # <<>>}

\* The arguments are picked from the pieces.
LEMMA ArgumentsIs ==
  ASSUME NEW line, NEW ends
  PROVE  Splitter!Arguments(line, ends) = Pick(Pieces(line), Full(line, ends))
BY SamePick DEF Splitter!Arguments, Pieces, Full

\* The pieces are texts.
LEMMA PiecesAre ==
  ASSUME NEW line \in Seq(Chars)
  PROVE  Pieces(line) \in Seq(Seq(Chars)) /\ Len(Pieces(line)) = Len(line) + 1
<1>1. Len(line) \in Nat
  BY LenProperties
<1>2. ASSUME NEW k \in 1 .. Len(line) + 1 PROVE Splitter!Piece(line, k) \in Seq(Chars)
  <2>1. Kept(line, k) \in SUBSET (1 .. Len(line))
    <3>1. \A i \in 1 .. k - 1 : i \in 1 .. Len(line)
      BY <1>1
    <3> QED
      BY <3>1 DEF Kept
  <2>2. Pick(line, Kept(line, k)) \in Seq(Chars)
    BY <2>1, PickTakes
  <2> QED
    BY <2>2, PieceIs
<1> QED
  BY <1>1, <1>2 DEF Pieces

\* Two lines, the second no shorter, with the same pieces before the places S of the first
\* and before its end.
SamePieces(l, m, S) ==
  /\ l \in Seq(Chars) /\ m \in Seq(Chars) /\ Len(l) <= Len(m) /\ S \in SUBSET (1 .. Len(l))
  /\ \A k \in S : Splitter!Piece(m, k) = Splitter!Piece(l, k)

\* The place behind a line, as one more end of a piece.
WithLast(l, S, E) == E = S \cup {Len(l) + 1}

\* They have the same arguments before these places.
LEMMA SameArguments ==
  ASSUME NEW l, NEW m, NEW S, SamePieces(l, m, S)
  PROVE  Splitter!Arguments(m, S) = Splitter!Arguments(l, S)
<1> DEFINE A == Full(l, S)
           s == Pieces(l)
           t == Pieces(m)
<1>1. /\ Len(l) \in Nat /\ Len(m) \in Nat /\ \A k \in S : k \in 1 .. Len(l) + 1 /\ k \in 1 .. Len(m) + 1
      /\ S \in SUBSET (1 .. Len(l)) /\ \A k \in S : Splitter!Piece(m, k) = Splitter!Piece(l, k)
  <2>1. Len(l) \in Nat /\ Len(m) \in Nat
    BY LenProperties DEF SamePieces
  <2> QED
    BY <2>1 DEF SamePieces
<1>2. Full(m, S) = A /\ A \in SUBSET (1 .. Len(l)) /\ \A k \in A : t[k] = s[k]
  BY <1>1 DEF Full, Pieces
<1> HIDE DEF A, s, t
<1>3. Pick(t, A) = Pick(s, A)
  BY <1>1, <1>2, PickAgrees
<1>4. Splitter!Arguments(m, S) = Pick(t, Full(m, S)) /\ Splitter!Arguments(l, S) = Pick(s, A)
  BY ArgumentsIs DEF s, t, A
<1> QED
  BY <1>2, <1>3, <1>4

\* The end of the first adds its piece, unless that is empty.
LEMMA OneArgumentMore ==
  ASSUME NEW l, NEW m, NEW S, SamePieces(l, m, S), NEW E, WithLast(l, S, E),
         NEW p, p = Splitter!Piece(l, Len(l) + 1), p = Splitter!Piece(m, Len(l) + 1)
  PROVE  Splitter!Arguments(m, E) =
           IF p = <<>> THEN Splitter!Arguments(l, S) ELSE Append(Splitter!Arguments(l, S), p)
<1> DEFINE n == Len(l)
           A == Full(l, S)
           C == Full(m, E)
           s == Pieces(l)
           t == Pieces(m)
<1>1. /\ n \in Nat /\ Len(m) \in Nat /\ n <= Len(m) /\ S \in SUBSET (1 .. n)
      /\ \A k \in S : Splitter!Piece(m, k) = Splitter!Piece(l, k)
      /\ l \in Seq(Chars) /\ m \in Seq(Chars)
  BY LenProperties DEF SamePieces
<1>2. /\ s \in Seq(Seq(Chars)) /\ Len(s) = n + 1
      /\ t \in Seq(Seq(Chars)) /\ Len(t) = Len(m) + 1
  BY <1>1, PiecesAre
<1>3. /\ \A k \in 1 .. n + 1 : s[k] = Splitter!Piece(l, k)
      /\ \A k \in 1 .. n + 1 : t[k] = Splitter!Piece(m, k)
  <2>1. \A k \in 1 .. n + 1 : k \in 1 .. Len(m) + 1
    BY <1>1
  <2> QED
    BY <2>1 DEF Pieces
<1>4. \A k \in S : k \in 1 .. n + 1
  BY <1>1
<1>5. Full(m, S) = A /\ A \in SUBSET (1 .. n) /\ \A k \in A : t[k] = s[k]
  BY <1>1, <1>3, <1>4 DEF Full
<1> HIDE DEF n, A, s, t
<1>6. Pick(t, A) = Pick(s, A)
  BY <1>1, <1>5, PickAgrees
<1>7. E = S \cup {n + 1} /\ p = Splitter!Piece(l, n + 1) /\ p = Splitter!Piece(m, n + 1)
  BY DEF n, WithLast
<1>8. C = IF p = <<>> THEN A ELSE A \cup {n + 1}
  BY <1>5, <1>7 DEF Full
<1>9. Splitter!Arguments(m, E) = Pick(t, C) /\ Splitter!Arguments(l, S) = Pick(s, A)
  BY ArgumentsIs DEF t, s, A
<1> HIDE DEF C
<1>10. CASE p = <<>>
  BY <1>6, <1>8, <1>9, <1>10
<1>11. CASE p # <<>>
  <2>1. n <= Len(s) /\ n + 1 <= Len(t) /\ n + 1 \in 1 .. n + 1
    BY <1>1, <1>2
  <2>2. OneOn(Seq(Chars), s, t, n, A, C)
    BY <1>1, <1>2, <1>5, <1>8, <1>11, <2>1 DEF OneOn
  <2>3. Pick(t, C) = Append(Pick(s, A), t[n + 1])
    BY <2>2, PickOneMore
  <2>4. t[n + 1] = p
    BY <1>3, <1>7, <2>1
  <2> QED
    BY <1>9, <1>11, <2>3, <2>4
<1> QED
  BY <1>10, <1>11

\* The separators so far have final pieces before them.
LEMMA SeparatorsStay ==
  ASSUME NEW line, NEW c, NEW n, NEW new, NEW b, Longer(line, c, n, new, b)
  PROVE  /\ SamePieces(line, new, Splitter!Separators(line))
         /\ Splitter!Separators(new) = IF c = Splitter!Space /\ ~ Splitter!Quoted(line, n + 1)
                                THEN Splitter!Separators(line) \cup {n + 1} ELSE Splitter!Separators(line)
<1>1. /\ n \in Nat /\ b \in 0 .. n /\ line \in Seq(Chars) /\ Len(line) = n /\ DOMAIN line = 1 .. n
      /\ new \in Seq(Chars) /\ Len(new) = n + 1 /\ DOMAIN new = 1 .. (n + 1)
      /\ \A i \in (n - b + 1) .. n : line[i] = Splitter!Backslash
  BY LongerIs
<1>2. ASSUME NEW k \in Splitter!Separators(line)
      PROVE  k \in 1 .. n /\ Splitter!Piece(new, k) = Splitter!Piece(line, k)
  <2>1. k \in 1 .. n /\ line[k] = Splitter!Space
    BY <1>1 DEF Splitter!Separators, Splitter!Separates
  <2>2. ~ (k \in (n - b + 1) .. n)
    BY <1>1, <2>1, Distinct
  <2>3. k \in 1 .. n + 1 /\ k <= n - b + 1
    BY <1>1, <2>1, <2>2
  <2> QED
    BY <2>1, <2>3, PieceStays
<1>3. SamePieces(line, new, Splitter!Separators(line))
  <2>1. Len(line) <= Len(new)
    BY <1>1
  <2> QED
    BY <1>1, <1>2, <2>1 DEF SamePieces
<1>4. /\ \A k : k \in 1 .. (n + 1) <=> k \in 1 .. n \/ k = n + 1
      /\ n + 1 \notin 1 .. n
  BY <1>1
<1>5. /\ \A k \in 1 .. n : Splitter!Separates(new, k) <=> Splitter!Separates(line, k)
      /\ Splitter!Separates(new, n + 1) <=> c = Splitter!Space /\ ~ Splitter!Quoted(line, n + 1)
  BY MeaningStays, MeaningOfNew
<1>6. Splitter!Separators(new) = IF c = Splitter!Space /\ ~ Splitter!Quoted(line, n + 1)
                          THEN Splitter!Separators(line) \cup {n + 1} ELSE Splitter!Separators(line)
  BY <1>1, <1>4, <1>5 DEF Splitter!Separators
<1> QED
  BY <1>3, <1>6

-----------------------------------------------------------------------------
(* The splitter *)

\* What its variables are of a line: b is buffered, q tells whether quotes are open, a is the
\* argument being read and r are the others.
Reads(line, b, q, a, r) ==
  /\ line \in Seq(Chars)
  /\ Trail(line, Len(line) + 1, b) /\ \A i \in 1 .. Len(line) + 1 : \E k : Trail(line, i, k)
  /\ q = Splitter!Quoted(line, Len(line) + 1)
  /\ a = Pick(line, Settled(line, Len(line), b))
  /\ r = Splitter!Arguments(line, Splitter!Separators(line))

\* A line that is read is one that can get longer.
LEMMA ReadsLonger ==
  ASSUME NEW line, NEW b, NEW q, NEW a, NEW r, Reads(line, b, q, a, r), NEW c \in Chars
  PROVE  Longer(line, c, Len(line), Append(line, c), b)
BY DEF Reads, Longer

\* The character c comes, which makes the line new.
Comes(line, b, q, a, r, c, n, new) ==
  Reads(line, b, q, a, r) /\ c \in Chars /\ n = Len(line) /\ new = Append(line, c)

\* Whatever it is, these follow.
LEMMA ReadsMoves ==
  ASSUME NEW line, NEW b, NEW q, NEW a, NEW r, NEW c, NEW n, NEW new,
         Comes(line, b, q, a, r, c, n, new)
  PROVE  /\ Longer(line, c, n, new, b) /\ Len(new) = n + 1
         /\ Reads(new, IF c = Splitter!Backslash THEN b + 1 ELSE 0, q # (c = Splitter!Mark /\ b % 2 = 0),
                  Pick(new, Settled(new, n + 1, IF c = Splitter!Backslash THEN b + 1 ELSE 0)),
                  Splitter!Arguments(new, Splitter!Separators(new)))
         /\ Splitter!Piece(new, n + 1) = Splitter!Piece(line, n + 1) \/ c = Splitter!Mark
         /\ ~ (c = Splitter!Space /\ ~ q) => Splitter!Arguments(new, Splitter!Separators(new)) = r
         /\ c = Splitter!Space /\ ~ q => Splitter!Arguments(new, Splitter!Separators(new)) =
              IF a \o Splitter!Buffered(b) = <<>> THEN r ELSE Append(r, a \o Splitter!Buffered(b))
<1>0. Reads(line, b, q, a, r) /\ c \in Chars /\ n = Len(line) /\ new = Append(line, c)
  BY DEF Comes
<1>1. Longer(line, c, n, new, b)
  BY <1>0, ReadsLonger
<1>2. n \in Nat /\ Len(new) = n + 1 /\ new \in Seq(Chars) /\ n + 1 \in 1 .. n + 1
  BY <1>1, LongerIs
<1>3. /\ q = Splitter!Quoted(line, n + 1) /\ a = Pick(line, Settled(line, n, b))
      /\ r = Splitter!Arguments(line, Splitter!Separators(line)) /\ n = Len(line)
  BY <1>0 DEF Reads
<1>4. Splitter!Quoted(new, n + 2) <=> (Splitter!Quoted(line, n + 1) # (c = Splitter!Mark /\ b % 2 = 0))
  BY <1>1, QuotedMoves
<1>5. (q # (c = Splitter!Mark /\ b % 2 = 0)) = Splitter!Quoted(new, n + 2)
  BY <1>3, <1>4 DEF Splitter!Quoted
<1> DEFINE d == IF c = Splitter!Backslash THEN b + 1 ELSE 0
           turned == q # (c = Splitter!Mark /\ b % 2 = 0)
           p == Pick(new, Settled(new, n + 1, d))
           z == Splitter!Arguments(new, Splitter!Separators(new))
<1>6. Trail(new, n + 2, d) /\ \A i \in 1 .. n + 2 : \E k : Trail(new, i, k)
  BY <1>1, LeadingMoves
<1>7. Reads(new, d, turned, p, z)
  <2>1. turned = Splitter!Quoted(new, n + 2)
    BY <1>5
  <2> HIDE DEF d, turned
  <2>2. Len(new) + 1 = n + 2
    BY <1>2
  <2> QED
    BY <1>2, <1>6, <2>1, <2>2 DEF Reads
<1>8. Splitter!Piece(new, n + 1) = Splitter!Piece(line, n + 1) \/ c = Splitter!Mark
  BY <1>1, <1>2, PieceStays
<1>12. SamePieces(line, new, Splitter!Separators(line))
  BY <1>1, SeparatorsStay
<1>9. Splitter!Separators(new) = IF c = Splitter!Space /\ ~ Splitter!Quoted(line, n + 1)
                             THEN Splitter!Separators(line) \cup {n + 1} ELSE Splitter!Separators(line)
  BY <1>1, SeparatorsStay
<1>10. ASSUME ~ (c = Splitter!Space /\ ~ q) PROVE Splitter!Arguments(new, Splitter!Separators(new)) = r
  <2>1. Splitter!Separators(new) = Splitter!Separators(line)
    BY <1>3, <1>9, <1>10
  <2>2. Splitter!Arguments(new, Splitter!Separators(line)) = Splitter!Arguments(line, Splitter!Separators(line))
    BY <1>12, SameArguments
  <2> QED
    BY <1>3, <2>1, <2>2
<1>11. ASSUME c = Splitter!Space /\ ~ q
       PROVE  Splitter!Arguments(new, Splitter!Separators(new)) =
                IF a \o Splitter!Buffered(b) = <<>> THEN r ELSE Append(r, a \o Splitter!Buffered(b))
  <2>1. WithLast(line, Splitter!Separators(line), Splitter!Separators(new))
    BY <1>3, <1>9, <1>11 DEF WithLast
  <2> DEFINE whole == a \o Splitter!Buffered(b)
             S == Splitter!Separators(line)
             E == Splitter!Separators(new)
  <2>2. whole = Splitter!Piece(line, Len(line) + 1)
    BY <1>1, <1>3, PieceOfEnd
  <2>3. whole = Splitter!Piece(new, Len(line) + 1)
    <3>1. c # Splitter!Mark
      BY <1>11, Distinct
    <3>2. Splitter!Piece(new, n + 1) = Splitter!Piece(line, n + 1)
      BY <1>8, <3>1
    <3> QED
      BY <1>0, <2>2, <3>2
  <2> HIDE DEF whole, S, E
  <2>4. SamePieces(line, new, S) /\ WithLast(line, S, E)
    BY <1>12, <2>1 DEF S, E
  <2>5. Splitter!Arguments(new, E) = IF whole = <<>> THEN Splitter!Arguments(line, S) ELSE Append(Splitter!Arguments(line, S), whole)
    BY <2>2, <2>3, <2>4, OneArgumentMore
  <2> QED
    BY <1>3, <2>5 DEF whole, S, E
<1> QED
  BY <1>1, <1>2, <1>7, <1>8, <1>10, <1>11

\* The variables are of the line that was read, and at its end they are the arguments.
SplitInv ==
  /\ done \in BOOLEAN
  /\ IF done THEN Splitter!SplitsLikeMsdn ELSE Reads(cmdline, backslashes, in_quotes, arg, args)

\* An empty line has no arguments.
LEMMA SplitStarts == Splitter!Init => SplitInv
<1> SUFFICES ASSUME Splitter!Init PROVE SplitInv
  OBVIOUS
<1>1. /\ cmdline = <<>> /\ in_quotes = FALSE /\ backslashes = 0 /\ arg = <<>> /\ args = <<>>
      /\ done = FALSE
  BY DEF Splitter!Init
<1> DEFINE none == <<>>
<1>2. none \in Seq(Chars) /\ Len(none) = 0 /\ DOMAIN none = {}
  BY EmptySeq
<1> HIDE DEF none
<1>3. Trail(none, 1, 0) /\ \A i \in 1 .. 1 : \E k : Trail(none, i, k)
  <2>1. 1 - 0 = 1 /\ 1 - 1 = 0 /\ 0 \in 0 .. 0 /\ 1 .. 0 = {} /\ \A i \in 1 .. 1 : i = 1
    OBVIOUS
  <2>2. Trail(none, 1, 0)
    BY <2>1 DEF Trail, Splitter!Run
  <2> QED
    BY <2>1, <2>2
<1>4. Splitter!Quoted(none, 1) = FALSE
  <2>1. {k \in 1 .. 1 - 1 : Splitter!Delimits(none, k)} = {}
    OBVIOUS
  <2>2. Cardinality({}) = 0 /\ Splitter!Cardinality({}) = Cardinality({})
    BY FS_EmptySet, SamePick
  <2> QED
    BY <2>1, <2>2 DEF Splitter!Quoted
<1>5. Pick(none, Settled(none, 0, 0)) = <<>>
  <2>1. Settled(none, 0, 0) = {}
    BY DEF Settled
  <2> QED
    BY <2>1, PickNothing
<1>6. Splitter!Arguments(none, Splitter!Separators(none)) = <<>>
  <2>1. Full(none, Splitter!Separators(none)) = {}
    BY <1>2 DEF Full, Splitter!Separators
  <2> QED
    BY <2>1, ArgumentsIs, PickNothing
<1>7. Reads(none, 0, FALSE, <<>>, <<>>)
  <2>1. Len(none) + 1 = 1
    BY <1>2
  <2> QED
    BY <1>2, <1>3, <1>4, <1>5, <1>6, <2>1 DEF Reads
<1> QED
  BY <1>1, <1>7 DEF SplitInv, none

\* A backslash is buffered.
LEMMA BufferReads ==
  ASSUME NEW line, NEW b, NEW q, NEW a, NEW r, NEW c, NEW n, NEW new,
         Comes(line, b, q, a, r, c, n, new), c = Splitter!Backslash
  PROVE  Reads(new, b + 1, q, a, r)
<1>1. /\ q \in BOOLEAN /\ a = Pick(line, Settled(line, n, b))
  BY DEF Comes, Reads, Splitter!Quoted
<1>2. /\ Longer(line, c, n, new, b) /\ Splitter!Arguments(new, Splitter!Separators(new)) = r
      /\ Reads(new, b + 1, q # (c = Splitter!Mark /\ b % 2 = 0), Pick(new, Settled(new, n + 1, b + 1)),
               Splitter!Arguments(new, Splitter!Separators(new)))
  BY ReadsMoves, Distinct
<1>3. Pick(new, Settled(new, n + 1, b + 1)) = a
  BY <1>1, <1>2, BufferSettles
<1>4. (q # (c = Splitter!Mark /\ b % 2 = 0)) = q
  BY <1>1, Distinct
<1> QED
  BY <1>2, <1>3, <1>4

\* A mark takes half of the buffer, and is a character or turns the quotes.
LEMMA QuoteReads ==
  ASSUME NEW line, NEW b, NEW q, NEW a, NEW r, NEW c, NEW n, NEW new,
         Comes(line, b, q, a, r, c, n, new), c = Splitter!Mark
  PROVE  Reads(new, 0, q # (b % 2 = 0),
               a \o Splitter!Buffered(b \div 2) \o (IF b % 2 = 1 THEN <<Splitter!Mark>> ELSE <<>>), r)
<1>1. /\ q \in BOOLEAN /\ a = Pick(line, Settled(line, n, b))
  BY DEF Comes, Reads, Splitter!Quoted
<1>2. /\ Longer(line, c, n, new, b) /\ Splitter!Arguments(new, Splitter!Separators(new)) = r
      /\ Reads(new, 0, q # (c = Splitter!Mark /\ b % 2 = 0), Pick(new, Settled(new, n + 1, 0)),
               Splitter!Arguments(new, Splitter!Separators(new)))
  BY ReadsMoves, Distinct
<1>3. Pick(new, Settled(new, n + 1, 0)) =
        a \o Splitter!Buffered(b \div 2) \o (IF b % 2 = 1 THEN <<Splitter!Mark>> ELSE <<>>)
  <2>1. Pick(new, Settled(new, n + 1, 0)) =
          Pick(line, Settled(line, n, b)) \o Splitter!Buffered(b \div 2)
            \o (IF b % 2 = 1 THEN <<Splitter!Mark>> ELSE <<>>)
    BY <1>2, QuoteSettles
  <2> QED
    BY <1>1, <2>1
<1>4. (q # (c = Splitter!Mark /\ b % 2 = 0)) = (q # (b % 2 = 0))
  OBVIOUS
<1> QED
  BY <1>2, <1>3, <1>4

\* A space that separates ends the argument.
LEMMA SeparateReads ==
  ASSUME NEW line, NEW b, NEW q, NEW a, NEW r, NEW c, NEW n, NEW new,
         Comes(line, b, q, a, r, c, n, new), c = Splitter!Space, ~ q
  PROVE  Reads(new, 0, q, <<>>,
               IF a \o Splitter!Buffered(b) = <<>> THEN r ELSE Append(r, a \o Splitter!Buffered(b)))
<1>1. /\ q \in BOOLEAN /\ ~ Splitter!Quoted(line, n + 1)
  BY DEF Comes, Reads, Splitter!Quoted
<1>2. /\ Longer(line, c, n, new, b)
      /\ Splitter!Arguments(new, Splitter!Separators(new)) =
           IF a \o Splitter!Buffered(b) = <<>> THEN r ELSE Append(r, a \o Splitter!Buffered(b))
      /\ Reads(new, 0, q # (c = Splitter!Mark /\ b % 2 = 0), Pick(new, Settled(new, n + 1, 0)),
               Splitter!Arguments(new, Splitter!Separators(new)))
  BY ReadsMoves, Distinct
<1>3. Pick(new, Settled(new, n + 1, 0)) = <<>>
  BY <1>1, <1>2, SeparateSettles
<1>4. (q # (c = Splitter!Mark /\ b % 2 = 0)) = q
  BY <1>1, Distinct
<1> QED
  BY <1>2, <1>3, <1>4

\* Any other character is added, behind the buffer.
LEMMA AddReads ==
  ASSUME NEW line, NEW b, NEW q, NEW a, NEW r, NEW c, NEW n, NEW new,
         Comes(line, b, q, a, r, c, n, new),
         c # Splitter!Backslash, c # Splitter!Mark, c # Splitter!Space \/ q
  PROVE  Reads(new, 0, q, Append(a \o Splitter!Buffered(b), c), r)
<1>1. /\ q \in BOOLEAN /\ a = Pick(line, Settled(line, n, b)) /\ q = Splitter!Quoted(line, n + 1)
  BY DEF Comes, Reads, Splitter!Quoted
<1>2. /\ Longer(line, c, n, new, b) /\ Splitter!Arguments(new, Splitter!Separators(new)) = r
      /\ Reads(new, 0, q # (c = Splitter!Mark /\ b % 2 = 0), Pick(new, Settled(new, n + 1, 0)),
               Splitter!Arguments(new, Splitter!Separators(new)))
  BY ReadsMoves
<1>3. Pick(new, Settled(new, n + 1, 0)) = Append(a \o Splitter!Buffered(b), c)
  BY <1>1, <1>2, AddSettles
<1>4. (q # (c = Splitter!Mark /\ b % 2 = 0)) = q
  BY <1>1
<1> QED
  BY <1>2, <1>3, <1>4

\* At the end of the line the buffer is added if there is an argument.
LEMMA EndReads ==
  ASSUME NEW line, NEW b, NEW q, NEW a, NEW r, Reads(line, b, q, a, r)
  PROVE  Splitter!Arguments(line, Splitter!Separators(line) \cup
                             IF ~ Splitter!OnlyBackslashes(line) THEN {Len(line) + 1} ELSE {})
           = IF a = <<>> THEN r ELSE Append(r, a \o Splitter!Buffered(b))
<1> DEFINE n == Len(line)
           new == Append(line, Splitter!Mark)
           p == Splitter!Piece(line, n + 1)
           S == Splitter!Separators(line)
           E == S \cup {n + 1}
           rest == Splitter!Buffered(b)
<1>1. Longer(line, Splitter!Mark, n, new, b)
  BY Distinct, ReadsLonger
<1> HIDE DEF new
<1>2. /\ n \in Nat /\ b \in 0 .. n /\ line \in Seq(Chars) /\ Len(line) = n
  BY <1>1, LongerIs
<1>3. /\ a = Pick(line, Settled(line, n, b)) /\ r = Splitter!Arguments(line, S) /\ Trail(line, n + 1, b)
  BY DEF Reads
<1>4. p = a \o rest
  BY <1>1, <1>3, PieceOfEnd
<1>5. a \in Seq(Chars)
  <2>1. Settled(line, n, b) \in SUBSET (1 .. n)
    BY <1>2 DEF Settled
  <2> QED
    BY <1>2, <1>3, <2>1, PickTakes
<1>6. rest \in Seq(Chars) /\ Len(rest) = b
  BY <1>2, BufferedIs
<1>7. Splitter!OnlyBackslashes(line) <=> b > 0 /\ Len(p) = b
  <2>1. Splitter!Leading(line, n + 1) = b
    BY <1>2, <1>3, LeadingIs
  <2> QED
    BY <2>1 DEF Splitter!OnlyBackslashes
<1> HIDE DEF p, rest, n
<1>8. Len(p) = Len(a) + b /\ Len(a) \in Nat /\ (p = <<>> <=> Len(p) = 0) /\ (a = <<>> <=> Len(a) = 0)
  <2>1. p \in Seq(Chars) /\ Len(p) = Len(a) + Len(rest)
    BY <1>4, <1>5, <1>6, ConcatProperties
  <2> QED
    BY <1>5, <1>6, <2>1, LenProperties, EmptySeq
<1>9. SamePieces(line, line, S) /\ WithLast(line, S, E)
  <2>1. SamePieces(line, new, S)
    BY <1>1, SeparatorsStay
  <2> QED
    BY <1>2, <2>1 DEF SamePieces, WithLast, n
<1> HIDE DEF S, E
<1>10. Splitter!Arguments(line, E) = IF p = <<>> THEN Splitter!Arguments(line, S) ELSE Append(Splitter!Arguments(line, S), p)
  <2>1. p = Splitter!Piece(line, Len(line) + 1)
    BY DEF p, n
  <2> HIDE DEF p
  <2> QED
    BY <1>9, <2>1, OneArgumentMore
<1>11. CASE a # <<>>
  <2>1. ~ Splitter!OnlyBackslashes(line) /\ p # <<>>
    BY <1>2, <1>7, <1>8, <1>11
  <2> QED
    BY <1>3, <1>4, <1>10, <1>11, <2>1 DEF E, rest, n, S
<1>12. CASE a = <<>> /\ b = 0
  <2>1. ~ Splitter!OnlyBackslashes(line) /\ p = <<>>
    BY <1>2, <1>7, <1>8, <1>12
  <2> QED
    BY <1>3, <1>10, <1>12, <2>1 DEF E, n, S
<1>13. CASE a = <<>> /\ b # 0
  <2>1. Splitter!OnlyBackslashes(line)
    BY <1>2, <1>7, <1>8, <1>13
  <2>2. S \cup {} = S
    OBVIOUS
  <2> QED
    BY <1>3, <1>13, <2>1, <2>2 DEF S
<1> QED
  BY <1>11, <1>12, <1>13

\* Each branch of the loop does what the new character means.
LEMMA ReadKeepsSplit ==
  ASSUME SplitInv, Splitter!Buffer \/ Splitter!Quote \/ Splitter!Separate \/ \E c \in Letters \cup {Splitter!Space} : Splitter!Add(c)
  PROVE  SplitInv'
<1>1. Reads(cmdline, backslashes, in_quotes, arg, args) /\ done = FALSE /\ done' = FALSE
  BY DEF SplitInv, Splitter!Buffer, Splitter!Quote, Splitter!Separate, Splitter!Add, Splitter!Read
<1>2. SUFFICES Reads(cmdline', backslashes', in_quotes', arg', args')
  BY <1>1 DEF SplitInv
<1> DEFINE n == Len(cmdline)
<1>3. ASSUME NEW c \in Chars, cmdline' = Append(cmdline, c)
      PROVE  Comes(cmdline, backslashes, in_quotes, arg, args, c, n, cmdline')
  BY <1>1, <1>3 DEF Comes
<1> HIDE DEF n
<1>4. CASE Splitter!Buffer
  <2>1. /\ cmdline' = Append(cmdline, Splitter!Backslash) /\ backslashes' = backslashes + 1
        /\ in_quotes' = in_quotes /\ arg' = arg /\ args' = args
    BY <1>4 DEF Splitter!Buffer, Splitter!Read
  <2>2. Reads(cmdline', backslashes + 1, in_quotes, arg, args)
    BY <1>3, <2>1, Distinct, BufferReads
  <2> QED
    BY <2>1, <2>2
<1>5. CASE Splitter!Quote
  <2>1. /\ cmdline' = Append(cmdline, Splitter!Mark) /\ backslashes' = 0
        /\ in_quotes' = (in_quotes # (backslashes % 2 = 0))
        /\ arg' = arg \o Splitter!Buffered(backslashes \div 2)
                    \o (IF backslashes % 2 = 1 THEN <<Splitter!Mark>> ELSE <<>>)
        /\ args' = args
    BY <1>5 DEF Splitter!Quote, Splitter!Read
  <2>2. Comes(cmdline, backslashes, in_quotes, arg, args, Splitter!Mark, n, cmdline')
    BY <1>3, <2>1, Distinct
  <2>3. Reads(cmdline', 0, in_quotes # (backslashes % 2 = 0),
              arg \o Splitter!Buffered(backslashes \div 2)
                \o (IF backslashes % 2 = 1 THEN <<Splitter!Mark>> ELSE <<>>), args)
    BY <2>2, QuoteReads
  <2> QED
    BY <2>1, <2>3
<1>6. CASE Splitter!Separate
  <2>1. /\ cmdline' = Append(cmdline, Splitter!Space) /\ backslashes' = 0 /\ ~ in_quotes
        /\ in_quotes' = in_quotes /\ arg' = <<>>
        /\ args' = IF arg \o Splitter!Buffered(backslashes) = <<>> THEN args
                   ELSE Append(args, arg \o Splitter!Buffered(backslashes))
    BY <1>6 DEF Splitter!Separate, Splitter!Read
  <2>2. Comes(cmdline, backslashes, in_quotes, arg, args, Splitter!Space, n, cmdline')
    BY <1>3, <2>1 DEF Chars
  <2>3. Reads(cmdline', 0, in_quotes, <<>>,
              IF arg \o Splitter!Buffered(backslashes) = <<>> THEN args
              ELSE Append(args, arg \o Splitter!Buffered(backslashes)))
    BY <2>1, <2>2, SeparateReads
  <2> QED
    BY <2>1, <2>3
<1>7. CASE \E c \in Letters \cup {Splitter!Space} : Splitter!Add(c)
  <2>1. PICK c \in Letters \cup {Splitter!Space} : Splitter!Add(c)
    BY <1>7
  <2>2. /\ cmdline' = Append(cmdline, c) /\ backslashes' = 0 /\ in_quotes' = in_quotes
        /\ arg' = Append(arg \o Splitter!Buffered(backslashes), c) /\ args' = args
        /\ c # Splitter!Backslash /\ c # Splitter!Mark /\ (c # Splitter!Space \/ in_quotes)
    BY <2>1 DEF Splitter!Add, Splitter!Read
  <2>3. c \in Chars
    BY DEF Chars
  <2>4. Reads(cmdline', 0, in_quotes, Append(arg \o Splitter!Buffered(backslashes), c), args)
    BY <1>3, <2>2, <2>3, AddReads
  <2> QED
    BY <2>2, <2>4
<1> QED
  BY <1>4, <1>5, <1>6, <1>7

\* And so does the end of the line.
LEMMA EndKeepsSplit == ASSUME SplitInv, Splitter!EndOfLine PROVE SplitInv'
<1>1. /\ Reads(cmdline, backslashes, in_quotes, arg, args) /\ done' = TRUE
      /\ cmdline' = cmdline
      /\ args' = IF arg = <<>> THEN args ELSE Append(args, arg \o Splitter!Buffered(backslashes))
  BY DEF SplitInv, Splitter!EndOfLine
<1>2. Splitter!Arguments(cmdline, Splitter!Separators(cmdline) \cup
                             IF ~ Splitter!OnlyBackslashes(cmdline) THEN {Len(cmdline) + 1} ELSE {})
        = IF arg = <<>> THEN args ELSE Append(args, arg \o Splitter!Buffered(backslashes))
  BY <1>1, EndReads
<1>3. ~ Splitter!OnlyBackslashes(cmdline) =>
        args' = Splitter!Arguments(cmdline, Splitter!Separators(cmdline) \cup {Len(cmdline) + 1})
  BY <1>1, <1>2
<1>4. Splitter!SplitsLikeMsdn'
  BY <1>1, <1>3 DEF Splitter!SplitsLikeMsdn
<1> QED
  BY <1>1, <1>4 DEF SplitInv

\* The arguments, so far and at the end of the line, are those of the rules of MSDN, for any
\* line whose last argument is not made of backslashes alone (iwyu_tool.py:152-198).
THEOREM LinesSplit == TextSpec => []SplitsLikeMsdn
<1>1. SplitInv /\ [TextNext]_<<splitter, formatter>> => SplitInv'
  <2> SUFFICES ASSUME SplitInv, [TextNext]_<<splitter, formatter>> PROVE SplitInv'
    OBVIOUS
  <2>1. CASE Split
    <3>1. \/ Splitter!Buffer \/ Splitter!Quote \/ Splitter!Separate \/ \E c \in Letters \cup {Splitter!Space} : Splitter!Add(c)
          \/ Splitter!EndOfLine
      BY <2>1 DEF Split, Splitter!Next
    <3> QED
      BY <3>1, ReadKeepsSplit, EndKeepsSplit
  <2>2. CASE Format \/ UNCHANGED <<splitter, formatter>>
    <3>1. UNCHANGED <<cmdline, in_quotes, backslashes, arg, args, done>>
      BY <2>2 DEF Format, splitter
    <3> QED
      BY <3>1 DEF SplitInv, Splitter!SplitsLikeMsdn
  <2> QED
    BY <2>1, <2>2 DEF TextNext
<1>2. TextInit => SplitInv
  BY SplitStarts DEF TextInit
<1>3. SplitInv => SplitsLikeMsdn
  <2>1. ASSUME SplitInv, ~ done PROVE SplitsLikeMsdn
    <3>1. args = Splitter!Arguments(cmdline, Splitter!Separators(cmdline))
      BY <2>1 DEF SplitInv, Reads
    <3> QED
      BY <2>1, <3>1 DEF SplitsLikeMsdn, Splitter!SplitsLikeMsdn
  <2> QED
    BY <2>1 DEF SplitInv, SplitsLikeMsdn
<1> QED
  BY <1>1, <1>2, <1>3, PTL DEF TextSpec
=============================================================================
