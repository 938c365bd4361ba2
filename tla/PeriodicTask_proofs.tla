------------------------ MODULE PeriodicTask_proofs ------------------------
(* Proofs about PeriodicTask, for any number of tasks. *)
EXTENDS PeriodicTask, TLAPS

USE DEF Task

Past == {"finish", "return", "exited"}

\* The phases of main and of the construction agree.
Phases ==
    /\ main # "building" => \A t \in Task : ctor[t] = Built
    /\ endTask <=> main \in {"joining", "exiting", "exited"}
    /\ main \in {"exiting", "exited"} => joined = N
    /\ main = "joining" => joined < N
    /\ main \in {"building", "sleeping"} => joined = 0
    /\ main \notin {"exiting", "exited"} => \A t \in Task : dtor[t] = "alive"
    /\ \A t \in Task : ctor[t] < Started <=> pc[t] = "none"

\* What a worker that has left its loop, or announced it, implies.
Stopping ==
    /\ \A t \in Task : pc[t] \in Past => endTask
    /\ \A t \in Task : (ctor[t] >= DoneSet /\ done[t]) => pc[t] \in {"return", "exited"}
    /\ \A t \in 1 .. joined : done[t]

\* A cycle made after the stop flag is the one decided on before it.
Cycles ==
    \A t \in Task : /\ late[t] \in {0, 1}
                    /\ ~ endTask => late[t] = 0
                    /\ pc[t] \in {"assign", "name", "enter", "sleep", "read"} => late[t] = 0

\* The inductive invariant.
Inv == TypeOK /\ Phases /\ Stopping /\ Cycles

\* The initial states satisfy it.
LEMMA InitInv == Init => Inv
<1> SUFFICES ASSUME Init PROVE Inv
  OBVIOUS
<1> USE NAssumption DEF Init, Past, Started, DoneSet, Built
<1>1. TypeOK
  <2>1. ctor \in [Task -> 0 .. Built] /\ joined \in 0 .. N /\ late \in [Task -> Nat]
    OBVIOUS
  <2>2. /\ tcb \in [Task -> {"raw", "null", "set"}] /\ dtor \in [Task -> {"alive", "joining", "gone"}]
        /\ pc \in [Task -> {"none", "assign", "name", "enter", "check", "sleep",
                            "read", "process", "write", "finish", "return", "exited"}]
    OBVIOUS
  <2>3. done \in [Task -> BOOLEAN] /\ endTask \in BOOLEAN /\ crashed \in BOOLEAN
    OBVIOUS
  <2> QED
    BY <2>1, <2>2, <2>3 DEF TypeOK
<1>2. Phases
  BY DEF Phases
<1>3. Stopping
  BY DEF Stopping
<1>4. Cycles
  BY DEF Cycles
<1> QED
  BY <1>1, <1>2, <1>3, <1>4 DEF Inv

\* A step of main preserves it: by action.
LEMMA MainStep ==
    ASSUME Inv, MainThread
    PROVE  Inv'
<1> USE NAssumption DEF Past, Started, DoneSet, TcbNull, Built
<1>1. ASSUME NEW t \in Task, Construct(t) PROVE Inv'
  <2>0. /\ ctor' = [ctor EXCEPT ![t] = @ + 1] /\ ctor'[t] = ctor[t] + 1 /\ ctor'[t] \in 1 .. Built
        /\ ctor[t] \in 0 .. Built /\ main = "building" /\ endTask = FALSE /\ endTask' = FALSE
        /\ main' \in {"building", "sleeping"}
    <3>1. ctor[t] \in 0 .. Built /\ ctor[t] < Built
      BY <1>1 DEF Inv, TypeOK, Construct, UnderConstruction
    <3>2. ctor' = [ctor EXCEPT ![t] = @ + 1] /\ main = "building" /\ endTask' = endTask
          /\ main' \in {"building", "sleeping"}
      BY <1>1 DEF Construct, UnderConstruction
    <3>3. ctor'[t] = ctor[t] + 1
      BY <3>2 DEF Inv, TypeOK
    <3>4. endTask = FALSE
      BY <3>2 DEF Inv, Phases, TypeOK
    <3> QED
      BY <3>1, <3>2, <3>3, <3>4
  <2>1. TypeOK'
    <3>1. ctor' \in [Task -> 0 .. Built] /\ main' \in {"building", "sleeping"}
      BY <2>0 DEF Inv, TypeOK
    <3>2. pc' \in [Task -> {"none", "assign", "name", "enter", "check", "sleep",
                            "read", "process", "write", "finish", "return", "exited"}]
      BY <1>1 DEF Inv, TypeOK, Construct, UnderConstruction
    <3>3. tcb' \in [Task -> {"raw", "null", "set"}]
      BY <1>1 DEF Inv, TypeOK, Construct, UnderConstruction
    <3>4. done' \in [Task -> BOOLEAN]
      BY <1>1 DEF Inv, TypeOK, Construct, UnderConstruction
    <3> QED
      BY <1>1, <3>1, <3>2, <3>3, <3>4 DEF Inv, TypeOK, Construct, UnderConstruction
  <2>2. Phases'
    <3>1. main' # "building" => \A u \in Task : ctor'[u] = Built
      <4> SUFFICES ASSUME main' # "building", NEW u \in Task PROVE ctor'[u] = Built
        OBVIOUS
      <4>1. t = N /\ ctor'[t] = Built
        BY <1>1, <2>0 DEF Construct, UnderConstruction
      <4>2. CASE u = t
        BY <4>1, <4>2
      <4>3. CASE u # t
        <5>1. u \in 1 .. (t - 1)
          BY <4>1, <4>3
        <5> QED
          BY <1>1, <2>0, <4>3, <5>1 DEF Construct, UnderConstruction, Inv, TypeOK
      <4> QED
        BY <4>2, <4>3
    <3>2. \A u \in Task : ctor'[u] < Started <=> pc'[u] = "none"
      <4> SUFFICES ASSUME NEW u \in Task PROVE ctor'[u] < Started <=> pc'[u] = "none"
        OBVIOUS
      <4>1. CASE u # t
        BY <1>1, <2>0, <4>1 DEF Construct, UnderConstruction, Inv, TypeOK, Phases
      <4>2. CASE u = t
        <5>1. ctor'[t] >= Started
          BY <2>0
        <5>2. CASE ctor'[t] = Started
          BY <1>1, <4>2, <5>1, <5>2 DEF Construct, UnderConstruction, Inv, TypeOK
        <5>3. CASE ctor'[t] # Started
          <6>1. pc' = pc /\ ~ (ctor[t] < Started)
            BY <1>1, <2>0, <5>3 DEF Construct, UnderConstruction
          <6> QED
            BY <2>0, <4>2, <5>1, <6>1 DEF Inv, Phases
        <5> QED
          BY <5>2, <5>3
      <4> QED
        BY <4>1, <4>2
    <3> QED
      BY <1>1, <2>0, <3>1, <3>2 DEF Inv, Phases, Construct, UnderConstruction
  <2>3. Stopping'
    <3>1. joined' = 0
      BY <1>1, <2>0 DEF Inv, Phases, Construct, UnderConstruction
    <3>2. \A u \in Task : pc'[u] \notin Past
      BY <1>1, <2>0 DEF Inv, TypeOK, Stopping, Construct, UnderConstruction
    <3>3. ASSUME NEW u \in Task, ctor'[u] >= DoneSet PROVE ~ done'[u]
      <4>1. ctor[u] >= DoneSet => ~ done[u]
        BY <2>0 DEF Inv, Stopping
      <4>2. CASE u = t
        <5>1. done' = IF ctor'[t] = DoneSet THEN [done EXCEPT ![t] = FALSE] ELSE done
          BY <1>1 DEF Construct, UnderConstruction
        <5>2. done \in [Task -> BOOLEAN]
          BY DEF Inv, TypeOK
        <5>3. ctor[t] \in Int
          BY <2>0
        <5> QED
          BY <2>0, <3>3, <4>1, <4>2, <5>1, <5>2, <5>3
      <4>3. CASE u # t
        BY <1>1, <2>0, <3>3, <4>1, <4>3 DEF Construct, UnderConstruction, Inv, TypeOK
      <4> QED
        BY <4>2, <4>3
    <3> QED
      BY <3>1, <3>2, <3>3 DEF Stopping
  <2>4. Cycles'
    BY <1>1 DEF Inv, TypeOK, Phases, Cycles, Construct, UnderConstruction
  <2> QED
    BY <2>1, <2>2, <2>3, <2>4 DEF Inv
<1>2. CASE StoreEnd
  BY <1>2 DEF Inv, TypeOK, Phases, Stopping, Cycles, StoreEnd
<1>3. CASE Join
  BY <1>3 DEF Inv, TypeOK, Phases, Stopping, Cycles, Join
<1>4. ASSUME NEW t \in Task, DropCallbacks(t) PROVE Inv'
  BY <1>4 DEF Inv, TypeOK, Phases, Stopping, Cycles, DropCallbacks
<1>5. ASSUME NEW t \in Task, JoinThread(t) PROVE Inv'
  BY <1>5 DEF Inv, TypeOK, Phases, Stopping, Cycles, JoinThread
<1> QED
  BY <1>1, <1>2, <1>3, <1>4, <1>5 DEF MainThread

\* A step of a worker preserves it: by action.
LEMMA WorkerStep ==
    ASSUME Inv, NEW t \in Task, Worker(t)
    PROVE  Inv'
<1> USE NAssumption DEF Past, Started, DoneSet, TcbNull, Built, At, UsesMembers
<1>1. CASE AssignControlBlock(t)
  <2>1. TypeOK'
    BY <1>1 DEF Inv, TypeOK, AssignControlBlock
  <2>2. Phases'
    BY <1>1 DEF Inv, TypeOK, Phases, AssignControlBlock
  <2>3. Stopping'
    BY <1>1 DEF Inv, TypeOK, Stopping, AssignControlBlock
  <2>4. Cycles'
    BY <1>1 DEF Inv, TypeOK, Cycles, AssignControlBlock
  <2> QED
    BY <2>1, <2>2, <2>3, <2>4 DEF Inv
<1>2. CASE SetName(t)
  BY <1>2 DEF Inv, TypeOK, Phases, Stopping, Cycles, SetName
<1>3. CASE EnterRoutine(t)
  BY <1>3 DEF Inv, TypeOK, Phases, Stopping, Cycles, EnterRoutine
<1>4. CASE CheckEnd(t)
  BY <1>4 DEF Inv, TypeOK, Phases, Stopping, Cycles, CheckEnd
<1>5. CASE Sleep(t)
  BY <1>5 DEF Inv, TypeOK, Phases, Stopping, Cycles, Sleep
<1>6. CASE Read(t)
  <2>1. TypeOK'
    BY <1>6 DEF Inv, TypeOK, Read
  <2>2. Phases'
    BY <1>6 DEF Inv, TypeOK, Phases, Read
  <2>3. Stopping'
    BY <1>6 DEF Inv, TypeOK, Stopping, Read
  <2>4. Cycles'
    BY <1>6 DEF Inv, TypeOK, Cycles, Read
  <2> QED
    BY <2>1, <2>2, <2>3, <2>4 DEF Inv
<1>7. CASE ProcessData(t)
  <2>1. TypeOK'
    BY <1>7 DEF Inv, TypeOK, ProcessData
  <2>2. Phases'
    BY <1>7 DEF Inv, TypeOK, Phases, ProcessData
  <2>3. Stopping'
    BY <1>7 DEF Inv, TypeOK, Stopping, ProcessData
  <2>4. Cycles'
    BY <1>7 DEF Inv, TypeOK, Cycles, ProcessData
  <2> QED
    BY <2>1, <2>2, <2>3, <2>4 DEF Inv
<1>8. CASE Write(t)
  <2>1. TypeOK'
    BY <1>8 DEF Inv, TypeOK, Write
  <2>2. Phases'
    BY <1>8 DEF Inv, TypeOK, Phases, Write
  <2>3. Stopping'
    BY <1>8 DEF Inv, TypeOK, Stopping, Write
  <2>4. Cycles'
    BY <1>8 DEF Inv, TypeOK, Cycles, Write
  <2> QED
    BY <2>1, <2>2, <2>3, <2>4 DEF Inv
<1>9. CASE Finish(t)
  BY <1>9 DEF Inv, TypeOK, Phases, Stopping, Cycles, Finish
<1>10. CASE Return(t)
  BY <1>10 DEF Inv, TypeOK, Phases, Stopping, Cycles, Return
<1> QED
  BY <1>1, <1>2, <1>3, <1>4, <1>5, <1>6, <1>7, <1>8, <1>9, <1>10 DEF Worker

\* The invariant is preserved by every step of the program.
LEMMA InvStep == Inv /\ [Next]_vars => Inv'
<1> SUFFICES ASSUME Inv, [Next]_vars PROVE Inv'
  OBVIOUS
<1>1. CASE UNCHANGED vars
  BY <1>1 DEF vars, Inv, TypeOK, Phases, Stopping, Cycles
<1> QED
  BY <1>1, MainStep, WorkerStep DEF Next, Ended

\* It holds throughout every run.
LEMMA InvHolds == Spec => []Inv
BY InitInv, InvStep, PTL DEF Spec

\* The model is well-typed for any number of tasks.
THEOREM TypeCorrect == Spec => []TypeOK
<1>1. Inv => TypeOK
  BY DEF Inv
<1> QED
  BY <1>1, InvHolds, PTL

\* A joined task makes no further cycle (PeriodicTask.h:97, 120-124).
THEOREM JoinedIsQuiescent == Spec => []JoinMeansQuiescent
<1>1. Inv => JoinMeansQuiescent
  <2> SUFFICES ASSUME Inv, NEW t \in 1 .. joined PROVE ~ InCycle(t)
    BY DEF JoinMeansQuiescent
  <2>1. t \in Task /\ ctor[t] = Built
    BY NAssumption DEF Inv, TypeOK, Phases, Stopping
  <2> QED
    BY <2>1 DEF Inv, Stopping, InCycle, Built, DoneSet
<1> QED
  BY <1>1, InvHolds, PTL

\* No worker uses its task after the destruction began (PeriodicTask.h:126-133).
THEOREM DestroyedIsQuiescent == Spec => []NoUseAfterDestroy
<1>1. Inv => NoUseAfterDestroy
  BY NAssumption DEF Inv, TypeOK, Phases, Stopping, NoUseAfterDestroy, Built, DoneSet
<1> QED
  BY <1>1, InvHolds, PTL

\* At most one cycle follows the stop flag (PeriodicTask.h:76).
THEOREM OneLateCycle == Spec => []AtMostOneLateCycle
<1>1. Inv => AtMostOneLateCycle
  BY DEF Inv, Cycles, AtMostOneLateCycle
<1> QED
  BY <1>1, InvHolds, PTL

\* Only a construction step could take `done` back, and none is left when a
\* worker announces it (PeriodicTask.h:97, 115).
THEOREM DoneNeverLost == Spec => DoneIsFinal
<1>1. ASSUME Inv, [Next]_vars, NEW t \in Task, pc[t] \in {"return", "exited"}, done[t]
      PROVE  done'[t]
  <2>1. main # "building"
    BY <1>1 DEF Inv, Phases, Stopping, Past
  <2>2. ASSUME NEW u \in Task, Construct(u) PROVE FALSE
    BY <2>1, <2>2 DEF Construct, UnderConstruction
  <2>3. CASE MainThread
    BY <1>1, <2>2, <2>3 DEF MainThread, StoreEnd, Join, DropCallbacks, JoinThread
  <2>4. ASSUME NEW u \in Task, Worker(u) PROVE done'[t]
    <3>1. CASE Finish(u)
      <4>1. done' = [done EXCEPT ![u] = TRUE]
        BY <3>1 DEF Finish
      <4>2. done \in [Task -> BOOLEAN]
        BY <1>1 DEF Inv, TypeOK
      <4>3. CASE u = t
        BY <4>1, <4>2, <4>3
      <4>4. CASE u # t
        BY <1>1, <4>1, <4>2, <4>4
      <4> QED
        BY <4>3, <4>4
    <3>2. CASE ~ Finish(u)
      BY <1>1, <2>4, <3>2 DEF Worker, AssignControlBlock, SetName, EnterRoutine,
            CheckEnd, Sleep, Read, ProcessData, Write, Return
    <3> QED
      BY <3>1, <3>2
  <2>5. CASE UNCHANGED vars
    BY <1>1, <2>5 DEF vars
  <2> QED
    BY <1>1, <2>3, <2>4, <2>5 DEF Next, Ended
<1>2. Inv /\ [Next]_vars
        => [\A t \in Task : (pc[t] \in {"return", "exited"} /\ done[t]) => done'[t]]_vars
  BY <1>1
<1> QED
  BY <1>2, InvHolds, PTL DEF Spec, DoneIsFinal

\* Every task is built and its worker in its loop, or past it.
AllLooping ==
    \A t \in Task : ctor[t] = Built /\ pc[t] \notin {"none", "assign", "name", "enter"}

\* A callback in the loop finds its members: they are built, and not yet destroyed.
LEMMA CallbackSafe ==
  ASSUME Inv, AllLooping, ~ crashed, NEW t \in Task,
         pc[t] \notin {"return", "exited"}, UsesMembers(t)
  PROVE  crashed' = crashed
<1>1. NoUseAfterDestroy
  BY NAssumption DEF Inv, TypeOK, Phases, Stopping, NoUseAfterDestroy, Built, DoneSet
<1>2. ctor[t] = Built /\ dtor[t] = "alive"
  BY <1>1 DEF AllLooping, NoUseAfterDestroy
<1>3. crashed' \in BOOLEAN /\ crashed \in BOOLEAN /\ ~ crashed'
  BY <1>2 DEF UsesMembers, Inv, TypeOK, Built
<1> QED
  BY <1>3

\* Once all tasks are in their loops the process crashes no more, whatever the
\* order of the stop, the joins and the destructors (PeriodicTask.h:67-133).
THEOREM LoopsAreSafe == Spec => OnlyStartupCrashes
<1>1. ASSUME Inv, [Next]_vars, AllLooping PROVE crashed' = crashed
  <2>1. ASSUME NEW t \in Task, Construct(t) \/ DropCallbacks(t) \/ JoinThread(t) \/ StoreEnd \/ Join
        PROVE  crashed' = crashed
    BY <2>1 DEF Construct, DropCallbacks, JoinThread, StoreEnd, Join
  <2>2. CASE MainThread
    BY <2>1, <2>2, NAssumption DEF MainThread
  <2>3. ASSUME NEW t \in Task, ~ crashed, Worker(t) PROVE crashed' = crashed
    <3>1. CASE AssignControlBlock(t) \/ SetName(t) \/ EnterRoutine(t)
      BY <1>1, <3>1 DEF AllLooping, AssignControlBlock, SetName, EnterRoutine, At
    <3>2. CASE Read(t) \/ ProcessData(t) \/ Write(t)
      <4>1. pc[t] \notin {"return", "exited"} /\ UsesMembers(t)
        BY <3>2 DEF Read, ProcessData, Write, At
      <4> QED
        BY <1>1, <2>3, <4>1, CallbackSafe
    <3>3. CASE CheckEnd(t) \/ Sleep(t) \/ Finish(t) \/ Return(t)
      BY <3>3 DEF CheckEnd, Sleep, Finish, Return
    <3> QED
      BY <2>3, <3>1, <3>2, <3>3 DEF Worker
  <2>4. CASE UNCHANGED vars
    BY <2>4 DEF vars
  <2> QED
    BY <1>1, <2>2, <2>3, <2>4 DEF Next, Ended
<1>2. Inv /\ [Next]_vars
        => [ (\A t \in Task : ctor[t] = Built /\ pc[t] \notin {"none", "assign", "name", "enter"})
               => crashed' = crashed ]_vars
  BY <1>1 DEF AllLooping
<1> QED
  BY <1>2, InvHolds, PTL DEF Spec, OnlyStartupCrashes

-----------------------------------------------------------------------------
(* The owner's view *)

Lives == [t \in Task |-> LifeOf(t)]

GroupVars == <<Lives, endTask, late>>

\* What the invariant says of the stages of a task's life.
LEMMA Stages ==
  ASSUME Inv, NEW t \in Task
  PROVE  /\ Lives[t] = LifeOf(t) /\ joined \in 0 .. N
         /\ main # "building" => pc[t] # "none"
         /\ main \notin {"exiting", "exited"} => dtor[t] = "alive"
         /\ main \in {"exiting", "exited"} => t <= joined
         /\ t <= joined => done[t] /\ pc[t] \in {"return", "exited"}
         /\ pc[t] \in Past => endTask
         /\ pc[t] \notin {"none", "return", "exited"} => LifeOf(t) = "running"
<1> USE NAssumption DEF Started, DoneSet, Built
<1>1. joined \in 0 .. N /\ Lives[t] = LifeOf(t) /\ ctor[t] \in 0 .. Built
  BY DEF Inv, TypeOK, Lives
<1>2. main # "building" => ctor[t] = Built /\ pc[t] # "none"
  BY <1>1 DEF Inv, Phases
<1>3. /\ main \notin {"exiting", "exited"} => dtor[t] = "alive"
      /\ main \in {"exiting", "exited"} => t <= joined
  BY <1>1 DEF Inv, Phases
<1>4. t <= joined => done[t] /\ pc[t] \in {"return", "exited"}
  <2> SUFFICES ASSUME t <= joined PROVE done[t] /\ pc[t] \in {"return", "exited"}
    OBVIOUS
  <2>1. done[t] /\ main # "building"
    BY <1>1 DEF Inv, Phases, Stopping
  <2> QED
    BY <1>2, <2>1 DEF Inv, Stopping
<1>5. pc[t] \in Past => endTask
  BY DEF Inv, Stopping
<1>6. pc[t] \notin {"none", "return", "exited"} => LifeOf(t) = "running"
  BY <1>3, <1>4 DEF LifeOf
<1> QED
  BY <1>1, <1>2, <1>3, <1>4, <1>5, <1>6

\* A step that leaves the other tasks alone changes one life at most.
LEMMA OneLife ==
  ASSUME NEW t \in Task, \A u \in Task : u # t => LifeOf(u)' = LifeOf(u)
  PROVE  Lives' = [Lives EXCEPT ![t] = LifeOf(t)']
BY DEF Lives

\* ... and a step that leaves them all alone changes none.
LEMMA SameLives ==
  ASSUME \A u \in Task : LifeOf(u)' = LifeOf(u)
  PROVE  Lives' = Lives
BY DEF Lives

\* A group begins with new tasks.
LEMMA GroupInit == Init => Group!Init
<1> SUFFICES ASSUME Init PROVE Group!Init
  OBVIOUS
<1>1. \A t \in Task : LifeOf(t) = "new"
  BY DEF Init, LifeOf
<1> QED
  BY <1>1 DEF Init, Group!Init, Group!Member

\* The first step of a construction starts the task, the others stutter.
LEMMA ConstructStarts ==
  ASSUME Inv, NEW t \in Task, Construct(t)
  PROVE  Group!Start(t) \/ UNCHANGED GroupVars
<1> USE DEF Started, Built
<1>1. main = "building" /\ joined = 0 /\ ~ endTask /\ endTask' = endTask /\ late' = late
      /\ joined' = joined /\ dtor' = dtor /\ ctor[t] \in 0 .. Built /\ ctor'[t] = ctor[t] + 1
      /\ \A u \in 1 .. (t - 1) : ctor[u] = Built
  BY DEF Inv, TypeOK, Phases, Construct, UnderConstruction
<1>2. CASE ctor[t] = 0
  <2>1. pc' = [pc EXCEPT ![t] = "assign"] /\ pc[t] = "none" /\ dtor[t] = "alive"
    BY <1>1, <1>2, Stages DEF Construct, Inv, Phases
  <2>2. LifeOf(t) = "new" /\ LifeOf(t)' = "running"
    BY <1>1, <2>1 DEF LifeOf, Inv, TypeOK
  <2>3. \A u \in Task : u # t => LifeOf(u)' = LifeOf(u)
    BY <1>1, <2>1 DEF LifeOf, Inv, TypeOK
  <2>4. Lives' = [Lives EXCEPT ![t] = "running"] /\ Lives[t] = "new"
    BY <2>2, <2>3, OneLife, Stages
  <2>5. \A u \in 1 .. (t - 1) : Lives[u] = "running"
    <3> SUFFICES ASSUME NEW u \in 1 .. (t - 1) PROVE Lives[u] = "running"
      OBVIOUS
    <3>1. u \in Task /\ ctor[u] = Built
      BY <1>1, NAssumption
    <3>2. pc[u] # "none" /\ pc[u] \notin {"return", "exited"}
      BY <1>1, <3>1, Stages DEF Inv, Phases, Past
    <3> QED
      BY <3>1, <3>2, Stages
  <2> QED
    BY <1>1, <2>4, <2>5 DEF Group!Start, Group!Becomes, Lives
<1>3. CASE ctor[t] # 0
  <2>1. pc' = pc
    BY <1>1, <1>3 DEF Construct
  <2>2. Lives' = Lives
    BY <1>1, <2>1, SameLives DEF LifeOf
  <2> QED
    BY <1>1, <2>2 DEF GroupVars
<1> QED
  BY <1>2, <1>3

\* When main sets the flag all tasks run.
LEMMA StoreEndStops == ASSUME Inv, StoreEnd PROVE Group!Stop
<1>1. main = "sleeping" /\ ~ endTask /\ endTask' /\ endTask' = TRUE /\ late' = late /\ pc' = pc
      /\ joined' = joined /\ dtor' = dtor
  BY DEF StoreEnd, Inv, Phases
<1>2. \A t \in Task : Lives[t] = "running"
  BY <1>1, Stages DEF Past
<1>3. Lives' = Lives
  BY <1>1, SameLives DEF LifeOf
<1> QED
  BY <1>1, <1>2, <1>3 DEF Group!Stop, Group!Member, Lives

\* join() on the next task finds it ended.
LEMMA JoinJoins == ASSUME Inv, Join PROVE \E t \in Task : Group!Join(t)
<1>1. main = "joining" /\ done[joined + 1] /\ joined' = joined + 1 /\ endTask' = endTask
      /\ late' = late /\ pc' = pc /\ dtor' = dtor /\ joined < N /\ joined \in 0 .. N
  BY DEF Join, Inv, Phases, TypeOK
<1>2. PICK t \in Task : t = joined + 1
  BY <1>1, NAssumption
<1>3. /\ ~ (t <= joined) /\ t <= joined'
      /\ \A u \in Task : u # t => (u <= joined' <=> u <= joined)
      /\ \A u \in 1 .. (t - 1) : u \in Task /\ u <= joined
  <2>1. t \in Int /\ N \in Int /\ joined \in Int /\ t <= N /\ joined' = t
    BY <1>1, <1>2, NAssumption
  <2> QED
    BY <1>2, <2>1
<1>4. pc[t] \in {"return", "exited"}
  <2>1. ctor[t] = Built /\ done[t]
    BY <1>1, <1>2 DEF Inv, Phases
  <2> QED
    BY <2>1 DEF Inv, Stopping, Built, DoneSet
<1>5. \A u \in Task : dtor[u] = "alive"
  BY <1>1, Stages
<1>6. LifeOf(t) = "ended" /\ LifeOf(t)' = "joined"
  BY <1>1, <1>3, <1>4, <1>5 DEF LifeOf
<1>7. \A u \in Task : u # t => LifeOf(u)' = LifeOf(u)
  BY <1>1, <1>3, <1>5 DEF LifeOf
<1>8. \A u \in 1 .. (t - 1) : Lives[u] = "joined"
  BY <1>3, <1>5, Stages DEF LifeOf
<1>9. Lives' = [Lives EXCEPT ![t] = "joined"] /\ Lives[t] = "ended"
  BY <1>6, <1>7, OneLife, Stages
<1> QED
  BY <1>1, <1>8, <1>9 DEF Group!Join, Group!Becomes, Lives

\* The destruction of a task begins when all have been joined.
LEMMA DropFrees == ASSUME Inv, NEW t \in Task, DropCallbacks(t) PROVE Group!Free(t)
<1>1. main = "exiting" /\ dtor[t] = "alive" /\ dtor' = [dtor EXCEPT ![t] = "joining"]
      /\ endTask' = endTask /\ late' = late /\ pc' = pc /\ joined' = joined
  BY DEF DropCallbacks
<1>2. \A u \in Task : Lives[u] \in {"joined", "freed"}
  BY <1>1, Stages DEF LifeOf
<1>3. LifeOf(t) = "joined" /\ LifeOf(t)' = "freed"
  BY <1>1, Stages DEF LifeOf, Inv, TypeOK
<1>4. \A u \in Task : u # t => LifeOf(u)' = LifeOf(u)
  BY <1>1 DEF LifeOf, Inv, TypeOK
<1>5. Lives' = [Lives EXCEPT ![t] = "freed"] /\ Lives[t] = "joined"
  BY <1>3, <1>4, OneLife, Stages
<1> QED
  BY <1>1, <1>2, <1>5 DEF Group!Free, Group!Becomes, Group!Member, Lives

\* The end of a destruction is not seen from outside.
LEMMA JoinThreadStutters == ASSUME Inv, NEW t \in Task, JoinThread(t) PROVE UNCHANGED GroupVars
<1>1. dtor[t] = "joining" /\ dtor' = [dtor EXCEPT ![t] = "gone"] /\ endTask' = endTask
      /\ late' = late /\ pc' = pc /\ joined' = joined /\ dtor \in [Task -> {"alive", "joining", "gone"}]
  BY DEF JoinThread, Inv, TypeOK
<1>2. \A u \in Task : dtor'[u] # "alive" <=> dtor[u] # "alive"
  BY <1>1
<1>3. Lives' = Lives
  BY <1>1, <1>2, SameLives DEF LifeOf
<1> QED
  BY <1>1, <1>3 DEF GroupVars

\* A worker that stays in its loop goes on running; when it begins a cycle
\* although it was told to stop, that is its one late cycle.
LEMMA LoopRuns ==
  ASSUME Inv, NEW t \in Task, Worker(t), pc[t] # "finish"
  PROVE  Group!LateCycle(t) \/ UNCHANGED GroupVars
<1> USE DEF At
<1>1. /\ endTask' = endTask /\ joined' = joined /\ dtor' = dtor
      /\ \A u \in Task : u # t => pc'[u] = pc[u]
      /\ pc[t] # "none" /\ pc'[t] # "none"
      /\ pc[t] \in {"return", "exited"} <=> pc'[t] \in {"return", "exited"}
  BY DEF Worker, AssignControlBlock, SetName, EnterRoutine, CheckEnd, Sleep, Read,
         ProcessData, Write, Finish, Return, Inv, TypeOK
<1>2. \A u \in Task : LifeOf(u)' = LifeOf(u)
  BY <1>1 DEF LifeOf
<1>3. Lives' = Lives
  BY <1>2, SameLives
<1>4. CASE late' = late
  BY <1>1, <1>3, <1>4 DEF GroupVars
<1>5. CASE late' # late
  <2>1. Read(t)
    BY <1>5 DEF Worker, AssignControlBlock, SetName, EnterRoutine, CheckEnd, Sleep,
                ProcessData, Write, Finish, Return
  <2>2. pc[t] = "read" /\ late \in [Task -> Nat] /\ late[t] = 0
        /\ late' = [late EXCEPT ![t] = IF endTask THEN @ + 1 ELSE @]
    BY <2>1 DEF Read, Inv, TypeOK, Cycles
  <2>3. CASE ~ endTask
    BY <1>5, <2>2, <2>3
  <2>4. CASE endTask
    <3>1. late' = [late EXCEPT ![t] = 1]
      BY <2>2, <2>4
    <3>2. Lives[t] = "running"
      BY <2>2, Stages
    <3> QED
      BY <1>1, <1>3, <2>2, <2>4, <3>1, <3>2 DEF Group!LateCycle, Lives
  <2> QED
    BY <2>3, <2>4
<1> QED
  BY <1>4, <1>5

\* The announcement of the end is the end; it comes after the stop.
LEMMA FinishEnds ==
  ASSUME Inv, NEW t \in Task, Worker(t), pc[t] = "finish"
  PROVE  Group!End(t)
<1> USE DEF At
<1>1. /\ endTask' = endTask /\ joined' = joined /\ dtor' = dtor /\ late' = late
      /\ pc'[t] = "return" /\ \A u \in Task : u # t => pc'[u] = pc[u]
  BY DEF Worker, AssignControlBlock, SetName, EnterRoutine, CheckEnd, Sleep, Read,
         ProcessData, Write, Finish, Return, Inv, TypeOK
<1>2. endTask /\ LifeOf(t) = "running"
  BY Stages DEF Past
<1>3. dtor[t] = "alive" /\ ~ (t <= joined)
  BY <1>2 DEF LifeOf
<1>4. LifeOf(t)' = "ended"
  BY <1>1, <1>3 DEF LifeOf
<1>5. \A u \in Task : u # t => LifeOf(u)' = LifeOf(u)
  BY <1>1 DEF LifeOf
<1>6. Lives' = [Lives EXCEPT ![t] = "ended"] /\ Lives[t] = "running"
  BY <1>2, <1>4, <1>5, OneLife, Stages
<1> QED
  BY <1>1, <1>2, <1>6 DEF Group!End, Group!Becomes, Lives

\* Threads, flag, joins and destructors give the program that owns the tasks
\* what a group of tasks promises (PeriodicTask.h:67-133, TasksFromConfig.cpp:258-268).
THEOREM GroupRefinement == Spec => ImplementsGroup
<1>1. ASSUME Inv, [Next]_vars PROVE [Group!Next]_GroupVars
  <2>1. CASE MainThread
    BY <1>1, <2>1, ConstructStarts, StoreEndStops, JoinJoins, DropFrees, JoinThreadStutters
       DEF MainThread, Group!Next, Group!Member
  <2>2. ASSUME NEW t \in Task, Worker(t) PROVE [Group!Next]_GroupVars
    BY <1>1, <2>2, LoopRuns, FinishEnds DEF Group!Next, Group!Member
  <2>3. CASE UNCHANGED vars
    <3>1. UNCHANGED <<pc, dtor, joined, endTask, late>>
      BY <2>3 DEF vars
    <3>2. Lives' = Lives
      BY <3>1, SameLives DEF LifeOf
    <3> QED
      BY <3>1, <3>2 DEF GroupVars
  <2> QED
    BY <1>1, <2>1, <2>2, <2>3 DEF Next, Ended
<1>2. Inv /\ [Next]_vars => [Group!Next]_<<[t \in Task |-> LifeOf(t)], endTask, late>>
  BY <1>1 DEF GroupVars, Lives
<1> QED
  BY <1>2, GroupInit, InvHolds, PTL DEF Spec, ImplementsGroup, Group!Spec

=============================================================================
