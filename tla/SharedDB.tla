------------------------------ MODULE SharedDB ------------------------------
(***************************************************************************)
(* The component database (app/utils/DB.h, DB.cpp) and its export to       *)
(* shared memory (app/utils/SharedMemoryWrapper.cpp), with                 *)
(* use_shared_memory::active set: task threads that write a component and  *)
(* publish, and the Python process that retrieves the published map        *)
(* (python/access_data.py).  Either process may be killed at any point.    *)
(*                                                                         *)
(* A value is the number of the write that produced it, per component, so  *)
(* that a component is "whole" when all its ids carry one number.  The     *)
(* model starts when main has created both components and published them,  *)
(* before the tasks run; after that no component and no id is ever added.  *)
(* The interprocess mutex is external: it is not robust, so it stays       *)
(* locked when its owner dies.                                             *)
(***************************************************************************)
EXTENDS Integers

CONSTANTS
    Writer,     \* the threads of the main program that call set_component_db
    CompOf,     \* CompOf[w]: the component w writes
    NComp,      \* components are 1 .. NComp, in map order
    NId,        \* each component has the ids 1 .. NId
    MaxWrites,  \* bound: writes per thread
    MaxReads,   \* bound: runs of the Python script
    Reader,     \* the Python process
    Free        \* owner of an unlocked mutex

Comp == 1 .. NComp
Id == 1 .. NId

ASSUME ConstantsAssumption ==
    /\ NComp \in Nat \ {0} /\ NId \in Nat \ {0}
    /\ MaxWrites \in Nat /\ MaxReads \in Nat
    /\ CompOf \in [Writer -> Comp]
    /\ Reader \notin Writer /\ Free \notin Writer \cup {Reader}

VARIABLES
    db,         \* main_db[c].my_map
    lock,       \* main_db[c].m
    version,    \* version[c]: writes of c begun so far (history)
    pc,         \* where each writer is
    at,         \* the id or component its loop has come to
    mine,       \* the version it wrote last (history)
    snap,       \* the result of get_all_values
    writes,     \* its writes so far
    smLock,     \* the mutex in the shared segment
    sm,         \* the shared map
    last,       \* the map as the last complete update left it (history)
    rpc, rat,   \* the reader's program counter and loop index
    rgot,       \* what the reader has copied
    reads       \* runs of the reader so far

dbVars == <<db, lock, version>>
writerVars == <<pc, at, mine, snap, writes>>
smVars == <<smLock, sm, last>>
readerVars == <<rpc, rat, rgot, reads>>
vars == <<dbVars, writerVars, smVars, readerVars>>

Whole(m, v) == m = [i \in Id |-> v]
\* An absent entry reads as the empty map.
Missing == <<>>

Init ==
    /\ db = [c \in Comp |-> [i \in Id |-> 0]]
    /\ lock = [c \in Comp |-> Free]
    /\ version = [c \in Comp |-> 0]
    /\ pc = [w \in Writer |-> "idle"]
    /\ at = [w \in Writer |-> 1]
    /\ mine = [w \in Writer |-> 0]
    /\ snap = [w \in Writer |-> db]
    /\ writes = [w \in Writer |-> 0]
    /\ smLock = Free
    /\ sm = db
    /\ last = db
    /\ rpc = "idle" /\ rat = 1 /\ rgot = db /\ reads = 0

-----------------------------------------------------------------------------
(* set_component_db by thread w *)

Goto(w, here, there) == pc[w] = here /\ pc' = [pc EXCEPT ![w] = there]

\* A loop step: the next index, or on to `there` after the last one.
Loop(w, here, there, n) ==
    /\ Goto(w, here, IF at[w] = n THEN there ELSE here)
    /\ at' = [at EXCEPT ![w] = IF @ = n THEN 1 ELSE @ + 1]

LockComponent(w) ==
    LET c == CompOf[w]
    IN /\ writes[w] < MaxWrites
       /\ lock[c] = Free
       /\ Goto(w, "idle", "writing")
       /\ lock' = [lock EXCEPT ![c] = w]
       /\ version' = [version EXCEPT ![c] = @ + 1]
       /\ mine' = [mine EXCEPT ![w] = version[c] + 1]
       /\ writes' = [writes EXCEPT ![w] = @ + 1]
       /\ UNCHANGED <<db, at, snap, smVars, readerVars>>

WriteId(w) ==
    /\ Loop(w, "writing", "unlock", NId)
    /\ db' = [db EXCEPT ![CompOf[w]][at[w]] = mine[w]]
    /\ UNCHANGED <<lock, version, mine, snap, writes, smVars, readerVars>>

\* Faulty variant: the component stays locked.
UnlockComponent_Forgotten(w) ==
    /\ Goto(w, "unlock", "snapshot")
    /\ UNCHANGED <<dbVars, at, mine, snap, writes, smVars, readerVars>>

UnlockComponent(w) ==
    /\ Goto(w, "unlock", "snapshot")
    /\ lock' = [lock EXCEPT ![CompOf[w]] = Free]
    /\ UNCHANGED <<db, version, at, mine, snap, writes, smVars, readerVars>>

\* Faulty variants: the copy takes no mutex; the copy of an earlier call is kept.
CopyComponent_NoLock(w) ==
    /\ Loop(w, "snapshot", "publish", NComp)
    /\ snap' = [snap EXCEPT ![w][at[w]] = db[at[w]]]
    /\ UNCHANGED <<dbVars, mine, writes, smVars, readerVars>>
CopyComponent_Stale(w) ==
    /\ Loop(w, "snapshot", "publish", NComp)
    /\ UNCHANGED <<dbVars, mine, snap, writes, smVars, readerVars>>

\* get_all_values copies component after component, each under its own mutex.
CopyComponent(w) ==
    /\ lock[at[w]] = Free
    /\ Loop(w, "snapshot", "publish", NComp)
    /\ snap' = [snap EXCEPT ![w][at[w]] = db[at[w]]]
    /\ UNCHANGED <<dbVars, mine, writes, smVars, readerVars>>

(* SharedMemoryWrapper::update with that snapshot *)

LockShared(w) ==
    /\ smLock = Free
    /\ Goto(w, "publish", "clear")
    /\ smLock' = w
    /\ UNCHANGED <<dbVars, at, mine, snap, writes, sm, last, readerVars>>

Clear(w) ==
    /\ Goto(w, "clear", "insert")
    /\ sm' = [c \in Comp |-> Missing]
    /\ UNCHANGED <<dbVars, at, mine, snap, writes, smLock, last, readerVars>>

\* Faulty variant: the last component is not inserted.
Insert_OneShort(w) ==
    /\ Loop(w, "insert", "done", NComp - 1)
    /\ sm' = [sm EXCEPT ![at[w]] = snap[w][at[w]]]
    /\ UNCHANGED <<dbVars, mine, snap, writes, smLock, last, readerVars>>

Insert(w) ==
    /\ Loop(w, "insert", "done", NComp)
    /\ sm' = [sm EXCEPT ![at[w]] = snap[w][at[w]]]
    /\ UNCHANGED <<dbVars, mine, snap, writes, smLock, last, readerVars>>

UnlockShared(w) ==
    /\ Goto(w, "done", "idle")
    /\ smLock' = Free
    /\ last' = snap[w]
    /\ UNCHANGED <<dbVars, at, mine, snap, writes, sm, readerVars>>

-----------------------------------------------------------------------------
(* retrieve, called by the Python process *)

StartReader ==
    /\ rpc = "idle" /\ reads < MaxReads
    /\ rpc' = "wait" /\ reads' = reads + 1
    /\ UNCHANGED <<dbVars, writerVars, smVars, rat, rgot>>

\* Faulty variant: the reader takes no lock.
ReaderLock_None ==
    /\ rpc = "wait"
    /\ rpc' = "copy" /\ rat' = 1
    /\ UNCHANGED <<dbVars, writerVars, smVars, rgot, reads>>

ReaderLock ==
    /\ rpc = "wait" /\ smLock = Free
    /\ smLock' = Reader
    /\ rpc' = "copy" /\ rat' = 1
    /\ UNCHANGED <<dbVars, writerVars, sm, last, rgot, reads>>

ReaderCopy ==
    /\ rpc = "copy"
    /\ rgot' = [rgot EXCEPT ![rat] = sm[rat]]
    /\ rat' = IF rat = NComp THEN 1 ELSE rat + 1
    /\ rpc' = IF rat = NComp THEN "unlock" ELSE "copy"
    /\ UNCHANGED <<dbVars, writerVars, smVars, reads>>

ReaderUnlock ==
    /\ rpc = "unlock"
    /\ smLock' = Free
    /\ rpc' = "idle"
    /\ UNCHANGED <<dbVars, writerVars, sm, last, rat, rgot, reads>>

-----------------------------------------------------------------------------
(* Either process may be killed; the segment and its mutex outlive it. *)

KillProgram ==
    /\ \E w \in Writer : pc[w] # "dead"
    /\ pc' = [w \in Writer |-> "dead"]
    /\ UNCHANGED <<dbVars, at, mine, snap, writes, smVars, readerVars>>

KillReader ==
    /\ rpc \notin {"idle", "dead"}
    /\ rpc' = "dead"
    /\ UNCHANGED <<dbVars, writerVars, smVars, rat, rgot, reads>>

\* The script is started once more after it was killed.
RestartReader ==
    /\ rpc = "dead" /\ reads < MaxReads
    /\ rpc' = "wait" /\ reads' = reads + 1
    /\ UNCHANGED <<dbVars, writerVars, smVars, rat, rgot>>

Set(w) ==
    \/ LockComponent(w) \/ WriteId(w) \/ UnlockComponent(w) \/ CopyComponent(w)
    \/ LockShared(w) \/ Clear(w) \/ Insert(w) \/ UnlockShared(w)
Retrieve == ReaderLock \/ ReaderCopy \/ ReaderUnlock

Next ==
    \/ \E w \in Writer : Set(w)
    \/ StartReader \/ Retrieve
    \/ KillProgram \/ KillReader \/ RestartReader

Spec == Init /\ [][Next]_vars

\* The threads of a live process are scheduled; nothing forces a kill or a read.
FairSpec == Spec /\ WF_vars(Retrieve) /\ \A w \in Writer : WF_vars(Set(w))

-----------------------------------------------------------------------------
TypeOK ==
    /\ db \in [Comp -> [Id -> Nat]]
    /\ lock \in [Comp -> Writer \cup {Free}]
    /\ version \in [Comp -> Nat]
    /\ pc \in [Writer -> {"idle", "writing", "unlock", "snapshot", "publish",
                          "clear", "insert", "done", "dead"}]
    /\ at \in [Writer -> Nat]
    /\ mine \in [Writer -> Nat]
    /\ snap \in [Writer -> [Comp -> [Id -> Nat]]]
    /\ writes \in [Writer -> 0 .. MaxWrites]
    /\ smLock \in Writer \cup {Reader, Free}
    /\ sm \in [Comp -> [Id -> Nat] \cup {Missing}]
    /\ last \in [Comp -> [Id -> Nat]]
    /\ rpc \in {"idle", "wait", "copy", "unlock", "dead"}
    /\ rat \in Comp
    /\ rgot \in [Comp -> [Id -> Nat] \cup {Missing}]
    /\ reads \in 0 .. MaxReads

\* The snapshot a thread publishes never holds a half-written component.
SnapshotIsWhole ==
    \A w \in Writer : pc[w] \in {"publish", "clear", "insert", "done"} =>
        \A c \in Comp : \E v \in 0 .. version[c] : Whole(snap[w][c], v)

\* Whoever gets the shared mutex finds every component, each of them whole, also
\* after a process died in the middle of an update.
SharedMapIsWhole ==
    smLock = Free => \A c \in Comp : \E v \in 0 .. version[c] : Whole(sm[c], v)

\* What a run of the script returns is one complete update, not parts of two.
ReaderSeesOneUpdate == rpc = "unlock" => rgot = last

\* A thread's own update shows what it wrote, or something newer.
UpdateShowsOwnWrite ==
    [][ \A w \in Writer : (pc[w] = "done" /\ pc'[w] = "idle")
          => \E v \in mine[w] .. version[CompOf[w]] : Whole(sm[CompOf[w]], v) ]_vars

\* The owner of the shared mutex is dead: no one will ever unlock it.
Orphaned ==
    \/ smLock \in Writer /\ pc[smLock] = "dead"
    \/ smLock = Reader /\ rpc \in {"dead", "wait"}

\* The script returns: no writer keeps the shared mutex for ever. And every write gets
\* published and its thread returns to its loop, however writers, component mutexes and
\* the reader overlap. Both but for one thing: that someone died with the shared mutex.
CallsReturnUnlessOrphaned ==
    /\ rpc = "wait" ~> (rpc \in {"idle", "dead"} \/ Orphaned)
    /\ \A w \in Writer : pc[w] = "writing" ~> (pc[w] \in {"idle", "dead"} \/ Orphaned)

-----------------------------------------------------------------------------
\* README.md:11, "The project export the data it creates into shared memory":
\* once every thread has returned from its update, what is exported is what is
\* in the database.
ExportIsCurrent == (\A w \in Writer : pc[w] = "idle") => sm = db

=============================================================================
