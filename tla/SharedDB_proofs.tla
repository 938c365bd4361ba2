--------------------------- MODULE SharedDB_proofs ---------------------------
(***************************************************************************)
(* Proofs about SharedDB, for any number of writers, components and ids.   *)
(*                                                                         *)
(* The argument: a component is written under its own mutex, so it is      *)
(* whole whenever that is free, and a copy made then is whole too; the     *)
(* shared map is cleared and filled under the shared mutex, so it is a     *)
(* snapshot whenever no writer has that, whoever was killed on the way.    *)
(***************************************************************************)
EXTENDS SharedDB, TLAPS

\* Where the index of a thread's loop may be.
AtInv ==
    \A w \in Writer :
        /\ pc[w] = "writing" => at[w] \in Id
        /\ pc[w] \in {"snapshot", "insert"} => at[w] \in Comp
        /\ pc[w] \in {"idle", "unlock", "publish", "clear", "done"} => at[w] = 1

\* Who works under a mutex has it.
OwnInv ==
    /\ \A w \in Writer : pc[w] \in {"writing", "unlock"} => lock[CompOf[w]] = w
    /\ \A w \in Writer : pc[w] \in {"clear", "insert", "done"} => smLock = w
    /\ rpc \in {"copy", "unlock"} => smLock = Reader

\* A component that nobody writes is whole, with its newest version; one that is being
\* written has it up to the index of its writer.
DbInv ==
    /\ \A c \in Comp : lock[c] = Free => Whole(db[c], version[c])
    /\ \A w \in Writer : mine[w] <= version[CompOf[w]]
    /\ \A w \in Writer : pc[w] \in {"writing", "unlock"} => mine[w] = version[CompOf[w]]
    /\ \A w \in Writer : pc[w] = "writing" =>
         \A i \in Id : i < at[w] => db[CompOf[w]][i] = mine[w]
    /\ \A w \in Writer : pc[w] = "unlock" => Whole(db[CompOf[w]], mine[w])

\* m holds component c as some write of it left it, for its writer w none before its own.
Fresh(m, c, w) ==
    \E v \in 0 .. version[c] : Whole(m, v) /\ (c = CompOf[w] => v >= mine[w])

\* The part of the snapshot that is copied, and of the shared map that is filled.
Copied(w, c) ==
    (pc[w] = "snapshot" /\ c < at[w]) \/ pc[w] \in {"publish", "clear", "insert", "done"}
Filled(w, c) == (pc[w] = "insert" /\ c < at[w]) \/ pc[w] = "done"

\* What a thread has copied is fresh.
SnapInv == \A w \in Writer : \A c \in Comp : Copied(w, c) => Fresh(snap[w][c], c, w)

\* The shared map is the last update, unless a writer has the mutex; that one's snapshot
\* is in the map as far as it is filled.
SmInv ==
    /\ \A c \in Comp : \E v \in 0 .. version[c] : Whole(last[c], v)
    /\ smLock \notin Writer => sm = last
    /\ \A w \in Writer : \A c \in Comp : Filled(w, c) => sm[c] = snap[w][c]

\* What the reader has copied is of the last update.
ReadInv ==
    /\ \A c \in Comp : rpc = "copy" /\ c < rat => rgot[c] = last[c]
    /\ rpc = "unlock" => rgot = last

IInv == TypeOK /\ AtInv /\ OwnInv /\ DbInv /\ SnapInv /\ SmInv /\ ReadInv

-----------------------------------------------------------------------------
\* The indexes of components and ids are the numbers up to NComp and NId.
LEMMA Indexes ==
    /\ 1 \in Comp /\ NComp \in Comp /\ NComp \in Nat
    /\ \A n \in Comp : n \in Nat /\ n # 0 /\ (n # NComp => n + 1 \in Comp)
    /\ 1 \in Id /\ NId \in Id /\ NId \in Nat
    /\ \A n \in Id : n \in Nat /\ n # 0 /\ n <= NId /\ (n # NId => n + 1 \in Id)
    /\ \A n \in Comp : n <= NComp
    /\ \A w \in Writer : CompOf[w] \in Comp
BY ConstantsAssumption DEF Comp, Id

\* The initial states satisfy it.
LEMMA Initially == Init => IInv
<1> SUFFICES ASSUME Init PROVE IInv
  OBVIOUS
<1>1. TypeOK
  BY Indexes, ConstantsAssumption DEF Init, TypeOK
<1>2. AtInv /\ OwnInv
  BY DEF Init, AtInv, OwnInv
<1>3. DbInv
  BY Indexes DEF Init, DbInv, Whole
<1>4. SnapInv
  BY Indexes DEF Init, SnapInv, Copied
<1>5. SmInv
  BY Indexes DEF Init, SmInv, Whole, Filled
<1>6. ReadInv
  BY Indexes DEF Init, ReadInv
<1> QED
  BY <1>1, <1>2, <1>3, <1>4, <1>5, <1>6 DEF IInv

\* What was copied stays fresh while components get newer.
LEMMA SnapFrame ==
  ASSUME IInv,
         \A k \in Comp : version'[k] \in Nat /\ version[k] <= version'[k],
         \A u \in Writer, k \in Comp :
           Copied(u, k)' => Copied(u, k) /\ mine'[u] = mine[u] /\ snap'[u][k] = snap[u][k]
  PROVE  SnapInv'
<1> SUFFICES ASSUME NEW u \in Writer, NEW k \in Comp, Copied(u, k)'
             PROVE  \E v \in 0 .. version'[k] :
                      Whole(snap'[u][k], v) /\ (k = CompOf[u] => v >= mine'[u])
  BY DEF SnapInv, Fresh, Whole
<1>1. PICK v \in 0 .. version[k] : Whole(snap[u][k], v) /\ (k = CompOf[u] => v >= mine[u])
  BY DEF IInv, SnapInv, Fresh
<1>2. v \in 0 .. version'[k]
  BY <1>1 DEF IInv, TypeOK
<1> QED
  BY <1>1, <1>2

\* A step that writes no component.
LEMMA DbFrame ==
  ASSUME IInv, UNCHANGED <<db, lock, version, mine>>,
         \A u \in Writer : pc'[u] \in {"writing", "unlock"} => pc'[u] = pc[u] /\ at'[u] = at[u]
  PROVE  DbInv'
BY DEF IInv, DbInv, Whole

\* A step that leaves the shared map alone.
LEMMA SmFrame ==
  ASSUME IInv, UNCHANGED <<version, sm, last>>,
         smLock' \notin Writer => smLock \notin Writer,
         \A u \in Writer, k \in Comp :
           Filled(u, k)' => Filled(u, k) /\ snap'[u][k] = snap[u][k]
  PROVE  SmInv'
BY DEF IInv, SmInv, Whole

\* Two threads never work under the same mutex.
LEMMA Exclusive ==
  ASSUME IInv
  PROVE  /\ \A u, w \in Writer :
              /\ pc[u] \in {"writing", "unlock"} /\ pc[w] \in {"writing", "unlock"} /\ u # w
              => CompOf[u] # CompOf[w]
         /\ \A u, w \in Writer : \A k \in Comp :
              /\ Filled(u, k) /\ pc[w] \in {"clear", "insert", "done"}
              => u = w
BY DEF IInv, OwnInv, Filled

\* A write begins: its component gets a new version, which no snapshot has yet.
LEMMA LockComponentStep ==
  ASSUME IInv, NEW w \in Writer, LockComponent(w) PROVE IInv'
<1> DEFINE c == CompOf[w]
<1>1. /\ c \in Comp /\ lock[c] = Free /\ pc[w] = "idle" /\ writes[w] < MaxWrites
      /\ pc' = [pc EXCEPT ![w] = "writing"]
      /\ lock' = [lock EXCEPT ![c] = w]
      /\ version' = [version EXCEPT ![c] = version[c] + 1]
      /\ mine' = [mine EXCEPT ![w] = version[c] + 1]
      /\ writes' = [writes EXCEPT ![w] = writes[w] + 1]
      /\ UNCHANGED <<db, at, snap, smLock, sm, last, rpc, rat, rgot, reads>>
  BY Indexes DEF LockComponent, Goto, smVars, readerVars
<1>2. TypeOK'
  <2>1. version[c] + 1 \in Nat /\ writes[w] + 1 \in 0 .. MaxWrites
    BY <1>1, ConstantsAssumption DEF IInv, TypeOK
  <2> QED
    BY <1>1, <2>1 DEF IInv, TypeOK
<1>3. AtInv'
  BY <1>1, Indexes DEF IInv, TypeOK, AtInv
<1>4. /\ OwnInv'
      /\ \A u \in Writer \ {w} : pc[u] \in {"writing", "unlock"} => CompOf[u] # c
  <2>1. \A u \in Writer \ {w} : pc[u] \in {"writing", "unlock"} => CompOf[u] # c
    BY <1>1, ConstantsAssumption DEF IInv, OwnInv
  <2> QED
    BY <1>1, <2>1, Indexes DEF IInv, TypeOK, OwnInv
<1>5. DbInv'
  <2> USE DEF IInv, TypeOK, DbInv
  <2>0. /\ \A k \in Comp : version[k] \in Nat /\ version'[k] \in Nat /\ version[k] <= version'[k]
        /\ mine'[w] = version'[c] /\ \A u \in Writer \ {w} : mine'[u] = mine[u] /\ mine[u] \in Nat
    BY <1>1
  <2>1. \A k \in Comp : lock'[k] = Free => Whole(db'[k], version'[k])
    BY <1>1, ConstantsAssumption
  <2>2. \A u \in Writer : mine'[u] <= version'[CompOf[u]]
    <3> SUFFICES ASSUME NEW u \in Writer PROVE mine'[u] <= version'[CompOf[u]]
      OBVIOUS
    <3>1. mine[u] <= version[CompOf[u]]
      OBVIOUS
    <3>2. CASE u = w
      BY <1>1, <2>0, <3>2
    <3>3. CASE u # w
      <4>1. mine'[u] = mine[u] /\ mine[u] \in Nat /\ CompOf[u] \in Comp
        BY <2>0, <3>3, Indexes
      <4> QED
        BY <2>0, <3>1, <4>1
    <3> QED
      BY <3>2, <3>3
  <2>3. \A u \in Writer : pc'[u] \in {"writing", "unlock"} => mine'[u] = version'[CompOf[u]]
    BY <1>1, <1>4, <2>0, Indexes
  <2>4. \A u \in Writer : pc'[u] = "writing" =>
          \A i \in Id : i < at'[u] => db'[CompOf[u]][i] = mine'[u]
    <3>1. at[w] = 1 /\ \A i \in Id : ~ (i < 1)
      BY <1>1, Indexes DEF AtInv
    <3> QED
      BY <1>1, <3>1
  <2>5. \A u \in Writer : pc'[u] = "unlock" => Whole(db'[CompOf[u]], mine'[u])
    BY <1>1
  <2> QED
    BY <2>1, <2>2, <2>3, <2>4, <2>5 DEF Whole
<1>6. SnapInv'
  <2>1. \A k \in Comp : version'[k] \in Nat /\ version[k] <= version'[k]
    BY <1>1 DEF IInv, TypeOK
  <2>2. \A u \in Writer, k \in Comp :
          Copied(u, k)' => Copied(u, k) /\ mine'[u] = mine[u] /\ snap'[u][k] = snap[u][k]
    BY <1>1 DEF IInv, TypeOK, Copied
  <2> QED
    BY <2>1, <2>2, SnapFrame
<1>7. SmInv'
  <2>1. \A k \in Comp : \E v \in 0 .. version'[k] : Whole(last'[k], v)
    BY <1>1 DEF IInv, TypeOK, SmInv
  <2>2. \A u \in Writer, k \in Comp : Filled(u, k)' => Filled(u, k)
    BY <1>1 DEF IInv, TypeOK, Filled
  <2> QED
    BY <1>1, <2>1, <2>2 DEF IInv, SmInv, Whole
<1>8. ReadInv'
  BY <1>1 DEF IInv, ReadInv
<1> QED
  BY <1>2, <1>3, <1>4, <1>5, <1>6, <1>7, <1>8 DEF IInv

\* One more id has the new version.
LEMMA WriteIdStep ==
  ASSUME IInv, NEW w \in Writer, WriteId(w) PROVE IInv'
<1> DEFINE c == CompOf[w]
<1>1. /\ c \in Comp /\ pc[w] = "writing" /\ at[w] \in Id
      /\ pc' = [pc EXCEPT ![w] = IF at[w] = NId THEN "unlock" ELSE "writing"]
      /\ at' = [at EXCEPT ![w] = IF at[w] = NId THEN 1 ELSE at[w] + 1]
      /\ db' = [db EXCEPT ![c] = [db[c] EXCEPT ![at[w]] = mine[w]]]
      /\ UNCHANGED <<lock, version, mine, snap, writes, smLock, sm, last, rpc, rat, rgot, reads>>
  BY Indexes DEF IInv, AtInv, WriteId, Loop, Goto, smVars, readerVars
<1>2. TypeOK'
  <2>1. db' \in [Comp -> [Id -> Nat]]
    BY <1>1 DEF IInv, TypeOK
  <2> QED
    BY <1>1, <2>1, Indexes DEF IInv, TypeOK
<1>3. AtInv'
  BY <1>1, Indexes DEF IInv, TypeOK, AtInv
<1>4. OwnInv'
  BY <1>1 DEF IInv, TypeOK, OwnInv
<1>5. DbInv'
  <2>0. /\ lock[c] # Free /\ mine[w] = version[c]
        /\ \A k \in Comp \ {c} : db'[k] = db[k]
        /\ \A u \in Writer \ {w} : pc'[u] = pc[u] /\ at'[u] = at[u]
    BY <1>1, ConstantsAssumption DEF IInv, TypeOK, OwnInv, DbInv
  <2>1. \A i \in Id : i <= at[w] => db'[c][i] = mine[w]
    <3> SUFFICES ASSUME NEW i \in Id, i <= at[w] PROVE db'[c][i] = mine[w]
      OBVIOUS
    <3>1. db'[c] = [db[c] EXCEPT ![at[w]] = mine[w]] /\ db[c] \in [Id -> Nat]
      BY <1>1 DEF IInv, TypeOK
    <3>2. CASE i = at[w]
      BY <3>1, <3>2
    <3>3. CASE i # at[w]
      <4>1. i < at[w] /\ db[c][i] = mine[w]
        BY <1>1, <3>3, Indexes DEF IInv, DbInv
      <4> QED
        BY <3>1, <3>3, <4>1
    <3> QED
      BY <3>2, <3>3
  <2>2. \A k \in Comp : lock'[k] = Free => Whole(db'[k], version'[k])
    <3> SUFFICES ASSUME NEW k \in Comp, lock[k] = Free PROVE Whole(db[k], version[k]) /\ k # c
      BY <1>1, <2>0
    <3> QED
      BY <2>0 DEF IInv, DbInv
  <2>3. /\ \A u \in Writer : mine'[u] <= version'[CompOf[u]]
        /\ \A u \in Writer : pc'[u] \in {"writing", "unlock"} => mine'[u] = version'[CompOf[u]]
    BY <1>1, <2>0 DEF IInv, DbInv
  <2>4. \A u \in Writer : pc'[u] = "writing" =>
          \A i \in Id : i < at'[u] => db'[CompOf[u]][i] = mine'[u]
    <3>1. CASE at[w] # NId
      <4>1. \A i \in Id : i < at'[w] => i <= at[w]
        BY <1>1, <3>1, Indexes DEF IInv, TypeOK
      <4> QED
        BY <1>1, <2>0, <2>1, <4>1, Exclusive, Indexes DEF IInv, DbInv
    <3>2. CASE at[w] = NId
      <4>1. pc'[w] = "unlock"
        BY <1>1, <3>2 DEF IInv, TypeOK
      <4> QED
        BY <1>1, <2>0, <4>1, Exclusive, Indexes DEF IInv, DbInv
    <3> QED
      BY <3>1, <3>2
  <2>5. \A u \in Writer : pc'[u] = "unlock" => Whole(db'[CompOf[u]], mine'[u])
    <3>1. ASSUME pc'[w] = "unlock" PROVE Whole(db'[c], mine'[w])
      <4>1. at[w] = NId
        BY <1>1, <3>1 DEF IInv, TypeOK
      <4>2. \A i \in Id : db'[c][i] = mine'[w]
        BY <1>1, <2>1, <4>1, Indexes
      <4>3. db'[c] \in [Id -> Nat]
        BY <1>1, <1>2 DEF TypeOK
      <4> QED
        BY <4>2, <4>3 DEF Whole
    <3>2. ASSUME NEW u \in Writer \ {w}, pc'[u] = "unlock" PROVE Whole(db'[CompOf[u]], mine'[u])
      <4>1. pc[u] = "unlock" /\ Whole(db[CompOf[u]], mine[u])
        BY <2>0, <3>2 DEF IInv, DbInv
      <4>2. CompOf[u] \in Comp \ {c}
        BY <1>1, <4>1, Exclusive, Indexes
      <4> QED
        BY <1>1, <2>0, <4>1, <4>2
    <3> QED
      BY <3>1, <3>2
  <2> QED
    BY <2>2, <2>3, <2>4, <2>5 DEF DbInv, Whole
<1>6. SnapInv'
  <2>1. \A k \in Comp : version'[k] \in Nat /\ version[k] <= version'[k]
    BY <1>1 DEF IInv, TypeOK
  <2>2. \A u \in Writer, k \in Comp :
          Copied(u, k)' => Copied(u, k) /\ mine'[u] = mine[u] /\ snap'[u][k] = snap[u][k]
    BY <1>1 DEF IInv, TypeOK, AtInv, Copied
  <2> QED
    BY <2>1, <2>2, SnapFrame
<1>7. SmInv'
  <2>1. \A u \in Writer, k \in Comp :
          Filled(u, k)' => Filled(u, k) /\ snap'[u][k] = snap[u][k]
    BY <1>1 DEF IInv, TypeOK, AtInv, Filled
  <2> QED
    BY <1>1, <2>1, SmFrame
<1>8. ReadInv'
  BY <1>1 DEF IInv, ReadInv
<1> QED
  BY <1>2, <1>3, <1>4, <1>5, <1>6, <1>7, <1>8 DEF IInv

\* After the last id the component is whole again.
LEMMA UnlockComponentStep ==
  ASSUME IInv, NEW w \in Writer, UnlockComponent(w) PROVE IInv'
<1> DEFINE c == CompOf[w]
<1>1. /\ c \in Comp /\ pc[w] = "unlock" /\ at[w] = 1 /\ lock[c] = w
      /\ pc' = [pc EXCEPT ![w] = "snapshot"]
      /\ lock' = [lock EXCEPT ![c] = Free]
      /\ UNCHANGED <<db, version, at, mine, snap, writes, smLock, sm, last, rpc, rat, rgot, reads>>
  BY Indexes DEF IInv, AtInv, OwnInv, UnlockComponent, Goto, smVars, readerVars
<1>2. TypeOK'
  BY <1>1 DEF IInv, TypeOK
<1>3. AtInv'
  BY <1>1, Indexes DEF IInv, TypeOK, AtInv
<1>4. OwnInv'
  BY <1>1, Exclusive, Indexes DEF IInv, TypeOK, OwnInv
<1>5. DbInv'
  <2>1. Whole(db[c], version[c])
    BY <1>1 DEF IInv, DbInv
  <2>2. \A k \in Comp : lock'[k] = Free => Whole(db[k], version[k])
    BY <1>1, <2>1 DEF IInv, TypeOK, DbInv
  <2>3. \A u \in Writer : pc'[u] \in {"writing", "unlock"} => pc'[u] = pc[u]
    BY <1>1 DEF IInv, TypeOK
  <2> QED
    BY <1>1, <2>2, <2>3 DEF IInv, DbInv, Whole
<1>6. SnapInv'
  <2>1. \A k \in Comp : version'[k] \in Nat /\ version[k] <= version'[k]
    BY <1>1 DEF IInv, TypeOK
  <2>2. \A u \in Writer, k \in Comp :
          Copied(u, k)' => Copied(u, k) /\ mine'[u] = mine[u] /\ snap'[u][k] = snap[u][k]
    BY <1>1, Indexes DEF IInv, TypeOK, AtInv, Copied
  <2> QED
    BY <2>1, <2>2, SnapFrame
<1>7. SmInv'
  <2>1. \A u \in Writer, k \in Comp :
          Filled(u, k)' => Filled(u, k) /\ snap'[u][k] = snap[u][k]
    BY <1>1 DEF IInv, TypeOK, AtInv, Filled
  <2> QED
    BY <1>1, <2>1, SmFrame
<1>8. ReadInv'
  BY <1>1 DEF IInv, ReadInv
<1> QED
  BY <1>2, <1>3, <1>4, <1>5, <1>6, <1>7, <1>8 DEF IInv

\* An unlocked component is whole, and not older than an own write to it.
LEMMA CopyComponentStep ==
  ASSUME IInv, NEW w \in Writer, CopyComponent(w) PROVE IInv'
<1> DEFINE k == at[w]
<1>1. /\ k \in Comp /\ pc[w] = "snapshot" /\ lock[k] = Free
      /\ pc' = [pc EXCEPT ![w] = IF k = NComp THEN "publish" ELSE "snapshot"]
      /\ at' = [at EXCEPT ![w] = IF k = NComp THEN 1 ELSE k + 1]
      /\ snap' = [snap EXCEPT ![w] = [snap[w] EXCEPT ![k] = db[k]]]
      /\ UNCHANGED <<db, lock, version, mine, writes, smLock, sm, last, rpc, rat, rgot, reads>>
  BY Indexes DEF IInv, AtInv, CopyComponent, Loop, Goto, dbVars, smVars, readerVars
<1>2. TypeOK'
  <2>1. snap' \in [Writer -> [Comp -> [Id -> Nat]]]
    BY <1>1 DEF IInv, TypeOK
  <2> QED
    BY <1>1, <2>1, Indexes DEF IInv, TypeOK
<1>3. AtInv'
  BY <1>1, Indexes DEF IInv, TypeOK, AtInv
<1>4. OwnInv'
  BY <1>1 DEF IInv, TypeOK, OwnInv
<1>5. DbInv'
  <2>1. \A u \in Writer : pc'[u] \in {"writing", "unlock"} => pc'[u] = pc[u] /\ at'[u] = at[u]
    BY <1>1 DEF IInv, TypeOK
  <2> QED
    BY <1>1, <2>1, DbFrame
<1>6. SnapInv'
  <2>1. ASSUME NEW u \in Writer \ {w}, NEW c \in Comp, Copied(u, c)'
        PROVE  Copied(u, c) /\ snap'[u] = snap[u]
    BY <1>1, <2>1 DEF IInv, TypeOK, Copied
  <2>2. ASSUME NEW c \in Comp, Copied(w, c)', c # k PROVE Copied(w, c) /\ snap'[w][c] = snap[w][c]
    <3>1. c < k
      <4>1. c <= NComp /\ c \in Nat /\ k \in Nat
        BY <1>1, Indexes
      <4>2. k # NComp => c < k + 1
        BY <1>1, <2>2 DEF IInv, TypeOK, Copied
      <4> QED
        BY <2>2, <4>1, <4>2
    <3> QED
      BY <1>1, <2>2, <3>1 DEF IInv, TypeOK, Copied
  <2>3. Fresh(snap'[w][k], k, w)
    <3>1. snap'[w][k] = db[k]
      BY <1>1 DEF IInv, TypeOK
    <3>2. Whole(db[k], version[k]) /\ version[k] \in 0 .. version[k]
      BY <1>1 DEF IInv, DbInv, TypeOK
    <3>3. k = CompOf[w] => version[k] >= mine[w]
      BY DEF IInv, DbInv, TypeOK
    <3> QED
      BY <3>1, <3>2, <3>3 DEF Fresh
  <2>4. \A u \in Writer, c \in Comp : Copied(u, c)' => Fresh(snap'[u][c], c, u)
    BY <2>1, <2>2, <2>3 DEF IInv, SnapInv
  <2> QED
    BY <1>1, <2>4 DEF SnapInv, Fresh, Whole
<1>7. SmInv'
  <2>1. \A u \in Writer, c \in Comp :
          Filled(u, c)' => Filled(u, c) /\ snap'[u][c] = snap[u][c]
    BY <1>1 DEF IInv, TypeOK, AtInv, Filled
  <2> QED
    BY <1>1, <2>1, SmFrame
<1>8. ReadInv'
  BY <1>1 DEF IInv, ReadInv
<1> QED
  BY <1>2, <1>3, <1>4, <1>5, <1>6, <1>7, <1>8 DEF IInv

\* An update begins with a snapshot that is complete.
LEMMA LockSharedStep ==
  ASSUME IInv, NEW w \in Writer, LockShared(w) PROVE IInv'
<1>1. /\ pc[w] = "publish" /\ at[w] = 1 /\ smLock = Free
      /\ pc' = [pc EXCEPT ![w] = "clear"] /\ smLock' = w
      /\ UNCHANGED <<db, lock, version, at, mine, snap, writes, sm, last, rpc, rat, rgot, reads>>
  BY DEF IInv, AtInv, LockShared, Goto, dbVars, readerVars
<1>2. TypeOK'
  BY <1>1 DEF IInv, TypeOK
<1>3. AtInv'
  BY <1>1, Indexes DEF IInv, TypeOK, AtInv
<1>4. OwnInv'
  BY <1>1, ConstantsAssumption DEF IInv, TypeOK, OwnInv
<1>5. DbInv'
  <2>1. \A u \in Writer : pc'[u] \in {"writing", "unlock"} => pc'[u] = pc[u] /\ at'[u] = at[u]
    BY <1>1 DEF IInv, TypeOK
  <2> QED
    BY <1>1, <2>1, DbFrame
<1>6. SnapInv'
  <2>1. \A k \in Comp : version'[k] \in Nat /\ version[k] <= version'[k]
    BY <1>1 DEF IInv, TypeOK
  <2>2. \A u \in Writer, k \in Comp :
          Copied(u, k)' => Copied(u, k) /\ mine'[u] = mine[u] /\ snap'[u][k] = snap[u][k]
    BY <1>1 DEF IInv, TypeOK, AtInv, Copied
  <2> QED
    BY <2>1, <2>2, SnapFrame
<1>7. SmInv'
  <2>1. \A u \in Writer, k \in Comp :
          Filled(u, k)' => Filled(u, k) /\ snap'[u][k] = snap[u][k]
    BY <1>1 DEF IInv, TypeOK, AtInv, Filled
  <2> QED
    BY <1>1, <2>1, SmFrame
<1>8. ReadInv'
  BY <1>1 DEF IInv, ReadInv
<1> QED
  BY <1>2, <1>3, <1>4, <1>5, <1>6, <1>7, <1>8 DEF IInv

\* The map is empty, so nothing has to be filled yet.
LEMMA ClearStep ==
  ASSUME IInv, NEW w \in Writer, Clear(w) PROVE IInv'
<1>1. /\ pc[w] = "clear" /\ at[w] = 1 /\ smLock = w
      /\ pc' = [pc EXCEPT ![w] = "insert"] /\ sm' = [c \in Comp |-> Missing]
      /\ UNCHANGED <<db, lock, version, at, mine, snap, writes, smLock, last, rpc, rat, rgot, reads>>
  BY DEF IInv, AtInv, OwnInv, Clear, Goto, dbVars, readerVars
<1>2. TypeOK'
  BY <1>1 DEF IInv, TypeOK
<1>3. AtInv'
  BY <1>1, Indexes DEF IInv, TypeOK, AtInv
<1>4. OwnInv'
  BY <1>1 DEF IInv, TypeOK, OwnInv
<1>5. DbInv'
  <2>1. \A u \in Writer : pc'[u] \in {"writing", "unlock"} => pc'[u] = pc[u] /\ at'[u] = at[u]
    BY <1>1 DEF IInv, TypeOK
  <2> QED
    BY <1>1, <2>1, DbFrame
<1>6. SnapInv'
  <2>1. \A k \in Comp : version'[k] \in Nat /\ version[k] <= version'[k]
    BY <1>1 DEF IInv, TypeOK
  <2>2. \A u \in Writer, k \in Comp :
          Copied(u, k)' => Copied(u, k) /\ mine'[u] = mine[u] /\ snap'[u][k] = snap[u][k]
    BY <1>1 DEF IInv, TypeOK, AtInv, Copied
  <2> QED
    BY <2>1, <2>2, SnapFrame
<1>7. SmInv'
  <2>1. \A u \in Writer, k \in Comp : ~ Filled(u, k)'
    BY <1>1, Exclusive, Indexes DEF IInv, TypeOK, Filled
  <2> QED
    BY <1>1, <2>1 DEF IInv, SmInv, Whole
<1>8. ReadInv'
  BY <1>1 DEF IInv, ReadInv
<1> QED
  BY <1>2, <1>3, <1>4, <1>5, <1>6, <1>7, <1>8 DEF IInv

\* One more component of the map is that of the snapshot.
LEMMA InsertStep ==
  ASSUME IInv, NEW w \in Writer, Insert(w) PROVE IInv'
<1> DEFINE k == at[w]
<1>1. /\ k \in Comp /\ pc[w] = "insert" /\ smLock = w
      /\ pc' = [pc EXCEPT ![w] = IF k = NComp THEN "done" ELSE "insert"]
      /\ at' = [at EXCEPT ![w] = IF k = NComp THEN 1 ELSE k + 1]
      /\ sm' = [sm EXCEPT ![k] = snap[w][k]]
      /\ UNCHANGED <<db, lock, version, mine, snap, writes, smLock, last, rpc, rat, rgot, reads>>
  BY DEF IInv, AtInv, OwnInv, Insert, Loop, Goto, dbVars, readerVars
<1>2. TypeOK'
  <2>1. snap[w][k] \in [Id -> Nat]
    BY <1>1 DEF IInv, TypeOK
  <2> QED
    BY <1>1, <2>1, Indexes DEF IInv, TypeOK
<1>3. AtInv'
  BY <1>1, Indexes DEF IInv, TypeOK, AtInv
<1>4. OwnInv'
  BY <1>1 DEF IInv, TypeOK, OwnInv
<1>5. DbInv'
  <2>1. \A u \in Writer : pc'[u] \in {"writing", "unlock"} => pc'[u] = pc[u] /\ at'[u] = at[u]
    BY <1>1 DEF IInv, TypeOK
  <2> QED
    BY <1>1, <2>1, DbFrame
<1>6. SnapInv'
  <2>1. \A c \in Comp : version'[c] \in Nat /\ version[c] <= version'[c]
    BY <1>1 DEF IInv, TypeOK
  <2>2. \A u \in Writer, c \in Comp :
          Copied(u, c)' => Copied(u, c) /\ mine'[u] = mine[u] /\ snap'[u][c] = snap[u][c]
    BY <1>1 DEF IInv, TypeOK, Copied
  <2> QED
    BY <2>1, <2>2, SnapFrame
<1>7. SmInv'
  <2>1. ASSUME NEW u \in Writer \ {w}, NEW c \in Comp PROVE ~ Filled(u, c)'
    <3>1. ~ Filled(u, c)
      BY <1>1, Exclusive
    <3> QED
      BY <1>1, <3>1 DEF IInv, TypeOK, Filled
  <2>2. ASSUME NEW c \in Comp, Filled(w, c)', c # k PROVE sm'[c] = snap'[w][c]
    <3>1. c < k
      <4>1. c <= NComp /\ c \in Nat /\ k \in Nat
        BY <1>1, Indexes
      <4>2. k # NComp => c < k + 1
        BY <1>1, <2>2 DEF IInv, TypeOK, Filled
      <4> QED
        BY <2>2, <4>1, <4>2
    <3> QED
      BY <1>1, <2>2, <3>1 DEF IInv, TypeOK, SmInv, Filled
  <2>3. sm'[k] = snap'[w][k]
    BY <1>1 DEF IInv, TypeOK
  <2>4. \A u \in Writer : \A c \in Comp : Filled(u, c)' => sm'[c] = snap'[u][c]
    BY <2>1, <2>2, <2>3
  <2> QED
    BY <1>1, <2>4 DEF IInv, SmInv, Whole
<1>8. ReadInv'
  BY <1>1 DEF IInv, ReadInv
<1> QED
  BY <1>2, <1>3, <1>4, <1>5, <1>6, <1>7, <1>8 DEF IInv

\* When a thread has filled the shared map, that is its snapshot.
LEMMA FilledMap ==
  ASSUME IInv, NEW w \in Writer, pc[w] = "done"
  PROVE  sm = snap[w] /\ \A c \in Comp : Fresh(snap[w][c], c, w)
<1>1. \A c \in Comp : sm[c] = snap[w][c]
  BY DEF IInv, SmInv, Filled
<1>2. sm = [c \in Comp |-> sm[c]] /\ snap[w] = [c \in Comp |-> snap[w][c]]
  BY DEF IInv, TypeOK
<1>3. \A c \in Comp : Fresh(snap[w][c], c, w)
  BY DEF IInv, SnapInv, Copied
<1> QED
  BY <1>1, <1>2, <1>3

\* The filled map becomes the last update.
LEMMA UnlockSharedStep ==
  ASSUME IInv, NEW w \in Writer, UnlockShared(w) PROVE IInv'
<1>1. /\ pc[w] = "done" /\ at[w] = 1 /\ smLock = w
      /\ pc' = [pc EXCEPT ![w] = "idle"] /\ smLock' = Free /\ last' = snap[w]
      /\ UNCHANGED <<db, lock, version, at, mine, snap, writes, sm, rpc, rat, rgot, reads>>
  BY DEF IInv, AtInv, OwnInv, UnlockShared, Goto, dbVars, readerVars
<1>2. TypeOK'
  BY <1>1 DEF IInv, TypeOK
<1>3. AtInv'
  BY <1>1, Indexes DEF IInv, TypeOK, AtInv
<1>4. OwnInv'
  BY <1>1, ConstantsAssumption DEF IInv, TypeOK, OwnInv
<1>5. DbInv'
  <2>1. \A u \in Writer : pc'[u] \in {"writing", "unlock"} => pc'[u] = pc[u] /\ at'[u] = at[u]
    BY <1>1 DEF IInv, TypeOK
  <2> QED
    BY <1>1, <2>1, DbFrame
<1>6. SnapInv'
  <2>1. \A k \in Comp : version'[k] \in Nat /\ version[k] <= version'[k]
    BY <1>1 DEF IInv, TypeOK
  <2>2. \A u \in Writer, k \in Comp :
          Copied(u, k)' => Copied(u, k) /\ mine'[u] = mine[u] /\ snap'[u][k] = snap[u][k]
    BY <1>1 DEF IInv, TypeOK, Copied
  <2> QED
    BY <2>1, <2>2, SnapFrame
<1>7. SmInv'
  <2>1. sm' = last' /\ \A c \in Comp : \E v \in 0 .. version'[c] : Whole(last'[c], v)
    BY <1>1, FilledMap DEF Fresh
  <2>2. \A u \in Writer, k \in Comp : ~ Filled(u, k)'
    BY <1>1, Exclusive DEF IInv, TypeOK, Filled
  <2> QED
    BY <2>1, <2>2 DEF SmInv, Whole
<1>8. ReadInv'
  <2>1. rpc' \notin {"copy", "unlock"}
    BY <1>1, ConstantsAssumption DEF IInv, OwnInv
  <2> QED
    BY <2>1 DEF ReadInv
<1> QED
  BY <1>2, <1>3, <1>4, <1>5, <1>6, <1>7, <1>8 DEF IInv

\* The reader changes nothing of the program's.
LEMMA ReaderFrame ==
  ASSUME IInv, UNCHANGED <<dbVars, writerVars, sm, last>>,
         smLock' \notin Writer => smLock \notin Writer
  PROVE  AtInv' /\ DbInv' /\ SnapInv' /\ SmInv'
<1>1. UNCHANGED <<db, lock, version, pc, at, mine, snap, writes, sm, last>>
  BY DEF dbVars, writerVars
<1>2. AtInv'
  BY <1>1 DEF IInv, AtInv
<1>3. DbInv'
  BY <1>1, DbFrame
<1>4. SnapInv'
  <2>1. \A k \in Comp : version'[k] \in Nat /\ version[k] <= version'[k]
    BY <1>1 DEF IInv, TypeOK
  <2> QED
    BY <1>1, <2>1, SnapFrame DEF Copied
<1>5. SmInv'
  BY <1>1, SmFrame DEF Filled
<1> QED
  BY <1>2, <1>3, <1>4, <1>5

\* A run of the reader begins, or is killed.
LEMMA ReaderStartStep ==
  ASSUME IInv, StartReader \/ RestartReader \/ KillReader PROVE IInv'
<1>1. /\ rpc' \in {"wait", "dead"} /\ reads' \in 0 .. MaxReads
      /\ UNCHANGED <<db, lock, version, pc, at, mine, snap, writes, smLock, sm, last, rat, rgot>>
  BY ConstantsAssumption
     DEF IInv, TypeOK, StartReader, RestartReader, KillReader, dbVars, writerVars, smVars
<1>2. TypeOK'
  BY <1>1 DEF IInv, TypeOK
<1>3. OwnInv'
  BY <1>1 DEF IInv, OwnInv
<1>4. AtInv' /\ DbInv' /\ SnapInv' /\ SmInv'
  BY <1>1, ReaderFrame DEF dbVars, writerVars
<1>5. ReadInv'
  BY <1>1 DEF ReadInv
<1> QED
  BY <1>2, <1>3, <1>4, <1>5 DEF IInv

\* The reader gets the mutex, so the map is the last update.
LEMMA ReaderLockStep ==
  ASSUME IInv, ReaderLock PROVE IInv'
<1>1. /\ rpc = "wait" /\ smLock = Free /\ smLock' = Reader /\ rpc' = "copy" /\ rat' = 1
      /\ UNCHANGED <<db, lock, version, pc, at, mine, snap, writes, sm, last, rgot, reads>>
  BY DEF ReaderLock, dbVars, writerVars
<1>2. TypeOK'
  BY <1>1, Indexes DEF IInv, TypeOK
<1>3. OwnInv'
  BY <1>1, ConstantsAssumption DEF IInv, OwnInv
<1>4. AtInv' /\ DbInv' /\ SnapInv' /\ SmInv'
  BY <1>1, ReaderFrame, ConstantsAssumption DEF dbVars, writerVars
<1>5. ReadInv'
  <2>1. \A c \in Comp : ~ (c < 1)
    BY Indexes
  <2> QED
    BY <1>1, <2>1 DEF ReadInv
<1> QED
  BY <1>2, <1>3, <1>4, <1>5 DEF IInv

\* One more component was copied from it.
LEMMA ReaderCopyStep ==
  ASSUME IInv, ReaderCopy PROVE IInv'
<1>1. /\ rpc = "copy" /\ rat \in Comp /\ smLock = Reader /\ sm = last
      /\ rgot' = [rgot EXCEPT ![rat] = sm[rat]]
      /\ rat' = IF rat = NComp THEN 1 ELSE rat + 1
      /\ rpc' = IF rat = NComp THEN "unlock" ELSE "copy"
      /\ UNCHANGED <<db, lock, version, pc, at, mine, snap, writes, smLock, sm, last, reads>>
  BY ConstantsAssumption
     DEF IInv, TypeOK, OwnInv, SmInv, ReaderCopy, dbVars, writerVars, smVars
<1>2. TypeOK'
  <2>1. rgot' \in [Comp -> [Id -> Nat] \cup {Missing}] /\ rat' \in Comp
    BY <1>1, Indexes DEF IInv, TypeOK
  <2> QED
    BY <1>1, <2>1 DEF IInv, TypeOK
<1>3. OwnInv'
  BY <1>1 DEF IInv, OwnInv
<1>4. AtInv' /\ DbInv' /\ SnapInv' /\ SmInv'
  BY <1>1, ReaderFrame DEF dbVars, writerVars
<1>5. \A c \in Comp : c <= rat => rgot'[c] = last[c]
  <2> SUFFICES ASSUME NEW c \in Comp, c <= rat PROVE rgot'[c] = last[c]
    OBVIOUS
  <2>1. CASE c = rat
    BY <1>1, <2>1 DEF IInv, TypeOK
  <2>2. CASE c # rat
    <3>1. c < rat
      BY <1>1, <2>2, Indexes
    <3> QED
      BY <1>1, <2>2, <3>1 DEF IInv, TypeOK, ReadInv
  <2> QED
    BY <2>1, <2>2
<1>6. ReadInv'
  <2>1. CASE rat = NComp
    <3>1. \A c \in Comp : rgot'[c] = last[c]
      BY <1>5, <2>1, Indexes
    <3>2. rgot' = [c \in Comp |-> rgot'[c]] /\ last = [c \in Comp |-> last[c]]
      BY <1>2 DEF IInv, TypeOK
    <3> QED
      BY <1>1, <2>1, <3>1, <3>2 DEF ReadInv
  <2>2. CASE rat # NComp
    <3>1. \A c \in Comp : c < rat' => c <= rat
      BY <1>1, <2>2, Indexes
    <3> QED
      BY <1>1, <1>5, <2>2, <3>1 DEF ReadInv
  <2> QED
    BY <2>1, <2>2
<1> QED
  BY <1>2, <1>3, <1>4, <1>6 DEF IInv

\* The mutex is given back with the map as it was found.
LEMMA ReaderUnlockStep ==
  ASSUME IInv, ReaderUnlock PROVE IInv'
<1>1. /\ smLock = Reader /\ smLock' = Free /\ rpc' = "idle"
      /\ UNCHANGED <<db, lock, version, pc, at, mine, snap, writes, sm, last, rat, rgot, reads>>
  BY DEF IInv, OwnInv, ReaderUnlock, dbVars, writerVars
<1>2. TypeOK'
  BY <1>1 DEF IInv, TypeOK
<1>3. OwnInv'
  BY <1>1, ConstantsAssumption DEF IInv, OwnInv
<1>4. AtInv' /\ DbInv' /\ SnapInv' /\ SmInv'
  BY <1>1, ReaderFrame, ConstantsAssumption DEF dbVars, writerVars
<1>5. ReadInv'
  BY <1>1 DEF ReadInv
<1> QED
  BY <1>2, <1>3, <1>4, <1>5 DEF IInv

\* The program dies: what its threads were doing no longer matters, and the mutex one of
\* them had stays taken.
LEMMA KillProgramStep ==
  ASSUME IInv, KillProgram PROVE IInv'
<1>1. /\ \A w \in Writer : pc'[w] = "dead"
      /\ pc' = [w \in Writer |-> "dead"]
      /\ UNCHANGED <<db, lock, version, at, mine, snap, writes, smLock, sm, last,
                     rpc, rat, rgot, reads>>
  BY DEF KillProgram, dbVars, smVars, readerVars
<1>2. TypeOK'
  BY <1>1 DEF IInv, TypeOK
<1>3. AtInv' /\ OwnInv'
  BY <1>1 DEF IInv, AtInv, OwnInv
<1>4. DbInv'
  BY <1>1, DbFrame
<1>5. SnapInv'
  BY <1>1 DEF SnapInv, Copied
<1>6. SmInv'
  <2>1. \A w \in Writer, c \in Comp : ~ Filled(w, c)'
    BY <1>1 DEF Filled
  <2> QED
    BY <1>1, <2>1, SmFrame
<1>7. ReadInv'
  BY <1>1 DEF IInv, ReadInv
<1> QED
  BY <1>2, <1>3, <1>4, <1>5, <1>6, <1>7 DEF IInv

\* A step that changes nothing.
LEMMA StutterStep ==
  ASSUME IInv, UNCHANGED vars PROVE IInv'
<1>1. UNCHANGED <<db, lock, version, pc, at, mine, snap, writes, smLock, sm, last,
                  rpc, rat, rgot, reads>>
  BY DEF vars, dbVars, writerVars, smVars, readerVars
<1>2. TypeOK' /\ OwnInv' /\ ReadInv'
  BY <1>1 DEF IInv, TypeOK, OwnInv, ReadInv
<1>3. AtInv' /\ DbInv' /\ SnapInv' /\ SmInv'
  BY <1>1, ReaderFrame DEF dbVars, writerVars
<1> QED
  BY <1>2, <1>3 DEF IInv

-----------------------------------------------------------------------------
\* The inductive invariant holds in every reachable state.
THEOREM Invariance == Spec => []IInv
<1>1. IInv /\ [Next]_vars => IInv'
  <2> SUFFICES ASSUME IInv, [Next]_vars PROVE IInv'
    OBVIOUS
  <2>1. ASSUME NEW w \in Writer, Set(w) PROVE IInv'
    BY <2>1, LockComponentStep, WriteIdStep, UnlockComponentStep, CopyComponentStep,
       LockSharedStep, ClearStep, InsertStep, UnlockSharedStep DEF Set
  <2>2. ASSUME Retrieve PROVE IInv'
    BY <2>2, ReaderLockStep, ReaderCopyStep, ReaderUnlockStep DEF Retrieve
  <2> QED
    BY <2>1, <2>2, ReaderStartStep, KillProgramStep, StutterStep DEF Next
<1> QED
  BY Initially, <1>1, PTL DEF Spec

\* The variables keep their types.
THEOREM TypeCorrect == Spec => []TypeOK
<1>1. IInv => TypeOK
  BY DEF IInv
<1> QED
  BY <1>1, Invariance, PTL

\* get_all_values (app/utils/DB.cpp) never returns a half-written component, although it
\* takes one component's mutex after the other.
THEOREM SnapshotsWhole == Spec => []SnapshotIsWhole
<1>1. IInv => SnapshotIsWhole
  BY DEF IInv, SnapInv, Copied, Fresh, SnapshotIsWhole
<1> QED
  BY <1>1, Invariance, PTL

\* Whoever gets the mutex of the shared segment finds every component whole, whichever
\* process was killed and wherever.
THEOREM SharedMapWhole == Spec => []SharedMapIsWhole
<1>1. IInv => SharedMapIsWhole
  BY ConstantsAssumption DEF IInv, SmInv, SharedMapIsWhole
<1> QED
  BY <1>1, Invariance, PTL

\* A run of the script (python/access_data.py) returns one complete update.
THEOREM ReadsAtomic == Spec => []ReaderSeesOneUpdate
<1>1. IInv => ReaderSeesOneUpdate
  BY DEF IInv, ReadInv, ReaderSeesOneUpdate
<1> QED
  BY <1>1, Invariance, PTL

\* The update a thread makes shows its own write or a newer one of its component, never
\* an older: updates may overtake one another, but each snapshot is taken after the write.
THEOREM OwnWriteShown == Spec => UpdateShowsOwnWrite
<1> DEFINE A(w) == (pc[w] = "done" /\ pc'[w] = "idle")
                     => \E v \in mine[w] .. version[CompOf[w]] : Whole(sm[CompOf[w]], v)
<1>1. ASSUME IInv, NEW w \in Writer PROVE A(w)
  <2> SUFFICES ASSUME pc[w] = "done"
               PROVE  \E v \in mine[w] .. version[CompOf[w]] : Whole(sm[CompOf[w]], v)
    OBVIOUS
  <2>1. Fresh(sm[CompOf[w]], CompOf[w], w)
    BY <1>1, FilledMap, Indexes
  <2>2. mine[w] \in Nat /\ version[CompOf[w]] \in Nat
    BY <1>1, Indexes DEF IInv, TypeOK
  <2> QED
    BY <2>1, <2>2 DEF Fresh
<1>2. IInv => [\A w \in Writer : A(w)]_vars
  BY <1>1
<1> QED
  BY <1>2, Invariance, PTL DEF UpdateShowsOwnWrite

=============================================================================
