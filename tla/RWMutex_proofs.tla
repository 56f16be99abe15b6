--------------------------- MODULE RWMutex_proofs ---------------------------
(***************************************************************************)
(* Writers never overlap, for any set of threads and any nesting, and the  *)
(* lock is a reader-writer lock when one thread at most reads under it.    *)
(***************************************************************************)
EXTENDS RWMutex, FiniteSetTheorems, TLAPS

In == readers \cup Waiting

(* Sets of threads are finite, and have a cardinality that is a number. *)
LEMMA ThreadSets ==
  ASSUME NEW S \in SUBSET Threads
  PROVE  /\ IsFiniteSet(S)
         /\ Cardinality(S) \in Nat
         /\ Cardinality(S) = 0 <=> S = {}
<1>1. IsFiniteSet(S)
  BY ThreadsAssumption, FS_Subset
<1>2. QED
  BY <1>1, FS_CardinalityType, FS_EmptySet

(* One thread more or less changes the count by one. *)
LEMMA AddThread ==
  ASSUME NEW S \in SUBSET Threads, NEW t \in Threads, t \notin S
  PROVE  Cardinality(S \cup {t}) = Cardinality(S) + 1
BY ThreadSets, FS_AddElement

LEMMA RemoveThread ==
  ASSUME NEW S \in SUBSET Threads, NEW t \in S
  PROVE  Cardinality(S \ {t}) = Cardinality(S) - 1
BY ThreadSets, FS_RemoveElement

LEMMA InitLockInv == Init => LockInv
<1> SUFFICES ASSUME Init PROVE LockInv
  OBVIOUS
<1> USE ThreadsAssumption, MaxNestAssumption DEF Init
<1>1. TypeOK
  BY DEF TypeOK
<1>2. WriterOwns
  BY DEF WriterOwns
<1>3. Waiting = {} /\ Leaving = {}
  BY DEF Waiting, Leaving
<1>4. Accounting
  BY <1>3, FS_EmptySet DEF Accounting, ReadersLevel, WritersLevel
<1>5. QED
  BY <1>1, <1>2, <1>4 DEF LockInv

LEMMA NextTypeOK == LockInv /\ [Next]_vars => TypeOK'
<1> SUFFICES ASSUME LockInv, [Next]_vars PROVE TypeOK'
  OBVIOUS
<1> USE ThreadsAssumption, MaxNestAssumption DEF LockInv, TypeOK
<1>1. ASSUME NEW t \in Threads, ReadLock(t) PROVE TypeOK'
  BY <1>1 DEF ReadLock
<1>2. ASSUME NEW t \in Threads, ReadLockAcquire(t) PROVE TypeOK'
  BY <1>2 DEF ReadLockAcquire, MutexLock
<1>3. ASSUME NEW t \in Threads, ReadUnlock(t) PROVE TypeOK'
  <2>1. t \in In /\ In \in SUBSET Threads
    BY <1>3 DEF ReadUnlock, In, Waiting
  <2>2. counter > 0
    BY <1>3, <2>1, ThreadSets DEF ReadUnlock, Accounting, In
  <2>3. QED
    BY <1>3, <2>2 DEF ReadUnlock
<1>4. ASSUME NEW t \in Threads, ReadUnlockRelease(t) PROVE TypeOK'
  <2>1. owner = t => depth > 0
    BY <1>4 DEF ReadUnlockRelease, Accounting
  <2>2. owner' \in Threads \cup {NoThread} /\ depth' \in Nat
    BY <1>4, <2>1 DEF ReadUnlockRelease, AssertUnlock, MutexUnlock
  <2>3. aborted' \in BOOLEAN
    BY <1>4, Zenon DEF ReadUnlockRelease, AssertUnlock
  <2>4. QED
    BY <1>4, <2>2, <2>3, Zenon DEF ReadUnlockRelease
<1>5. ASSUME NEW t \in Threads, WriteLock(t) PROVE TypeOK'
  BY <1>5 DEF WriteLock, MutexLock
<1>6. ASSUME NEW t \in Threads, WriteUnlock(t) PROVE TypeOK'
  <2>1. owner = t => depth > 0
    BY <1>6 DEF WriteUnlock, Running, Accounting
  <2>2. owner' \in Threads \cup {NoThread} /\ depth' \in Nat
    BY <1>6, <2>1 DEF WriteUnlock, AssertUnlock, MutexUnlock
  <2>3. aborted' \in BOOLEAN
    BY <1>6, Zenon DEF WriteUnlock, AssertUnlock
  <2>4. writes' \in [Threads -> Nat]
    BY <1>6 DEF WriteUnlock
  <2>5. QED
    BY <1>6, <2>2, <2>3, <2>4, Zenon DEF WriteUnlock
<1>7. CASE UNCHANGED vars
  BY <1>7 DEF vars
<1>8. QED
  BY <1>1, <1>2, <1>3, <1>4, <1>5, <1>6, <1>7 DEF Next, Gone

(* A write section is only ever left, or given away, by the mutex's owner: *)
(* what a release takes off the mutex is never a writer's last level.      *)
LEMMA NextWriterOwns == LockInv /\ [Next]_vars => WriterOwns'
<1> SUFFICES ASSUME LockInv, [Next]_vars PROVE WriterOwns'
  OBVIOUS
<1> USE DEF LockInv, TypeOK, WriterOwns
<1>1. ASSUME NEW t \in Threads, ReadLock(t) PROVE WriterOwns'
  BY <1>1 DEF ReadLock
<1>2. ASSUME NEW t \in Threads, ReadLockAcquire(t) PROVE WriterOwns'
  BY <1>2, ThreadsAssumption DEF ReadLockAcquire, MutexLock
<1>3. ASSUME NEW t \in Threads, ReadUnlock(t) PROVE WriterOwns'
  BY <1>3 DEF ReadUnlock
<1>4. ASSUME NEW t \in Threads, ReadUnlockRelease(t) PROVE WriterOwns'
  <2>1. CASE owner # t
    BY <1>4, <2>1 DEF ReadUnlockRelease, AssertUnlock
  <2>2. CASE owner = t
    <3>1. owner' = (IF depth = 1 THEN NoThread ELSE t) /\ writes' = writes
      BY <1>4, <2>2 DEF ReadUnlockRelease, AssertUnlock, MutexUnlock
    <3>2. Accounting /\ t \in Leaving /\ Leaving \in SUBSET Threads
      BY <1>4 DEF ReadUnlockRelease, Leaving
    <3>3. Cardinality(Leaving) \in Nat /\ Cardinality(Leaving) > 0
      BY <3>2, ThreadSets
    <3>4. depth = 1 => writes[t] = 0
      <4>1. depth = ReadersLevel + Cardinality(Leaving) + writes[t]
        BY <2>2, <3>2, ThreadsAssumption DEF Accounting, WritersLevel
      <4>2. ReadersLevel \in Nat /\ writes[t] \in Nat
        BY DEF ReadersLevel
      <4>3. QED
        BY <3>3, <4>1, <4>2
    <3>5. QED
      BY <2>2, <3>1, <3>4
  <2>3. QED
    BY <2>1, <2>2
<1>5. ASSUME NEW t \in Threads, WriteLock(t) PROVE WriterOwns'
  BY <1>5, ThreadsAssumption DEF WriteLock, MutexLock
<1>6. ASSUME NEW t \in Threads, WriteUnlock(t) PROVE WriterOwns'
  <2>1. owner = t /\ Accounting
    BY <1>6 DEF WriteUnlock, Running
  <2>2. owner' = (IF depth = 1 THEN NoThread ELSE t)
    BY <1>6, <2>1 DEF WriteUnlock, AssertUnlock, MutexUnlock
  <2>3. depth = 1 => writes[t] <= 1
    <3>1. depth = ReadersLevel + Cardinality(Leaving) + writes[t]
      BY <2>1, ThreadsAssumption DEF Accounting, WritersLevel
    <3>2. Leaving \in SUBSET Threads
      BY DEF Leaving
    <3>3. ReadersLevel \in Nat /\ Cardinality(Leaving) \in Nat /\ writes[t] \in Nat
      BY <3>2, ThreadSets DEF ReadersLevel
    <3>4. QED
      BY <3>1, <3>3
  <2>4. writes' = [writes EXCEPT ![t] = @ - 1]
    BY <1>6 DEF WriteUnlock
  <2>5. QED
    BY <2>1, <2>2, <2>3, <2>4
<1>7. CASE UNCHANGED vars
  BY <1>7 DEF vars
<1>8. QED
  BY <1>1, <1>2, <1>3, <1>4, <1>5, <1>6, <1>7 DEF Next, Gone

LEMMA NextAccounting == LockInv /\ [Next]_vars => (~aborted => Accounting)'
<1> SUFFICES ASSUME LockInv, [Next]_vars, ~aborted' PROVE Accounting'
  OBVIOUS
<1> USE DEF LockInv, TypeOK
<1>0. Waiting \in SUBSET Threads /\ Leaving \in SUBSET Threads /\ In \in SUBSET Threads
  BY DEF Waiting, Leaving, In
<1>a. Cardinality(Leaving) \in Nat /\ Cardinality(In) \in Nat
  BY <1>0, ThreadSets
<1>1. ASSUME NEW t \in Threads, ReadLock(t) PROVE Accounting'
  <2>1. Accounting /\ t \notin In /\ counter = Cardinality(In)
    BY <1>1 DEF ReadLock, Running, Accounting, In, Waiting
  <2>2. counter' = counter + 1 /\ In' = In \cup {t} /\ Leaving' = Leaving
    BY <1>1 DEF ReadLock, Running, EntersFirst, FirstIn, In, Waiting, Leaving
  <2>3. counter' = Cardinality(In')
    BY <1>0, <2>1, <2>2, AddThread
  <2>4. ReadersLevel' = ReadersLevel
    <3>1. CASE counter = 0
      BY <1>1, <3>1 DEF ReadLock, EntersFirst, FirstIn, ReadersLevel, Waiting
    <3>2. CASE counter # 0
      BY <1>1, <3>2 DEF ReadLock, EntersFirst, FirstIn, ReadersLevel, Waiting
    <3>3. QED
      BY <3>1, <3>2
  <2>5. depth' = ReadersLevel' + Cardinality(Leaving') + WritersLevel'
    BY <1>1, <2>1, <2>2, <2>4 DEF ReadLock, Accounting, WritersLevel
  <2>6. \A u, v \in Waiting' : u = v
    <3>1. CASE counter = 0
      <4>1. Waiting = {}
        BY <1>0, <2>1, <3>1, ThreadSets DEF In
      <4>2. QED
        BY <1>1, <4>1 DEF ReadLock, Waiting
    <3>2. CASE counter # 0
      BY <1>1, <2>1, <3>2 DEF ReadLock, EntersFirst, FirstIn, Waiting, Accounting
    <3>3. QED
      BY <3>1, <3>2
  <2>7. \A u \in readers' : pc'[u] = "run"
    BY <1>1, <2>1 DEF ReadLock, Running, Accounting
  <2>8. (depth = 0 <=> owner = NoThread)'
    BY <1>1, <2>1 DEF ReadLock, Accounting
  <2>9. QED
    BY <2>3, <2>5, <2>6, <2>7, <2>8 DEF Accounting, In
<1>2. ASSUME NEW t \in Threads, ReadLockAcquire(t) PROVE Accounting'
  <2>1. Accounting /\ t \in Waiting /\ counter = Cardinality(In) /\ t \in In
    BY <1>2 DEF ReadLockAcquire, Accounting, In, Waiting
  <2>2. counter' = counter /\ In' = In /\ Leaving' = Leaving /\ Waiting' = {}
    BY <1>2, <2>1 DEF ReadLockAcquire, In, Waiting, Leaving, Accounting
  <2>3. ReadersLevel = 0 /\ ReadersLevel' = 1
    BY <1>0, <1>a, <2>1, <2>2, ThreadSets DEF ReadersLevel
  <2>4. owner' = t /\ depth' = depth + 1 /\ writes' = writes
    BY <1>2 DEF ReadLockAcquire, MutexLock
  <2>5. WritersLevel' = WritersLevel
    BY <1>2, <2>4, ThreadsAssumption DEF ReadLockAcquire, MutexLock, WritersLevel, WriterOwns
  <2>6. depth' = ReadersLevel' + Cardinality(Leaving') + WritersLevel'
    <3>1. WritersLevel \in Nat
      BY DEF WritersLevel
    <3>2. QED
      BY <1>a, <2>1, <2>2, <2>3, <2>4, <2>5, <3>1 DEF Accounting
  <2>7. \A u \in readers' : pc'[u] = "run"
    BY <1>2, <2>1 DEF ReadLockAcquire, Accounting
  <2>8. (depth = 0 <=> owner = NoThread)'
    BY <2>4, ThreadsAssumption
  <2>9. QED
    BY <2>1, <2>2, <2>6, <2>7, <2>8 DEF Accounting, In
<1>3. ASSUME NEW t \in Threads, ReadUnlock(t) PROVE Accounting'
  <2>1. Accounting /\ t \in readers /\ t \notin Waiting /\ t \notin Leaving
        /\ counter = Cardinality(In) /\ t \in In
    BY <1>3 DEF ReadUnlock, Accounting, In, Waiting, Leaving
  <2>2. counter' = counter - 1 /\ In' = In \ {t} /\ Waiting' = Waiting
    BY <1>3, <2>1 DEF ReadUnlock, In, Waiting
  <2>3. counter' = Cardinality(In')
    BY <1>0, <2>1, <2>2, RemoveThread
  <2>4. depth' = depth /\ WritersLevel' = WritersLevel /\ owner' = owner
    BY <1>3 DEF ReadUnlock, WritersLevel
  <2>5. ReadersLevel + Cardinality(Leaving) = ReadersLevel' + Cardinality(Leaving')
    <3>1. CASE counter = 1
      <4>1. In' = {} /\ Waiting = {}
        <5>1. In' = {}
          BY <1>0, <2>2, <2>3, <3>1, ThreadSets
        <5>2. QED
          BY <2>1, <2>2, <5>1 DEF In
      <4>2. Leaving' = Leaving \cup {t}
        BY <1>3, <3>1 DEF ReadUnlock, LeavesLast, LastOut, Leaving
      <4>3. Cardinality(Leaving') = Cardinality(Leaving) + 1
        BY <1>0, <2>1, <4>2, AddThread
      <4>4. ReadersLevel = 1 /\ ReadersLevel' = 0
        BY <2>2, <3>1, <4>1 DEF ReadersLevel
      <4>5. QED
        BY <1>a, <4>3, <4>4
    <3>2. CASE counter # 1
      <4>1. counter > 1
        BY <1>0, <1>a, <2>1, <3>2, ThreadSets
      <4>2. Leaving' = Leaving
        BY <1>3, <2>1, <4>1 DEF ReadUnlock, LeavesLast, LastOut, Leaving
      <4>3. ReadersLevel' = ReadersLevel
        BY <2>2, <4>1 DEF ReadersLevel
      <4>4. QED
        BY <4>2, <4>3
    <3>3. QED
      BY <3>1, <3>2
  <2>6. \A u \in readers' : pc'[u] = "run"
    BY <1>3, <2>1 DEF ReadUnlock, Accounting
  <2>7. QED
    BY <2>1, <2>2, <2>3, <2>4, <2>5, <2>6 DEF Accounting, In
<1>4. ASSUME NEW t \in Threads, ReadUnlockRelease(t) PROVE Accounting'
  <2>1. Accounting /\ owner = t /\ t \in Leaving
    BY <1>4 DEF ReadUnlockRelease, AssertUnlock, Leaving
  <2>2. owner' = (IF depth = 1 THEN NoThread ELSE t) /\ depth' = depth - 1
    BY <1>4, <2>1 DEF ReadUnlockRelease, AssertUnlock, MutexUnlock
  <2>3. Leaving' = Leaving \ {t} /\ Waiting' = Waiting /\ In' = In
        /\ counter' = counter /\ readers' = readers /\ writes' = writes
    BY <1>4 DEF ReadUnlockRelease, Leaving, Waiting, In
  <2>4. Cardinality(Leaving') = Cardinality(Leaving) - 1 /\ Cardinality(Leaving) > 0
    BY <1>0, <1>a, <2>1, <2>3, RemoveThread, ThreadSets
  <2>5. ReadersLevel' = ReadersLevel /\ ReadersLevel \in Nat
    BY <2>3 DEF ReadersLevel
  <2>6. WritersLevel = writes[t] /\ writes[t] \in Nat
    BY <2>1, ThreadsAssumption DEF WritersLevel
  <2>7. depth = ReadersLevel + Cardinality(Leaving) + writes[t]
    BY <2>1, <2>6 DEF Accounting
  <2>8. WritersLevel' = WritersLevel
    <3>1. depth = 1 => writes[t] = 0
      BY <1>a, <2>4, <2>5, <2>6, <2>7
    <3>2. QED
      BY <2>2, <2>3, <2>6, <3>1, ThreadsAssumption DEF WritersLevel
  <2>9. depth' = ReadersLevel' + Cardinality(Leaving') + WritersLevel'
    BY <1>a, <2>2, <2>4, <2>5, <2>6, <2>7, <2>8
  <2>10. (depth = 0 <=> owner = NoThread)'
    BY <1>a, <2>2, <2>4, <2>5, <2>6, <2>7, ThreadsAssumption
  <2>11. \A u \in readers' : pc'[u] = "run"
    BY <1>4, <2>1, <2>3 DEF ReadUnlockRelease, Accounting
  <2>12. QED
    BY <2>1, <2>3, <2>9, <2>10, <2>11 DEF Accounting, In
<1>5. ASSUME NEW t \in Threads, WriteLock(t) PROVE Accounting'
  <2>1. Accounting
    BY <1>5 DEF WriteLock, Running
  <2>2. owner' = t /\ depth' = depth + 1 /\ writes' = [writes EXCEPT ![t] = @ + 1]
        /\ pc' = pc /\ counter' = counter /\ readers' = readers
    BY <1>5 DEF WriteLock, MutexLock
  <2>3. Waiting' = Waiting /\ Leaving' = Leaving /\ ReadersLevel' = ReadersLevel
    BY <2>2 DEF Waiting, Leaving, ReadersLevel
  <2>4. WritersLevel = writes[t]
    BY <1>5, ThreadsAssumption DEF WriteLock, MutexLock, WritersLevel, WriterOwns
  <2>5. WritersLevel' = writes[t] + 1 /\ writes[t] \in Nat /\ ReadersLevel \in Nat
    BY <2>2, ThreadsAssumption DEF WritersLevel, ReadersLevel
  <2>6. depth' = ReadersLevel' + Cardinality(Leaving') + WritersLevel'
    BY <1>a, <2>1, <2>2, <2>3, <2>4, <2>5 DEF Accounting
  <2>7. (depth = 0 <=> owner = NoThread)'
    BY <2>2, ThreadsAssumption
  <2>8. QED
    BY <2>1, <2>2, <2>3, <2>6, <2>7 DEF Accounting
<1>6. ASSUME NEW t \in Threads, WriteUnlock(t) PROVE Accounting'
  <2>1. Accounting /\ owner = t /\ writes[t] > 0 /\ writes[t] \in Nat
    BY <1>6 DEF WriteUnlock, AssertUnlock, Running
  <2>2. owner' = (IF depth = 1 THEN NoThread ELSE t) /\ depth' = depth - 1
    BY <1>6, <2>1 DEF WriteUnlock, AssertUnlock, MutexUnlock
  <2>3. writes' = [writes EXCEPT ![t] = @ - 1]
        /\ pc' = pc /\ counter' = counter /\ readers' = readers
    BY <1>6 DEF WriteUnlock
  <2>4. Waiting' = Waiting /\ Leaving' = Leaving /\ ReadersLevel' = ReadersLevel
    BY <2>3 DEF Waiting, Leaving, ReadersLevel
  <2>5. WritersLevel = writes[t] /\ ReadersLevel \in Nat
    BY <2>1, ThreadsAssumption DEF WritersLevel, ReadersLevel
  <2>6. depth = ReadersLevel + Cardinality(Leaving) + writes[t]
    BY <2>1, <2>5 DEF Accounting
  <2>7. WritersLevel' = writes[t] - 1
    <3>1. depth = 1 => writes[t] = 1
      BY <1>a, <2>1, <2>5, <2>6
    <3>2. QED
      BY <2>1, <2>2, <2>3, <3>1, ThreadsAssumption DEF WritersLevel
  <2>8. depth' = ReadersLevel' + Cardinality(Leaving') + WritersLevel'
    BY <1>a, <2>1, <2>2, <2>4, <2>5, <2>6, <2>7
  <2>9. (depth = 0 <=> owner = NoThread)'
    BY <1>a, <2>1, <2>2, <2>5, <2>6, ThreadsAssumption
  <2>10. QED
    BY <2>1, <2>3, <2>4, <2>8, <2>9 DEF Accounting
<1>7. CASE UNCHANGED vars
  BY <1>7 DEF vars, Accounting, Waiting, Leaving, ReadersLevel, WritersLevel
<1>8. QED
  BY <1>1, <1>2, <1>3, <1>4, <1>5, <1>6, <1>7 DEF Next, Gone

(* The accounting of the mutex's levels is inductive: rwMutex.c:36-58.     *)
THEOREM LockInvHolds == Spec => []LockInv
<1>1. Init => LockInv
  BY InitLockInv
<1>2. LockInv /\ [Next]_vars => LockInv'
  <2>1. ASSUME LockInv, [Next]_vars PROVE LockInv'
    <3>1. TypeOK' /\ WriterOwns' /\ (~aborted => Accounting)'
      BY <2>1, NextTypeOK, NextWriterOwns, NextAccounting
    <3>2. QED
      BY <3>1, Zenon DEF LockInv
  <2>2. QED
    BY <2>1
<1>3. QED
  BY <1>1, <1>2, PTL DEF Spec

(* Any number of threads, reading, writing and nesting as they like: no    *)
(* two of them are ever inside write sections (rwMutexWriteLock) at once.  *)
THEOREM WritersExclude == Spec => []WriterExclusion
<1>1. LockInv => WriterExclusion
  BY DEF LockInv, WriterOwns, WriterExclusion
<1>2. QED
  BY <1>1, LockInvHolds, PTL

-----------------------------------------------------------------------------
(* Where one thread at most reads, it is always the first reader in and    *)
(* the last one out: it takes the mutex itself and still owns it when it   *)
(* leaves.                                                                 *)
ReaderOwns == \A r \in readers \cup Leaving : owner = r
SingleInv ==
  /\ readers \cup Waiting \cup Leaving \subseteq readerThreads
  /\ SingleReader => ~aborted /\ ReaderOwns

LEMMA InitSingleInv == Init => SingleInv
BY DEF Init, SingleInv, ReaderOwns, Waiting, Leaving

LEMMA NextReadersAllowed ==
  ASSUME LockInv, SingleInv, [Next]_vars
  PROVE  (readers \cup Waiting \cup Leaving \subseteq readerThreads)' /\ readerThreads' = readerThreads
<1> USE DEF LockInv, TypeOK, SingleInv, Waiting, Leaving
<1>1. CASE UNCHANGED vars
  BY <1>1 DEF vars
<1>2. ASSUME NEW t \in Threads,
             \/ ReadLock(t) \/ ReadLockAcquire(t) \/ ReadUnlock(t)
             \/ ReadUnlockRelease(t) \/ WriteLock(t) \/ WriteUnlock(t)
      PROVE  (readers \cup Waiting \cup Leaving \subseteq readerThreads)' /\ readerThreads' = readerThreads
  BY <1>2 DEF ReadLock, ReadLockAcquire, ReadUnlock, ReadUnlockRelease, WriteLock,
              WriteUnlock, Running
<1>3. QED
  BY <1>1, <1>2 DEF Next, Gone

LEMMA NextReaderOwns ==
  ASSUME LockInv, SingleInv, [Next]_vars, SingleReader
  PROVE  ~aborted' /\ ReaderOwns'
<1> USE DEF LockInv, TypeOK, SingleInv, SingleReader
<1>0. ~aborted /\ ReaderOwns /\ Accounting
      /\ readers \cup Waiting \cup Leaving \subseteq readerThreads
  OBVIOUS
<1>1. ASSUME NEW t \in Threads, ReadLock(t) PROVE ~aborted' /\ ReaderOwns'
  <2>1. In = {}
    BY <1>0, <1>1 DEF ReadLock, Running, In, Waiting
  <2>2. counter = 0
    BY <1>0, <2>1, FS_EmptySet DEF In, Accounting
  <2>3. readers' = readers /\ Leaving' \in SUBSET Leaving /\ owner' = owner
    BY <1>1, <2>2 DEF ReadLock, EntersFirst, FirstIn, Leaving
  <2>4. QED
    BY <1>0, <1>1, <2>3 DEF ReadLock, ReaderOwns
<1>2. ASSUME NEW t \in Threads, ReadLockAcquire(t) PROVE ~aborted' /\ ReaderOwns'
  <2>1. readers \cup Leaving \subseteq {t}
    BY <1>0, <1>2 DEF ReadLockAcquire, Waiting
  <2>2. owner' = t /\ readers' = readers \cup {t} /\ Leaving' \in SUBSET Leaving
    BY <1>2 DEF ReadLockAcquire, MutexLock, Leaving
  <2>3. QED
    BY <1>0, <1>2, <2>1, <2>2 DEF ReadLockAcquire, ReaderOwns
<1>3. ASSUME NEW t \in Threads, ReadUnlock(t) PROVE ~aborted' /\ ReaderOwns'
  <2>1. Leaving' \in SUBSET (Leaving \cup {t}) /\ t \in readers
        /\ readers' \in SUBSET readers /\ owner' = owner
    BY <1>3 DEF ReadUnlock, Leaving
  <2>2. QED
    BY <1>0, <1>3, <2>1 DEF ReadUnlock, ReaderOwns
<1>4. ASSUME NEW t \in Threads, ReadUnlockRelease(t) PROVE ~aborted' /\ ReaderOwns'
  <2>1. t \in Leaving /\ owner = t
    BY <1>0, <1>4 DEF ReadUnlockRelease, Leaving, ReaderOwns
  <2>2. readers' = {} /\ Leaving' = {}
    BY <1>0, <1>4, <2>1 DEF ReadUnlockRelease, Leaving, Accounting
  <2>3. ~aborted'
    BY <1>0, <1>4, <2>1 DEF ReadUnlockRelease, AssertUnlock
  <2>4. QED
    BY <2>2, <2>3 DEF ReaderOwns
<1>5. ASSUME NEW t \in Threads, WriteLock(t) PROVE ~aborted' /\ ReaderOwns'
  <2>1. readers' = readers /\ Leaving' = Leaving /\ owner' = t /\ owner \in {NoThread, t}
    BY <1>5 DEF WriteLock, MutexLock, Leaving
  <2>2. readers \cup Leaving \in SUBSET Threads
    BY DEF Leaving
  <2>3. QED
    BY <1>0, <1>5, <2>1, <2>2, ThreadsAssumption DEF WriteLock, ReaderOwns
<1>6. ASSUME NEW t \in Threads, WriteUnlock(t) PROVE ~aborted' /\ ReaderOwns'
  <2>1. owner = t
    BY <1>6 DEF WriteUnlock, WriterOwns
  <2>2. readers = {} /\ Leaving = {}
    BY <1>0, <1>6, <2>1 DEF WriteUnlock, Running, ReaderOwns, Leaving
  <2>3. readers' = {} /\ Leaving' = {}
    BY <1>6, <2>2 DEF WriteUnlock, Leaving
  <2>4. ~aborted'
    BY <1>0, <1>6, <2>1 DEF WriteUnlock, AssertUnlock
  <2>5. QED
    BY <2>3, <2>4 DEF ReaderOwns
<1>7. CASE UNCHANGED vars
  BY <1>0, <1>7 DEF vars, ReaderOwns, Leaving
<1>8. QED
  BY <1>0, <1>1, <1>2, <1>3, <1>4, <1>5, <1>6, <1>7 DEF Next, Gone

(* A mutex that one thread alone reads under is a correct reader-writer    *)
(* lock: the reader meets no writer, and no unlock assertion of rwMutex.c  *)
(* fails.                                                                  *)
THEOREM SingleReaderIsSafe == Spec => []SingleReaderSafe
<1>1. Init => SingleInv
  BY InitSingleInv
<1>2. LockInv /\ SingleInv /\ [Next]_vars => SingleInv'
  <2> SUFFICES ASSUME LockInv, SingleInv, [Next]_vars PROVE SingleInv'
    OBVIOUS
  <2>1. (readers \cup Waiting \cup Leaving \subseteq readerThreads)' /\ readerThreads' = readerThreads
    BY NextReadersAllowed
  <2>2. SingleReader' => SingleReader
    BY <2>1 DEF SingleReader
  <2>3. SingleReader => ~aborted' /\ ReaderOwns'
    BY NextReaderOwns
  <2>4. QED
    BY <2>1, <2>2, <2>3 DEF SingleInv
<1>3. LockInv /\ SingleInv => SingleReaderSafe
  BY DEF LockInv, WriterOwns, SingleInv, ReaderOwns, SingleReaderSafe,
         ReaderExclusion, NoFailedAssert
<1>4. QED
  BY <1>1, <1>2, <1>3, LockInvHolds, PTL DEF Spec
=============================================================================
