------------------------------ MODULE RWMutex ------------------------------
(***************************************************************************)
(* The lock of src/src/utils/rwMutex.c: an atomic counter of readers over  *)
(* one recursive SDL mutex.  The first reader in takes the mutex, the last *)
(* reader out gives it back, whoever that is; a writer takes the mutex.    *)
(*                                                                         *)
(* Every atomic step of a thread is an action: the counter's increment or  *)
(* decrement is one, the SDL_LockMutex or SDL_UnlockMutex that may follow  *)
(* is another.  A read section takes nothing else (every user of           *)
(* RW_MUTEX_READ_LOCKED copies a value out); a write section may nest      *)
(* further sections of the same mutex, as render.c's drawPage does when it *)
(* calls back into the logic module.                                       *)
(***************************************************************************)
EXTENDS Integers, FiniteSets

CONSTANTS
  Threads,   (* the UI thread, the async thread, the net thread            *)
  NoThread,  (* the owner of a mutex nobody holds                          *)
  MaxNest    (* bound on how deep one thread nests write sections          *)

ASSUME ThreadsAssumption == IsFiniteSet(Threads) /\ NoThread \notin Threads
ASSUME MaxNestAssumption == MaxNest \in Nat

VARIABLES
  counter,       (* rwMutex->counter                                       *)
  owner, depth,  (* the recursive mutex: who holds it and how many times   *)
  pc,            (* where a thread is inside rwMutexReadLock / ReadUnlock  *)
  readers,       (* the threads inside a read section                      *)
  writes,        (* how many write sections a thread is inside             *)
  readerThreads, (* the threads whose code takes this lock for reading: it *)
                 (* never changes, each user of the module has its own     *)
  aborted        (* an assert of rwMutex.c failed: the process is gone     *)

vars == <<counter, owner, depth, pc, readers, writes, readerThreads, aborted>>

TypeOK ==
  /\ counter \in Nat
  /\ owner \in Threads \cup {NoThread}
  /\ depth \in Nat
  /\ pc \in [Threads -> {"run", "lockRead", "unlockRead"}]
  /\ readers \in SUBSET Threads
  /\ writes \in [Threads -> Nat]
  /\ readerThreads \in SUBSET Threads
  /\ aborted \in BOOLEAN

(* rwMutexInit *)
Init ==
  /\ counter = 0
  /\ owner = NoThread /\ depth = 0
  /\ pc = [t \in Threads |-> "run"]
  /\ readers = {}
  /\ writes = [t \in Threads |-> 0]
  /\ readerThreads \in SUBSET Threads
  /\ aborted = FALSE

-----------------------------------------------------------------------------
(* SDL's recursive mutex.                                                  *)

(* SDL_LockMutex: blocks (is not enabled) while another thread holds it. *)
MutexLock(t) ==
  /\ owner \in {NoThread, t}
  /\ owner' = t
  /\ depth' = depth + 1

(* SDL_UnlockMutex by the thread that holds it. *)
MutexUnlock(t) ==
  /\ owner' = IF depth = 1 THEN NoThread ELSE t
  /\ depth' = depth - 1

(* assert(!SDL_UnlockMutex(mutex)): the call fails, and the assertion with  *)
(* it, when the caller does not hold the mutex.                             *)
AssertUnlock(t) ==
  \/ owner = t /\ MutexUnlock(t) /\ UNCHANGED aborted
  \/ owner # t /\ aborted' = TRUE /\ UNCHANGED <<owner, depth>>

-----------------------------------------------------------------------------
(* The operations.  A thread at "run" is in its own code, inside whatever  *)
(* sections it has entered.                                                *)

Running(t) == ~aborted /\ pc[t] = "run" /\ t \notin readers

(* ++counter == 1: only then does the reader go for the mutex. *)
FirstIn(n) == n + 1 = 1
FirstInOffByOne(n) == n = 1

EntersFirst(n) == FirstIn(n)

ReadLock(t) ==
  /\ Running(t) /\ t \in readerThreads
  /\ counter' = counter + 1
  /\ IF EntersFirst(counter)
       THEN pc' = [pc EXCEPT ![t] = "lockRead"] /\ UNCHANGED readers
       ELSE readers' = readers \cup {t} /\ UNCHANGED pc
  /\ UNCHANGED <<owner, depth, writes, readerThreads, aborted>>

ReadLockAcquire(t) ==
  /\ ~aborted /\ pc[t] = "lockRead"
  /\ MutexLock(t)
  /\ pc' = [pc EXCEPT ![t] = "run"]
  /\ readers' = readers \cup {t}
  /\ UNCHANGED <<counter, writes, readerThreads, aborted>>

(* --counter == 0: only then does the reader release the mutex. *)
LastOut(n) == n - 1 = 0
LastOutOffByOne(n) == n - 1 <= 1

LeavesLast(n) == LastOut(n)

ReadUnlock(t) ==
  /\ ~aborted /\ pc[t] = "run" /\ t \in readers
  /\ counter' = counter - 1
  /\ readers' = readers \ {t}
  /\ pc' = [pc EXCEPT ![t] = IF LeavesLast(counter) THEN "unlockRead" ELSE "run"]
  /\ UNCHANGED <<owner, depth, writes, readerThreads, aborted>>

ReadUnlockRelease(t) ==
  /\ ~aborted /\ pc[t] = "unlockRead"
  /\ AssertUnlock(t)
  /\ pc' = [pc EXCEPT ![t] = "run"]
  /\ UNCHANGED <<counter, readers, writes, readerThreads>>

WriteLock(t) ==
  /\ Running(t) /\ writes[t] < MaxNest
  /\ MutexLock(t)
  /\ writes' = [writes EXCEPT ![t] = @ + 1]
  /\ UNCHANGED <<counter, pc, readers, readerThreads, aborted>>

WriteUnlock(t) ==
  /\ Running(t) /\ writes[t] > 0
  /\ AssertUnlock(t)
  /\ writes' = [writes EXCEPT ![t] = @ - 1]
  /\ UNCHANGED <<counter, pc, readers, readerThreads>>

(* A failed assertion ends the process: nothing happens any more. *)
Gone == aborted /\ UNCHANGED vars

Next ==
  \/ \E t \in Threads :
       \/ ReadLock(t) \/ ReadLockAcquire(t)
       \/ ReadUnlock(t) \/ ReadUnlockRelease(t)
       \/ WriteLock(t) \/ WriteUnlock(t)
  \/ Gone

Spec == Init /\ [][Next]_vars

-----------------------------------------------------------------------------
(* Correctness.                                                            *)

(* Two threads are never inside write sections at once, however read       *)
(* sections of any threads, their own nested ones included, are released   *)
(* in between: a reader's release never gives away a writer's mutex.       *)
WriterExclusion ==
  \A t, u \in Threads : writes[t] > 0 /\ writes[u] > 0 => t = u

(* What a reader-writer lock promises and list.h:25 and queue.h:24 call    *)
(* thread-safe: nobody else is writing while a thread reads.               *)
ReaderExclusion ==
  \A r \in readers, t \in Threads : writes[t] > 0 => t = r

(* The assertions on SDL_UnlockMutex (rwMutex.c:46 and 56) never fail.     *)
NoFailedAssert == ~aborted

(* The lock does keep its promises where only one thread ever reads under  *)
(* it: no reader meets a writer, and the unlock assertions hold.           *)
SingleReader == \A t, u \in readerThreads : t = u
SingleReaderSafe == SingleReader => ReaderExclusion /\ NoFailedAssert

-----------------------------------------------------------------------------
(* The inductive invariant behind WriterExclusion: it accounts for every   *)
(* level of the recursive mutex.                                           *)
Waiting == {t \in Threads : pc[t] = "lockRead"}
Leaving == {t \in Threads : pc[t] = "unlockRead"}

(* The level taken by the first reader, which stays after that reader has  *)
(* left and until the last one does.                                       *)
ReadersLevel == IF counter > 0 /\ Waiting = {} THEN 1 ELSE 0
WritersLevel == IF owner = NoThread THEN 0 ELSE writes[owner]

Accounting ==
  /\ counter = Cardinality(readers \cup Waiting)
  /\ \A t \in readers : pc[t] = "run"
  /\ \A t, u \in Waiting : t = u
  /\ depth = ReadersLevel + Cardinality(Leaving) + WritersLevel
  /\ depth = 0 <=> owner = NoThread

WriterOwns == \A t \in Threads : writes[t] > 0 => owner = t

LockInv == TypeOK /\ WriterOwns /\ (~aborted => Accounting)
=============================================================================
