------------------------------- MODULE Queue --------------------------------
(***************************************************************************)
(* The queue of src/src/collections/queue.c: an array and its size, under  *)
(* the write lock of RWMutex, shared by threads.  What a thread does with  *)
(* the lock held is two steps, so that what others do without it falls in  *)
(* between: the size is looked at without the lock, by queueSize, by the   *)
(* loop of queueWaitAndPop and by the assertion of queuePop.               *)
(*                                                                         *)
(* Each value is pushed once.  A consumer looks whether there is anything  *)
(* before it pops, as all callers of queuePop do.                          *)
(***************************************************************************)
EXTENDS Naturals, Sequences, SequencesExt

CONSTANTS
  Threads,
  NoThread,   (* nobody                                                    *)
  Values,     (* what is pushed                                            *)
  NoValue     (* NULL                                                      *)

ASSUME NobodyAssumption == NoThread \notin Threads /\ NoValue \notin Values

VARIABLES
  values, size,   (* queue->values and queue->size                         *)
  destroyed,      (* queue->destroyed                                      *)
  holder,         (* who holds the lock to write                           *)
  pc,             (* where a thread is in which operation                  *)
  value,          (* the value it pushes or has popped                     *)
  consumers,      (* the threads that pop and clear: it never changes      *)
  pushed,         (* the values that pushing has begun for                 *)
  delivered,      (* history: what was popped, in order, till the end      *)
  cleared,        (* history: what was cleared                             *)
  failed          (* the assertion that ended the process, or "none"       *)

queue == <<values, size, destroyed>>
past  == <<pushed, delivered, cleared>>
vars  == <<queue, holder, pc, value, consumers, past, failed>>

Steps == {"idle", "push", "store", "wait", "look", "pop", "drop", "clear", "free"}

TypeOK ==
  /\ values \in Seq(Values) /\ size \in Nat /\ destroyed \in BOOLEAN
  /\ holder \in Threads \cup {NoThread}
  /\ pc \in [Threads -> Steps]
  /\ value \in [Threads -> Values \cup {NoValue}]
  /\ consumers \in SUBSET Threads
  /\ pushed \in SUBSET Values
  /\ delivered \in Seq(Values) /\ cleared \in SUBSET Values
  /\ failed \in {"none", "destroyed", "size", "values"}

(* queueInitExtra *)
Init ==
  /\ values = <<>> /\ size = 0 /\ destroyed = FALSE
  /\ holder = NoThread
  /\ pc = [t \in Threads |-> "idle"] /\ value = [t \in Threads |-> NoValue]
  /\ consumers \in (SUBSET Threads) \ {{}}
  /\ pushed = {} /\ delivered = <<>> /\ cleared = {}
  /\ failed = "none"

-----------------------------------------------------------------------------
Alive == failed = "none"
Goes(t, step) == pc' = [pc EXCEPT ![t] = step]

Abort(assertion) ==
  /\ failed' = assertion
  /\ UNCHANGED <<queue, holder, pc, value, consumers, past>>

(* A thread is at a step of an operation of a queue that is still there. *)
At(t, step) == Alive /\ ~destroyed /\ pc[t] = step

(* A thread calls an operation on a queue that must not be destroyed. *)
Calls(t, step) ==
  /\ Alive /\ pc[t] = "idle"
  /\ \/ /\ ~destroyed
        /\ Goes(t, step)
        /\ UNCHANGED <<queue, holder, consumers, delivered, cleared, failed>>
     \/ destroyed /\ Abort("destroyed")

(* rwMutexWriteLock, and its Unlock as the last of an operation. *)
LockFree == holder = NoThread
LockIgnored == TRUE

Free == LockFree

Enter(t) == Free /\ holder' = t
Leave(t) == holder' = NoThread /\ Goes(t, "idle")

-----------------------------------------------------------------------------
(* queuePush *)
PushCalled(t) ==
  \E v \in Values \ pushed :
    /\ Calls(t, "push")
    /\ Alive' => pushed' = pushed \cup {v} /\ value' = [value EXCEPT ![t] = v]

(* ++(queue->size) comes first... *)
PushGrows(t) ==
  /\ At(t, "push") /\ Enter(t)
  /\ size' = size + 1
  /\ Goes(t, "store")
  /\ UNCHANGED <<values, destroyed, value, consumers, past, failed>>

(* ...and the value is stored in the new last place. *)
PushStores(t) ==
  /\ At(t, "store")
  /\ values' = Append(values, value[t])
  /\ Leave(t)
  /\ UNCHANGED <<size, destroyed, value, consumers, past, failed>>

(* queueWaitAndPop, or a caller that asks queueSize in a loop of its own. *)
WaitCalled(t) ==
  /\ t \in consumers
  /\ Calls(t, "look")
  /\ Alive' => value' = [value EXCEPT ![t] = NoValue] /\ UNCHANGED pushed

SomethingThere == size > 0
AnythingThere == size >= 0

Sees == SomethingThere

Looks(t) ==
  /\ At(t, "look")
  /\ Goes(t, IF Sees THEN "pop" ELSE "wait")
  /\ UNCHANGED <<queue, holder, value, consumers, past, failed>>

(* It looks again, or returns nothing because of its time-out. *)
Waits(t) ==
  /\ At(t, "wait")
  /\ Goes(t, "look") \/ Goes(t, "idle")
  /\ UNCHANGED <<queue, holder, value, consumers, past, failed>>

(* queuePop: without the lock, that there is something... *)
PopAsserts(t) ==
  /\ At(t, "pop") /\ size = 0
  /\ Abort("size")

(* ...with it, that there is an array; its first value is the one... *)
FirstIn == Head(values)
LastIn == Last(values)
NotRead == NoValue

NextOut == FirstIn

PopReads(t) ==
  /\ At(t, "pop") /\ size > 0 /\ Free
  /\ \/ /\ values # <<>> /\ Enter(t)
        /\ value' = [value EXCEPT ![t] = NextOut]
        /\ Goes(t, "drop")
        /\ UNCHANGED <<queue, consumers, past, failed>>
     \/ values = <<>> /\ Abort("values")

(* ...and what is copied to the new array are the others, unless there is  *)
(* none (!newSize).                                                        *)
AllOthers == Tail(values)
NoneOfTwo == IF size <= 2 THEN <<>> ELSE Tail(values)

Others == AllOthers

PopDrops(t) ==
  /\ At(t, "drop")
  /\ values' = Others
  /\ size' = Len(Others)
  /\ delivered' = Append(delivered, value[t])
  /\ Leave(t)
  /\ UNCHANGED <<destroyed, value, consumers, pushed, cleared, failed>>

(* queueClear, by a consumer; an empty queue stays as it is. *)
ClearCalled(t) ==
  /\ t \in consumers /\ size > 0
  /\ Calls(t, "clear")
  /\ Alive' => UNCHANGED <<value, pushed>>

ResetSize == size' = 0
KeepSize == UNCHANGED size

ClearSize == ResetSize

ClearResets(t) ==
  /\ At(t, "clear") /\ Enter(t)
  /\ ClearSize
  /\ Goes(t, "free")
  /\ UNCHANGED <<values, destroyed, value, consumers, past, failed>>

ClearFrees(t) ==
  /\ At(t, "free")
  /\ values' = <<>>
  /\ cleared' = cleared \cup Range(values)
  /\ Leave(t)
  /\ UNCHANGED <<size, destroyed, value, consumers, pushed, delivered, failed>>

(* queueDestroy takes no lock and asks nobody: others may be anywhere in   *)
(* an operation, as the async thread is when netClean destroys the queue   *)
(* it waits for.                                                           *)
Destroy(t) ==
  /\ At(t, "idle")
  /\ pushed = Values    \* bound: after all pushes have begun
  /\ destroyed' = TRUE
  /\ cleared' = cleared \cup Range(values)
  /\ values' = <<>> /\ size' = 0
  /\ UNCHANGED <<holder, pc, value, consumers, pushed, delivered, failed>>

(* Queue, array and lock are freed then.  A thread that is inside sees     *)
(* that the queue is destroyed and returns, fails an assertion, or works   *)
(* on memory that is not the queue's any more, which may end the process   *)
(* or come to nothing.                                                     *)
UsesFreed(t) ==
  /\ Alive /\ destroyed /\ pc[t] # "idle"
  /\ \/ Abort("destroyed")
     \/ /\ Goes(t, "idle")
        /\ holder' = IF holder = t THEN NoThread ELSE holder
        /\ UNCHANGED <<queue, value, consumers, past, failed>>

-----------------------------------------------------------------------------
Step(t) ==
  \/ PushGrows(t) \/ PushStores(t) \/ Looks(t) \/ Waits(t)
  \/ PopAsserts(t) \/ PopReads(t) \/ PopDrops(t) \/ ClearResets(t) \/ ClearFrees(t)
  \/ UsesFreed(t)

(* A failed assertion has ended the process. *)
Rest == ~Alive /\ UNCHANGED vars

Next ==
  \/ \E t \in Threads :
       PushCalled(t) \/ WaitCalled(t) \/ ClearCalled(t) \/ Step(t) \/ Destroy(t)
  \/ Rest

Spec == Init /\ [][Next]_vars

(* An operation that was called goes on, and a consumer waits anew. *)
FairSpec == Spec /\ \A t \in Threads : WF_vars(Step(t)) /\ WF_vars(WaitCalled(t))

-----------------------------------------------------------------------------
(* Correctness.                                                            *)

(* The queue is a Fifo, whoever pushes, pops and clears: no value is       *)
(* handed out twice, out of order or made up, though the array is copied   *)
(* for every pop.                                                          *)
Promise == INSTANCE Fifo WITH contents <- values, delivered <- delivered
FifoHolds == Promise!Spec

(* Outside the operations size and array agree: who looks at the size      *)
(* without the lock is wrong only while somebody is inside.                *)
SizeAgrees == LockFree => size = Len(values)

(* One consumer's look is still true when it pops: no assertion fails      *)
(* before the queue is destroyed.  With two (userIdsToFetchMessagesFrom    *)
(* has them, logic.c:327 and 358) or with another thread that clears, the  *)
(* two steps of queue.c:90 may find nothing.                               *)
OneConsumer == \E t \in Threads : consumers = {t}
OneConsumerSafe == OneConsumer /\ ~destroyed => Alive

(* What is pushed is handed out in the end, if one consumer goes on asking *)
(* and nobody clears: a job that is queued is run.                         *)
Gone(v) == v \in Range(delivered) \cup cleared
Delivered == \A v \in Values : v \in Range(values) ~> (Gone(v) \/ ~Alive)
=============================================================================
