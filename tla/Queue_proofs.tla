---------------------------- MODULE Queue_proofs ----------------------------
(***************************************************************************)
(* The queue implements Fifo for any threads, values and consumers, its    *)
(* size is right whenever nobody is inside, and one consumer's pops never  *)
(* fail an assertion.                                                      *)
(***************************************************************************)
EXTENDS Queue, TLAPS

(* Between the two steps of an operation a thread holds the lock, and      *)
(* nobody does otherwise.                                                  *)
Inside(t) == pc[t] \in {"store", "drop", "free"}
Holding == \A t \in Threads : Inside(t) <=> holder = t

(* What a thread has in its hands. *)
Carries ==
  \A t \in Threads :
    /\ pc[t] \in {"push", "store"} => value[t] \in Values
    /\ pc[t] = "drop" /\ ~destroyed => values # <<>> /\ value[t] = Head(values)

(* How the size and the array compare within each operation. *)
Sized ==
  /\ SizeAgrees
  /\ destroyed => size = 0 /\ values = <<>>
  /\ ~destroyed => \A t \in Threads :
       /\ pc[t] = "store" => size = Len(values) + 1
       /\ pc[t] = "drop" => size = Len(values)
       /\ pc[t] = "free" => size = 0

QueueInv == TypeOK /\ Holding /\ Carries /\ Sized

(* Only a consumer pops or clears, and one that is alone finds what it has *)
(* seen.                                                                   *)
Consuming(t) == pc[t] \in {"wait", "look", "pop", "drop", "clear", "free"}
OnlyConsumers == \A t \in Threads : Consuming(t) => t \in consumers
Finds ==
  OneConsumer /\ ~destroyed =>
    Alive /\ \A t \in Threads : pc[t] = "pop" => size > 0

ConsumerInv == OnlyConsumers /\ Finds

-----------------------------------------------------------------------------
LEMMA InitQueueInv == Init => QueueInv
<1> SUFFICES ASSUME Init PROVE QueueInv
  OBVIOUS
<1> USE NobodyAssumption DEF Init
<1>1. consumers \in SUBSET Threads
  OBVIOUS
<1>2. TypeOK
  <2>1. pc \in [Threads -> Steps] /\ value \in [Threads -> Values \cup {NoValue}]
    BY DEF Steps
  <2>2. values \in Seq(Values) /\ delivered \in Seq(Values)
    OBVIOUS
  <2>3. QED
    BY <1>1, <2>1, <2>2 DEF TypeOK
<1>3. \A t \in Threads : pc[t] = "idle" /\ holder # t
  OBVIOUS
<1>4. Holding /\ Carries /\ Sized
  BY <1>3 DEF Holding, Inside, Carries, Sized, SizeAgrees
<1>5. QED
  BY <1>2, <1>4 DEF QueueInv

(* A thread inside is the only one, and the lock is taken. *)
LEMMA Alone ==
  ASSUME TypeOK, Holding, NEW t \in Threads, Inside(t)
  PROVE  holder = t /\ \A u \in Threads \ {t} : ~Inside(u)
BY DEF Holding

LEMMA NobodyInside ==
  ASSUME Holding, holder = NoThread
  PROVE  \A u \in Threads : ~Inside(u)
BY NobodyAssumption DEF Holding

LEMMA Contents ==
  ASSUME NEW s \in Seq(Values)
  PROVE  /\ Range(s) \subseteq Values
         /\ Len(s) \in Nat
         /\ s = <<>> <=> Len(s) = 0
         /\ s # <<>> => /\ Head(s) \in Values
                        /\ Tail(s) \in Seq(Values) /\ Len(Tail(s)) = Len(s) - 1
         /\ \A v \in Values : Append(s, v) \in Seq(Values) /\ Len(Append(s, v)) = Len(s) + 1
BY DEF Range

LEMMA NextTypeOK == QueueInv /\ [Next]_vars => TypeOK'
<1> SUFFICES ASSUME QueueInv, [Next]_vars PROVE TypeOK'
  OBVIOUS
<1> USE DEF QueueInv, TypeOK, Steps, At
<1>1. ASSUME NEW t \in Threads, PushCalled(t) PROVE TypeOK'
  BY <1>1 DEF PushCalled, Calls, Abort, Goes, Alive, queue, past
<1>2. ASSUME NEW t \in Threads, WaitCalled(t) PROVE TypeOK'
  BY <1>2 DEF WaitCalled, Calls, Abort, Goes, Alive, queue, past
<1>3. ASSUME NEW t \in Threads, ClearCalled(t) PROVE TypeOK'
  BY <1>3 DEF ClearCalled, Calls, Abort, Goes, Alive, queue, past
<1>4. ASSUME NEW t \in Threads, PushGrows(t) PROVE TypeOK'
  BY <1>4 DEF PushGrows, Enter, Goes, past
<1>5. ASSUME NEW t \in Threads, PushStores(t) PROVE TypeOK'
  BY <1>5, Contents DEF PushStores, Leave, Goes, past, Carries
<1>6. ASSUME NEW t \in Threads, Looks(t) PROVE TypeOK'
  BY <1>6 DEF Looks, Abort, Goes, queue, past
<1>7. ASSUME NEW t \in Threads, Waits(t) PROVE TypeOK'
  BY <1>7 DEF Waits, Goes, queue, past
<1>8. ASSUME NEW t \in Threads, PopAsserts(t) PROVE TypeOK'
  BY <1>8 DEF PopAsserts, Abort, queue, past
<1>9. ASSUME NEW t \in Threads, PopReads(t) PROVE TypeOK'
  BY <1>9, Contents DEF PopReads, Enter, Abort, Goes, NextOut, FirstIn, queue, past
<1>10. ASSUME NEW t \in Threads, PopDrops(t) PROVE TypeOK'
  <2>1. values # <<>> /\ value[t] \in Values
    BY <1>10, Contents DEF PopDrops, Carries
  <2>2. values' \in Seq(Values) /\ size' \in Nat /\ delivered' \in Seq(Values)
    BY <1>10, <2>1, Contents DEF PopDrops, Others, AllOthers
  <2>3. QED
    BY <1>10, <2>2 DEF PopDrops, Leave, Goes
<1>11. ASSUME NEW t \in Threads, ClearResets(t) PROVE TypeOK'
  BY <1>11 DEF ClearResets, ClearSize, ResetSize, Enter, Goes, past
<1>12. ASSUME NEW t \in Threads, ClearFrees(t) PROVE TypeOK'
  BY <1>12, Contents DEF ClearFrees, Leave, Goes
<1>13. ASSUME NEW t \in Threads, Destroy(t) PROVE TypeOK'
  BY <1>13, Contents DEF Destroy
<1>14. ASSUME NEW t \in Threads, UsesFreed(t) PROVE TypeOK'
  BY <1>14 DEF UsesFreed, Abort, Goes, queue, past
<1>15. CASE UNCHANGED vars
  BY <1>15 DEF vars, queue, past
<1>16. QED
  BY <1>1, <1>2, <1>3, <1>4, <1>5, <1>6, <1>7, <1>8, <1>9, <1>10, <1>11, <1>12,
     <1>13, <1>14, <1>15 DEF Next, Step, Rest

(* The lock, the hands and the sizes, action by action. *)
LEMMA NextInside == QueueInv /\ [Next]_vars => Holding' /\ Carries' /\ Sized'
<1> DEFINE Kept == Holding' /\ Carries' /\ Sized'
<1> SUFFICES ASSUME QueueInv, [Next]_vars PROVE Kept
  OBVIOUS
<1>0. TypeOK'
  BY NextTypeOK
<1> USE NobodyAssumption
    DEF QueueInv, TypeOK, Holding, Inside, Carries, Sized, SizeAgrees, LockFree, At
<1>1. ASSUME NEW t \in Threads, PushCalled(t) PROVE Kept
  BY <1>1 DEF PushCalled, Calls, Abort, Goes, Alive, queue, past
<1>2. ASSUME NEW t \in Threads, WaitCalled(t) PROVE Kept
  BY <1>2 DEF WaitCalled, Calls, Abort, Goes, Alive, queue, past
<1>3. ASSUME NEW t \in Threads, ClearCalled(t) PROVE Kept
  BY <1>3 DEF ClearCalled, Calls, Abort, Goes, Alive, queue, past
<1>4. ASSUME NEW t \in Threads, PushGrows(t) PROVE Kept
  BY <1>4, NobodyInside DEF PushGrows, Enter, Free, Goes, past
<1>5. ASSUME NEW t \in Threads, PushStores(t) PROVE Kept
  BY <1>5, Alone, Contents DEF PushStores, Leave, Goes, past
<1>6. ASSUME NEW t \in Threads, Looks(t) PROVE Kept
  BY <1>6 DEF Looks, Abort, Goes, queue, past
<1>7. ASSUME NEW t \in Threads, Waits(t) PROVE Kept
  BY <1>7 DEF Waits, Goes, queue, past
<1>8. ASSUME NEW t \in Threads, PopAsserts(t) PROVE Kept
  BY <1>8 DEF PopAsserts, Abort, queue, past
<1>9. ASSUME NEW t \in Threads, PopReads(t) PROVE Kept
  BY <1>9, NobodyInside DEF PopReads, Enter, Free, Abort, Goes, NextOut, FirstIn, queue, past
<1>10. ASSUME NEW t \in Threads, PopDrops(t) PROVE Kept
  BY <1>0, <1>10, Alone DEF PopDrops, Others, Leave, Goes
<1>11. ASSUME NEW t \in Threads, ClearResets(t) PROVE Kept
  BY <1>11, NobodyInside DEF ClearResets, ClearSize, ResetSize, Enter, Free, Goes, past
<1>12. ASSUME NEW t \in Threads, ClearFrees(t) PROVE Kept
  BY <1>12, Alone, Contents DEF ClearFrees, Leave, Goes
<1>13. ASSUME NEW t \in Threads, Destroy(t) PROVE Kept
  BY <1>13, Contents DEF Destroy
<1>14. ASSUME NEW t \in Threads, UsesFreed(t) PROVE Kept
  <2>1. CASE Abort("destroyed")
    BY <1>14, <2>1 DEF UsesFreed, Abort, queue, past
  <2>2. CASE /\ Goes(t, "idle")
             /\ holder' = IF holder = t THEN NoThread ELSE holder
             /\ UNCHANGED <<queue, value, consumers, past, failed>>
    <3>1. pc' = [pc EXCEPT ![t] = "idle"] /\ holder' # t
      BY <2>2 DEF Goes
    <3>2. Holding'
      BY <2>2, <3>1
    <3>3. Carries'
      BY <2>2, <3>1 DEF queue
    <3>4. Sized'
      BY <1>14, <2>2, <3>1 DEF UsesFreed, queue
    <3> QED
      BY <3>2, <3>3, <3>4
  <2> QED
    BY <1>14, <2>1, <2>2 DEF UsesFreed
<1>15. CASE UNCHANGED vars
  BY <1>15 DEF vars, queue, past
<1>16. QED
  BY <1>1, <1>2, <1>3, <1>4, <1>5, <1>6, <1>7, <1>8, <1>9, <1>10, <1>11, <1>12,
     <1>13, <1>14, <1>15 DEF Next, Step, Rest

(* The inductive invariant: types, the lock, what threads hold in their    *)
(* hands and how the size compares with the array at every step.           *)
THEOREM QueueInvHolds == Spec => []QueueInv
<1>1. QueueInv /\ [Next]_vars => QueueInv'
  BY NextTypeOK, NextInside DEF QueueInv
<1>2. QED
  BY <1>1, InitQueueInv, PTL DEF Spec

(* The types of queue.c's state (queuePush to queueDestroy keep them). *)
THEOREM TypesHold == Spec => []TypeOK
BY QueueInvHolds, PTL DEF QueueInv

(* While nobody is inside an operation, queueSize tells how many values    *)
(* the array holds.                                                        *)
THEOREM SizeIsRight == Spec => []SizeAgrees
BY QueueInvHolds, PTL DEF QueueInv, Sized

-----------------------------------------------------------------------------
(* Every step of the queue is one of Fifo, or none of its business.        *)
LEMMA NextFifo == QueueInv /\ [Next]_vars => [Promise!Next]_<<values, delivered>>
<1> SUFFICES ASSUME QueueInv, [Next]_vars PROVE [Promise!Next]_<<values, delivered>>
  OBVIOUS
<1> DEFINE Same == UNCHANGED <<values, delivered>>
<1> USE DEF queue, past, At
<1>1. ASSUME NEW t \in Threads, PushCalled(t) PROVE Same
  BY <1>1 DEF PushCalled, Calls, Abort
<1>2. ASSUME NEW t \in Threads, WaitCalled(t) PROVE Same
  BY <1>2 DEF WaitCalled, Calls, Abort, Alive
<1>3. ASSUME NEW t \in Threads, ClearCalled(t) PROVE Same
  BY <1>3 DEF ClearCalled, Calls, Abort
<1>4. ASSUME NEW t \in Threads, PushGrows(t) PROVE Same
  BY <1>4 DEF PushGrows
<1>5. ASSUME NEW t \in Threads, PushStores(t) PROVE \E v \in Values : Promise!Push(v)
  <2>1. value[t] \in Values
    BY <1>5 DEF PushStores, QueueInv, Carries
  <2>2. Promise!Push(value[t])
    BY <1>5 DEF PushStores, Promise!Push
  <2>3. QED
    BY <2>1, <2>2
<1>6. ASSUME NEW t \in Threads, Looks(t) PROVE Same
  BY <1>6 DEF Looks, Abort
<1>7. ASSUME NEW t \in Threads, Waits(t) PROVE Same
  BY <1>7 DEF Waits
<1>8. ASSUME NEW t \in Threads, PopAsserts(t) PROVE Same
  BY <1>8 DEF PopAsserts, Abort
<1>9. ASSUME NEW t \in Threads, PopReads(t) PROVE Same
  BY <1>9 DEF PopReads, Abort
<1>10. ASSUME NEW t \in Threads, PopDrops(t) PROVE Promise!Pop
  <2>1. values # <<>> /\ value[t] = Head(values)
    BY <1>10 DEF PopDrops, QueueInv, Carries
  <2>2. QED
    BY <1>10, <2>1 DEF PopDrops, Others, AllOthers, Promise!Pop
<1>11. ASSUME NEW t \in Threads, ClearResets(t) PROVE Same
  BY <1>11 DEF ClearResets
<1>12. ASSUME NEW t \in Threads, ClearFrees(t) PROVE Promise!Clear
  BY <1>12 DEF ClearFrees, Promise!Clear
<1>13. ASSUME NEW t \in Threads, Destroy(t) PROVE Promise!Clear
  BY <1>13 DEF Destroy, Promise!Clear
<1>14. ASSUME NEW t \in Threads, UsesFreed(t) PROVE Same
  BY <1>14 DEF UsesFreed, Abort
<1>15. CASE UNCHANGED vars
  BY <1>15 DEF vars
<1>16. QED
  BY <1>1, <1>2, <1>3, <1>4, <1>5, <1>6, <1>7, <1>8, <1>9, <1>10, <1>11, <1>12,
     <1>13, <1>14, <1>15 DEF Next, Step, Rest, Promise!Next

(* The queue implements Fifo, whoever pushes, pops and clears: no value is *)
(* handed out twice, out of order or made up.                              *)
THEOREM FifoIsImplemented == Spec => FifoHolds
<1>1. Init => Promise!Init
  BY DEF Init, Promise!Init
<1>2. QED
  BY <1>1, NextFifo, QueueInvHolds, PTL DEF Spec, FifoHolds, Promise!Spec

-----------------------------------------------------------------------------
LEMMA NextOnlyConsumers == QueueInv /\ OnlyConsumers /\ [Next]_vars => OnlyConsumers' /\ consumers' = consumers
<1> SUFFICES ASSUME QueueInv, OnlyConsumers, [Next]_vars
             PROVE  OnlyConsumers' /\ consumers' = consumers
  OBVIOUS
<1> USE DEF QueueInv, TypeOK, OnlyConsumers, Consuming, queue, past, At
<1>1. ASSUME NEW t \in Threads, PushCalled(t) \/ WaitCalled(t) \/ ClearCalled(t)
      PROVE  OnlyConsumers' /\ consumers' = consumers
  BY <1>1 DEF PushCalled, WaitCalled, ClearCalled, Calls, Abort, Goes, Alive
<1>2. ASSUME NEW t \in Threads, PushGrows(t) \/ PushStores(t) \/ ClearResets(t) \/ ClearFrees(t)
      PROVE  OnlyConsumers' /\ consumers' = consumers
  BY <1>2 DEF PushGrows, PushStores, ClearResets, ClearFrees, Leave, Goes
<1>3. ASSUME NEW t \in Threads, Looks(t) \/ Waits(t)
      PROVE  OnlyConsumers' /\ consumers' = consumers
  BY <1>3 DEF Looks, Waits, Abort, Goes
<1>4. ASSUME NEW t \in Threads, PopAsserts(t) \/ PopReads(t) \/ PopDrops(t)
      PROVE  OnlyConsumers' /\ consumers' = consumers
  BY <1>4 DEF PopAsserts, PopReads, PopDrops, Abort, Leave, Goes
<1>5. ASSUME NEW t \in Threads, Destroy(t)
      PROVE  OnlyConsumers' /\ consumers' = consumers
  BY <1>5 DEF Destroy
<1>6. ASSUME NEW t \in Threads, UsesFreed(t)
      PROVE  OnlyConsumers' /\ consumers' = consumers
  BY <1>6 DEF UsesFreed, Abort, Goes
<1>7. CASE UNCHANGED vars
  BY <1>7 DEF vars
<1>8. QED
  BY <1>1, <1>2, <1>3, <1>4, <1>5, <1>6, <1>7 DEF Next, Step, Rest

(* A single consumer: nobody else takes what it has seen. *)
LEMMA NextFinds == QueueInv /\ ConsumerInv /\ [Next]_vars => Finds'
<1> SUFFICES ASSUME QueueInv, ConsumerInv, [Next]_vars, OneConsumer', ~destroyed'
             PROVE  (Alive /\ \A t \in Threads : pc[t] = "pop" => size > 0)'
  BY DEF Finds
<1> DEFINE Good == (Alive /\ \A t \in Threads : pc[t] = "pop" => size > 0)'
<1>1. OneConsumer
  BY NextOnlyConsumers DEF OneConsumer, ConsumerInv
<1>2. PICK c \in Threads : consumers = {c}
  BY <1>1 DEF OneConsumer
<1>3. ~destroyed
  BY DEF Next, Step, Rest, PushCalled, WaitCalled, ClearCalled, Calls, Abort, PushGrows, PushStores,
         Looks, Waits, PopAsserts, PopReads, PopDrops, ClearResets, ClearFrees, Destroy, UsesFreed,
         vars, queue
<1>4. Alive /\ \A t \in Threads : pc[t] = "pop" => size > 0
  BY <1>1, <1>3 DEF ConsumerInv, Finds
<1>5. \A t \in Threads : Consuming(t) => t = c
  BY <1>2 DEF ConsumerInv, OnlyConsumers
<1> USE <1>3, <1>4 DEF QueueInv, TypeOK, Alive, queue, past, At
<1>6. ASSUME NEW t \in Threads, PushCalled(t) \/ WaitCalled(t) \/ ClearCalled(t) PROVE Good
  BY <1>6 DEF PushCalled, WaitCalled, ClearCalled, Calls, Goes
<1>7. ASSUME NEW t \in Threads, PushGrows(t) \/ PushStores(t) PROVE Good
  BY <1>7 DEF PushGrows, PushStores, Leave, Goes
<1>8. ASSUME NEW t \in Threads, Looks(t) \/ Waits(t) PROVE Good
  BY <1>8 DEF Looks, Waits, Goes, Sees, SomethingThere
<1>9. ASSUME NEW t \in Threads, PopAsserts(t) PROVE Good
  BY <1>9 DEF PopAsserts
<1>10. ASSUME NEW t \in Threads, PopReads(t) PROVE Good
  <2>1. values # <<>>
    BY <1>10, Contents DEF PopReads, Free, Sized, SizeAgrees
  <2>2. QED
    BY <1>10, <2>1 DEF PopReads, Enter, Goes
<1>11. ASSUME NEW t \in Threads, PopDrops(t) \/ ClearResets(t) \/ ClearFrees(t) PROVE Good
  <2>1. \A u \in Threads : pc'[u] # "pop"
    BY <1>5, <1>11 DEF PopDrops, ClearResets, ClearFrees, Leave, Goes, Consuming
  <2>2. QED
    BY <1>11, <2>1 DEF PopDrops, ClearResets, ClearFrees
<1>12. ASSUME NEW t \in Threads, Destroy(t) PROVE Good
  BY <1>12 DEF Destroy
<1>13. \A t \in Threads : ~UsesFreed(t)
  BY DEF UsesFreed
<1>14. CASE UNCHANGED vars
  BY <1>14 DEF vars
<1>15. QED
  BY <1>6, <1>7, <1>8, <1>9, <1>10, <1>11, <1>12, <1>13, <1>14 DEF Next, Step, Rest

(* One consumer's look is still true when it pops: no assertion of queue.c *)
(* fails before the queue is destroyed.                                    *)
THEOREM OneConsumerIsSafe == Spec => []OneConsumerSafe
<1>1. Init => ConsumerInv
  BY DEF Init, ConsumerInv, OnlyConsumers, Consuming, Finds, Alive
<1>2. QueueInv /\ ConsumerInv /\ [Next]_vars => ConsumerInv'
  BY NextOnlyConsumers, NextFinds DEF ConsumerInv
<1>3. ConsumerInv => OneConsumerSafe
  BY DEF ConsumerInv, Finds, OneConsumerSafe
<1>4. QED
  BY <1>1, <1>2, <1>3, QueueInvHolds, PTL DEF Spec
=============================================================================
