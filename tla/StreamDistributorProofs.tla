------------------------ MODULE StreamDistributorProofs ------------------------
(***************************************************************************)
(* Proofs about StreamDistributor, for any number of consumers, threads    *)
(* and frames and any queue sizes.                                         *)
(*                                                                         *)
(*   TypeOK /\ FrontExists          inductive together: TypeCorrect        *)
(*   NoSleepOverFrame               inductive given TypeOK                 *)
(*   QueueBounded                   inductive given the first two          *)
(*   NoOrphanWorker                 inductive given TypeOK                 *)
(*   FreshIds, then Ordered         the invariants behind DeliveredInOrder *)
(*   FramesAccountedFor             inductive given the first two and ids  *)
(*                                  that are fresh                         *)
(*   NothingPending                 behind NoFrameSkipped                  *)
(*                                                                         *)
(* The last part shows that StreamDistributor implements FrameFeed: no     *)
(* frame passes a registered consumer by, and none is delivered twice.     *)
(***************************************************************************)
EXTENDS StreamDistributor, SequenceTheorems, TLAPS

\* Arithmetic of the constants.
LEMMA Bounds ==
    /\ MaxFrames \in Nat
    /\ MaxConsumers \in Nat
    /\ NoId \notin Id
    /\ \A n \in 0 .. MaxConsumers : n < MaxConsumers => n \in Id /\ n + 1 \in 0 .. MaxConsumers
  BY ConstantsAssumption DEF Id, NoId

\* A queue holds at least one frame, whatever max_queue_size was asked for.
LEMMA CapacityPositive == \A i \in Id : Capacity(i) \in Nat \ {0}
  BY ConstantsAssumption DEF Capacity

\* Erasing the n-th element of a sequence keeps the others, in order.
LEMMA RemoveAtProperties ==
  ASSUME NEW S, NEW s \in Seq(S), NEW n \in 1 .. Len(s)
  PROVE  /\ RemoveAt(s, n) \in Seq(S)
         /\ Len(RemoveAt(s, n)) = Len(s) - 1
         /\ \A k \in 1 .. Len(s) - 1 :
               RemoveAt(s, n)[k] = IF k < n THEN s[k] ELSE s[k + 1]
<1> DEFINE left == SubSeq(s, 1, n - 1)
           right == SubSeq(s, n + 1, Len(s))
<1>1. /\ Len(s) \in Nat /\ n \in Nat
      /\ \A k \in 1 .. Len(s) : s[k] \in S
  BY LenProperties, ElementOfSeq
<1>2. /\ left \in Seq(S)
      /\ Len(left) = n - 1
      /\ \A k \in 1 .. n - 1 : left[k] = s[k]
  <2>1. \A k \in 1 .. n - 1 : s[k] \in S
    BY <1>1
  <2> QED
    BY <1>1, <2>1, SubSeqProperties
<1>3. /\ right \in Seq(S)
      /\ Len(right) = Len(s) - n
      /\ \A k \in 1 .. Len(s) - n : right[k] = s[n + k]
  <2>1. \A k \in n + 1 .. Len(s) : s[k] \in S
    BY <1>1
  <2> QED
    BY <1>1, <2>1, SubSeqProperties
<1>4. /\ left \o right \in Seq(S)
      /\ Len(left \o right) = (n - 1) + (Len(s) - n)
      /\ \A k \in 1 .. (n - 1) + (Len(s) - n) :
            (left \o right)[k] = IF k <= n - 1 THEN left[k] ELSE right[k - (n - 1)]
  <2> HIDE DEF left, right
  <2>1. Len(left) + Len(right) = (n - 1) + (Len(s) - n)
    BY <1>1, <1>2, <1>3
  <2>2. /\ left \o right \in Seq(S)
        /\ Len(left \o right) = Len(left) + Len(right)
        /\ \A k \in 1 .. Len(left) + Len(right) :
              (left \o right)[k] = IF k <= Len(left) THEN left[k] ELSE right[k - Len(left)]
    BY <1>2, <1>3, ConcatProperties
  <2> QED
    BY <1>2, <2>1, <2>2
<1> HIDE DEF left, right
<1>5. \A k \in 1 .. Len(s) - 1 :
         (left \o right)[k] = IF k < n THEN s[k] ELSE s[k + 1]
  <2> TAKE k \in 1 .. Len(s) - 1
  <2>1. CASE k < n
    <3>1. k \in 1 .. (n - 1) + (Len(s) - n) /\ k <= n - 1 /\ k \in 1 .. n - 1
      BY <1>1, <2>1
    <3>2. (left \o right)[k] = left[k]
      BY <1>4, <3>1
    <3> QED
      BY <1>2, <2>1, <3>1, <3>2
  <2>2. CASE ~(k < n)
    <3>1. /\ k \in 1 .. (n - 1) + (Len(s) - n) /\ ~(k <= n - 1)
          /\ k - (n - 1) \in 1 .. Len(s) - n /\ n + (k - (n - 1)) = k + 1
      BY <1>1, <2>2
    <3>2. right[k - (n - 1)] = s[k + 1]
      BY <1>3, <3>1
    <3>3. (left \o right)[k] = right[k - (n - 1)]
      BY <1>4, <3>1
    <3> QED
      BY <2>2, <3>2, <3>3
  <2> QED
    BY <2>1, <2>2
<1>6. RemoveAt(s, n) = left \o right
  BY DEF RemoveAt, left, right
<1> QED
  BY <1>1, <1>4, <1>5, <1>6

\* The distributor starts with no slot, no thread and no frame.
LEMMA InitType == Init => TypeOK
  BY ConstantsAssumption DEF Init, TypeOK, Id, NoId, WorkerState, ControlState

\* Adding to one of the counters of the slots.
LEMMA CounterUp ==
  ASSUME NEW f \in [Id -> Nat], NEW i \in Id, NEW n \in Nat
  PROVE  /\ [f EXCEPT ![i] = @ + n] \in [Id -> Nat]
         /\ [f EXCEPT ![i] = @ + 1] \in [Id -> Nat]
         /\ \A b \in BOOLEAN : [f EXCEPT ![i] = IF b THEN @ + 1 ELSE @] \in [Id -> Nat]
  OBVIOUS

\* The queue push() leaves behind holds frame numbers and fits.
LEMMA EnqueuedType ==
  ASSUME NEW i \in Id, queue[i] \in Seq(1 .. MaxFrames), frame \in 1 .. MaxFrames
  PROVE  /\ Enqueued(i) \in Seq(1 .. MaxFrames)
         /\ Len(Enqueued(i)) = IF QueueFull(i) THEN Len(queue[i]) ELSE Len(queue[i]) + 1
<1>1. Capacity(i) \in Nat \ {0}
  BY CapacityPositive
<1>2. Len(queue[i]) \in Nat
  BY LenProperties
<1>3. CASE QueueFull(i)
  <2>1. queue[i] # <<>>
    BY <1>1, <1>2, <1>3, EmptySeq DEF QueueFull
  <2>2. Tail(queue[i]) \in Seq(1 .. MaxFrames) /\ Len(Tail(queue[i])) = Len(queue[i]) - 1
    BY <2>1, HeadTailProperties
  <2> QED
    BY <1>2, <1>3, <2>2, AppendProperties DEF Enqueued
<1>4. CASE ~QueueFull(i)
  BY <1>2, <1>4, AppendProperties DEF Enqueued
<1> QED
  BY <1>3, <1>4

\* Every step of push(), of a worker, of a registration and of a removal keeps
\* the types; taking the front of a queue needs the queue to have one.
LEMMA NextType == TypeOK /\ FrontExists /\ [Next]_vars => TypeOK'
<1> SUFFICES ASSUME TypeOK, FrontExists, [Next]_vars
             PROVE  TypeOK'
  OBVIOUS
<1>1. CASE PushSnapshot
  BY <1>1, Bounds DEF PushSnapshot, TypeOK,
     slotVars, pushVars, ctrlVars, dtorVars, histVars
<1>2. CASE PushEnqueue
  <2>1. Head(snapshot) \in Id /\ frame \in 1 .. MaxFrames
    BY <1>2, Bounds, HeadTailProperties DEF PushEnqueue, TypeOK
  <2>2. Enqueued(Head(snapshot)) \in Seq(1 .. MaxFrames)
    BY <2>1, EnqueuedType DEF TypeOK
  <2>3. queue' \in [Id -> Seq(1 .. MaxFrames)]
    BY <1>2, <2>2 DEF PushEnqueue, TypeOK
  <2>4. dropped' \in [Id -> Nat] /\ offered' \in [Id -> Nat]
    BY <1>2, <2>1, CounterUp DEF PushEnqueue, TypeOK
  <2> QED
    BY <1>2, <2>1, <2>2, <2>3, <2>4 DEF PushEnqueue, TypeOK, slotVars, pushVars, ctrlVars, dtorVars, histVars
<1>3. CASE PushNotify
  <2>1. snapshot' \in Seq(Id)
    BY <1>3, HeadTailProperties DEF PushNotify, RestOfSnapshot, TypeOK
  <2>2. worker' \in [Id -> WorkerState]
    BY <1>3 DEF PushNotify, Notified, TypeOK, WorkerState
  <2>3. pusher' \in {"idle", "enqueue", "notify"} /\ (pusher' # "idle" => snapshot' # <<>> /\ frame' > 0)
    BY <1>3 DEF PushNotify, TypeOK
  <2> QED
    BY <1>3, <2>1, <2>2, <2>3 DEF PushNotify, TypeOK, slotVars, pushVars, ctrlVars, dtorVars, histVars
<1>4. ASSUME NEW i \in Id, WorkerLoop(i)
     PROVE  TypeOK'
  BY <1>4 DEF WorkerLoop, TypeOK, WorkerState, ControlState, Notified,
     slotVars, pushVars, ctrlVars, dtorVars, histVars
<1>5. ASSUME NEW i \in Id, WorkerTest(i)
     PROVE  TypeOK'
  BY <1>5 DEF WorkerTest, TypeOK, WorkerState, ControlState, Notified,
     slotVars, pushVars, ctrlVars, dtorVars, histVars
<1>6. ASSUME NEW i \in Id, WorkerPark(i)
     PROVE  TypeOK'
  BY <1>6 DEF WorkerPark, TypeOK, WorkerState, ControlState, Notified,
     slotVars, pushVars, ctrlVars, dtorVars, histVars
<1>7. ASSUME NEW i \in Id, SpuriousWakeup(i)
     PROVE  TypeOK'
  BY <1>7 DEF SpuriousWakeup, TypeOK, WorkerState, ControlState, Notified,
     slotVars, pushVars, ctrlVars, dtorVars, histVars
<1>8. ASSUME NEW i \in Id, WorkerBreak(i)
     PROVE  TypeOK'
  BY <1>8 DEF WorkerBreak, TypeOK, WorkerState, ControlState, Notified,
     slotVars, pushVars, ctrlVars, dtorVars, histVars
<1>9. ASSUME NEW i \in Id, WorkerTake(i)
     PROVE  TypeOK'
  <2>1. queue[i] # <<>>
    BY <1>9 DEF WorkerTake, FrontExists
  <2>2. Head(queue[i]) \in 1 .. MaxFrames /\ Tail(queue[i]) \in Seq(1 .. MaxFrames)
    BY <2>1, HeadTailProperties DEF TypeOK
  <2>3. Head(queue[i]) \in 0 .. MaxFrames
    BY <2>2, Bounds
  <2>4. seen' \in [Id -> 0 .. MaxFrames]
    BY <1>9, <2>3 DEF WorkerTake, TypeOK
  <2>5. queue' \in [Id -> Seq(1 .. MaxFrames)]
    BY <1>9, <2>2 DEF WorkerTake, TypeOK
  <2>6. worker' \in [Id -> WorkerState]
    BY <1>9 DEF WorkerTake, TypeOK, WorkerState
  <2> QED
    BY <1>9, <2>1, <2>2, <2>3, <2>4, <2>5, <2>6 DEF WorkerTake, TypeOK, slotVars, pushVars, ctrlVars, dtorVars, histVars
<1>10. ASSUME NEW i \in Id, CallbackReturns(i)
     PROVE  TypeOK'
  <2>1. consumed' \in [Id -> Nat]
    BY <1>10, CounterUp DEF CallbackReturns, TypeOK
  <2>2. worker' \in [Id -> WorkerState]
    BY <1>10 DEF CallbackReturns, TypeOK, WorkerState
  <2> QED
    BY <1>10, <2>1, <2>2 DEF CallbackReturns, TypeOK, slotVars, pushVars, ctrlVars, dtorVars, histVars
<1>11. ASSUME NEW i \in Id, CallbackThrows(i)
     PROVE  TypeOK'
  <2>1. failed' \in [Id -> Nat]
    BY <1>11, CounterUp DEF CallbackThrows, TypeOK
  <2>2. worker' \in [Id -> WorkerState]
    BY <1>11 DEF CallbackThrows, TypeOK, WorkerState
  <2> QED
    BY <1>11, <2>1, <2>2 DEF CallbackThrows, TypeOK, slotVars, pushVars, ctrlVars, dtorVars, histVars
<1>12. ASSUME NEW c \in Controllers, AddAllocate(c)
     PROVE  TypeOK'
  BY <1>12, Bounds DEF AddAllocate, TypeOK, ControlState,
     slotVars, pushVars, ctrlVars, dtorVars, histVars
<1>13. ASSUME NEW c \in Controllers, AddPublish(c)
     PROVE  TypeOK'
  <2>1. target[c] \in Id
    BY <1>13 DEF AddPublish, TypeOK
  <2>2. slots' \in Seq(Id)
    BY <1>13, <2>1, AppendProperties DEF AddPublish, TypeOK
  <2>3. worker' \in [Id -> WorkerState]
    BY <1>13, <2>1 DEF AddPublish, TypeOK, WorkerState
  <2>4. since' \in [Id -> 0 .. MaxFrames]
    BY <1>13, <2>1 DEF AddPublish, TypeOK
  <2>5. /\ control' \in [Controllers -> ControlState]
        /\ target' \in [Controllers -> Id \cup {NoId}]
        /\ \A d \in Controllers : control'[d] \notin {"idle", "find"} => target'[d] \in Id
    BY <1>13 DEF AddPublish, TypeOK, ControlState
  <2> QED
    BY <1>13, <2>1, <2>2, <2>3, <2>4, <2>5 DEF AddPublish, TypeOK, slotVars, pushVars, ctrlVars, dtorVars, histVars
<1>14. ASSUME NEW c \in Controllers, NEW i \in Id \cup {NoId}, RemoveCall(c, i)
     PROVE  TypeOK'
  BY <1>14, Bounds DEF RemoveCall, TypeOK, ControlState,
     slotVars, pushVars, ctrlVars, dtorVars, histVars
<1>15. ASSUME NEW c \in Controllers, RemoveAbsent(c)
     PROVE  TypeOK'
  BY <1>15 DEF RemoveAbsent, TypeOK, WorkerState, ControlState, Notified,
     slotVars, pushVars, ctrlVars, dtorVars, histVars
<1>16. ASSUME NEW c \in Controllers, RemoveErase(c)
     PROVE  TypeOK'
  <2>1. PICK n \in DOMAIN slots : slots[n] = target[c] /\ slots' = RemoveAt(slots, n)
    BY <1>16 DEF RemoveErase
  <2>2. n \in 1 .. Len(slots)
    BY LenProperties DEF TypeOK
  <2>3. target[c] \in Id
    BY <2>1, <2>2, ElementOfSeq DEF TypeOK
  <2>4. slots' \in Seq(Id)
    BY <2>1, <2>2, RemoveAtProperties DEF TypeOK
  <2>5. /\ control' \in [Controllers -> ControlState]
        /\ \A d \in Controllers : control'[d] \notin {"idle", "find"} => target'[d] \in Id
    BY <1>16, <2>3 DEF RemoveErase, TypeOK, ControlState
  <2> QED
    BY <1>16, <2>1, <2>2, <2>3, <2>4, <2>5 DEF RemoveErase, TypeOK, slotVars, pushVars, ctrlVars, dtorVars, histVars
<1>17. ASSUME NEW c \in Controllers, RemoveStop(c)
     PROVE  TypeOK'
  BY <1>17 DEF RemoveStop, TypeOK, WorkerState, ControlState, Notified,
     slotVars, pushVars, ctrlVars, dtorVars, histVars
<1>18. ASSUME NEW c \in Controllers, RemoveNotify(c)
     PROVE  TypeOK'
  BY <1>18 DEF RemoveNotify, TypeOK, WorkerState, ControlState, Notified,
     slotVars, pushVars, ctrlVars, dtorVars, histVars
<1>19. ASSUME NEW c \in Controllers, RemoveJoin(c)
     PROVE  TypeOK'
  BY <1>19 DEF RemoveJoin, TypeOK, WorkerState, ControlState, Notified,
     slotVars, pushVars, ctrlVars, dtorVars, histVars
<1>20. ASSUME NEW c \in Controllers, RemoveClear(c)
     PROVE  TypeOK'
  <2>1. target[c] \in Id
    BY <1>20 DEF RemoveClear, TypeOK
  <2>2. queue' \in [Id -> Seq(1 .. MaxFrames)]
    BY <1>20, <2>1 DEF RemoveClear, TypeOK
  <2>3. Len(queue[target[c]]) \in Nat
    BY <2>1, LenProperties DEF TypeOK
  <2>4. discarded' \in [Id -> Nat]
    BY <1>20, <2>1, <2>3, CounterUp DEF RemoveClear, TypeOK
  <2>5. /\ control' \in [Controllers -> ControlState]
        /\ target' \in [Controllers -> Id \cup {NoId}]
        /\ \A d \in Controllers : control'[d] \notin {"idle", "find"} => target'[d] \in Id
    BY <1>20 DEF RemoveClear, TypeOK, ControlState
  <2> QED
    BY <1>20, <2>1, <2>2, <2>3, <2>4, <2>5 DEF RemoveClear, TypeOK, slotVars, pushVars, ctrlVars, dtorVars, histVars
<1>21. CASE DestroyBegin
  BY <1>21 DEF DestroyBegin, TypeOK, WorkerState, ControlState, Notified,
     slotVars, pushVars, ctrlVars, dtorVars, histVars
<1>22. CASE DestroyStop
  BY <1>22 DEF DestroyStop, TypeOK, WorkerState, ControlState, Notified,
     slotVars, pushVars, ctrlVars, dtorVars, histVars
<1>23. CASE DestroyNotify
  BY <1>23 DEF DestroyNotify, TypeOK, WorkerState, ControlState, Notified,
     slotVars, pushVars, ctrlVars, dtorVars, histVars
<1>24. CASE DestroyJoin
  <2>1. doomed' \in Seq(Id)
    BY <1>24, HeadTailProperties DEF DestroyJoin, TypeOK
  <2>2. /\ dtor' \in {"alive", "stop", "notify", "join", "gone"}
        /\ dtor' \in {"stop", "notify", "join"} <=> doomed' # <<>>
    BY <1>24 DEF DestroyJoin, TypeOK
  <2> QED
    BY <1>24, <2>1, <2>2 DEF DestroyJoin, TypeOK, slotVars, pushVars, ctrlVars, dtorVars, histVars
<1>25. CASE UNCHANGED vars
  BY <1>25 DEF TypeOK, vars, slotVars, pushVars, ctrlVars, dtorVars, histVars
<1> QED
  BY <1>1, <1>2, <1>3, <1>4, <1>5, <1>6, <1>7, <1>8, <1>9, <1>10, <1>11, <1>12, <1>13, <1>14, <1>15, <1>16, <1>17, <1>18, <1>19, <1>20, <1>21, <1>22, <1>23, <1>24, <1>25
  DEF Next, Push, WorkerStep, AddConsumer, RemoveStep, DestroyStep

\* The mutex is held from the test of the predicate to the removal of the front,
\* and running is never set again, so what the predicate found is still there.
LEMMA NextFront == TypeOK /\ FrontExists /\ [Next]_vars => FrontExists'
<1> SUFFICES ASSUME TypeOK, FrontExists, [Next]_vars
             PROVE  FrontExists'
  OBVIOUS
<1>0. /\ worker \in [Id -> WorkerState]
      /\ queue \in [Id -> Seq(1 .. MaxFrames)]
      /\ running \in [Id -> BOOLEAN]
  BY DEF TypeOK
<1>1. CASE PushSnapshot
  BY <1>0, <1>1 DEF PushSnapshot, FrontExists, Notified, slotVars, pushVars, ctrlVars, dtorVars, histVars
<1>2. CASE PushEnqueue
  <2>1. ~MutexHeld(Head(snapshot)) /\ worker[Head(snapshot)] # "ready"
    BY <1>2 DEF PushEnqueue, MutexHeld
  <2> QED
    BY <1>0, <1>2, <2>1 DEF PushEnqueue, FrontExists
<1>3. CASE PushNotify
  BY <1>0, <1>3 DEF PushNotify, FrontExists, Notified, slotVars, pushVars, ctrlVars, dtorVars, histVars
<1>4. ASSUME NEW i \in Id, WorkerLoop(i)
     PROVE  FrontExists'
  BY <1>0, <1>4 DEF WorkerLoop, FrontExists, Notified, slotVars, pushVars, ctrlVars, dtorVars, histVars
<1>5. ASSUME NEW i \in Id, WorkerTest(i)
     PROVE  FrontExists'
  BY <1>0, <1>5 DEF WorkerTest, PredicateHolds, FrontExists, pushVars
<1>6. ASSUME NEW i \in Id, WorkerPark(i)
     PROVE  FrontExists'
  BY <1>0, <1>6 DEF WorkerPark, FrontExists, Notified, slotVars, pushVars, ctrlVars, dtorVars, histVars
<1>7. ASSUME NEW i \in Id, SpuriousWakeup(i)
     PROVE  FrontExists'
  BY <1>0, <1>7 DEF SpuriousWakeup, FrontExists, Notified, slotVars, pushVars, ctrlVars, dtorVars, histVars
<1>8. ASSUME NEW i \in Id, WorkerBreak(i)
     PROVE  FrontExists'
  BY <1>0, <1>8 DEF WorkerBreak, FrontExists, Notified, slotVars, pushVars, ctrlVars, dtorVars, histVars
<1>9. ASSUME NEW i \in Id, WorkerTake(i)
     PROVE  FrontExists'
  BY <1>0, <1>9 DEF WorkerTake, FrontExists, Notified, slotVars, pushVars, ctrlVars, dtorVars, histVars
<1>10. ASSUME NEW i \in Id, CallbackReturns(i)
     PROVE  FrontExists'
  BY <1>0, <1>10 DEF CallbackReturns, FrontExists, Notified, slotVars, pushVars, ctrlVars, dtorVars, histVars
<1>11. ASSUME NEW i \in Id, CallbackThrows(i)
     PROVE  FrontExists'
  BY <1>0, <1>11 DEF CallbackThrows, FrontExists, Notified, slotVars, pushVars, ctrlVars, dtorVars, histVars
<1>12. ASSUME NEW c \in Controllers, AddAllocate(c)
     PROVE  FrontExists'
  BY <1>0, <1>12 DEF AddAllocate, FrontExists, Notified, slotVars, pushVars, ctrlVars, dtorVars, histVars
<1>13. ASSUME NEW c \in Controllers, AddPublish(c)
     PROVE  FrontExists'
  <2>1. worker' = [worker EXCEPT ![target[c]] = "loop"]
    BY <1>13 DEF AddPublish
  <2> QED
    BY <1>0, <1>13, <2>1 DEF AddPublish, FrontExists
<1>14. ASSUME NEW c \in Controllers, NEW i \in Id \cup {NoId}, RemoveCall(c, i)
     PROVE  FrontExists'
  BY <1>0, <1>14 DEF RemoveCall, FrontExists, Notified, slotVars, pushVars, ctrlVars, dtorVars, histVars
<1>15. ASSUME NEW c \in Controllers, RemoveAbsent(c)
     PROVE  FrontExists'
  BY <1>0, <1>15 DEF RemoveAbsent, FrontExists, Notified, slotVars, pushVars, ctrlVars, dtorVars, histVars
<1>16. ASSUME NEW c \in Controllers, RemoveErase(c)
     PROVE  FrontExists'
  BY <1>0, <1>16 DEF RemoveErase, FrontExists, Notified, slotVars, pushVars, ctrlVars, dtorVars, histVars
<1>17. ASSUME NEW c \in Controllers, RemoveStop(c)
     PROVE  FrontExists'
  BY <1>0, <1>17 DEF RemoveStop, FrontExists, Notified, slotVars, pushVars, ctrlVars, dtorVars, histVars
<1>18. ASSUME NEW c \in Controllers, RemoveNotify(c)
     PROVE  FrontExists'
  BY <1>0, <1>18 DEF RemoveNotify, FrontExists, Notified, slotVars, pushVars, ctrlVars, dtorVars, histVars
<1>19. ASSUME NEW c \in Controllers, RemoveJoin(c)
     PROVE  FrontExists'
  BY <1>0, <1>19 DEF RemoveJoin, FrontExists, Notified, slotVars, pushVars, ctrlVars, dtorVars, histVars
<1>20. ASSUME NEW c \in Controllers, RemoveClear(c)
     PROVE  FrontExists'
  <2>1. worker[target[c]] # "ready"
    BY <1>20 DEF RemoveClear, MutexHeld
  <2> QED
    BY <1>0, <1>20, <2>1 DEF RemoveClear, FrontExists
<1>21. CASE DestroyBegin
  BY <1>0, <1>21 DEF DestroyBegin, FrontExists, Notified, slotVars, pushVars, ctrlVars, dtorVars, histVars
<1>22. CASE DestroyStop
  BY <1>0, <1>22 DEF DestroyStop, FrontExists, Notified, slotVars, pushVars, ctrlVars, dtorVars, histVars
<1>23. CASE DestroyNotify
  BY <1>0, <1>23 DEF DestroyNotify, FrontExists, Notified, slotVars, pushVars, ctrlVars, dtorVars, histVars
<1>24. CASE DestroyJoin
  BY <1>0, <1>24 DEF DestroyJoin, FrontExists, Notified, slotVars, pushVars, ctrlVars, dtorVars, histVars
<1>25. CASE UNCHANGED vars
  BY <1>25 DEF FrontExists, vars, slotVars, pushVars, ctrlVars, dtorVars, histVars
<1> QED
  BY <1>1, <1>2, <1>3, <1>4, <1>5, <1>6, <1>7, <1>8, <1>9, <1>10, <1>11, <1>12, <1>13, <1>14, <1>15, <1>16, <1>17, <1>18, <1>19, <1>20, <1>21, <1>22, <1>23, <1>24, <1>25
  DEF Next, Push, WorkerStep, AddConsumer, RemoveStep, DestroyStep

\* The variables always have their types, and front() is never called on an
\* empty deque: each holds only because the other does.
THEOREM TypeCorrect == Spec => [](TypeOK /\ FrontExists)
<1>1. Init => TypeOK /\ FrontExists
  BY InitType DEF Init, FrontExists
<1>2. TypeOK /\ FrontExists /\ [Next]_vars => (TypeOK /\ FrontExists)'
  BY NextType, NextFront
<1> QED
  BY <1>1, <1>2, PTL DEF Spec


\* push() cannot enqueue while the worker is between its test and cv.wait(), and
\* after an enqueue it is about to notify: no notification of a frame is lost.
LEMMA NextSleep == TypeOK /\ NoSleepOverFrame /\ [Next]_vars => NoSleepOverFrame'
<1> SUFFICES ASSUME TypeOK, NoSleepOverFrame, [Next]_vars
             PROVE  NoSleepOverFrame'
  OBVIOUS
<1>0. /\ worker \in [Id -> WorkerState]
      /\ queue \in [Id -> Seq(1 .. MaxFrames)]
  BY DEF TypeOK
<1>1. CASE PushSnapshot
  BY <1>0, <1>1 DEF PushSnapshot, NoSleepOverFrame, Notified, slotVars, pushVars, ctrlVars, dtorVars, histVars
<1>2. CASE PushEnqueue
  <2>1. worker[Head(snapshot)] # "parking"
    BY <1>2 DEF PushEnqueue, MutexHeld
  <2> QED
    BY <1>0, <1>2, <2>1 DEF PushEnqueue, NoSleepOverFrame
<1>3. CASE PushNotify
  BY <1>0, <1>3 DEF PushNotify, NoSleepOverFrame, Notified, slotVars, pushVars, ctrlVars, dtorVars, histVars
<1>4. ASSUME NEW i \in Id, WorkerLoop(i)
     PROVE  NoSleepOverFrame'
  BY <1>0, <1>4 DEF WorkerLoop, NoSleepOverFrame, Notified, slotVars, pushVars, ctrlVars, dtorVars, histVars
<1>5. ASSUME NEW i \in Id, WorkerTest(i)
     PROVE  NoSleepOverFrame'
  BY <1>0, <1>5 DEF WorkerTest, PredicateHolds, NoSleepOverFrame, pushVars
<1>6. ASSUME NEW i \in Id, WorkerPark(i)
     PROVE  NoSleepOverFrame'
  BY <1>0, <1>6 DEF WorkerPark, NoSleepOverFrame, Notified, slotVars, pushVars, ctrlVars, dtorVars, histVars
<1>7. ASSUME NEW i \in Id, SpuriousWakeup(i)
     PROVE  NoSleepOverFrame'
  BY <1>0, <1>7 DEF SpuriousWakeup, NoSleepOverFrame, Notified, slotVars, pushVars, ctrlVars, dtorVars, histVars
<1>8. ASSUME NEW i \in Id, WorkerBreak(i)
     PROVE  NoSleepOverFrame'
  BY <1>0, <1>8 DEF WorkerBreak, NoSleepOverFrame, Notified, slotVars, pushVars, ctrlVars, dtorVars, histVars
<1>9. ASSUME NEW i \in Id, WorkerTake(i)
     PROVE  NoSleepOverFrame'
  <2>1. \A j \in Id : j # i => queue'[j] = queue[j] /\ worker'[j] = worker[j]
    BY <1>0, <1>9 DEF WorkerTake
  <2>2. worker'[i] = "callback"
    BY <1>0, <1>9 DEF WorkerTake
  <2> QED
    BY <1>9, <2>1, <2>2 DEF WorkerTake, NoSleepOverFrame, pushVars
<1>10. ASSUME NEW i \in Id, CallbackReturns(i)
     PROVE  NoSleepOverFrame'
  BY <1>0, <1>10 DEF CallbackReturns, NoSleepOverFrame, Notified, slotVars, pushVars, ctrlVars, dtorVars, histVars
<1>11. ASSUME NEW i \in Id, CallbackThrows(i)
     PROVE  NoSleepOverFrame'
  BY <1>0, <1>11 DEF CallbackThrows, NoSleepOverFrame, Notified, slotVars, pushVars, ctrlVars, dtorVars, histVars
<1>12. ASSUME NEW c \in Controllers, AddAllocate(c)
     PROVE  NoSleepOverFrame'
  BY <1>0, <1>12 DEF AddAllocate, NoSleepOverFrame, Notified, slotVars, pushVars, ctrlVars, dtorVars, histVars
<1>13. ASSUME NEW c \in Controllers, AddPublish(c)
     PROVE  NoSleepOverFrame'
  BY <1>0, <1>13 DEF AddPublish, NoSleepOverFrame, Notified, slotVars, pushVars, ctrlVars, dtorVars, histVars
<1>14. ASSUME NEW c \in Controllers, NEW i \in Id \cup {NoId}, RemoveCall(c, i)
     PROVE  NoSleepOverFrame'
  BY <1>0, <1>14 DEF RemoveCall, NoSleepOverFrame, Notified, slotVars, pushVars, ctrlVars, dtorVars, histVars
<1>15. ASSUME NEW c \in Controllers, RemoveAbsent(c)
     PROVE  NoSleepOverFrame'
  BY <1>0, <1>15 DEF RemoveAbsent, NoSleepOverFrame, Notified, slotVars, pushVars, ctrlVars, dtorVars, histVars
<1>16. ASSUME NEW c \in Controllers, RemoveErase(c)
     PROVE  NoSleepOverFrame'
  BY <1>0, <1>16 DEF RemoveErase, NoSleepOverFrame, Notified, slotVars, pushVars, ctrlVars, dtorVars, histVars
<1>17. ASSUME NEW c \in Controllers, RemoveStop(c)
     PROVE  NoSleepOverFrame'
  BY <1>0, <1>17 DEF RemoveStop, NoSleepOverFrame, Notified, slotVars, pushVars, ctrlVars, dtorVars, histVars
<1>18. ASSUME NEW c \in Controllers, RemoveNotify(c)
     PROVE  NoSleepOverFrame'
  BY <1>0, <1>18 DEF RemoveNotify, NoSleepOverFrame, Notified, slotVars, pushVars, ctrlVars, dtorVars, histVars
<1>19. ASSUME NEW c \in Controllers, RemoveJoin(c)
     PROVE  NoSleepOverFrame'
  BY <1>0, <1>19 DEF RemoveJoin, NoSleepOverFrame, Notified, slotVars, pushVars, ctrlVars, dtorVars, histVars
<1>20. ASSUME NEW c \in Controllers, RemoveClear(c)
     PROVE  NoSleepOverFrame'
  BY <1>0, <1>20 DEF RemoveClear, NoSleepOverFrame, Notified, slotVars, pushVars, ctrlVars, dtorVars, histVars
<1>21. CASE DestroyBegin
  BY <1>0, <1>21 DEF DestroyBegin, NoSleepOverFrame, Notified, slotVars, pushVars, ctrlVars, dtorVars, histVars
<1>22. CASE DestroyStop
  BY <1>0, <1>22 DEF DestroyStop, NoSleepOverFrame, Notified, slotVars, pushVars, ctrlVars, dtorVars, histVars
<1>23. CASE DestroyNotify
  BY <1>0, <1>23 DEF DestroyNotify, NoSleepOverFrame, Notified, slotVars, pushVars, ctrlVars, dtorVars, histVars
<1>24. CASE DestroyJoin
  BY <1>0, <1>24 DEF DestroyJoin, NoSleepOverFrame, Notified, slotVars, pushVars, ctrlVars, dtorVars, histVars
<1>25. CASE UNCHANGED vars
  BY <1>25 DEF NoSleepOverFrame, vars, slotVars, pushVars, ctrlVars, dtorVars, histVars
<1> QED
  BY <1>1, <1>2, <1>3, <1>4, <1>5, <1>6, <1>7, <1>8, <1>9, <1>10, <1>11, <1>12, <1>13, <1>14, <1>15, <1>16, <1>17, <1>18, <1>19, <1>20, <1>21, <1>22, <1>23, <1>24, <1>25
  DEF Next, Push, WorkerStep, AddConsumer, RemoveStep, DestroyStep

\* A worker is never blocked over a queued frame with no notification to come.
THEOREM NoLostFrameNotification == Spec => []NoSleepOverFrame
<1>1. Init => NoSleepOverFrame
  BY DEF Init, NoSleepOverFrame
<1> QED
  BY <1>1, NextSleep, TypeCorrect, PTL DEF Spec


\* push() drops the oldest frame of a full queue before it adds one.
LEMMA NextBounded == TypeOK /\ FrontExists /\ QueueBounded /\ [Next]_vars => QueueBounded'
<1> SUFFICES ASSUME TypeOK, FrontExists, QueueBounded, [Next]_vars
             PROVE  QueueBounded'
  OBVIOUS
<1>0. queue \in [Id -> Seq(1 .. MaxFrames)]
  BY DEF TypeOK
<1>1. CASE PushSnapshot
  BY <1>1 DEF PushSnapshot, QueueBounded, slotVars, pushVars, ctrlVars, dtorVars, histVars
<1>2. CASE PushEnqueue
  <2>1. Head(snapshot) \in Id /\ frame \in 1 .. MaxFrames
    BY <1>2, Bounds, HeadTailProperties DEF PushEnqueue, TypeOK
  <2>2. Len(Enqueued(Head(snapshot))) <= Capacity(Head(snapshot))
    <3>1. /\ Len(Enqueued(Head(snapshot))) =
                IF QueueFull(Head(snapshot)) THEN Len(queue[Head(snapshot)])
                ELSE Len(queue[Head(snapshot)]) + 1
          /\ Len(queue[Head(snapshot)]) \in Nat
          /\ Len(queue[Head(snapshot)]) <= Capacity(Head(snapshot))
          /\ Capacity(Head(snapshot)) \in Nat
      BY <1>0, <2>1, EnqueuedType, LenProperties, CapacityPositive DEF QueueBounded
    <3> QED
      BY <3>1 DEF QueueFull
  <2>3. queue' = [queue EXCEPT ![Head(snapshot)] = Enqueued(Head(snapshot))]
    BY <1>2 DEF PushEnqueue
  <2> QED
    BY <1>0, <2>1, <2>2, <2>3 DEF QueueBounded, Capacity
<1>3. CASE PushNotify
  BY <1>3 DEF PushNotify, QueueBounded, slotVars, pushVars, ctrlVars, dtorVars, histVars
<1>4. ASSUME NEW i \in Id, WorkerLoop(i)
     PROVE  QueueBounded'
  BY <1>4 DEF WorkerLoop, QueueBounded, slotVars, pushVars, ctrlVars, dtorVars, histVars
<1>5. ASSUME NEW i \in Id, WorkerTest(i)
     PROVE  QueueBounded'
  BY <1>5 DEF WorkerTest, QueueBounded, slotVars, pushVars, ctrlVars, dtorVars, histVars
<1>6. ASSUME NEW i \in Id, WorkerPark(i)
     PROVE  QueueBounded'
  BY <1>6 DEF WorkerPark, QueueBounded, slotVars, pushVars, ctrlVars, dtorVars, histVars
<1>7. ASSUME NEW i \in Id, SpuriousWakeup(i)
     PROVE  QueueBounded'
  BY <1>7 DEF SpuriousWakeup, QueueBounded, slotVars, pushVars, ctrlVars, dtorVars, histVars
<1>8. ASSUME NEW i \in Id, WorkerBreak(i)
     PROVE  QueueBounded'
  BY <1>8 DEF WorkerBreak, QueueBounded, slotVars, pushVars, ctrlVars, dtorVars, histVars
<1>9. ASSUME NEW i \in Id, WorkerTake(i)
     PROVE  QueueBounded'
  <2>1. queue[i] # <<>>
    BY <1>9 DEF WorkerTake, FrontExists
  <2>2. Len(Tail(queue[i])) = Len(queue[i]) - 1 /\ Len(queue[i]) \in Nat
    BY <1>0, <2>1, HeadTailProperties, LenProperties
  <2>3. Len(queue[i]) <= Capacity(i) /\ Capacity(i) \in Nat
    BY CapacityPositive DEF QueueBounded
  <2>4. queue' = [queue EXCEPT ![i] = Tail(queue[i])]
    BY <1>9 DEF WorkerTake
  <2> QED
    BY <1>0, <2>2, <2>3, <2>4 DEF QueueBounded, Capacity
<1>10. ASSUME NEW i \in Id, CallbackReturns(i)
     PROVE  QueueBounded'
  BY <1>10 DEF CallbackReturns, QueueBounded, slotVars, pushVars, ctrlVars, dtorVars, histVars
<1>11. ASSUME NEW i \in Id, CallbackThrows(i)
     PROVE  QueueBounded'
  BY <1>11 DEF CallbackThrows, QueueBounded, slotVars, pushVars, ctrlVars, dtorVars, histVars
<1>12. ASSUME NEW c \in Controllers, AddAllocate(c)
     PROVE  QueueBounded'
  BY <1>12 DEF AddAllocate, QueueBounded, slotVars, pushVars, ctrlVars, dtorVars, histVars
<1>13. ASSUME NEW c \in Controllers, AddPublish(c)
     PROVE  QueueBounded'
  BY <1>13 DEF AddPublish, QueueBounded, slotVars, pushVars, ctrlVars, dtorVars, histVars
<1>14. ASSUME NEW c \in Controllers, NEW i \in Id \cup {NoId}, RemoveCall(c, i)
     PROVE  QueueBounded'
  BY <1>14 DEF RemoveCall, QueueBounded, slotVars, pushVars, ctrlVars, dtorVars, histVars
<1>15. ASSUME NEW c \in Controllers, RemoveAbsent(c)
     PROVE  QueueBounded'
  BY <1>15 DEF RemoveAbsent, QueueBounded, slotVars, pushVars, ctrlVars, dtorVars, histVars
<1>16. ASSUME NEW c \in Controllers, RemoveErase(c)
     PROVE  QueueBounded'
  BY <1>16 DEF RemoveErase, QueueBounded, slotVars, pushVars, ctrlVars, dtorVars, histVars
<1>17. ASSUME NEW c \in Controllers, RemoveStop(c)
     PROVE  QueueBounded'
  BY <1>17 DEF RemoveStop, QueueBounded, slotVars, pushVars, ctrlVars, dtorVars, histVars
<1>18. ASSUME NEW c \in Controllers, RemoveNotify(c)
     PROVE  QueueBounded'
  BY <1>18 DEF RemoveNotify, QueueBounded, slotVars, pushVars, ctrlVars, dtorVars, histVars
<1>19. ASSUME NEW c \in Controllers, RemoveJoin(c)
     PROVE  QueueBounded'
  BY <1>19 DEF RemoveJoin, QueueBounded, slotVars, pushVars, ctrlVars, dtorVars, histVars
<1>20. ASSUME NEW c \in Controllers, RemoveClear(c)
     PROVE  QueueBounded'
  <2>1. queue' = [queue EXCEPT ![target[c]] = <<>>]
    BY <1>20 DEF RemoveClear
  <2>2. Len(<<>>) = 0 /\ \A j \in Id : 0 <= Capacity(j)
    BY CapacityPositive
  <2> QED
    BY <1>0, <2>1, <2>2 DEF QueueBounded, Capacity
<1>21. CASE DestroyBegin
  BY <1>21 DEF DestroyBegin, QueueBounded, slotVars, pushVars, ctrlVars, dtorVars, histVars
<1>22. CASE DestroyStop
  BY <1>22 DEF DestroyStop, QueueBounded, slotVars, pushVars, ctrlVars, dtorVars, histVars
<1>23. CASE DestroyNotify
  BY <1>23 DEF DestroyNotify, QueueBounded, slotVars, pushVars, ctrlVars, dtorVars, histVars
<1>24. CASE DestroyJoin
  BY <1>24 DEF DestroyJoin, QueueBounded, slotVars, pushVars, ctrlVars, dtorVars, histVars
<1>25. CASE UNCHANGED vars
  BY <1>25 DEF QueueBounded, vars, slotVars, pushVars, ctrlVars, dtorVars, histVars
<1> QED
  BY <1>1, <1>2, <1>3, <1>4, <1>5, <1>6, <1>7, <1>8, <1>9, <1>10, <1>11, <1>12, <1>13, <1>14, <1>15, <1>16, <1>17, <1>18, <1>19, <1>20, <1>21, <1>22, <1>23, <1>24, <1>25
  DEF Next, Push, WorkerStep, AddConsumer, RemoveStep, DestroyStep

\* No deque ever holds more frames than configured, or than one if zero is.
THEOREM BoundedQueues == Spec => []QueueBounded
<1>1. Init => QueueBounded
  <2>1. Len(<<>>) = 0 /\ \A j \in Id : 0 <= Capacity(j)
    BY CapacityPositive
  <2> QED
    BY <2>1 DEF Init, QueueBounded
<1> QED
  BY <1>1, NextBounded, TypeCorrect, PTL DEF Spec


-----------------------------------------------------------------------------
(* What append, tail and erase do to the set of elements. *)

\* Nothing is in the empty sequence.
LEMMA RangeEmpty == Range(<<>>) = {}
  BY DEF Range

\* What push_back() adds.
LEMMA RangeAppend ==
  ASSUME NEW S, NEW s \in Seq(S), NEW e \in S
  PROVE  Range(Append(s, e)) = Range(s) \cup {e}
<1>1. /\ Len(s) \in Nat
      /\ Range(s) = {s[k] : k \in 1 .. Len(s)}
      /\ Append(s, e) \in Seq(S)
      /\ Len(Append(s, e)) = Len(s) + 1
      /\ \A k \in 1 .. Len(s) : Append(s, e)[k] = s[k]
      /\ Append(s, e)[Len(s) + 1] = e
  BY LenProperties, AppendProperties, RangeEquality
<1>2. Range(Append(s, e)) = {Append(s, e)[k] : k \in 1 .. Len(s) + 1}
  BY <1>1, RangeEquality
<1> QED
  BY <1>1, <1>2

\* What pop_front() leaves.
LEMMA RangeTail ==
  ASSUME NEW S, NEW s \in Seq(S), s # <<>>
  PROVE  /\ Head(s) \in Range(s)
         /\ Range(Tail(s)) \subseteq Range(s)
         /\ Range(s) \subseteq Range(Tail(s)) \cup {Head(s)}
<1>1. /\ Len(s) \in Nat \ {0}
      /\ Tail(s) \in Seq(S)
      /\ Len(Tail(s)) = Len(s) - 1
      /\ \A k \in 1 .. Len(s) - 1 : Tail(s)[k] = s[k + 1]
  BY EmptySeq, HeadTailProperties
<1>2. /\ Range(s) = {s[k] : k \in 1 .. Len(s)}
      /\ Range(Tail(s)) = {Tail(s)[k] : k \in 1 .. Len(s) - 1}
  BY <1>1, RangeEquality
<1>3. Head(s) = s[1] /\ 1 \in 1 .. Len(s)
  BY <1>1
<1>4. \A k \in 1 .. Len(s) - 1 : Tail(s)[k] \in Range(s)
  <2> TAKE k \in 1 .. Len(s) - 1
  <2>1. k + 1 \in 1 .. Len(s) /\ Tail(s)[k] = s[k + 1]
    BY <1>1
  <2> QED
    BY <1>2, <2>1
<1>5. ASSUME NEW k \in 1 .. Len(s), k # 1
      PROVE  s[k] \in Range(Tail(s))
  <2>1. k - 1 \in 1 .. Len(s) - 1 /\ s[(k - 1) + 1] = s[k]
    BY <1>1, <1>5
  <2>2. Tail(s)[k - 1] = s[k]
    BY <1>1, <2>1
  <2> QED
    BY <1>2, <2>1, <2>2
<1> QED
  BY <1>2, <1>3, <1>4, <1>5

\* What slots_.erase() leaves, when no element is there twice.
LEMMA RangeRemoveAt ==
  ASSUME NEW S, NEW s \in Seq(S), NEW n \in DOMAIN s
  PROVE  Range(s) \subseteq Range(RemoveAt(s, n)) \cup {s[n]}
<1>1. /\ Len(s) \in Nat
      /\ DOMAIN s = 1 .. Len(s)
      /\ Range(s) = {s[k] : k \in 1 .. Len(s)}
  BY LenProperties, RangeEquality
<1>2. /\ RemoveAt(s, n) \in Seq(S)
      /\ Len(RemoveAt(s, n)) = Len(s) - 1
      /\ \A k \in 1 .. Len(s) - 1 :
            RemoveAt(s, n)[k] = IF k < n THEN s[k] ELSE s[k + 1]
  BY <1>1, RemoveAtProperties
<1>3. Range(RemoveAt(s, n)) = {RemoveAt(s, n)[k] : k \in 1 .. Len(s) - 1}
  BY <1>2, RangeEquality
<1>4. ASSUME NEW k \in 1 .. Len(s), k # n
      PROVE  s[k] \in Range(RemoveAt(s, n))
  <2>1. CASE k < n
    <3>1. k \in 1 .. Len(s) - 1 /\ RemoveAt(s, n)[k] = s[k]
      BY <1>1, <1>2, <2>1
    <3> QED
      BY <1>3, <3>1
  <2>2. CASE k > n
    <3>1. k - 1 \in 1 .. Len(s) - 1 /\ RemoveAt(s, n)[k - 1] = s[k]
      BY <1>1, <1>2, <2>2
    <3> QED
      BY <1>3, <3>1
  <2> QED
    BY <1>1, <1>4, <2>1, <2>2
<1> QED
  BY <1>1, <1>4

-----------------------------------------------------------------------------

\* A worker starts when its slot is published, and the slot then passes from
\* slots_ to the removal that joins the worker; only a join lets go of it.
LEMMA NextOrphan == TypeOK /\ NoOrphanWorker /\ [Next]_vars => NoOrphanWorker'
<1> SUFFICES ASSUME TypeOK, NoOrphanWorker, [Next]_vars
             PROVE  NoOrphanWorker'
  OBVIOUS
<1>0. /\ worker \in [Id -> WorkerState]
      /\ control \in [Controllers -> ControlState]
      /\ target \in [Controllers -> Id \cup {NoId}]
      /\ slots \in Seq(Id) /\ doomed \in Seq(Id)
  BY DEF TypeOK
<1>1. CASE PushSnapshot
  BY <1>0, <1>1 DEF PushSnapshot, NoOrphanWorker, Registered, Removing, Notified, slotVars, pushVars, ctrlVars, dtorVars, histVars
<1>2. CASE PushEnqueue
  BY <1>0, <1>2 DEF PushEnqueue, NoOrphanWorker, Registered, Removing, Notified, slotVars, pushVars, ctrlVars, dtorVars, histVars
<1>3. CASE PushNotify
  BY <1>0, <1>3 DEF PushNotify, NoOrphanWorker, Registered, Removing, Notified, slotVars, pushVars, ctrlVars, dtorVars, histVars
<1>4. ASSUME NEW i \in Id, WorkerLoop(i)
     PROVE  NoOrphanWorker'
  BY <1>0, <1>4 DEF WorkerLoop, NoOrphanWorker, Registered, Removing, Notified, slotVars, pushVars, ctrlVars, dtorVars, histVars
<1>5. ASSUME NEW i \in Id, WorkerTest(i)
     PROVE  NoOrphanWorker'
  BY <1>0, <1>5 DEF WorkerTest, NoOrphanWorker, Registered, Removing, Notified, slotVars, pushVars, ctrlVars, dtorVars, histVars
<1>6. ASSUME NEW i \in Id, WorkerPark(i)
     PROVE  NoOrphanWorker'
  BY <1>0, <1>6 DEF WorkerPark, NoOrphanWorker, Registered, Removing, Notified, slotVars, pushVars, ctrlVars, dtorVars, histVars
<1>7. ASSUME NEW i \in Id, SpuriousWakeup(i)
     PROVE  NoOrphanWorker'
  BY <1>0, <1>7 DEF SpuriousWakeup, NoOrphanWorker, Registered, Removing, Notified, slotVars, pushVars, ctrlVars, dtorVars, histVars
<1>8. ASSUME NEW i \in Id, WorkerBreak(i)
     PROVE  NoOrphanWorker'
  BY <1>0, <1>8 DEF WorkerBreak, NoOrphanWorker, Registered, Removing, Notified, slotVars, pushVars, ctrlVars, dtorVars, histVars
<1>9. ASSUME NEW i \in Id, WorkerTake(i)
     PROVE  NoOrphanWorker'
  BY <1>0, <1>9 DEF WorkerTake, NoOrphanWorker, Registered, Removing, Notified, slotVars, pushVars, ctrlVars, dtorVars, histVars
<1>10. ASSUME NEW i \in Id, CallbackReturns(i)
     PROVE  NoOrphanWorker'
  BY <1>0, <1>10 DEF CallbackReturns, NoOrphanWorker, Registered, Removing, Notified, slotVars, pushVars, ctrlVars, dtorVars, histVars
<1>11. ASSUME NEW i \in Id, CallbackThrows(i)
     PROVE  NoOrphanWorker'
  BY <1>0, <1>11 DEF CallbackThrows, NoOrphanWorker, Registered, Removing, Notified, slotVars, pushVars, ctrlVars, dtorVars, histVars
<1>12. ASSUME NEW c \in Controllers, AddAllocate(c)
     PROVE  NoOrphanWorker'
  BY <1>0, <1>12 DEF AddAllocate, NoOrphanWorker, Registered, Removing, Notified, slotVars, pushVars, ctrlVars, dtorVars, histVars
<1>13. ASSUME NEW c \in Controllers, AddPublish(c)
     PROVE  NoOrphanWorker'
  <2>1. Range(slots') = Range(slots) \cup {target[c]}
    <3>1. target[c] \in Id
      BY <1>13 DEF AddPublish, TypeOK
    <3> QED
      BY <1>0, <1>13, <3>1, RangeAppend DEF AddPublish
  <2>2. \A j \in Id : worker'[j] = IF j = target[c] THEN "loop" ELSE worker[j]
    BY <1>0, <1>13 DEF AddPublish
  <2>3. \A j \in Id : Removing(j) => Removing(j)'
    BY <1>0, <1>13 DEF AddPublish, Removing, dtorVars
  <2> QED
    BY <2>1, <2>2, <2>3 DEF NoOrphanWorker, Registered
<1>14. ASSUME NEW c \in Controllers, NEW i \in Id \cup {NoId}, RemoveCall(c, i)
     PROVE  NoOrphanWorker'
  BY <1>0, <1>14 DEF RemoveCall, NoOrphanWorker, Registered, Removing, Notified, slotVars, pushVars, ctrlVars, dtorVars, histVars
<1>15. ASSUME NEW c \in Controllers, RemoveAbsent(c)
     PROVE  NoOrphanWorker'
  BY <1>0, <1>15 DEF RemoveAbsent, NoOrphanWorker, Registered, Removing, Notified, slotVars, pushVars, ctrlVars, dtorVars, histVars
<1>16. ASSUME NEW c \in Controllers, RemoveErase(c)
     PROVE  NoOrphanWorker'
  <2>1. Range(slots) \subseteq Range(slots') \cup {target[c]}
    BY <1>0, <1>16, RangeRemoveAt DEF RemoveErase
  <2>2. target'[c] = target[c] /\ control'[c] = "stop"
    BY <1>0, <1>16 DEF RemoveErase
  <2>3. \A j \in Id : Removing(j) => Removing(j)'
    BY <1>0, <1>16 DEF RemoveErase, Removing, dtorVars
  <2> QED
    BY <1>16, <2>1, <2>2, <2>3
    DEF RemoveErase, NoOrphanWorker, Registered, Removing, slotVars
<1>17. ASSUME NEW c \in Controllers, RemoveStop(c)
     PROVE  NoOrphanWorker'
  BY <1>0, <1>17 DEF RemoveStop, NoOrphanWorker, Registered, Removing, Notified, slotVars, pushVars, ctrlVars, dtorVars, histVars
<1>18. ASSUME NEW c \in Controllers, RemoveNotify(c)
     PROVE  NoOrphanWorker'
  BY <1>0, <1>18 DEF RemoveNotify, NoOrphanWorker, Registered, Removing, Notified, slotVars, pushVars, ctrlVars, dtorVars, histVars
<1>19. ASSUME NEW c \in Controllers, RemoveJoin(c)
     PROVE  NoOrphanWorker'
  BY <1>0, <1>19 DEF RemoveJoin, NoOrphanWorker, Registered, Removing, Notified, slotVars, pushVars, ctrlVars, dtorVars, histVars
<1>20. ASSUME NEW c \in Controllers, RemoveClear(c)
     PROVE  NoOrphanWorker'
  BY <1>0, <1>20 DEF RemoveClear, NoOrphanWorker, Registered, Removing, Notified, slotVars, pushVars, ctrlVars, dtorVars, histVars
<1>21. CASE DestroyBegin
  <2>1. doomed' = slots /\ doomed = <<>> /\ worker' = worker /\ control' = control
    BY <1>21 DEF DestroyBegin, TypeOK, slotVars, ctrlVars
  <2>2. \A j \in Id : Registered(j) => j \in Range(doomed')
    BY <2>1 DEF Registered
  <2>3. \A j \in Id : ~Removing(j)
    BY <1>21, <2>1, RangeEmpty DEF Removing, DestroyBegin
  <2> QED
    BY <2>1, <2>2, <2>3 DEF NoOrphanWorker, Removing
<1>22. CASE DestroyStop
  BY <1>0, <1>22 DEF DestroyStop, NoOrphanWorker, Registered, Removing, Notified, slotVars, pushVars, ctrlVars, dtorVars, histVars
<1>23. CASE DestroyNotify
  BY <1>0, <1>23 DEF DestroyNotify, NoOrphanWorker, Registered, Removing, Notified, slotVars, pushVars, ctrlVars, dtorVars, histVars
<1>24. CASE DestroyJoin
  <2>1. Range(doomed) \subseteq Range(doomed') \cup {Head(doomed)}
    BY <1>0, <1>24, RangeTail DEF DestroyJoin, TypeOK
  <2>2. worker[Head(doomed)] = "done"
    BY <1>24 DEF DestroyJoin
  <2> QED
    BY <1>24, <2>1, <2>2
    DEF DestroyJoin, NoOrphanWorker, Registered, Removing, slotVars, ctrlVars
<1>25. CASE UNCHANGED vars
  BY <1>25 DEF NoOrphanWorker, Registered, Removing, vars, slotVars, pushVars, ctrlVars, dtorVars, histVars
<1> QED
  BY <1>1, <1>2, <1>3, <1>4, <1>5, <1>6, <1>7, <1>8, <1>9, <1>10, <1>11, <1>12, <1>13, <1>14, <1>15, <1>16, <1>17, <1>18, <1>19, <1>20, <1>21, <1>22, <1>23, <1>24, <1>25
  DEF Next, Push, WorkerStep, AddConsumer, RemoveStep, DestroyStep

\* When remove_consumer() or the destructor is done with a consumer, its worker
\* has returned, or was never started.
THEOREM NoCallbackAfterRemoval == Spec => []NoOrphanWorker
<1>1. Init => NoOrphanWorker
  BY DEF Init, NoOrphanWorker
<1> QED
  BY <1>1, NextOrphan, TypeCorrect, PTL DEF Spec

-----------------------------------------------------------------------------
(* The order of deliveries.                                                *)

NoRepeat(s) == \A m, n \in 1 .. Len(s) : s[m] = s[n] => m = n

\* Ids are handed out once: two slots never share one, neither in slots_ nor in
\* push()'s snapshot, and a slot whose worker was never started is untouched.
FreshIds ==
    /\ \A c, d \in Controllers :
          control[c] = "publish" /\ control[d] = "publish" /\ target[c] = target[d]
             => c = d
    /\ \A c \in Controllers :
          control[c] = "publish" => target[c] < nextId /\ worker[target[c]] = "unborn"
    /\ \A i \in Id : i >= nextId => worker[i] = "unborn"
    /\ \A i \in Id : worker[i] = "unborn" =>
          /\ i \notin Range(slots) /\ i \notin Range(snapshot)
          /\ queue[i] = <<>> /\ seen[i] = 0
    /\ NoRepeat(slots) /\ NoRepeat(snapshot)

\* The frames of a queue are in the order of push(), newer than those delivered
\* and than the registration, and older than a frame push() is to add.
Ordered ==
    \A i \in Id :
       /\ since[i] <= frame /\ seen[i] <= frame
       /\ \A n \in 1 .. Len(queue[i]) :
             seen[i] < queue[i][n] /\ since[i] < queue[i][n] /\ queue[i][n] <= frame
       /\ \A m, n \in 1 .. Len(queue[i]) : m < n => queue[i][m] < queue[i][n]
       /\ i \in Range(Unserved) =>
             /\ since[i] < frame /\ seen[i] < frame
             /\ \A n \in 1 .. Len(queue[i]) : queue[i][n] < frame

\* The empty sequence repeats nothing.
LEMMA NoRepeatEmpty == NoRepeat(<<>>)
<1>1. Len(<<>>) = 0 /\ \A n \in 1 .. 0 : FALSE
  OBVIOUS
<1> QED
  BY <1>1 DEF NoRepeat

\* A sequence without its head repeats nothing that it did not repeat before.
LEMMA NoRepeatTail ==
  ASSUME NEW S, NEW s \in Seq(S), s # <<>>,
         NoRepeat(s)
  PROVE  NoRepeat(Tail(s))
<1>1. /\ Len(s) \in Nat \ {0}
      /\ Len(Tail(s)) = Len(s) - 1
      /\ \A k \in 1 .. Len(s) - 1 : Tail(s)[k] = s[k + 1]
  BY EmptySeq, HeadTailProperties
<1>2. \A k \in 1 .. Len(s) - 1 : k \in Nat /\ k + 1 \in 1 .. Len(s)
  BY <1>1
<1> SUFFICES ASSUME NEW m \in 1 .. Len(Tail(s)), NEW n \in 1 .. Len(Tail(s)),
                    Tail(s)[m] = Tail(s)[n]
             PROVE  m = n
  BY DEF NoRepeat
<1>3. m + 1 = n + 1
  BY <1>1, <1>2 DEF NoRepeat
<1> QED
  BY <1>1, <1>2, <1>3

\* The head of a sequence that repeats nothing is not in its tail.
LEMMA HeadNotInTail ==
  ASSUME NEW S, NEW s \in Seq(S), s # <<>>,
         NoRepeat(s)
  PROVE  Head(s) \notin Range(Tail(s))
<1>1. /\ Len(s) \in Nat \ {0}
      /\ Tail(s) \in Seq(S)
      /\ Len(Tail(s)) = Len(s) - 1
      /\ \A k \in 1 .. Len(s) - 1 : Tail(s)[k] = s[k + 1]
  BY EmptySeq, HeadTailProperties
<1>2. Range(Tail(s)) = {Tail(s)[k] : k \in 1 .. Len(Tail(s))}
  BY <1>1, RangeEquality
<1>3. Head(s) = s[1] /\ 1 \in 1 .. Len(s)
  BY <1>1
<1>4. \A k \in 1 .. Len(s) - 1 : k + 1 \in 1 .. Len(s) /\ k + 1 # 1
  BY <1>1
<1> QED
  BY <1>1, <1>2, <1>3, <1>4 DEF NoRepeat

\* Appending something new repeats nothing.
LEMMA NoRepeatAppend ==
  ASSUME NEW S, NEW s \in Seq(S), NEW e \in S, e \notin Range(s),
         NoRepeat(s)
  PROVE  NoRepeat(Append(s, e))
<1>1. /\ Len(s) \in Nat
      /\ Len(Append(s, e)) = Len(s) + 1
      /\ \A k \in 1 .. Len(s) : Append(s, e)[k] = s[k] /\ s[k] # e
      /\ Append(s, e)[Len(s) + 1] = e
  BY LenProperties, AppendProperties, RangeEquality
<1>2. \A k \in 1 .. Len(s) + 1 : k \in 1 .. Len(s) \/ k = Len(s) + 1
  BY <1>1
<1> QED
  BY <1>1, <1>2 DEF NoRepeat

\* Erasing an element repeats nothing.
LEMMA NoRepeatRemoveAt ==
  ASSUME NEW S, NEW s \in Seq(S), NEW n \in 1 .. Len(s),
         NoRepeat(s)
  PROVE  /\ Range(RemoveAt(s, n)) \subseteq Range(s)
         /\ NoRepeat(RemoveAt(s, n))
<1> DEFINE old(k) == IF k < n THEN k ELSE k + 1
<1>1. /\ Len(s) \in Nat
      /\ Range(s) = {s[k] : k \in 1 .. Len(s)}
      /\ RemoveAt(s, n) \in Seq(S)
      /\ Len(RemoveAt(s, n)) = Len(s) - 1
  BY LenProperties, RangeEquality, RemoveAtProperties
<1>2. \A k \in 1 .. Len(s) - 1 : RemoveAt(s, n)[k] = s[old(k)] /\ old(k) \in 1 .. Len(s)
  <2> TAKE k \in 1 .. Len(s) - 1
  <2>1. RemoveAt(s, n)[k] = IF k < n THEN s[k] ELSE s[k + 1]
    BY RemoveAtProperties
  <2> QED
    BY <1>1, <2>1
<1>3. \A k, m \in 1 .. Len(s) - 1 : old(k) = old(m) => k = m
  BY <1>1
<1>4. Range(RemoveAt(s, n)) = {RemoveAt(s, n)[k] : k \in 1 .. Len(s) - 1}
  BY <1>1, RangeEquality
<1> HIDE DEF old
<1> QED
  BY <1>1, <1>2, <1>3, <1>4 DEF NoRepeat

\* next_id_ only grows, so no id is in slots_ twice and none above it is in use.
LEMMA NextFresh == TypeOK /\ FreshIds /\ [Next]_vars => FreshIds'
<1> SUFFICES ASSUME TypeOK, FreshIds, [Next]_vars
             PROVE  FreshIds'
  OBVIOUS
<1>0. /\ worker \in [Id -> WorkerState]
      /\ control \in [Controllers -> ControlState]
      /\ target \in [Controllers -> Id \cup {NoId}]
      /\ queue \in [Id -> Seq(1 .. MaxFrames)]
      /\ seen \in [Id -> 0 .. MaxFrames]
      /\ slots \in Seq(Id) /\ snapshot \in Seq(Id)
      /\ nextId \in 0 .. MaxConsumers
      /\ \A c \in Controllers : control[c] \notin {"idle", "find"} => target[c] \in Id
  BY DEF TypeOK
<1>1. CASE PushSnapshot
  BY <1>1, RangeEmpty, NoRepeatEmpty DEF PushSnapshot, FreshIds, slotVars, ctrlVars, histVars
<1>2. CASE PushEnqueue
  <2>1. Head(snapshot) \in Range(snapshot)
    BY <1>0, <1>2, RangeTail DEF PushEnqueue, TypeOK
  <2>2. worker[Head(snapshot)] # "unborn"
    BY <1>0, <2>1, RangeOfSeq DEF FreshIds
  <2>3. \A i \in Id : worker[i] = "unborn" => queue'[i] = queue[i]
    BY <1>0, <1>2, <2>2 DEF PushEnqueue
  <2> QED
    BY <1>2, <2>3 DEF PushEnqueue, FreshIds, ctrlVars
<1>3. CASE PushNotify
  <2>1. snapshot # <<>> /\ snapshot' = Tail(snapshot)
    BY <1>3 DEF PushNotify, RestOfSnapshot, TypeOK
  <2>2. Range(snapshot') \subseteq Range(snapshot)
    BY <1>0, <2>1, RangeTail
  <2>3. NoRepeat(snapshot')
    BY <1>0, <2>1, NoRepeatTail DEF FreshIds
  <2>4. \A i \in Id : worker'[i] = "unborn" => worker[i] = "unborn"
    BY <1>0, <1>3 DEF PushNotify, Notified
  <2>5. \A i \in Id : worker[i] = "unborn" => worker'[i] = "unborn"
    BY <1>0, <1>3 DEF PushNotify, Notified
  <2> QED
    BY <1>0, <1>3, <2>2, <2>3, <2>4, <2>5 DEF PushNotify, FreshIds, ctrlVars, histVars, TypeOK
<1>4. ASSUME NEW i \in Id, WorkerLoop(i)
     PROVE  FreshIds'
  BY <1>0, <1>4 DEF WorkerLoop, FreshIds, Notified, slotVars, pushVars, ctrlVars, dtorVars, histVars
<1>5. ASSUME NEW i \in Id, WorkerTest(i)
     PROVE  FreshIds'
  BY <1>0, <1>5 DEF WorkerTest, FreshIds, Notified, slotVars, pushVars, ctrlVars, dtorVars, histVars
<1>6. ASSUME NEW i \in Id, WorkerPark(i)
     PROVE  FreshIds'
  BY <1>0, <1>6 DEF WorkerPark, FreshIds, Notified, slotVars, pushVars, ctrlVars, dtorVars, histVars
<1>7. ASSUME NEW i \in Id, SpuriousWakeup(i)
     PROVE  FreshIds'
  BY <1>0, <1>7 DEF SpuriousWakeup, FreshIds, Notified, slotVars, pushVars, ctrlVars, dtorVars, histVars
<1>8. ASSUME NEW i \in Id, WorkerBreak(i)
     PROVE  FreshIds'
  BY <1>0, <1>8 DEF WorkerBreak, FreshIds, Notified, slotVars, pushVars, ctrlVars, dtorVars, histVars
<1>9. ASSUME NEW i \in Id, WorkerTake(i)
     PROVE  FreshIds'
  BY <1>0, <1>9 DEF WorkerTake, FreshIds, Notified, slotVars, pushVars, ctrlVars, dtorVars, histVars
<1>10. ASSUME NEW i \in Id, CallbackReturns(i)
     PROVE  FreshIds'
  BY <1>0, <1>10 DEF CallbackReturns, FreshIds, Notified, slotVars, pushVars, ctrlVars, dtorVars, histVars
<1>11. ASSUME NEW i \in Id, CallbackThrows(i)
     PROVE  FreshIds'
  BY <1>0, <1>11 DEF CallbackThrows, FreshIds, Notified, slotVars, pushVars, ctrlVars, dtorVars, histVars
<1>12. ASSUME NEW c \in Controllers, AddAllocate(c)
     PROVE  FreshIds'
  <2>1. /\ nextId \in Nat /\ nextId' = nextId + 1
        /\ nextId \in Id
    BY <1>12, Bounds DEF AddAllocate, TypeOK
  <2>2. \A e \in Controllers : control'[e] = "publish" =>
           \/ e = c /\ target'[e] = nextId
           \/ e # c /\ control[e] = "publish" /\ target'[e] = target[e]
              /\ target[e] \in Id /\ target[e] < nextId
    BY <1>0, <1>12 DEF AddAllocate, FreshIds, TypeOK
  <2>3. worker[nextId] = "unborn" /\ worker' = worker
    BY <1>12, <2>1, Bounds DEF AddAllocate, FreshIds, slotVars, TypeOK, Id
  <2>4. \A e \in Controllers :
           control'[e] = "publish" => target'[e] < nextId' /\ worker'[target'[e]] = "unborn"
    BY <2>1, <2>2, <2>3, Bounds DEF FreshIds, Id
  <2>5. \A e, f \in Controllers :
           control'[e] = "publish" /\ control'[f] = "publish" /\ target'[e] = target'[f]
              => e = f
    BY <2>1, <2>2, Bounds DEF FreshIds, Id
  <2>6. \A i \in Id : i >= nextId' => worker'[i] = "unborn"
    BY <2>1, <2>3, Bounds DEF FreshIds, Id
  <2> QED
    BY <1>12, <2>4, <2>5, <2>6 DEF AddAllocate, FreshIds, slotVars, pushVars, histVars
<1>13. ASSUME NEW c \in Controllers, AddPublish(c)
     PROVE  FreshIds'
  <2>1. /\ target[c] \in Id /\ target[c] < nextId
        /\ worker[target[c]] = "unborn"
        /\ target[c] \notin Range(slots) /\ target[c] \notin Range(snapshot)
    BY <1>13 DEF AddPublish, FreshIds, TypeOK
  <2>2. \A j \in Id : worker'[j] = IF j = target[c] THEN "loop" ELSE worker[j]
    BY <1>0, <1>13, <2>1 DEF AddPublish
  <2>3. \A e \in Controllers : control'[e] = "publish" =>
           e # c /\ control[e] = "publish" /\ target'[e] = target[e] /\ target[e] \in Id
    BY <1>0, <1>13 DEF AddPublish, TypeOK
  <2>4. /\ Range(slots') = Range(slots) \cup {target[c]}
        /\ NoRepeat(slots')
    <3>1. slots' = Append(slots, target[c])
      BY <1>13 DEF AddPublish
    <3>2. NoRepeat(slots)
      BY DEF FreshIds
    <3> QED
      BY <1>0, <2>1, <3>1, <3>2, RangeAppend, NoRepeatAppend
  <2>5. \A e \in Controllers : control'[e] = "publish" => target[e] # target[c]
    BY <1>13, <2>3 DEF AddPublish, FreshIds
  <2>6. nextId' = nextId /\ snapshot' = snapshot /\ queue' = queue /\ seen' = seen
    BY <1>13 DEF AddPublish, pushVars
  <2>7. /\ \A e, f \in Controllers :
             control'[e] = "publish" /\ control'[f] = "publish" /\ target'[e] = target'[f]
                => e = f
        /\ \A e \in Controllers :
             control'[e] = "publish" => target'[e] < nextId' /\ worker'[target'[e]] = "unborn"
    BY <2>2, <2>3, <2>5, <2>6 DEF FreshIds
  <2>8. \A i \in Id : i >= nextId' => worker'[i] = "unborn"
    <3> SUFFICES ASSUME NEW i \in Id, i >= nextId
                 PROVE  worker'[i] = "unborn"
      BY <2>6
    <3>1. i # target[c]
      BY <1>0, <2>1, Bounds DEF Id
    <3> QED
      BY <2>2, <3>1 DEF FreshIds
  <2>9. \A i \in Id : worker'[i] = "unborn" =>
           /\ i \notin Range(slots') /\ i \notin Range(snapshot')
           /\ queue'[i] = <<>> /\ seen'[i] = 0
    BY <2>1, <2>2, <2>4, <2>6 DEF FreshIds
  <2> QED
    BY <2>4, <2>6, <2>7, <2>8, <2>9 DEF FreshIds
<1>14. ASSUME NEW c \in Controllers, NEW i \in Id \cup {NoId}, RemoveCall(c, i)
     PROVE  FreshIds'
  BY <1>0, <1>14 DEF RemoveCall, FreshIds, Notified, slotVars, pushVars, ctrlVars, dtorVars, histVars
<1>15. ASSUME NEW c \in Controllers, RemoveAbsent(c)
     PROVE  FreshIds'
  BY <1>0, <1>15 DEF RemoveAbsent, FreshIds, Notified, slotVars, pushVars, ctrlVars, dtorVars, histVars
<1>16. ASSUME NEW c \in Controllers, RemoveErase(c)
     PROVE  FreshIds'
  <2>1. PICK n \in DOMAIN slots : slots[n] = target[c] /\ slots' = RemoveAt(slots, n)
    BY <1>16 DEF RemoveErase
  <2>2. n \in 1 .. Len(slots)
    BY <1>0, LenProperties
  <2>3. /\ Range(slots') \subseteq Range(slots)
        /\ NoRepeat(slots')
    <3>1. NoRepeat(slots)
      BY DEF FreshIds
    <3> QED
      BY <1>0, <2>1, <2>2, <3>1, NoRepeatRemoveAt
  <2>4. \A e \in Controllers : control'[e] = "publish" => control[e] = "publish"
    BY <1>0, <1>16 DEF RemoveErase
  <2> QED
    BY <1>16, <2>3, <2>4 DEF RemoveErase, FreshIds, slotVars, pushVars, histVars
<1>17. ASSUME NEW c \in Controllers, RemoveStop(c)
     PROVE  FreshIds'
  BY <1>0, <1>17 DEF RemoveStop, FreshIds, Notified, slotVars, pushVars, ctrlVars, dtorVars, histVars
<1>18. ASSUME NEW c \in Controllers, RemoveNotify(c)
     PROVE  FreshIds'
  BY <1>0, <1>18 DEF RemoveNotify, FreshIds, Notified, slotVars, pushVars, ctrlVars, dtorVars, histVars
<1>19. ASSUME NEW c \in Controllers, RemoveJoin(c)
     PROVE  FreshIds'
  BY <1>0, <1>19 DEF RemoveJoin, FreshIds, Notified, slotVars, pushVars, ctrlVars, dtorVars, histVars
<1>20. ASSUME NEW c \in Controllers, RemoveClear(c)
     PROVE  FreshIds'
  <2>1. \A e \in Controllers : control'[e] = "publish" =>
           control[e] = "publish" /\ target'[e] = target[e]
    BY <1>0, <1>20 DEF RemoveClear
  <2>2. \A i \in Id : queue[i] = <<>> => queue'[i] = <<>>
    BY <1>0, <1>20 DEF RemoveClear
  <2> QED
    BY <1>20, <2>1, <2>2 DEF RemoveClear, FreshIds, pushVars
<1>21. CASE DestroyBegin
  BY <1>0, <1>21, RangeEmpty, NoRepeatEmpty DEF DestroyBegin, FreshIds, slotVars, pushVars, ctrlVars, histVars
<1>22. CASE DestroyStop
  BY <1>0, <1>22 DEF DestroyStop, FreshIds, Notified, slotVars, pushVars, ctrlVars, dtorVars, histVars
<1>23. CASE DestroyNotify
  BY <1>0, <1>23 DEF DestroyNotify, FreshIds, Notified, slotVars, pushVars, ctrlVars, dtorVars, histVars
<1>24. CASE DestroyJoin
  BY <1>0, <1>24 DEF DestroyJoin, FreshIds, Notified, slotVars, pushVars, ctrlVars, dtorVars, histVars
<1>25. CASE UNCHANGED vars
  BY <1>25 DEF FreshIds, vars, slotVars, pushVars, ctrlVars, dtorVars, histVars
<1> QED
  BY <1>1, <1>2, <1>3, <1>4, <1>5, <1>6, <1>7, <1>8, <1>9, <1>10, <1>11, <1>12, <1>13, <1>14, <1>15, <1>16, <1>17, <1>18, <1>19, <1>20, <1>21, <1>22, <1>23, <1>24, <1>25
  DEF Next, Push, WorkerStep, AddConsumer, RemoveStep, DestroyStep

\* Queues stay in the order of push(): a frame is put at the back of a queue that
\* holds only older ones, and a snapshot visits a slot once.
LEMMA NextOrdered ==
    TypeOK /\ FrontExists /\ FreshIds /\ Ordered /\ [Next]_vars => Ordered'
<1> SUFFICES ASSUME TypeOK, FrontExists, FreshIds, Ordered, [Next]_vars
             PROVE  Ordered'
  OBVIOUS
<1>0. /\ queue \in [Id -> Seq(1 .. MaxFrames)]
      /\ seen \in [Id -> 0 .. MaxFrames]
      /\ since \in [Id -> 0 .. MaxFrames]
      /\ frame \in 0 .. MaxFrames
      /\ snapshot \in Seq(Id)
  BY DEF TypeOK
<1>1. CASE PushSnapshot
  <2>1. frame' = frame + 1 /\ queue' = queue /\ seen' = seen /\ since' = since
    BY <1>1 DEF PushSnapshot, slotVars, histVars
  <2>2. ASSUME NEW i \in Id
        PROVE  /\ since[i] < frame + 1 /\ seen[i] < frame + 1
               /\ \A n \in 1 .. Len(queue[i]) : queue[i][n] < frame + 1
                                                /\ queue[i][n] <= frame + 1
    <3>1. since[i] \in 0 .. MaxFrames /\ seen[i] \in 0 .. MaxFrames
      BY <1>0
    <3>2. \A n \in 1 .. Len(queue[i]) : queue[i][n] \in 1 .. MaxFrames /\ queue[i][n] <= frame
      BY <1>0, ElementOfSeq DEF Ordered
    <3> QED
      BY <1>0, <3>1, <3>2, Bounds DEF Ordered
  <2> QED
    BY <1>0, <2>1, <2>2 DEF Ordered
<1>2. CASE PushEnqueue
  <2> DEFINE h == Head(snapshot)
             rest == IF QueueFull(h) THEN Tail(queue[h]) ELSE queue[h]
  <2>1. /\ snapshot # <<>> /\ h \in Id /\ frame \in 1 .. MaxFrames
        /\ h \in Range(snapshot) /\ Unserved = snapshot /\ Unserved' = Tail(snapshot)
    <3>1. /\ snapshot # <<>> /\ snapshot' = snapshot
          /\ pusher = "enqueue" /\ pusher' = "notify" /\ frame \in 1 .. MaxFrames
      BY <1>2, Bounds DEF PushEnqueue, TypeOK
    <3> QED
      BY <1>0, <3>1, HeadTailProperties, RangeTail DEF Unserved
  <2>2. queue' = [queue EXCEPT ![h] = Append(rest, frame)]
        /\ seen' = seen /\ since' = since /\ frame' = frame
    BY <1>2 DEF PushEnqueue, Enqueued
  <2>3. /\ \A n \in 1 .. Len(queue[h]) :
             seen[h] < queue[h][n] /\ since[h] < queue[h][n] /\ queue[h][n] < frame
        /\ \A m, n \in 1 .. Len(queue[h]) : m < n => queue[h][m] < queue[h][n]
        /\ seen[h] < frame /\ since[h] < frame
    BY <2>1 DEF Ordered
  <2>4. /\ rest \in Seq(1 .. MaxFrames)
        /\ \A n \in 1 .. Len(rest) : seen[h] < rest[n] /\ since[h] < rest[n] /\ rest[n] < frame
        /\ \A m, n \in 1 .. Len(rest) : m < n => rest[m] < rest[n]
    <3>1. CASE QueueFull(h)
      <4>1. queue[h] # <<>>
        BY <1>0, <2>1, <3>1, CapacityPositive, EmptySeq DEF QueueFull
      <4>2. /\ Len(queue[h]) \in Nat
            /\ rest \in Seq(1 .. MaxFrames)
            /\ Len(rest) = Len(queue[h]) - 1
            /\ \A n \in 1 .. Len(rest) : rest[n] = queue[h][n + 1]
        BY <1>0, <2>1, <3>1, <4>1, HeadTailProperties, LenProperties
      <4> HIDE DEF rest
      <4>3. \A n \in 1 .. Len(rest) : n \in Nat /\ n + 1 \in 1 .. Len(queue[h])
        BY <4>2
      <4>4. \A m, n \in 1 .. Len(rest) : m < n => m + 1 < n + 1
        BY <4>3
      <4> QED
        BY <2>3, <4>2, <4>3, <4>4
    <3>2. CASE ~QueueFull(h)
      BY <1>0, <2>1, <2>3, <3>2
    <3> QED
      BY <3>1, <3>2
  <2> HIDE DEF rest
  <2>5. /\ Len(rest) \in Nat
        /\ Len(Append(rest, frame)) = Len(rest) + 1
        /\ \A n \in 1 .. Len(rest) : Append(rest, frame)[n] = rest[n]
        /\ Append(rest, frame)[Len(rest) + 1] = frame
    BY <2>1, <2>4, AppendProperties, LenProperties
  <2>6. ASSUME NEW n \in 1 .. Len(Append(rest, frame))
        PROVE  /\ seen[h] < Append(rest, frame)[n]
               /\ since[h] < Append(rest, frame)[n]
               /\ Append(rest, frame)[n] <= frame
    <3>1. CASE n = Len(rest) + 1
      BY <2>1, <2>3, <2>5, <3>1
    <3>2. CASE n \in 1 .. Len(rest)
      <4>1. Append(rest, frame)[n] = rest[n] /\ rest[n] \in 1 .. MaxFrames
        BY <2>4, <2>5, <3>2, ElementOfSeq
      <4> QED
        BY <2>1, <2>4, <3>2, <4>1
    <3> QED
      BY <2>5, <3>1, <3>2
  <2>7. ASSUME NEW m \in 1 .. Len(Append(rest, frame)), NEW n \in 1 .. Len(Append(rest, frame)),
               m < n
        PROVE  Append(rest, frame)[m] < Append(rest, frame)[n]
    <3>1. m \in 1 .. Len(rest) /\ Append(rest, frame)[m] = rest[m]
      BY <2>5, <2>7
    <3>2. CASE n = Len(rest) + 1
      BY <2>4, <2>5, <3>1, <3>2
    <3>3. CASE n \in 1 .. Len(rest)
      BY <2>4, <2>5, <2>7, <3>1, <3>3
    <3> QED
      BY <2>5, <3>2, <3>3
  <2>8. h \notin Range(Unserved') /\ Range(Unserved') \subseteq Range(Unserved)
    BY <1>0, <2>1, HeadNotInTail, RangeTail DEF FreshIds
  <2>9. ASSUME NEW i \in Id, i # h
        PROVE  queue'[i] = queue[i]
    BY <1>0, <2>1, <2>2, <2>9
  <2>10. queue'[h] = Append(rest, frame)
    BY <1>0, <2>1, <2>2
  <2>11. ASSUME NEW i \in Id
         PROVE  /\ since'[i] <= frame' /\ seen'[i] <= frame'
                /\ \A n \in 1 .. Len(queue'[i]) :
                     seen'[i] < queue'[i][n] /\ since'[i] < queue'[i][n] /\ queue'[i][n] <= frame'
                /\ \A m, n \in 1 .. Len(queue'[i]) : m < n => queue'[i][m] < queue'[i][n]
                /\ i \in Range(Unserved') =>
                     /\ since'[i] < frame' /\ seen'[i] < frame'
                     /\ \A n \in 1 .. Len(queue'[i]) : queue'[i][n] < frame'
    <3>1. CASE i = h
      BY <2>2, <2>6, <2>7, <2>8, <2>10, <3>1 DEF Ordered
    <3>2. CASE i # h
      BY <2>2, <2>8, <2>9, <3>2 DEF Ordered
    <3> QED
      BY <3>1, <3>2
  <2> QED
    BY <2>11 DEF Ordered
<1>3. CASE PushNotify
  <2>1. snapshot' = Tail(snapshot)
    BY <1>3 DEF PushNotify, RestOfSnapshot
  <2>2. Unserved' = Unserved
    BY <1>3, <2>1 DEF PushNotify, Unserved
  <2> QED
    BY <1>3, <2>2 DEF PushNotify, Ordered, histVars
<1>4. ASSUME NEW i \in Id, WorkerLoop(i)
     PROVE  Ordered'
  BY <1>4 DEF WorkerLoop, Ordered, Unserved, slotVars, pushVars, ctrlVars, dtorVars, histVars
<1>5. ASSUME NEW i \in Id, WorkerTest(i)
     PROVE  Ordered'
  BY <1>5 DEF WorkerTest, Ordered, Unserved, slotVars, pushVars, ctrlVars, dtorVars, histVars
<1>6. ASSUME NEW i \in Id, WorkerPark(i)
     PROVE  Ordered'
  BY <1>6 DEF WorkerPark, Ordered, Unserved, slotVars, pushVars, ctrlVars, dtorVars, histVars
<1>7. ASSUME NEW i \in Id, SpuriousWakeup(i)
     PROVE  Ordered'
  BY <1>7 DEF SpuriousWakeup, Ordered, Unserved, slotVars, pushVars, ctrlVars, dtorVars, histVars
<1>8. ASSUME NEW i \in Id, WorkerBreak(i)
     PROVE  Ordered'
  BY <1>8 DEF WorkerBreak, Ordered, Unserved, slotVars, pushVars, ctrlVars, dtorVars, histVars
<1>9. ASSUME NEW i \in Id, WorkerTake(i)
     PROVE  Ordered'
  <2>1. /\ queue[i] # <<>> /\ queue[i] \in Seq(1 .. MaxFrames)
        /\ Len(queue[i]) \in Nat \ {0}
    BY <1>0, <1>9, EmptySeq DEF WorkerTake, FrontExists
  <2>2. /\ Head(queue[i]) = queue[i][1]
        /\ Len(Tail(queue[i])) = Len(queue[i]) - 1
        /\ \A n \in 1 .. Len(Tail(queue[i])) : Tail(queue[i])[n] = queue[i][n + 1]
    BY <2>1, HeadTailProperties
  <2>3. /\ queue' = [queue EXCEPT ![i] = Tail(queue[i])]
        /\ seen' = [seen EXCEPT ![i] = Head(queue[i])]
        /\ since' = since /\ frame' = frame /\ Unserved' = Unserved
    BY <1>9 DEF WorkerTake, pushVars, Unserved
  <2>4. \A n \in 1 .. Len(Tail(queue[i])) :
           n \in Nat /\ n + 1 \in 1 .. Len(queue[i]) /\ 1 < n + 1 /\ 1 \in 1 .. Len(queue[i])
    BY <2>1, <2>2
  <2>5. /\ \A n \in 1 .. Len(Tail(queue[i])) :
             /\ Head(queue[i]) < Tail(queue[i])[n]
             /\ since[i] < Tail(queue[i])[n]
             /\ Tail(queue[i])[n] <= frame
        /\ \A m, n \in 1 .. Len(Tail(queue[i])) : m < n => Tail(queue[i])[m] < Tail(queue[i])[n]
    <3>1. \A m, n \in 1 .. Len(Tail(queue[i])) : m < n => m + 1 < n + 1
      BY <2>4
    <3> QED
      BY <2>2, <2>4, <3>1 DEF Ordered
  <2>6. /\ 1 \in 1 .. Len(queue[i])
        /\ Head(queue[i]) <= frame
    BY <2>1, <2>2 DEF Ordered
  <2>7. i \in Range(Unserved) =>
          /\ Head(queue[i]) < frame
          /\ \A n \in 1 .. Len(Tail(queue[i])) : Tail(queue[i])[n] < frame
    BY <2>2, <2>4, <2>6 DEF Ordered
  <2>8. /\ queue'[i] = Tail(queue[i]) /\ seen'[i] = Head(queue[i])
        /\ \A j \in Id : j # i => queue'[j] = queue[j] /\ seen'[j] = seen[j]
    BY <1>0, <2>3
  <2>9. ASSUME NEW j \in Id
        PROVE  /\ since'[j] <= frame' /\ seen'[j] <= frame'
               /\ \A n \in 1 .. Len(queue'[j]) :
                    seen'[j] < queue'[j][n] /\ since'[j] < queue'[j][n] /\ queue'[j][n] <= frame'
               /\ \A m, n \in 1 .. Len(queue'[j]) : m < n => queue'[j][m] < queue'[j][n]
               /\ j \in Range(Unserved') =>
                    /\ since'[j] < frame' /\ seen'[j] < frame'
                    /\ \A n \in 1 .. Len(queue'[j]) : queue'[j][n] < frame'
    <3>1. CASE j = i
      <4>1. /\ queue'[j] = Tail(queue[i]) /\ seen'[j] = Head(queue[i])
            /\ since'[j] = since[i] /\ frame' = frame /\ Unserved' = Unserved
        BY <2>3, <2>8, <3>1
      <4>2. /\ since[i] <= frame
            /\ i \in Range(Unserved) => since[i] < frame
        BY DEF Ordered
      <4> QED
        BY <2>5, <2>6, <2>7, <3>1, <4>1, <4>2
    <3>2. CASE j # i
      BY <2>3, <2>8, <3>2 DEF Ordered
    <3> QED
      BY <3>1, <3>2
  <2> QED
    BY <2>9 DEF Ordered
<1>10. ASSUME NEW i \in Id, CallbackReturns(i)
     PROVE  Ordered'
  BY <1>10 DEF CallbackReturns, Ordered, Unserved, slotVars, pushVars, ctrlVars, dtorVars, histVars
<1>11. ASSUME NEW i \in Id, CallbackThrows(i)
     PROVE  Ordered'
  BY <1>11 DEF CallbackThrows, Ordered, Unserved, slotVars, pushVars, ctrlVars, dtorVars, histVars
<1>12. ASSUME NEW c \in Controllers, AddAllocate(c)
     PROVE  Ordered'
  BY <1>12 DEF AddAllocate, Ordered, Unserved, slotVars, pushVars, ctrlVars, dtorVars, histVars
<1>13. ASSUME NEW c \in Controllers, AddPublish(c)
     PROVE  Ordered'
  <2>1. /\ target[c] \in Id /\ worker[target[c]] = "unborn"
        /\ target[c] \notin Range(snapshot)
        /\ queue[target[c]] = <<>> /\ seen[target[c]] = 0
    BY <1>13 DEF AddPublish, FreshIds, TypeOK
  <2>2. target[c] \notin Range(Unserved)
    BY <1>0, <2>1, RangeTail DEF Unserved, TypeOK
  <2>3. /\ since' = [since EXCEPT ![target[c]] = frame]
        /\ queue' = queue /\ seen' = seen /\ frame' = frame /\ Unserved' = Unserved
    BY <1>13 DEF AddPublish, pushVars, Unserved
  <2>4. Len(<<>>) = 0
    OBVIOUS
  <2>5. \A n \in 1 .. Len(queue[target[c]]) : FALSE
    BY <2>1, <2>4
  <2>6. \A j \in Id : since'[j] = IF j = target[c] THEN frame ELSE since[j]
    BY <1>0, <2>1, <2>3
  <2> QED
    BY <1>0, <2>1, <2>2, <2>3, <2>5, <2>6 DEF Ordered
<1>14. ASSUME NEW c \in Controllers, NEW i \in Id \cup {NoId}, RemoveCall(c, i)
     PROVE  Ordered'
  BY <1>14 DEF RemoveCall, Ordered, Unserved, slotVars, pushVars, ctrlVars, dtorVars, histVars
<1>15. ASSUME NEW c \in Controllers, RemoveAbsent(c)
     PROVE  Ordered'
  BY <1>15 DEF RemoveAbsent, Ordered, Unserved, slotVars, pushVars, ctrlVars, dtorVars, histVars
<1>16. ASSUME NEW c \in Controllers, RemoveErase(c)
     PROVE  Ordered'
  BY <1>16 DEF RemoveErase, Ordered, Unserved, slotVars, pushVars, ctrlVars, dtorVars, histVars
<1>17. ASSUME NEW c \in Controllers, RemoveStop(c)
     PROVE  Ordered'
  BY <1>17 DEF RemoveStop, Ordered, Unserved, slotVars, pushVars, ctrlVars, dtorVars, histVars
<1>18. ASSUME NEW c \in Controllers, RemoveNotify(c)
     PROVE  Ordered'
  BY <1>18 DEF RemoveNotify, Ordered, Unserved, slotVars, pushVars, ctrlVars, dtorVars, histVars
<1>19. ASSUME NEW c \in Controllers, RemoveJoin(c)
     PROVE  Ordered'
  BY <1>19 DEF RemoveJoin, Ordered, Unserved, slotVars, pushVars, ctrlVars, dtorVars, histVars
<1>20. ASSUME NEW c \in Controllers, RemoveClear(c)
     PROVE  Ordered'
  <2>1. \A j \in Id : queue'[j] = queue[j] \/ queue'[j] = <<>>
    BY <1>0, <1>20 DEF RemoveClear
  <2>2. Len(<<>>) = 0 /\ \A n \in 1 .. 0 : FALSE
    OBVIOUS
  <2>3. since' = since /\ seen' = seen /\ frame' = frame /\ Unserved' = Unserved
    BY <1>20 DEF RemoveClear, pushVars, Unserved
  <2> QED
    BY <2>1, <2>2, <2>3 DEF Ordered
<1>21. CASE DestroyBegin
  BY <1>21 DEF DestroyBegin, Ordered, Unserved, slotVars, pushVars, ctrlVars, dtorVars, histVars
<1>22. CASE DestroyStop
  BY <1>22 DEF DestroyStop, Ordered, Unserved, slotVars, pushVars, ctrlVars, dtorVars, histVars
<1>23. CASE DestroyNotify
  BY <1>23 DEF DestroyNotify, Ordered, Unserved, slotVars, pushVars, ctrlVars, dtorVars, histVars
<1>24. CASE DestroyJoin
  BY <1>24 DEF DestroyJoin, Ordered, Unserved, slotVars, pushVars, ctrlVars, dtorVars, histVars
<1>25. CASE UNCHANGED vars
  BY <1>25 DEF Ordered, Unserved, vars, slotVars, pushVars, ctrlVars, dtorVars, histVars
<1> QED
  BY <1>1, <1>2, <1>3, <1>4, <1>5, <1>6, <1>7, <1>8, <1>9, <1>10, <1>11, <1>12, <1>13, <1>14, <1>15, <1>16, <1>17, <1>18, <1>19, <1>20, <1>21, <1>22, <1>23, <1>24, <1>25
  DEF Next, Push, WorkerStep, AddConsumer, RemoveStep, DestroyStep

\* The front of the queue is newer than everything delivered before.
LEMMA TakeIsNewer ==
  ASSUME TypeOK, FrontExists, Ordered, NEW i \in Id, WorkerTake(i)
  PROVE  /\ seen' = [seen EXCEPT ![i] = Head(queue[i])]
         /\ Head(queue[i]) > seen[i] /\ Head(queue[i]) > since[i]
<1>1. queue[i] # <<>> /\ queue[i] \in Seq(1 .. MaxFrames)
  BY DEF WorkerTake, FrontExists, TypeOK
<1>2. Head(queue[i]) = queue[i][1] /\ 1 \in 1 .. Len(queue[i])
  BY <1>1, EmptySeq
<1> QED
  BY <1>2 DEF Ordered, WorkerTake

\* Callbacks get frames in the order of push(), each at most once.
THEOREM InOrderDelivery == Spec => DeliveredInOrder
<1> DEFINE IInv == TypeOK /\ FrontExists /\ FreshIds /\ Ordered
           InOrder == \A i \in Id :
                         seen'[i] # seen[i] => seen'[i] > seen[i] /\ seen'[i] > since[i]
<1>1. Init => IInv
  <2> SUFFICES ASSUME Init PROVE IInv
    OBVIOUS
  <2>1. TypeOK /\ FrontExists
    BY InitType DEF Init, FrontExists
  <2>2. Len(<<>>) = 0 /\ \A n \in 1 .. 0 : FALSE
    OBVIOUS
  <2>3. FreshIds
    BY NoRepeatEmpty, RangeEmpty DEF Init, FreshIds
  <2>4. Ordered
    BY <2>2, RangeEmpty DEF Init, Ordered, Unserved
  <2> QED
    BY <2>1, <2>3, <2>4
<1>2. IInv /\ [Next]_vars => IInv'
  BY NextType, NextFront, NextFresh, NextOrdered
<1>3. IInv /\ [Next]_vars => [InOrder]_seen
  <2> SUFFICES ASSUME IInv, [Next]_vars, seen' # seen
               PROVE  InOrder
    OBVIOUS
  <2>1. PICK i \in Id : WorkerTake(i)
    BY DEF Next, vars, histVars, Push, WorkerStep, AddConsumer, RemoveStep, DestroyStep,
       PushSnapshot, PushEnqueue, PushNotify, WorkerLoop, WorkerTest, WorkerPark,
       SpuriousWakeup, WorkerBreak, CallbackReturns, CallbackThrows, AddAllocate,
       AddPublish, RemoveCall, RemoveAbsent, RemoveErase, RemoveStop, RemoveNotify,
       RemoveJoin, RemoveClear, DestroyBegin, DestroyStop, DestroyNotify, DestroyJoin
  <2>2. seen' = [seen EXCEPT ![i] = Head(queue[i])]
        /\ Head(queue[i]) > seen[i] /\ Head(queue[i]) > since[i]
    BY <2>1, TakeIsNewer
  <2>3. seen \in [Id -> 0 .. MaxFrames]
    BY DEF TypeOK
  <2> QED
    BY <2>2, <2>3
<1> QED
  BY <1>1, <1>2, <1>3, PTL DEF Spec, DeliveredInOrder

-----------------------------------------------------------------------------
(* The counters.                                                           *)

\* FramesAccountedFor, for one consumer.
Balanced(i) ==
    offered[i] = Len(queue[i]) + dropped[i] + consumed[i] + failed[i] + discarded[i]
                 + InCallback(i)

\* Every step that moves a frame from one place to another moves its count.
LEMMA NextAccounted ==
    TypeOK /\ FrontExists /\ FreshIds /\ FramesAccountedFor /\ [Next]_vars
       => FramesAccountedFor'
<1> SUFFICES ASSUME TypeOK, FrontExists, FreshIds, FramesAccountedFor, [Next]_vars
             PROVE  FramesAccountedFor'
  OBVIOUS
<1>0. /\ worker \in [Id -> WorkerState]
      /\ queue \in [Id -> Seq(1 .. MaxFrames)]
      /\ \A i \in Id : Len(queue[i]) \in Nat
      /\ dropped \in [Id -> Nat] /\ consumed \in [Id -> Nat] /\ failed \in [Id -> Nat]
      /\ discarded \in [Id -> Nat] /\ offered \in [Id -> Nat]
      /\ snapshot \in Seq(Id)
  BY LenProperties DEF TypeOK
<1>1. CASE PushSnapshot
  BY <1>0, <1>1 DEF PushSnapshot, FramesAccountedFor, InCallback, Notified, slotVars, pushVars, ctrlVars, dtorVars, histVars
<1>2. CASE PushEnqueue
  <2>1. Head(snapshot) \in Id /\ frame \in 1 .. MaxFrames
    BY <1>0, <1>2, Bounds, HeadTailProperties DEF PushEnqueue, TypeOK
  <2> PICK h \in Id : h = Head(snapshot)
    BY <2>1
  <2>2. Len(Enqueued(h)) = IF QueueFull(h) THEN Len(queue[h]) ELSE Len(queue[h]) + 1
    BY <1>0, <2>1, EnqueuedType
  <2>3. /\ queue' = [queue EXCEPT ![h] = Enqueued(h)]
        /\ dropped' = [dropped EXCEPT ![h] = IF QueueFull(h) THEN @ + 1 ELSE @]
        /\ offered' = [offered EXCEPT ![h] = @ + 1]
        /\ UNCHANGED <<consumed, failed, discarded, worker>>
    BY <1>2 DEF PushEnqueue
  <2>4. /\ queue'[h] = Enqueued(h)
        /\ dropped'[h] = IF QueueFull(h) THEN dropped[h] + 1 ELSE dropped[h]
        /\ offered'[h] = offered[h] + 1
        /\ \A i \in Id : i # h =>
              queue'[i] = queue[i] /\ dropped'[i] = dropped[i] /\ offered'[i] = offered[i]
    BY <1>0, <2>1, <2>3
  <2>5. Balanced(h)'
    <3>1. Len(queue'[h]) = IF QueueFull(h) THEN Len(queue[h]) ELSE Len(queue[h]) + 1
      BY <2>2, <2>4
    <3>2. InCallback(h)' = InCallback(h) /\ InCallback(h) \in 0 .. 1
      BY <2>3 DEF InCallback
    <3>3. Balanced(h)
      BY <1>0, <2>1 DEF FramesAccountedFor, Balanced
    <3>4. /\ Len(queue[h]) \in Nat /\ dropped[h] \in Nat /\ consumed[h] \in Nat
          /\ failed[h] \in Nat /\ discarded[h] \in Nat /\ offered[h] \in Nat
      BY <1>0, <2>1
    <3>5. /\ offered'[h] = offered[h] + 1 /\ consumed'[h] = consumed[h]
          /\ failed'[h] = failed[h] /\ discarded'[h] = discarded[h]
      BY <2>3, <2>4
    <3>8. /\ offered[h] + 1 = Len(queue[h]) + (dropped[h] + 1) + consumed[h] + failed[h]
                              + discarded[h] + InCallback(h)
          /\ offered[h] + 1 = (Len(queue[h]) + 1) + dropped[h] + consumed[h] + failed[h]
                              + discarded[h] + InCallback(h)
      <4> DEFINE o == offered[h]
                 l == Len(queue[h])
                 d == dropped[h]
                 k == consumed[h]
                 f == failed[h]
                 x == discarded[h]
                 b == InCallback(h)
      <4>1. /\ o \in Nat /\ l \in Nat /\ d \in Nat /\ k \in Nat /\ f \in Nat /\ x \in Nat
            /\ b \in 0 .. 1
            /\ o = l + d + k + f + x + b
        BY <3>2, <3>3, <3>4 DEF Balanced
      <4> HIDE DEF o, l, d, k, f, x, b
      <4>2. /\ o + 1 = l + (d + 1) + k + f + x + b
            /\ o + 1 = (l + 1) + d + k + f + x + b
        BY <4>1
      <4> QED
        BY <4>2 DEF o, l, d, k, f, x, b
    <3>6. CASE QueueFull(h)
      <4>1. dropped'[h] = dropped[h] + 1 /\ Len(queue'[h]) = Len(queue[h])
        BY <2>4, <3>1, <3>6
      <4> QED
        BY <3>2, <3>5, <3>8, <4>1 DEF Balanced
    <3>7. CASE ~QueueFull(h)
      <4>1. dropped'[h] = dropped[h] /\ Len(queue'[h]) = Len(queue[h]) + 1
        BY <2>4, <3>1, <3>7
      <4> QED
        BY <3>2, <3>5, <3>8, <4>1 DEF Balanced
    <3> QED
      BY <3>6, <3>7
  <2> QED
    <3> SUFFICES ASSUME NEW i \in Id, i # h PROVE Balanced(i)'
      BY <2>5 DEF FramesAccountedFor, Balanced, InCallback
    <3>1. Balanced(i)
      BY DEF FramesAccountedFor, Balanced
    <3> QED
      BY <2>3, <2>4, <3>1 DEF Balanced, InCallback
<1>3. CASE PushNotify
  BY <1>0, <1>3 DEF PushNotify, FramesAccountedFor, InCallback, Notified, histVars
<1>4. ASSUME NEW i \in Id, WorkerLoop(i)
     PROVE  FramesAccountedFor'
  BY <1>0, <1>4 DEF WorkerLoop, FramesAccountedFor, InCallback, Notified, slotVars, pushVars, ctrlVars, dtorVars, histVars
<1>5. ASSUME NEW i \in Id, WorkerTest(i)
     PROVE  FramesAccountedFor'
  BY <1>0, <1>5 DEF WorkerTest, FramesAccountedFor, InCallback, Notified, slotVars, pushVars, ctrlVars, dtorVars, histVars
<1>6. ASSUME NEW i \in Id, WorkerPark(i)
     PROVE  FramesAccountedFor'
  BY <1>0, <1>6 DEF WorkerPark, FramesAccountedFor, InCallback, Notified, slotVars, pushVars, ctrlVars, dtorVars, histVars
<1>7. ASSUME NEW i \in Id, SpuriousWakeup(i)
     PROVE  FramesAccountedFor'
  BY <1>0, <1>7 DEF SpuriousWakeup, FramesAccountedFor, InCallback, Notified, slotVars, pushVars, ctrlVars, dtorVars, histVars
<1>8. ASSUME NEW i \in Id, WorkerBreak(i)
     PROVE  FramesAccountedFor'
  BY <1>0, <1>8 DEF WorkerBreak, FramesAccountedFor, InCallback, Notified, slotVars, pushVars, ctrlVars, dtorVars, histVars
<1>9. ASSUME NEW i \in Id, WorkerTake(i)
     PROVE  FramesAccountedFor'
  <2>1. queue[i] # <<>>
    BY <1>9 DEF WorkerTake, FrontExists
  <2>2. Len(Tail(queue[i])) = Len(queue[i]) - 1
    BY <1>0, <2>1, HeadTailProperties
  <2>3. /\ queue'[i] = Tail(queue[i]) /\ worker[i] # "callback" /\ worker'[i] = "callback"
        /\ \A j \in Id : j # i => queue'[j] = queue[j] /\ worker'[j] = worker[j]
        /\ UNCHANGED <<dropped, consumed, failed, discarded, offered>>
    BY <1>0, <1>9 DEF WorkerTake
  <2>4. Balanced(i)'
    <3>1. Len(queue'[i]) = Len(queue[i]) - 1
      BY <2>2, <2>3
    <3>2. InCallback(i) = 0 /\ InCallback(i)' = 1
      BY <2>3 DEF InCallback
    <3>3. Balanced(i)
      BY <1>0, <2>1 DEF FramesAccountedFor, Balanced
    <3>4. /\ Len(queue[i]) \in Nat /\ dropped[i] \in Nat /\ consumed[i] \in Nat
          /\ failed[i] \in Nat /\ discarded[i] \in Nat /\ offered[i] \in Nat
      BY <1>0, <2>1
    <3>5. offered[i] = Len(queue[i]) + dropped[i] + consumed[i] + failed[i]
                       + discarded[i] + 0
      BY <3>2, <3>3 DEF Balanced
    <3>6. offered[i] = (Len(queue[i]) - 1) + dropped[i] + consumed[i] + failed[i]
                       + discarded[i] + 1
      <4> DEFINE o == offered[i]
                 l == Len(queue[i])
                 d == dropped[i]
                 k == consumed[i]
                 f == failed[i]
                 x == discarded[i]
      <4>1. /\ o \in Nat /\ l \in Nat /\ d \in Nat /\ k \in Nat /\ f \in Nat /\ x \in Nat
        BY <3>4
      <4>2. o = l + d + k + f + x + 0
        BY <3>5
      <4> HIDE DEF o, l, d, k, f, x
      <4>3. o = (l - 1) + d + k + f + x + 1
        BY <4>1, <4>2
      <4> QED
        BY <4>3 DEF o, l, d, k, f, x
    <3> QED
      BY <2>3, <3>1, <3>2, <3>6 DEF Balanced
  <2> QED
    BY <2>3, <2>4 DEF FramesAccountedFor, Balanced, InCallback
<1>10. ASSUME NEW i \in Id, CallbackReturns(i)
     PROVE  FramesAccountedFor'
  <2>1. /\ worker[i] = "callback" /\ worker'[i] = "loop" /\ consumed'[i] = consumed[i] + 1
        /\ \A j \in Id : j # i => consumed'[j] = consumed[j] /\ worker'[j] = worker[j]
        /\ UNCHANGED <<queue, dropped, failed, discarded, offered>>
    BY <1>0, <1>10 DEF CallbackReturns, histVars
  <2>2. Balanced(i)'
    BY <1>0, <2>1 DEF FramesAccountedFor, Balanced, InCallback
  <2> QED
    BY <2>1, <2>2 DEF FramesAccountedFor, Balanced, InCallback
<1>11. ASSUME NEW i \in Id, CallbackThrows(i)
     PROVE  FramesAccountedFor'
  <2>1. /\ worker[i] = "callback" /\ worker'[i] = "loop" /\ failed'[i] = failed[i] + 1
        /\ \A j \in Id : j # i => failed'[j] = failed[j] /\ worker'[j] = worker[j]
        /\ UNCHANGED <<queue, dropped, consumed, discarded, offered>>
    BY <1>0, <1>11 DEF CallbackThrows, histVars
  <2>2. Balanced(i)'
    BY <1>0, <2>1 DEF FramesAccountedFor, Balanced, InCallback
  <2> QED
    BY <2>1, <2>2 DEF FramesAccountedFor, Balanced, InCallback
<1>12. ASSUME NEW c \in Controllers, AddAllocate(c)
     PROVE  FramesAccountedFor'
  BY <1>0, <1>12 DEF AddAllocate, FramesAccountedFor, InCallback, Notified, slotVars, pushVars, ctrlVars, dtorVars, histVars
<1>13. ASSUME NEW c \in Controllers, AddPublish(c)
     PROVE  FramesAccountedFor'
  <2>1. target[c] \in Id /\ worker[target[c]] = "unborn"
    BY <1>13 DEF AddPublish, FreshIds, TypeOK
  <2>2. worker' = [worker EXCEPT ![target[c]] = "loop"]
        /\ UNCHANGED <<queue, dropped, consumed, failed, discarded, offered>>
    BY <1>13 DEF AddPublish
  <2> QED
    BY <1>0, <2>1, <2>2 DEF FramesAccountedFor, InCallback
<1>14. ASSUME NEW c \in Controllers, NEW i \in Id \cup {NoId}, RemoveCall(c, i)
     PROVE  FramesAccountedFor'
  BY <1>0, <1>14 DEF RemoveCall, FramesAccountedFor, InCallback, Notified, slotVars, pushVars, ctrlVars, dtorVars, histVars
<1>15. ASSUME NEW c \in Controllers, RemoveAbsent(c)
     PROVE  FramesAccountedFor'
  BY <1>0, <1>15 DEF RemoveAbsent, FramesAccountedFor, InCallback, Notified, slotVars, pushVars, ctrlVars, dtorVars, histVars
<1>16. ASSUME NEW c \in Controllers, RemoveErase(c)
     PROVE  FramesAccountedFor'
  BY <1>0, <1>16 DEF RemoveErase, FramesAccountedFor, InCallback, Notified, slotVars, pushVars, ctrlVars, dtorVars, histVars
<1>17. ASSUME NEW c \in Controllers, RemoveStop(c)
     PROVE  FramesAccountedFor'
  BY <1>0, <1>17 DEF RemoveStop, FramesAccountedFor, InCallback, Notified, slotVars, pushVars, ctrlVars, dtorVars, histVars
<1>18. ASSUME NEW c \in Controllers, RemoveNotify(c)
     PROVE  FramesAccountedFor'
  BY <1>0, <1>18 DEF RemoveNotify, FramesAccountedFor, InCallback, Notified, slotVars, pushVars, ctrlVars, dtorVars, histVars
<1>19. ASSUME NEW c \in Controllers, RemoveJoin(c)
     PROVE  FramesAccountedFor'
  BY <1>0, <1>19 DEF RemoveJoin, FramesAccountedFor, InCallback, Notified, slotVars, pushVars, ctrlVars, dtorVars, histVars
<1>20. ASSUME NEW c \in Controllers, RemoveClear(c)
     PROVE  FramesAccountedFor'
  <2>1. target[c] \in Id
    BY <1>20 DEF RemoveClear, TypeOK
  <2> PICK t \in Id : t = target[c]
    BY <2>1
  <2>2. /\ queue'[t] = <<>> /\ Len(<<>>) = 0
        /\ discarded'[t] = discarded[t] + Len(queue[t])
        /\ \A j \in Id : j # t => queue'[j] = queue[j] /\ discarded'[j] = discarded[j]
        /\ UNCHANGED <<dropped, consumed, failed, worker, offered>>
    BY <1>0, <1>20, <2>1 DEF RemoveClear
  <2>3. Balanced(t)'
    <3>1. Len(queue'[t]) = 0
      BY <2>2
    <3>2. InCallback(t)' = InCallback(t) /\ InCallback(t) \in 0 .. 1
      BY <2>2 DEF InCallback
    <3>3. Balanced(t)
      BY <1>0, <2>1 DEF FramesAccountedFor, Balanced
    <3>4. /\ Len(queue[t]) \in Nat /\ dropped[t] \in Nat /\ consumed[t] \in Nat
          /\ failed[t] \in Nat /\ discarded[t] \in Nat /\ offered[t] \in Nat
      BY <1>0, <2>1
    <3>5. /\ discarded'[t] = discarded[t] + Len(queue[t])
          /\ dropped'[t] = dropped[t] /\ consumed'[t] = consumed[t]
          /\ failed'[t] = failed[t] /\ offered'[t] = offered[t]
      BY <2>2
    <3>6. offered[t] = Len(queue[t]) + dropped[t] + consumed[t] + failed[t]
                       + discarded[t] + InCallback(t)
      BY <3>3 DEF Balanced
    <3>7. InCallback(t) \in Nat
      BY <3>2
    <3>8. offered[t] = 0 + dropped[t] + consumed[t] + failed[t]
                       + (discarded[t] + Len(queue[t])) + InCallback(t)
      <4> DEFINE o == offered[t]
                 l == Len(queue[t])
                 d == dropped[t]
                 k == consumed[t]
                 f == failed[t]
                 x == discarded[t]
                 b == InCallback(t)
      <4>1. /\ o \in Nat /\ l \in Nat /\ d \in Nat /\ k \in Nat /\ f \in Nat /\ x \in Nat
            /\ b \in Nat
        BY <3>4, <3>7
      <4>2. o = l + d + k + f + x + b
        BY <3>6
      <4> HIDE DEF o, l, d, k, f, x, b
      <4>3. o = 0 + d + k + f + (x + l) + b
        BY <4>1, <4>2
      <4> QED
        BY <4>3 DEF o, l, d, k, f, x, b
    <3> QED
      BY <3>1, <3>2, <3>5, <3>8 DEF Balanced
  <2> QED
    <3> SUFFICES ASSUME NEW j \in Id, j # t PROVE Balanced(j)'
      BY <2>3 DEF FramesAccountedFor, Balanced, InCallback
    <3>1. Balanced(j)
      BY DEF FramesAccountedFor, Balanced
    <3> QED
      BY <2>2, <3>1 DEF Balanced, InCallback
<1>21. CASE DestroyBegin
  BY <1>0, <1>21 DEF DestroyBegin, FramesAccountedFor, InCallback, Notified, slotVars, pushVars, ctrlVars, dtorVars, histVars
<1>22. CASE DestroyStop
  BY <1>0, <1>22 DEF DestroyStop, FramesAccountedFor, InCallback, Notified, slotVars, pushVars, ctrlVars, dtorVars, histVars
<1>23. CASE DestroyNotify
  BY <1>0, <1>23 DEF DestroyNotify, FramesAccountedFor, InCallback, Notified, slotVars, pushVars, ctrlVars, dtorVars, histVars
<1>24. CASE DestroyJoin
  BY <1>0, <1>24 DEF DestroyJoin, FramesAccountedFor, InCallback, Notified, slotVars, pushVars, ctrlVars, dtorVars, histVars
<1>25. CASE UNCHANGED vars
  BY <1>25 DEF FramesAccountedFor, InCallback, vars, slotVars, pushVars, ctrlVars, dtorVars, histVars
<1> QED
  BY <1>1, <1>2, <1>3, <1>4, <1>5, <1>6, <1>7, <1>8, <1>9, <1>10, <1>11, <1>12, <1>13, <1>14, <1>15, <1>16, <1>17, <1>18, <1>19, <1>20, <1>21, <1>22, <1>23, <1>24, <1>25
  DEF Next, Push, WorkerStep, AddConsumer, RemoveStep, DestroyStep

\* No frame is lost without being counted, and none is counted twice.
THEOREM FrameAccounting == Spec => []FramesAccountedFor
<1>1. Init => TypeOK /\ FrontExists /\ FreshIds /\ FramesAccountedFor
  <2> SUFFICES ASSUME Init PROVE TypeOK /\ FrontExists /\ FreshIds /\ FramesAccountedFor
    OBVIOUS
  <2>1. TypeOK /\ FrontExists
    BY InitType DEF Init, FrontExists
  <2>2. FreshIds
    BY NoRepeatEmpty, RangeEmpty DEF Init, FreshIds
  <2>3. Len(<<>>) = 0
    OBVIOUS
  <2>4. FramesAccountedFor
    BY <2>3 DEF Init, FramesAccountedFor, InCallback
  <2> QED
    BY <2>1, <2>2, <2>4
<1> QED
  BY <1>1, NextType, NextFront, NextFresh, NextAccounted, PTL DEF Spec

-----------------------------------------------------------------------------
(* What the distributor promises each consumer: FrameFeed *)

\* Between two calls of push() its snapshot is used up, and a consumer whose worker
\* was never started was offered nothing.
NothingPending ==
    /\ pusher = "idle" => snapshot = <<>>
    /\ \A i \in Id : worker[i] = "unborn" => offered[i] = 0

\* push() leaves its loop with an empty snapshot, and offers only to slots that are
\* published.
LEMMA NextNothingPending ==
    TypeOK /\ FreshIds /\ NothingPending /\ [Next]_vars => NothingPending'
<1> SUFFICES ASSUME TypeOK, FreshIds, NothingPending, [Next]_vars
             PROVE  NothingPending'
  OBVIOUS
<1>0. /\ worker \in [Id -> WorkerState] /\ offered \in [Id -> Nat]
      /\ snapshot \in Seq(Id) /\ (pusher # "idle" => snapshot # <<>>)
  BY DEF TypeOK
<1>1. pusher' = "idle" => snapshot' = <<>>
  BY DEF NothingPending, Next, vars, Push, WorkerStep, AddConsumer, RemoveStep, DestroyStep,
     PushSnapshot, PushEnqueue, PushNotify, WorkerLoop, WorkerTest, WorkerPark,
     SpuriousWakeup, WorkerBreak, WorkerTake, CallbackReturns, CallbackThrows, AddAllocate,
     AddPublish, RemoveCall, RemoveAbsent, RemoveErase, RemoveStop, RemoveNotify,
     RemoveJoin, RemoveClear, DestroyBegin, DestroyStop, DestroyNotify, DestroyJoin, pushVars
<1>2. ASSUME NEW i \in Id, worker'[i] = "unborn"
      PROVE  worker[i] = "unborn"
  BY <1>0, <1>2 DEF Next, vars, slotVars, Push, WorkerStep, AddConsumer, RemoveStep, DestroyStep,
     PushSnapshot, PushEnqueue, PushNotify, WorkerLoop, WorkerTest, WorkerPark,
     SpuriousWakeup, WorkerBreak, WorkerTake, CallbackReturns, CallbackThrows, AddAllocate,
     AddPublish, RemoveCall, RemoveAbsent, RemoveErase, RemoveStop, RemoveNotify,
     RemoveJoin, RemoveClear, DestroyBegin, DestroyStop, DestroyNotify, DestroyJoin, Notified
<1>3. ASSUME NEW i \in Id, worker[i] = "unborn"
      PROVE  offered'[i] = offered[i]
  <2>1. CASE PushEnqueue
    <3>1. snapshot # <<>> /\ offered' = [offered EXCEPT ![Head(snapshot)] = @ + 1]
      BY <1>0, <2>1 DEF PushEnqueue
    <3>2. Head(snapshot) # i
      BY <1>0, <1>3, <3>1, RangeTail DEF FreshIds
    <3> QED
      BY <1>0, <3>1, <3>2
  <2>2. CASE ~PushEnqueue
    <3>1. offered' = offered
      BY <2>2 DEF Next, vars, histVars, Push, WorkerStep, AddConsumer, RemoveStep, DestroyStep,
         PushSnapshot, PushNotify, WorkerLoop, WorkerTest, WorkerPark,
         SpuriousWakeup, WorkerBreak, WorkerTake, CallbackReturns, CallbackThrows, AddAllocate,
         AddPublish, RemoveCall, RemoveAbsent, RemoveErase, RemoveStop, RemoveNotify,
         RemoveJoin, RemoveClear, DestroyBegin, DestroyStop, DestroyNotify, DestroyJoin
    <3> QED
      BY <3>1
  <2> QED
    BY <2>1, <2>2
<1> QED
  BY <1>1, <1>2, <1>3 DEF NothingPending

-----------------------------------------------------------------------------
(* No frame is skipped.                                                    *)

\* NoFrameSkipped, for one consumer.
Offered(i) ==
    offered[i] = frame - since[i] - (IF i \in Range(Unserved) THEN 1 ELSE 0)

\* A frame is counted as owed to all slots of the snapshot when it arrives, and paid
\* to one of them at each turn of push()'s loop; a new slot is owed nothing.
LEMMA NextOffered ==
    TypeOK /\ FreshIds /\ NothingPending /\ NoFrameSkipped /\ [Next]_vars => NoFrameSkipped'
<1> SUFFICES ASSUME TypeOK, FreshIds, NothingPending, NoFrameSkipped, [Next]_vars
             PROVE  NoFrameSkipped'
  OBVIOUS
<1>0. /\ offered \in [Id -> Nat] /\ since \in [Id -> 0 .. MaxFrames]
      /\ frame \in 0 .. MaxFrames /\ frame \in Int
      /\ snapshot \in Seq(Id) /\ slots \in Seq(Id)
      /\ pusher # "idle" => snapshot # <<>>
      /\ \A i \in Id : offered[i] \in Int /\ since[i] \in Int
  BY Bounds DEF TypeOK
<1>1. \A i \in Id : i \in Range(slots) => Offered(i)
  BY DEF NoFrameSkipped, Registered, Offered
<1> SUFFICES ASSUME NEW i \in Id, i \in Range(slots')
             PROVE  Offered(i)'
  BY DEF NoFrameSkipped, Registered, Offered
<1>2. CASE PushSnapshot
  <2>1. /\ frame' = frame + 1 /\ snapshot' = slots /\ slots' = slots
        /\ offered' = offered /\ since' = since /\ pusher = "idle" /\ pusher' # "notify"
    BY <1>2 DEF PushSnapshot, histVars
  <2>2. Unserved = <<>> /\ Unserved' = slots
    BY <2>1 DEF Unserved, NothingPending
  <2>3. offered[i] = frame - since[i] - 0
    BY <1>1, <2>1, <2>2, RangeEmpty DEF Offered
  <2>4. offered[i] = (frame + 1) - since[i] - 1
    BY <1>0, <2>3
  <2> QED
    BY <2>1, <2>2, <2>4 DEF Offered
<1>3. CASE PushEnqueue
  <2> DEFINE h == Head(snapshot)
  <2>1. /\ snapshot # <<>> /\ snapshot' = snapshot /\ pusher = "enqueue" /\ pusher' = "notify"
        /\ offered' = [offered EXCEPT ![h] = @ + 1]
        /\ slots' = slots /\ since' = since /\ frame' = frame
    BY <1>0, <1>3 DEF PushEnqueue
  <2>2. Unserved = snapshot /\ Unserved' = Tail(snapshot)
    BY <2>1 DEF Unserved
  <2>3. /\ h \in Range(snapshot) /\ h \notin Range(Tail(snapshot))
        /\ Range(Tail(snapshot)) \subseteq Range(snapshot)
        /\ Range(snapshot) \subseteq Range(Tail(snapshot)) \cup {h}
    BY <1>0, <2>1, HeadNotInTail, RangeTail DEF FreshIds
  <2> HIDE DEF h
  <2>4. Offered(i)
    BY <1>1, <2>1
  <2>5. CASE i = h
    <3>1. offered[i] = frame - since[i] - 1 /\ offered'[i] = offered[i] + 1
      BY <1>0, <2>1, <2>2, <2>3, <2>4, <2>5 DEF Offered
    <3>2. offered'[i] = frame - since[i] - 0
      BY <1>0, <3>1
    <3> QED
      BY <2>1, <2>2, <2>3, <2>5, <3>2 DEF Offered
  <2>6. CASE i # h
    <3>1. offered'[i] = offered[i] /\ (i \in Range(snapshot) <=> i \in Range(Tail(snapshot)))
      BY <1>0, <2>1, <2>3, <2>6
    <3> QED
      BY <2>1, <2>2, <2>4, <3>1 DEF Offered
  <2> QED
    BY <2>5, <2>6
<1>4. CASE PushNotify
  <2>1. /\ pusher = "notify" /\ pusher' # "notify" /\ snapshot' = Tail(snapshot)
        /\ slots' = slots /\ offered' = offered /\ since' = since /\ frame' = frame
    BY <1>4 DEF PushNotify, RestOfSnapshot, histVars
  <2>2. Unserved' = Unserved
    BY <2>1 DEF Unserved
  <2> QED
    BY <1>1, <2>1, <2>2 DEF Offered
<1>5. ASSUME NEW c \in Controllers, AddPublish(c)
      PROVE  Offered(i)'
  <2> DEFINE t == target[c]
  <2>1. /\ t \in Id /\ slots' = Append(slots, t) /\ since' = [since EXCEPT ![t] = frame]
        /\ UNCHANGED <<snapshot, pusher, frame, offered>> /\ worker[t] = "unborn"
    BY <1>5 DEF AddPublish, TypeOK, FreshIds, pushVars
  <2>2. Unserved' = Unserved
    BY <2>1 DEF Unserved
  <2>3. i \in Range(slots) \cup {t}
    BY <1>0, <2>1, RangeAppend
  <2>4. t \notin Range(slots) /\ t \notin Range(snapshot) /\ offered[t] = 0
    BY <2>1 DEF FreshIds, NothingPending
  <2> HIDE DEF t
  <2>5. CASE i = t
    <3>1. i \notin Range(Unserved)
      <4>1. CASE pusher = "notify"
        BY <1>0, <2>4, <2>5, <4>1, RangeTail DEF Unserved
      <4>2. CASE pusher # "notify"
        BY <2>4, <2>5, <4>2 DEF Unserved
      <4> QED
        BY <4>1, <4>2
    <3>2. offered'[i] = 0 /\ since'[i] = frame /\ frame' = frame
      BY <1>0, <2>1, <2>4, <2>5
    <3>3. 0 = frame - frame - 0
      BY <1>0
    <3> QED
      BY <2>2, <3>1, <3>2, <3>3 DEF Offered
  <2>6. CASE i # t
    <3>1. offered'[i] = offered[i] /\ since'[i] = since[i] /\ frame' = frame
      BY <1>0, <2>1, <2>6
    <3> QED
      BY <1>1, <2>2, <2>3, <2>6, <3>1 DEF Offered
  <2> QED
    BY <2>5, <2>6
<1>6. ASSUME NEW c \in Controllers, RemoveErase(c)
      PROVE  Offered(i)'
  <2>1. PICK n \in DOMAIN slots : slots' = RemoveAt(slots, n)
    BY <1>6 DEF RemoveErase
  <2>2. Range(slots') \subseteq Range(slots)
    <3>1. n \in 1 .. Len(slots)
      BY <1>0, LenProperties
    <3> QED
      BY <1>0, <2>1, <3>1, NoRepeatRemoveAt DEF FreshIds
  <2>3. UNCHANGED <<snapshot, pusher, frame, offered, since>>
    BY <1>6 DEF RemoveErase, pushVars, histVars
  <2> QED
    BY <1>1, <2>2, <2>3 DEF Offered, Unserved
<1>7. CASE DestroyBegin
  <2>1. slots' = <<>>
    BY <1>7 DEF DestroyBegin
  <2> QED
    BY <2>1, RangeEmpty
<1>8. CASE UNCHANGED <<slots, snapshot, pusher, frame, offered, since>>
  BY <1>1, <1>8 DEF Offered, Unserved
<1>9. \/ PushSnapshot \/ PushEnqueue \/ PushNotify \/ DestroyBegin
      \/ \E c \in Controllers : AddPublish(c) \/ RemoveErase(c)
      \/ UNCHANGED <<slots, snapshot, pusher, frame, offered, since>>
  BY DEF Next, vars, histVars, pushVars, Push, WorkerStep, AddConsumer, RemoveStep, DestroyStep,
     WorkerLoop, WorkerTest, WorkerPark, SpuriousWakeup, WorkerBreak, WorkerTake,
     CallbackReturns, CallbackThrows, AddAllocate, RemoveCall, RemoveAbsent, RemoveStop,
     RemoveNotify, RemoveJoin, RemoveClear, DestroyStop, DestroyNotify, DestroyJoin
<1> QED
  BY <1>2, <1>3, <1>4, <1>5, <1>6, <1>7, <1>8, <1>9

\* What the distributor keeps true of a consumer's queue and of the frames owed to it.
IInv ==
    /\ TypeOK /\ FrontExists /\ FreshIds /\ NothingPending
    /\ Ordered /\ QueueBounded /\ NoOrphanWorker

\* Init satisfies the invariant, and every step preserves it.
LEMMA InvStep == (Init => IInv) /\ (IInv /\ [Next]_vars => IInv')
<1>1. ASSUME Init PROVE IInv
  <2>1. TypeOK /\ FrontExists
    BY <1>1, InitType DEF Init, FrontExists
  <2>2. Len(<<>>) = 0 /\ \A n \in 1 .. 0 : FALSE
    OBVIOUS
  <2>3. FreshIds
    BY <1>1, NoRepeatEmpty, RangeEmpty DEF Init, FreshIds
  <2>4. Ordered
    BY <1>1, <2>2, RangeEmpty DEF Init, Ordered, Unserved
  <2>5. NothingPending /\ NoOrphanWorker
    BY <1>1 DEF Init, NothingPending, NoOrphanWorker
  <2>6. QueueBounded
    <3>1. \A j \in Id : 0 <= Capacity(j)
      BY CapacityPositive
    <3> QED
      BY <1>1, <2>2, <3>1 DEF Init, QueueBounded
  <2> QED
    BY <2>1, <2>3, <2>4, <2>5, <2>6 DEF IInv
<1>2. IInv /\ [Next]_vars => IInv'
  BY NextType, NextFront, NextFresh, NextNothingPending, NextOrdered, NextBounded, NextOrphan
     DEF IInv
<1> QED
  BY <1>1, <1>2

\* A registered consumer is offered every frame that push() is called with from its
\* registration on, whoever else comes and goes while push() walks its snapshot.
THEOREM EveryFrameOffered == Spec => []NoFrameSkipped
<1>1. Init => NoFrameSkipped
  BY RangeEmpty DEF Init, NoFrameSkipped, Registered
<1>2. IInv /\ NoFrameSkipped /\ [Next]_vars => NoFrameSkipped'
  BY NextOffered DEF IInv
<1> QED
  BY <1>1, <1>2, InvStep, PTL DEF Spec

-----------------------------------------------------------------------------
(* Removals do not meet.                                                   *)

\* What a thread does in remove_consumer() once it has taken the slot out.
Removal == {"stop", "notify", "join", "clear"}

\* Two removals never have the same slot, one that has a slot took it out of slots_,
\* and a slot that is cleared has no worker any more; the destructor runs alone.
RemovalsApart ==
    /\ dtor # "alive" => slots = <<>> /\ \A c \in Controllers : control[c] = "idle"
    /\ NoRepeat(doomed)
    /\ \A i \in Range(doomed) : worker[i] # "unborn"
    /\ \A c \in Controllers : control[c] \in Removal =>
          worker[target[c]] # "unborn" /\ target[c] \notin Range(slots)
    /\ \A c, d \in Controllers :
          control[c] \in Removal /\ control[d] \in Removal /\ target[c] = target[d] => c = d
    /\ \A c \in Controllers : control[c] = "clear" => worker[target[c]] = "done"

\* An id is no longer in slots_ once it was erased.
LEMMA ErasedIsGone ==
  ASSUME NEW S, NEW s \in Seq(S), NEW n \in 1 .. Len(s), NoRepeat(s)
  PROVE  s[n] \notin Range(RemoveAt(s, n))
<1>1. /\ Len(s) \in Nat
      /\ RemoveAt(s, n) \in Seq(S)
      /\ Len(RemoveAt(s, n)) = Len(s) - 1
      /\ \A k \in 1 .. Len(s) - 1 :
            RemoveAt(s, n)[k] = IF k < n THEN s[k] ELSE s[k + 1]
  BY LenProperties, RemoveAtProperties
<1>2. Range(RemoveAt(s, n)) = {RemoveAt(s, n)[k] : k \in 1 .. Len(s) - 1}
  BY <1>1, RangeEquality
<1>3. ASSUME NEW k \in 1 .. Len(s) - 1
      PROVE  RemoveAt(s, n)[k] # s[n]
  <2>1. CASE k < n
    <3>1. k \in 1 .. Len(s) /\ k # n /\ RemoveAt(s, n)[k] = s[k]
      BY <1>1, <2>1
    <3> QED
      BY <3>1 DEF NoRepeat
  <2>2. CASE ~(k < n)
    <3>1. k + 1 \in 1 .. Len(s) /\ k + 1 # n /\ RemoveAt(s, n)[k] = s[k + 1]
      BY <1>1, <2>2
    <3> QED
      BY <3>1 DEF NoRepeat
  <2> QED
    BY <2>1, <2>2
<1> QED
  BY <1>2, <1>3

\* A worker that was started is never unborn again, and one that returned stays so.
LEMMA WorkersStay ==
  ASSUME TypeOK, FreshIds, [Next]_vars, NEW i \in Id
  PROVE  /\ worker[i] # "unborn" => worker'[i] # "unborn"
         /\ worker[i] = "done" => worker'[i] = "done"
<1>1. worker \in [Id -> WorkerState]
  BY DEF TypeOK
<1>2. ASSUME NEW c \in Controllers, AddPublish(c)
      PROVE  worker[i] # "unborn" => worker'[i] = worker[i]
  BY <1>1, <1>2 DEF AddPublish, FreshIds
<1>3. CASE \E c \in Controllers : AddPublish(c)
  BY <1>2, <1>3
<1>4. CASE ~\E c \in Controllers : AddPublish(c)
  BY <1>1, <1>4 DEF Next, vars, slotVars, Push, WorkerStep, AddConsumer, RemoveStep, DestroyStep,
     PushSnapshot, PushEnqueue, PushNotify, WorkerLoop, WorkerTest, WorkerPark,
     SpuriousWakeup, WorkerBreak, WorkerTake, CallbackReturns, CallbackThrows, AddAllocate,
     RemoveCall, RemoveAbsent, RemoveErase, RemoveStop, RemoveNotify,
     RemoveJoin, RemoveClear, DestroyBegin, DestroyStop, DestroyNotify, DestroyJoin, Notified
<1> QED
  BY <1>3, <1>4

\* Only RemoveErase gives a slot to a removal, and it takes it out of slots_.
LEMMA NextApart == TypeOK /\ FreshIds /\ RemovalsApart /\ [Next]_vars => RemovalsApart'
<1> SUFFICES ASSUME TypeOK, FreshIds, RemovalsApart, [Next]_vars
             PROVE  RemovalsApart'
  OBVIOUS
<1>0. /\ worker \in [Id -> WorkerState]
      /\ control \in [Controllers -> ControlState]
      /\ target \in [Controllers -> Id \cup {NoId}]
      /\ slots \in Seq(Id) /\ doomed \in Seq(Id)
      /\ \A c \in Controllers : control[c] \notin {"idle", "find"} => target[c] \in Id
      /\ dtor \in {"stop", "notify", "join"} <=> doomed # <<>>
      /\ dtor \in {"alive", "stop", "notify", "join", "gone"}
  BY DEF TypeOK
<1>1. \A i \in Id : /\ worker[i] # "unborn" => worker'[i] # "unborn"
                    /\ worker[i] = "done" => worker'[i] = "done"
  BY WorkersStay
<1>2. /\ Range(doomed) \subseteq Id /\ Range(slots) \subseteq Id
      /\ \A c \in Controllers : control[c] \in Removal => target[c] \in Id
  BY <1>0, RangeEquality, ElementOfSeq DEF Removal
\* Steps that change none of what is shared.
<1>3. CASE UNCHANGED <<slots, doomed, dtor, control, target>>
  BY <1>1, <1>2, <1>3 DEF RemovalsApart, Removal
<1>4. ASSUME NEW c \in Controllers, AddAllocate(c) \/ RemoveAbsent(c) \/ \E i \in Id \cup {NoId} : RemoveCall(c, i)
      PROVE  RemovalsApart'
  <2>1. /\ UNCHANGED <<slots, doomed, dtor>>
        /\ control' = [control EXCEPT ![c] = control'[c]] /\ control'[c] \notin Removal
        /\ target' = [target EXCEPT ![c] = target'[c]]
        /\ dtor = "alive"
    BY <1>0, <1>4 DEF AddAllocate, RemoveAbsent, RemoveCall, dtorVars, Removal, RemovalsApart
  <2>2. \A d \in Controllers : control'[d] \in Removal =>
           control'[d] = control[d] /\ target'[d] = target[d]
    BY <1>0, <2>1
  <2> QED
    BY <1>1, <1>2, <2>1, <2>2 DEF RemovalsApart, Removal
<1>5. ASSUME NEW c \in Controllers, AddPublish(c)
      PROVE  RemovalsApart'
  <2>1. /\ UNCHANGED <<doomed, dtor>> /\ slots' = Append(slots, target[c])
        /\ control' = [control EXCEPT ![c] = "idle"] /\ target' = [target EXCEPT ![c] = NoId]
        /\ target[c] \in Id /\ worker[target[c]] = "unborn" /\ control[c] = "publish"
    BY <1>0, <1>5 DEF AddPublish, dtorVars, FreshIds
  <2>2. \A d \in Controllers : control'[d] \in Removal =>
           control'[d] = control[d] /\ target'[d] = target[d]
    BY <1>0, <2>1 DEF Removal
  <2>3. Range(slots') = Range(slots) \cup {target[c]}
    BY <1>0, <2>1, RangeAppend
  <2>4. dtor = "alive"
    BY <2>1 DEF RemovalsApart
  <2> QED
    BY <1>1, <1>2, <2>1, <2>2, <2>3, <2>4 DEF RemovalsApart, Removal
<1>6. ASSUME NEW c \in Controllers, RemoveErase(c)
      PROVE  RemovalsApart'
  <2>1. PICK n \in DOMAIN slots : slots[n] = target[c] /\ slots' = RemoveAt(slots, n)
    BY <1>6 DEF RemoveErase
  <2>2. n \in 1 .. Len(slots)
    BY <1>0, LenProperties
  <2>3. /\ Range(slots') \subseteq Range(slots) /\ target[c] \notin Range(slots')
        /\ target[c] \in Range(slots)
    <3>1. Range(slots) = {slots[k] : k \in 1 .. Len(slots)}
      BY <1>0, RangeEquality
    <3>2. target[c] \in Range(slots)
      BY <2>1, <2>2, <3>1
    <3>3. NoRepeat(slots)
      BY DEF FreshIds
    <3>4. Range(slots') \subseteq Range(slots)
      BY <1>0, <2>1, <2>2, <3>3, NoRepeatRemoveAt
    <3>5. slots[n] \notin Range(RemoveAt(slots, n))
      BY <1>0, <2>2, <3>3, ErasedIsGone
    <3> QED
      BY <2>1, <3>2, <3>4, <3>5
  <2>4. /\ UNCHANGED <<doomed, dtor, target, worker>>
        /\ control' = [control EXCEPT ![c] = "stop"] /\ control[c] = "find" /\ dtor = "alive"
    BY <1>6 DEF RemoveErase, dtorVars, slotVars, RemovalsApart
  <2>5. worker[target[c]] # "unborn" /\ target[c] \in Id
    BY <1>2, <2>3 DEF FreshIds
  <2>6. \A d \in Controllers : control'[d] \in Removal => d = c \/ control'[d] = control[d]
    BY <1>0, <2>4
  <2>7. control'[c] = "stop" /\ \A d \in Controllers : control[d] \in Removal => target[d] # target[c]
    BY <1>0, <2>3, <2>4 DEF RemovalsApart
  <2> QED
    BY <1>2, <2>3, <2>4, <2>5, <2>6, <2>7 DEF RemovalsApart, Removal
<1>7. ASSUME NEW c \in Controllers, RemoveStop(c) \/ RemoveNotify(c) \/ RemoveJoin(c)
      PROVE  RemovalsApart'
  <2>1. /\ UNCHANGED <<slots, doomed, dtor, target>>
        /\ control' = [control EXCEPT ![c] = control'[c]]
        /\ control[c] \in Removal /\ control'[c] \in Removal /\ dtor = "alive"
        /\ control'[c] = "clear" => worker[target[c]] = "done"
    BY <1>0, <1>7 DEF RemoveStop, RemoveNotify, RemoveJoin, dtorVars, Removal, RemovalsApart
  <2>2. \A d \in Controllers : /\ d # c => control'[d] = control[d]
                               /\ control'[d] \in Removal <=> control[d] \in Removal
    BY <1>0, <2>1
  <2> QED
    BY <1>1, <1>2, <2>1, <2>2 DEF RemovalsApart, Removal
<1>8. ASSUME NEW c \in Controllers, RemoveClear(c)
      PROVE  RemovalsApart'
  <2>1. /\ UNCHANGED <<slots, doomed, dtor>>
        /\ control' = [control EXCEPT ![c] = "idle"] /\ target' = [target EXCEPT ![c] = NoId]
        /\ control[c] = "clear" /\ dtor = "alive"
    BY <1>8 DEF RemoveClear, dtorVars, RemovalsApart
  <2>2. \A d \in Controllers : control'[d] \in Removal =>
           control'[d] = control[d] /\ target'[d] = target[d]
    BY <1>0, <2>1 DEF Removal
  <2> QED
    BY <1>1, <1>2, <2>1, <2>2 DEF RemovalsApart, Removal
<1>9. CASE DestroyBegin
  <2>1. /\ doomed' = slots /\ slots' = <<>> /\ UNCHANGED <<control, target, worker>>
        /\ \A c \in Controllers : control[c] = "idle"
    BY <1>9 DEF DestroyBegin, ctrlVars, slotVars
  <2>2. \A i \in Range(slots) : worker[i] # "unborn"
    BY <1>2 DEF FreshIds
  <2> QED
    BY <2>1, <2>2 DEF RemovalsApart, FreshIds, Removal
<1>10. CASE DestroyStop \/ DestroyNotify
  <2>1. UNCHANGED <<slots, doomed, control, target>> /\ dtor # "alive"
    BY <1>10 DEF DestroyStop, DestroyNotify, ctrlVars
  <2> QED
    BY <1>1, <1>2, <2>1 DEF RemovalsApart
<1>11. CASE DestroyJoin
  <2>1. /\ UNCHANGED <<slots, control, target, worker>> /\ dtor # "alive" /\ doomed # <<>>
        /\ doomed' = Tail(doomed)
    BY <1>0, <1>11 DEF DestroyJoin, ctrlVars, slotVars
  <2>2. Range(doomed') \subseteq Range(doomed) /\ NoRepeat(doomed')
    BY <1>0, <2>1, RangeTail, NoRepeatTail DEF RemovalsApart
  <2> QED
    BY <2>1, <2>2 DEF RemovalsApart
<1>12. \/ UNCHANGED <<slots, doomed, dtor, control, target>>
       \/ \E c \in Controllers :
             \/ AddAllocate(c) \/ RemoveAbsent(c) \/ \E i \in Id \cup {NoId} : RemoveCall(c, i)
             \/ AddPublish(c) \/ RemoveErase(c) \/ RemoveStop(c) \/ RemoveNotify(c)
             \/ RemoveJoin(c) \/ RemoveClear(c)
       \/ DestroyBegin \/ DestroyStop \/ DestroyNotify \/ DestroyJoin
  BY DEF Next, vars, ctrlVars, dtorVars, Push, WorkerStep, AddConsumer, RemoveStep, DestroyStep,
     PushSnapshot, PushEnqueue, PushNotify, WorkerLoop, WorkerTest, WorkerPark,
     SpuriousWakeup, WorkerBreak, WorkerTake, CallbackReturns, CallbackThrows
<1> QED
  BY <1>3, <1>4, <1>5, <1>6, <1>7, <1>8, <1>9, <1>10, <1>11, <1>12

-----------------------------------------------------------------------------
(* StreamDistributor implements FrameFeed.                                 *)

\* Some thread has taken i out of slots_ and has not let go of it.
Held(i) ==
    \/ \E c \in Controllers : target[c] = i /\ control[c] \in Removal
    \/ i \in Range(doomed)

\* PhaseOf, now and in the next state.
LEMMA PhaseIs ==
  ASSUME NEW i \in Id
  PROVE  /\ PhaseOf(i) = IF worker[i] = "unborn" THEN "absent"
                         ELSE IF i \in Range(slots) THEN "open"
                         ELSE IF Held(i) THEN "closing" ELSE "closed"
         /\ PhaseOf(i)' = IF worker'[i] = "unborn" THEN "absent"
                          ELSE IF i \in Range(slots') THEN "open"
                          ELSE IF Held(i)' THEN "closing" ELSE "closed"
  BY Zenon DEF PhaseOf, Registered, Removing, Held, Removal

\* A step that changes neither slots_, nor who holds a slot, nor whether a worker was
\* started leaves the phases alone.
LEMMA PhasesStay ==
  ASSUME Range(slots') = Range(slots),
         \A i \in Id : Held(i)' <=> Held(i),
         \A i \in Id : worker'[i] = "unborn" <=> worker[i] = "unborn"
  PROVE  \A i \in Id : PhaseOf(i)' = PhaseOf(i)
  BY PhaseIs

\* A step that changes nothing that a consumer sees is a stutter of the feed.
LEMMA FeedStutters ==
  ASSUME \A i \in Id : PhaseOf(i)' = PhaseOf(i),
         \A i \in Id : worker'[i] = "callback" <=> worker[i] = "callback",
         UNCHANGED <<frame, queue, seen>>
  PROVE  UNCHANGED Feed!feedVars
<1>1. [i \in Id |-> PhaseOf(i)]' = [i \in Id |-> PhaseOf(i)]
  OBVIOUS
<1>2. [i \in Id |-> worker[i] = "callback"]' = [i \in Id |-> worker[i] = "callback"]
  OBVIOUS
<1> QED
  BY <1>1, <1>2 DEF Feed!feedVars

\* A new frame is the feed's next one.
LEMMA SnapshotProduces ==
  ASSUME TypeOK, PushSnapshot
  PROVE  Feed!Produce
<1>1. /\ UNCHANGED <<slots, worker, queue, control, target, doomed, seen>>
      /\ frame' = frame + 1
  BY DEF PushSnapshot, slotVars, ctrlVars, dtorVars, histVars
<1>2. \A i \in Id : PhaseOf(i)' = PhaseOf(i)
  BY <1>1, PhasesStay DEF Held
<1>3. [i \in Id |-> PhaseOf(i)]' = [i \in Id |-> PhaseOf(i)]
  BY <1>2
<1> QED
  BY <1>1, <1>3 DEF Feed!Produce

\* A frame that push() enqueues is offered: it is newer than all in the queue, and
\* one makes room for it only when the queue is full.
LEMMA EnqueueOffers ==
  ASSUME IInv, PushEnqueue
  PROVE  \E i \in Id : Feed!Offer(i)
<1> DEFINE h == Head(snapshot)
           room == [i \in Id |-> Capacity(i)]
<1>0. /\ queue \in [Id -> Seq(1 .. MaxFrames)] /\ snapshot \in Seq(Id)
      /\ snapshot # <<>> /\ frame \in 0 .. MaxFrames
  BY DEF IInv, TypeOK, PushEnqueue
<1>1. /\ UNCHANGED <<slots, worker, control, target, doomed, seen, frame>>
      /\ queue' = [queue EXCEPT ![h] = Enqueued(h)] /\ pusher = "enqueue"
  BY DEF PushEnqueue, ctrlVars, dtorVars
<1>2. h \in Id /\ h \in Range(snapshot)
  BY <1>0, HeadTailProperties, RangeTail
<1>3. PhaseOf(h) # "absent"
  BY <1>2, PhaseIs DEF IInv, FreshIds
<1>4. \A n \in DOMAIN queue[h] : queue[h][n] < frame
  <2>1. h \in Range(Unserved)
    BY <1>1, <1>2 DEF Unserved
  <2>2. DOMAIN queue[h] = 1 .. Len(queue[h])
    BY <1>0, <1>2, LenProperties
  <2> QED
    BY <1>2, <2>1, <2>2 DEF IInv, Ordered
<1>5. Enqueued(h) = Append(IF Len(queue[h]) = room[h] THEN Tail(queue[h]) ELSE queue[h], frame)
  <2>1. Len(queue[h]) \in Nat /\ Capacity(h) \in Nat /\ Len(queue[h]) <= Capacity(h)
    BY <1>0, <1>2, LenProperties, CapacityPositive DEF IInv, QueueBounded
  <2>2. QueueFull(h) <=> Len(queue[h]) = room[h]
    BY <1>2, <2>1 DEF QueueFull
  <2> QED
    BY <2>2 DEF Enqueued
<1>6. [i \in Id |-> PhaseOf(i)]' = [i \in Id |-> PhaseOf(i)]
  <2>1. \A i \in Id : PhaseOf(i)' = PhaseOf(i)
    BY <1>1, PhasesStay DEF Held
  <2> QED
    BY <2>1
<1>7. [i \in Id |-> worker[i] = "callback"]' = [i \in Id |-> worker[i] = "callback"]
  BY <1>1
<1>8. [i \in Id |-> PhaseOf(i)][h] # "absent"
  BY <1>2, <1>3
<1> HIDE DEF h
<1> QED
  BY <1>1, <1>2, <1>4, <1>5, <1>6, <1>7, <1>8 DEF Feed!Offer

\* A callback that starts is a delivery: its consumer is not removed yet, no other
\* call of it runs, and the frame is newer than the last.
LEMMA TakeDelivers ==
  ASSUME IInv, NEW i \in Id, WorkerTake(i)
  PROVE  Feed!Deliver(i)
<1>0. /\ queue \in [Id -> Seq(1 .. MaxFrames)] /\ worker \in [Id -> WorkerState]
      /\ seen \in [Id -> 0 .. MaxFrames]
  BY DEF IInv, TypeOK
<1>1. /\ UNCHANGED <<slots, control, target, doomed, frame>>
      /\ queue' = [queue EXCEPT ![i] = Tail(@)]
      /\ seen' = [seen EXCEPT ![i] = Head(queue[i])]
      /\ worker' = [worker EXCEPT ![i] = "callback"]
      /\ worker[i] = "ready" /\ running[i]
  BY DEF WorkerTake, ctrlVars, dtorVars, pushVars
<1>2. queue[i] # <<>> /\ Head(queue[i]) > seen[i]
  BY <1>1, TakeIsNewer DEF IInv, FrontExists
<1>3. PhaseOf(i) \in {"open", "closing"}
  BY <1>1, PhaseIs DEF IInv, NoOrphanWorker, Registered, Removing, Held, Removal
<1>4. [j \in Id |-> PhaseOf(j)]' = [j \in Id |-> PhaseOf(j)]
  <2>1. \A j \in Id : worker'[j] = "unborn" <=> worker[j] = "unborn"
    BY <1>0, <1>1
  <2>2. \A j \in Id : PhaseOf(j)' = PhaseOf(j)
    BY <1>1, <2>1, PhasesStay DEF Held
  <2> QED
    BY <2>2
<1>5. /\ [j \in Id |-> worker[j] = "callback"]'
            = [[j \in Id |-> worker[j] = "callback"] EXCEPT ![i] = TRUE]
      /\ ~[j \in Id |-> worker[j] = "callback"][i]
  BY <1>0, <1>1
<1>6. [j \in Id |-> PhaseOf(j)][i] \in {"open", "closing"}
  BY <1>3
<1> QED
  BY <1>1, <1>2, <1>4, <1>5, <1>6 DEF Feed!Deliver

\* A callback that returns or throws is finished.
LEMMA CallbackFinishes ==
  ASSUME IInv, NEW i \in Id, CallbackReturns(i) \/ CallbackThrows(i)
  PROVE  Feed!Finish(i)
<1>0. worker \in [Id -> WorkerState]
  BY DEF IInv, TypeOK
<1>1. /\ UNCHANGED <<slots, control, target, doomed, frame, queue, seen>>
      /\ worker' = [worker EXCEPT ![i] = "loop"] /\ worker[i] = "callback"
  BY DEF CallbackReturns, CallbackThrows, ctrlVars, dtorVars, pushVars, histVars
<1>2. [j \in Id |-> PhaseOf(j)]' = [j \in Id |-> PhaseOf(j)]
  <2>1. \A j \in Id : worker'[j] = "unborn" <=> worker[j] = "unborn"
    BY <1>0, <1>1
  <2>2. \A j \in Id : PhaseOf(j)' = PhaseOf(j)
    BY <1>1, <2>1, PhasesStay DEF Held
  <2> QED
    BY <2>2
<1>3. /\ [j \in Id |-> worker[j] = "callback"]'
            = [[j \in Id |-> worker[j] = "callback"] EXCEPT ![i] = FALSE]
      /\ [j \in Id |-> worker[j] = "callback"][i]
  BY <1>0, <1>1
<1> QED
  BY <1>1, <1>2, <1>3 DEF Feed!Finish

\* A slot that is published opens; it was never open before.
LEMMA PublishOpens ==
  ASSUME IInv, NEW c \in Controllers, AddPublish(c)
  PROVE  \E i \in Id : Feed!Open(i)
<1>0. /\ worker \in [Id -> WorkerState] /\ slots \in Seq(Id)
      /\ control \in [Controllers -> ControlState]
      /\ target \in [Controllers -> Id \cup {NoId}]
  BY DEF IInv, TypeOK
<1>P. PICK t \in Id : t = target[c]
  BY DEF AddPublish, IInv, TypeOK
<1>1. /\ UNCHANGED <<doomed, frame, queue, seen>> /\ control[c] = "publish"
      /\ slots' = Append(slots, t) /\ worker' = [worker EXCEPT ![t] = "loop"]
      /\ control' = [control EXCEPT ![c] = "idle"] /\ target' = [target EXCEPT ![c] = NoId]
      /\ t \in Id /\ worker[t] = "unborn"
  BY <1>P DEF AddPublish, dtorVars, pushVars, IInv, FreshIds, TypeOK
<1>2. Range(slots') = Range(slots) \cup {t}
  BY <1>0, <1>1, RangeAppend
<1>3. \A j \in Id : Held(j)' <=> Held(j)
  <2>1. \A d \in Controllers : control'[d] \in Removal <=> control[d] \in Removal
    BY <1>0, <1>1 DEF Removal
  <2>2. \A d \in Controllers : control[d] \in Removal => target'[d] = target[d]
    BY <1>0, <1>1 DEF Removal
  <2> QED
    BY <1>1, <2>1, <2>2 DEF Held
<1>4. PhaseOf(t) = "absent" /\ PhaseOf(t)' = "open"
  BY <1>0, <1>1, <1>2, PhaseIs
<1>5. \A j \in Id : j # t => PhaseOf(j)' = PhaseOf(j)
  <2> TAKE j \in Id
  <2> HAVE j # t
  <2>1. worker'[j] = worker[j] /\ (j \in Range(slots') <=> j \in Range(slots))
    BY <1>0, <1>1, <1>2
  <2> QED
    BY <1>3, <2>1, PhaseIs
<1>6. /\ [j \in Id |-> PhaseOf(j)]' = [[j \in Id |-> PhaseOf(j)] EXCEPT ![t] = "open"]
      /\ [j \in Id |-> PhaseOf(j)][t] = "absent"
  BY <1>1, <1>4, <1>5
<1>7. [j \in Id |-> worker[j] = "callback"]' = [j \in Id |-> worker[j] = "callback"]
  BY <1>0, <1>1
<1> QED
  BY <1>1, <1>6, <1>7 DEF Feed!Open

\* A slot that is erased from slots_ is closing.
LEMMA EraseCloses ==
  ASSUME IInv, RemovalsApart, NEW c \in Controllers, RemoveErase(c)
  PROVE  \E S \in SUBSET Id : Feed!Close(S)
<1>0. /\ worker \in [Id -> WorkerState] /\ slots \in Seq(Id)
      /\ control \in [Controllers -> ControlState]
  BY DEF IInv, TypeOK
<1>P. PICK t \in Id : t = target[c]
  BY <1>0, ElementOfSeq, LenProperties DEF RemoveErase
<1>1. /\ UNCHANGED <<doomed, frame, queue, seen, worker, target>> /\ control[c] = "find"
      /\ control' = [control EXCEPT ![c] = "stop"]
  BY DEF RemoveErase, dtorVars, pushVars, slotVars, histVars
<1>2. PICK n \in DOMAIN slots : slots[n] = t /\ slots' = RemoveAt(slots, n)
  BY <1>P DEF RemoveErase
<1>3. /\ t \in Range(slots) /\ t \notin Range(slots') /\ t \in Id
      /\ \A j \in Id : j # t => (j \in Range(slots') <=> j \in Range(slots))
  <2>1. n \in 1 .. Len(slots) /\ Range(slots) = {slots[k] : k \in 1 .. Len(slots)}
    BY <1>0, LenProperties, RangeEquality
  <2>2. NoRepeat(slots)
    BY DEF IInv, FreshIds
  <2>3. Range(slots') \subseteq Range(slots)
    BY <1>0, <1>2, <2>1, <2>2, NoRepeatRemoveAt
  <2>4. slots[n] \notin Range(RemoveAt(slots, n))
    BY <1>0, <2>1, <2>2, ErasedIsGone
  <2>5. Range(slots) \subseteq Range(slots') \cup {t}
    BY <1>0, <1>2, RangeRemoveAt
  <2>6. t \in Id
    BY <1>0, <1>2, <2>1, ElementOfSeq
  <2> QED
    BY <1>2, <2>1, <2>3, <2>4, <2>5, <2>6
<1>4. Held(t)' /\ \A j \in Id : j # t => (Held(j)' <=> Held(j))
  <2>1. control'[c] = "stop" /\ \A d \in Controllers : d # c => control'[d] = control[d]
    BY <1>0, <1>1
  <2>2. control[c] \notin Removal
    BY <1>1 DEF Removal
  <2> QED
    BY <1>P, <1>1, <2>1, <2>2 DEF Held, Removal
<1>5. worker[t] # "unborn"
  BY <1>3 DEF IInv, FreshIds
<1>6. PhaseOf(t) = "open" /\ PhaseOf(t)' = "closing"
  BY <1>1, <1>3, <1>4, <1>5, PhaseIs
<1>7. \A j \in Id : j # t => PhaseOf(j)' = PhaseOf(j)
  BY <1>1, <1>3, <1>4, PhaseIs
<1>8. /\ [j \in Id |-> PhaseOf(j)]'
            = [j \in Id |-> IF j \in {t} THEN "closing" ELSE [k \in Id |-> PhaseOf(k)][j]]
      /\ \A j \in {t} : [k \in Id |-> PhaseOf(k)][j] = "open"
  BY <1>3, <1>6, <1>7
<1>9. [j \in Id |-> worker[j] = "callback"]' = [j \in Id |-> worker[j] = "callback"]
  BY <1>1
<1>10. Feed!Close({t})
  BY <1>1, <1>8, <1>9 DEF Feed!Close
<1> QED
  BY <1>3, <1>10

\* remove_consumer() is over: its worker has returned, and nobody else has the slot.
LEMMA ClearIsClosed ==
  ASSUME IInv, RemovalsApart, NEW c \in Controllers, RemoveClear(c)
  PROVE  \E i \in Id : Feed!Closed(i)
<1>0. /\ queue \in [Id -> Seq(1 .. MaxFrames)]
      /\ control \in [Controllers -> ControlState]
      /\ target \in [Controllers -> Id \cup {NoId}]
      /\ dtor \in {"stop", "notify", "join"} <=> doomed # <<>>
  BY DEF IInv, TypeOK
<1>P. PICK t \in Id : t = target[c]
  BY DEF RemoveClear, IInv, TypeOK
<1>1. /\ UNCHANGED <<slots, doomed, frame, seen, worker>> /\ control[c] = "clear"
      /\ control' = [control EXCEPT ![c] = "idle"] /\ target' = [target EXCEPT ![c] = NoId]
      /\ queue' = [queue EXCEPT ![t] = <<>>]
  BY <1>P DEF RemoveClear, dtorVars, pushVars
<1>2. t \in Id /\ worker[t] = "done" /\ t \notin Range(slots)
  BY <1>P, <1>1 DEF IInv, TypeOK, RemovalsApart, Removal
<1>3. doomed = <<>> /\ Range(doomed) = {}
  <2>1. dtor = "alive"
    BY <1>1 DEF RemovalsApart
  <2> QED
    BY <1>0, <2>1, RangeEmpty
<1>4. Held(t) /\ ~Held(t)' /\ \A j \in Id : j # t => (Held(j)' <=> Held(j))
  <2>1. /\ control'[c] \notin Removal /\ control[c] \in Removal
        /\ \A d \in Controllers : d # c => control'[d] = control[d] /\ target'[d] = target[d]
    BY <1>0, <1>1 DEF Removal
  <2>2. \A d \in Controllers : d # c /\ control[d] \in Removal => target[d] # t
    BY <1>P, <2>1 DEF RemovalsApart
  <2> QED
    BY <1>P, <1>1, <1>3, <2>1, <2>2 DEF Held
<1>5. PhaseOf(t) = "closing" /\ PhaseOf(t)' = "closed"
  BY <1>1, <1>2, <1>4, PhaseIs
<1>6. \A j \in Id : j # t => PhaseOf(j)' = PhaseOf(j)
  BY <1>1, <1>4, PhaseIs
<1>7. /\ [j \in Id |-> PhaseOf(j)]' = [[j \in Id |-> PhaseOf(j)] EXCEPT ![t] = "closed"]
      /\ [j \in Id |-> PhaseOf(j)][t] = "closing"
  BY <1>2, <1>5, <1>6
<1>8. /\ [j \in Id |-> worker[j] = "callback"]' = [j \in Id |-> worker[j] = "callback"]
      /\ ~[j \in Id |-> worker[j] = "callback"][t]
  BY <1>1, <1>2
<1> QED
  BY <1>1, <1>2, <1>7, <1>8 DEF Feed!Closed

\* The destructor closes all slots at once.
LEMMA DestroyCloses ==
  ASSUME IInv, RemovalsApart, DestroyBegin
  PROVE  \E S \in SUBSET Id : Feed!Close(S)
<1> DEFINE R == Range(slots)
<1>0. /\ slots \in Seq(Id) /\ (dtor \in {"stop", "notify", "join"} <=> doomed # <<>>)
  BY DEF IInv, TypeOK
<1>1. /\ UNCHANGED <<frame, queue, seen, worker, control, target>>
      /\ doomed' = slots /\ slots' = <<>> /\ dtor = "alive"
      /\ \A c \in Controllers : control[c] = "idle"
  BY DEF DestroyBegin, ctrlVars, pushVars, slotVars, histVars
<1>2. Range(doomed) = {} /\ Range(slots') = {} /\ Range(doomed') = R
  BY <1>0, <1>1, RangeEmpty
<1>3. R \subseteq Id /\ \A j \in R : worker[j] # "unborn"
  BY <1>0, RangeEquality, ElementOfSeq DEF IInv, FreshIds
<1> HIDE DEF R
<1>4. \A j \in Id : ~Held(j) /\ (Held(j)' <=> j \in R)
  BY <1>1, <1>2 DEF Held, Removal
<1>5. \A j \in Id : /\ j \in R => PhaseOf(j) = "open" /\ PhaseOf(j)' = "closing"
                    /\ j \notin R => PhaseOf(j)' = PhaseOf(j)
  BY <1>1, <1>2, <1>3, <1>4, PhaseIs DEF R
<1>6. /\ [j \in Id |-> PhaseOf(j)]'
            = [j \in Id |-> IF j \in R THEN "closing" ELSE [k \in Id |-> PhaseOf(k)][j]]
      /\ \A j \in R : [k \in Id |-> PhaseOf(k)][j] = "open"
  BY <1>3, <1>5
<1>7. [j \in Id |-> worker[j] = "callback"]' = [j \in Id |-> worker[j] = "callback"]
  BY <1>1
<1>8. Feed!Close(R)
  BY <1>1, <1>6, <1>7 DEF Feed!Close
<1> QED
  BY <1>3, <1>8

\* The destructor has joined a worker.
LEMMA JoinIsClosed ==
  ASSUME IInv, RemovalsApart, DestroyJoin
  PROVE  \E i \in Id : Feed!Closed(i)
<1>0. doomed \in Seq(Id) /\ doomed # <<>>
  BY DEF IInv, TypeOK, DestroyJoin
<1>P. PICK h \in Id : h = Head(doomed)
  BY <1>0, HeadTailProperties
<1>1. /\ UNCHANGED <<frame, queue, seen, worker, control, target, slots>>
      /\ doomed' = Tail(doomed) /\ worker[h] = "done" /\ dtor = "join"
  BY <1>P DEF DestroyJoin, ctrlVars, pushVars, slotVars, histVars
<1>2. /\ h \in Range(doomed) /\ h \notin Range(doomed')
      /\ \A j \in Id : j # h => (j \in Range(doomed') <=> j \in Range(doomed))
  BY <1>0, <1>P, <1>1, RangeTail, HeadNotInTail DEF RemovalsApart
<1>3. /\ slots = <<>> /\ Range(slots) = {}
      /\ \A c \in Controllers : control[c] \notin Removal
  BY <1>1, RangeEmpty DEF RemovalsApart, Removal
<1>5. Held(h) /\ ~Held(h)' /\ \A j \in Id : j # h => (Held(j)' <=> Held(j))
  BY <1>1, <1>2, <1>3 DEF Held
<1>6. PhaseOf(h) = "closing" /\ PhaseOf(h)' = "closed"
  BY <1>1, <1>3, <1>5, PhaseIs
<1>7. \A j \in Id : j # h => PhaseOf(j)' = PhaseOf(j)
  BY <1>1, <1>5, PhaseIs
<1>8. /\ [j \in Id |-> PhaseOf(j)]' = [[j \in Id |-> PhaseOf(j)] EXCEPT ![h] = "closed"]
      /\ [j \in Id |-> PhaseOf(j)][h] = "closing"
  BY <1>6, <1>7
<1>9. /\ [j \in Id |-> worker[j] = "callback"]' = [j \in Id |-> worker[j] = "callback"]
      /\ ~[j \in Id |-> worker[j] = "callback"][h]
  BY <1>1
<1> QED
  BY <1>1, <1>8, <1>9 DEF Feed!Closed

\* The steps of a worker outside the callback, the notifications, and what a control
\* thread does besides publishing, erasing and clearing are not seen by a consumer.
LEMMA HiddenSteps ==
  ASSUME IInv, RemovalsApart,
         \/ PushNotify
         \/ \E i \in Id : \/ WorkerLoop(i) \/ WorkerTest(i) \/ WorkerPark(i)
                          \/ WorkerBreak(i) \/ SpuriousWakeup(i)
         \/ \E c \in Controllers :
               \/ AddAllocate(c) \/ RemoveAbsent(c) \/ RemoveStop(c)
               \/ RemoveNotify(c) \/ RemoveJoin(c)
               \/ \E i \in Id \cup {NoId} : RemoveCall(c, i)
         \/ DestroyStop \/ DestroyNotify
         \/ UNCHANGED vars
  PROVE  UNCHANGED Feed!feedVars
<1>0. /\ worker \in [Id -> WorkerState]
      /\ control \in [Controllers -> ControlState]
      /\ target \in [Controllers -> Id \cup {NoId}]
  BY DEF IInv, TypeOK
<1>1. UNCHANGED <<slots, doomed, frame, queue, seen>>
  BY DEF PushNotify, WorkerLoop, WorkerTest, WorkerPark, WorkerBreak, SpuriousWakeup,
     AddAllocate, RemoveAbsent, RemoveStop, RemoveNotify, RemoveJoin, RemoveCall, DestroyStop,
     DestroyNotify, vars, slotVars, pushVars, dtorVars, histVars
<1>2. \A i \in Id : /\ worker'[i] = "unborn" <=> worker[i] = "unborn"
                    /\ worker'[i] = "callback" <=> worker[i] = "callback"
  BY <1>0 DEF PushNotify, WorkerLoop, WorkerTest, WorkerPark, WorkerBreak, SpuriousWakeup,
     AddAllocate, RemoveAbsent, RemoveStop, RemoveNotify, RemoveJoin, RemoveCall, DestroyStop,
     DestroyNotify, vars, slotVars, Notified
<1>3. \A d \in Controllers : /\ control'[d] \in Removal <=> control[d] \in Removal
                             /\ control[d] \in Removal => target'[d] = target[d]
  BY <1>0 DEF PushNotify, WorkerLoop, WorkerTest, WorkerPark, WorkerBreak, SpuriousWakeup,
     AddAllocate, RemoveAbsent, RemoveStop, RemoveNotify, RemoveJoin, RemoveCall, DestroyStop,
     DestroyNotify, vars, ctrlVars, Removal
<1>4. \A i \in Id : Held(i)' <=> Held(i)
  BY <1>1, <1>3 DEF Held
<1>5. \A i \in Id : PhaseOf(i)' = PhaseOf(i)
  BY <1>1, <1>2, <1>4, PhasesStay
<1> QED
  BY <1>1, <1>2, <1>5, FeedStutters

\* Every step of the threads is a step of the feed, or none.
LEMMA FeedStep ==
  ASSUME IInv, RemovalsApart, [Next]_vars
  PROVE  [Feed!FeedNext]_Feed!feedVars
<1>1. CASE PushSnapshot
  BY <1>1, SnapshotProduces DEF IInv, Feed!FeedNext
<1>2. CASE PushEnqueue
  BY <1>2, EnqueueOffers DEF Feed!FeedNext
<1>3. ASSUME NEW i \in Id, WorkerTake(i)
      PROVE  Feed!FeedNext
  BY <1>3, TakeDelivers DEF Feed!FeedNext
<1>4. ASSUME NEW i \in Id, CallbackReturns(i) \/ CallbackThrows(i)
      PROVE  Feed!FeedNext
  BY <1>4, CallbackFinishes DEF Feed!FeedNext
<1>5. ASSUME NEW c \in Controllers, AddPublish(c)
      PROVE  Feed!FeedNext
  BY <1>5, PublishOpens DEF Feed!FeedNext
<1>6. ASSUME NEW c \in Controllers, RemoveErase(c)
      PROVE  Feed!FeedNext
  BY <1>6, EraseCloses DEF Feed!FeedNext
<1>7. ASSUME NEW c \in Controllers, RemoveClear(c)
      PROVE  Feed!FeedNext
  BY <1>7, ClearIsClosed DEF Feed!FeedNext
<1>8. CASE DestroyBegin
  BY <1>8, DestroyCloses DEF Feed!FeedNext
<1>9. CASE DestroyJoin
  BY <1>9, JoinIsClosed DEF Feed!FeedNext
<1>10. CASE ~( \/ PushSnapshot \/ PushEnqueue \/ DestroyBegin \/ DestroyJoin
               \/ \E i \in Id : WorkerTake(i) \/ CallbackReturns(i) \/ CallbackThrows(i)
               \/ \E c \in Controllers : AddPublish(c) \/ RemoveErase(c) \/ RemoveClear(c))
  <2>1. UNCHANGED Feed!feedVars
    BY <1>10, HiddenSteps
       DEF Next, Push, WorkerStep, AddConsumer, RemoveStep, DestroyStep
  <2> QED
    BY <2>1
<1> QED
  BY <1>1, <1>2, <1>3, <1>4, <1>5, <1>6, <1>7, <1>8, <1>9, <1>10

\* The distributor, with its threads, locks and condition variables, does nothing but
\* what FrameFeed allows.  Each consumer is called with frames one at a time and in
\* order, loses only the oldest and only for want of room, and hears nothing once its
\* removal is over.
THEOREM DistributorImplementsFeed == Spec => FeedRefined
<1>1. Init => RemovalsApart
  <2> SUFFICES ASSUME Init PROVE RemovalsApart
    OBVIOUS
  <2>1. doomed = <<>> /\ dtor = "alive" /\ \A c \in Controllers : control[c] = "idle"
    BY DEF Init
  <2> QED
    BY <2>1, NoRepeatEmpty, RangeEmpty DEF RemovalsApart, Removal
<1>2. Init => Feed!FeedInit
  <2> SUFFICES ASSUME Init PROVE Feed!FeedInit
    OBVIOUS
  <2>1. \A i \in Id : PhaseOf(i) = "absent" /\ worker[i] # "callback"
    BY DEF Init, PhaseOf
  <2>2. frame = 0 /\ queue = [i \in Id |-> <<>>] /\ seen = [i \in Id |-> 0]
    BY DEF Init
  <2>3. [i \in Id |-> PhaseOf(i)] = [i \in Id |-> "absent"]
    BY <2>1
  <2>4. [i \in Id |-> worker[i] = "callback"] = [i \in Id |-> FALSE]
    BY <2>1
  <2> QED
    BY <2>2, <2>3, <2>4 DEF Feed!FeedInit
<1>3. IInv /\ RemovalsApart /\ [Next]_vars => RemovalsApart'
  BY NextApart DEF IInv
<1>4. IInv /\ RemovalsApart /\ [Next]_vars => [Feed!FeedNext]_Feed!feedVars
  BY FeedStep
<1> QED
  BY <1>1, <1>2, <1>3, <1>4, InvStep, PTL DEF Spec, FeedRefined, Feed!FeedSpec

=============================================================================
