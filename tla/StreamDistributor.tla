--------------------------- MODULE StreamDistributor ---------------------------
(***************************************************************************)
(* The per-channel fan-out of encoded frames: StreamDistributor and the    *)
(* ConsumerSlot it keeps for each registered consumer                      *)
(* (modules/stream/src/stream_distributor.cpp).                            *)
(*                                                                         *)
(* Threads of the model:                                                   *)
(*   - the fetcher's thread, the only caller of push();                    *)
(*   - one worker per consumer, running worker_func();                     *)
(*   - the Controllers, any threads calling add_consumer() and             *)
(*     remove_consumer();                                                  *)
(*   - the thread that finally runs ~StreamDistributor().                  *)
(*                                                                         *)
(* A step is a stretch of code between two points at which another thread  *)
(* can see a difference.  The sections under slots_mutex_, and those of    *)
(* push() and remove_consumer() under slot->mutex, touch only what the     *)
(* mutex protects, so each is one step.  worker_func() is different: it    *)
(* reads slot->running, which no mutex protects, while it holds            *)
(* slot->mutex, so the evaluation of the wait predicate, the blocking and  *)
(* the second test of running are steps of their own and MutexHeld says    *)
(* when another thread would find slot->mutex taken.                       *)
(*                                                                         *)
(* A frame is its number in the order of the calls of push().              *)
(*                                                                         *)
(* A definition with an underscore in its name is a faulty variant of the  *)
(* one that follows it, kept to show that the properties can fail.         *)
(***************************************************************************)
EXTENDS Integers, SequencesExt

CONSTANTS Controllers,     \* threads that register and unregister consumers
          MaxConsumers,    \* bound: how many consumers are ever registered
          MaxFrames,       \* bound: how many frames are ever pushed
          ConfigSize       \* ConsumerConfig.max_queue_size, per consumer id

Id   == 0 .. MaxConsumers - 1   \* what next_consumer_id_ hands out
NoId == MaxConsumers            \* an id that no consumer ever gets

ASSUME ConstantsAssumption ==
    /\ MaxConsumers \in Nat
    /\ MaxFrames \in Nat
    /\ ConfigSize \in [Id -> Nat]

VARIABLES
    \* StreamDistributor
    slots,      \* slots_, the registered consumers in registration order
    nextId,     \* next_consumer_id_
    \* ConsumerSlot, by consumer id
    queue,      \* slot->queue
    running,    \* slot->running
    dropped,    \* slot->dropped
    consumed,   \* slot->consumed
    worker,     \* where slot->worker is in worker_func()
    \* the thread that pushes
    pusher,     \* where it is in push()
    snapshot,   \* push()'s snapshot, without the slots already served
    frame,      \* number of the last frame pushed
    \* the controllers
    control,    \* where each is in add_consumer() or remove_consumer()
    target,     \* the id each is working on
    \* ~StreamDistributor()
    dtor,       \* where it is
    doomed,     \* its snapshot, without the slots already joined
    \* history
    offered,    \* how many frames push() put into each queue
    discarded,  \* how many frames remove_consumer() cleared from it
    failed,     \* how many callbacks ended in an exception
    since,      \* number of the last frame pushed before the registration
    seen        \* the last frame the callback was called with

slotVars == <<queue, running, dropped, consumed, worker>>
pushVars == <<pusher, snapshot, frame>>
ctrlVars == <<control, target>>
dtorVars == <<dtor, doomed>>
histVars == <<offered, discarded, failed, since, seen>>
vars == <<slots, nextId, slotVars, pushVars, ctrlVars, dtorVars, histVars>>

-----------------------------------------------------------------------------

WorkerState == {"unborn",    \* the thread does not exist yet
                "loop",      \* about to test running in the while condition
                "acquire",   \* about to lock slot->mutex and test the predicate
                "parking",   \* predicate false, about to block; holds the mutex
                "waiting",   \* blocked in cv.wait(), the mutex released
                "ready",     \* predicate true, not yet acted on; holds the mutex
                "callback",  \* in slot->callback, the mutex released
                "done"}      \* returned: the thread can be joined

ControlState == {"idle", "publish", "find", "stop", "notify", "join", "clear"}

Init ==
    /\ slots = <<>>
    /\ nextId = 0
    /\ queue = [i \in Id |-> <<>>]
    /\ running = [i \in Id |-> TRUE]
    /\ dropped = [i \in Id |-> 0]
    /\ consumed = [i \in Id |-> 0]
    /\ worker = [i \in Id |-> "unborn"]
    /\ pusher = "idle"
    /\ snapshot = <<>>
    /\ frame = 0
    /\ control = [c \in Controllers |-> "idle"]
    /\ target = [c \in Controllers |-> NoId]
    /\ dtor = "alive"
    /\ doomed = <<>>
    /\ offered = [i \in Id |-> 0]
    /\ discarded = [i \in Id |-> 0]
    /\ failed = [i \in Id |-> 0]
    /\ since = [i \in Id |-> 0]
    /\ seen = [i \in Id |-> 0]

-----------------------------------------------------------------------------
(* Helpers *)

\* add_consumer() forces a max_queue_size of 0 to 1.
Capacity(i) == IF ConfigSize[i] = 0 THEN 1 ELSE ConfigSize[i]

MutexHeld_PredicateUnlocked(i) == worker[i] = "ready"

\* slot->mutex is held across a step only by the worker.
MutexHeld(i) == worker[i] \in {"parking", "ready"}

QueueFull_OffByOne(i) == Len(queue[i]) > Capacity(i)
QueueFull(i) == Len(queue[i]) >= Capacity(i)

\* The predicate of cv.wait().
PredicateHolds_Always(i) == TRUE
PredicateHolds(i) == queue[i] # <<>> \/ ~running[i]

\* worker after notify_one() or notify_all() on slot->cv, whose only waiter is
\* the slot's own worker: one that is not blocked misses the notification.
Notified_Nobody(i) == worker
Notified(i) == [worker EXCEPT ![i] = IF @ = "waiting" THEN "acquire" ELSE @]

-----------------------------------------------------------------------------
(* push() *)

\* A new frame arrives; the slots are copied under slots_mutex_.
PushSnapshot ==
    /\ pusher = "idle" /\ dtor = "alive"
    /\ frame < MaxFrames
    /\ frame' = frame + 1
    /\ snapshot' = slots
    /\ pusher' = IF slots = <<>> THEN "idle" ELSE "enqueue"
    /\ UNCHANGED <<slots, nextId, slotVars, ctrlVars, dtorVars, histVars>>

Enqueued_InFront(i) ==
    <<frame>> \o (IF QueueFull(i) THEN Tail(queue[i]) ELSE queue[i])

Enqueued_DropNewest(i) ==
    IF QueueFull(i) THEN Append(Front(queue[i]), frame) ELSE Append(queue[i], frame)

\* slot->queue after the frame went in, the oldest one making room for it.
Enqueued(i) ==
    Append(IF QueueFull(i) THEN Tail(queue[i]) ELSE queue[i], frame)

\* The critical section of push() for the next slot of the snapshot.
PushEnqueue ==
    /\ pusher = "enqueue"
    /\ LET i == Head(snapshot)
       IN  /\ ~MutexHeld(i)
           /\ queue' = [queue EXCEPT ![i] = Enqueued(i)]
           /\ dropped' = [dropped EXCEPT ![i] = IF QueueFull(i) THEN @ + 1 ELSE @]
           /\ offered' = [offered EXCEPT ![i] = @ + 1]
    /\ pusher' = "notify"
    /\ UNCHANGED <<slots, nextId, running, consumed, worker, snapshot, frame,
                   ctrlVars, dtorVars, discarded, failed, since, seen>>

RestOfSnapshot_Stop == <<>>
RestOfSnapshot == Tail(snapshot)

\* notify_one() after the unlock, then the next slot.
PushNotify ==
    /\ pusher = "notify"
    /\ worker' = Notified(Head(snapshot))
    /\ snapshot' = RestOfSnapshot
    /\ pusher' = IF snapshot' = <<>> THEN "idle" ELSE "enqueue"
    /\ UNCHANGED <<slots, nextId, queue, running, dropped, consumed, frame,
                   ctrlVars, dtorVars, histVars>>

-----------------------------------------------------------------------------
(* worker_func() *)

\* while (slot->running)
WorkerLoop(i) ==
    /\ worker[i] = "loop"
    /\ worker' = [worker EXCEPT ![i] = IF running[i] THEN "acquire" ELSE "done"]
    /\ UNCHANGED <<slots, nextId, queue, running, dropped, consumed,
                   pushVars, ctrlVars, dtorVars, histVars>>

\* Takes slot->mutex, on entry or when woken in cv.wait(), and evaluates the
\* predicate.
WorkerTest(i) ==
    /\ worker[i] = "acquire"
    /\ worker' = [worker EXCEPT ![i] = IF PredicateHolds(i) THEN "ready" ELSE "parking"]
    /\ UNCHANGED <<slots, nextId, queue, running, dropped, consumed,
                   pushVars, ctrlVars, dtorVars, histVars>>

\* Releases slot->mutex and blocks, atomically.
WorkerPark(i) ==
    /\ worker[i] = "parking"
    /\ worker' = [worker EXCEPT ![i] = "waiting"]
    /\ UNCHANGED <<slots, nextId, queue, running, dropped, consumed,
                   pushVars, ctrlVars, dtorVars, histVars>>

\* A condition variable may wake its waiter without a notification.
SpuriousWakeup(i) ==
    /\ worker[i] = "waiting"
    /\ worker' = [worker EXCEPT ![i] = "acquire"]
    /\ UNCHANGED <<slots, nextId, queue, running, dropped, consumed,
                   pushVars, ctrlVars, dtorVars, histVars>>

\* if (!slot->running) break;
WorkerBreak(i) ==
    /\ worker[i] = "ready" /\ ~running[i]
    /\ worker' = [worker EXCEPT ![i] = "done"]
    /\ UNCHANGED <<slots, nextId, queue, running, dropped, consumed,
                   pushVars, ctrlVars, dtorVars, histVars>>

\* The front frame leaves the queue and the callback is called with it.
WorkerTake(i) ==
    /\ worker[i] = "ready" /\ running[i]
    /\ seen' = [seen EXCEPT ![i] = Head(queue[i])]
    /\ queue' = [queue EXCEPT ![i] = Tail(@)]
    /\ worker' = [worker EXCEPT ![i] = "callback"]
    /\ UNCHANGED <<slots, nextId, running, dropped, consumed, pushVars,
                   ctrlVars, dtorVars, offered, discarded, failed, since>>

CallbackReturns(i) ==
    /\ worker[i] = "callback"
    /\ consumed' = [consumed EXCEPT ![i] = @ + 1]
    /\ worker' = [worker EXCEPT ![i] = "loop"]
    /\ UNCHANGED <<slots, nextId, queue, running, dropped, pushVars, ctrlVars,
                   dtorVars, histVars>>

CallbackThrows_Counted(i) ==
    /\ worker[i] = "callback"
    /\ consumed' = [consumed EXCEPT ![i] = @ + 1]
    /\ failed' = [failed EXCEPT ![i] = @ + 1]
    /\ worker' = [worker EXCEPT ![i] = "loop"]
    /\ UNCHANGED <<slots, nextId, queue, running, dropped, pushVars, ctrlVars,
                   dtorVars, offered, discarded, since, seen>>

\* The callback throws a std::exception: it is logged and the frame is not
\* counted as consumed.
CallbackThrows(i) ==
    /\ worker[i] = "callback"
    /\ failed' = [failed EXCEPT ![i] = @ + 1]
    /\ worker' = [worker EXCEPT ![i] = "loop"]
    /\ UNCHANGED <<slots, nextId, queue, running, dropped, consumed, pushVars,
                   ctrlVars, dtorVars, offered, discarded, since, seen>>

-----------------------------------------------------------------------------
(* add_consumer() *)

\* The slot is made and numbered; it is not visible to other threads yet.
AddAllocate(c) ==
    /\ control[c] = "idle" /\ dtor = "alive"
    /\ nextId < MaxConsumers
    /\ nextId' = nextId + 1
    /\ target' = [target EXCEPT ![c] = nextId]
    /\ control' = [control EXCEPT ![c] = "publish"]
    /\ UNCHANGED <<slots, slotVars, pushVars, dtorVars, histVars>>

\* Under slots_mutex_: the slot is published and its worker started.
AddPublish(c) ==
    /\ control[c] = "publish"
    /\ LET i == target[c]
       IN  /\ slots' = Append(slots, i)
           /\ worker' = [worker EXCEPT ![i] = "loop"]
           /\ since' = [since EXCEPT ![i] = frame]
    /\ control' = [control EXCEPT ![c] = "idle"]
    /\ target' = [target EXCEPT ![c] = NoId]
    /\ UNCHANGED <<nextId, queue, running, dropped, consumed, pushVars, dtorVars,
                   offered, discarded, failed, seen>>

-----------------------------------------------------------------------------
(* remove_consumer() *)

RemoveCall(c, i) ==
    /\ control[c] = "idle" /\ dtor = "alive"
    /\ target' = [target EXCEPT ![c] = i]
    /\ control' = [control EXCEPT ![c] = "find"]
    /\ UNCHANGED <<slots, nextId, slotVars, pushVars, dtorVars, histVars>>

\* Under slots_mutex_: the id is not registered (never was, or another thread
\* removed it): return at once.
RemoveAbsent(c) ==
    /\ control[c] = "find"
    /\ target[c] \notin Range(slots)
    /\ control' = [control EXCEPT ![c] = "idle"]
    /\ target' = [target EXCEPT ![c] = NoId]
    /\ UNCHANGED <<slots, nextId, slotVars, pushVars, dtorVars, histVars>>

\* Under slots_mutex_: the slot leaves slots_ (snapshots may still hold it).
RemoveErase(c) ==
    /\ control[c] = "find"
    /\ \E n \in DOMAIN slots :
          /\ slots[n] = target[c]
          /\ slots' = RemoveAt(slots, n)
    /\ control' = [control EXCEPT ![c] = "stop"]
    /\ UNCHANGED <<nextId, slotVars, pushVars, target, dtorVars, histVars>>

\* running.store(false), without slot->mutex.
RemoveStop(c) ==
    /\ control[c] = "stop"
    /\ running' = [running EXCEPT ![target[c]] = FALSE]
    /\ control' = [control EXCEPT ![c] = "notify"]
    /\ UNCHANGED <<slots, nextId, queue, dropped, consumed, worker, pushVars,
                   target, dtorVars, histVars>>

RemoveNotify_Forgotten(c) ==
    /\ control[c] = "notify"
    /\ control' = [control EXCEPT ![c] = "join"]
    /\ UNCHANGED <<slots, nextId, slotVars, pushVars, target, dtorVars, histVars>>

\* cv.notify_all(), without slot->mutex.
RemoveNotify(c) ==
    /\ control[c] = "notify"
    /\ worker' = Notified(target[c])
    /\ control' = [control EXCEPT ![c] = "join"]
    /\ UNCHANGED <<slots, nextId, queue, running, dropped, consumed, pushVars,
                   target, dtorVars, histVars>>

RemoveJoin_Detached(c) ==
    /\ control[c] = "join"
    /\ control' = [control EXCEPT ![c] = "clear"]
    /\ UNCHANGED <<slots, nextId, slotVars, pushVars, target, dtorVars, histVars>>

\* worker.join(): blocks until the worker has returned.
RemoveJoin(c) ==
    /\ control[c] = "join"
    /\ worker[target[c]] = "done"
    /\ control' = [control EXCEPT ![c] = "clear"]
    /\ UNCHANGED <<slots, nextId, slotVars, pushVars, target, dtorVars, histVars>>

\* Under slot->mutex: what is still queued is discarded; remove_consumer returns.
RemoveClear(c) ==
    /\ control[c] = "clear"
    /\ LET i == target[c]
       IN  /\ ~MutexHeld(i)
           /\ queue' = [queue EXCEPT ![i] = <<>>]
           /\ discarded' = [discarded EXCEPT ![i] = @ + Len(queue[i])]
    /\ control' = [control EXCEPT ![c] = "idle"]
    /\ target' = [target EXCEPT ![c] = NoId]
    /\ UNCHANGED <<slots, nextId, running, dropped, consumed, worker, pushVars,
                   dtorVars, offered, failed, since, seen>>

-----------------------------------------------------------------------------
(* ~StreamDistributor(), run once nobody else is using the object: the         *)
(* manager destroys the fetchers before the distributors.                      *)

DestroyBegin ==
    /\ dtor = "alive"
    /\ pusher = "idle" /\ \A c \in Controllers : control[c] = "idle"
    /\ doomed' = slots
    /\ slots' = <<>>
    /\ dtor' = IF slots = <<>> THEN "gone" ELSE "stop"
    /\ UNCHANGED <<nextId, slotVars, pushVars, ctrlVars, histVars>>

DestroyStop ==
    /\ dtor = "stop"
    /\ running' = [running EXCEPT ![Head(doomed)] = FALSE]
    /\ dtor' = "notify"
    /\ UNCHANGED <<slots, nextId, queue, dropped, consumed, worker, pushVars,
                   ctrlVars, doomed, histVars>>

DestroyNotify ==
    /\ dtor = "notify"
    /\ worker' = Notified(Head(doomed))
    /\ dtor' = "join"
    /\ UNCHANGED <<slots, nextId, queue, running, dropped, consumed, pushVars,
                   ctrlVars, doomed, histVars>>

DestroyJoin ==
    /\ dtor = "join"
    /\ worker[Head(doomed)] = "done"
    /\ doomed' = Tail(doomed)
    /\ dtor' = IF doomed' = <<>> THEN "gone" ELSE "stop"
    /\ UNCHANGED <<slots, nextId, slotVars, pushVars, ctrlVars, histVars>>

-----------------------------------------------------------------------------

Push == PushSnapshot \/ PushEnqueue \/ PushNotify

WorkerStep(i) ==
    \/ WorkerLoop(i) \/ WorkerTest(i) \/ WorkerPark(i)
    \/ WorkerBreak(i) \/ WorkerTake(i)
    \/ CallbackReturns(i) \/ CallbackThrows(i)

AddConsumer(c) == AddAllocate(c) \/ AddPublish(c)

\* The part of remove_consumer() that follows the call.
RemoveStep(c) ==
    \/ RemoveAbsent(c) \/ RemoveErase(c)
    \/ RemoveStop(c) \/ RemoveNotify(c) \/ RemoveJoin(c) \/ RemoveClear(c)

DestroyStep == DestroyStop \/ DestroyNotify \/ DestroyJoin

Next ==
    \/ Push
    \/ \E i \in Id : WorkerStep(i) \/ SpuriousWakeup(i)
    \/ \E c \in Controllers : AddConsumer(c) \/ RemoveStep(c)
    \/ \E c \in Controllers, i \in Id \cup {NoId} : RemoveCall(c, i)
    \/ DestroyBegin \/ DestroyStep

Spec == Init /\ [][Next]_vars

\* Every thread that has something to do goes on: push() once entered, the
\* workers (callbacks return), add_consumer() and remove_consumer() once
\* called, and the destructor once entered.  Nobody has to call them, no
\* wakeup has to be spurious, and no new frame has to come.
Fairness ==
    /\ WF_vars(PushEnqueue \/ PushNotify)
    /\ \A i \in Id : WF_vars(WorkerStep(i))
    /\ \A c \in Controllers : WF_vars(AddPublish(c) \/ RemoveStep(c))
    /\ WF_vars(DestroyStep)

FairSpec == Spec /\ Fairness
-----------------------------------------------------------------------------
(* Safety *)

\* Every variable has its type.
TypeOK ==
    /\ slots \in Seq(Id)
    /\ nextId \in 0 .. MaxConsumers
    /\ queue \in [Id -> Seq(1 .. MaxFrames)]
    /\ running \in [Id -> BOOLEAN]
    /\ dropped \in [Id -> Nat]
    /\ consumed \in [Id -> Nat]
    /\ worker \in [Id -> WorkerState]
    /\ pusher \in {"idle", "enqueue", "notify"}
    /\ snapshot \in Seq(Id)
    /\ frame \in 0 .. MaxFrames
    /\ pusher # "idle" => snapshot # <<>> /\ frame > 0
    /\ control \in [Controllers -> ControlState]
    /\ target \in [Controllers -> Id \cup {NoId}]
    /\ \A c \in Controllers : control[c] \notin {"idle", "find"} => target[c] \in Id
    /\ dtor \in {"alive", "stop", "notify", "join", "gone"}
    /\ doomed \in Seq(Id)
    /\ dtor \in {"stop", "notify", "join"} <=> doomed # <<>>
    /\ offered \in [Id -> Nat]
    /\ discarded \in [Id -> Nat]
    /\ failed \in [Id -> Nat]
    /\ since \in [Id -> 0 .. MaxFrames]
    /\ seen \in [Id -> 0 .. MaxFrames]

\* The deque of a slot never holds more than max_queue_size frames, whatever
\* push() interleaves with: an encoder frame is some hundred kilobytes.
QueueBounded == \A i \in Id : Len(queue[i]) <= Capacity(i)

Registered(i) == i \in Range(slots)

\* Some thread has taken i out of slots_ and not yet joined its worker.
Removing(i) ==
    \/ \E c \in Controllers :
          target[c] = i /\ control[c] \in {"stop", "notify", "join"}
    \/ i \in Range(doomed)

\* A worker that has not returned belongs to a registered consumer or to a
\* removal that is still to join it.  So once remove_consumer(), or the
\* destructor, has returned, the callback neither runs nor will be called, and
\* the caller may free what it uses (stream_test closes its file then).
NoOrphanWorker ==
    \A i \in Id : worker[i] \notin {"unborn", "done"} => Registered(i) \/ Removing(i)

\* No worker blocks over a queued frame, except for the moment push() needs to
\* get from the unlock to notify_one(): no frame is stuck until the next one.
NoSleepOverFrame ==
    \A i \in Id : queue[i] # <<>> =>
       /\ worker[i] # "parking"
       /\ worker[i] = "waiting" => pusher = "notify" /\ Head(snapshot) = i

\* When worker_func() takes the front of the queue there is a front, although
\* it last looked before testing running and spurious wakeups happen.
FrontExists ==
    \A i \in Id : worker[i] = "ready" /\ running[i] => queue[i] # <<>>

\* How many frames the callback of i is working on.
InCallback(i) == IF worker[i] = "callback" THEN 1 ELSE 0

\* Every frame put into a queue is still queued, or with the callback, or was
\* consumed, or is counted as dropped, or its callback failed, or it was
\* discarded by remove_consumer(): the counters miss nothing and count nothing
\* twice.
FramesAccountedFor ==
    \A i \in Id :
       offered[i] = Len(queue[i]) + dropped[i] + consumed[i] + failed[i]
                    + discarded[i] + InCallback(i)

\* The slots of push()'s snapshot that have not got the frame yet.
Unserved == IF pusher = "notify" THEN Tail(snapshot) ELSE snapshot

\* A registered consumer is offered every frame pushed since its registration,
\* whichever others come and go while push() walks through its snapshot.
NoFrameSkipped ==
    \A i \in Id :
       Registered(i) =>
          offered[i] = frame - since[i] - (IF i \in Range(Unserved) THEN 1 ELSE 0)

\* The callback of a consumer is called with frames in the order of push(), none
\* twice and none older than the registration.
DeliveredInOrder ==
    [][\A i \in Id : seen'[i] # seen[i] => seen'[i] > seen[i] /\ seen'[i] > since[i]]_seen

-----------------------------------------------------------------------------
(* Refinement *)

PhaseOf(i) ==
    IF worker[i] = "unborn" THEN "absent"
    ELSE IF Registered(i) THEN "open"
    ELSE IF Removing(i) \/ \E c \in Controllers : target[c] = i /\ control[c] = "clear"
         THEN "closing"
    ELSE "closed"

Feed == INSTANCE FrameFeed
          WITH Consumer <- Id,
               Room     <- [i \in Id |-> Capacity(i)],
               newest   <- frame,
               phase    <- [i \in Id |-> PhaseOf(i)],
               pending  <- queue,
               latest   <- seen,
               busy     <- [i \in Id |-> worker[i] = "callback"]

\* The distributor with its threads does nothing but what FrameFeed allows.
FeedRefined == Feed!FeedSpec

-----------------------------------------------------------------------------
(* Liveness *)

\* Whenever the frames stop coming, as they do after MaxFrames at the latest, the
\* queues of all running consumers run empty: no notification of push() is lost,
\* and no frame stays behind over which a worker sleeps.
HasQueued(i) == running[i] /\ queue[i] # <<>>

QueuesDrain == (\E i \in Id : HasQueued(i)) ~> (\A i \in Id : ~HasQueued(i))

\* remove_consumer() returns when notify_all() does not come while the worker is
\* between its test of the predicate and cv.wait() blocking.
RemovalReturnsUnlessParking ==
    \A c \in Controllers :
       control[c] = "notify" /\ worker[target[c]] # "parking" ~> control[c] = "idle"

\* remove_consumer() returns.  The documented shutdown relies on it: unregister
\* the consumers, then stop the RTSP server.
RemovalReturns == \A c \in Controllers : control[c] # "idle" ~> control[c] = "idle"
=============================================================================
