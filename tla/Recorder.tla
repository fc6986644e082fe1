------------------------------- MODULE Recorder -------------------------------
(***************************************************************************)
(* RecorderConsumer (modules/stream/src/recorder_consumer.cpp): a consumer *)
(* that queues what it is given and writes it to a file on a thread of its *)
(* own.  Its frames are those that one thread of StreamFrame makes.        *)
(*                                                                         *)
(* on_frame() is called by one thread at a time, a worker of the           *)
(* distributor, in the order of the frames; frames the distributor drops   *)
(* are HandOver steps.  The destructor runs when no on_frame() does and    *)
(* none will come: the consumer was unregistered.                          *)
(*                                                                         *)
(* An entry stands for the bytes of a frame and is named by the frame's    *)
(* timestamp.  The writer holds the mutex when it is parking or ready.     *)
(***************************************************************************)
EXTENDS StreamFrame, SequencesExt

CONSTANTS Channel,      \* the thread whose frames are recorded
          QueueSize     \* max_queue_size_

\* With a queue size of 0 try_drop_frame() would pop from an empty deque.
ASSUME RecorderAssumption == Channel \in Threads /\ QueueSize \in Nat \ {0}

VARIABLES
    codec,      \* the codec of the channel
    queue,      \* write_queue_, oldest first
    running,    \* running_
    writer,     \* where write_loop() is
    entry,      \* the entry it writes, if writer = "write"
    dtor,       \* where the destructor is
    consumed,   \* consumed_
    dropped,    \* dropped_
    \* history
    handed,     \* the entries that on_frame() was given
    discarded,  \* those it dropped
    file        \* those written to file_, in order

recVars == <<codec, queue, running, writer, entry, dtor, consumed, dropped,
             handed, discarded, file>>
vars == <<frameVars, recVars>>

\* H.264 and H.265 make no difference here.
Codecs == {"H26x", "MJPEG"}
NaluTypes == {"IDR_SLICE", "P_SLICE"}

Entry == [stamp : Nat, idr : BOOLEAN]
NoEntry == [stamp |-> 0, idr |-> FALSE]

Init ==
    /\ ClockInit
    /\ codec \in Codecs
    /\ queue = <<>>
    /\ running = TRUE
    /\ writer = "loop"
    /\ entry = NoEntry
    /\ dtor = "none"
    /\ consumed = 0
    /\ dropped = 0
    /\ handed = {}
    /\ discarded = {}
    /\ file = <<>>

MutexFree == writer \notin {"parking", "ready"}

-----------------------------------------------------------------------------
(* on_frame(), on the caller's thread *)

\* The entry that try_drop_frame() drops: the oldest that is no key frame, or the
\* oldest when all are.
Victim ==
    LET plain == {k \in 1 .. Len(queue) : ~queue[k].idr}
    IN  IF plain = {} THEN 1 ELSE CHOOSE k \in plain : \A j \in plain : k <= j

Enqueued_InFront(e) ==
    <<e>> \o (IF Len(queue) >= QueueSize THEN RemoveAt(queue, Victim) ELSE queue)
Enqueued_KeepVictim(e) == Append(queue, e)
Enqueued(e) ==
    Append(IF Len(queue) >= QueueSize THEN RemoveAt(queue, Victim) ELSE queue, e)

OnFrame(nalus) ==
    LET e == [stamp |-> stamp[Channel], idr |-> IsIdr(codec, nalus)]
        full == Len(queue) >= QueueSize
    IN  /\ stage[Channel] = "made" /\ dtor = "none"
        /\ MutexFree
        /\ queue' = Enqueued(e)
        /\ dropped' = IF full THEN dropped + 1 ELSE dropped
        /\ discarded' = IF full THEN discarded \cup {queue[Victim]} ELSE discarded
        /\ handed' = handed \cup {e}
        /\ stage' = [stage EXCEPT ![Channel] = "notify"]
        /\ UNCHANGED <<clock, last, now, stamp, made, codec, running, writer, entry,
                       dtor, consumed, file>>

\* Where the writer is after cv_ was notified: only a blocked one hears it.
Notified_Nobody == writer
Notified == IF writer = "waiting" THEN "acquire" ELSE writer

\* The mutex is free again; on_frame() notifies and returns.
OnFrameNotify ==
    /\ stage[Channel] = "notify"
    /\ writer' = Notified
    /\ stage' = [stage EXCEPT ![Channel] = "idle"]
    /\ UNCHANGED <<clock, last, now, stamp, made, codec, queue, running, entry, dtor,
                   consumed, dropped, handed, discarded, file>>

-----------------------------------------------------------------------------
(* write_loop() *)

Writer(from, to) ==
    /\ writer = from
    /\ writer' = to
    /\ UNCHANGED <<frameVars, codec, running, dtor, dropped, handed, discarded>>

WriterLoop ==
    /\ Writer("loop", IF running THEN "acquire" ELSE "done")
    /\ UNCHANGED <<queue, entry, consumed, file>>

MayLeaveWait_QueueOnly == queue # <<>>
\* The predicate of cv_.wait().
MayLeaveWait == queue # <<>> \/ ~running

\* The predicate is tested with the mutex.
WriterTest ==
    /\ Writer("acquire", IF MayLeaveWait THEN "ready" ELSE "parking")
    /\ UNCHANGED <<queue, entry, consumed, file>>

\* cv_.wait() blocks and releases the mutex.
WriterPark ==
    /\ Writer("parking", "waiting")
    /\ UNCHANGED <<queue, entry, consumed, file>>

SpuriousWakeup ==
    /\ Writer("waiting", "acquire")
    /\ UNCHANGED <<queue, entry, consumed, file>>

WriterBreak ==
    /\ ~running
    /\ Writer("ready", "done")
    /\ UNCHANGED <<queue, entry, consumed, file>>

WriterTake ==
    /\ running
    /\ Writer("ready", "write")
    /\ entry' = Head(queue)
    /\ queue' = Tail(queue)
    /\ UNCHANGED <<consumed, file>>

\* file_.write(), without the mutex.
WriterWrite ==
    /\ Writer("write", "loop")
    /\ file' = Append(file, entry)
    /\ consumed' = consumed + 1
    /\ UNCHANGED <<queue, entry>>

-----------------------------------------------------------------------------
(* The destructor: neither of its first two steps takes the mutex *)

Destructor(from, to) ==
    /\ dtor = from
    /\ dtor' = to
    /\ UNCHANGED <<frameVars, codec, queue, entry, consumed, dropped, handed,
                   discarded, file>>

DestroyStop ==
    /\ stage[Channel] # "notify"
    /\ Destructor("none", "notify")
    /\ running' = FALSE
    /\ UNCHANGED writer

DestroyNotify ==
    /\ Destructor("notify", "join")
    /\ writer' = Notified
    /\ UNCHANGED running

DestroyJoin ==
    /\ writer = "done"
    /\ Destructor("join", "gone")
    /\ UNCHANGED <<running, writer>>

-----------------------------------------------------------------------------

WriterStep ==
    WriterLoop \/ WriterTest \/ WriterPark \/ WriterBreak \/ WriterTake \/ WriterWrite

DestroyStep == DestroyNotify \/ DestroyJoin

Next ==
    \/ ClockNext /\ UNCHANGED recVars
    \/ \E nalus \in SUBSET NaluTypes : OnFrame(nalus)
    \/ OnFrameNotify
    \/ WriterStep \/ SpuriousWakeup
    \/ DestroyStop \/ DestroyStep

Spec == Init /\ [][Next]_vars

\* Threads that can go on do; nobody has to make a frame or destroy the recorder.
FairSpec ==
    Spec /\ WF_vars(WriterStep) /\ WF_vars(OnFrameNotify) /\ WF_vars(DestroyStep)

-----------------------------------------------------------------------------
(* Properties *)

\* Every variable has its type.
TypeOK ==
    /\ ClockTypeOK
    /\ stage \in [Threads -> {"idle", "read", "made", "notify"}]
    /\ codec \in Codecs
    /\ queue \in Seq(Entry)
    /\ running \in BOOLEAN
    /\ writer \in {"loop", "acquire", "parking", "waiting", "ready", "write", "done"}
    /\ entry \in Entry
    /\ dtor \in {"none", "notify", "join", "gone"}
    /\ consumed \in Nat /\ dropped \in Nat
    /\ handed \subseteq Entry /\ discarded \subseteq Entry
    /\ file \in Seq(Entry)

\* What is written is later than all that was written before it: dropping from the
\* middle of the queue, key frames kept back and a clock that is set never put the
\* file out of order.
WrittenInOrder ==
    [][file' # file =>
          \A k \in 1 .. Len(file) : file[k].stamp < Last(file').stamp]_vars

InHand == IF writer = "write" THEN {entry} ELSE {}

\* Each entry that on_frame() was given is in one place and one only: queued, being
\* written, in the file or dropped; and the two counters say how many of the last
\* two there are.  Whatever the destructor leaves in the queue is never written.
EntriesAccountedFor ==
    /\ handed = Range(queue) \cup InHand \cup Range(file) \cup discarded
    /\ Cardinality(handed) = Len(queue) + Cardinality(InHand) + Len(file)
                             + Cardinality(discarded)
    /\ consumed = Len(file)
    /\ dropped = Cardinality(discarded)

\* The queue runs empty, unless the recorder is destroyed first: no notification of
\* on_frame() is lost.
QueueWritten == queue # <<>> ~> queue = <<>> \/ dtor # "none"

\* The destructor returns, when its notification does not come between the writer's
\* test of the predicate and its blocking.
DestructorReturnsUnlessParking ==
    dtor = "notify" /\ writer # "parking" ~> dtor = "gone"
=============================================================================
