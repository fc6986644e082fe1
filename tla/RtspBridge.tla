------------------------------- MODULE RtspBridge -------------------------------
(***************************************************************************)
(* How encoded frames cross from the StreamDistributor workers into the    *)
(* live555 event loop: RtspServer::on_frame() on the workers' threads,     *)
(* RtspFrameQueue between them, and RtspStreamSource and                   *)
(* RtspServerMediaSubsession on the event loop (modules/rtsp/src).         *)
(*                                                                         *)
(* The server is running and its streams were added: starting and stopping *)
(* it is not part of this module.  reuse_first_source is false, or         *)
(* max_clients is 1, so each session has a source of its own.              *)
(*                                                                         *)
(* There is one worker per stream, the distributor's thread for the RTSP   *)
(* consumer of that stream, and one event loop.  A handler of the event    *)
(* loop is one step, because what it shares with the workers is only the   *)
(* queues, each locked once per handler, and the trigger; DESCRIBE is two  *)
(* steps, since getAuxSDPLine() sleeps in the event loop while the workers *)
(* go on.  live555 runs one socket handler, the pending triggers and one   *)
(* due task per turn of its loop; with its own timers among the due tasks  *)
(* any order of handlers can occur, and the model allows any.              *)
(*                                                                         *)
(* The NAL units of a frame are numbered; what they contain does not       *)
(* matter here except whether the parameter sets are among them.           *)
(*                                                                         *)
(* A definition with an underscore in its name is a faulty variant of the  *)
(* one that follows it, kept to show that the properties can fail.         *)
(***************************************************************************)
EXTENDS Integers, SequencesExt

CONSTANTS Streams,       \* the streams added to the server
          Clients,       \* RTSP client sessions
          Nobody,        \* the owner of a source made for DESCRIBE
          QueueSize,     \* config_.frame_queue_size
          MaxClients,    \* config_.max_clients
          MaxFrames,     \* bound: frames per stream
          MaxNals,       \* bound: NAL units per frame
          MaxSources     \* bound: sources ever created

ASSUME BridgeAssumption ==
    /\ QueueSize \in Nat
    /\ MaxClients \in Nat
    /\ MaxFrames \in Nat
    /\ MaxNals \in Nat \ {0}
    /\ MaxSources \in Nat
    /\ Nobody \notin Clients
    /\ Streams # {}

Source == 1 .. MaxSources

VARIABLES
    \* RtspFrameQueue, by stream
    queue,       \* queue_: the access units, oldest first
    active,      \* active_sources_
    \* ParameterSetCache, by stream
    params,      \* whether it is complete
    \* RtspServerMediaSubsession, by stream
    sessions,    \* active_client_sessions_
    sdpKnown,    \* whether live555 has the SDP lines of the stream
    \* RtspStreamSource, by source
    made,        \* how many sources were made
    state,       \* "none", "open" or "closed" (deleted)
    stream,      \* its stream_type_
    owner,       \* the client session it was made for
    reading,     \* FramedSource::fIsCurrentlyAwaitingData
    awaiting,    \* awaiting_frame_
    due,         \* how many deliver_frame() tasks are scheduled for it
    \* the event loop
    triggered,   \* whether frame_event_trigger_ is pending
    describing,  \* the source of the DESCRIBE in progress, or 0
    crashed,     \* whether a task ran on a deleted source with fatal effect
    \* the workers, by stream
    worker,      \* where it is in on_frame()
    frame,       \* number of the frame it was last called with
    nals,        \* how many NAL units that frame has
    \* history
    popped       \* by stream: the last NAL unit popped

frameVars == <<worker, frame, nals>>
sourceVars == <<made, state, stream, owner>>
waitVars == <<reading, awaiting, due>>
clientVars == <<sessions, sdpKnown, describing>>
vars == <<queue, active, params, frameVars, sourceVars, waitVars, clientVars,
          triggered, crashed, popped>>

Nal == [frame : 0 .. MaxFrames, part : 0 .. MaxNals]
NoNal == [frame |-> 0, part |-> 0]

Init ==
    /\ queue = [s \in Streams |-> <<>>]
    /\ active = [s \in Streams |-> {}]
    /\ params = [s \in Streams |-> FALSE]
    /\ sessions = [s \in Streams |-> {}]
    /\ sdpKnown = [s \in Streams |-> FALSE]
    /\ made = 0
    /\ state = [x \in Source |-> "none"]
    /\ stream = [x \in Source |-> CHOOSE s \in Streams : TRUE]
    /\ owner = [x \in Source |-> Nobody]
    /\ reading = [x \in Source |-> FALSE]
    /\ awaiting = [x \in Source |-> FALSE]
    /\ due = [x \in Source |-> 0]
    /\ triggered = FALSE
    /\ describing = 0
    /\ crashed = FALSE
    /\ worker = [s \in Streams |-> "idle"]
    /\ frame = [s \in Streams |-> 0]
    /\ nals = [s \in Streams |-> 0]
    /\ popped = [s \in Streams |-> NoNal]

-----------------------------------------------------------------------------
(* RtspFrameQueue.  An access unit is the sequence of its NAL units; it is     *)
(* never empty, because an empty one is not pushed and the last NAL unit       *)
(* leaves together with it.                                                    *)

\* The constructor forces a max_queue_size of 0 to 1.
Capacity == IF QueueSize = 0 THEN 1 ELSE QueueSize

AccessUnit(f, n) == [k \in 1 .. n |-> [frame |-> f, part |-> k]]

Pushed_InFront(q, au) ==
    <<au>> \o (IF Len(q) >= Capacity THEN Front(q) ELSE q)

\* push_access_unit(): the oldest access units make room for the new one, even
\* when part of them was already popped.
Pushed(q, au) ==
    Append(IF Len(q) >= Capacity THEN SubSeq(q, Len(q) - Capacity + 2, Len(q)) ELSE q,
           au)

NextNal(q) == Head(Head(q))

\* The queue without its next NAL unit.
Popped(q) ==
    IF Len(Head(q)) = 1 THEN Tail(q) ELSE <<Tail(Head(q))>> \o Tail(q)

-----------------------------------------------------------------------------
(* RtspServer::on_frame(), on the worker's thread *)

\* The frame is parsed into NAL units and its parameter sets are cached.
OnFrame(s) ==
    /\ worker[s] = "idle"
    /\ frame[s] < MaxFrames
    /\ frame' = [frame EXCEPT ![s] = @ + 1]
    /\ \E n \in 0 .. MaxNals : nals' = [nals EXCEPT ![s] = n]
    /\ \E p \in BOOLEAN :
          /\ p => nals'[s] > 0
          /\ params' = [params EXCEPT ![s] = @ \/ p]
    /\ worker' = [worker EXCEPT ![s] = "check"]
    /\ UNCHANGED <<queue, active, sourceVars, waitVars, clientVars, triggered,
                   crashed, popped>>

\* has_active_sources() && !access_unit_nals.empty()
WorthPushing(s) == active[s] # {} /\ nals[s] > 0

\* The lock is released between the look at the sources and the push.
CheckActive(s) ==
    /\ worker[s] = "check"
    /\ worker' = [worker EXCEPT ![s] = IF WorthPushing(s) THEN "push" ELSE "trigger"]
    /\ UNCHANGED <<queue, active, params, frame, nals, sourceVars, waitVars,
                   clientVars, triggered, crashed, popped>>

PushAccessUnit(s) ==
    /\ worker[s] = "push"
    /\ queue' = [queue EXCEPT ![s] = Pushed(@, AccessUnit(frame[s], nals[s]))]
    /\ worker' = [worker EXCEPT ![s] = "trigger"]
    /\ UNCHANGED <<active, params, frame, nals, sourceVars, waitVars, clientVars,
                   triggered, crashed, popped>>

\* scheduler_->triggerEvent(frame_event_trigger_, this), the same trigger for
\* all streams; on_frame() returns.
TriggerEvent(s) ==
    /\ worker[s] = "trigger"
    /\ triggered' = TRUE
    /\ worker' = [worker EXCEPT ![s] = "idle"]
    /\ UNCHANGED <<queue, active, params, frame, nals, sourceVars, waitVars,
                   clientVars, crashed, popped>>

-----------------------------------------------------------------------------
(* The event loop.  LoopFree: no handler is in progress.                       *)

LoopFree == describing = 0 /\ ~crashed

\* notify_active_sources() for every queue: a source that awaits a frame gets a
\* deliver_frame() task.  live555 clears the trigger before the handler.
HandleFrameTrigger ==
    /\ LoopFree /\ triggered
    /\ triggered' = FALSE
    /\ LET woken == {x \in UNION {active[s] : s \in Streams} : awaiting[x]}
       IN  /\ awaiting' = [x \in Source |-> awaiting[x] /\ x \notin woken]
           /\ due' = [x \in Source |-> due[x] + (IF x \in woken THEN 1 ELSE 0)]
    /\ UNCHANGED <<queue, active, params, frameVars, sourceVars, reading,
                   clientVars, crashed, popped>>

\* deliver_frame(x) finds a NAL unit: it goes to the reader, which is then no
\* longer waiting (afterGetting()).
Hand(x) ==
    LET s == stream[x]
    IN  /\ popped' = [popped EXCEPT ![s] = NextNal(queue[s])]
        /\ queue' = [queue EXCEPT ![s] = Popped(@)]
        /\ reading' = [reading EXCEPT ![x] = FALSE]

\* The value of awaiting_frame_ that deliver_frame(x) leaves when it finds the
\* queue empty.
AwaitingAfterMiss_Unset(x) == awaiting[x]
AwaitingAfterMiss(x) == TRUE

\* A scheduled deliver_frame() finds its source open.
DeliverFrame(x) ==
    /\ LoopFree /\ due[x] > 0 /\ state[x] = "open"
    /\ due' = [due EXCEPT ![x] = @ - 1]
    /\ \/ /\ ~reading[x]
          /\ awaiting' = [awaiting EXCEPT ![x] = FALSE]
          /\ UNCHANGED <<reading, queue, popped>>
       \/ /\ reading[x] /\ queue[stream[x]] = <<>>
          /\ awaiting' = [awaiting EXCEPT ![x] = AwaitingAfterMiss(x)]
          /\ UNCHANGED <<reading, queue, popped>>
       \/ /\ reading[x] /\ queue[stream[x]] # <<>>
          /\ Hand(x)
          /\ UNCHANGED awaiting
    /\ UNCHANGED <<active, params, frameVars, sourceVars, clientVars, triggered,
                   crashed>>

\* A scheduled deliver_frame() finds its source deleted.  It reads the freed
\* object: with its last contents it returns at once, otherwise anything may
\* happen, of which the model keeps the worst.
DeliverToDeleted(x) ==
    /\ LoopFree /\ due[x] > 0 /\ state[x] = "closed"
    /\ due' = [due EXCEPT ![x] = @ - 1]
    /\ crashed' \in BOOLEAN
    /\ UNCHANGED <<queue, active, params, frameVars, sourceVars, reading, awaiting,
                   clientVars, triggered, popped>>

\* The framer asks the source of a playing client for the next NAL unit:
\* getNextFrame(), doGetNextFrame() and deliver_frame() in one.
GetNextFrame(x) ==
    /\ LoopFree /\ state[x] = "open" /\ owner[x] # Nobody /\ ~reading[x]
    /\ awaiting' = [awaiting EXCEPT ![x] = TRUE]
    /\ \/ /\ queue[stream[x]] = <<>>
          /\ reading' = [reading EXCEPT ![x] = TRUE]
          /\ UNCHANGED <<queue, popped>>
       \/ /\ queue[stream[x]] # <<>>
          /\ Hand(x)
    /\ UNCHANGED <<active, params, frameVars, sourceVars, due, clientVars, triggered,
                   crashed>>

\* PAUSE: live555 stops the source, which is asked again when the client goes on.  A
\* task already scheduled stays scheduled.
StopGettingFrames(x) ==
    /\ LoopFree /\ state[x] = "open" /\ owner[x] # Nobody
    /\ reading[x] \/ awaiting[x]
    /\ awaiting' = [awaiting EXCEPT ![x] = FALSE]
    /\ reading' = [reading EXCEPT ![x] = FALSE]
    /\ UNCHANGED <<queue, active, params, frameVars, sourceVars, due, clientVars,
                   triggered, crashed, popped>>

-----------------------------------------------------------------------------
(* RtspServerMediaSubsession, on the event loop *)

\* RtspStreamSource's constructor registers the source with the queue.
OpenSource(s, o) ==
    /\ made < MaxSources
    /\ LET x == made + 1
       IN  /\ made' = x
           /\ state' = [state EXCEPT ![x] = "open"]
           /\ stream' = [stream EXCEPT ![x] = s]
           /\ owner' = [owner EXCEPT ![x] = o]
           /\ active' = [active EXCEPT ![s] = @ \cup {x}]

StillActive_Forgotten(x) == active
\* active_sources_ after the source's destructor unregistered it.
StillActive(x) == [active EXCEPT ![stream[x]] = @ \ {x}]

\* live555 stops the source, if it was reading, and deletes it.  A task already
\* scheduled stays scheduled: its token was not kept.
CloseSource(x) ==
    /\ state' = [state EXCEPT ![x] = "closed"]
    /\ active' = StillActive(x)
    /\ awaiting' = [awaiting EXCEPT ![x] = FALSE]
    /\ reading' = [reading EXCEPT ![x] = FALSE]

\* DESCRIBE, as long as live555 has no SDP lines of the stream: a source is made
\* with session id 0, which no client limit applies to.
DescribeBegin(s) ==
    /\ LoopFree
    /\ ~sdpKnown[s]
    /\ OpenSource(s, Nobody)
    /\ describing' = made + 1
    /\ UNCHANGED <<queue, params, frameVars, waitVars, sessions, sdpKnown, triggered,
                   crashed, popped>>

\* getAuxSDPLine() returned: the parameter sets are there, or it gave up, and
\* then live555 may keep the lines it has without them.  The source goes.
DescribeEnd ==
    /\ describing # 0 /\ ~crashed
    /\ CloseSource(describing)
    /\ \E known \in BOOLEAN :
          /\ params[stream[describing]] => known
          /\ sdpKnown' = [sdpKnown EXCEPT ![stream[describing]] = known]
    /\ describing' = 0
    /\ UNCHANGED <<queue, params, frameVars, made, stream, owner, due, sessions,
                   triggered, crashed, popped>>

\* The constructor forces a max_clients of 0 to 1.
ClientLimit == IF MaxClients = 0 THEN 1 ELSE MaxClients

Accepts(s) == Cardinality(sessions[s]) < ClientLimit

\* SETUP: createNewStreamSource() for a session that has no source of the stream
\* (live555 first ends the one it has).  Beyond the limit nothing changes.
Setup(c, s) ==
    /\ LoopFree
    /\ c \notin sessions[s]
    /\ Accepts(s)
    /\ sessions' = [sessions EXCEPT ![s] = @ \cup {c}]
    /\ OpenSource(s, c)
    /\ UNCHANGED <<queue, params, frameVars, waitVars, sdpKnown, describing,
                   triggered, crashed, popped>>

\* TEARDOWN, or a session that timed out: deleteStream().
DeleteStream(x) ==
    /\ LoopFree /\ state[x] = "open" /\ owner[x] # Nobody
    /\ sessions' = [sessions EXCEPT ![stream[x]] = @ \ {owner[x]}]
    /\ CloseSource(x)
    /\ UNCHANGED <<queue, params, frameVars, made, stream, owner, due, sdpKnown,
                   describing, triggered, crashed, popped>>

-----------------------------------------------------------------------------

WorkerStep(s) == CheckActive(s) \/ PushAccessUnit(s) \/ TriggerEvent(s)

Next ==
    \/ \E s \in Streams :
          /\ ~crashed
          /\ OnFrame(s) \/ WorkerStep(s)
    \/ HandleFrameTrigger
    \/ \E x \in Source : DeliverFrame(x) \/ DeliverToDeleted(x) \/ GetNextFrame(x)
    \/ \E x \in Source : StopGettingFrames(x)
    \/ \E s \in Streams : DescribeBegin(s)
    \/ DescribeEnd
    \/ \E c \in Clients, s \in Streams : Setup(c, s)
    \/ \E x \in Source : DeleteStream(x)

Spec == Init /\ [][Next]_vars

\* on_frame() goes on once entered, getAuxSDPLine() gives up after 50 attempts,
\* and the event loop gets to every trigger and every task that is due.  No client
\* and no frame has to come, and a client may pause for good.
Fairness ==
    /\ \A s \in Streams : WF_vars(WorkerStep(s) /\ ~crashed)
    /\ WF_vars(DescribeEnd)
    /\ WF_vars(HandleFrameTrigger)
    /\ \A x \in Source : WF_vars(DeliverFrame(x) \/ DeliverToDeleted(x))

FairSpec == Spec /\ Fairness

-----------------------------------------------------------------------------
(* Safety *)

\* Every variable has its type.
TypeOK ==
    /\ queue \in [Streams -> Seq(Seq(Nal) \ {<<>>})]
    /\ active \in [Streams -> SUBSET Source]
    /\ params \in [Streams -> BOOLEAN]
    /\ sessions \in [Streams -> SUBSET Clients]
    /\ sdpKnown \in [Streams -> BOOLEAN]
    /\ made \in 0 .. MaxSources
    /\ state \in [Source -> {"none", "open", "closed"}]
    /\ stream \in [Source -> Streams]
    /\ owner \in [Source -> Clients \cup {Nobody}]
    /\ reading \in [Source -> BOOLEAN]
    /\ awaiting \in [Source -> BOOLEAN]
    /\ due \in [Source -> Nat]
    /\ triggered \in BOOLEAN
    /\ describing \in 0 .. MaxSources
    /\ crashed \in BOOLEAN
    /\ worker \in [Streams -> {"idle", "check", "push", "trigger"}]
    /\ frame \in [Streams -> 0 .. MaxFrames]
    /\ nals \in [Streams -> 0 .. MaxNals]
    /\ popped \in [Streams -> Nal]

\* No client waits forever over a queue that has something for it: whenever its
\* source waits and the queue is not empty, the push that filled the queue is
\* about to trigger, or the trigger is pending while awaiting_frame_ is set, or a
\* deliver_frame() is scheduled.
NoStuckSource ==
    \A x \in Source :
       state[x] = "open" /\ reading[x] /\ queue[stream[x]] # <<>> =>
          \/ due[x] > 0
          \/ awaiting[x] /\ (triggered \/ worker[stream[x]] = "trigger")

\* A playing client and its source come and go together: the sessions counted
\* against max_clients are those that have a source the queue knows, so a client
\* that left never blocks the next, and there is never more than max_clients.
SessionsMatchSources ==
    \A s \in Streams :
       /\ sessions[s] = {owner[x] : x \in {y \in active[s] : owner[y] # Nobody}}
       /\ \A x \in active[s] : state[x] = "open" /\ stream[x] = s
       /\ Cardinality({x \in active[s] : owner[x] # Nobody}) <= ClientLimit

Newer(n, m) ==
    \/ n.frame > m.frame
    \/ n.frame = m.frame /\ n.part > m.part

\* The NAL units of a stream leave in the order of the encoder, none twice, even
\* when clients take turns and access units are dropped in between.
PoppedInOrder ==
    [][\A s \in Streams : popped'[s] # popped[s] => Newer(popped'[s], popped[s])]_popped

-----------------------------------------------------------------------------
(* Liveness *)

\* A NAL unit that waits in the queue of a client that keeps reading is delivered
\* or makes room for a newer one, unless the client pauses or leaves.
ReaderServed ==
    \A x \in Source :
       state[x] = "open" /\ reading[x] /\ queue[stream[x]] # <<>>
          ~> (~reading[x] \/ queue[stream[x]] = <<>> \/ crashed)

-----------------------------------------------------------------------------
(* A claim of the design document *)

\* live555 owns the sources, and nothing else keeps a pointer that outlives them.
NoDanglingTask == \A x \in Source : due[x] > 0 => state[x] = "open"
=============================================================================
