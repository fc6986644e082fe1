----------------------------- MODULE RtspServerLife -----------------------------
(***************************************************************************)
(* The life of the RTSP server: RtspServer::start(), add_stream(),         *)
(* remove_stream() and stop() on the main thread, the event loop thread    *)
(* they start and join, and the workers of the distributors that call      *)
(* on_frame() meanwhile (modules/rtsp/src/rtsp_server.cpp).                *)
(*                                                                         *)
(* None of the members but running_ is atomic and no mutex protects the    *)
(* maps, so a step of the main thread is one assignment or one call of     *)
(* live555, and the stretches in which another thread uses the maps or the *)
(* scheduler are states of that thread.                                    *)
(*                                                                         *)
(* The main thread keeps to the order of app/main.cpp: start, add streams, *)
(* register the consumers.  Then it may unregister them and stop, which is *)
(* the order of the design document, or stop at once: at the end of main() *)
(* nobody unregisters, and ~RtspServer() calls stop() while the workers go *)
(* on calling on_frame().                                                  *)
(*                                                                         *)
(* A map searched while it is emptied, and a call of a scheduler that was  *)
(* deleted, are undefined: the process crashes or nothing is noticed.      *)
(*                                                                         *)
(* What goes through the queues of the server is the matter of RtspBridge. *)
(*                                                                         *)
(* A definition with an underscore in its name is a faulty variant of the  *)
(* one that follows it, kept to show that the properties can fail.         *)
(***************************************************************************)
EXTENDS Integers

CONSTANTS Streams,           \* the stream types that can be added
          Workers,           \* the distributors' threads that call on_frame()
          MaxStarts          \* bound: how often a scheduler is made

ASSUME LifeAssumption == MaxStarts \in Nat

VARIABLES
    \* RtspServer
    running,      \* running_
    watch,        \* watch_variable_, which ends the event loop
    scheduler,    \* scheduler_: the number of the scheduler, 0 is NULL
    server,       \* whether rtsp_server_ and env_ are set
    streams,      \* the keys of sessions_, frame_queues_, ...: the maps agree
    loop,         \* event_thread_
    \* live555
    schedulers,   \* the numbers of the schedulers made and not deleted
    made,         \* how many schedulers were made
    table,        \* the sessions in the lookup table of rtsp_server_
    closed,       \* those of them that were closed, that is deleted
    triggered,    \* whether frame_event_trigger_ is pending
    \* the threads
    main,         \* where the main thread is
    adding,       \* the stream it is adding or removing
    phase,        \* how far the program is
    worker,       \* where each worker is in on_frame()
    using         \* the scheduler that it calls

serverVars == <<running, watch, scheduler, server, streams>>
liveVars == <<schedulers, made, table, closed, triggered>>
mainVars == <<main, adding, phase>>
workerVars == <<worker, using>>
vars == <<serverVars, liveVars, loop, mainVars, workerVars>>

MainState == {"idle",
              "create", "unwind", "serve", "run", "reset", "spawn",   \* start()
              "publish",                                              \* add_stream()
              "erase",                                                \* remove_stream()
              "halt", "join", "close", "clear",                       \* stop()
              "shut", "delete", "forget"}

\* Before start(), up to the registration, with consumers, without them again, and
\* in or after a stop() with consumers.
Phases == {"off", "setup", "streaming", "draining", "exit"}

Init ==
    /\ running = FALSE
    /\ watch = FALSE
    /\ scheduler = 0
    /\ server = FALSE
    /\ streams = {}
    /\ loop = "none"
    /\ schedulers = {}
    /\ made = 0
    /\ table = {}
    /\ closed = {}
    /\ triggered = FALSE
    /\ main = "idle"
    /\ adding \in Streams
    /\ phase = "off"
    /\ worker = [w \in Workers |-> "idle"]
    /\ using = [w \in Workers |-> 0]

\* No thread has crashed the process.
Process == \A w \in Workers : worker[w] # "crashed"

Go(from, to) == Process /\ main = from /\ main' = to

-----------------------------------------------------------------------------
(* start().  A second start() of a running server returns at once, and nobody  *)
(* starts the server again after its destructor.                               *)

StartScheduler ==
    /\ Go("idle", "create")
    /\ ~running /\ phase = "off" /\ made < MaxStarts
    /\ made' = made + 1
    /\ schedulers' = schedulers \cup {made'}
    /\ scheduler' = made'
    /\ triggered' = FALSE
    /\ UNCHANGED <<running, watch, server, streams, table, closed, loop, adding,
                   phase, workerVars>>

\* The environment or the server cannot be made: the scheduler goes again.
StartFail ==
    /\ Go("create", "unwind")
    /\ schedulers' = schedulers \ {scheduler}
    /\ UNCHANGED <<serverVars, made, table, closed, triggered, loop, adding, phase,
                   workerVars>>

StartUnwound_KeepsPointer ==
    /\ Go("unwind", "idle")
    /\ UNCHANGED <<serverVars, liveVars, loop, adding, phase, workerVars>>

\* scheduler_ = NULL; start() returns false.
StartUnwound ==
    /\ Go("unwind", "idle")
    /\ scheduler' = 0
    /\ UNCHANGED <<running, watch, server, streams, liveVars, loop, adding, phase,
                   workerVars>>

StartServer ==
    /\ Go("create", "serve")
    /\ server' = TRUE
    /\ UNCHANGED <<running, watch, scheduler, streams, liveVars, loop, adding, phase,
                   workerVars>>

StartRunning ==
    /\ Go("serve", "reset")
    /\ running' = TRUE
    /\ UNCHANGED <<watch, scheduler, server, streams, liveVars, loop, adding, phase,
                   workerVars>>

StartReset_Skipped ==
    /\ Go("reset", "spawn")
    /\ UNCHANGED <<serverVars, liveVars, loop, adding, phase, workerVars>>

\* watch_variable_ = 0
StartReset ==
    /\ Go("reset", "spawn")
    /\ watch' = FALSE
    /\ UNCHANGED <<running, scheduler, server, streams, liveVars, loop, adding, phase,
                   workerVars>>

StartLoop ==
    /\ Go("spawn", "idle")
    /\ loop' = "running"
    /\ phase' = "setup"
    /\ UNCHANGED <<serverVars, liveVars, adding, workerVars>>

-----------------------------------------------------------------------------
(* add_stream(), remove_stream() and the consumers.  Callers come here with    *)
(* the server started; both functions return when it is not.                   *)

MayChangeStreams_WhileStreaming == phase \in {"setup", "streaming"}
\* main.cpp adds its streams before it registers the consumers.
MayChangeStreams == phase = "setup"

\* The session goes into the server's table.
AddSession(s) ==
    /\ Go("idle", "publish")
    /\ server /\ MayChangeStreams /\ s \notin streams
    /\ adding' = s
    /\ table' = table \cup {s}
    /\ closed' = closed \ {s}
    /\ UNCHANGED <<serverVars, schedulers, made, triggered, loop, phase, workerVars>>

AddPublish ==
    /\ Go("publish", "idle")
    /\ streams' = streams \cup {adding}
    /\ UNCHANGED <<running, watch, scheduler, server, liveVars, loop, adding, phase,
                   workerVars>>

\* Medium::close() deletes the session; the server's table is not told.
RemoveSession(s) ==
    /\ Go("idle", "erase")
    /\ MayChangeStreams /\ s \in streams
    /\ adding' = s
    /\ closed' = closed \cup {s}
    /\ UNCHANGED <<serverVars, schedulers, made, table, triggered, loop, phase,
                   workerVars>>

RemoveErase ==
    /\ Go("erase", "idle")
    /\ streams' = streams \ {adding}
    /\ UNCHANGED <<running, watch, scheduler, server, liveVars, loop, adding, phase,
                   workerVars>>

Register ==
    /\ Go("idle", "idle")
    /\ phase = "setup"
    /\ phase' = "streaming"
    /\ UNCHANGED <<serverVars, liveVars, loop, adding, workerVars>>

Unregister_NoWait ==
    /\ Go("idle", "idle")
    /\ phase = "streaming"
    /\ phase' = "draining"
    /\ UNCHANGED <<serverVars, liveVars, loop, adding, workerVars>>

\* remove_consumer() returns once the callback has returned for good.
Unregister ==
    /\ Go("idle", "idle")
    /\ phase = "streaming"
    /\ \A w \in Workers : worker[w] = "idle"
    /\ phase' = "draining"
    /\ UNCHANGED <<serverVars, liveVars, loop, adding, workerVars>>

-----------------------------------------------------------------------------
(* stop().  It returns at once unless running_.                                *)

StopSignal_Forgotten ==
    /\ Go("idle", "halt")
    /\ running
    /\ phase' = IF phase = "streaming" THEN "exit" ELSE phase
    /\ UNCHANGED <<serverVars, liveVars, loop, adding, workerVars>>

\* watch_variable_ = 1.  Whether there are consumers is not looked at.
StopSignal ==
    /\ Go("idle", "halt")
    /\ running
    /\ watch' = TRUE
    /\ phase' = IF phase = "streaming" THEN "exit" ELSE phase
    /\ UNCHANGED <<running, scheduler, server, streams, liveVars, loop, adding,
                   workerVars>>

StopRunning ==
    /\ Go("halt", "join")
    /\ running' = FALSE
    /\ UNCHANGED <<watch, scheduler, server, streams, liveVars, loop, adding, phase,
                   workerVars>>

StopJoin ==
    /\ Go("join", "close")
    /\ loop = "returned"
    /\ loop' = "none"
    /\ UNCHANGED <<serverVars, liveVars, adding, phase, workerVars>>

\* Medium::close() of every session.
StopSessions ==
    /\ Go("close", "clear")
    /\ closed' = closed \cup streams
    /\ UNCHANGED <<serverVars, schedulers, made, table, triggered, loop, adding, phase,
                   workerVars>>

StopMaps ==
    /\ Go("clear", "shut")
    /\ streams' = {}
    /\ UNCHANGED <<running, watch, scheduler, server, liveVars, loop, adding, phase,
                   workerVars>>

\* The server goes, with its table, and the environment.
StopServer ==
    /\ Go("shut", "delete")
    /\ server' = FALSE
    /\ table' = {}
    /\ closed' = {}
    /\ UNCHANGED <<running, watch, scheduler, streams, schedulers, made, triggered,
                   loop, adding, phase, workerVars>>

StopDelete ==
    /\ Go("delete", "forget")
    /\ schedulers' = schedulers \ {scheduler}
    /\ triggered' = FALSE
    /\ UNCHANGED <<serverVars, made, table, closed, loop, adding, phase, workerVars>>

\* scheduler_ = NULL; stop() returns.
StopForget ==
    /\ Go("forget", "idle")
    /\ scheduler' = 0
    /\ phase' = IF phase = "exit" THEN "exit" ELSE "off"
    /\ UNCHANGED <<running, watch, server, streams, liveVars, loop, adding, workerVars>>

-----------------------------------------------------------------------------
(* The event loop *)

\* doEventLoop() looks at the watch variable between two handlers.
LoopReturn ==
    /\ Process /\ loop = "running" /\ watch
    /\ loop' = "returned"
    /\ UNCHANGED <<serverVars, liveVars, mainVars, workerVars>>

\* handle_frame_trigger() goes through frame_queues_.
LoopTrigger ==
    /\ Process /\ loop = "running" /\ triggered
    /\ triggered' = FALSE
    /\ loop' = "notifying"
    /\ UNCHANGED <<serverVars, schedulers, made, table, closed, mainVars, workerVars>>

LoopNotified ==
    /\ Process /\ loop = "notifying"
    /\ loop' = "running"
    /\ UNCHANGED <<serverVars, liveVars, mainVars, workerVars>>

-----------------------------------------------------------------------------
(* on_frame(), as long as the consumers are registered, which at the exit they *)
(* stay.  It returns at once unless running_: workers that go on calling a     *)
(* stopped server change nothing.                                              *)

OnFrame(w) ==
    /\ Process /\ worker[w] = "idle" /\ phase \in {"streaming", "exit"}
    /\ running
    /\ worker' = [worker EXCEPT ![w] = "find"]
    /\ UNCHANGED <<serverVars, liveVars, loop, mainVars, using>>

\* The maps are searched; with or without the stream, the trigger comes next,
\* once the NAL units are in their queue.
Found(w) ==
    /\ Process /\ worker[w] = "find"
    /\ worker' = [worker EXCEPT ![w] = "trigger"]
    /\ UNCHANGED <<serverVars, liveVars, loop, mainVars, using>>

\* if (scheduler_)
ReadScheduler(w) ==
    /\ Process /\ worker[w] = "trigger"
    /\ worker' = [worker EXCEPT ![w] = IF scheduler = 0 THEN "idle" ELSE "call"]
    /\ using' = [using EXCEPT ![w] = scheduler]
    /\ UNCHANGED <<serverVars, liveVars, loop, mainVars>>

\* scheduler_->triggerEvent()
TriggerEvent(w) ==
    /\ Process /\ worker[w] = "call"
    /\ triggered' = (triggered \/ using[w] \in schedulers)
    /\ worker' = [worker EXCEPT ![w] = "idle"]
    /\ using' = [using EXCEPT ![w] = 0]
    /\ UNCHANGED <<serverVars, schedulers, made, table, closed, loop, mainVars>>

\* The worker walks a tree that is being torn down, or calls freed memory.
Crash(w) ==
    /\ Process
    /\ \/ worker[w] = "find" /\ main \in {"publish", "erase", "clear"}
       \/ worker[w] = "call" /\ using[w] \notin schedulers
    /\ worker' = [worker EXCEPT ![w] = "crashed"]
    /\ UNCHANGED <<serverVars, liveVars, loop, mainVars, using>>

-----------------------------------------------------------------------------

Start ==
    \/ StartScheduler \/ StartFail \/ StartUnwound \/ StartServer
    \/ StartRunning \/ StartReset \/ StartLoop

StopRest ==
    \/ StopRunning \/ StopJoin \/ StopSessions \/ StopMaps
    \/ StopServer \/ StopDelete \/ StopForget

EventLoop == LoopReturn \/ LoopTrigger \/ LoopNotified

Worker(w) ==
    OnFrame(w) \/ Found(w) \/ ReadScheduler(w) \/ TriggerEvent(w) \/ Crash(w)

Next ==
    \/ Start \/ StopSignal \/ StopRest
    \/ \E s \in Streams : AddSession(s) \/ RemoveSession(s)
    \/ AddPublish \/ RemoveErase
    \/ Register \/ Unregister
    \/ EventLoop
    \/ \E w \in Workers : Worker(w)

Spec == Init /\ [][Next]_vars

\* stop() goes on once called, and the event loop comes back to its watch
\* variable however many triggers are pending.
Fairness ==
    /\ WF_vars(StopRest)
    /\ WF_vars(LoopNotified)
    /\ SF_vars(LoopReturn)

FairSpec == Spec /\ Fairness

-----------------------------------------------------------------------------
(* Safety *)

\* Every variable has its type.
TypeOK ==
    /\ running \in BOOLEAN
    /\ watch \in BOOLEAN
    /\ scheduler \in 0 .. MaxStarts
    /\ server \in BOOLEAN
    /\ streams \subseteq Streams
    /\ loop \in {"none", "running", "notifying", "returned"}
    /\ schedulers \subseteq 1 .. MaxStarts
    /\ made \in 0 .. MaxStarts
    /\ table \subseteq Streams
    /\ closed \subseteq table
    /\ triggered \in BOOLEAN
    /\ main \in MainState
    /\ adding \in Streams
    /\ phase \in Phases
    /\ worker \in [Workers -> {"idle", "find", "trigger", "call", "crashed"}]
    /\ using \in [Workers -> 0 .. MaxStarts]

\* The event loop never runs without its scheduler and its server: stop() deletes
\* them only after the thread is joined, also the second time round.
LoopHasServer ==
    loop \in {"running", "notifying"} => server /\ scheduler \in schedulers

\* A server that says it runs does: the event loop of a restarted server does not
\* end over the watch variable of the stop before.
RunningServes ==
    running /\ main \in {"idle", "publish", "erase"} => loop \in {"running", "notifying"}

\* The server and its event loop belong together: no loop without a server, and no
\* server that claims to run without a loop, over failed starts, stops and restarts.
LoopServes == LoopHasServer /\ RunningServes

\* After stop() and after a start() that failed nothing is left: no scheduler, no
\* server, no thread, no stream; a later start() begins anew.
StoppedIsClean ==
    ~running /\ main = "idle" =>
       /\ scheduler = 0 /\ schedulers = {}
       /\ ~server /\ table = {}
       /\ streams = {}
       /\ loop = "none"

\* While the main thread changes the maps, no event loop is in them, and a worker is
\* only in a stop() with the consumers registered.
MapsRacedOnlyAtExit ==
    main \in {"publish", "erase", "clear"} =>
       /\ loop # "notifying"
       /\ phase # "exit" => \A w \in Workers : worker[w] # "find"

\* A worker comes to call a deleted scheduler only after such a stop().
FreedOnlyAtExit ==
    \A w \in Workers :
       worker[w] = "call" /\ using[w] \notin schedulers => phase = "exit"

\* What has no mutex, the maps and the scheduler, is safe up to the exit of the
\* program, whatever is started, stopped and started again: setting the streams up
\* before the consumers, and a removal that waits for the callback, are enough.
RacesOnlyAtExit == MapsRacedOnlyAtExit /\ FreedOnlyAtExit

\* triggerEvent() is never called on a scheduler that is deleted: what the close
\* order of the design document (stop_all, unregister_consumer, RtspServer::stop)
\* is there for.  The exit of main() has another order, and the run server_exit
\* finds the call.
NoFreedScheduler ==
    \A w \in Workers : worker[w] = "call" => using[w] \in schedulers

-----------------------------------------------------------------------------
(* Liveness *)

\* stop() returns: the event loop sees the watch variable and the join ends, however
\* many events the workers trigger meanwhile, unless one of them crashes the process.
StopReturns == main = "halt" ~> main = "idle" \/ ~Process
=============================================================================
