------------------------------ MODULE Application ------------------------------
(***************************************************************************)
(* The program: main() (app/main.cpp), stream_test() which it runs         *)
(* (test/stream/stream_test.cpp), and the destruction of the static        *)
(* objects after it.  It composes VideoPipeline, whose init() it takes     *)
(* call by call, with what the other components look like from here: the   *)
(* server's event loop, the fetchers' threads, which open an encoder       *)
(* channel, and consumers whose worker is in a callback or not.            *)
(*                                                                         *)
(* A thread is told to stop, returns by its own step and is then joined.   *)
(* A worker may miss what it is told, as StreamDistributor shows, and then *)
(* the join hangs.  A callback that is still in RtspServer when that is    *)
(* gone may crash the process, as RtspServerLife shows.  A process that    *)
(* hangs, is killed or has ended takes no further step.                    *)
(*                                                                         *)
(* A channel that init() has not made cannot be opened; one that it has    *)
(* made may still be refused.                                              *)
(*                                                                         *)
(* Signals count before their handlers are there, when they end the        *)
(* process, and in pause(); in a sleep they cut it short, elsewhere the    *)
(* handler leaves nothing behind.                                          *)
(*                                                                         *)
(* A definition with an underscore in its name is a faulty variant of the  *)
(* one that follows it, kept to show that the properties can fail.         *)
(***************************************************************************)
EXTENDS Integers, SequencesExt

VARIABLES
    up, todo, outcome, refused,   \* those of VideoPipeline
    pc,          \* where main() is
    n,           \* the stream that a loop of main() has come to
    process,     \* "running", "killed", "hung", "aborted", "crashed" or "exited"
    statics,     \* the static objects, in the order of their construction
    server,      \* the event loop of RtspServer
    fetcher,     \* stream |-> the thread of its StreamFetcher
    consumers,   \* the consumers not told to stop: pairs of a user and a stream
    file,        \* stream |-> the file of its ChannelWriter
    calling      \* the consumers whose callback is running

P == INSTANCE VideoPipeline

pipeline == <<up, todo, outcome, refused>>
threads == <<server, fetcher, consumers, calling>>
vars == <<pipeline, pc, n, process, statics, threads, file>>

Streams == 0 .. 2              \* VIDEO_MAIN, VIDEO_SUB, VIDEO_MJPEG
RtspConsumers == {"rtsp"} \X {0, 1}

Init ==
    /\ P!Init
    /\ pc = "handlers" /\ n = 0 /\ process = "running"
    /\ statics = <<>>
    /\ server = "none"
    /\ fetcher = [s \in Streams |-> "none"]
    /\ consumers = {}
    /\ file = [s \in Streams |-> "none"]
    /\ calling = {}

\* One turn of a loop over the streams; after the last, main() goes on at after.
Turn(after) ==
    IF n < 2 THEN n' = n + 1 /\ pc' = pc ELSE n' = 0 /\ pc' = after

-----------------------------------------------------------------------------
(* main(): up to the server *)

EarlySignal ==
    /\ pc = "handlers"
    /\ process' = "killed"
    /\ UNCHANGED <<pipeline, pc, n, statics, threads, file>>

InstallHandlers ==
    /\ pc = "handlers"
    /\ pc' = "logger"
    /\ UNCHANGED <<pipeline, n, process, statics, threads, file>>

InitLogger ==
    /\ pc = "logger"
    /\ statics' = Append(statics, "logger")
    /\ pc' = "pipeline"
    /\ UNCHANGED <<pipeline, n, process, threads, file>>

InitPipeline ==
    /\ pc = "pipeline"
    /\ P!CallInit
    /\ statics' = Append(statics, "pipeline")
    /\ pc' = "init"
    /\ UNCHANGED <<n, process, threads, file>>

PipelineStep ==
    /\ pc = "init"
    /\ P!CallSucceeds \/ P!CallFails \/ P!UndoFails \/ P!Return
    /\ UNCHANGED <<pc, n, process, statics, threads, file>>

\* The result of init() is not looked at.
SetFetchers ==
    /\ pc = "init" /\ outcome \in {"ok", "failed"}
    /\ statics' = Append(statics, "scm")
    /\ fetcher' = [s \in Streams |-> "idle"]
    /\ pc' = "server"
    /\ UNCHANGED <<pipeline, n, process, server, consumers, calling, file>>

StartServer ==
    /\ pc = "server"
    /\ statics' = Append(statics, "rtsp")
    /\ \/ server' = "up" /\ consumers' = consumers \cup RtspConsumers
       \/ UNCHANGED <<server, consumers>>    \* "streaming disabled"
    /\ pc' = "warmup"
    /\ UNCHANGED <<pipeline, n, process, fetcher, calling, file>>

-----------------------------------------------------------------------------
(* stream_test() *)

Warmup ==
    /\ pc = "warmup"
    /\ pc' = "open"
    /\ UNCHANGED <<pipeline, n, process, statics, threads, file>>

OpenWriter ==
    /\ pc = "open"
    /\ file' = [file EXCEPT ![n] = "open"]
    /\ Turn("register")
    /\ UNCHANGED <<pipeline, process, statics, threads>>

\* fopen() fails: goto cleanup, and no fetcher is started.
OpenFails ==
    /\ pc = "open"
    /\ pc' = "cleanup" /\ n' = 0
    /\ UNCHANGED <<pipeline, process, statics, threads, file>>

RegisterWriter ==
    /\ pc = "register"
    /\ consumers' = consumers \cup {<<"file", n>>}
    /\ Turn("start_all")
    /\ UNCHANGED <<pipeline, process, statics, server, fetcher, calling, file>>

StartAll ==
    /\ pc = "start_all"
    /\ fetcher' = [fetcher EXCEPT ![n] = "starting"]
    /\ Turn("record")
    /\ UNCHANGED <<pipeline, process, statics, server, consumers, calling, file>>

Record ==
    /\ pc = "record"
    /\ pc' = "cleanup"
    /\ UNCHANGED <<pipeline, n, process, statics, threads, file>>

\* The worker is told to stop.  What was never registered is closed at once.
Unregister ==
    /\ pc = "cleanup"
    /\ consumers' = consumers \ {<<"file", n>>}
    /\ pc' = IF <<"file", n>> \in consumers THEN "join" ELSE "close"
    /\ UNCHANGED <<pipeline, n, process, statics, server, fetcher, calling, file>>

JoinWriter_Detached ==
    /\ pc = "join"
    /\ pc' = "close"
    /\ UNCHANGED <<pipeline, n, process, statics, threads, file>>
\* A callback under way is waited for.
JoinWriter ==
    /\ pc = "join" /\ <<"file", n>> \notin calling
    /\ pc' = "close"
    /\ UNCHANGED <<pipeline, n, process, statics, threads, file>>

CloseWriter ==
    /\ pc = "close"
    /\ file' = [file EXCEPT ![n] = IF file[n] = "open" THEN "closed" ELSE file[n]]
    /\ IF n < 2 THEN pc' = "cleanup" /\ n' = n + 1 ELSE pc' = "pause" /\ n' = 0
    /\ UNCHANGED <<pipeline, process, statics, threads>>

-----------------------------------------------------------------------------
(* The end *)

\* The signal that main() waits for.
Signal ==
    /\ pc = "pause"
    /\ pc' = "leave"
    /\ UNCHANGED <<pipeline, n, process, statics, threads, file>>

Leave ==
    /\ pc = "leave"
    /\ pc' = "destroy"
    /\ UNCHANGED <<pipeline, n, process, statics, threads, file>>

\* The static object o is the next to be destroyed.
Destroying(o) == pc = "destroy" /\ statics # <<>> /\ Last(statics) = o

\* stop() of a running server: watch_variable_ is set and running_ cleared.
StopServer ==
    /\ Destroying("rtsp") /\ server = "up"
    /\ server' = "stopping"
    /\ UNCHANGED <<pipeline, pc, n, process, statics, fetcher, consumers, calling, file>>

JoinServer_Detached ==
    /\ Destroying("rtsp") /\ server # "up"
    /\ statics' = Front(statics)
    /\ UNCHANGED <<pipeline, pc, n, process, threads, file>>
\* The loop has returned; the sessions, the maps and the scheduler go.
JoinServer ==
    /\ Destroying("rtsp") /\ server \in {"none", "returned"}
    /\ server' = "none"
    /\ statics' = Front(statics)
    /\ UNCHANGED <<pipeline, pc, n, process, fetcher, consumers, calling, file>>

\* What stop() makes of a fetcher's thread.
Told == [starting |-> "leaving", running |-> "stopping"]

StopFetcher_FlagKept ==
    /\ Destroying("scm") /\ n \in Streams /\ fetcher[n] \in DOMAIN Told
    /\ UNCHANGED vars
\* The fetchers go before the distributors.
StopFetcher ==
    /\ Destroying("scm") /\ n \in Streams /\ fetcher[n] \in DOMAIN Told
    /\ fetcher' = [fetcher EXCEPT ![n] = Told[@]]
    /\ UNCHANGED <<pipeline, pc, n, process, statics, server, consumers, calling, file>>

JoinFetcher ==
    /\ Destroying("scm") /\ n \in Streams /\ fetcher[n] \in {"idle", "returned"}
    /\ n' = n + 1
    /\ UNCHANGED <<pipeline, pc, process, statics, threads, file>>

TerminateFetcher_NotJoined ==
    /\ Destroying("scm") /\ n \in Streams /\ fetcher[n] \notin {"idle", "returned"}
    /\ process' = "aborted"
    /\ UNCHANGED <<pipeline, pc, n, statics, threads, file>>
\* stop() does nothing for a thread that has given up, and its std::thread is joinable.
TerminateFetcher ==
    /\ Destroying("scm") /\ n \in Streams /\ fetcher[n] = "failed"
    /\ process' = "aborted"
    /\ UNCHANGED <<pipeline, pc, n, statics, threads, file>>

\* After the fetchers, n numbers the distributors.
Distributor == n - 3

StopWorkers ==
    LET mine == {c \in consumers : c[2] = Distributor}
    IN  /\ Destroying("scm") /\ n \in 3 .. 5
        /\ consumers' = consumers \ mine
        /\ IF mine = {} THEN n' = n + 1 /\ pc' = pc ELSE n' = n /\ pc' = "reap"
        /\ UNCHANGED <<pipeline, process, statics, server, fetcher, calling, file>>

JoinWorkers ==
    /\ pc = "reap" /\ \A c \in calling : c[2] # Distributor
    /\ pc' = "destroy" /\ n' = n + 1
    /\ UNCHANGED <<pipeline, process, statics, threads, file>>

\* The worker tested its flag before it was told and fell asleep after it was notified.
JoinHangs ==
    /\ \/ pc = "join" /\ <<"file", n>> \notin calling
       \/ pc = "reap" /\ \A c \in calling : c[2] # Distributor
    /\ process' = "hung"
    /\ UNCHANGED <<pipeline, pc, n, statics, threads, file>>

DestroyManager ==
    /\ Destroying("scm") /\ n = 6
    /\ statics' = Front(statics)
    /\ UNCHANGED <<pipeline, pc, n, process, threads, file>>

\* The destructor is empty; that of ispThread finds a thread that nobody joined.
DestroyPipeline ==
    /\ Destroying("pipeline")
    /\ IF P!The("ispThread") \in up
       THEN process' = "aborted" /\ UNCHANGED statics
       ELSE statics' = Front(statics) /\ UNCHANGED process
    /\ UNCHANGED <<pipeline, pc, n, threads, file>>

DestroyLogger ==
    /\ Destroying("logger")
    /\ statics' = Front(statics)
    /\ process' = "exited"
    /\ UNCHANGED <<pipeline, pc, n, threads, file>>

-----------------------------------------------------------------------------
(* The other threads *)

LoopReturns ==
    /\ server = "stopping"
    /\ server' = "returned"
    /\ UNCHANGED <<pipeline, pc, n, process, statics, fetcher, consumers, calling, file>>

FetcherOpens(s) ==
    /\ fetcher[s] = "starting" /\ <<"venc", s>> \in up
    /\ fetcher' = [fetcher EXCEPT ![s] = "running"]
    /\ UNCHANGED <<pipeline, pc, n, process, statics, server, consumers, calling, file>>

FetcherFails(s) ==
    /\ fetcher[s] = "starting"
    /\ fetcher' = [fetcher EXCEPT ![s] = "failed"]
    /\ UNCHANGED <<pipeline, pc, n, process, statics, server, consumers, calling, file>>

\* A thread that was told to stop before it opened its channel has pushed no frame.
FetcherReturns(s) ==
    /\ \/ fetcher[s] = "leaving" /\ fetcher' = [fetcher EXCEPT ![s] = "idle"]
       \/ fetcher[s] = "stopping" /\ fetcher' = [fetcher EXCEPT ![s] = "returned"]
    /\ UNCHANGED <<pipeline, pc, n, process, statics, server, consumers, calling, file>>

\* Frames wait in the queues also after their fetcher has returned.  on_frame() of a
\* server that stops returns at once.
CallBegin(c) ==
    /\ c \in consumers \ calling
    /\ fetcher[c[2]] \in {"running", "stopping", "returned"}
    /\ c[1] = "rtsp" => server = "up"
    /\ calling' = calling \cup {c}
    /\ UNCHANGED <<pipeline, pc, n, process, statics, server, fetcher, consumers, file>>

CallEnd(c) ==
    /\ c \in calling
    /\ calling' = calling \ {c}
    /\ UNCHANGED <<pipeline, pc, n, process, statics, server, fetcher, consumers, file>>

\* on_frame() calls the scheduler, or searches the maps, that JoinServer took away.
Crash(c) ==
    /\ c \in calling /\ c[1] = "rtsp" /\ server = "none"
    /\ process' = "crashed"
    /\ UNCHANGED <<pipeline, pc, n, statics, threads, file>>

-----------------------------------------------------------------------------

MainStep ==
    /\ process = "running"
    /\ \/ InstallHandlers \/ InitLogger \/ InitPipeline \/ PipelineStep \/ SetFetchers
       \/ StartServer
       \/ Warmup \/ OpenWriter \/ OpenFails \/ RegisterWriter \/ StartAll \/ Record
       \/ Unregister \/ JoinWriter \/ JoinHangs \/ CloseWriter
       \/ Leave \/ StopServer \/ JoinServer
       \/ StopFetcher \/ JoinFetcher \/ TerminateFetcher
       \/ StopWorkers \/ JoinWorkers \/ DestroyManager
       \/ DestroyPipeline \/ DestroyLogger

Loop == process = "running" /\ LoopReturns

Fetch(s) == process = "running" /\ (FetcherOpens(s) \/ FetcherFails(s))

FetchEnds(s) == process = "running" /\ FetcherReturns(s)

Consumers == RtspConsumers \cup {"file"} \X Streams

CallEnds(c) == process = "running" /\ CallEnd(c)

Next ==
    \/ MainStep
    \/ Loop
    \/ process = "running" /\ (EarlySignal \/ Signal)
    \/ \E s \in Streams : Fetch(s) \/ FetchEnds(s)
    \/ \E c \in Consumers :
          CallEnds(c) \/ (process = "running" /\ (CallBegin(c) \/ Crash(c)))

\* main() runs on while it is not in pause().  The event loop looks at its watch
\* variable in every turn and a fetcher at its flag at least once a second, and a
\* callback ends.  Nobody has to send a signal.
Fairness ==
    /\ WF_vars(MainStep)
    /\ WF_vars(Loop)
    /\ \A s \in Streams : WF_vars(FetchEnds(s))
    /\ \A c \in Consumers : WF_vars(CallEnds(c))

Spec == Init /\ [][Next]_vars /\ Fairness

-----------------------------------------------------------------------------
(* Properties *)

\* Every call of init(), also of a clean-up, finds up what it needs.
NeedsMet == P!NeedsMet

\* Only known parts are up, and however init() ends the MIPI device is closed, no
\* encoder but the last made lacks its source, nothing of VI or VPSS hangs on a part
\* that was taken down, and success means that everything is up.
PipelineWhole ==
    /\ P!TypeOK
    /\ P!MipiClosed
    /\ P!EncodersWhole
    /\ P!BindingsWhole
    /\ P!SuccessWhole

\* stream_test() closes a file only when no worker can write to it any more, also when
\* the next frame is already being written or the recording is cut short by a signal.
NoWriteToClosedFile ==
    \A s \in Streams : <<"file", s>> \in calling => file[s] = "open"

\* All threads but main() log; the logger is there before the first of them and goes
\* after the last, although every object is only destroyed by the end of the program.
LoggerOutlivesThreads ==
    "logger" \notin Range(statics) =>
       /\ server = "none" /\ consumers = {} /\ calling = {}
       /\ P!The("ispThread") \notin up
       /\ \A s \in Streams : fetcher[s] \in {"none", "idle", "failed", "returned"}

\* std::terminate() is reached in the destruction of the pipeline, over the thread of
\* the ISP that nobody joins, or of a fetcher whose thread has given up, and nowhere
\* else.  The program ends by returning from main() only when there was neither: after
\* a successful init() never, although main() says that it exits gracefully.
AbortsOnlyOverThread ==
    /\ process = "aborted" =>
          \/ Destroying("pipeline") /\ P!The("ispThread") \in up
          \/ Destroying("scm") /\ n \in Streams /\ fetcher[n] = "failed"
    /\ process = "exited" =>
          /\ outcome = "failed" /\ P!The("ispThread") \notin up
          /\ \A s \in Streams : fetcher[s] \in {"idle", "returned"}

\* stream_test() and the destructors come to an end: every thread that is joined was
\* told to stop before, and only a worker that fell asleep in that moment hangs them.
JoinsEnd ==
    /\ pc = "cleanup" ~> pc = "pause" \/ process = "hung"
    /\ pc = "leave" ~> \/ process \in {"exited", "aborted", "crashed"}
                       \/ process = "hung" /\ pc = "reap"

=============================================================================
