------------------------------ MODULE StreamFetcher ------------------------------
(***************************************************************************)
(* The threads that take encoded frames from the encoder                   *)
(* (modules/platform/hi3516cv610/src/hi_stream_fetcher.cpp), and the       *)
(* StreamConsumerManager that starts, stops, replaces and destroys them    *)
(* (modules/stream/src/stream_consumer_manager.cpp).                       *)
(*                                                                         *)
(* The manager's callers are one thread, main.  A fetcher's thread shares  *)
(* with it only running_ and the thread object; the rest of its state is   *)
(* its own, so a step is what it does between two looks at running_ or two *)
(* calls that the encoder can answer in several ways.                      *)
(*                                                                         *)
(* The encoder is external: it keeps the frames of a channel until they    *)
(* are got, and what was got until it is released; a stream whose release  *)
(* it refuses stays with it.  Any call of it can fail, and so can malloc().*)
(*                                                                         *)
(* A definition with an underscore in its name is a faulty variant of the  *)
(* one that follows it, kept to show that the properties can fail.         *)
(***************************************************************************)
EXTENDS Integers, Sequences

CONSTANTS Fetchers,    \* the stream types for which a fetcher is set
          NoFetcher,
          BufferSize   \* bound: frames the encoder keeps, per channel

ASSUME FetcherAssumption ==
    /\ NoFetcher \notin Fetchers
    /\ BufferSize \in [Fetchers -> Nat \ {0}]

VARIABLES
    \* StreamFetcher
    running,       \* running_
    thread,        \* where thread_ is; "none" when it is not joinable
    packs,         \* the pack arrays allocated and not freed
    \* the encoder's channel
    channel,       \* the frames that wait, oldest first: "fits" or "large"
    held,          \* how many streams were got and not released
    refused,       \* history: how many times it refused a release
    \* main, in the manager
    op,            \* the operation in progress
    todo,          \* the fetchers it has still to treat
    joining,       \* the fetcher whose thread it joins
    distributors   \* whether distributors_ exist

fetchVars == <<packs, channel, held, refused>>
mainVars == <<op, todo, joining, distributors>>
vars == <<running, thread, fetchVars, mainVars>>

\* A frame has at most FrameData::MAX_PACKS packs, or more.
Sizes == {"fits", "large"}

ThreadState == {"none", "open", "loop", "poll",
                "fetch", "get", "drain", "drained",     \* fetchFrame()
                "copy", "release", "push", "returned"}

Alive == ThreadState \ {"none", "returned"}

Init ==
    /\ running = [f \in Fetchers |-> FALSE]
    /\ thread = [f \in Fetchers |-> "none"]
    /\ packs = [f \in Fetchers |-> 0]
    /\ channel = [f \in Fetchers |-> <<>>]
    /\ held = [f \in Fetchers |-> 0]
    /\ refused = [f \in Fetchers |-> 0]
    /\ op = "none"
    /\ todo = {}
    /\ joining = NoFetcher
    /\ distributors = TRUE

Process == op # "aborted"

Go(f, from, to) ==
    /\ Process
    /\ thread[f] = from
    /\ thread' = [thread EXCEPT ![f] = to]

-----------------------------------------------------------------------------
(* run() *)

\* ss_mpi_venc_get_fd() fails: the thread gives up.
OpenFails(f) ==
    /\ Go(f, "open", "returned")
    /\ running' = [running EXCEPT ![f] = FALSE]
    /\ UNCHANGED <<fetchVars, mainVars>>

Open(f) ==
    /\ Go(f, "open", "loop")
    /\ UNCHANGED <<running, fetchVars, mainVars>>

\* while (running_)
Loop(f) ==
    /\ Go(f, "loop", IF running[f] THEN "poll" ELSE "returned")
    /\ UNCHANGED <<running, fetchVars, mainVars>>

PollNothing_NoTimeout(f) ==
    /\ Go(f, "poll", "loop")
    /\ channel[f] # <<>>
    /\ UNCHANGED <<running, fetchVars, mainVars>>

\* select() times out after a second or fails, whether a frame waits or not.
PollNothing(f) ==
    /\ Go(f, "poll", "loop")
    /\ UNCHANGED <<running, fetchVars, mainVars>>

PollFrame(f) ==
    /\ Go(f, "poll", "fetch")
    /\ channel[f] # <<>>
    /\ UNCHANGED <<running, fetchVars, mainVars>>

-----------------------------------------------------------------------------
(* fetchFrame() and releaseFrame().  The result of fetchFrame() is looked at,  *)
(* that of the calls that release a stream is not.                             *)

\* The status cannot be queried or shows no packs, or there is no memory for the
\* pack array.
FetchFails(f) ==
    /\ Go(f, "fetch", "loop")
    /\ UNCHANGED <<running, fetchVars, mainVars>>

Allocate_LargeSkipped(f) ==
    /\ Go(f, "fetch", IF Head(channel[f]) = "fits" THEN "get" ELSE "loop")
    /\ packs' = [packs EXCEPT ![f] = IF Head(channel[f]) = "fits" THEN @ + 1 ELSE @]
    /\ UNCHANGED <<running, channel, held, refused, mainVars>>

\* A frame with too many packs gets an array too, to be drained into.
Allocate(f) ==
    /\ Go(f, "fetch", IF Head(channel[f]) = "fits" THEN "get" ELSE "drain")
    /\ packs' = [packs EXCEPT ![f] = @ + 1]
    /\ UNCHANGED <<running, channel, held, refused, mainVars>>

GetFails_PacksKept(f) ==
    /\ Go(f, "get", "loop") \/ Go(f, "drain", "loop")
    /\ UNCHANGED <<running, fetchVars, mainVars>>

\* The stream cannot be got; the array is freed.
GetFails(f) ==
    /\ Go(f, "get", "loop") \/ Go(f, "drain", "loop")
    /\ packs' = [packs EXCEPT ![f] = @ - 1]
    /\ UNCHANGED <<running, channel, held, refused, mainVars>>

GetStream(f) ==
    /\ channel' = [channel EXCEPT ![f] = Tail(@)]
    /\ held' = [held EXCEPT ![f] = @ + 1]

Get(f) ==
    /\ Go(f, "get", "copy")
    /\ GetStream(f)
    /\ UNCHANGED <<running, packs, refused, mainVars>>

Drain(f) ==
    /\ Go(f, "drain", "drained")
    /\ GetStream(f)
    /\ UNCHANGED <<running, packs, refused, mainVars>>

\* Whether the encoder takes the stream back or refuses it, the array is freed.
GiveBack(f) ==
    /\ \/ held' = [held EXCEPT ![f] = @ - 1] /\ UNCHANGED refused
       \/ refused' = [refused EXCEPT ![f] = @ + 1] /\ UNCHANGED held
    /\ packs' = [packs EXCEPT ![f] = @ - 1]

\* The drained frame goes back unseen.
DrainRelease(f) ==
    /\ Go(f, "drained", "loop")
    /\ GiveBack(f)
    /\ UNCHANGED <<running, channel, mainVars>>

\* The StreamFrame copies the packs, which lie in the encoder's memory.
Copy(f) ==
    /\ Go(f, "copy", "release")
    /\ UNCHANGED <<running, fetchVars, mainVars>>

Release(f) ==
    /\ Go(f, "release", "push")
    /\ GiveBack(f)
    /\ UNCHANGED <<running, channel, mainVars>>

\* distributor_.push()
Push(f) ==
    /\ Go(f, "push", "loop")
    /\ UNCHANGED <<running, fetchVars, mainVars>>

\* The encoder goes on while its buffer has room.
Encode(f, size) ==
    /\ Process
    /\ Len(channel[f]) + held[f] < BufferSize[f]
    /\ channel' = [channel EXCEPT ![f] = Append(@, size)]
    /\ UNCHANGED <<running, thread, packs, held, refused, mainVars>>

-----------------------------------------------------------------------------
(* The manager's operations.  Its maps are gone through in some order.         *)

\* start_all(), stop_all(), set_fetcher() for a type that has one, or the
\* destructor at exit.
Call(name, fs) ==
    /\ op = "none"
    /\ op' = name
    /\ todo' = fs
    /\ UNCHANGED <<running, thread, fetchVars, joining, distributors>>

StartFetcher_Again(f) ==
    /\ op = "start" /\ f \in todo
    /\ running' = [running EXCEPT ![f] = TRUE]
    /\ IF thread[f] = "none"
       THEN /\ thread' = [thread EXCEPT ![f] = "open"]
            /\ todo' = todo \ {f}
            /\ op' = op
       ELSE op' = "aborted" /\ UNCHANGED <<thread, todo>>
    /\ UNCHANGED <<fetchVars, joining, distributors>>

\* start().  Assigning to a thread that is still joinable ends the process.
StartFetcher(f) ==
    /\ op = "start" /\ f \in todo
    /\ \/ /\ running[f]
          /\ todo' = todo \ {f}
          /\ UNCHANGED <<running, thread, op>>
       \/ /\ ~running[f] /\ thread[f] = "none"
          /\ running' = [running EXCEPT ![f] = TRUE]
          /\ thread' = [thread EXCEPT ![f] = "open"]
          /\ todo' = todo \ {f}
          /\ UNCHANGED op
       \/ /\ ~running[f] /\ thread[f] # "none"
          /\ running' = [running EXCEPT ![f] = TRUE]
          /\ op' = "aborted"
          /\ UNCHANGED <<thread, todo>>
    /\ UNCHANGED <<fetchVars, joining, distributors>>

Stopping == op \in {"stop", "replace", "destroy"} /\ joining = NoFetcher

\* stop() of a running fetcher.
StopFetcher(f) ==
    /\ Stopping /\ f \in todo
    /\ running[f]
    /\ running' = [running EXCEPT ![f] = FALSE]
    /\ joining' = f
    /\ UNCHANGED <<thread, fetchVars, op, todo, distributors>>

JoinFetcher ==
    /\ joining # NoFetcher
    /\ thread[joining] = "returned"
    /\ thread' = [thread EXCEPT ![joining] = "none"]
    /\ joining' = NoFetcher
    /\ todo' = todo \ {joining}
    /\ UNCHANGED <<running, fetchVars, op, distributors>>

\* stop() of one that is not running does nothing.  The destructor of the fetcher
\* then destroys the thread object, and the process ends if that is joinable.
SkipFetcher(f) ==
    /\ Stopping /\ f \in todo
    /\ ~running[f]
    /\ IF op # "stop" /\ thread[f] # "none"
       THEN op' = "aborted" /\ UNCHANGED todo
       ELSE op' = op /\ todo' = todo \ {f}
    /\ UNCHANGED <<running, thread, fetchVars, joining, distributors>>

Return ==
    /\ op \in {"start", "stop", "replace"} /\ todo = {}
    /\ op' = "none"
    /\ UNCHANGED <<running, thread, fetchVars, todo, joining, distributors>>

DestroyDistributors_First ==
    /\ op = "destroy" /\ distributors
    /\ distributors' = FALSE
    /\ UNCHANGED <<running, thread, fetchVars, op, todo, joining>>

\* The members go in the reverse order of their declaration: distributors_ last.
DestroyDistributors ==
    /\ op = "destroy" /\ distributors
    /\ todo = {}
    /\ distributors' = FALSE
    /\ UNCHANGED <<running, thread, fetchVars, op, todo, joining>>

-----------------------------------------------------------------------------

Manager ==
    \/ \E f \in Fetchers : StartFetcher(f) \/ StopFetcher(f) \/ SkipFetcher(f)
    \/ JoinFetcher \/ Return \/ DestroyDistributors

\* The thread of f when nothing fails.
Run(f) ==
    \/ Open(f) \/ Loop(f) \/ PollNothing(f) \/ PollFrame(f)
    \/ Allocate(f) \/ Drain(f) \/ DrainRelease(f)
    \/ Get(f) \/ Copy(f) \/ Release(f) \/ Push(f)

Next ==
    \/ \E name \in {"start", "stop", "destroy"} : Call(name, Fetchers)
    \/ \E f \in Fetchers : Call("replace", {f})
    \/ Manager
    \/ \E f \in Fetchers :
         \/ Run(f) \/ OpenFails(f) \/ FetchFails(f) \/ GetFails(f)
         \/ \E size \in Sizes : Encode(f, size)

Spec == Init /\ [][Next]_vars

\* Threads are scheduled; select() tells of a frame that keeps waiting, and the
\* encoder and malloc() do not fail every time they are asked.
Fairness ==
    /\ WF_vars(Manager)
    /\ \A f \in Fetchers :
         /\ WF_vars(Run(f))
         /\ SF_vars(PollFrame(f))
         /\ SF_vars(Allocate(f))
         /\ SF_vars(Get(f) \/ Drain(f))

FairSpec == Spec /\ Fairness

-----------------------------------------------------------------------------
(* Safety *)

\* Every variable has its type.
TypeOK ==
    /\ running \in [Fetchers -> BOOLEAN]
    /\ thread \in [Fetchers -> ThreadState]
    /\ packs \in [Fetchers -> Nat]
    /\ held \in [Fetchers -> Nat]
    /\ refused \in [Fetchers -> Nat]
    /\ channel \in [Fetchers -> Seq(Sizes)]
    /\ op \in {"none", "start", "stop", "replace", "destroy", "aborted"}
    /\ todo \subseteq Fetchers
    /\ joining \in Fetchers \cup {NoFetcher}
    /\ distributors \in BOOLEAN

\* Whichever call fails on the way through fetchFrame() and releaseFrame(), a pack
\* array is allocated only while its frame is in hand, and the encoder's buffer loses
\* nothing but the streams whose release it refused itself; the packs that a StreamFrame
\* copies are the encoder's until they are released.
StreamsBalanced ==
    \A f \in Fetchers :
       /\ packs[f] = IF thread[f] \in {"get", "drain", "drained", "copy", "release"}
                     THEN 1 ELSE 0
       /\ held[f] = refused[f]
                    + IF thread[f] \in {"drained", "copy", "release"} THEN 1 ELSE 0

\* A fetcher that says it runs has a thread that fetches, also after a failed
\* descriptor; one that does not run and is not being joined has none: no frame is
\* pushed once stop() has returned.
RunningMeansFetching ==
    \A f \in Fetchers :
       op # "aborted" /\ joining # f => (running[f] <=> thread[f] \in Alive)

\* No frame is pushed to a distributor that is destroyed.
NoPushToDestroyed ==
    ~distributors => \A f \in Fetchers : thread[f] \notin Alive

\* Nothing but a failed descriptor makes the manager's operations end the process:
\* start() of a running fetcher, stop() of a stopped one and their repetition in
\* any order are harmless.
AbortsOnlyAfterFailedOpen ==
    op = "aborted" => \E f \in todo : thread[f] = "returned"

-----------------------------------------------------------------------------
(* Liveness *)

\* stop_all() and the destructor return or the process ends: select() comes back
\* within a second, and the thread looks at running_ again.
StopReturns ==
    \A f \in Fetchers : joining = f ~> joining # f

\* While a frame waits and the fetcher runs, a frame is taken, whatever its size and
\* however often a call fails.
EncoderServed ==
    \A f \in Fetchers :
       channel[f] # <<>> /\ running[f]
          ~> thread[f] \in {"copy", "drained"} \/ ~running[f] \/ ~Process
=============================================================================
