--------------------------- MODULE ApplicationProofs ---------------------------
(***************************************************************************)
(* Proofs about Application and the VideoPipeline in it.                   *)
(*                                                                         *)
(* The program.  MainInv says for each point of main() which static        *)
(* objects exist and that every thread belongs to one of them.  It is      *)
(* inductive and gives the properties of the files, of the logger and of   *)
(* the exit.                                                               *)
(*                                                                         *)
(* The pipeline.  init() is a straight line of calls, so its proof is a    *)
(* proof outline: what is up is written between every two calls.           *)
(*                                                                         *)
(*   Makes(S, c, T)     the call c, begun with S up, finds what it needs   *)
(*                      and leaves T; if it fails its clean-up fits S      *)
(*   Cleans(S, u)       the clean-up u fits S, refused or not              *)
(*   Outline(S, s, T)   the calls of s, one after the other, make T of S   *)
(*                                                                         *)
(* Outlines are put together by OutlineThen, one lemma for each function   *)
(* of hi_video_pipeline.cpp, up to InitOutline.  PipelineInv says that     *)
(* the calls still to be made are an outline or a clean-up from what is    *)
(* up; it is inductive and gives NeedsMet and PipelineWhole.               *)
(***************************************************************************)
EXTENDS Application, SequenceTheorems, TLAPS

-----------------------------------------------------------------------------
(* The program: invariants *)

\* Where main() is before, in and after stream_test().
Early == {"handlers", "logger", "pipeline", "init", "server"}
Testing == {"warmup", "open", "register", "start_all", "record", "cleanup", "join", "close"}
Leaving == {"pause", "leave"}
Destruction == {"destroy", "reap"}

\* The states of a fetcher without a thread that could still do something.
Quiet == {"none", "idle", "returned"}

\* Every variable of main() and its threads has its type.
MainTypeOK ==
    /\ pc \in Early \cup Testing \cup Leaving \cup Destruction
    /\ n \in 0 .. 6
    /\ server \in {"none", "up", "stopping", "returned"}
    /\ fetcher \in [Streams -> Quiet \cup {"starting", "running", "failed", "leaving", "stopping"}]
    /\ consumers \subseteq Consumers
    /\ calling \subseteq Consumers
    /\ file \in [Streams -> {"none", "open", "closed"}]

\* A loop of main() has a stream to treat, and begins with the first; the destructor
\* of the manager goes on with the distributors.
LoopInRange ==
    /\ pc \notin Destruction => n \in Streams
    /\ pc = "reap" => n \in 3 .. 5
    /\ pc \in Early \cup Leaving \cup {"warmup", "record"} => n = 0

\* The static objects, in the order in which main() makes them, and the lists of those
\* that exist.
Names == {"logger", "pipeline", "scm", "rtsp"}
One == Append(<<>>, "logger")
Two == Append(One, "pipeline")
Three == Append(Two, "scm")
Four == Append(Three, "rtsp")

\* They are made in one order, and only "destroy" takes them down again.
Objects ==
    /\ pc \in {"handlers", "logger"} => statics = <<>>
    /\ pc = "pipeline" => statics = One
    /\ pc = "init" => statics = Two
    /\ pc = "server" => statics = Three
    /\ pc \in Testing \cup Leaving => statics = Four
    /\ pc = "destroy" => statics \in {<<>>, One, Two, Three, Four}
    /\ pc = "reap" => statics = Three

\* No thread runs before the object that it belongs to, nor after it.
ThreadsOwned ==
    /\ statics # Four => server = "none"
    /\ statics \notin {Three, Four} => consumers = {} /\ \A s \in Streams : fetcher[s] \in Quiet
    /\ statics \notin {Two, Three, Four} => P!The("ispThread") \notin up

\* There are fetchers from main() on, and in the destructor those treated so far have
\* been joined.
FetchersGone ==
    /\ pc \notin {"handlers", "logger", "pipeline", "init"} =>
          \A s \in Streams : fetcher[s] # "none"
    /\ pc \in Destruction => \A s \in Streams : s < n => fetcher[s] \in Quiet

\* The distributors treated so far have no consumer.
DistributorsGone ==
    /\ pc \in Destruction => \A c \in consumers : c[2] >= Distributor
    /\ pc = "reap" => \A c \in consumers : c[2] # Distributor

\* A callback runs only for a consumer that was not told to stop, or that is about to be
\* joined.
CallsRegistered ==
    \A c \in calling :
       \/ c \in consumers
       \/ pc = "join" /\ c = <<"file", n>>
       \/ pc = "reap" /\ c[2] = Distributor

\* Up to CallInit nothing of the pipeline is up, and main() goes on when init() has
\* returned.
InitDone ==
    /\ pc \in {"handlers", "logger", "pipeline"} => up = {} /\ outcome = "none"
    /\ pc \notin {"handlers", "logger", "pipeline", "init"} => outcome \in {"ok", "failed"}

\* stream_test() registers a writer when all files are open, and closes a file when
\* its writer is gone.
FilesOpen ==
    /\ pc = "open" => \A s \in Streams : s < n => file[s] = "open"
    /\ pc = "register" => \A s \in Streams : file[s] = "open"
    /\ \A s \in Streams : <<"file", s>> \in consumers \cup calling => file[s] = "open"
    /\ pc \in {"join", "close"} => <<"file", n>> \notin consumers

\* How the program can end.
Endings ==
    /\ process = "aborted" =>
          \/ Destroying("pipeline") /\ P!The("ispThread") \in up
          \/ Destroying("scm") /\ n \in Streams /\ fetcher[n] = "failed"
    /\ process = "exited" =>
          /\ pc = "destroy" /\ P!The("ispThread") \notin up
          /\ \A s \in Streams : fetcher[s] \in {"idle", "returned"}

\* What main(), the fetchers and the workers keep.
MainInv ==
    /\ MainTypeOK
    /\ LoopInRange
    /\ Objects
    /\ ThreadsOwned
    /\ FetchersGone
    /\ DistributorsGone
    /\ CallsRegistered
    /\ InitDone
    /\ FilesOpen
    /\ Endings

\* Front and Last undo Append.
LEMMA FrontOfAppend ==
  ASSUME NEW s \in Seq(Names), NEW e \in Names
  PROVE  Front(Append(s, e)) = s /\ Last(Append(s, e)) = e
<1>1. /\ Append(s, e) \in Seq(Names) /\ Len(Append(s, e)) = Len(s) + 1
      /\ \A i \in 1 .. Len(s) : Append(s, e)[i] = s[i]
      /\ Append(s, e)[Len(s) + 1] = e
  BY AppendProperties
<1>2. Len(s) \in Nat
  BY LenProperties
<1>3. Front(Append(s, e)) = SubSeq(Append(s, e), 1, Len(s))
  BY <1>1, <1>2 DEF Front
<1>4. /\ SubSeq(Append(s, e), 1, Len(s)) \in Seq(Names)
      /\ Len(SubSeq(Append(s, e), 1, Len(s))) = Len(s)
      /\ \A i \in 1 .. Len(s) : SubSeq(Append(s, e), 1, Len(s))[i] = s[i]
  BY <1>1, <1>2
<1>5. SubSeq(Append(s, e), 1, Len(s)) = s
  BY <1>4, SeqEqual
<1> QED
  BY <1>1, <1>3, <1>5 DEF Last

\* The lists of static objects: what destroying the last object leaves, and that no
\* two of them are equal.
LEMMA StaticLists ==
    /\ Front(One) = <<>> /\ Last(One) = "logger"
    /\ Front(Two) = One /\ Last(Two) = "pipeline"
    /\ Front(Three) = Two /\ Last(Three) = "scm"
    /\ Front(Four) = Three /\ Last(Four) = "rtsp"
    /\ One # <<>> /\ Two # <<>> /\ Three # <<>> /\ Four # <<>>
    /\ One # Two /\ One # Three /\ One # Four
    /\ Two # Three /\ Two # Four /\ Three # Four
<1>1. "logger" \in Names /\ "pipeline" \in Names /\ "scm" \in Names /\ "rtsp" \in Names
  BY DEF Names
<1>2. <<>> \in Seq(Names)
  OBVIOUS
<1>3. One \in Seq(Names)
  BY <1>1, <1>2 DEF One
<1>4. Two \in Seq(Names)
  BY <1>1, <1>3 DEF Two
<1>5. Three \in Seq(Names)
  BY <1>1, <1>4 DEF Three
<1>6. Four \in Seq(Names)
  BY <1>1, <1>5 DEF Four
<1>7. Len(One) = 1
  BY DEF One
<1>8. Len(Two) = 2
  <2>1. Len(Two) = Len(One) + 1
    BY <1>3 DEF Two
  <2> QED
    BY <2>1, <1>7
<1>9. Len(Three) = 3
  <2>1. Len(Three) = Len(Two) + 1
    BY <1>4 DEF Three
  <2> QED
    BY <2>1, <1>8
<1>10. Len(Four) = 4
  <2>1. Len(Four) = Len(Three) + 1
    BY <1>5 DEF Four
  <2> QED
    BY <2>1, <1>9
<1>11. One # <<>> /\ Two # <<>> /\ Three # <<>> /\ Four # <<>>
  BY <1>7, <1>8, <1>9, <1>10
<1>12. One # Two /\ One # Three /\ One # Four
  BY <1>7, <1>8, <1>9, <1>10
<1>13. Two # Three /\ Two # Four /\ Three # Four
  BY <1>8, <1>9, <1>10
<1>14. Front(One) = <<>> /\ Last(One) = "logger"
  BY <1>1, <1>2, FrontOfAppend, Zenon DEF One
<1>15. Front(Two) = One /\ Last(Two) = "pipeline"
  BY <1>1, <1>3, FrontOfAppend, Zenon DEF Two
<1>16. Front(Three) = Two /\ Last(Three) = "scm"
  BY <1>1, <1>4, FrontOfAppend, Zenon DEF Three
<1>17. Front(Four) = Three /\ Last(Four) = "rtsp"
  BY <1>1, <1>5, FrontOfAppend, Zenon DEF Four
<1> QED
  BY <1>11, <1>12, <1>13, <1>14, <1>15, <1>16, <1>17, Zenon

\* Whatever was made after it, the logger is still there.
LEMMA LoggerAtBottom ==
    \A s \in {One, Two, Three, Four} : "logger" \in Range(s)
<1>1. One \in Seq(Names) /\ One # <<>> /\ One[1] = "logger"
  BY DEF One, Names
<1>2. ASSUME NEW s \in Seq(Names), NEW e \in Names, s # <<>>, s[1] = "logger"
      PROVE  Append(s, e) \in Seq(Names) /\ Append(s, e) # <<>> /\ Append(s, e)[1] = "logger"
  BY <1>2
<1>3. Two \in Seq(Names) /\ Two # <<>> /\ Two[1] = "logger"
  BY <1>1, <1>2 DEF Two, Names
<1>4. Three \in Seq(Names) /\ Three # <<>> /\ Three[1] = "logger"
  BY <1>2, <1>3 DEF Three, Names
<1>5. Four \in Seq(Names) /\ Four # <<>> /\ Four[1] = "logger"
  BY <1>2, <1>4 DEF Four, Names
<1>6. ASSUME NEW s \in Seq(Names), s # <<>>, s[1] = "logger"
      PROVE  "logger" \in Range(s)
  BY <1>6 DEF Range
<1> QED
  BY <1>1, <1>3, <1>4, <1>5, <1>6

\* main() begins with nothing made.
LEMMA InitMain == Init => MainInv
  BY StaticLists
     DEF Init, P!Init, MainInv, MainTypeOK, LoopInRange, Objects, ThreadsOwned,
     FetchersGone, DistributorsGone, CallsRegistered, InitDone, FilesOpen, Endings,
     Early, Testing, Leaving, Destruction, Quiet, Streams

\* Every step of main(), of a fetcher and of a worker keeps the invariant.
LEMMA NextMain ==
    MainInv /\ [Next]_vars => MainInv'
<1> SUFFICES ASSUME MainInv, [Next]_vars
             PROVE  MainInv'
  OBVIOUS
<1> USE DEF MainInv, MainTypeOK, LoopInRange, Objects, ThreadsOwned, FetchersGone,
     DistributorsGone, Distributor, CallsRegistered, InitDone, FilesOpen, Endings, Early,
     Testing, Leaving, Destruction, Quiet, Streams
<1>0. /\ \A c \in Consumers : c[2] \in 0 .. 2
      /\ \A s \in Streams : <<"file", s>> \in Consumers
      /\ RtspConsumers \subseteq Consumers /\ \A s \in Streams : <<"file", s>> \notin RtspConsumers
  BY DEF Consumers, RtspConsumers
<1>1. CASE process = "running" /\ InstallHandlers
  BY <1>1, StaticLists DEF InstallHandlers, pipeline, threads
<1>2. CASE process = "running" /\ InitLogger
  BY <1>2, StaticLists DEF InitLogger, pipeline, threads, One
<1>3. CASE process = "running" /\ InitPipeline
  BY <1>3, StaticLists DEF InitPipeline, pipeline, threads, Two, P!CallInit
<1>4. CASE process = "running" /\ PipelineStep
  BY <1>4, StaticLists DEF PipelineStep, pipeline, threads
<1>5. CASE process = "running" /\ SetFetchers
  BY <1>5, StaticLists DEF SetFetchers, pipeline, threads, Three
<1>6. CASE process = "running" /\ StartServer
  <2>1. MainTypeOK'
    BY <1>0, <1>6, StaticLists DEF StartServer, pipeline, threads, Four
  <2>2. LoopInRange'
    BY <1>0, <1>6, StaticLists DEF StartServer, pipeline, threads, Four
  <2>3. Objects'
    BY <1>0, <1>6, StaticLists DEF StartServer, pipeline, threads, Four
  <2>4. ThreadsOwned'
    BY <1>0, <1>6, StaticLists DEF StartServer, pipeline, threads, Four
  <2>5. FetchersGone'
    BY <1>0, <1>6, StaticLists DEF StartServer, pipeline, threads, Four
  <2>6. DistributorsGone'
    BY <1>0, <1>6, StaticLists DEF StartServer, pipeline, threads, Four
  <2>7. CallsRegistered'
    BY <1>0, <1>6, StaticLists DEF StartServer, pipeline, threads, Four
  <2>8. InitDone'
    BY <1>0, <1>6, StaticLists DEF StartServer, pipeline, threads, Four
  <2>9. FilesOpen'
    BY <1>0, <1>6, StaticLists DEF StartServer, pipeline, threads, Four
  <2>10. Endings'
    BY <1>0, <1>6, StaticLists DEF StartServer, pipeline, threads, Four
  <2> QED
    BY <2>1, <2>2, <2>3, <2>4, <2>5, <2>6, <2>7, <2>8, <2>9, <2>10
<1>7. CASE process = "running" /\ Warmup
  BY <1>7, StaticLists DEF Warmup, pipeline, threads
<1>8. CASE process = "running" /\ OpenWriter
  BY <1>8, StaticLists DEF OpenWriter, pipeline, threads, Turn
<1>9. CASE process = "running" /\ OpenFails
  BY <1>9, StaticLists DEF OpenFails, pipeline, threads
<1>10. CASE process = "running" /\ RegisterWriter
  <2>1. MainTypeOK'
    BY <1>0, <1>10, StaticLists DEF RegisterWriter, pipeline, threads, Turn
  <2>2. LoopInRange'
    BY <1>0, <1>10, StaticLists DEF RegisterWriter, pipeline, threads, Turn
  <2>3. Objects'
    BY <1>0, <1>10, StaticLists DEF RegisterWriter, pipeline, threads, Turn
  <2>4. ThreadsOwned'
    BY <1>0, <1>10, StaticLists DEF RegisterWriter, pipeline, threads, Turn
  <2>5. FetchersGone'
    BY <1>0, <1>10, StaticLists DEF RegisterWriter, pipeline, threads, Turn
  <2>6. DistributorsGone'
    BY <1>0, <1>10, StaticLists DEF RegisterWriter, pipeline, threads, Turn
  <2>7. CallsRegistered'
    BY <1>0, <1>10, StaticLists DEF RegisterWriter, pipeline, threads, Turn
  <2>8. InitDone'
    BY <1>0, <1>10, StaticLists DEF RegisterWriter, pipeline, threads, Turn
  <2>9. FilesOpen'
    BY <1>0, <1>10, StaticLists DEF RegisterWriter, pipeline, threads, Turn
  <2>10. Endings'
    BY <1>0, <1>10, StaticLists DEF RegisterWriter, pipeline, threads, Turn
  <2> QED
    BY <2>1, <2>2, <2>3, <2>4, <2>5, <2>6, <2>7, <2>8, <2>9, <2>10
<1>11. CASE process = "running" /\ StartAll
  BY <1>11, StaticLists DEF StartAll, pipeline, threads, Turn
<1>12. CASE process = "running" /\ Record
  BY <1>12, StaticLists DEF Record, pipeline, threads
<1>13. CASE process = "running" /\ Unregister
  BY <1>13, StaticLists DEF Unregister, pipeline, threads
<1>14. CASE process = "running" /\ JoinWriter
  <2>1. MainTypeOK'
    BY <1>0, <1>14, StaticLists DEF JoinWriter, pipeline, threads
  <2>2. LoopInRange'
    BY <1>0, <1>14, StaticLists DEF JoinWriter, pipeline, threads
  <2>3. Objects'
    BY <1>0, <1>14, StaticLists DEF JoinWriter, pipeline, threads
  <2>4. ThreadsOwned'
    BY <1>0, <1>14, StaticLists DEF JoinWriter, pipeline, threads
  <2>5. FetchersGone'
    BY <1>0, <1>14, StaticLists DEF JoinWriter, pipeline, threads
  <2>6. DistributorsGone'
    BY <1>0, <1>14, StaticLists DEF JoinWriter, pipeline, threads
  <2>7. CallsRegistered'
    BY <1>0, <1>14, StaticLists DEF JoinWriter, pipeline, threads
  <2>8. InitDone'
    BY <1>0, <1>14, StaticLists DEF JoinWriter, pipeline, threads
  <2>9. FilesOpen'
    BY <1>0, <1>14, StaticLists DEF JoinWriter, pipeline, threads
  <2>10. Endings'
    BY <1>0, <1>14, StaticLists DEF JoinWriter, pipeline, threads
  <2> QED
    BY <2>1, <2>2, <2>3, <2>4, <2>5, <2>6, <2>7, <2>8, <2>9, <2>10
<1>15. CASE process = "running" /\ JoinHangs
  BY <1>15, StaticLists DEF JoinHangs, pipeline, threads
<1>16. CASE process = "running" /\ CloseWriter
  BY <1>16, StaticLists DEF CloseWriter, pipeline, threads
<1>17. CASE process = "running" /\ Leave
  <2>1. MainTypeOK'
    BY <1>0, <1>17, StaticLists DEF Leave, pipeline, threads
  <2>2. LoopInRange'
    BY <1>0, <1>17, StaticLists DEF Leave, pipeline, threads
  <2>3. Objects'
    BY <1>0, <1>17, StaticLists DEF Leave, pipeline, threads
  <2>4. ThreadsOwned'
    BY <1>0, <1>17, StaticLists DEF Leave, pipeline, threads
  <2>5. FetchersGone'
    BY <1>0, <1>17, StaticLists DEF Leave, pipeline, threads
  <2>6. DistributorsGone'
    BY <1>0, <1>17, StaticLists DEF Leave, pipeline, threads
  <2>7. CallsRegistered'
    BY <1>0, <1>17, StaticLists DEF Leave, pipeline, threads
  <2>8. InitDone'
    BY <1>0, <1>17, StaticLists DEF Leave, pipeline, threads
  <2>9. FilesOpen'
    BY <1>0, <1>17, StaticLists DEF Leave, pipeline, threads
  <2>10. Endings'
    BY <1>0, <1>17, StaticLists DEF Leave, pipeline, threads
  <2> QED
    BY <2>1, <2>2, <2>3, <2>4, <2>5, <2>6, <2>7, <2>8, <2>9, <2>10
<1>18. CASE process = "running" /\ StopServer
  BY <1>18, StaticLists DEF StopServer, pipeline, threads, Destroying
<1>19. CASE process = "running" /\ JoinServer
  BY <1>19, StaticLists DEF JoinServer, pipeline, threads, Destroying
<1>20. CASE process = "running" /\ StopFetcher
  BY <1>20, StaticLists DEF StopFetcher, pipeline, threads, Destroying, Told
<1>21. CASE process = "running" /\ JoinFetcher
  <2>1. MainTypeOK'
    BY <1>0, <1>21, StaticLists DEF JoinFetcher, pipeline, threads, Destroying
  <2>2. LoopInRange'
    BY <1>0, <1>21, StaticLists DEF JoinFetcher, pipeline, threads, Destroying
  <2>3. Objects'
    BY <1>0, <1>21, StaticLists DEF JoinFetcher, pipeline, threads, Destroying
  <2>4. ThreadsOwned'
    BY <1>0, <1>21, StaticLists DEF JoinFetcher, pipeline, threads, Destroying
  <2>5. FetchersGone'
    BY <1>0, <1>21, StaticLists DEF JoinFetcher, pipeline, threads, Destroying
  <2>6. DistributorsGone'
    BY <1>0, <1>21, StaticLists DEF JoinFetcher, pipeline, threads, Destroying
  <2>7. CallsRegistered'
    BY <1>0, <1>21, StaticLists DEF JoinFetcher, pipeline, threads, Destroying
  <2>8. InitDone'
    BY <1>0, <1>21, StaticLists DEF JoinFetcher, pipeline, threads, Destroying
  <2>9. FilesOpen'
    BY <1>0, <1>21, StaticLists DEF JoinFetcher, pipeline, threads, Destroying
  <2>10. Endings'
    BY <1>0, <1>21, StaticLists DEF JoinFetcher, pipeline, threads, Destroying
  <2> QED
    BY <2>1, <2>2, <2>3, <2>4, <2>5, <2>6, <2>7, <2>8, <2>9, <2>10
<1>22. CASE process = "running" /\ TerminateFetcher
  BY <1>22, StaticLists DEF TerminateFetcher, pipeline, threads, Destroying
<1>23. CASE process = "running" /\ StopWorkers
  <2>1. MainTypeOK'
    BY <1>0, <1>23, StaticLists DEF StopWorkers, pipeline, threads, Destroying
  <2>2. LoopInRange'
    BY <1>0, <1>23, StaticLists DEF StopWorkers, pipeline, threads, Destroying
  <2>3. Objects'
    BY <1>0, <1>23, StaticLists DEF StopWorkers, pipeline, threads, Destroying
  <2>4. ThreadsOwned'
    BY <1>0, <1>23, StaticLists DEF StopWorkers, pipeline, threads, Destroying
  <2>5. FetchersGone'
    BY <1>0, <1>23, StaticLists DEF StopWorkers, pipeline, threads, Destroying
  <2>6. DistributorsGone'
    BY <1>0, <1>23, StaticLists DEF StopWorkers, pipeline, threads, Destroying
  <2>7. CallsRegistered'
    BY <1>0, <1>23, StaticLists DEF StopWorkers, pipeline, threads, Destroying
  <2>8. InitDone'
    BY <1>0, <1>23, StaticLists DEF StopWorkers, pipeline, threads, Destroying
  <2>9. FilesOpen'
    BY <1>0, <1>23, StaticLists DEF StopWorkers, pipeline, threads, Destroying
  <2>10. Endings'
    BY <1>0, <1>23, StaticLists DEF StopWorkers, pipeline, threads, Destroying
  <2> QED
    BY <2>1, <2>2, <2>3, <2>4, <2>5, <2>6, <2>7, <2>8, <2>9, <2>10
<1>24. CASE process = "running" /\ JoinWorkers
  <2>1. MainTypeOK'
    BY <1>0, <1>24, StaticLists DEF JoinWorkers, pipeline, threads
  <2>2. LoopInRange'
    BY <1>0, <1>24, StaticLists DEF JoinWorkers, pipeline, threads
  <2>3. Objects'
    BY <1>0, <1>24, StaticLists DEF JoinWorkers, pipeline, threads
  <2>4. ThreadsOwned'
    BY <1>0, <1>24, StaticLists DEF JoinWorkers, pipeline, threads
  <2>5. FetchersGone'
    BY <1>0, <1>24, StaticLists DEF JoinWorkers, pipeline, threads
  <2>6. DistributorsGone'
    BY <1>0, <1>24, StaticLists DEF JoinWorkers, pipeline, threads
  <2>7. CallsRegistered'
    BY <1>0, <1>24, StaticLists DEF JoinWorkers, pipeline, threads
  <2>8. InitDone'
    BY <1>0, <1>24, StaticLists DEF JoinWorkers, pipeline, threads
  <2>9. FilesOpen'
    BY <1>0, <1>24, StaticLists DEF JoinWorkers, pipeline, threads
  <2>10. Endings'
    BY <1>0, <1>24, StaticLists DEF JoinWorkers, pipeline, threads
  <2> QED
    BY <2>1, <2>2, <2>3, <2>4, <2>5, <2>6, <2>7, <2>8, <2>9, <2>10
<1>25. CASE process = "running" /\ DestroyManager
  <2>1. MainTypeOK'
    BY <1>0, <1>25, StaticLists DEF DestroyManager, pipeline, threads, Destroying
  <2>2. LoopInRange'
    BY <1>0, <1>25, StaticLists DEF DestroyManager, pipeline, threads, Destroying
  <2>3. Objects'
    BY <1>0, <1>25, StaticLists DEF DestroyManager, pipeline, threads, Destroying
  <2>4. ThreadsOwned'
    BY <1>0, <1>25, StaticLists DEF DestroyManager, pipeline, threads, Destroying
  <2>5. FetchersGone'
    BY <1>0, <1>25, StaticLists DEF DestroyManager, pipeline, threads, Destroying
  <2>6. DistributorsGone'
    BY <1>0, <1>25, StaticLists DEF DestroyManager, pipeline, threads, Destroying
  <2>7. CallsRegistered'
    BY <1>0, <1>25, StaticLists DEF DestroyManager, pipeline, threads, Destroying
  <2>8. InitDone'
    BY <1>0, <1>25, StaticLists DEF DestroyManager, pipeline, threads, Destroying
  <2>9. FilesOpen'
    BY <1>0, <1>25, StaticLists DEF DestroyManager, pipeline, threads, Destroying
  <2>10. Endings'
    BY <1>0, <1>25, StaticLists DEF DestroyManager, pipeline, threads, Destroying
  <2> QED
    BY <2>1, <2>2, <2>3, <2>4, <2>5, <2>6, <2>7, <2>8, <2>9, <2>10
<1>26. CASE process = "running" /\ DestroyPipeline
  BY <1>26, StaticLists DEF DestroyPipeline, pipeline, threads, Destroying
<1>27. CASE process = "running" /\ DestroyLogger
  BY <1>27, StaticLists DEF DestroyLogger, pipeline, threads, Destroying
<1>28. CASE process = "running" /\ EarlySignal
  BY <1>28, StaticLists DEF EarlySignal, pipeline, threads
<1>29. CASE process = "running" /\ Signal
  BY <1>29, StaticLists DEF Signal, pipeline, threads
<1>30. CASE process = "running" /\ LoopReturns
  BY <1>30, StaticLists DEF LoopReturns, pipeline, threads
<1>31. ASSUME NEW s \in Streams, process = "running", FetcherOpens(s) PROVE MainInv'
  BY <1>31 DEF FetcherOpens, pipeline
<1>32. ASSUME NEW s \in Streams, process = "running", FetcherFails(s) PROVE MainInv'
  BY <1>32 DEF FetcherFails, pipeline
<1>33. ASSUME NEW s \in Streams, process = "running", FetcherReturns(s) PROVE MainInv'
  BY <1>33 DEF FetcherReturns, pipeline
<1>34. ASSUME NEW c \in Consumers, process = "running", CallBegin(c) PROVE MainInv'
  BY <1>34 DEF CallBegin, pipeline
<1>35. ASSUME NEW c \in Consumers, process = "running", CallEnd(c) PROVE MainInv'
  BY <1>35 DEF CallEnd, pipeline
<1>36. ASSUME NEW c \in Consumers, process = "running", Crash(c) PROVE MainInv'
  BY <1>36 DEF Crash, pipeline, threads
<1>37. CASE UNCHANGED vars
  <2>1. MainTypeOK'
    BY <1>37 DEF vars, pipeline, threads, Destroying
  <2>2. LoopInRange'
    BY <1>37 DEF vars, pipeline, threads, Destroying
  <2>3. Objects'
    BY <1>37 DEF vars, pipeline, threads, Destroying
  <2>4. ThreadsOwned'
    BY <1>37 DEF vars, pipeline, threads, Destroying
  <2>5. FetchersGone'
    BY <1>37 DEF vars, pipeline, threads, Destroying
  <2>6. DistributorsGone'
    BY <1>37 DEF vars, pipeline, threads, Destroying
  <2>7. CallsRegistered'
    BY <1>37 DEF vars, pipeline, threads, Destroying
  <2>8. InitDone'
    BY <1>37 DEF vars, pipeline, threads, Destroying
  <2>9. FilesOpen'
    BY <1>37 DEF vars, pipeline, threads, Destroying
  <2>10. Endings'
    BY <1>37 DEF vars, pipeline, threads, Destroying
  <2> QED
    BY <2>1, <2>2, <2>3, <2>4, <2>5, <2>6, <2>7, <2>8, <2>9, <2>10
<1> QED
  BY <1>1, <1>2, <1>3, <1>4, <1>5, <1>6, <1>7, <1>8, <1>9, <1>10, <1>11, <1>12, <1>13,
     <1>14, <1>15, <1>16, <1>17, <1>18, <1>19, <1>20, <1>21, <1>22, <1>23, <1>24, <1>25,
     <1>26, <1>27, <1>28, <1>29, <1>30, <1>31, <1>32, <1>33, <1>34, <1>35, <1>36, <1>37
     DEF Next, MainStep, Loop, Fetch, FetchEnds, CallEnds

\* MainInv holds throughout.
LEMMA MainInvariant == Spec => []MainInv
  BY InitMain, NextMain, PTL DEF Spec

\* stream_test() closes a file only when no frame_writer_cb() runs on it: the files of
\* consumers that may be called are open, and a callback begun before its consumer was
\* told to stop is waited for.
THEOREM FilesOutliveCallbacks == Spec => []NoWriteToClosedFile
<1>1. MainInv => NoWriteToClosedFile
  BY DEF MainInv, FilesOpen, NoWriteToClosedFile
<1> QED
  BY <1>1, MainInvariant, PTL

\* The logger is constructed before and destroyed after everything that has a thread.
THEOREM LoggerIsLast == Spec => []LoggerOutlivesThreads
<1>1. MainInv => LoggerOutlivesThreads
  <2> SUFFICES ASSUME MainInv, "logger" \notin Range(statics)
               PROVE  /\ server = "none" /\ consumers = {} /\ calling = {}
                      /\ P!The("ispThread") \notin up
                      /\ \A s \in Streams : fetcher[s] \in {"none", "idle", "failed", "returned"}
    BY DEF LoggerOutlivesThreads
  <2>1. statics \in {<<>>, One, Two, Three, Four}
    BY DEF MainInv, MainTypeOK, Objects, Early, Testing, Leaving, Destruction
  <2>2. statics = <<>>
    BY <2>1, LoggerAtBottom
  <2>3. pc \notin {"join", "reap"}
    BY <2>2, StaticLists DEF MainInv, Objects, Testing
  <2> QED
    BY <2>2, <2>3, StaticLists DEF MainInv, ThreadsOwned, CallsRegistered, Quiet
<1> QED
  BY <1>1, MainInvariant, PTL

-----------------------------------------------------------------------------
(* The pipeline: outlines of call lists *)

\* The names of the calls.
SysNames == {"sys_exit", "vb_exit", "vb_set_cfg", "vb_init", "sys_set_cfg", "sys_init"}

ModeNames == {"get_vi_vpss_mode", "set_vi_vpss_mode", "get_ctrl_param", "set_ctrl_param"}

MipiNames ==
    {"open", "close", "SET_HS_MODE", "ENABLE_MIPI_CLOCK", "RESET_MIPI", "ENABLE_SENSOR_CLOCK",
     "RESET_SENSOR", "SET_DEV_ATTR", "SET_EXT_DATA_TYPE", "UNRESET_MIPI", "UNRESET_SENSOR"}

ViNames ==
    {"set_dev_attr", "enable_dev", "vi_bind", "create_pipe", "start_pipe", "set_chn_attr",
     "enable_chn", "set_pipe_3dnr_attr", "destroy_pipe"}

IspNames ==
    {"isp_exit", "sensor", "ae_register", "awb_register", "isp_mem_init", "isp_set_pub_attr",
     "isp_init", "ispThread"}

VpssNames ==
    {"create_grp", "vpss_set_chn_attr", "vpss_enable_chn", "start_grp", "bind_vi_vpss",
     "vpss_disable_chn", "stop_grp", "destroy_grp"}

VencNames ==
    {"get_mod_param", "set_mod_param", "create_chn", "get_chn_attr", "get_rc_param",
     "set_rc_param", "start_chn", "bind_vpss_venc", "destroy_chn"}

CallNames ==
    SysNames \cup ModeNames \cup MipiNames \cup ViNames \cup IspNames \cup VpssNames
       \cup VencNames

\* Calls of a clean-up, which have none of their own, and calls.
Plain ==
    [name : CallNames, needs : SUBSET P!Resources, gives : SUBSET P!Resources,
     takes : SUBSET P!Resources, undo : {<<>>}]

Calls ==
    [name : CallNames, needs : SUBSET P!Resources, gives : SUBSET P!Resources,
     takes : SUBSET P!Resources, undo : Seq(Plain)]

\* No binding hangs when S is up.
Bound(S) ==
    /\ P!ViWhole(S)
    /\ P!The("vpss_bound") \in S => {P!The("vi_chn"), P!The("group_started")} \subseteq S
    /\ \A v \in P!VencChns : <<"venc_bound", v>> \in S =>
          {P!The("vpss_bound"), <<"encoding", v>>} \subseteq S

\* init() may return with S up, when the SDK has refused the calls R of a clean-up.
Settled(S, R) ==
    /\ P!The("fd") \notin S
    /\ \A v \in P!VencChns :
          <<"venc", v>> \in S /\ P!DestroyVenc(v) \notin R =>
             /\ <<"encoding", v>> \in S
             /\ \/ <<"venc_bound", v>> \in S
                \/ \A w \in P!VencChns : w > v => <<"venc", w>> \notin S
    /\ Bound(S)

\* The clean-up u, begun with S up, finds all it needs and leaves a settled pipeline,
\* also when one of its calls is refused.
Cleans(S, u) ==
    \E G \in [1 .. Len(u) + 1 -> SUBSET P!Resources] :
       /\ G[1] = S
       /\ \A i \in 1 .. Len(u) :
             /\ u[i].needs \subseteq G[i]
             /\ Bound(G[i])
             /\ u[i].name # "close" => Settled(G[i], {u[i]})
             /\ G[i + 1] = (G[i] \ u[i].takes) \cup u[i].gives
       /\ Settled(G[Len(u) + 1], {})

\* The call c may be made with S up, and may fail; it makes T of S.
Makes(S, c, T) ==
    /\ c.needs \subseteq S
    /\ Bound(S)
    /\ c.name \notin {"close", "ispThread"} => Cleans(S, c.undo)
    /\ T = (S \ c.takes) \cup c.gives

\* The calls of s, one after the other, make T of S.
Outline(S, s, T) ==
    /\ s \in Seq(Calls)
    /\ \E G \in [1 .. Len(s) + 1 -> SUBSET P!Resources] :
          /\ G[1] = S
          /\ \A i \in 1 .. Len(s) : Makes(G[i], s[i], G[i + 1])
          /\ G[Len(s) + 1] = T

\* What is up, the calls that init() has still to make, and its outcome fit together.
PipelineInv ==
    /\ up \subseteq P!Resources
    /\ todo \in Seq(Calls)
    /\ outcome \in {"none", "running", "failing", "ok", "failed"}
    /\ outcome = "none" => up = {} /\ todo = <<>> /\ refused = {}
    /\ outcome = "running" =>
          /\ refused = {} /\ Outline(up, todo, P!WholePipeline)
          /\ Settled(P!WholePipeline, {})
    /\ outcome = "failing" =>
          \/ refused = {} /\ Cleans(up, todo)
          \/ todo = <<>> /\ Settled(up, refused)
    /\ outcome \in {"ok", "failed"} => todo = <<>> /\ Settled(up, refused)
    /\ outcome = "ok" => up = P!WholePipeline

\* A clean-up is a list of calls.
LEMMA CleanUpsAreCalls == Seq(Plain) \subseteq Seq(Calls)
<1>1. <<>> \in Seq(Plain)
  OBVIOUS
<1>2. ASSUME NEW Q, <<>> \in Q
      PROVE  Plain \subseteq
                [name : CallNames, needs : SUBSET P!Resources, gives : SUBSET P!Resources,
                 takes : SUBSET P!Resources, undo : Q]
  BY <1>2 DEF Plain
<1>3. Plain \subseteq Calls
  BY <1>1, <1>2 DEF Calls
<1> QED
  BY <1>3, SeqMonotonic

\* The first call of an outline, and what is left of it when that call was made.
LEMMA OutlineFirst ==
  ASSUME NEW S, NEW s, NEW T, Outline(S, s, T), s # <<>>
  PROVE  /\ Head(s) \in Calls /\ Tail(s) \in Seq(Calls)
         /\ Makes(S, Head(s), (S \ Head(s).takes) \cup Head(s).gives)
         /\ Outline((S \ Head(s).takes) \cup Head(s).gives, Tail(s), T)
<1>1. s \in Seq(Calls)
  BY DEF Outline
<1>2. PICK G \in [1 .. Len(s) + 1 -> SUBSET P!Resources] :
         /\ G[1] = S
         /\ \A i \in 1 .. Len(s) : Makes(G[i], s[i], G[i + 1])
         /\ G[Len(s) + 1] = T
  BY DEF Outline
<1>3. /\ Len(s) \in Nat /\ Len(s) >= 1 /\ Head(s) = s[1] /\ s[1] \in Calls
      /\ Tail(s) \in Seq(Calls) /\ Len(Tail(s)) = Len(s) - 1
      /\ \A i \in 1 .. Len(Tail(s)) : Tail(s)[i] = s[i + 1]
  BY <1>1
<1>4. Makes(S, s[1], G[2])
  BY <1>2, <1>3
<1>5. G[2] = (S \ s[1].takes) \cup s[1].gives
  BY <1>4 DEF Makes
<1> DEFINE H == [i \in 1 .. Len(s) |-> G[i + 1]]
<1>6. H \in [1 .. Len(Tail(s)) + 1 -> SUBSET P!Resources]
  BY <1>2, <1>3
<1>7. H[1] = G[2] /\ H[Len(Tail(s)) + 1] = T
  BY <1>2, <1>3
<1>8. ASSUME NEW i \in 1 .. Len(Tail(s))
      PROVE  Makes(H[i], Tail(s)[i], H[i + 1])
  <2>1. i + 1 \in 1 .. Len(s) /\ H[i] = G[i + 1] /\ H[i + 1] = G[(i + 1) + 1]
    BY <1>3
  <2> QED
    BY <2>1, <1>2, <1>3
<1> HIDE DEF H
<1>9. Outline(G[2], Tail(s), T)
  BY <1>3, <1>6, <1>7, <1>8 DEF Outline
<1> QED
  BY <1>3, <1>4, <1>5, <1>9

\* The same of a clean-up.
LEMMA CleanUpFirst ==
  ASSUME NEW S, NEW u \in Seq(Calls), Cleans(S, u), u # <<>>
  PROVE  /\ Head(u) \in Calls /\ Tail(u) \in Seq(Calls)
         /\ Head(u).needs \subseteq S /\ Bound(S)
         /\ Head(u).name # "close" => Settled(S, {Head(u)})
         /\ Cleans((S \ Head(u).takes) \cup Head(u).gives, Tail(u))
<1>2. PICK G \in [1 .. Len(u) + 1 -> SUBSET P!Resources] :
         /\ G[1] = S
         /\ \A i \in 1 .. Len(u) :
               /\ u[i].needs \subseteq G[i]
               /\ Bound(G[i])
               /\ u[i].name # "close" => Settled(G[i], {u[i]})
               /\ G[i + 1] = (G[i] \ u[i].takes) \cup u[i].gives
         /\ Settled(G[Len(u) + 1], {})
  BY DEF Cleans
<1>3. /\ Len(u) \in Nat /\ Len(u) >= 1 /\ Head(u) = u[1] /\ u[1] \in Calls
      /\ Tail(u) \in Seq(Calls) /\ Len(Tail(u)) = Len(u) - 1
      /\ \A i \in 1 .. Len(Tail(u)) : Tail(u)[i] = u[i + 1]
  OBVIOUS
<1>4. /\ u[1].needs \subseteq S /\ Bound(S)
      /\ u[1].name # "close" => Settled(S, {u[1]})
      /\ G[2] = (S \ u[1].takes) \cup u[1].gives
  <2>1. 1 \in 1 .. Len(u) /\ 1 + 1 = 2
    BY <1>3
  <2> QED
    BY <2>1, <1>2, Zenon
<1> DEFINE H == [i \in 1 .. Len(u) |-> G[i + 1]]
<1>5. H \in [1 .. Len(Tail(u)) + 1 -> SUBSET P!Resources]
  BY <1>2, <1>3
<1>6. H[1] = G[2] /\ H[Len(Tail(u)) + 1] = G[Len(u) + 1]
  BY <1>2, <1>3
<1>7. ASSUME NEW i \in 1 .. Len(Tail(u))
      PROVE  /\ Tail(u)[i].needs \subseteq H[i]
             /\ Bound(H[i])
             /\ Tail(u)[i].name # "close" => Settled(H[i], {Tail(u)[i]})
             /\ H[i + 1] = (H[i] \ Tail(u)[i].takes) \cup Tail(u)[i].gives
  <2>1. i + 1 \in 1 .. Len(u) /\ H[i] = G[i + 1] /\ H[i + 1] = G[(i + 1) + 1]
    BY <1>3
  <2> QED
    BY <2>1, <1>2, <1>3
<1> HIDE DEF H
<1>8. Cleans(G[2], Tail(u))
  BY <1>2, <1>5, <1>6, <1>7 DEF Cleans
<1> QED
  BY <1>3, <1>4, <1>8

\* One outline after the other is an outline.
LEMMA OutlineThen ==
  ASSUME NEW S, NEW s, NEW T, NEW t, NEW U, Outline(S, s, T), Outline(T, t, U)
  PROVE  Outline(S, s \o t, U)
<1>1. s \in Seq(Calls) /\ t \in Seq(Calls)
  BY DEF Outline
<1>2. PICK G \in [1 .. Len(s) + 1 -> SUBSET P!Resources] :
         /\ G[1] = S
         /\ \A i \in 1 .. Len(s) : Makes(G[i], s[i], G[i + 1])
         /\ G[Len(s) + 1] = T
  BY DEF Outline
<1>3. PICK H \in [1 .. Len(t) + 1 -> SUBSET P!Resources] :
         /\ H[1] = T
         /\ \A i \in 1 .. Len(t) : Makes(H[i], t[i], H[i + 1])
         /\ H[Len(t) + 1] = U
  BY DEF Outline
<1>4. /\ Len(s) \in Nat /\ Len(t) \in Nat
      /\ s \o t \in Seq(Calls) /\ Len(s \o t) = Len(s) + Len(t)
      /\ \A i \in 1 .. Len(s) + Len(t) :
            (s \o t)[i] = IF i <= Len(s) THEN s[i] ELSE t[i - Len(s)]
  BY <1>1, ConcatProperties
<1> DEFINE J == [i \in 1 .. Len(s \o t) + 1 |-> IF i <= Len(s) THEN G[i] ELSE H[i - Len(s)]]
<1>5. J \in [1 .. Len(s \o t) + 1 -> SUBSET P!Resources]
  <2> SUFFICES ASSUME NEW i \in 1 .. Len(s \o t) + 1
               PROVE  (IF i <= Len(s) THEN G[i] ELSE H[i - Len(s)]) \in SUBSET P!Resources
    OBVIOUS
  <2>1. CASE i <= Len(s)
    BY <2>1, <1>2, <1>4
  <2>2. CASE i > Len(s)
    <3>1. i - Len(s) \in 1 .. Len(t) + 1
      BY <2>2, <1>4
    <3>2. ~ (i <= Len(s))
      BY <2>2, <1>4
    <3>3. H[i - Len(s)] \in SUBSET P!Resources
      BY <3>1, <1>3
    <3> QED
      BY <3>2, <3>3, Zenon
  <2> QED
    BY <2>1, <2>2, <1>4
<1>6. J[1] = S
  BY <1>2, <1>3, <1>4
<1>7. J[Len(s \o t) + 1] = U
  <2>1. Len(s \o t) + 1 - Len(s) = Len(t) + 1 /\ ~ (Len(s \o t) + 1 <= Len(s))
    BY <1>4
  <2> QED
    BY <2>1, <1>3, <1>4
<1>8. ASSUME NEW i \in 1 .. Len(s \o t)
      PROVE  Makes(J[i], (s \o t)[i], J[i + 1])
  <2>1. CASE i <= Len(s)
    <3>1. i \in 1 .. Len(s) /\ J[i] = G[i] /\ (s \o t)[i] = s[i]
      BY <2>1, <1>4
    <3>2. J[i + 1] = G[i + 1]
      <4>1. CASE i + 1 <= Len(s)
        BY <4>1, <1>4
      <4>2. CASE i = Len(s)
        BY <4>2, <1>2, <1>3, <1>4
      <4> QED
        BY <4>1, <4>2, <2>1, <1>4
    <3> QED
      BY <3>1, <3>2, <1>2
  <2>2. CASE i > Len(s)
    <3>1. /\ i - Len(s) \in 1 .. Len(t) /\ (i + 1) - Len(s) = (i - Len(s)) + 1
          /\ ~ (i <= Len(s)) /\ ~ (i + 1 <= Len(s))
          /\ i + 1 \in 1 .. Len(s \o t) + 1
      BY <2>2, <1>4
    <3>2. /\ J[i] = H[i - Len(s)] /\ J[i + 1] = H[(i - Len(s)) + 1]
          /\ (s \o t)[i] = t[i - Len(s)]
      BY <3>1, <1>4
    <3> QED
      BY <3>1, <3>2, <1>3
  <2> QED
    BY <2>1, <2>2, <1>4
<1> HIDE DEF J
<1> QED
  BY <1>4, <1>5, <1>6, <1>7, <1>8 DEF Outline

\* A single call.
LEMMA OutlineOne ==
  ASSUME NEW S \in SUBSET P!Resources, NEW c \in Calls, NEW T \in SUBSET P!Resources,
         Makes(S, c, T)
  PROVE  Outline(S, <<c>>, T)
<1> DEFINE G == [i \in 1 .. 2 |-> IF i = 1 THEN S ELSE T]
<1>1. <<c>> \in Seq(Calls) /\ Len(<<c>>) = 1 /\ <<c>>[1] = c
  OBVIOUS
<1>2. G \in [1 .. Len(<<c>>) + 1 -> SUBSET P!Resources] /\ G[1] = S /\ G[2] = T
  BY <1>1
<1>3. \A i \in 1 .. Len(<<c>>) : Makes(G[i], <<c>>[i], G[i + 1])
  BY <1>1, <1>2
<1> HIDE DEF G
<1> QED
  BY <1>1, <1>2, <1>3 DEF Outline

-----------------------------------------------------------------------------
(* The outline of init() *)

\* What Settled speaks of, apart from encoding, and the rest.
Critical ==
    {P!The("fd"), P!The("vi_bound"), P!The("pipe"), P!The("vi_chn"), P!The("vpss_bound")}
       \cup {"venc", "venc_bound"} \X P!VencChns

Harmless == P!Resources \ Critical

\* Which parts are harmless.
LEMMA HarmlessParts ==
    /\ \A k \in P!Single \ {"fd", "vi_bound", "pipe", "vi_chn", "vpss_bound"} :
          P!The(k) \in Harmless
    /\ \A c \in P!VpssChns : <<"vpss_chn", c>> \in Harmless
    /\ \A v \in P!VencChns : <<"encoding", v>> \in Harmless
<1>1. ASSUME NEW k \in P!Single \ {"fd", "vi_bound", "pipe", "vi_chn", "vpss_bound"}
      PROVE  P!The(k) \in Harmless
  <2>1. P!The(k) \in P!Resources
    BY DEF P!Resources
  <2>2. k \notin {"fd", "vi_bound", "pipe", "vi_chn", "vpss_bound", "venc", "venc_bound"}
    BY DEF P!Single
  <2>3. P!The(k) \notin Critical
    BY <2>2 DEF Critical, P!The
  <2> QED
    BY <2>1, <2>3 DEF Harmless
<1>2. ASSUME NEW c \in P!VpssChns PROVE <<"vpss_chn", c>> \in Harmless
  BY DEF Harmless, Critical, P!Resources, P!The
<1>3. ASSUME NEW v \in P!VencChns PROVE <<"encoding", v>> \in Harmless
  BY DEF Harmless, Critical, P!Resources, P!The
<1> QED
  BY <1>1, <1>2, <1>3

\* The same, one by one.
LEMMA NamedParts ==
    /\ P!The("vb") \in Harmless /\ P!The("sys") \in Harmless /\ P!The("mode") \in Harmless
    /\ P!The("mipi") \in Harmless /\ P!The("dev") \in Harmless
    /\ P!The("pipe_started") \in Harmless
    /\ P!The("ae") \in Harmless /\ P!The("awb") \in Harmless
    /\ P!The("isp_mem") \in Harmless /\ P!The("isp") \in Harmless
    /\ P!The("ispThread") \in Harmless /\ P!The("group") \in Harmless
    /\ P!The("group_started") \in Harmless
    /\ P!The("fd") \in P!Resources /\ P!The("vi_bound") \in P!Resources
    /\ P!The("pipe") \in P!Resources /\ P!The("vi_chn") \in P!Resources
    /\ P!The("vpss_bound") \in P!Resources
<1>1. /\ P!The("fd") \in P!Resources /\ P!The("vi_bound") \in P!Resources
      /\ P!The("pipe") \in P!Resources /\ P!The("vi_chn") \in P!Resources
      /\ P!The("vpss_bound") \in P!Resources
  BY DEF P!Resources, P!Single
<1> QED
  BY <1>1, HarmlessParts DEF P!Single

\* The parts of VI that stand on each other.
ViChain ==
    {P!The("dev"), P!The("vi_bound"), P!The("pipe"), P!The("pipe_started"), P!The("vi_chn")}

\* VI is whole as long as its own parts stay as they are.
LEMMA ViWholeKept ==
  ASSUME NEW S, NEW T, P!ViWhole(S), \A x \in ViChain : x \in S <=> x \in T
  PROVE  P!ViWhole(T)
  BY DEF P!ViWhole, ViChain

\* A settled pipeline stays so when harmless parts come up.
LEMMA SettledGrows ==
  ASSUME NEW S \in SUBSET P!Resources, NEW X \in SUBSET Harmless, Settled(S, {})
  PROVE  S \cup X \in SUBSET P!Resources /\ Settled(S \cup X, {})
<1>1. /\ P!The("fd") \notin X /\ P!The("vpss_bound") \notin X
      /\ P!The("vi_bound") \notin X /\ P!The("pipe") \notin X /\ P!The("vi_chn") \notin X
      /\ \A v \in P!VencChns : <<"venc", v>> \notin X /\ <<"venc_bound", v>> \notin X
  BY DEF Harmless, Critical
<1>2. P!ViWhole(S \cup X)
  BY <1>1 DEF Settled, Bound, P!ViWhole
<1>3. Bound(S \cup X)
  BY <1>1, <1>2 DEF Settled, Bound
<1> QED
  BY <1>1, <1>3 DEF Settled, Harmless

\* A settled pipeline stays so when one more part of VI comes up on the others.
LEMMA SettledGrowsVi ==
  ASSUME NEW S \in SUBSET P!Resources, Settled(S, {}),
         NEW x \in {P!The("vi_bound"), P!The("pipe"), P!The("vi_chn")},
         P!ViWhole(S \cup {x})
  PROVE  S \cup {x} \in SUBSET P!Resources /\ Settled(S \cup {x}, {})
<1>1. /\ P!The("fd") # x /\ P!The("vpss_bound") # x
      /\ \A v \in P!VencChns : <<"venc", v>> # x /\ <<"venc_bound", v>> # x
  BY DEF P!The
<1>2. x \in P!Resources
  BY NamedParts
<1>3. Bound(S \cup {x})
  BY <1>1 DEF Settled, Bound
<1> QED
  BY <1>1, <1>2, <1>3 DEF Settled

\* What the SDK refuses does not unsettle a pipeline.
LEMMA SettledRefused ==
  ASSUME NEW S, NEW R, Settled(S, {})
  PROVE  Settled(S, R) /\ Bound(S)
  BY DEF Settled

\* The empty clean-up.
LEMMA NothingToClean ==
  ASSUME NEW S \in SUBSET P!Resources, Settled(S, {})
  PROVE  Cleans(S, <<>>)
<1> DEFINE G == [i \in 1 .. 1 |-> S]
<1>1. Len(<<>>) = 0 /\ G \in [1 .. 1 -> SUBSET P!Resources] /\ G[1] = S
  OBVIOUS
<1> HIDE DEF G
<1> QED
  BY <1>1 DEF Cleans

\* A clean-up of one call.
LEMMA OneToClean ==
  ASSUME NEW S \in SUBSET P!Resources, NEW c \in Plain, c.gives = {}, c.needs \subseteq S,
         Bound(S), c.name # "close" => Settled(S, {c}), Settled(S \ c.takes, {})
  PROVE  <<c>> \in Seq(Plain) /\ Cleans(S, <<c>>)
<1> DEFINE G == [i \in 1 .. 2 |-> IF i = 1 THEN S ELSE S \ c.takes]
<1>1. <<c>> \in Seq(Plain) /\ Len(<<c>>) = 1 /\ <<c>>[1] = c
  OBVIOUS
<1>2. /\ G \in [1 .. Len(<<c>>) + 1 -> SUBSET P!Resources] /\ G[1] = S
      /\ G[2] = S \ c.takes
  BY <1>1
<1>3. G[2] = (G[1] \ c.takes) \cup c.gives
  BY <1>2
<1> HIDE DEF G
<1> QED
  BY <1>1, <1>2, <1>3 DEF Cleans

\* A call with a clean-up that fits.
LEMMA CallMakes ==
  ASSUME NEW S, Bound(S), S \subseteq P!Resources,
         NEW c \in CallNames, NEW needs, needs \subseteq S,
         NEW gives, gives \subseteq P!Resources, NEW takes, takes \subseteq P!Resources,
         NEW undo \in Seq(Plain), c \notin {"close", "ispThread"} => Cleans(S, undo),
         NEW T, T = (S \ takes) \cup gives
  PROVE  /\ P!Call(c, needs, gives, takes, undo) \in Calls
         /\ Makes(S, P!Call(c, needs, gives, takes, undo), T)
<1> DEFINE d == P!Call(c, needs, gives, takes, undo)
<1>1. d \in Calls
  BY DEF P!Call, Calls
<1>2. d.name = c /\ d.needs = needs /\ d.gives = gives /\ d.takes = takes /\ d.undo = undo
  BY DEF P!Call
<1> HIDE DEF d
<1>3. Makes(S, d, T)
  BY <1>2 DEF Makes
<1> QED
  BY <1>1, <1>3 DEF d

\* init() may return with S up.
Steady(S) == S \subseteq P!Resources /\ Settled(S, {})

\* A call without a clean-up.  What it takes down is not up.
LEMMA PlainMakes ==
  ASSUME NEW S, Steady(S), NEW c \in CallNames, NEW needs, needs \subseteq S,
         NEW gives, gives \subseteq Harmless, NEW takes, takes \subseteq P!Resources,
         takes \cap S = {}, NEW T, T = S \cup gives
  PROVE  /\ P!Call(c, needs, gives, takes, <<>>) \in Calls
         /\ Makes(S, P!Call(c, needs, gives, takes, <<>>), T) /\ Steady(T)
<1>1. Steady(T)
  BY SettledGrows DEF Steady
<1>2. Cleans(S, <<>>) /\ <<>> \in Seq(Plain) /\ Bound(S)
  BY NothingToClean, SettledRefused DEF Steady
<1>3. gives \subseteq P!Resources /\ S \subseteq P!Resources /\ T = (S \ takes) \cup gives
  BY DEF Harmless, Steady
<1>4. /\ P!Call(c, needs, gives, takes, <<>>) \in Calls
      /\ Makes(S, P!Call(c, needs, gives, takes, <<>>), T)
  BY <1>2, <1>3, CallMakes
<1> QED
  BY <1>1, <1>4

\* A call that brings up x.
LEMMA GiveMakes ==
  ASSUME NEW S, Steady(S), NEW c \in CallNames, NEW needs, needs \subseteq S,
         NEW x \in Harmless
  PROVE  /\ P!Call(c, needs, {x}, {}, <<>>) \in Calls
         /\ Makes(S, P!Call(c, needs, {x}, {}, <<>>), S \cup {x}) /\ Steady(S \cup {x})
<1>1. {x} \subseteq Harmless /\ {} \subseteq P!Resources /\ {} \cap S = {}
  OBVIOUS
<1> QED
  BY <1>1, PlainMakes, Zenon

\* A call that brings up the next part of VI.
LEMMA GiveViMakes ==
  ASSUME NEW S, Steady(S), NEW c \in CallNames, NEW needs, needs \subseteq S,
         NEW x \in {P!The("vi_bound"), P!The("pipe"), P!The("vi_chn")},
         P!ViWhole(S \cup {x})
  PROVE  /\ P!Call(c, needs, {x}, {}, <<>>) \in Calls
         /\ Makes(S, P!Call(c, needs, {x}, {}, <<>>), S \cup {x}) /\ Steady(S \cup {x})
<1>1. Steady(S \cup {x})
  BY SettledGrowsVi DEF Steady
<1>2. Cleans(S, <<>>) /\ <<>> \in Seq(Plain) /\ Bound(S)
  BY NothingToClean, SettledRefused DEF Steady
<1>3. /\ {x} \subseteq P!Resources /\ {} \subseteq P!Resources /\ S \subseteq P!Resources
      /\ S \cup {x} = (S \ {}) \cup {x}
  BY <1>1 DEF Steady
<1>4. /\ P!Call(c, needs, {x}, {}, <<>>) \in Calls
      /\ Makes(S, P!Call(c, needs, {x}, {}, <<>>), S \cup {x})
  BY <1>2, <1>3, CallMakes
<1> QED
  BY <1>1, <1>4

\* A call that sets or gets attributes.
LEMMA AskMakes ==
  ASSUME NEW S, Steady(S), NEW c \in CallNames, NEW needs, needs \subseteq S
  PROVE  P!Ask(c, needs, <<>>) \in Calls /\ Makes(S, P!Ask(c, needs, <<>>), S)
<1>1. {} \subseteq Harmless /\ {} \subseteq P!Resources /\ {} \cap S = {} /\ S = S \cup {}
  OBVIOUS
<1>2. /\ P!Call(c, needs, {}, {}, <<>>) \in Calls
      /\ Makes(S, P!Call(c, needs, {}, {}, <<>>), S)
  BY <1>1, PlainMakes, Zenon
<1> QED
  BY <1>2, Zenon DEF P!Ask

\* Lists of two, four, six and eight, as two lists.
LEMMA Pair == ASSUME NEW a, NEW b PROVE <<a, b>> = <<a>> \o <<b>>
<1> DEFINE s == <<a>>
           t == <<b>>
           u == <<a, b>>
<1>1. /\ s \in Seq({a, b}) /\ Len(s) = 1 /\ s[1] = a
      /\ t \in Seq({a, b}) /\ Len(t) = 1 /\ t[1] = b
      /\ u \in Seq({a, b}) /\ Len(u) = 2 /\ u[1] = a /\ u[2] = b
  OBVIOUS
<1> HIDE DEF s, t, u
<1>2. /\ s \o t \in Seq({a, b}) /\ Len(s \o t) = Len(s) + Len(t)
      /\ \A i \in 1 .. Len(s) + Len(t) :
            (s \o t)[i] = IF i <= Len(s) THEN s[i] ELSE t[i - Len(s)]
  BY <1>1, ConcatProperties
<1>3. Len(s) = 1 /\ Len(t) = 1
  BY <1>1
<1>4. Len(s \o t) = 2 /\ (s \o t)[1] = s[1] /\ (s \o t)[2] = t[1]
  BY <1>2, <1>3
<1>5. u = s \o t
  BY <1>1, <1>2, <1>4, SeqEqual
<1> QED
  BY <1>5 DEF s, t, u

\* Four.
LEMMA Quadruple ==
  ASSUME NEW a, NEW b, NEW c, NEW d
  PROVE  <<a, b, c, d>> = <<a, b>> \o <<c, d>>
  OBVIOUS

\* Six.
LEMMA Sextuple ==
  ASSUME NEW a, NEW b, NEW c, NEW d, NEW e, NEW f
  PROVE  <<a, b, c, d, e, f>> = <<a, b, c, d>> \o <<e, f>>
  OBVIOUS

\* Eight.
LEMMA Octuple ==
  ASSUME NEW a, NEW b, NEW c, NEW d, NEW e, NEW f, NEW g, NEW h
  PROVE  <<a, b, c, d, e, f, g, h>> = <<a, b, c, d>> \o <<e, f, g, h>>
  OBVIOUS

\* Two calls.
LEMMA OutlineTwo ==
  ASSUME NEW S \in SUBSET P!Resources, NEW T \in SUBSET P!Resources,
         NEW U \in SUBSET P!Resources, NEW a \in Calls, NEW b \in Calls,
         Makes(S, a, T), Makes(T, b, U)
  PROVE  Outline(S, <<a, b>>, U)
<1>1. Outline(S, <<a>>, T) /\ Outline(T, <<b>>, U)
  BY OutlineOne
<1>2. Outline(S, <<a>> \o <<b>>, U)
  BY <1>1, OutlineThen
<1>3. <<a, b>> = <<a>> \o <<b>>
  BY Pair, Zenon
<1> QED
  BY <1>2, <1>3

\* Four calls.
LEMMA OutlineFour ==
  ASSUME NEW S \in SUBSET P!Resources, NEW T \in SUBSET P!Resources,
         NEW U \in SUBSET P!Resources, NEW V \in SUBSET P!Resources,
         NEW W \in SUBSET P!Resources,
         NEW a \in Calls, NEW b \in Calls, NEW c \in Calls, NEW d \in Calls,
         Makes(S, a, T), Makes(T, b, U), Makes(U, c, V), Makes(V, d, W)
  PROVE  Outline(S, <<a, b, c, d>>, W)
<1>1. Outline(S, <<a, b>>, U) /\ Outline(U, <<c, d>>, W)
  BY OutlineTwo
<1>2. Outline(S, <<a, b>> \o <<c, d>>, W)
  BY <1>1, OutlineThen
<1>3. <<a, b, c, d>> = <<a, b>> \o <<c, d>>
  BY Quadruple
<1> QED
  BY <1>2, <1>3

\* Calls that bring nothing up.
LEMMA OutlineStays ==
  ASSUME NEW S \in SUBSET P!Resources, NEW s \in Seq(Calls),
         \A i \in 1 .. Len(s) : Makes(S, s[i], S)
  PROVE  Outline(S, s, S)
<1> DEFINE G == [i \in 1 .. Len(s) + 1 |-> S]
<1>1. /\ Len(s) \in Nat /\ G \in [1 .. Len(s) + 1 -> SUBSET P!Resources]
      /\ \A i \in 1 .. Len(s) + 1 : G[i] = S
  OBVIOUS
<1> HIDE DEF G
<1>2. /\ G[1] = S /\ G[Len(s) + 1] = S
      /\ \A i \in 1 .. Len(s) : Makes(G[i], s[i], G[i + 1])
  BY <1>1
<1> QED
  BY <1>1, <1>2 DEF Outline

\* What is up after hi_mpp_sys_init().
AfterSys == {P!The("vb")} \cup {P!The("sys")}

\* hi_mpp_sys_init()
LEMMA SysOutline ==
    Outline({}, P!SysCalls, AfterSys) /\ Steady(AfterSys)
<1> DEFINE a == P!Call("sys_exit", {}, {}, {P!The("sys")}, <<>>)
           b == P!Call("vb_exit", {}, {}, {P!The("vb")}, <<>>)
           c == P!Ask("vb_set_cfg", {}, <<>>)
           d == P!Call("vb_init", {}, {P!The("vb")}, {}, <<>>)
           e == P!Ask("sys_set_cfg", {}, <<>>)
           f == P!Call("sys_init", {P!The("vb")}, {P!The("sys")}, {}, <<>>)
           S == {P!The("vb")}
<1>0. P!The("vb") \in Harmless /\ P!The("sys") \in Harmless /\ Harmless \subseteq P!Resources
  BY NamedParts DEF Harmless
<1>1. Steady({})
  BY DEF Steady, Settled, Bound, P!ViWhole
<1>2. a \in Calls /\ Makes({}, a, {})
  BY <1>0, <1>1, PlainMakes DEF CallNames, SysNames
<1>3. b \in Calls /\ Makes({}, b, {})
  BY <1>0, <1>1, PlainMakes DEF CallNames, SysNames
<1>4. c \in Calls /\ Makes({}, c, {})
  BY <1>1, AskMakes DEF CallNames, SysNames
<1>5. d \in Calls /\ Makes({}, d, S) /\ Steady(S)
  <2>1. "vb_init" \in CallNames /\ {} \subseteq {} /\ {} \cup {P!The("vb")} = S
    BY DEF CallNames, SysNames
  <2> QED
    BY <2>1, <1>0, <1>1, GiveMakes
<1>6. e \in Calls /\ Makes(S, e, S)
  BY <1>5, AskMakes DEF CallNames, SysNames
<1>7. f \in Calls /\ Makes(S, f, AfterSys) /\ Steady(AfterSys)
  <2>1. "sys_init" \in CallNames /\ {P!The("vb")} \subseteq S /\ S \cup {P!The("sys")} = AfterSys
    BY DEF CallNames, SysNames, AfterSys
  <2> QED
    BY <2>1, <1>0, <1>5, GiveMakes
<1>8. P!SysCalls = <<a, b, c, d>> \o <<e, f>>
  BY Sextuple DEF P!SysCalls
<1> HIDE DEF a, b, c, d, e, f, S
<1>9. Outline({}, <<a, b, c, d>>, S) /\ Outline(S, <<e, f>>, AfterSys)
  BY <1>1, <1>2, <1>3, <1>4, <1>5, <1>6, <1>7, OutlineFour, OutlineTwo DEF Steady
<1> QED
  BY <1>7, <1>8, <1>9, OutlineThen

\* set_vi_vpss_mode() and init_vi_process()
LEMMA ModeOutline ==
  ASSUME NEW S, Steady(S), P!The("sys") \in S
  PROVE  /\ Outline(S, P!ModeCalls, S \cup {P!The("mode")})
         /\ Steady(S \cup {P!The("mode")})
<1> DEFINE a == P!Ask("get_vi_vpss_mode", {P!The("sys")}, <<>>)
           b == P!Call("set_vi_vpss_mode", {P!The("sys")}, {P!The("mode")}, {}, <<>>)
           c == P!Ask("get_ctrl_param", {P!The("sys")}, <<>>)
           d == P!Ask("set_ctrl_param", {P!The("sys")}, <<>>)
           T == S \cup {P!The("mode")}
<1>0. P!The("mode") \in Harmless
  BY NamedParts
<1>1. a \in Calls /\ Makes(S, a, S)
  BY AskMakes DEF CallNames, ModeNames
<1>2. b \in Calls /\ Makes(S, b, T) /\ Steady(T)
  BY <1>0, GiveMakes DEF CallNames, ModeNames
<1>3. c \in Calls /\ Makes(T, c, T) /\ d \in Calls /\ Makes(T, d, T)
  BY <1>2, AskMakes DEF CallNames, ModeNames
<1>4. P!ModeCalls = <<a, b, c, d>>
  BY DEF P!ModeCalls
<1> HIDE DEF a, b, c, d, T
<1>5. Outline(S, P!ModeCalls, T)
  BY <1>1, <1>2, <1>3, <1>4, OutlineFour DEF Steady
<1> QED
  BY <1>2, <1>5 DEF T

\* comm_vi_start_mipi(): whichever of its calls fails, the device is closed.
LEMMA MipiOutline ==
  ASSUME NEW S, Steady(S)
  PROVE  /\ Outline(S, P!MipiCalls, S \cup {P!The("mipi")})
         /\ Steady(S \cup {P!The("mipi")})
<1> DEFINE fd == P!The("fd")
           F == S \cup {fd}
           T == S \cup {P!The("mipi")}
           a == P!Call("open", {}, {fd}, {}, <<>>)
           z == [P!CloseMipi EXCEPT !.gives = {P!The("mipi")}]
<1>0. /\ fd \in P!Resources /\ fd \notin S /\ P!The("mipi") \in P!Resources
      /\ S \subseteq P!Resources /\ Bound(S) /\ Settled(S, {})
  BY NamedParts DEF Harmless, Steady, Settled
<1>1. Steady(T)
  BY NamedParts, SettledGrows DEF Steady
<1>2. Bound(F) /\ F \subseteq P!Resources
  <2>1. \A x \in ViChain : x # fd
    BY DEF ViChain, P!The
  <2>2. P!ViWhole(F)
    BY <2>1, <1>0, ViWholeKept DEF Bound
  <2> QED
    BY <2>2, <1>0 DEF Bound, P!The
<1>3. a \in Calls /\ Makes(S, a, F)
  <2>1. Cleans(S, <<>>) /\ <<>> \in Seq(Plain)
    BY <1>0, NothingToClean
  <2> QED
    BY <2>1, <1>0, CallMakes DEF CallNames, MipiNames
<1>4. <<P!CloseMipi>> \in Seq(Plain) /\ Cleans(F, <<P!CloseMipi>>)
  <2> DEFINE u == P!CloseMipi
  <2>1. /\ u.name = "close" /\ u.needs = {fd} /\ u.gives = {} /\ u.takes = {fd}
        /\ u \in Plain
    BY <1>0 DEF P!CloseMipi, P!Call, Plain, CallNames, MipiNames
  <2>2. F \ u.takes = S
    BY <2>1, <1>0
  <2> HIDE DEF u, fd, F
  <2>3. u.needs \subseteq F
    BY <2>1 DEF F
  <2>4. <<u>> \in Seq(Plain) /\ Cleans(F, <<u>>)
    BY <2>1, <2>2, <2>3, <1>0, <1>2, OneToClean
  <2> QED
    BY <2>4 DEF u
<1>5. ASSUME NEW c \in MipiNames
      PROVE  P!MipiIoctl(c) \in Calls /\ Makes(F, P!MipiIoctl(c), F)
  <2>1. c \in CallNames /\ {fd} \subseteq F /\ {} \subseteq P!Resources /\ F = (F \ {}) \cup {}
    BY DEF CallNames
  <2> QED
    BY <2>1, <1>2, <1>4, CallMakes, Zenon DEF P!MipiIoctl, P!Ask
<1>6. z \in Calls /\ Makes(F, z, T)
  <2>1. /\ z.name = "close" /\ z.needs = {fd} /\ z.takes = {fd} /\ z.gives = {P!The("mipi")}
        /\ z \in Calls
    <3>1. "close" \in CallNames /\ <<>> \in Seq(Plain)
      BY DEF CallNames, MipiNames
    <3>2. P!CloseMipi \in Calls
      BY <3>1, <1>0 DEF P!CloseMipi, P!Call, Calls
    <3> QED
      BY <3>2, <1>0 DEF P!CloseMipi, P!Call, Calls
  <2>2. {fd} \subseteq F /\ T = (F \ {fd}) \cup {P!The("mipi")}
    BY <1>0
  <2> QED
    BY <2>1, <2>2, <1>2 DEF Makes
<1> DEFINE s == P!MipiCalls
           G == [i \in 1 .. 12 |-> IF i = 1 THEN S ELSE IF i = 12 THEN T ELSE F]
<1>7. /\ Len(s) = 11 /\ s[1] = a /\ s[11] = z
      /\ \A i \in 2 .. 10 : \E c \in MipiNames : s[i] = P!MipiIoctl(c)
      /\ s = [i \in 1 .. 11 |-> s[i]]
  <2>1. \A i \in 2 .. 10 : \E c \in MipiNames : s[i] = P!MipiIoctl(c)
    BY DEF P!MipiCalls, MipiNames
  <2>2. Len(s) = 11 /\ s[1] = a /\ s[11] = z /\ s = [i \in 1 .. 11 |-> s[i]]
    BY DEF P!MipiCalls
  <2> QED
    BY <2>1, <2>2
<1>8. G \in [1 .. 12 -> SUBSET P!Resources] /\ G[1] = S /\ G[12] = T
  BY <1>0, <1>1, <1>2 DEF Steady
<1>9. \A i \in 2 .. 11 : G[i] = F
  OBVIOUS
<1> HIDE DEF a, z, F, T, s, G
<1>10. ASSUME NEW i \in 1 .. 11 PROVE s[i] \in Calls /\ Makes(G[i], s[i], G[i + 1])
  <2>1. CASE i = 1
    BY <2>1, <1>3, <1>7, <1>8, <1>9
  <2>2. CASE i \in 2 .. 10
    <3>1. PICK c \in MipiNames : s[i] = P!MipiIoctl(c)
      BY <2>2, <1>7
    <3>2. G[i] = F /\ G[i + 1] = F
      BY <2>2, <1>9
    <3> QED
      BY <3>1, <3>2, <1>5
  <2>3. CASE i = 11
    BY <2>3, <1>6, <1>7, <1>8, <1>9
  <2> QED
    BY <2>1, <2>2, <2>3
<1>11. s \in Seq(Calls)
  <2>1. s \in [1 .. 11 -> Calls] /\ 11 \in Nat
    BY <1>7, <1>10
  <2> QED
    BY <2>1, SeqDef
<1>12. Outline(S, s, T)
  BY <1>7, <1>8, <1>10, <1>11 DEF Outline
<1> QED
  BY <1>1, <1>12 DEF T, s

\* comm_vi_create_vi(): a pipe that cannot be started is destroyed.
LEMMA ViOutline ==
  ASSUME NEW S, Steady(S), P!The("mipi") \in S, P!The("vi_chn") \notin S
  PROVE  Outline(S, P!CreateViCalls, S \cup ViChain) /\ Steady(S \cup ViChain)
<1> DEFINE a == P!Ask("set_dev_attr", {P!The("mipi")}, <<>>)
           b == P!Call("enable_dev", {P!The("mipi")}, {P!The("dev")}, {}, <<>>)
           c == P!Call("vi_bind", {P!The("dev")}, {P!The("vi_bound")}, {}, <<>>)
           d == P!Call("create_pipe", {P!The("vi_bound")}, {P!The("pipe")}, {}, <<>>)
           e == P!Call("start_pipe", {P!The("pipe")}, {P!The("pipe_started")}, {},
                       <<P!DestroyPipe>>)
           f == P!Ask("set_chn_attr", {P!The("pipe")}, <<P!DestroyPipe>>)
           g == P!Call("enable_chn", {P!The("pipe_started")}, {P!The("vi_chn")}, {}, <<>>)
           h == P!Ask("set_pipe_3dnr_attr", {P!The("pipe_started")}, <<>>)
           S1 == S \cup {P!The("dev")}
           S2 == S1 \cup {P!The("vi_bound")}
           S3 == S2 \cup {P!The("pipe")}
           S4 == S3 \cup {P!The("pipe_started")}
           S5 == S4 \cup {P!The("vi_chn")}
<1>0. /\ P!The("dev") \in Harmless /\ P!The("pipe_started") \in Harmless
      /\ ViChain \subseteq P!Resources
  BY NamedParts DEF ViChain, Harmless
<1>1. a \in Calls /\ Makes(S, a, S)
  BY AskMakes DEF CallNames, ViNames
<1>2. b \in Calls /\ Makes(S, b, S1) /\ Steady(S1)
  <2>1. "enable_dev" \in CallNames /\ {P!The("mipi")} \subseteq S
    BY DEF CallNames, ViNames
  <2> QED
    BY <2>1, <1>0, GiveMakes, Zenon
<1>3. /\ P!ViWhole(S1) /\ P!ViWhole(S2) /\ P!ViWhole(S3) /\ P!ViWhole(S4) /\ P!ViWhole(S5)
       /\ P!The("vi_chn") \notin S3 /\ P!The("vi_chn") \notin S4
  <2>1. P!ViWhole(S1)
    BY <1>2 DEF Steady, Settled, Bound
  <2>2. P!ViWhole(S2) /\ P!ViWhole(S3) /\ P!ViWhole(S4) /\ P!ViWhole(S5)
    BY <2>1 DEF P!ViWhole, P!The
  <2> QED
    BY <2>1, <2>2 DEF P!The
<1>4. c \in Calls /\ Makes(S1, c, S2) /\ Steady(S2)
  <2>1. "vi_bind" \in CallNames /\ {P!The("dev")} \subseteq S1
    BY DEF CallNames, ViNames
  <2> QED
    BY <2>1, <1>2, <1>3, GiveViMakes
<1>5. d \in Calls /\ Makes(S2, d, S3) /\ Steady(S3)
  <2>1. "create_pipe" \in CallNames /\ {P!The("vi_bound")} \subseteq S2
    BY DEF CallNames, ViNames
  <2> QED
    BY <2>1, <1>4, <1>3, GiveViMakes
<1>6. Steady(S4)
  BY <1>0, <1>5, SettledGrows DEF Steady
<1>7. ASSUME NEW U, Steady(U), P!The("pipe") \in U, P!The("vi_chn") \notin U
      PROVE  <<P!DestroyPipe>> \in Seq(Plain) /\ Cleans(U, <<P!DestroyPipe>>) /\ Bound(U)
  <2> DEFINE u == P!DestroyPipe
  <2>1. /\ u.name = "destroy_pipe" /\ u.needs = {P!The("pipe")} /\ u.gives = {}
        /\ u.takes = {P!The("pipe"), P!The("pipe_started")} /\ u \in Plain
    BY <1>0 DEF P!DestroyPipe, P!Call, Plain, ViChain, CallNames, ViNames
  <2>2. Settled(U \ u.takes, {})
    <3>1. P!ViWhole(U \ u.takes)
      BY <2>1, <1>7 DEF Steady, Settled, Bound, P!ViWhole, P!The
    <3>2. P!The("vpss_bound") \notin U
      BY <1>7 DEF Steady, Settled, Bound
    <3>3. \A k \in {"venc", "encoding", "venc_bound"}, w \in P!VencChns :
             <<k, w>> \in U \ u.takes <=> <<k, w>> \in U
      BY <2>1 DEF P!The
    <3>4. P!The("fd") \notin U \ u.takes
      BY <1>7 DEF Steady, Settled
    <3> HIDE DEF u
    <3>5. Bound(U \ u.takes)
      BY <3>1, <3>2, <3>3, <1>7 DEF Steady, Settled, Bound
    <3> QED
      BY <3>3, <3>4, <3>5, <1>7 DEF Steady, Settled
  <2> HIDE DEF u
  <2>3. Settled(U, {u}) /\ Bound(U) /\ U \in SUBSET P!Resources
    BY <1>7, SettledRefused DEF Steady
  <2>4. <<u>> \in Seq(Plain) /\ Cleans(U, <<u>>)
    BY <2>1, <2>2, <2>3, <1>7, OneToClean
  <2> QED
    BY <2>3, <2>4 DEF u
<1>8. e \in Calls /\ Makes(S3, e, S4)
  <2>1. /\ "start_pipe" \in CallNames /\ {P!The("pipe")} \subseteq S3
        /\ {P!The("pipe_started")} \subseteq P!Resources /\ {} \subseteq P!Resources
        /\ S4 = (S3 \ {}) \cup {P!The("pipe_started")} /\ S3 \subseteq P!Resources
        /\ P!The("pipe") \in S3
    BY <1>0, <1>5 DEF CallNames, ViNames, ViChain, Steady
  <2> QED
    BY <2>1, <1>5, <1>7, <1>3, CallMakes
<1>9. f \in Calls /\ Makes(S4, f, S4)
  <2>1. /\ "set_chn_attr" \in CallNames /\ {P!The("pipe")} \subseteq S4
        /\ {} \subseteq P!Resources /\ S4 = (S4 \ {}) \cup {} /\ S4 \subseteq P!Resources
        /\ P!The("pipe") \in S4
    BY <1>6 DEF CallNames, ViNames, Steady
  <2> QED
    BY <2>1, <1>6, <1>7, <1>3, CallMakes DEF P!Ask
<1>10. g \in Calls /\ Makes(S4, g, S5) /\ Steady(S5)
  <2>1. "enable_chn" \in CallNames /\ {P!The("pipe_started")} \subseteq S4
    BY DEF CallNames, ViNames
  <2> QED
    BY <2>1, <1>6, <1>3, GiveViMakes
<1>11. h \in Calls /\ Makes(S5, h, S5)
  BY <1>10, AskMakes DEF CallNames, ViNames
<1>12. P!CreateViCalls = <<a, b, c, d>> \o <<e, f, g, h>>
  BY Octuple DEF P!CreateViCalls
<1>13. S5 = S \cup ViChain
  BY DEF ViChain
<1> HIDE DEF a, b, c, d, e, f, g, h, S1, S2, S3, S4, S5
<1>14. Outline(S, <<a, b, c, d>>, S3)
  BY <1>1, <1>2, <1>4, <1>5, OutlineFour DEF Steady
<1>15. Outline(S3, <<e, f, g, h>>, S5)
  BY <1>5, <1>6, <1>8, <1>9, <1>10, <1>11, OutlineFour DEF Steady
<1> QED
  BY <1>10, <1>12, <1>13, <1>14, <1>15, OutlineThen

\* What comm_vi_create_isp() and comm_isp_run() bring up.
IspParts ==
    {P!The("ae"), P!The("awb"), P!The("isp_mem"), P!The("isp"), P!The("ispThread")}

\* comm_vi_create_isp() and comm_isp_run()
LEMMA IspOutline ==
  ASSUME NEW S, Steady(S), P!The("pipe") \in S,
         P!The("isp") \notin S, P!The("isp_mem") \notin S
  PROVE  /\ Outline(S, P!IspCalls, S \cup IspParts)
         /\ Steady(S \cup IspParts)
<1> DEFINE a == P!Call("isp_exit", {}, {}, {P!The("isp"), P!The("isp_mem")}, <<>>)
           b == P!Ask("sensor", {P!The("pipe")}, <<>>)
           c == P!Call("ae_register", {P!The("pipe")}, {P!The("ae")}, {}, <<>>)
           d == P!Call("awb_register", {P!The("pipe")}, {P!The("awb")}, {}, <<>>)
           e == P!Call("isp_mem_init", {P!The("ae"), P!The("awb")}, {P!The("isp_mem")}, {}, <<>>)
           f == P!Ask("isp_set_pub_attr", {P!The("isp_mem")}, <<>>)
           g == P!Call("isp_init", {P!The("isp_mem")}, {P!The("isp")}, {}, <<>>)
           h == P!Call("ispThread", {P!The("isp")}, {P!The("ispThread")}, {}, <<>>)
           S1 == S \cup {P!The("ae")}
           S2 == S1 \cup {P!The("awb")}
           S3 == S2 \cup {P!The("isp_mem")}
           S4 == S3 \cup {P!The("isp")}
           S5 == S4 \cup {P!The("ispThread")}
<1>0. IspParts \subseteq Harmless /\ Harmless \subseteq P!Resources
  BY NamedParts DEF IspParts, Harmless
<1>1. a \in Calls /\ Makes(S, a, S)
  BY <1>0, PlainMakes DEF IspParts, CallNames, IspNames
<1>2. b \in Calls /\ Makes(S, b, S)
  BY AskMakes DEF CallNames, IspNames
<1>3. c \in Calls /\ Makes(S, c, S1) /\ Steady(S1)
  <2>1. "ae_register" \in CallNames /\ {P!The("pipe")} \subseteq S /\ P!The("ae") \in Harmless
    BY <1>0 DEF IspParts, CallNames, IspNames
  <2> QED
    BY <2>1, GiveMakes, Zenon
<1>4. d \in Calls /\ Makes(S1, d, S2) /\ Steady(S2)
  <2>1. "awb_register" \in CallNames /\ {P!The("pipe")} \subseteq S1 /\ P!The("awb") \in Harmless
    BY <1>0 DEF IspParts, CallNames, IspNames
  <2> QED
    BY <2>1, <1>3, GiveMakes, Zenon
<1>5. e \in Calls /\ Makes(S2, e, S3) /\ Steady(S3)
  <2>1. /\ {P!The("ae"), P!The("awb")} \subseteq S2 /\ "isp_mem_init" \in CallNames
        /\ P!The("isp_mem") \in Harmless
    BY <1>0 DEF IspParts, CallNames, IspNames
  <2> QED
    BY <2>1, <1>4, GiveMakes, Zenon
<1>6. f \in Calls /\ Makes(S3, f, S3)
  BY <1>5, AskMakes DEF CallNames, IspNames
<1>7. g \in Calls /\ Makes(S3, g, S4) /\ Steady(S4)
  <2>1. "isp_init" \in CallNames /\ {P!The("isp_mem")} \subseteq S3 /\ P!The("isp") \in Harmless
    BY <1>0 DEF IspParts, CallNames, IspNames
  <2> QED
    BY <2>1, <1>5, GiveMakes, Zenon
<1>8. h \in Calls /\ Makes(S4, h, S5) /\ Steady(S5)
  <2>1. "ispThread" \in CallNames /\ {P!The("isp")} \subseteq S4 /\ P!The("ispThread") \in Harmless
    BY <1>0 DEF IspParts, CallNames, IspNames
  <2> QED
    BY <2>1, <1>7, GiveMakes, Zenon
<1>9. P!IspCalls = <<a, b, c, d>> \o <<e, f, g, h>>
  BY Octuple DEF P!IspCalls
<1>10. S5 = S \cup IspParts
  BY DEF IspParts
<1> HIDE DEF a, b, c, d, e, f, g, h, S1, S2, S3, S4, S5
<1>11. Outline(S, <<a, b, c, d>>, S2)
  BY <1>1, <1>2, <1>3, <1>4, OutlineFour DEF Steady
<1>12. Outline(S2, <<e, f, g, h>>, S5)
  BY <1>4, <1>5, <1>6, <1>7, <1>8, OutlineFour DEF Steady
<1> QED
  BY <1>8, <1>9, <1>10, <1>11, <1>12, OutlineThen

\* enable_vpss_chn()
LEMMA VpssChnOutline ==
  ASSUME NEW S, Steady(S), P!The("group") \in S, NEW c \in P!VpssChns
  PROVE  /\ Outline(S, P!EnableVpssChn(c), S \cup {<<"vpss_chn", c>>})
         /\ Steady(S \cup {<<"vpss_chn", c>>})
<1> DEFINE x == <<"vpss_chn", c>>
           T == S \cup {x}
           a == P!Ask("vpss_set_chn_attr", {P!The("group")}, <<>>)
           b == P!Call("vpss_enable_chn", {P!The("group")}, {x}, {}, <<>>)
<1>0. x \in Harmless
  BY HarmlessParts
<1> HIDE DEF x
<1>1. a \in Calls /\ Makes(S, a, S)
  BY AskMakes DEF CallNames, VpssNames
<1>2. b \in Calls /\ Makes(S, b, T) /\ Steady(T)
  BY <1>0, GiveMakes DEF CallNames, VpssNames
<1>3. P!EnableVpssChn(c) = <<a, b>>
  BY DEF P!EnableVpssChn, x
<1> HIDE DEF a, b, T
<1>4. Outline(S, <<a, b>>, T)
  BY <1>1, <1>2, OutlineTwo DEF Steady
<1> QED
  BY <1>2, <1>3, <1>4 DEF T, x

\* What init_vpss_module() brings up.
VpssParts ==
    {P!The("group"), <<"vpss_chn", 0>>, <<"vpss_chn", 1>>, <<"vpss_chn", 2>>,
     P!The("group_started")}

\* init_vpss_module()
LEMMA VpssOutline ==
  ASSUME NEW S, Steady(S), P!The("sys") \in S, P!The("mode") \in S
  PROVE  Outline(S, P!VpssCalls, S \cup VpssParts) /\ Steady(S \cup VpssParts)
<1> DEFINE a == P!Call("create_grp", {P!The("sys"), P!The("mode")}, {P!The("group")}, {}, <<>>)
           z == P!Call("start_grp", {P!The("group")}, {P!The("group_started")}, {}, <<>>)
           S0 == S \cup {P!The("group")}
           S1 == S0 \cup {<<"vpss_chn", 0>>}
           S2 == S1 \cup {<<"vpss_chn", 1>>}
           S3 == S2 \cup {<<"vpss_chn", 2>>}
           S4 == S3 \cup {P!The("group_started")}
<1>0. /\ P!The("group") \in Harmless /\ P!The("group_started") \in Harmless
      /\ 0 \in P!VpssChns /\ 1 \in P!VpssChns /\ 2 \in P!VpssChns
  BY NamedParts DEF P!VpssChns
<1>1. a \in Calls /\ Makes(S, a, S0) /\ Steady(S0)
  <2>1. {P!The("sys"), P!The("mode")} \subseteq S /\ "create_grp" \in CallNames
    BY DEF CallNames, VpssNames
  <2> QED
    BY <2>1, <1>0, GiveMakes, Zenon
<1>2. P!The("group") \in S0 /\ P!The("group") \in S1 /\ P!The("group") \in S2
      /\ P!The("group") \in S3
  OBVIOUS
<1>3. Outline(S0, P!EnableVpssChn(0), S1) /\ Steady(S1)
  BY <1>0, <1>1, <1>2, VpssChnOutline, Zenon
<1>4. Outline(S1, P!EnableVpssChn(1), S2) /\ Steady(S2)
  BY <1>0, <1>2, <1>3, VpssChnOutline, Zenon
<1>5. Outline(S2, P!EnableVpssChn(2), S3) /\ Steady(S3)
  BY <1>0, <1>2, <1>4, VpssChnOutline, Zenon
<1>6. z \in Calls /\ Makes(S3, z, S4) /\ Steady(S4)
  <2>1. {P!The("group")} \subseteq S3 /\ "start_grp" \in CallNames
    BY DEF CallNames, VpssNames
  <2> QED
    BY <2>1, <1>0, <1>5, GiveMakes, Zenon
<1>7. S4 = S \cup VpssParts
  BY DEF VpssParts
<1>8. P!VpssCalls = <<a>> \o P!EnableVpssChn(0) \o P!EnableVpssChn(1) \o P!EnableVpssChn(2) \o <<z>>
  BY DEF P!VpssCalls
<1> HIDE DEF a, z, S0, S1, S2, S3, S4
<1>9. Outline(S, <<a>>, S0) /\ Outline(S3, <<z>>, S4)
  BY <1>1, <1>5, <1>6, OutlineOne DEF Steady
<1>10. Outline(S, <<a>> \o P!EnableVpssChn(0), S1)
  BY <1>3, <1>9, OutlineThen
<1>11. Outline(S, <<a>> \o P!EnableVpssChn(0) \o P!EnableVpssChn(1), S2)
  BY <1>4, <1>10, OutlineThen
<1>12. Outline(S, <<a>> \o P!EnableVpssChn(0) \o P!EnableVpssChn(1) \o P!EnableVpssChn(2), S3)
  BY <1>5, <1>11, OutlineThen
<1>13. Outline(S, P!VpssCalls, S4)
  BY <1>8, <1>9, <1>12, OutlineThen
<1> QED
  BY <1>6, <1>7, <1>13

\* bind_vi_vpss(): vpss_stop() finds what it stops, and binds nothing loose, because
\* nothing is bound to the group yet.
LEMMA BindOutline ==
  ASSUME NEW S, Steady(S), P!The("vi_chn") \in S, VpssParts \subseteq S,
         P!The("vpss_bound") \notin S
  PROVE  /\ Outline(S, P!BindViVpss, S \cup {P!The("vpss_bound")})
         /\ Steady(S \cup {P!The("vpss_bound")})
<1> DEFINE a == P!Call("vpss_disable_chn", {<<"vpss_chn", 0>>}, {}, {<<"vpss_chn", 0>>}, <<>>)
           b == P!Call("vpss_disable_chn", {<<"vpss_chn", 1>>}, {}, {<<"vpss_chn", 1>>}, <<>>)
           c == P!Call("stop_grp", {P!The("group_started")}, {}, {P!The("group_started")}, <<>>)
           d == P!Call("destroy_grp", {P!The("group")}, {}, {P!The("group")}, <<>>)
           G1 == S \ {<<"vpss_chn", 0>>}
           G2 == G1 \ {<<"vpss_chn", 1>>}
           G3 == G2 \ {P!The("group_started")}
           G4 == G3 \ {P!The("group")}
           G == <<S, G1, G2, G3, G4>>
           T == S \cup {P!The("vpss_bound")}
<1>1. /\ VpssParts \subseteq P!Resources /\ S \in SUBSET P!Resources /\ Bound(S)
      /\ P!The("vpss_bound") \in P!Resources
  BY NamedParts DEF Steady, Settled
<1>2. /\ a \in Plain /\ a.needs = {<<"vpss_chn", 0>>} /\ a.gives = {}
      /\ a.takes = {<<"vpss_chn", 0>>}
      /\ b \in Plain /\ b.needs = {<<"vpss_chn", 1>>} /\ b.gives = {}
      /\ b.takes = {<<"vpss_chn", 1>>}
      /\ c \in Plain /\ c.needs = {P!The("group_started")} /\ c.gives = {}
      /\ c.takes = {P!The("group_started")}
      /\ d \in Plain /\ d.needs = {P!The("group")} /\ d.gives = {} /\ d.takes = {P!The("group")}
  BY <1>1 DEF P!Call, Plain, VpssParts, CallNames, VpssNames
<1>3. ASSUME NEW R, NEW X, X \subseteq VpssParts
      PROVE  Settled(S \ X, R) /\ Bound(S \ X) /\ S \ X \in SUBSET P!Resources
  <2>1. P!The("vpss_bound") \notin S \ X
    OBVIOUS
  <2>2. \A v \in P!VencChns : <<"venc_bound", v>> \notin S
    BY <1>1 DEF Bound
  <2>3. ASSUME NEW v \in P!VencChns PROVE <<"encoding", v>> \notin X
    BY <1>3 DEF VpssParts, P!The
  <2>4. \A x \in ViChain : x \notin X
    BY <1>3 DEF VpssParts, ViChain, P!The
  <2>5. P!ViWhole(S \ X)
    BY <2>4, <1>1, ViWholeKept DEF Bound
  <2>6. Bound(S \ X)
    BY <2>1, <2>2, <2>5 DEF Bound
  <2> QED
    BY <2>2, <2>3, <2>6, <1>1 DEF Steady, Settled
<1>4. /\ G1 = S \ {<<"vpss_chn", 0>>} /\ G2 = S \ {<<"vpss_chn", 0>>, <<"vpss_chn", 1>>}
      /\ G3 = S \ {<<"vpss_chn", 0>>, <<"vpss_chn", 1>>, P!The("group_started")}
      /\ G4 = S \ {<<"vpss_chn", 0>>, <<"vpss_chn", 1>>, P!The("group_started"), P!The("group")}
      /\ S = S \ {}
  OBVIOUS
<1>5. \A R : /\ Settled(S, R) /\ Settled(G1, R) /\ Settled(G2, R)
             /\ Settled(G3, R) /\ Settled(G4, R)
             /\ Bound(S) /\ Bound(G1) /\ Bound(G2) /\ Bound(G3)
  <2>1. /\ {<<"vpss_chn", 0>>} \subseteq VpssParts /\ {} \subseteq VpssParts
        /\ {<<"vpss_chn", 0>>, <<"vpss_chn", 1>>} \subseteq VpssParts
        /\ {<<"vpss_chn", 0>>, <<"vpss_chn", 1>>, P!The("group_started")} \subseteq VpssParts
        /\ {<<"vpss_chn", 0>>, <<"vpss_chn", 1>>, P!The("group_started"), P!The("group")}
              \subseteq VpssParts
    BY DEF VpssParts
  <2> HIDE DEF G1, G2, G3, G4
  <2> TAKE R
  <2>2. Settled(S, R) /\ Bound(S)
    BY <1>1, SettledRefused DEF Steady
  <2>3. Settled(G1, R) /\ Bound(G1)
    BY <2>1, <1>3, <1>4
  <2>4. Settled(G2, R) /\ Bound(G2)
    BY <2>1, <1>3, <1>4
  <2>5. Settled(G3, R) /\ Bound(G3)
    BY <2>1, <1>3, <1>4
  <2>6. Settled(G4, R)
    BY <2>1, <1>3, <1>4
  <2> QED
    BY <2>2, <2>3, <2>4, <2>5, <2>6
<1>6. /\ a.needs \subseteq S /\ b.needs \subseteq G1 /\ c.needs \subseteq G2 /\ d.needs \subseteq G3
      /\ G1 = (S \ a.takes) \cup a.gives /\ G2 = (G1 \ b.takes) \cup b.gives
      /\ G3 = (G2 \ c.takes) \cup c.gives /\ G4 = (G3 \ d.takes) \cup d.gives
  BY <1>2 DEF VpssParts, P!The
<1>7. /\ P!VpssStop = <<a, b, c, d>>
      /\ P!BindViVpss = << P!Call("bind_vi_vpss", {P!The("vi_chn"), P!The("group_started")},
                                  {P!The("vpss_bound")}, {}, P!VpssStop) >>
  BY DEF P!VpssStop, P!BindViVpss
<1>8. G \in [1 .. 5 -> SUBSET P!Resources]
  BY <1>1
<1> HIDE DEF a, b, c, d, G1, G2, G3, G4
<1> DEFINE u == <<a, b, c, d>>
<1>9. u \in Seq(Plain) /\ Len(u) = 4 /\ u[1] = a /\ u[2] = b /\ u[3] = c /\ u[4] = d
  BY <1>2
<1>10. G[1] = S /\ G[2] = G1 /\ G[3] = G2 /\ G[4] = G3 /\ G[5] = G4
  OBVIOUS
<1> HIDE DEF G, u
<1>11. ASSUME NEW i \in 1 .. 4
       PROVE  /\ u[i].needs \subseteq G[i] /\ Bound(G[i]) /\ Settled(G[i], {u[i]})
              /\ G[i + 1] = (G[i] \ u[i].takes) \cup u[i].gives
  <2>1. CASE i = 1
    <3>1. u[i] = a /\ G[i] = S /\ G[i + 1] = G1
      BY <2>1, <1>9, <1>10
    <3> QED
      BY <3>1, <1>5, <1>6, Zenon
  <2>2. CASE i = 2
    <3>1. u[i] = b /\ G[i] = G1 /\ G[i + 1] = G2
      BY <2>2, <1>9, <1>10
    <3> QED
      BY <3>1, <1>5, <1>6, Zenon
  <2>3. CASE i = 3
    <3>1. u[i] = c /\ G[i] = G2 /\ G[i + 1] = G3
      BY <2>3, <1>9, <1>10
    <3> QED
      BY <3>1, <1>5, <1>6, Zenon
  <2>4. CASE i = 4
    <3>1. u[i] = d /\ G[i] = G3 /\ G[i + 1] = G4
      BY <2>4, <1>9, <1>10
    <3> QED
      BY <3>1, <1>5, <1>6, Zenon
  <2> QED
    BY <2>1, <2>2, <2>3, <2>4
<1>12. Cleans(S, u)
  <2>1. Settled(G[5], {})
    BY <1>5, <1>10
  <2> QED
    BY <2>1, <1>8, <1>9, <1>10, <1>11 DEF Cleans
<1>13. Steady(T)
  <2>1. {P!The("vi_chn"), P!The("group_started")} \subseteq S
    BY DEF VpssParts
  <2>2. P!The("fd") # P!The("vpss_bound")
    BY DEF P!The
  <2>3. \A v \in P!VencChns :
           <<"venc", v>> # P!The("vpss_bound") /\ <<"venc_bound", v>> # P!The("vpss_bound")
    BY DEF P!The
  <2>4. \A x \in ViChain : x # P!The("vpss_bound")
    BY DEF ViChain, P!The
  <2>5. P!ViWhole(T)
    BY <2>4, <1>1, ViWholeKept DEF Bound
  <2>6. Bound(T)
    BY <2>1, <2>3, <2>5, <1>1 DEF Bound
  <2> QED
    BY <2>2, <2>3, <2>6, <1>1 DEF Steady, Settled
<1>14. LET bind == P!Call("bind_vi_vpss", {P!The("vi_chn"), P!The("group_started")},
                          {P!The("vpss_bound")}, {}, P!VpssStop)
       IN  bind \in Calls /\ Makes(S, bind, T)
  <2>1. /\ "bind_vi_vpss" \in CallNames /\ {P!The("vi_chn"), P!The("group_started")} \subseteq S
        /\ {P!The("vpss_bound")} \subseteq P!Resources /\ {} \subseteq P!Resources
        /\ S \subseteq P!Resources /\ T = (S \ {}) \cup {P!The("vpss_bound")}
    BY <1>1 DEF CallNames, VpssNames, VpssParts
  <2>2. P!VpssStop \in Seq(Plain) /\ Cleans(S, P!VpssStop)
    BY <1>7, <1>9, <1>12 DEF u
  <2> QED
    BY <2>1, <2>2, <1>1, CallMakes
<1> QED
  BY <1>1, <1>7, <1>13, <1>14, OutlineOne DEF Steady

\* comm_venc_mini_buf_en()
LEMMA MiniBufOutline ==
  ASSUME NEW S, Steady(S), P!The("sys") \in S
  PROVE  Outline(S, P!MiniBufEn, S)
<1> DEFINE a == P!Ask("get_mod_param", {P!The("sys")}, <<>>)
           b == P!Ask("set_mod_param", {P!The("sys")}, <<>>)
<1>1. a \in Calls /\ Makes(S, a, S) /\ b \in Calls /\ Makes(S, b, S)
  BY AskMakes DEF CallNames, VencNames
<1>2. P!ModParam = <<a, b>>
  BY DEF P!ModParam
<1> HIDE DEF a, b
<1>3. Outline(S, P!ModParam, S)
  BY <1>1, <1>2, OutlineTwo DEF Steady
<1>4. Outline(S, P!ModParam \o P!ModParam, S)
  BY <1>3, OutlineThen
<1> QED
  BY <1>3, <1>4, OutlineThen DEF P!MiniBufEn

\* The channel v is the next to be made: those before it have their source.
NextChn(S, v) ==
    \A w \in P!VencChns : <<"venc", w>> \in S => w < v /\ <<"venc_bound", w>> \in S

\* While an encoder channel exists that does not encode yet, destroying it is a
\* clean-up.
LEMMA DestroyVencCleans ==
  ASSUME NEW S, Steady(S), NEW v \in P!VencChns, NextChn(S, v),
         NEW U, U = S \cup {<<"venc", v>>}
  PROVE  /\ U \subseteq P!Resources /\ Bound(U)
         /\ <<P!DestroyVenc(v)>> \in Seq(Plain) /\ Cleans(U, <<P!DestroyVenc(v)>>)
<1> DEFINE u == P!DestroyVenc(v)
           x == <<"venc", v>>
<1>1. x \in P!Resources /\ S \subseteq P!Resources
  BY DEF Steady, P!Resources
<1>2. /\ u \in Plain /\ u.name = "destroy_chn" /\ u.needs = {x} /\ u.gives = {} /\ u.takes = {x}
  BY <1>1 DEF P!DestroyVenc, P!Call, Plain, CallNames, VencNames
<1>3. U \subseteq P!Resources
  BY <1>1
<1>4. P!The("fd") # x /\ P!The("vpss_bound") # x
  BY DEF P!The
<1>5. \A w \in P!VencChns : <<"venc_bound", w>> # x /\ <<"encoding", w>> # x
  OBVIOUS
<1>6. \A w \in P!VencChns : w # v => <<"venc", w>> # x
  OBVIOUS
<1>7. Bound(U)
  <2>1. \A y \in ViChain : y # x
    BY DEF ViChain, P!The
  <2>2. P!ViWhole(U)
    BY <2>1, ViWholeKept DEF Steady, Settled, Bound
  <2>3. Bound(S) /\ U = S \cup {x}
    BY DEF Steady, Settled
  <2> HIDE DEF x, u
  <2> QED
    BY <2>2, <2>3, <1>4, <1>5 DEF Bound
<1>8. x \notin S /\ U \ {x} = S
  <2>1. ~ (v < v)
    BY DEF P!VencChns
  <2>2. x \notin S
    BY <2>1 DEF NextChn
  <2> QED
    BY <2>2
<1>9. Settled(U, {u})
  <2>1. P!The("fd") \notin U
    BY <1>4 DEF Steady, Settled
  <2>2. ASSUME NEW w \in P!VencChns, <<"venc", w>> \in U, P!DestroyVenc(w) \notin {u}
        PROVE  <<"encoding", w>> \in U /\ <<"venc_bound", w>> \in U
    <3>1. w # v
      BY <2>2
    <3>2. <<"venc", w>> \in S
      BY <3>1, <2>2, <1>6
    <3>3. <<"venc_bound", w>> \in S
      BY <3>2 DEF NextChn
    <3> QED
      BY <3>3 DEF Steady, Settled, Bound
  <2> QED
    BY <2>1, <2>2, <1>7 DEF Settled
<1>10. Settled(U \ u.takes, {})
  BY <1>2, <1>8 DEF Steady
<1> HIDE DEF u, x
<1>11. u.needs \subseteq U
  BY <1>2 DEF x
<1>12. <<u>> \in Seq(Plain) /\ Cleans(U, <<u>>)
  BY <1>2, <1>3, <1>7, <1>9, <1>10, <1>11, OneToClean
<1> QED
  BY <1>3, <1>7, <1>12 DEF u

\* What comm_venc_start() and bind_vpss_venc() bring up.
VencParts(v) == {<<"venc", v>>, <<"encoding", v>>, <<"venc_bound", v>>}

\* comm_venc_start() and bind_vpss_venc(): until it encodes, a failure destroys the channel.
LEMMA VencOutline ==
  ASSUME NEW S, Steady(S), NEW v \in P!VencChns, NextChn(S, v),
         NEW source, P!The("sys") \in S,
         P!The("vpss_bound") \in S, <<"vpss_chn", source>> \in S
  PROVE  /\ Outline(S, P!VencChn(v, source), S \cup VencParts(v))
         /\ Steady(S \cup VencParts(v)) /\ NextChn(S \cup VencParts(v), v + 1)
<1> DEFINE venc == <<"venc", v>>
           encoding == <<"encoding", v>>
           bound == <<"venc_bound", v>>
           undo == <<P!DestroyVenc(v)>>
           U == S \cup {venc}
           V == U \cup {encoding}
           W == V \cup {bound}
           a == P!Call("create_chn", {P!The("sys")}, {venc}, {}, <<>>)
           b == P!Ask("get_chn_attr", {venc}, undo)
           c == P!Ask("get_rc_param", {venc}, undo)
           d == P!Ask("set_rc_param", {venc}, undo)
           e == P!StartVenc(v)
           f == P!Call("bind_vpss_venc", {encoding, <<"vpss_chn", source>>}, {bound}, {}, <<>>)
<1>0. /\ venc \in P!Resources /\ encoding \in P!Resources /\ bound \in P!Resources
      /\ S \subseteq P!Resources /\ Bound(S)
  BY DEF Steady, Settled, P!Resources
<1>1. U \subseteq P!Resources /\ Bound(U) /\ undo \in Seq(Plain) /\ Cleans(U, undo)
  BY DestroyVencCleans
<1>2. Steady(V)
  <2>1. P!The("fd") \notin {venc, encoding} /\ P!The("vpss_bound") \notin {venc, encoding}
    BY DEF P!The
  <2>2. \A w \in P!VencChns : <<"venc_bound", w>> \notin {venc, encoding}
    OBVIOUS
  <2>3. \A w \in P!VencChns : <<"venc", w>> \in {venc, encoding} => w = v
    OBVIOUS
  <2>4. V = S \cup {venc, encoding}
    OBVIOUS
  <2>5. \A x \in ViChain : x \notin {venc, encoding}
    BY DEF ViChain, P!The
  <2>6. P!ViWhole(V)
    BY <2>4, <2>5, <1>0, ViWholeKept DEF Bound
  <2>7. Bound(V)
    BY <2>1, <2>2, <2>4, <2>6, <1>0 DEF Bound
  <2>8. ASSUME NEW w \in P!VencChns, <<"venc", w>> \in V
        PROVE  /\ <<"encoding", w>> \in V
               /\ \/ <<"venc_bound", w>> \in V
                  \/ \A z \in P!VencChns : z > w => <<"venc", z>> \notin V
    <3>1. CASE w = v
      <4>1. ASSUME NEW z \in P!VencChns, z > v, <<"venc", z>> \in V PROVE FALSE
        <5>1. z # v /\ ~ (z < v)
          BY <4>1 DEF P!VencChns
        <5>2. <<"venc", z>> \in S
          BY <5>1, <4>1, <2>3, <2>4
        <5> QED
          BY <5>1, <5>2 DEF NextChn
      <4> QED
        BY <4>1, <3>1
    <3>2. CASE w # v
      <4>1. <<"venc", w>> \in S
        BY <3>2, <2>3, <2>4, <2>8
      <4>2. <<"venc_bound", w>> \in S
        BY <4>1 DEF NextChn
      <4> QED
        BY <4>2, <1>0 DEF Bound
    <3> QED
      BY <3>1, <3>2
  <2>9. P!The("fd") \notin V /\ V \subseteq P!Resources
    BY <2>1, <2>4, <1>0 DEF Steady, Settled
  <2> HIDE DEF V
  <2> QED
    BY <2>7, <2>8, <2>9 DEF Steady, Settled
<1>3. Steady(W)
  <2>1. P!The("fd") # bound /\ P!The("vpss_bound") # bound
    BY DEF P!The
  <2>2. \A w \in P!VencChns : <<"venc", w>> # bound /\ (<<"venc_bound", w>> = bound => w = v)
    OBVIOUS
  <2>3. encoding \in V /\ P!The("vpss_bound") \in V
    OBVIOUS
  <2>4. bound \in P!Resources
    BY <1>0
  <2>5. \A x \in ViChain : x # bound
    BY DEF ViChain, P!The
  <2> HIDE DEF V
  <2>6. P!ViWhole(W)
    BY <2>5, <1>2, ViWholeKept DEF Steady, Settled, Bound
  <2>7. Bound(W)
    BY <2>1, <2>2, <2>3, <2>6, <1>2 DEF Steady, Settled, Bound
  <2> QED
    BY <2>1, <2>2, <2>4, <2>7, <1>2 DEF Steady, Settled
<1>4. NextChn(W, v + 1)
  <2> SUFFICES ASSUME NEW w \in P!VencChns, <<"venc", w>> \in W
               PROVE  w < v + 1 /\ <<"venc_bound", w>> \in W
    BY DEF NextChn
  <2>1. v \in Int /\ w \in Int
    BY DEF P!VencChns
  <2>2. CASE w = v
    BY <2>1, <2>2
  <2>3. CASE w # v
    <3>1. <<"venc", w>> \in S
      BY <2>3
    <3>2. w < v /\ <<"venc_bound", w>> \in S
      BY <3>1 DEF NextChn
    <3> QED
      BY <3>2, <2>1
  <2> QED
    BY <2>2, <2>3
<1>5. a \in Calls /\ Makes(S, a, U)
  <2>1. /\ "create_chn" \in CallNames /\ {P!The("sys")} \subseteq S /\ {venc} \subseteq P!Resources
        /\ {} \subseteq P!Resources /\ U = (S \ {}) \cup {venc}
    BY <1>0 DEF CallNames, VencNames
  <2>2. <<>> \in Seq(Plain) /\ Cleans(S, <<>>)
    BY NothingToClean DEF Steady
  <2> QED
    BY <2>1, <2>2, <1>0, CallMakes, Zenon
<1>6. ASSUME NEW name \in {"get_chn_attr", "get_rc_param", "set_rc_param"}
      PROVE  P!Ask(name, {venc}, undo) \in Calls /\ Makes(U, P!Ask(name, {venc}, undo), U)
  <2>1. name \in CallNames /\ {venc} \subseteq U /\ {} \subseteq P!Resources /\ U = (U \ {}) \cup {}
    BY DEF CallNames, VencNames
  <2> QED
    BY <2>1, <1>1, CallMakes, Zenon DEF P!Ask
<1>7. /\ b \in Calls /\ Makes(U, b, U) /\ c \in Calls /\ Makes(U, c, U)
      /\ d \in Calls /\ Makes(U, d, U)
  BY <1>6, Zenon
<1>8. e \in Calls /\ Makes(U, e, V)
  <2>1. /\ "start_chn" \in CallNames /\ {venc} \subseteq U /\ {encoding} \subseteq P!Resources
        /\ {} \subseteq P!Resources /\ V = (U \ {}) \cup {encoding}
    BY <1>0 DEF CallNames, VencNames
  <2> QED
    BY <2>1, <1>1, CallMakes, Zenon DEF P!StartVenc
<1>9. f \in Calls /\ Makes(V, f, W)
  <2>1. /\ "bind_vpss_venc" \in CallNames /\ {encoding, <<"vpss_chn", source>>} \subseteq V
        /\ {bound} \subseteq P!Resources /\ {} \subseteq P!Resources /\ W = (V \ {}) \cup {bound}
    BY <1>0 DEF CallNames, VencNames
  <2>2. <<>> \in Seq(Plain) /\ Cleans(V, <<>>) /\ Bound(V) /\ V \subseteq P!Resources
    <3> HIDE DEF V
    <3>1. V \in SUBSET P!Resources /\ Settled(V, {})
      BY <1>2 DEF Steady
    <3> QED
      BY <3>1, NothingToClean, SettledRefused
  <2> QED
    BY <2>1, <2>2, CallMakes, Zenon
<1>10. /\ P!CloseReencode(v) = IF v = 2 THEN <<b, c>> ELSE Append(<<b, c>>, d)
      /\ P!VencChn(v, source) = <<a>> \o P!CloseReencode(v) \o <<e, f>>
  BY DEF P!CloseReencode, P!VencChn
<1>11. W = S \cup VencParts(v)
  BY DEF VencParts
<1>12. S \in SUBSET P!Resources /\ U \in SUBSET P!Resources /\ V \in SUBSET P!Resources
       /\ W \in SUBSET P!Resources
  BY <1>0, <1>1, <1>2, <1>3 DEF Steady
<1> HIDE DEF a, b, c, d, e, f, U, V, W
<1>13. Outline(S, <<a>>, U) /\ Outline(U, <<b, c>>, U) /\ Outline(V, <<f>>, W)
  BY <1>5, <1>7, <1>9, <1>12, OutlineOne, OutlineTwo
<1>14. Outline(U, Append(<<b, c>>, d), U)
  <2>1. Append(<<b, c>>, d) = <<b, c>> \o <<d>>
    <3>1. <<b, c>> \in Seq(Calls)
      BY <1>7
    <3> QED
      BY <3>1, <1>7, AppendIsConcat
  <2>2. Outline(U, <<d>>, U)
    BY <1>7, <1>12, OutlineOne
  <2> QED
    BY <2>1, <2>2, <1>13, OutlineThen
<1>15. Outline(U, P!CloseReencode(v), U)
  BY <1>10, <1>13, <1>14
<1>16. Outline(U, <<e, f>>, W)
  BY <1>8, <1>9, <1>12, OutlineTwo
<1>17. Outline(S, P!VencChn(v, source), W)
  BY <1>10, <1>13, <1>15, <1>16, OutlineThen
<1> QED
  BY <1>3, <1>11, <1>17, <1>4

\* The calls of init() are an outline: each finds what it needs, and whichever fails
\* has a clean-up that fits.
LEMMA InitOutline ==
    /\ P!WholePipeline \in SUBSET P!Resources
    /\ Outline({}, P!InitCalls, P!WholePipeline)
    /\ Settled(P!WholePipeline, {})
<1> DEFINE S1 == AfterSys \cup {P!The("mode")}
           S2 == S1 \cup {P!The("mipi")}
           S3 == S2 \cup ViChain
           S4 == S3 \cup IspParts
           S5 == S4 \cup VpssParts
           S6 == S5 \cup {P!The("vpss_bound")}
           S7 == S6 \cup VencParts(0)
           S8 == S7 \cup VencParts(1)
           S9 == S8 \cup VencParts(2)
<1>1. Outline({}, P!SysCalls, AfterSys) /\ Steady(AfterSys)
  BY SysOutline
<1>2. Outline(AfterSys, P!ModeCalls, S1) /\ Steady(S1)
  BY <1>1, ModeOutline DEF AfterSys
<1>3. Outline(S1, P!MipiCalls, S2) /\ Steady(S2)
  BY <1>2, MipiOutline, Zenon
<1>4. Outline(S2, P!CreateViCalls, S3) /\ Steady(S3)
  <2>1. P!The("mipi") \in S2 /\ P!The("vi_chn") \notin S2
    BY DEF AfterSys, P!The
  <2> QED
    BY <2>1, <1>3, ViOutline, Zenon
<1>5. Outline(S3, P!IspCalls, S4) /\ Steady(S4)
  <2>1. P!The("pipe") \in S3
    BY DEF ViChain
  <2>2. P!The("isp") \notin S3 /\ P!The("isp_mem") \notin S3
    BY DEF ViChain, AfterSys, P!The
  <2> QED
    BY <2>1, <2>2, <1>4, IspOutline, Zenon
<1>6. Outline(S4, P!VpssCalls, S5) /\ Steady(S5)
  <2>1. P!The("sys") \in S4 /\ P!The("mode") \in S4
    BY DEF AfterSys
  <2> QED
    BY <2>1, <1>5, VpssOutline, Zenon
<1>7. Outline(S5, P!BindViVpss, S6) /\ Steady(S6)
  <2>1. P!The("vi_chn") \in S5 /\ VpssParts \subseteq S5
    BY DEF ViChain
  <2>2. P!The("vpss_bound") \notin S5
    BY DEF ViChain, IspParts, VpssParts, AfterSys, P!The
  <2> QED
    BY <2>1, <2>2, <1>6, BindOutline, Zenon
<1>8. /\ P!The("sys") \in S6 /\ P!The("vpss_bound") \in S6
      /\ <<"vpss_chn", 0>> \in S6 /\ <<"vpss_chn", 1>> \in S6
  BY DEF AfterSys, VpssParts
<1>9. Outline(S6, P!MiniBufEn, S6)
  BY <1>7, <1>8, MiniBufOutline
<1>10. 0 \in P!VencChns /\ 1 \in P!VencChns /\ 2 \in P!VencChns
  BY DEF P!VencChns
<1>11. NextChn(S6, 0)
  <2>1. \A w \in P!VencChns : <<"venc", w>> \notin S6
    BY DEF AfterSys, ViChain, IspParts, VpssParts, P!The
  <2> QED
    BY <2>1 DEF NextChn
<1>12. Outline(S6, P!VencChn(0, 0), S7) /\ Steady(S7) /\ NextChn(S7, 1)
  <2>1. 0 + 1 = 1
    OBVIOUS
  <2> QED
    BY <2>1, <1>7, <1>8, <1>10, <1>11, VencOutline, Zenon
<1>13. /\ P!The("sys") \in S7 /\ P!The("vpss_bound") \in S7 /\ <<"vpss_chn", 1>> \in S7
       /\ P!The("sys") \in S8 /\ P!The("vpss_bound") \in S8 /\ <<"vpss_chn", 1>> \in S8
  BY <1>8
<1>14. Outline(S7, P!VencChn(1, 1), S8) /\ Steady(S8) /\ NextChn(S8, 2)
  <2>1. 1 + 1 = 2
    OBVIOUS
  <2> QED
    BY <2>1, <1>10, <1>12, <1>13, VencOutline, Zenon
<1>15. Outline(S8, P!VencChn(2, 1), S9) /\ Steady(S9)
  BY <1>10, <1>13, <1>14, VencOutline, Zenon
<1>16. S9 = P!WholePipeline
  <2>1. S9 \subseteq P!Resources /\ P!The("fd") \notin S9
    BY <1>15 DEF Steady, Settled
  <2>2. ASSUME NEW k \in P!Single \ {"fd"} PROVE P!The(k) \in S9
    BY DEF P!Single, AfterSys, ViChain, IspParts, VpssParts
  <2>3. ASSUME NEW c \in P!VpssChns PROVE <<"vpss_chn", c>> \in S9
    BY DEF VpssParts, P!VpssChns
  <2>4. ASSUME NEW v \in P!VencChns PROVE VencParts(v) \subseteq S9
    BY DEF P!VencChns
  <2> HIDE DEF S9
  <2>5. ASSUME NEW r \in P!Resources, r # P!The("fd") PROVE r \in S9
    <3>1. CASE \E k \in P!Single : r = P!The(k)
      BY <3>1, <2>2, <2>5
    <3>2. CASE r \in {"vpss_chn"} \X P!VpssChns
      BY <3>2, <2>3
    <3>3. CASE r \in {"venc", "encoding", "venc_bound"} \X P!VencChns
      <4>1. PICK k \in {"venc", "encoding", "venc_bound"}, v \in P!VencChns : r = <<k, v>>
        BY <3>3
      <4>2. r \in VencParts(v)
        BY <4>1 DEF VencParts
      <4> QED
        BY <4>2, <2>4
    <3> QED
      BY <3>1, <3>2, <3>3 DEF P!Resources
  <2> QED
    BY <2>1, <2>5 DEF P!WholePipeline
<1> HIDE DEF S1, S2, S3, S4, S5, S6, S7, S8, S9
<1>17. Outline(AfterSys, P!ViCalls, S4)
  <2>1. Outline(AfterSys, P!ModeCalls \o P!MipiCalls, S2)
    BY <1>2, <1>3, OutlineThen
  <2>2. Outline(AfterSys, P!ModeCalls \o P!MipiCalls \o P!CreateViCalls, S3)
    BY <2>1, <1>4, OutlineThen
  <2> QED
    BY <2>2, <1>5, OutlineThen DEF P!ViCalls
<1>18. Outline(S6, P!VencCalls, S9)
  <2>1. Outline(S6, P!MiniBufEn \o P!VencChn(0, 0), S7)
    BY <1>9, <1>12, OutlineThen
  <2>2. Outline(S6, P!MiniBufEn \o P!VencChn(0, 0) \o P!VencChn(1, 1), S8)
    BY <2>1, <1>14, OutlineThen
  <2> QED
    BY <2>2, <1>15, OutlineThen DEF P!VencCalls
<1>19. Outline({}, P!InitCalls, S9)
  <2>1. Outline({}, P!SysCalls \o P!ViCalls, S4)
    BY <1>1, <1>17, OutlineThen
  <2>2. Outline({}, P!SysCalls \o P!ViCalls \o P!VpssCalls, S5)
    BY <2>1, <1>6, OutlineThen
  <2>3. Outline({}, P!SysCalls \o P!ViCalls \o P!VpssCalls \o P!BindViVpss, S6)
    BY <2>2, <1>7, OutlineThen
  <2> QED
    BY <2>3, <1>18, OutlineThen DEF P!InitCalls
<1> QED
  BY <1>15, <1>16, <1>19 DEF Steady

-----------------------------------------------------------------------------
(* The pipeline: what init() keeps *)

\* Before init() nothing is up and nothing to be done.
LEMMA InitPipelineInv == Init => PipelineInv
<1>1. <<>> \in Seq(Calls)
  OBVIOUS
<1> QED
  BY <1>1 DEF Init, P!Init, PipelineInv

\* CallInit sets out on the outline.
LEMMA CallInitKeeps == PipelineInv /\ P!CallInit => PipelineInv'
<1> SUFFICES ASSUME PipelineInv, P!CallInit
             PROVE  PipelineInv'
  OBVIOUS
<1>1. up = {} /\ refused = {}
  BY DEF PipelineInv, P!CallInit
<1>2. /\ todo' = P!InitCalls /\ outcome' = "running" /\ up' = {} /\ refused' = {}
  BY <1>1 DEF P!CallInit
<1>3. Outline(up', todo', P!WholePipeline) /\ Settled(P!WholePipeline, {})
  BY <1>2, InitOutline
<1>4. todo' \in Seq(Calls) /\ P!WholePipeline \in SUBSET P!Resources
  BY <1>3, InitOutline DEF Outline
<1> QED
  BY <1>2, <1>3, <1>4 DEF PipelineInv

\* A call that succeeds leaves the rest of the outline, or of the clean-up.
LEMMA CallSucceedsKeeps == PipelineInv /\ P!CallSucceeds => PipelineInv'
<1> SUFFICES ASSUME PipelineInv, P!CallSucceeds
             PROVE  PipelineInv'
  OBVIOUS
<1>1. /\ todo # <<>> /\ todo' = Tail(todo)
      /\ up' = (up \ Head(todo).takes) \cup Head(todo).gives
      /\ outcome' = outcome /\ refused' = refused
  BY DEF P!CallSucceeds
<1>2. up \subseteq P!Resources /\ todo \in Seq(Calls) /\ outcome \in {"running", "failing"}
  BY <1>1 DEF PipelineInv
<1>3. Head(todo) \in Calls /\ Tail(todo) \in Seq(Calls)
  BY <1>1, <1>2
<1>4. up' \subseteq P!Resources
  BY <1>1, <1>2, <1>3 DEF Calls
<1>5. CASE outcome = "running"
  <2>1. /\ refused = {} /\ Outline(up, todo, P!WholePipeline)
        /\ Settled(P!WholePipeline, {})
    BY <1>5 DEF PipelineInv
  <2>2. Outline(up', todo', P!WholePipeline)
    BY <2>1, <1>1, OutlineFirst
  <2> QED
    BY <2>1, <2>2, <1>1, <1>3, <1>4, <1>5 DEF PipelineInv
<1>6. CASE outcome = "failing"
  <2>1. refused = {} /\ Cleans(up, todo)
    BY <1>1, <1>6 DEF PipelineInv
  <2>2. Cleans(up', todo')
    BY <2>1, <1>1, <1>2, CleanUpFirst
  <2> QED
    BY <2>1, <2>2, <1>1, <1>3, <1>4, <1>6 DEF PipelineInv
<1> QED
  BY <1>2, <1>5, <1>6

\* A call that fails is followed by a clean-up that fits what is up.
LEMMA CallFailsKeeps == PipelineInv /\ P!CallFails => PipelineInv'
<1> SUFFICES ASSUME PipelineInv, P!CallFails
             PROVE  PipelineInv'
  OBVIOUS
<1>1. /\ todo # <<>> /\ todo' = Head(todo).undo /\ up' = up /\ refused' = refused
      /\ outcome = "running" /\ outcome' = "failing"
      /\ Head(todo).name \notin {"close", "ispThread"}
  BY DEF P!CallFails
<1>2. refused = {} /\ up \subseteq P!Resources
  BY <1>1 DEF PipelineInv
<1>3. Outline(up, todo, P!WholePipeline)
  BY <1>1 DEF PipelineInv
<1>4. /\ Head(todo) \in Calls
      /\ Makes(up, Head(todo), (up \ Head(todo).takes) \cup Head(todo).gives)
  BY <1>1, <1>3, OutlineFirst
<1>5. Cleans(up', todo')
  BY <1>1, <1>4 DEF Makes
<1>6. todo' \in Seq(Calls)
  BY <1>1, <1>4, CleanUpsAreCalls DEF Calls
<1> QED
  BY <1>1, <1>2, <1>5, <1>6 DEF PipelineInv

\* A clean-up that the SDK refuses is noted.
LEMMA UndoFailsKeeps == PipelineInv /\ P!UndoFails => PipelineInv'
<1> SUFFICES ASSUME PipelineInv, P!UndoFails
             PROVE  PipelineInv'
  OBVIOUS
<1>1. /\ todo # <<>> /\ todo' = <<>> /\ up' = up /\ refused' = refused \cup {Head(todo)}
      /\ outcome = "failing" /\ outcome' = "failing" /\ Head(todo).name # "close"
  BY DEF P!UndoFails
<1>2. /\ up \subseteq P!Resources /\ todo \in Seq(Calls)
      /\ refused = {} /\ Cleans(up, todo)
  BY <1>1 DEF PipelineInv
<1>3. Settled(up, {Head(todo)})
  BY <1>1, <1>2, CleanUpFirst
<1>4. refused' = {Head(todo)}
  BY <1>1, <1>2
<1>5. <<>> \in Seq(Calls)
  OBVIOUS
<1> QED
  BY <1>1, <1>2, <1>3, <1>4, <1>5 DEF PipelineInv

\* An outline or a clean-up at its end is settled.
LEMMA SettledAtEnd == PipelineInv /\ todo = <<>> => Settled(up, refused)
<1> SUFFICES ASSUME PipelineInv, todo = <<>>
             PROVE  Settled(up, refused)
  OBVIOUS
<1>0. Len(<<>>) = 0
  OBVIOUS
<1>1. CASE outcome = "none"
  BY <1>1 DEF PipelineInv, Settled, Bound, P!ViWhole
<1>2. CASE outcome = "running"
  <2>1. /\ refused = {} /\ Outline(up, todo, P!WholePipeline)
        /\ Settled(P!WholePipeline, {})
    BY <1>2 DEF PipelineInv
  <2>2. up = P!WholePipeline
    BY <2>1, <1>0 DEF Outline
  <2> QED
    BY <2>1, <2>2
<1>3. CASE outcome = "failing"
  <2>1. CASE refused = {} /\ Cleans(up, todo)
    BY <2>1, <1>0 DEF Cleans
  <2> QED
    BY <2>1, <1>3 DEF PipelineInv
<1>4. CASE outcome \in {"ok", "failed"}
  BY <1>4 DEF PipelineInv
<1> QED
  BY <1>1, <1>2, <1>3, <1>4 DEF PipelineInv

\* init() returns with a settled pipeline.
LEMMA ReturnKeeps == PipelineInv /\ P!Return => PipelineInv'
<1> SUFFICES ASSUME PipelineInv, P!Return
             PROVE  PipelineInv'
  OBVIOUS
<1>1. Settled(up, refused)
  BY SettledAtEnd DEF P!Return
<1>2. outcome' = "ok" => up' = P!WholePipeline
  <2> SUFFICES ASSUME outcome' = "ok"
               PROVE  up = P!WholePipeline
    BY DEF P!Return
  <2>1. todo = <<>> /\ outcome = "running"
    BY DEF P!Return
  <2>2. Outline(up, <<>>, P!WholePipeline)
    BY <2>1 DEF PipelineInv
  <2>3. Len(<<>>) = 0
    OBVIOUS
  <2> QED
    BY <2>2, <2>3 DEF Outline
<1> QED
  BY <1>1, <1>2 DEF PipelineInv, P!Return

\* Only the calls of init() change the pipeline.
LEMMA NextPipelineInv == PipelineInv /\ [Next]_vars => PipelineInv'
<1> SUFFICES ASSUME PipelineInv, [Next]_vars
             PROVE  PipelineInv'
  OBVIOUS
<1>1. CASE P!CallInit
  BY <1>1, CallInitKeeps
<1>2. CASE P!CallSucceeds \/ P!CallFails \/ P!UndoFails \/ P!Return
  BY <1>2, CallSucceedsKeeps, CallFailsKeeps, UndoFailsKeeps, ReturnKeeps
<1>3. CASE UNCHANGED pipeline
  BY <1>3 DEF pipeline, PipelineInv
<1>4. P!CallInit \/ P!CallSucceeds \/ P!CallFails \/ P!UndoFails \/ P!Return \/ UNCHANGED pipeline
  BY DEF Next, MainStep, Loop, Fetch, FetchEnds, CallEnds, vars, InstallHandlers,
     InitLogger, InitPipeline, PipelineStep, SetFetchers, StartServer, Warmup, OpenWriter,
     OpenFails, RegisterWriter, StartAll, Record, Unregister, JoinWriter, JoinHangs,
     CloseWriter, Leave, StopServer, JoinServer, StopFetcher, JoinFetcher,
     TerminateFetcher, StopWorkers, JoinWorkers, DestroyManager, DestroyPipeline,
     DestroyLogger, EarlySignal, Signal, LoopReturns, FetcherOpens, FetcherFails,
     FetcherReturns, CallBegin, CallEnd, Crash
<1> QED
  BY <1>1, <1>2, <1>3, <1>4

\* PipelineInv holds throughout.
LEMMA PipelineInvariant == Spec => []PipelineInv
  BY InitPipelineInv, NextPipelineInv, PTL DEF Spec

\* No call of the SDK is made before what it needs is up, nor in a clean-up for
\* something that is not there, whichever call fails and whichever clean-up is refused.
THEOREM CallsFindTheirNeeds == Spec => []NeedsMet
<1>1. PipelineInv => NeedsMet
  <2> SUFFICES ASSUME PipelineInv, todo # <<>>
               PROVE  Head(todo).needs \subseteq up
    BY DEF NeedsMet, P!NeedsMet
  <2>1. CASE outcome = "running"
    <3>1. Outline(up, todo, P!WholePipeline)
      BY <2>1 DEF PipelineInv
    <3> QED
      BY <3>1, OutlineFirst DEF Makes
  <2>2. CASE outcome = "failing"
    BY <2>2, CleanUpFirst DEF PipelineInv
  <2> QED
    BY <2>1, <2>2 DEF PipelineInv
<1> QED
  BY <1>1, PipelineInvariant, PTL

\* Wherever init() stops, the MIPI device is closed; of the encoders only the last one
\* made can lack its source, and it does when its own binding failed; VPSS and the
\* encoders are bound only to parts that are up, while the binding of VI, which nobody
\* undoes, may outlive the pipe but not the device; and success means that all is up.
THEOREM NothingHalfBuilt == Spec => []PipelineWhole
<1>1. PipelineInv => PipelineWhole
  <2> SUFFICES ASSUME PipelineInv
               PROVE  PipelineWhole
    OBVIOUS
  <2>1. P!TypeOK
    <3>1. ASSUME NEW i \in 1 .. Len(todo) PROVE todo[i] \in Calls
      BY DEF PipelineInv
    <3> QED
      BY <3>1 DEF PipelineInv, P!TypeOK, Calls
  <2>2. P!MipiClosed
    BY SettledAtEnd DEF P!MipiClosed, Settled
  <2>3. P!EncodersWhole
    BY SettledAtEnd DEF P!EncodersWhole, Settled
  <2>4. Bound(up)
    <3>1. CASE todo = <<>>
      BY <3>1, SettledAtEnd DEF Settled
    <3>2. CASE todo # <<>> /\ outcome = "running"
      <4>1. Outline(up, todo, P!WholePipeline)
        BY <3>2 DEF PipelineInv
      <4> QED
        BY <4>1, <3>2, OutlineFirst DEF Makes
    <3>3. CASE todo # <<>> /\ outcome = "failing"
      BY <3>3, CleanUpFirst DEF PipelineInv
    <3> QED
      BY <3>1, <3>2, <3>3 DEF PipelineInv
  <2>5. P!BindingsWhole
    BY <2>4 DEF Bound, P!BindingsWhole
  <2>6. P!SuccessWhole
    BY DEF PipelineInv, P!SuccessWhole
  <2> QED
    BY <2>1, <2>2, <2>3, <2>5, <2>6 DEF PipelineWhole
<1> QED
  BY <1>1, PipelineInvariant, PTL

\* std::terminate() is reached only in the destruction of the pipeline, over the thread
\* of the ISP, or in that of a fetcher that has given up; and main() returns to an
\* orderly end of the process only after an init() that failed before it started the
\* thread of the ISP, with every fetcher joined.
THEOREM TerminatesOnlyOverThread == Spec => []AbortsOnlyOverThread
<1>1. MainInv /\ PipelineInv => AbortsOnlyOverThread
  <2> SUFFICES ASSUME MainInv, PipelineInv
               PROVE  AbortsOnlyOverThread
    OBVIOUS
  <2>1. ASSUME process = "exited" PROVE outcome = "failed"
    <3>1. pc = "destroy" /\ P!The("ispThread") \notin up
      BY <2>1 DEF MainInv, Endings
    <3>2. outcome \in {"ok", "failed"}
      BY <3>1 DEF MainInv, InitDone
    <3>3. P!The("ispThread") \in P!WholePipeline
      BY DEF P!WholePipeline, P!Resources, P!Single, P!The
    <3> QED
      BY <3>1, <3>2, <3>3 DEF PipelineInv
  <2> QED
    BY <2>1 DEF MainInv, Endings, AbortsOnlyOverThread
<1> QED
  BY <1>1, MainInvariant, PipelineInvariant, PTL

=============================================================================
