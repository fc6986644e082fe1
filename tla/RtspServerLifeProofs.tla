-------------------------- MODULE RtspServerLifeProofs --------------------------
(***************************************************************************)
(* What RtspServerLife promises for any streams, any number of workers and *)
(* any number of restarts: that the event loop and the server belong       *)
(* together, that a stop leaves nothing, and that a worker meets a freed   *)
(* scheduler, or a map that is being changed, only when stop() was called  *)
(* with the consumers registered.                                          *)
(***************************************************************************)
EXTENDS RtspServerLife, TLAPS

Starting == {"create", "unwind", "serve", "reset", "spawn"}
Stopping == {"join", "close", "clear", "shut", "delete", "forget"}

\* running_ is set from the middle of start() to the beginning of stop().
WhenRunning ==
    /\ running <=> \/ main \in {"reset", "spawn", "publish", "erase", "halt"}
                   \/ main = "idle" /\ phase \notin {"off", "exit"}
    /\ main \in Starting => phase = "off"
    /\ main \in {"publish", "erase"} => phase = "setup"
    /\ main \in Stopping \cup {"halt"} => phase # "off"

\* What live555 objects there are.  Between delete and the assignment of NULL the
\* pointer is set and the scheduler is not.
WhatExists ==
    /\ scheduler # 0 <=> running \/ main \in {"create", "unwind", "serve"} \cup Stopping
    /\ schedulers = IF scheduler = 0 \/ main \in {"unwind", "forget"} THEN {}
                    ELSE {scheduler}
    /\ server <=> running \/ main \in {"serve", "join", "close", "clear", "shut"}
    /\ scheduler # 0 => scheduler = made
    /\ ~server => table = {}
    /\ streams \subseteq table
    /\ main = "publish" => adding \in table
    /\ main \in {"shut", "delete", "forget"} => streams = {}

\* The event loop lives between the end of start() and the join, and only the watch
\* variable, which start() resets, ends it.
LoopLife ==
    /\ loop = "none" <=> ~ (\/ running /\ main \notin {"reset", "spawn"}
                            \/ main = "join")
    /\ loop = "returned" => watch
    /\ running /\ main \notin {"reset", "halt"} => ~watch

\* Workers are active, and the trigger is pending, only between the registration of
\* the consumers and their removal, or after a stop() without one.  Up to such a stop()
\* the scheduler a worker calls is the current one.
WorkersConfined ==
    /\ phase = "streaming" => main = "idle"
    /\ phase \notin {"streaming", "exit"} => \A w \in Workers : worker[w] = "idle"
    /\ phase # "exit" => \A w \in Workers : worker[w] = "call" => using[w] = scheduler
    /\ phase \in {"off", "setup"} \/ main = "forget" => ~triggered
    /\ phase \in {"off", "setup"} => loop # "notifying"

IInv == TypeOK /\ WhenRunning /\ WhatExists /\ LoopLife /\ WorkersConfined

\* Before start() nothing exists.
LEMMA InitInv == Init => IInv
<1> SUFFICES ASSUME Init PROVE IInv
  OBVIOUS
<1>1. 0 \in 0 .. MaxStarts
  BY LifeAssumption
<1>2. TypeOK
  BY <1>1, Zenon DEF Init, TypeOK, MainState, Phases
<1>3. WhenRunning /\ WhatExists /\ LoopLife /\ WorkersConfined
  BY <1>2 DEF Init, WhenRunning, WhatExists, LoopLife, WorkersConfined, Starting,
           Stopping,
              TypeOK
<1> QED
  BY <1>2, <1>3 DEF IInv

\* The steps of start().
LEMMA StartKeepsInv ==
  ASSUME IInv, 
         StartScheduler \/ StartFail \/ StartUnwound \/ StartServer
         \/ StartRunning \/ StartReset \/ StartLoop
  PROVE  IInv'
<1> USE LifeAssumption
<1> USE DEF IInv, serverVars, liveVars, mainVars, workerVars, Go
<1>1. CASE StartScheduler
  <2>0. /\ made' \in 1 .. MaxStarts /\ made' \in 0 .. MaxStarts
        /\ scheduler' = made' /\ schedulers' = schedulers \cup {made'}
    BY <1>1 DEF StartScheduler, TypeOK
  <2>1. TypeOK'
    BY <1>1, <2>0, Zenon DEF StartScheduler, TypeOK, MainState, Phases
  <2>2. WhenRunning'
    BY <1>1 DEF StartScheduler, TypeOK, WhenRunning, WhatExists, Starting, Stopping
  <2>3. WhatExists'
    BY <1>1 DEF StartScheduler, TypeOK, WhenRunning, WhatExists, Starting, Stopping
  <2>4. LoopLife'
    BY <1>1 DEF StartScheduler, TypeOK, WhenRunning, LoopLife, Starting, Stopping
  <2>5. WorkersConfined'
    BY <1>1 DEF StartScheduler, TypeOK, WhenRunning, WhatExists, LoopLife,
           WorkersConfined, Starting, Stopping
  <2> QED
    BY <2>1, <2>2, <2>3, <2>4, <2>5
<1>2. CASE StartFail
  <2>1. TypeOK'
    BY <1>2 DEF StartFail, TypeOK, MainState, Phases, WhatExists, WhenRunning
  <2>2. WhenRunning'
    BY <1>2 DEF StartFail, TypeOK, WhenRunning, WhatExists, Starting, Stopping
  <2>3. WhatExists'
    BY <1>2 DEF StartFail, TypeOK, WhenRunning, WhatExists, Starting, Stopping
  <2>4. LoopLife'
    BY <1>2 DEF StartFail, TypeOK, WhenRunning, LoopLife, Starting, Stopping
  <2>5. WorkersConfined'
    BY <1>2 DEF StartFail, TypeOK, WhenRunning, WhatExists, LoopLife, WorkersConfined,
           Starting, Stopping
  <2> QED
    BY <2>1, <2>2, <2>3, <2>4, <2>5
<1>3. CASE StartUnwound
  <2>1. TypeOK'
    BY <1>3 DEF StartUnwound, TypeOK, MainState, Phases, WhatExists, WhenRunning
  <2>2. WhenRunning'
    BY <1>3 DEF StartUnwound, TypeOK, WhenRunning, WhatExists, Starting, Stopping
  <2>3. WhatExists'
    BY <1>3 DEF StartUnwound, TypeOK, WhenRunning, WhatExists, Starting, Stopping
  <2>4. LoopLife'
    BY <1>3 DEF StartUnwound, TypeOK, WhenRunning, LoopLife, Starting, Stopping
  <2>5. WorkersConfined'
    BY <1>3 DEF StartUnwound, TypeOK, WhenRunning, WhatExists, LoopLife, WorkersConfined,
           Starting, Stopping
  <2> QED
    BY <2>1, <2>2, <2>3, <2>4, <2>5
<1>4. CASE StartServer
  <2>1. TypeOK'
    BY <1>4 DEF StartServer, TypeOK, MainState, Phases, WhatExists, WhenRunning
  <2>2. WhenRunning'
    BY <1>4 DEF StartServer, TypeOK, WhenRunning, WhatExists, Starting, Stopping
  <2>3. WhatExists'
    BY <1>4 DEF StartServer, TypeOK, WhenRunning, WhatExists, Starting, Stopping
  <2>4. LoopLife'
    BY <1>4 DEF StartServer, TypeOK, WhenRunning, LoopLife, Starting, Stopping
  <2>5. WorkersConfined'
    BY <1>4 DEF StartServer, TypeOK, WhenRunning, WhatExists, LoopLife, WorkersConfined,
           Starting, Stopping
  <2> QED
    BY <2>1, <2>2, <2>3, <2>4, <2>5
<1>5. CASE StartRunning
  <2>1. TypeOK'
    BY <1>5 DEF StartRunning, TypeOK, MainState, Phases, WhatExists, WhenRunning
  <2>2. WhenRunning'
    BY <1>5 DEF StartRunning, TypeOK, WhenRunning, WhatExists, Starting, Stopping
  <2>3. WhatExists'
    BY <1>5 DEF StartRunning, TypeOK, WhenRunning, WhatExists, Starting, Stopping
  <2>4. LoopLife'
    BY <1>5 DEF StartRunning, TypeOK, WhenRunning, LoopLife, Starting, Stopping
  <2>5. WorkersConfined'
    BY <1>5 DEF StartRunning, TypeOK, WhenRunning, WhatExists, LoopLife, WorkersConfined,
           Starting, Stopping
  <2> QED
    BY <2>1, <2>2, <2>3, <2>4, <2>5
<1>6. CASE StartReset
  <2>1. TypeOK'
    BY <1>6 DEF StartReset, TypeOK, MainState, Phases, WhatExists, WhenRunning
  <2>2. WhenRunning'
    BY <1>6 DEF StartReset, TypeOK, WhenRunning, WhatExists, Starting, Stopping
  <2>3. WhatExists'
    BY <1>6 DEF StartReset, TypeOK, WhenRunning, WhatExists, Starting, Stopping
  <2>4. LoopLife'
    BY <1>6 DEF StartReset, TypeOK, WhenRunning, LoopLife, Starting, Stopping
  <2>5. WorkersConfined'
    BY <1>6 DEF StartReset, TypeOK, WhenRunning, WhatExists, LoopLife, WorkersConfined,
           Starting, Stopping
  <2> QED
    BY <2>1, <2>2, <2>3, <2>4, <2>5
<1>7. CASE StartLoop
  <2>1. TypeOK'
    BY <1>7 DEF StartLoop, TypeOK, MainState, Phases, WhatExists, WhenRunning
  <2>2. WhenRunning'
    BY <1>7 DEF StartLoop, TypeOK, WhenRunning, WhatExists, Starting, Stopping
  <2>3. WhatExists'
    BY <1>7 DEF StartLoop, TypeOK, WhenRunning, WhatExists, Starting, Stopping
  <2>4. LoopLife'
    BY <1>7 DEF StartLoop, TypeOK, WhenRunning, LoopLife, Starting, Stopping
  <2>5. WorkersConfined'
    BY <1>7 DEF StartLoop, TypeOK, WhenRunning, WhatExists, LoopLife, WorkersConfined,
           Starting, Stopping
  <2> QED
    BY <2>1, <2>2, <2>3, <2>4, <2>5
<1> QED
  BY <1>1, <1>2, <1>3, <1>4, <1>5, <1>6, <1>7

\* The steps of add_stream() and remove_stream(), and of the registration of consumers.
LEMMA StreamsKeepsInv ==
  ASSUME IInv, NEW s \in Streams, 
         AddSession(s) \/ AddPublish \/ RemoveSession(s) \/ RemoveErase
         \/ Register \/ Unregister
  PROVE  IInv'
<1> USE LifeAssumption
<1> USE DEF IInv, serverVars, liveVars, mainVars, workerVars, Go
<1>1. CASE AddSession(s)
  <2>1. TypeOK'
    BY <1>1 DEF AddSession, MayChangeStreams, TypeOK, MainState, Phases, WhatExists,
           WhenRunning
  <2>2. WhenRunning'
    BY <1>1 DEF AddSession, MayChangeStreams, TypeOK, WhenRunning, WhatExists, Starting,
           Stopping
  <2>3. WhatExists'
    BY <1>1 DEF AddSession, MayChangeStreams, TypeOK, WhenRunning, WhatExists, Starting,
           Stopping
  <2>4. LoopLife'
    BY <1>1 DEF AddSession, MayChangeStreams, TypeOK, WhenRunning, LoopLife, Starting,
           Stopping
  <2>5. WorkersConfined'
    BY <1>1 DEF AddSession, MayChangeStreams, TypeOK, WhenRunning, WhatExists, LoopLife,
           WorkersConfined, Starting, Stopping
  <2> QED
    BY <2>1, <2>2, <2>3, <2>4, <2>5
<1>2. CASE AddPublish
  <2>1. TypeOK'
    BY <1>2 DEF AddPublish, TypeOK, MainState, Phases, WhatExists, WhenRunning
  <2>2. WhenRunning'
    BY <1>2 DEF AddPublish, TypeOK, WhenRunning, WhatExists, Starting, Stopping
  <2>3. WhatExists'
    BY <1>2 DEF AddPublish, TypeOK, WhenRunning, WhatExists, Starting, Stopping
  <2>4. LoopLife'
    BY <1>2 DEF AddPublish, TypeOK, WhenRunning, LoopLife, Starting, Stopping
  <2>5. WorkersConfined'
    BY <1>2 DEF AddPublish, TypeOK, WhenRunning, WhatExists, LoopLife, WorkersConfined,
           Starting, Stopping
  <2> QED
    BY <2>1, <2>2, <2>3, <2>4, <2>5
<1>3. CASE RemoveSession(s)
  <2>1. TypeOK'
    BY <1>3 DEF RemoveSession, MayChangeStreams, TypeOK, MainState, Phases, WhatExists,
           WhenRunning
  <2>2. WhenRunning'
    BY <1>3 DEF RemoveSession, MayChangeStreams, TypeOK, WhenRunning, WhatExists,
           Starting, Stopping
  <2>3. WhatExists'
    BY <1>3 DEF RemoveSession, MayChangeStreams, TypeOK, WhenRunning, WhatExists,
           Starting, Stopping
  <2>4. LoopLife'
    BY <1>3 DEF RemoveSession, MayChangeStreams, TypeOK, WhenRunning, LoopLife, Starting,
           Stopping
  <2>5. WorkersConfined'
    BY <1>3 DEF RemoveSession, MayChangeStreams, TypeOK, WhenRunning, WhatExists,
           LoopLife, WorkersConfined, Starting, Stopping
  <2> QED
    BY <2>1, <2>2, <2>3, <2>4, <2>5
<1>4. CASE RemoveErase
  <2>1. TypeOK'
    BY <1>4 DEF RemoveErase, TypeOK, MainState, Phases, WhatExists, WhenRunning
  <2>2. WhenRunning'
    BY <1>4 DEF RemoveErase, TypeOK, WhenRunning, WhatExists, Starting, Stopping
  <2>3. WhatExists'
    BY <1>4 DEF RemoveErase, TypeOK, WhenRunning, WhatExists, Starting, Stopping
  <2>4. LoopLife'
    BY <1>4 DEF RemoveErase, TypeOK, WhenRunning, LoopLife, Starting, Stopping
  <2>5. WorkersConfined'
    BY <1>4 DEF RemoveErase, TypeOK, WhenRunning, WhatExists, LoopLife, WorkersConfined,
           Starting, Stopping
  <2> QED
    BY <2>1, <2>2, <2>3, <2>4, <2>5
<1>5. CASE Register
  <2>1. TypeOK'
    BY <1>5 DEF Register, TypeOK, MainState, Phases, WhatExists, WhenRunning
  <2>2. WhenRunning'
    BY <1>5 DEF Register, TypeOK, WhenRunning, WhatExists, Starting, Stopping
  <2>3. WhatExists'
    BY <1>5 DEF Register, TypeOK, WhenRunning, WhatExists, Starting, Stopping
  <2>4. LoopLife'
    BY <1>5 DEF Register, TypeOK, WhenRunning, LoopLife, Starting, Stopping
  <2>5. WorkersConfined'
    BY <1>5 DEF Register, TypeOK, WhenRunning, WhatExists, LoopLife, WorkersConfined,
           Starting, Stopping
  <2> QED
    BY <2>1, <2>2, <2>3, <2>4, <2>5
<1>6. CASE Unregister
  <2>1. TypeOK'
    BY <1>6 DEF Unregister, TypeOK, MainState, Phases, WhatExists, WhenRunning
  <2>2. WhenRunning'
    BY <1>6 DEF Unregister, TypeOK, WhenRunning, WhatExists, Starting, Stopping
  <2>3. WhatExists'
    BY <1>6 DEF Unregister, TypeOK, WhenRunning, WhatExists, Starting, Stopping
  <2>4. LoopLife'
    BY <1>6 DEF Unregister, TypeOK, WhenRunning, LoopLife, Starting, Stopping
  <2>5. WorkersConfined'
    BY <1>6 DEF Unregister, TypeOK, WhenRunning, WhatExists, LoopLife, WorkersConfined,
           Starting, Stopping
  <2> QED
    BY <2>1, <2>2, <2>3, <2>4, <2>5
<1> QED
  BY <1>1, <1>2, <1>3, <1>4, <1>5, <1>6

\* The steps of stop().
LEMMA StopKeepsInv ==
  ASSUME IInv, 
         StopSignal \/ StopRunning \/ StopJoin \/ StopSessions
         \/ StopMaps \/ StopServer \/ StopDelete \/ StopForget
  PROVE  IInv'
<1> USE LifeAssumption
<1> USE DEF IInv, serverVars, liveVars, mainVars, workerVars, Go
<1>1. CASE StopSignal
  <2>1. TypeOK'
    BY <1>1 DEF StopSignal, TypeOK, MainState, Phases, WhatExists, WhenRunning
  <2>2. WhenRunning'
    BY <1>1 DEF StopSignal, TypeOK, WhenRunning, WhatExists, Starting, Stopping
  <2>3. WhatExists'
    BY <1>1 DEF StopSignal, TypeOK, WhenRunning, WhatExists, Starting, Stopping
  <2>4. LoopLife'
    BY <1>1 DEF StopSignal, TypeOK, WhenRunning, LoopLife, Starting, Stopping
  <2>5. WorkersConfined'
    BY <1>1 DEF StopSignal, TypeOK, WhenRunning, WhatExists, LoopLife, WorkersConfined,
           Starting, Stopping
  <2> QED
    BY <2>1, <2>2, <2>3, <2>4, <2>5
<1>2. CASE StopRunning
  <2>1. TypeOK'
    BY <1>2 DEF StopRunning, TypeOK, MainState, Phases, WhatExists, WhenRunning
  <2>2. WhenRunning'
    BY <1>2 DEF StopRunning, TypeOK, WhenRunning, WhatExists, Starting, Stopping
  <2>3. WhatExists'
    BY <1>2 DEF StopRunning, TypeOK, WhenRunning, WhatExists, Starting, Stopping
  <2>4. LoopLife'
    BY <1>2 DEF StopRunning, TypeOK, WhenRunning, LoopLife, Starting, Stopping
  <2>5. WorkersConfined'
    BY <1>2 DEF StopRunning, TypeOK, WhenRunning, WhatExists, LoopLife, WorkersConfined,
           Starting, Stopping
  <2> QED
    BY <2>1, <2>2, <2>3, <2>4, <2>5
<1>3. CASE StopJoin
  <2>1. TypeOK'
    BY <1>3 DEF StopJoin, TypeOK, MainState, Phases, WhatExists, WhenRunning
  <2>2. WhenRunning'
    BY <1>3 DEF StopJoin, TypeOK, WhenRunning, WhatExists, Starting, Stopping
  <2>3. WhatExists'
    BY <1>3 DEF StopJoin, TypeOK, WhenRunning, WhatExists, Starting, Stopping
  <2>4. LoopLife'
    BY <1>3 DEF StopJoin, TypeOK, WhenRunning, LoopLife, Starting, Stopping
  <2>5. WorkersConfined'
    BY <1>3 DEF StopJoin, TypeOK, WhenRunning, WhatExists, LoopLife, WorkersConfined,
           Starting, Stopping
  <2> QED
    BY <2>1, <2>2, <2>3, <2>4, <2>5
<1>4. CASE StopSessions
  <2>1. TypeOK'
    BY <1>4 DEF StopSessions, TypeOK, MainState, Phases, WhatExists, WhenRunning
  <2>2. WhenRunning'
    BY <1>4 DEF StopSessions, TypeOK, WhenRunning, WhatExists, Starting, Stopping
  <2>3. WhatExists'
    BY <1>4 DEF StopSessions, TypeOK, WhenRunning, WhatExists, Starting, Stopping
  <2>4. LoopLife'
    BY <1>4 DEF StopSessions, TypeOK, WhenRunning, LoopLife, Starting, Stopping
  <2>5. WorkersConfined'
    BY <1>4 DEF StopSessions, TypeOK, WhenRunning, WhatExists, LoopLife, WorkersConfined,
           Starting, Stopping
  <2> QED
    BY <2>1, <2>2, <2>3, <2>4, <2>5
<1>5. CASE StopMaps
  <2>1. TypeOK'
    BY <1>5 DEF StopMaps, TypeOK, MainState, Phases, WhatExists, WhenRunning
  <2>2. WhenRunning'
    BY <1>5 DEF StopMaps, TypeOK, WhenRunning, WhatExists, Starting, Stopping
  <2>3. WhatExists'
    BY <1>5 DEF StopMaps, TypeOK, WhenRunning, WhatExists, Starting, Stopping
  <2>4. LoopLife'
    BY <1>5 DEF StopMaps, TypeOK, WhenRunning, LoopLife, Starting, Stopping
  <2>5. WorkersConfined'
    BY <1>5 DEF StopMaps, TypeOK, WhenRunning, WhatExists, LoopLife, WorkersConfined,
           Starting, Stopping
  <2> QED
    BY <2>1, <2>2, <2>3, <2>4, <2>5
<1>6. CASE StopServer
  <2>1. TypeOK'
    BY <1>6 DEF StopServer, TypeOK, MainState, Phases, WhatExists, WhenRunning
  <2>2. WhenRunning'
    BY <1>6 DEF StopServer, TypeOK, WhenRunning, WhatExists, Starting, Stopping
  <2>3. WhatExists'
    BY <1>6 DEF StopServer, TypeOK, WhenRunning, WhatExists, Starting, Stopping
  <2>4. LoopLife'
    BY <1>6 DEF StopServer, TypeOK, WhenRunning, LoopLife, Starting, Stopping
  <2>5. WorkersConfined'
    BY <1>6 DEF StopServer, TypeOK, WhenRunning, WhatExists, LoopLife, WorkersConfined,
           Starting, Stopping
  <2> QED
    BY <2>1, <2>2, <2>3, <2>4, <2>5
<1>7. CASE StopDelete
  <2>1. TypeOK'
    BY <1>7 DEF StopDelete, TypeOK, MainState, Phases, WhatExists, WhenRunning
  <2>2. WhenRunning'
    BY <1>7 DEF StopDelete, TypeOK, WhenRunning, WhatExists, Starting, Stopping
  <2>3. WhatExists'
    BY <1>7 DEF StopDelete, TypeOK, WhenRunning, WhatExists, Starting, Stopping
  <2>4. LoopLife'
    BY <1>7 DEF StopDelete, TypeOK, WhenRunning, LoopLife, Starting, Stopping
  <2>5. WorkersConfined'
    BY <1>7 DEF StopDelete, TypeOK, WhenRunning, WhatExists, LoopLife, WorkersConfined,
           Starting, Stopping
  <2> QED
    BY <2>1, <2>2, <2>3, <2>4, <2>5
<1>8. CASE StopForget
  <2>1. TypeOK'
    BY <1>8 DEF StopForget, TypeOK, MainState, Phases, WhatExists, WhenRunning
  <2>2. WhenRunning'
    BY <1>8 DEF StopForget, TypeOK, WhenRunning, WhatExists, Starting, Stopping
  <2>3. WhatExists'
    BY <1>8 DEF StopForget, TypeOK, WhenRunning, WhatExists, Starting, Stopping
  <2>4. LoopLife'
    BY <1>8 DEF StopForget, TypeOK, WhenRunning, LoopLife, Starting, Stopping
  <2>5. WorkersConfined'
    BY <1>8 DEF StopForget, TypeOK, WhenRunning, WhatExists, LoopLife, WorkersConfined,
           Starting, Stopping
  <2> QED
    BY <2>1, <2>2, <2>3, <2>4, <2>5
<1> QED
  BY <1>1, <1>2, <1>3, <1>4, <1>5, <1>6, <1>7, <1>8

\* The steps of the event loop.
LEMMA LoopKeepsInv ==
  ASSUME IInv, 
         LoopReturn \/ LoopTrigger \/ LoopNotified
  PROVE  IInv'
<1> USE LifeAssumption
<1> USE DEF IInv, serverVars, liveVars, mainVars, workerVars, Go
<1>1. CASE LoopReturn
  <2>1. TypeOK'
    BY <1>1 DEF LoopReturn, TypeOK, MainState, Phases, WhatExists, WhenRunning
  <2>2. WhenRunning'
    BY <1>1 DEF LoopReturn, TypeOK, WhenRunning, WhatExists, Starting, Stopping
  <2>3. WhatExists'
    BY <1>1 DEF LoopReturn, TypeOK, WhenRunning, WhatExists, Starting, Stopping
  <2>4. LoopLife'
    BY <1>1 DEF LoopReturn, TypeOK, WhenRunning, LoopLife, Starting, Stopping
  <2>5. WorkersConfined'
    BY <1>1 DEF LoopReturn, TypeOK, WhenRunning, WhatExists, LoopLife, WorkersConfined,
           Starting, Stopping
  <2> QED
    BY <2>1, <2>2, <2>3, <2>4, <2>5
<1>2. CASE LoopTrigger
  <2>1. TypeOK'
    BY <1>2 DEF LoopTrigger, TypeOK, MainState, Phases, WhatExists, WhenRunning
  <2>2. WhenRunning'
    BY <1>2 DEF LoopTrigger, TypeOK, WhenRunning, WhatExists, Starting, Stopping
  <2>3. WhatExists'
    BY <1>2 DEF LoopTrigger, TypeOK, WhenRunning, WhatExists, Starting, Stopping
  <2>4. LoopLife'
    BY <1>2 DEF LoopTrigger, TypeOK, WhenRunning, LoopLife, Starting, Stopping
  <2>5. WorkersConfined'
    BY <1>2 DEF LoopTrigger, TypeOK, WhenRunning, WhatExists, LoopLife, WorkersConfined,
           Starting, Stopping
  <2> QED
    BY <2>1, <2>2, <2>3, <2>4, <2>5
<1>3. CASE LoopNotified
  <2>1. TypeOK'
    BY <1>3 DEF LoopNotified, TypeOK, MainState, Phases, WhatExists, WhenRunning
  <2>2. WhenRunning'
    BY <1>3 DEF LoopNotified, TypeOK, WhenRunning, WhatExists, Starting, Stopping
  <2>3. WhatExists'
    BY <1>3 DEF LoopNotified, TypeOK, WhenRunning, WhatExists, Starting, Stopping
  <2>4. LoopLife'
    BY <1>3 DEF LoopNotified, TypeOK, WhenRunning, LoopLife, Starting, Stopping
  <2>5. WorkersConfined'
    BY <1>3 DEF LoopNotified, TypeOK, WhenRunning, WhatExists, LoopLife, WorkersConfined,
           Starting, Stopping
  <2> QED
    BY <2>1, <2>2, <2>3, <2>4, <2>5
<1> QED
  BY <1>1, <1>2, <1>3

\* The steps of on_frame().
LEMMA WorkerKeepsInv ==
  ASSUME IInv, NEW w \in Workers, 
         OnFrame(w) \/ Found(w) \/ ReadScheduler(w) \/ TriggerEvent(w) \/ Crash(w)
  PROVE  IInv'
<1> USE LifeAssumption
<1> USE DEF IInv, serverVars, liveVars, mainVars, workerVars, Go
<1>1. CASE OnFrame(w)
  <2>1. TypeOK'
    BY <1>1 DEF OnFrame, TypeOK, MainState, Phases, WhatExists, WhenRunning
  <2>2. WhenRunning'
    BY <1>1 DEF OnFrame, TypeOK, WhenRunning, WhatExists, Starting, Stopping
  <2>3. WhatExists'
    BY <1>1 DEF OnFrame, TypeOK, WhenRunning, WhatExists, Starting, Stopping
  <2>4. LoopLife'
    BY <1>1 DEF OnFrame, TypeOK, WhenRunning, LoopLife, Starting, Stopping
  <2>5. WorkersConfined'
    BY <1>1 DEF OnFrame, TypeOK, WhenRunning, WhatExists, LoopLife, WorkersConfined,
           Starting, Stopping
  <2> QED
    BY <2>1, <2>2, <2>3, <2>4, <2>5
<1>2. CASE Found(w)
  <2>1. TypeOK'
    BY <1>2 DEF Found, TypeOK, MainState, Phases, WhatExists, WhenRunning
  <2>2. WhenRunning'
    BY <1>2 DEF Found, TypeOK, WhenRunning, WhatExists, Starting, Stopping
  <2>3. WhatExists'
    BY <1>2 DEF Found, TypeOK, WhenRunning, WhatExists, Starting, Stopping
  <2>4. LoopLife'
    BY <1>2 DEF Found, TypeOK, WhenRunning, LoopLife, Starting, Stopping
  <2>5. WorkersConfined'
    BY <1>2 DEF Found, TypeOK, WhenRunning, WhatExists, LoopLife, WorkersConfined,
           Starting, Stopping
  <2> QED
    BY <2>1, <2>2, <2>3, <2>4, <2>5
<1>3. CASE ReadScheduler(w)
  <2>1. TypeOK'
    BY <1>3 DEF ReadScheduler, TypeOK, MainState, Phases, WhatExists, WhenRunning
  <2>2. WhenRunning'
    BY <1>3 DEF ReadScheduler, TypeOK, WhenRunning, WhatExists, Starting, Stopping
  <2>3. WhatExists'
    BY <1>3 DEF ReadScheduler, TypeOK, WhenRunning, WhatExists, Starting, Stopping
  <2>4. LoopLife'
    BY <1>3 DEF ReadScheduler, TypeOK, WhenRunning, LoopLife, Starting, Stopping
  <2>5. WorkersConfined'
    BY <1>3 DEF ReadScheduler, TypeOK, WhenRunning, WhatExists, LoopLife,
           WorkersConfined, Starting, Stopping
  <2> QED
    BY <2>1, <2>2, <2>3, <2>4, <2>5
<1>4. CASE TriggerEvent(w)
  <2>1. TypeOK'
    BY <1>4 DEF TriggerEvent, TypeOK, MainState, Phases, WhatExists, WhenRunning
  <2>2. WhenRunning'
    BY <1>4 DEF TriggerEvent, TypeOK, WhenRunning, WhatExists, Starting, Stopping
  <2>3. WhatExists'
    BY <1>4 DEF TriggerEvent, TypeOK, WhenRunning, WhatExists, Starting, Stopping
  <2>4. LoopLife'
    BY <1>4 DEF TriggerEvent, TypeOK, WhenRunning, LoopLife, Starting, Stopping
  <2>5. WorkersConfined'
    BY <1>4 DEF TriggerEvent, TypeOK, WhenRunning, WhatExists, LoopLife, WorkersConfined,
           Starting, Stopping
  <2> QED
    BY <2>1, <2>2, <2>3, <2>4, <2>5
<1>5. CASE Crash(w)
  <2>1. TypeOK'
    BY <1>5 DEF Crash, TypeOK, MainState, Phases, WhatExists, WhenRunning
  <2>2. WhenRunning'
    BY <1>5 DEF Crash, TypeOK, WhenRunning, WhatExists, Starting, Stopping
  <2>3. WhatExists'
    BY <1>5 DEF Crash, TypeOK, WhenRunning, WhatExists, Starting, Stopping
  <2>4. LoopLife'
    BY <1>5 DEF Crash, TypeOK, WhenRunning, LoopLife, Starting, Stopping
  <2>5. WorkersConfined'
    BY <1>5 DEF Crash, TypeOK, WhenRunning, WhatExists, LoopLife, WorkersConfined,
           Starting, Stopping
  <2> QED
    BY <2>1, <2>2, <2>3, <2>4, <2>5
<1> QED
  BY <1>1, <1>2, <1>3, <1>4, <1>5

\* Every step keeps the invariant.
LEMMA StepInv == IInv /\ [Next]_vars => IInv'
<1> SUFFICES ASSUME IInv, [Next]_vars PROVE IInv'
  OBVIOUS
<1>1. CASE UNCHANGED vars
  BY <1>1 DEF vars, serverVars, liveVars, mainVars, workerVars, IInv, TypeOK, WhenRunning,
              WhatExists, LoopLife, WorkersConfined
<1>2. CASE \/ AddPublish \/ RemoveErase \/ Register \/ Unregister
           \/ \E s \in Streams : AddSession(s) \/ RemoveSession(s)
  BY <1>2, StreamsKeepsInv DEF IInv, TypeOK
<1> QED
  BY <1>1, <1>2, StartKeepsInv, StopKeepsInv, LoopKeepsInv, WorkerKeepsInv
     DEF Next, Start, StopRest, EventLoop, Worker

\* The invariant holds throughout.
THEOREM ServerInvariant == Spec => []IInv
  BY InitInv, StepInv, PTL DEF Spec

\* Every variable of the server keeps its type.
THEOREM ServerTypes == Spec => []TypeOK
<1>1. IInv => TypeOK
  BY DEF IInv
<1> QED
  BY <1>1, ServerInvariant, PTL

\* The event loop has its server and its scheduler, and a server that says it runs
\* has its event loop, over any number of failed starts, stops and restarts.
THEOREM LoopAndServerTogether == Spec => []LoopServes
<1>1. IInv => LoopServes
  BY DEF IInv, TypeOK, WhenRunning, WhatExists, LoopLife, LoopServes, LoopHasServer,
         RunningServes, Stopping
<1> QED
  BY <1>1, ServerInvariant, PTL

\* A stop(), or a start() that failed, leaves nothing behind.
THEOREM StopLeavesNothing == Spec => []StoppedIsClean
<1>1. IInv => StoppedIsClean
  BY DEF IInv, TypeOK, WhenRunning, WhatExists, LoopLife, StoppedIsClean, Starting,
           Stopping
<1> QED
  BY <1>1, ServerInvariant, PTL

\* Up to the exit of the program, when stop() is called with the consumers registered,
\* the maps without a mutex are never changed while they are read, and no worker
\* triggers an event of a scheduler that stop() has deleted.
THEOREM SafeUntilExit == Spec => []RacesOnlyAtExit
<1>1. IInv => MapsRacedOnlyAtExit
  BY DEF IInv, TypeOK, WhenRunning, LoopLife, WorkersConfined, MapsRacedOnlyAtExit,
         Stopping
<1>2. IInv => FreedOnlyAtExit
  BY DEF IInv, TypeOK, WhenRunning, WhatExists, WorkersConfined, FreedOnlyAtExit,
         Stopping
<1>3. IInv => RacesOnlyAtExit
  BY <1>1, <1>2 DEF RacesOnlyAtExit
<1> QED
  BY <1>3, ServerInvariant, PTL
=============================================================================
