--------------------------- MODULE StreamFetcherProofs ---------------------------
(***************************************************************************)
(* What StreamFetcher promises for any set of fetchers and any buffer of   *)
(* the encoder: the types, that every pack array is freed and every stream *)
(* given back unless the encoder refuses it, that no thread works behind a *)
(* stopped fetcher or into a destroyed distributor, and that only a failed *)
(* descriptor ends the process.                                            *)
(***************************************************************************)
EXTENDS StreamFetcher, TLAPS

\* A thread that was told of a frame finds it: nobody else takes frames.
FramePolled ==
    \A f \in Fetchers : thread[f] \in {"fetch", "get", "drain"} => channel[f] # <<>>

\* The manager joins a fetcher it has told to stop, during an operation that
\* stops fetchers.
Joining ==
    joining # NoFetcher =>
       /\ op \in {"stop", "replace", "destroy"}
       /\ joining \in todo
       /\ ~running[joining]
       /\ thread[joining] # "none"

\* Fetchers the destructor is done with have no thread.
Gone ==
    op = "destroy" => \A f \in Fetchers \ todo : thread[f] = "none"

\* The distributors go when all the fetchers are gone.
DistributorsLast == ~distributors => op = "destroy" /\ todo = {}

IInv ==
    /\ TypeOK
    /\ FramePolled
    /\ StreamsBalanced
    /\ RunningMeansFetching
    /\ Joining
    /\ Gone
    /\ DistributorsLast
    /\ AbortsOnlyAfterFailedOpen

-----------------------------------------------------------------------------
(* The inductive invariant *)

\* A thread that goes on does not disturb what the manager knows of the threads.
LEMMA ThreadGoesOn ==
  ASSUME IInv, NEW f \in Fetchers, NEW from \in Alive, NEW to \in ThreadState \ {"none"},
         Go(f, from, to), UNCHANGED mainVars,
         \A g \in Fetchers : running'[g] => running[g]
  PROVE  /\ Joining' /\ Gone' /\ DistributorsLast' /\ AbortsOnlyAfterFailedOpen'
         /\ thread' \in [Fetchers -> ThreadState]
<1>1. /\ thread \in [Fetchers -> ThreadState]
      /\ thread' = [thread EXCEPT ![f] = to]
      /\ thread[f] # "none"
  BY DEF IInv, TypeOK, Go, Alive
<1>2. UNCHANGED <<op, todo, joining, distributors>>
  BY DEF mainVars
<1>3. Joining'
  BY <1>1, <1>2, FetcherAssumption DEF IInv, Joining, TypeOK
<1>4. Gone'
  BY <1>1, <1>2 DEF IInv, Gone
<1>5. DistributorsLast'
  BY <1>2 DEF IInv, DistributorsLast
<1>6. AbortsOnlyAfterFailedOpen'
  BY <1>2 DEF Go, Process, AbortsOnlyAfterFailedOpen
<1> QED
  BY <1>1, <1>3, <1>4, <1>5, <1>6


\* Every step of the threads, the encoder and the manager preserves the invariant.
LEMMA Inductive == IInv /\ [Next]_vars => IInv'
<1> SUFFICES ASSUME IInv, [Next]_vars PROVE IInv'
  OBVIOUS
<1> USE FetcherAssumption
<1>1. ASSUME NEW f \in Fetchers, Open(f) PROVE IInv'
  <2>1. Go(f, "open", "loop") /\ UNCHANGED mainVars
    BY <1>1 DEF Open
  <2>2. \A g \in Fetchers : running'[g] => running[g]
    BY <1>1 DEF Open, IInv, TypeOK
  <2>3. /\ Joining' /\ Gone' /\ DistributorsLast' /\ AbortsOnlyAfterFailedOpen'
        /\ thread' \in [Fetchers -> ThreadState]
    <3>1. "open" \in Alive /\ "loop" \in ThreadState \ {"none"}
      BY DEF Alive, ThreadState
    <3> QED
      BY <2>1, <2>2, <3>1, ThreadGoesOn
  <2>4. TypeOK'
    BY <1>1, <2>3 DEF Open, IInv, TypeOK, StreamsBalanced, FramePolled, Go,
       fetchVars, mainVars
  <2>5. FramePolled'
    BY <1>1 DEF Open, IInv, TypeOK, FramePolled, Go, fetchVars, mainVars
  <2>6. StreamsBalanced'
    BY <1>1 DEF Open, IInv, TypeOK, StreamsBalanced, Go, fetchVars, mainVars
  <2>7. RunningMeansFetching'
    BY <1>1 DEF Open, IInv, TypeOK, RunningMeansFetching, Go, Process, Alive,
       ThreadState, fetchVars, mainVars
  <2> QED
    BY <2>3, <2>4, <2>5, <2>6, <2>7 DEF IInv
<1>2. ASSUME NEW f \in Fetchers, Loop(f) PROVE IInv'
  <2>1. Go(f, "loop", IF running[f] THEN "poll" ELSE "returned") /\ UNCHANGED mainVars
    BY <1>2 DEF Loop
  <2>2. \A g \in Fetchers : running'[g] => running[g]
    BY <1>2 DEF Loop, IInv, TypeOK
  <2>3. /\ Joining' /\ Gone' /\ DistributorsLast' /\ AbortsOnlyAfterFailedOpen'
        /\ thread' \in [Fetchers -> ThreadState]
    <3>1. "loop" \in Alive /\ (IF running[f] THEN "poll" ELSE "returned") \in ThreadState \ {"none"}
      BY DEF Alive, ThreadState
    <3> QED
      BY <2>1, <2>2, <3>1, ThreadGoesOn
  <2>4. TypeOK'
    BY <1>2, <2>3 DEF Loop, IInv, TypeOK, StreamsBalanced, FramePolled, Go,
       fetchVars, mainVars
  <2>5. FramePolled'
    BY <1>2 DEF Loop, IInv, TypeOK, FramePolled, Go, fetchVars, mainVars
  <2>6. StreamsBalanced'
    BY <1>2 DEF Loop, IInv, TypeOK, StreamsBalanced, Go, fetchVars, mainVars
  <2>7. RunningMeansFetching'
    BY <1>2 DEF Loop, IInv, TypeOK, RunningMeansFetching, Go, Process, Alive,
       ThreadState, fetchVars, mainVars
  <2> QED
    BY <2>3, <2>4, <2>5, <2>6, <2>7 DEF IInv
<1>3. ASSUME NEW f \in Fetchers, PollNothing(f) PROVE IInv'
  <2>1. Go(f, "poll", "loop") /\ UNCHANGED mainVars
    BY <1>3 DEF PollNothing
  <2>2. \A g \in Fetchers : running'[g] => running[g]
    BY <1>3 DEF PollNothing, IInv, TypeOK
  <2>3. /\ Joining' /\ Gone' /\ DistributorsLast' /\ AbortsOnlyAfterFailedOpen'
        /\ thread' \in [Fetchers -> ThreadState]
    <3>1. "poll" \in Alive /\ "loop" \in ThreadState \ {"none"}
      BY DEF Alive, ThreadState
    <3> QED
      BY <2>1, <2>2, <3>1, ThreadGoesOn
  <2>4. TypeOK'
    BY <1>3, <2>3 DEF PollNothing, IInv, TypeOK, StreamsBalanced, FramePolled, Go,
       fetchVars, mainVars
  <2>5. FramePolled'
    BY <1>3 DEF PollNothing, IInv, TypeOK, FramePolled, Go, fetchVars, mainVars
  <2>6. StreamsBalanced'
    BY <1>3 DEF PollNothing, IInv, TypeOK, StreamsBalanced, Go, fetchVars, mainVars
  <2>7. RunningMeansFetching'
    BY <1>3 DEF PollNothing, IInv, TypeOK, RunningMeansFetching, Go, Process, Alive,
       ThreadState, fetchVars, mainVars
  <2> QED
    BY <2>3, <2>4, <2>5, <2>6, <2>7 DEF IInv
<1>4. ASSUME NEW f \in Fetchers, PollFrame(f) PROVE IInv'
  <2>1. Go(f, "poll", "fetch") /\ UNCHANGED mainVars
    BY <1>4 DEF PollFrame
  <2>2. \A g \in Fetchers : running'[g] => running[g]
    BY <1>4 DEF PollFrame, IInv, TypeOK
  <2>3. /\ Joining' /\ Gone' /\ DistributorsLast' /\ AbortsOnlyAfterFailedOpen'
        /\ thread' \in [Fetchers -> ThreadState]
    <3>1. "poll" \in Alive /\ "fetch" \in ThreadState \ {"none"}
      BY DEF Alive, ThreadState
    <3> QED
      BY <2>1, <2>2, <3>1, ThreadGoesOn
  <2>4. TypeOK'
    BY <1>4, <2>3 DEF PollFrame, IInv, TypeOK, StreamsBalanced, FramePolled, Go,
       fetchVars, mainVars
  <2>5. FramePolled'
    BY <1>4 DEF PollFrame, IInv, TypeOK, FramePolled, Go, fetchVars, mainVars
  <2>6. StreamsBalanced'
    BY <1>4 DEF PollFrame, IInv, TypeOK, StreamsBalanced, Go, fetchVars, mainVars
  <2>7. RunningMeansFetching'
    BY <1>4 DEF PollFrame, IInv, TypeOK, RunningMeansFetching, Go, Process, Alive,
       ThreadState, fetchVars, mainVars
  <2> QED
    BY <2>3, <2>4, <2>5, <2>6, <2>7 DEF IInv
<1>5. ASSUME NEW f \in Fetchers, OpenFails(f) PROVE IInv'
  <2>1. Go(f, "open", "returned") /\ UNCHANGED mainVars
    BY <1>5 DEF OpenFails
  <2>2. \A g \in Fetchers : running'[g] => running[g]
    BY <1>5 DEF OpenFails, IInv, TypeOK
  <2>3. /\ Joining' /\ Gone' /\ DistributorsLast' /\ AbortsOnlyAfterFailedOpen'
        /\ thread' \in [Fetchers -> ThreadState]
    <3>1. "open" \in Alive /\ "returned" \in ThreadState \ {"none"}
      BY DEF Alive, ThreadState
    <3> QED
      BY <2>1, <2>2, <3>1, ThreadGoesOn
  <2>4. TypeOK'
    BY <1>5, <2>3 DEF OpenFails, IInv, TypeOK, StreamsBalanced, FramePolled, Go,
       fetchVars, mainVars
  <2>5. FramePolled'
    BY <1>5 DEF OpenFails, IInv, TypeOK, FramePolled, Go, fetchVars, mainVars
  <2>6. StreamsBalanced'
    BY <1>5 DEF OpenFails, IInv, TypeOK, StreamsBalanced, Go, fetchVars, mainVars
  <2>7. RunningMeansFetching'
    BY <1>5 DEF OpenFails, IInv, TypeOK, RunningMeansFetching, Go, Process, Alive,
       ThreadState, fetchVars, mainVars
  <2> QED
    BY <2>3, <2>4, <2>5, <2>6, <2>7 DEF IInv
<1>6. ASSUME NEW f \in Fetchers, FetchFails(f) PROVE IInv'
  <2>1. Go(f, "fetch", "loop") /\ UNCHANGED mainVars
    BY <1>6 DEF FetchFails
  <2>2. \A g \in Fetchers : running'[g] => running[g]
    BY <1>6 DEF FetchFails, IInv, TypeOK
  <2>3. /\ Joining' /\ Gone' /\ DistributorsLast' /\ AbortsOnlyAfterFailedOpen'
        /\ thread' \in [Fetchers -> ThreadState]
    <3>1. "fetch" \in Alive /\ "loop" \in ThreadState \ {"none"}
      BY DEF Alive, ThreadState
    <3> QED
      BY <2>1, <2>2, <3>1, ThreadGoesOn
  <2>4. TypeOK'
    BY <1>6, <2>3 DEF FetchFails, IInv, TypeOK, StreamsBalanced, FramePolled, Go,
       fetchVars, mainVars
  <2>5. FramePolled'
    BY <1>6 DEF FetchFails, IInv, TypeOK, FramePolled, Go, fetchVars, mainVars
  <2>6. StreamsBalanced'
    BY <1>6 DEF FetchFails, IInv, TypeOK, StreamsBalanced, Go, fetchVars, mainVars
  <2>7. RunningMeansFetching'
    BY <1>6 DEF FetchFails, IInv, TypeOK, RunningMeansFetching, Go, Process, Alive,
       ThreadState, fetchVars, mainVars
  <2> QED
    BY <2>3, <2>4, <2>5, <2>6, <2>7 DEF IInv
<1>7. ASSUME NEW f \in Fetchers, Allocate(f) PROVE IInv'
  <2>1. Go(f, "fetch", IF Head(channel[f]) = "fits" THEN "get" ELSE "drain") /\ UNCHANGED mainVars
    BY <1>7 DEF Allocate
  <2>2. \A g \in Fetchers : running'[g] => running[g]
    BY <1>7 DEF Allocate, IInv, TypeOK
  <2>3. /\ Joining' /\ Gone' /\ DistributorsLast' /\ AbortsOnlyAfterFailedOpen'
        /\ thread' \in [Fetchers -> ThreadState]
    <3>1. /\ "fetch" \in Alive
          /\ (IF Head(channel[f]) = "fits" THEN "get" ELSE "drain") \in ThreadState \ {"none"}
      BY DEF Alive, ThreadState
    <3> QED
      BY <2>1, <2>2, <3>1, ThreadGoesOn
  <2>4. TypeOK'
    BY <1>7, <2>3 DEF Allocate, IInv, TypeOK, StreamsBalanced, FramePolled, Go,
       fetchVars, mainVars
  <2>5. FramePolled'
    BY <1>7 DEF Allocate, IInv, TypeOK, FramePolled, Go, fetchVars, mainVars
  <2>6. StreamsBalanced'
    <3>1. \A g \in Fetchers \ {f} :
             /\ thread'[g] = thread[g] /\ packs'[g] = packs[g]
             /\ held'[g] = held[g] /\ refused'[g] = refused[g]
      BY <1>7 DEF Allocate, Go, IInv, TypeOK
    <3>2. thread[f] = "fetch" /\ thread'[f] \in {"get", "drain"}
      BY <1>7 DEF Allocate, Go, IInv, TypeOK
    <3>3. packs'[f] = packs[f] + 1 /\ held'[f] = held[f] /\ refused'[f] = refused[f]
      BY <1>7 DEF Allocate, IInv, TypeOK
    <3>4. /\ packs[f] \in Nat /\ held[f] \in Nat /\ refused[f] \in Nat
          /\ packs'[f] \in Nat /\ held'[f] \in Nat /\ refused'[f] \in Nat
      BY <2>4 DEF IInv, TypeOK
    <3> QED
      BY <3>1, <3>2, <3>3, <3>4 DEF IInv, StreamsBalanced
  <2>7. RunningMeansFetching'
    BY <1>7 DEF Allocate, IInv, TypeOK, RunningMeansFetching, Go, Process, Alive,
       ThreadState, fetchVars, mainVars
  <2> QED
    BY <2>3, <2>4, <2>5, <2>6, <2>7 DEF IInv
<1>8. ASSUME NEW f \in Fetchers, GetFails(f) PROVE IInv'
  <2>1. (Go(f, "get", "loop") \/ Go(f, "drain", "loop")) /\ UNCHANGED mainVars
    BY <1>8 DEF GetFails
  <2>2. \A g \in Fetchers : running'[g] => running[g]
    BY <1>8 DEF GetFails, IInv, TypeOK
  <2>3. /\ Joining' /\ Gone' /\ DistributorsLast' /\ AbortsOnlyAfterFailedOpen'
        /\ thread' \in [Fetchers -> ThreadState]
    <3>1. "get" \in Alive /\ "drain" \in Alive /\ "loop" \in ThreadState \ {"none"}
      BY DEF Alive, ThreadState
    <3> QED
      BY <2>1, <2>2, <3>1, ThreadGoesOn
  <2>4. TypeOK'
    BY <1>8, <2>3 DEF GetFails, IInv, TypeOK, StreamsBalanced, FramePolled, Go,
       fetchVars, mainVars
  <2>5. FramePolled'
    BY <1>8 DEF GetFails, IInv, TypeOK, FramePolled, Go, fetchVars, mainVars
  <2>6. StreamsBalanced'
    <3>1. \A g \in Fetchers \ {f} :
             /\ thread'[g] = thread[g] /\ packs'[g] = packs[g]
             /\ held'[g] = held[g] /\ refused'[g] = refused[g]
      BY <1>8 DEF GetFails, Go, IInv, TypeOK
    <3>2. thread[f] \in {"get", "drain"} /\ thread'[f] = "loop"
      BY <1>8 DEF GetFails, Go, IInv, TypeOK
    <3>3. packs'[f] = packs[f] - 1 /\ held'[f] = held[f] /\ refused'[f] = refused[f]
      BY <1>8 DEF GetFails, IInv, TypeOK
    <3>4. /\ packs[f] \in Nat /\ held[f] \in Nat /\ refused[f] \in Nat
          /\ packs'[f] \in Nat /\ held'[f] \in Nat /\ refused'[f] \in Nat
      BY <2>4 DEF IInv, TypeOK
    <3> QED
      BY <3>1, <3>2, <3>3, <3>4 DEF IInv, StreamsBalanced
  <2>7. RunningMeansFetching'
    BY <1>8 DEF GetFails, IInv, TypeOK, RunningMeansFetching, Go, Process, Alive,
       ThreadState, fetchVars, mainVars
  <2> QED
    BY <2>3, <2>4, <2>5, <2>6, <2>7 DEF IInv
<1>9. ASSUME NEW f \in Fetchers, Drain(f) PROVE IInv'
  <2>1. Go(f, "drain", "drained") /\ UNCHANGED mainVars
    BY <1>9 DEF Drain
  <2>2. \A g \in Fetchers : running'[g] => running[g]
    BY <1>9 DEF Drain, GetStream, IInv, TypeOK
  <2>3. /\ Joining' /\ Gone' /\ DistributorsLast' /\ AbortsOnlyAfterFailedOpen'
        /\ thread' \in [Fetchers -> ThreadState]
    <3>1. "drain" \in Alive /\ "drained" \in ThreadState \ {"none"}
      BY DEF Alive, ThreadState
    <3> QED
      BY <2>1, <2>2, <3>1, ThreadGoesOn
  <2>4. TypeOK'
    BY <1>9, <2>3 DEF Drain, GetStream, IInv, TypeOK, StreamsBalanced, FramePolled, Go,
       fetchVars, mainVars
  <2>5. FramePolled'
    BY <1>9 DEF Drain, GetStream, IInv, TypeOK, FramePolled, Go, fetchVars, mainVars
  <2>6. StreamsBalanced'
    <3>1. \A g \in Fetchers \ {f} :
             /\ thread'[g] = thread[g] /\ packs'[g] = packs[g]
             /\ held'[g] = held[g] /\ refused'[g] = refused[g]
      BY <1>9 DEF Drain, GetStream, Go, IInv, TypeOK
    <3>2. thread[f] = "drain" /\ thread'[f] = "drained"
      BY <1>9 DEF Drain, Go, IInv, TypeOK
    <3>3. packs'[f] = packs[f] /\ held'[f] = held[f] + 1 /\ refused'[f] = refused[f]
      BY <1>9 DEF Drain, GetStream, IInv, TypeOK
    <3>4. /\ packs[f] \in Nat /\ held[f] \in Nat /\ refused[f] \in Nat
          /\ packs'[f] \in Nat /\ held'[f] \in Nat /\ refused'[f] \in Nat
      BY <2>4 DEF IInv, TypeOK
    <3> QED
      BY <3>1, <3>2, <3>3, <3>4 DEF IInv, StreamsBalanced
  <2>7. RunningMeansFetching'
    BY <1>9 DEF Drain, GetStream, IInv, TypeOK, RunningMeansFetching, Go, Process,
       Alive,
       ThreadState, fetchVars, mainVars
  <2> QED
    BY <2>3, <2>4, <2>5, <2>6, <2>7 DEF IInv
<1>10. ASSUME NEW f \in Fetchers, DrainRelease(f) PROVE IInv'
  <2>1. Go(f, "drained", "loop") /\ UNCHANGED mainVars
    BY <1>10 DEF DrainRelease
  <2>2. \A g \in Fetchers : running'[g] => running[g]
    BY <1>10 DEF DrainRelease, GiveBack, IInv, TypeOK
  <2>3. /\ Joining' /\ Gone' /\ DistributorsLast' /\ AbortsOnlyAfterFailedOpen'
        /\ thread' \in [Fetchers -> ThreadState]
    <3>1. "drained" \in Alive /\ "loop" \in ThreadState \ {"none"}
      BY DEF Alive, ThreadState
    <3> QED
      BY <2>1, <2>2, <3>1, ThreadGoesOn
  <2>4. TypeOK'
    <3>1. packs' \in [Fetchers -> Nat]
      BY <1>10 DEF DrainRelease, GiveBack, IInv, TypeOK, StreamsBalanced, Go
    <3>2. held' \in [Fetchers -> Nat] /\ refused' \in [Fetchers -> Nat]
      <4>1. held[f] \in Nat /\ refused[f] \in Nat /\ held[f] = refused[f] + 1
        BY <1>10 DEF DrainRelease, IInv, TypeOK, StreamsBalanced, Go
      <4>2. held[f] - 1 \in Nat /\ refused[f] + 1 \in Nat
        BY <4>1
      <4>3. /\ held \in [Fetchers -> Nat] /\ refused \in [Fetchers -> Nat]
            /\ \/ held' = [held EXCEPT ![f] = held[f] - 1] /\ refused' = refused
               \/ refused' = [refused EXCEPT ![f] = refused[f] + 1] /\ held' = held
        BY <1>10 DEF DrainRelease, GiveBack, IInv, TypeOK
      <4> QED
        BY <4>2, <4>3
    <3> QED
      BY <1>10, <2>3, <3>1, <3>2 DEF DrainRelease, IInv, TypeOK, mainVars
  <2>5. FramePolled'
    BY <1>10 DEF DrainRelease, GiveBack, IInv, TypeOK, FramePolled, Go, fetchVars,
       mainVars
  <2>6. StreamsBalanced'
    <3>1. \A g \in Fetchers \ {f} :
             /\ thread'[g] = thread[g] /\ packs'[g] = packs[g]
             /\ held'[g] = held[g] /\ refused'[g] = refused[g]
      BY <1>10 DEF DrainRelease, GiveBack, Go, IInv, TypeOK
    <3>2. thread[f] = "drained" /\ thread'[f] = "loop"
      BY <1>10 DEF DrainRelease, Go, IInv, TypeOK
    <3>3. packs'[f] = 0 /\ held'[f] = refused'[f]
      <4>1. packs[f] = 1 /\ held[f] = refused[f] + 1 /\ refused[f] \in Nat
        BY <3>2 DEF IInv, StreamsBalanced, TypeOK
      <4>2. /\ packs'[f] = packs[f] - 1
            /\ \/ held'[f] = held[f] - 1 /\ refused'[f] = refused[f]
               \/ held'[f] = held[f] /\ refused'[f] = refused[f] + 1
        BY <1>10 DEF DrainRelease, GiveBack, IInv, TypeOK
      <4> QED
        BY <4>1, <4>2
    <3>4. refused'[f] \in Nat
      BY <2>4 DEF TypeOK
    <3>5. /\ \A g \in Fetchers \ {f} :
                /\ packs'[g] = IF thread'[g] \in {"get", "drain", "drained", "copy", "release"}
                               THEN 1 ELSE 0
                /\ held'[g] = refused'[g]
                      + IF thread'[g] \in {"drained", "copy", "release"} THEN 1 ELSE 0
          /\ /\ packs'[f] = IF thread'[f] \in {"get", "drain", "drained", "copy", "release"}
                            THEN 1 ELSE 0
             /\ held'[f] = refused'[f]
                      + IF thread'[f] \in {"drained", "copy", "release"} THEN 1 ELSE 0
      BY <3>1, <3>2, <3>3, <3>4 DEF IInv, StreamsBalanced
    <3> QED
      BY <3>5 DEF StreamsBalanced
  <2>7. RunningMeansFetching'
    BY <1>10 DEF DrainRelease, GiveBack, IInv, TypeOK, RunningMeansFetching, Go,
       Process, Alive,
       ThreadState, fetchVars, mainVars
  <2> QED
    BY <2>3, <2>4, <2>5, <2>6, <2>7 DEF IInv
<1>11. ASSUME NEW f \in Fetchers, Get(f) PROVE IInv'
  <2>1. Go(f, "get", "copy") /\ UNCHANGED mainVars
    BY <1>11 DEF Get
  <2>2. \A g \in Fetchers : running'[g] => running[g]
    BY <1>11 DEF Get, GetStream, IInv, TypeOK
  <2>3. /\ Joining' /\ Gone' /\ DistributorsLast' /\ AbortsOnlyAfterFailedOpen'
        /\ thread' \in [Fetchers -> ThreadState]
    <3>1. "get" \in Alive /\ "copy" \in ThreadState \ {"none"}
      BY DEF Alive, ThreadState
    <3> QED
      BY <2>1, <2>2, <3>1, ThreadGoesOn
  <2>4. TypeOK'
    BY <1>11, <2>3 DEF Get, GetStream, IInv, TypeOK, StreamsBalanced, FramePolled, Go,
       fetchVars, mainVars
  <2>5. FramePolled'
    BY <1>11 DEF Get, GetStream, IInv, TypeOK, FramePolled, Go, fetchVars, mainVars
  <2>6. StreamsBalanced'
    <3>1. \A g \in Fetchers \ {f} :
             /\ thread'[g] = thread[g] /\ packs'[g] = packs[g]
             /\ held'[g] = held[g] /\ refused'[g] = refused[g]
      BY <1>11 DEF Get, GetStream, Go, IInv, TypeOK
    <3>2. thread[f] = "get" /\ thread'[f] = "copy"
      BY <1>11 DEF Get, Go, IInv, TypeOK
    <3>3. packs'[f] = packs[f] /\ held'[f] = held[f] + 1 /\ refused'[f] = refused[f]
      BY <1>11 DEF Get, GetStream, IInv, TypeOK
    <3>4. /\ packs[f] \in Nat /\ held[f] \in Nat /\ refused[f] \in Nat
          /\ packs'[f] \in Nat /\ held'[f] \in Nat /\ refused'[f] \in Nat
      BY <2>4 DEF IInv, TypeOK
    <3> QED
      BY <3>1, <3>2, <3>3, <3>4 DEF IInv, StreamsBalanced
  <2>7. RunningMeansFetching'
    BY <1>11 DEF Get, GetStream, IInv, TypeOK, RunningMeansFetching, Go, Process, Alive,
       ThreadState, fetchVars, mainVars
  <2> QED
    BY <2>3, <2>4, <2>5, <2>6, <2>7 DEF IInv
<1>12. ASSUME NEW f \in Fetchers, Copy(f) PROVE IInv'
  <2>1. Go(f, "copy", "release") /\ UNCHANGED mainVars
    BY <1>12 DEF Copy
  <2>2. \A g \in Fetchers : running'[g] => running[g]
    BY <1>12 DEF Copy, IInv, TypeOK
  <2>3. /\ Joining' /\ Gone' /\ DistributorsLast' /\ AbortsOnlyAfterFailedOpen'
        /\ thread' \in [Fetchers -> ThreadState]
    <3>1. "copy" \in Alive /\ "release" \in ThreadState \ {"none"}
      BY DEF Alive, ThreadState
    <3> QED
      BY <2>1, <2>2, <3>1, ThreadGoesOn
  <2>4. TypeOK'
    BY <1>12, <2>3 DEF Copy, IInv, TypeOK, StreamsBalanced, FramePolled, Go,
       fetchVars, mainVars
  <2>5. FramePolled'
    BY <1>12 DEF Copy, IInv, TypeOK, FramePolled, Go, fetchVars, mainVars
  <2>6. StreamsBalanced'
    BY <1>12 DEF Copy, IInv, TypeOK, StreamsBalanced, Go, fetchVars, mainVars
  <2>7. RunningMeansFetching'
    BY <1>12 DEF Copy, IInv, TypeOK, RunningMeansFetching, Go, Process, Alive,
       ThreadState, fetchVars, mainVars
  <2> QED
    BY <2>3, <2>4, <2>5, <2>6, <2>7 DEF IInv
<1>13. ASSUME NEW f \in Fetchers, Release(f) PROVE IInv'
  <2>1. Go(f, "release", "push") /\ UNCHANGED mainVars
    BY <1>13 DEF Release
  <2>2. \A g \in Fetchers : running'[g] => running[g]
    BY <1>13 DEF Release, GiveBack, IInv, TypeOK
  <2>3. /\ Joining' /\ Gone' /\ DistributorsLast' /\ AbortsOnlyAfterFailedOpen'
        /\ thread' \in [Fetchers -> ThreadState]
    <3>1. "release" \in Alive /\ "push" \in ThreadState \ {"none"}
      BY DEF Alive, ThreadState
    <3> QED
      BY <2>1, <2>2, <3>1, ThreadGoesOn
  <2>4. TypeOK'
    <3>1. packs' \in [Fetchers -> Nat]
      BY <1>13 DEF Release, GiveBack, IInv, TypeOK, StreamsBalanced, Go
    <3>2. held' \in [Fetchers -> Nat] /\ refused' \in [Fetchers -> Nat]
      <4>1. held[f] \in Nat /\ refused[f] \in Nat /\ held[f] = refused[f] + 1
        BY <1>13 DEF Release, IInv, TypeOK, StreamsBalanced, Go
      <4>2. held[f] - 1 \in Nat /\ refused[f] + 1 \in Nat
        BY <4>1
      <4>3. /\ held \in [Fetchers -> Nat] /\ refused \in [Fetchers -> Nat]
            /\ \/ held' = [held EXCEPT ![f] = held[f] - 1] /\ refused' = refused
               \/ refused' = [refused EXCEPT ![f] = refused[f] + 1] /\ held' = held
        BY <1>13 DEF Release, GiveBack, IInv, TypeOK
      <4> QED
        BY <4>2, <4>3
    <3> QED
      BY <1>13, <2>3, <3>1, <3>2 DEF Release, IInv, TypeOK, mainVars
  <2>5. FramePolled'
    BY <1>13 DEF Release, GiveBack, IInv, TypeOK, FramePolled, Go, fetchVars, mainVars
  <2>6. StreamsBalanced'
    <3>1. \A g \in Fetchers \ {f} :
             /\ thread'[g] = thread[g] /\ packs'[g] = packs[g]
             /\ held'[g] = held[g] /\ refused'[g] = refused[g]
      BY <1>13 DEF Release, GiveBack, Go, IInv, TypeOK
    <3>2. thread[f] = "release" /\ thread'[f] = "push"
      BY <1>13 DEF Release, Go, IInv, TypeOK
    <3>3. packs'[f] = 0 /\ held'[f] = refused'[f]
      <4>1. packs[f] = 1 /\ held[f] = refused[f] + 1 /\ refused[f] \in Nat
        BY <3>2 DEF IInv, StreamsBalanced, TypeOK
      <4>2. /\ packs'[f] = packs[f] - 1
            /\ \/ held'[f] = held[f] - 1 /\ refused'[f] = refused[f]
               \/ held'[f] = held[f] /\ refused'[f] = refused[f] + 1
        BY <1>13 DEF Release, GiveBack, IInv, TypeOK
      <4> QED
        BY <4>1, <4>2
    <3>4. refused'[f] \in Nat
      BY <2>4 DEF TypeOK
    <3>5. /\ \A g \in Fetchers \ {f} :
                /\ packs'[g] = IF thread'[g] \in {"get", "drain", "drained", "copy", "release"}
                               THEN 1 ELSE 0
                /\ held'[g] = refused'[g]
                      + IF thread'[g] \in {"drained", "copy", "release"} THEN 1 ELSE 0
          /\ /\ packs'[f] = IF thread'[f] \in {"get", "drain", "drained", "copy", "release"}
                            THEN 1 ELSE 0
             /\ held'[f] = refused'[f]
                      + IF thread'[f] \in {"drained", "copy", "release"} THEN 1 ELSE 0
      BY <3>1, <3>2, <3>3, <3>4 DEF IInv, StreamsBalanced
    <3> QED
      BY <3>5 DEF StreamsBalanced
  <2>7. RunningMeansFetching'
    BY <1>13 DEF Release, GiveBack, IInv, TypeOK, RunningMeansFetching, Go, Process,
       Alive,
       ThreadState, fetchVars, mainVars
  <2> QED
    BY <2>3, <2>4, <2>5, <2>6, <2>7 DEF IInv
<1>14. ASSUME NEW f \in Fetchers, Push(f) PROVE IInv'
  <2>1. Go(f, "push", "loop") /\ UNCHANGED mainVars
    BY <1>14 DEF Push
  <2>2. \A g \in Fetchers : running'[g] => running[g]
    BY <1>14 DEF Push, IInv, TypeOK
  <2>3. /\ Joining' /\ Gone' /\ DistributorsLast' /\ AbortsOnlyAfterFailedOpen'
        /\ thread' \in [Fetchers -> ThreadState]
    <3>1. "push" \in Alive /\ "loop" \in ThreadState \ {"none"}
      BY DEF Alive, ThreadState
    <3> QED
      BY <2>1, <2>2, <3>1, ThreadGoesOn
  <2>4. TypeOK'
    BY <1>14, <2>3 DEF Push, IInv, TypeOK, StreamsBalanced, FramePolled, Go,
       fetchVars, mainVars
  <2>5. FramePolled'
    BY <1>14 DEF Push, IInv, TypeOK, FramePolled, Go, fetchVars, mainVars
  <2>6. StreamsBalanced'
    BY <1>14 DEF Push, IInv, TypeOK, StreamsBalanced, Go, fetchVars, mainVars
  <2>7. RunningMeansFetching'
    BY <1>14 DEF Push, IInv, TypeOK, RunningMeansFetching, Go, Process, Alive,
       ThreadState, fetchVars, mainVars
  <2> QED
    BY <2>3, <2>4, <2>5, <2>6, <2>7 DEF IInv
<1>15. ASSUME NEW f \in Fetchers, NEW size \in Sizes, Encode(f, size) PROVE IInv'
  <2>1. /\ channel' \in [Fetchers -> Seq(Sizes)]
        /\ channel'[f] = Append(channel[f], size)
        /\ \A g \in Fetchers \ {f} : channel'[g] = channel[g]
    BY <1>15 DEF Encode, IInv, TypeOK
  <2>2. Append(channel[f], size) # <<>>
    <3>1. channel[f] \in Seq(Sizes)
      BY <1>15 DEF IInv, TypeOK
    <3>2. Len(Append(channel[f], size)) = Len(channel[f]) + 1 /\ Len(channel[f]) \in Nat
      BY <3>1
    <3>3. ASSUME Append(channel[f], size) = <<>> PROVE FALSE
      <4>1. Len(<<>>) = 0
        OBVIOUS
      <4>2. Len(Append(channel[f], size)) = 0
        BY <3>3, <4>1, Zenon
      <4> QED
        BY <3>2, <4>2
    <3> QED
      BY <3>3
  <2>3. FramePolled'
    BY <2>1, <2>2, <1>15 DEF Encode, IInv, FramePolled
  <2> QED
    BY <1>15, <2>1, <2>3 DEF Encode, IInv, TypeOK, mainVars, StreamsBalanced,
       RunningMeansFetching, Joining,
       Gone, DistributorsLast, AbortsOnlyAfterFailedOpen
<1>16. ASSUME NEW name \in {"start", "stop", "replace", "destroy"}, NEW fs \in SUBSET Fetchers,
             name = "destroy" => fs = Fetchers, Call(name, fs) PROVE IInv'
  <2>1. TypeOK'
    BY <1>16 DEF Call, IInv, TypeOK, fetchVars, ThreadState
  <2>2. FramePolled' /\ StreamsBalanced'
    BY <1>16 DEF Call, IInv, TypeOK, FramePolled, StreamsBalanced, fetchVars
  <2>3. RunningMeansFetching'
    BY <1>16 DEF Call, IInv, TypeOK, RunningMeansFetching, Joining, Alive,
       ThreadState, fetchVars
  <2>4. Joining'
    BY <1>16 DEF Call, IInv, TypeOK, Joining, RunningMeansFetching, Alive, fetchVars
  <2>5. Gone'
    BY <1>16 DEF Call, IInv, TypeOK, Gone, Joining, fetchVars
  <2>6. DistributorsLast'
    BY <1>16 DEF Call, IInv, DistributorsLast, Joining, fetchVars
  <2>7. AbortsOnlyAfterFailedOpen'
    BY <1>16 DEF Call, IInv, TypeOK, AbortsOnlyAfterFailedOpen,
       RunningMeansFetching, Joining, Alive,
       ThreadState, fetchVars
  <2> QED
    BY <2>1, <2>2, <2>3, <2>4, <2>5, <2>6, <2>7 DEF IInv
<1>17. ASSUME NEW f \in Fetchers, StartFetcher(f) PROVE IInv'
  <2>1. TypeOK'
    BY <1>17 DEF StartFetcher, IInv, TypeOK, fetchVars, ThreadState
  <2>2. FramePolled' /\ StreamsBalanced'
    BY <1>17 DEF StartFetcher, IInv, TypeOK, FramePolled, StreamsBalanced, fetchVars
  <2>3. RunningMeansFetching'
    BY <1>17 DEF StartFetcher, IInv, TypeOK, RunningMeansFetching, Joining, Alive,
       ThreadState, fetchVars
  <2>4. Joining'
    BY <1>17 DEF StartFetcher, IInv, TypeOK, Joining, RunningMeansFetching, Alive,
       fetchVars
  <2>5. Gone'
    BY <1>17 DEF StartFetcher, IInv, TypeOK, Gone, Joining, fetchVars
  <2>6. DistributorsLast'
    BY <1>17 DEF StartFetcher, IInv, DistributorsLast, Joining, fetchVars
  <2>7. AbortsOnlyAfterFailedOpen'
    BY <1>17 DEF StartFetcher, IInv, TypeOK, AbortsOnlyAfterFailedOpen,
       RunningMeansFetching, Joining, Alive,
       ThreadState, fetchVars
  <2> QED
    BY <2>1, <2>2, <2>3, <2>4, <2>5, <2>6, <2>7 DEF IInv
<1>18. ASSUME NEW f \in Fetchers, StopFetcher(f) PROVE IInv'
  <2>1. TypeOK'
    BY <1>18 DEF StopFetcher, Stopping, IInv, TypeOK, fetchVars, ThreadState
  <2>2. FramePolled' /\ StreamsBalanced'
    BY <1>18 DEF StopFetcher, Stopping, IInv, TypeOK, FramePolled, StreamsBalanced,
       fetchVars
  <2>3. RunningMeansFetching'
    BY <1>18 DEF StopFetcher, Stopping, IInv, TypeOK, RunningMeansFetching, Joining,
       Alive, ThreadState, fetchVars
  <2>4. Joining'
    BY <1>18 DEF StopFetcher, Stopping, IInv, TypeOK, Joining, RunningMeansFetching,
       Alive, fetchVars
  <2>5. Gone'
    BY <1>18 DEF StopFetcher, Stopping, IInv, TypeOK, Gone, Joining, fetchVars
  <2>6. DistributorsLast'
    BY <1>18 DEF StopFetcher, Stopping, IInv, DistributorsLast, Joining, fetchVars
  <2>7. AbortsOnlyAfterFailedOpen'
    BY <1>18 DEF StopFetcher, Stopping, IInv, TypeOK, AbortsOnlyAfterFailedOpen,
       RunningMeansFetching, Joining, Alive,
       ThreadState, fetchVars
  <2> QED
    BY <2>1, <2>2, <2>3, <2>4, <2>5, <2>6, <2>7 DEF IInv
<1>19. ASSUME NEW f \in Fetchers, SkipFetcher(f) PROVE IInv'
  <2>1. TypeOK'
    BY <1>19 DEF SkipFetcher, Stopping, IInv, TypeOK, fetchVars, ThreadState
  <2>2. FramePolled' /\ StreamsBalanced'
    BY <1>19 DEF SkipFetcher, Stopping, IInv, TypeOK, FramePolled, StreamsBalanced,
       fetchVars
  <2>3. RunningMeansFetching'
    BY <1>19 DEF SkipFetcher, Stopping, IInv, TypeOK, RunningMeansFetching, Joining,
       Alive, ThreadState, fetchVars
  <2>4. Joining'
    BY <1>19 DEF SkipFetcher, Stopping, IInv, TypeOK, Joining, RunningMeansFetching,
       Alive, fetchVars
  <2>5. Gone'
    BY <1>19 DEF SkipFetcher, Stopping, IInv, TypeOK, Gone, Joining, fetchVars
  <2>6. DistributorsLast'
    BY <1>19 DEF SkipFetcher, Stopping, IInv, DistributorsLast, Joining, fetchVars
  <2>7. AbortsOnlyAfterFailedOpen'
    BY <1>19 DEF SkipFetcher, Stopping, IInv, TypeOK, AbortsOnlyAfterFailedOpen,
       RunningMeansFetching, Joining, Alive,
       ThreadState, fetchVars
  <2> QED
    BY <2>1, <2>2, <2>3, <2>4, <2>5, <2>6, <2>7 DEF IInv
<1>20. ASSUME JoinFetcher PROVE IInv'
  <2>1. TypeOK'
    BY <1>20 DEF JoinFetcher, IInv, TypeOK, fetchVars, ThreadState
  <2>2. FramePolled' /\ StreamsBalanced'
    BY <1>20 DEF JoinFetcher, IInv, TypeOK, FramePolled, StreamsBalanced, fetchVars
  <2>3. RunningMeansFetching'
    BY <1>20 DEF JoinFetcher, IInv, TypeOK, RunningMeansFetching, Joining, Alive,
       ThreadState, fetchVars
  <2>4. Joining'
    BY <1>20 DEF JoinFetcher, IInv, TypeOK, Joining, RunningMeansFetching, Alive,
       fetchVars
  <2>5. Gone'
    BY <1>20 DEF JoinFetcher, IInv, TypeOK, Gone, Joining, fetchVars
  <2>6. DistributorsLast'
    BY <1>20 DEF JoinFetcher, IInv, DistributorsLast, Joining, fetchVars
  <2>7. AbortsOnlyAfterFailedOpen'
    BY <1>20 DEF JoinFetcher, IInv, TypeOK, AbortsOnlyAfterFailedOpen,
       RunningMeansFetching, Joining, Alive,
       ThreadState, fetchVars
  <2> QED
    BY <2>1, <2>2, <2>3, <2>4, <2>5, <2>6, <2>7 DEF IInv
<1>21. ASSUME Return PROVE IInv'
  <2>1. TypeOK'
    BY <1>21 DEF Return, IInv, TypeOK, fetchVars, ThreadState
  <2>2. FramePolled' /\ StreamsBalanced'
    BY <1>21 DEF Return, IInv, TypeOK, FramePolled, StreamsBalanced, fetchVars
  <2>3. RunningMeansFetching'
    BY <1>21 DEF Return, IInv, TypeOK, RunningMeansFetching, Joining, Alive,
       ThreadState, fetchVars
  <2>4. Joining'
    BY <1>21 DEF Return, IInv, TypeOK, Joining, RunningMeansFetching, Alive,
       fetchVars
  <2>5. Gone'
    BY <1>21 DEF Return, IInv, TypeOK, Gone, Joining, fetchVars
  <2>6. DistributorsLast'
    BY <1>21 DEF Return, IInv, DistributorsLast, Joining, fetchVars
  <2>7. AbortsOnlyAfterFailedOpen'
    BY <1>21 DEF Return, IInv, TypeOK, AbortsOnlyAfterFailedOpen,
       RunningMeansFetching, Joining, Alive,
       ThreadState, fetchVars
  <2> QED
    BY <2>1, <2>2, <2>3, <2>4, <2>5, <2>6, <2>7 DEF IInv
<1>22. ASSUME DestroyDistributors PROVE IInv'
  <2>1. TypeOK'
    BY <1>22 DEF DestroyDistributors, IInv, TypeOK, fetchVars, ThreadState
  <2>2. FramePolled' /\ StreamsBalanced'
    BY <1>22 DEF DestroyDistributors, IInv, TypeOK, FramePolled, StreamsBalanced,
       fetchVars
  <2>3. RunningMeansFetching'
    BY <1>22 DEF DestroyDistributors, IInv, TypeOK, RunningMeansFetching, Joining,
       Alive, ThreadState, fetchVars
  <2>4. Joining'
    BY <1>22 DEF DestroyDistributors, IInv, TypeOK, Joining, RunningMeansFetching,
       Alive, fetchVars
  <2>5. Gone'
    BY <1>22 DEF DestroyDistributors, IInv, TypeOK, Gone, Joining, fetchVars
  <2>6. DistributorsLast'
    BY <1>22 DEF DestroyDistributors, IInv, DistributorsLast, Joining, fetchVars
  <2>7. AbortsOnlyAfterFailedOpen'
    BY <1>22 DEF DestroyDistributors, IInv, TypeOK, AbortsOnlyAfterFailedOpen,
       RunningMeansFetching, Joining, Alive,
       ThreadState, fetchVars
  <2> QED
    BY <2>1, <2>2, <2>3, <2>4, <2>5, <2>6, <2>7 DEF IInv
<1>23. CASE UNCHANGED vars
  BY <1>23 DEF vars, fetchVars, mainVars, IInv, TypeOK, FramePolled,
     StreamsBalanced, RunningMeansFetching,
     Joining, Gone, DistributorsLast, AbortsOnlyAfterFailedOpen
<1> QED
  BY <1>1, <1>2, <1>3, <1>4, <1>5, <1>6, <1>7, <1>8, <1>9, <1>10, <1>11, <1>12,
     <1>13, <1>14, <1>15, <1>16, <1>17, <1>18, <1>19, <1>20, <1>21, <1>22, <1>23 DEF
     Next, Manager, Run

\* The invariant holds throughout.
LEMMA InvariantHolds == Spec => []IInv
<1>1. Init => IInv
  BY FetcherAssumption DEF Init, IInv, TypeOK, FramePolled, StreamsBalanced,
     RunningMeansFetching,
     Joining, Gone, DistributorsLast, AbortsOnlyAfterFailedOpen, Alive, ThreadState
<1> QED
  BY <1>1, Inductive, PTL DEF Spec

-----------------------------------------------------------------------------
(* The theorems *)

\* Every variable keeps its type.
THEOREM TypeCorrect == Spec => []TypeOK
<1>1. IInv => TypeOK
  BY DEF IInv
<1> QED
  BY <1>1, InvariantHolds, PTL

\* Every way through fetchFrame() and releaseFrame(), whichever call fails on it, frees
\* the pack array it allocated, and every stream that was got and is not in hand is one
\* whose release the encoder refused.
THEOREM StreamsGivenBack == Spec => []StreamsBalanced
<1>1. IInv => StreamsBalanced
  BY DEF IInv
<1> QED
  BY <1>1, InvariantHolds, PTL

\* A fetcher says it runs exactly when its thread fetches, except while stop()
\* joins it.
THEOREM NoThreadBehindStop == Spec => []RunningMeansFetching
<1>1. IInv => RunningMeansFetching
  BY DEF IInv
<1> QED
  BY <1>1, InvariantHolds, PTL

\* The distributors outlive every thread that pushes to them.
THEOREM DistributorsOutliveThreads == Spec => []NoPushToDestroyed
<1>1. IInv => NoPushToDestroyed
  BY DEF IInv, Gone, DistributorsLast, NoPushToDestroyed, Alive
<1> QED
  BY <1>1, InvariantHolds, PTL

\* The manager ends the process only over a thread whose descriptor failed.
THEOREM OnlyFailedOpenAborts == Spec => []AbortsOnlyAfterFailedOpen
<1>1. IInv => AbortsOnlyAfterFailedOpen
  BY DEF IInv
<1> QED
  BY <1>1, InvariantHolds, PTL
=============================================================================
