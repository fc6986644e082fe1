---------------------------- MODULE RtspBridgeProofs ----------------------------
(***************************************************************************)
(* What RtspBridge promises for any streams, clients, queue sizes and      *)
(* limits: that no reader is stuck over a queue that has something for it, *)
(* that the sessions counted are those that have a source, and that NAL    *)
(* units leave in order.                                                   *)
(***************************************************************************)
EXTENDS RtspBridge, SequenceTheorems, FiniteSetTheorems, TLAPS

Unit == Seq(Nal) \ {<<>>}

-----------------------------------------------------------------------------
(* RtspFrameQueue *)

\* A queue has room for one access unit at least, whatever size was asked for.
LEMMA CapacityIs == Capacity \in Nat \ {0}
  BY BridgeAssumption DEF Capacity

\* push_access_unit() drops some of the oldest and appends.
LEMMA PushedIs ==
  ASSUME NEW q \in Seq(Unit), NEW au \in Unit
  PROVE  /\ Pushed(q, au) \in Seq(Unit)
         /\ \E d \in 0 .. Len(q) :
               /\ Len(Pushed(q, au)) = Len(q) - d + 1
               /\ \A k \in 1 .. Len(q) - d : Pushed(q, au)[k] = q[k + d]
               /\ Pushed(q, au)[Len(q) - d + 1] = au
<1>0. Len(q) \in Nat /\ Capacity \in Nat \ {0}
  BY LenProperties, CapacityIs
<1>1. CASE Len(q) >= Capacity
  <2> DEFINE d == Len(q) - Capacity + 1
             r == SubSeq(q, d + 1, Len(q))
  <2>1. d \in 1 .. Len(q) /\ d + 1 = Len(q) - Capacity + 2
    BY <1>0, <1>1
  <2>2. Pushed(q, au) = Append(r, au)
    BY <1>1, <2>1 DEF Pushed
  <2> HIDE DEF d
  <2>3. /\ r \in Seq(Unit) /\ Len(r) = Len(q) - d
        /\ \A k \in 1 .. Len(q) - d : r[k] = q[k + d]
    <3>1. /\ \A k \in 1 .. Len(q) : q[k] \in Unit
          /\ d + 1 \in 1 .. Len(q) + 1
      BY <1>0, <2>1, ElementOfSeq
    <3>2. /\ r \in Seq(Unit)
          /\ Len(r) = IF d + 1 <= Len(q) THEN Len(q) - (d + 1) + 1 ELSE 0
          /\ \A k \in 1 .. Len(q) - (d + 1) + 1 : r[k] = q[d + 1 + k - 1]
      BY <1>0, <2>1, <3>1, SubSeqProperties
    <3> HIDE DEF r
    <3> QED
      BY <1>0, <2>1, <3>2
  <2> HIDE DEF r
  <2>4. /\ Append(r, au) \in Seq(Unit) /\ Len(Append(r, au)) = Len(r) + 1
        /\ \A k \in 1 .. Len(r) : Append(r, au)[k] = r[k]
        /\ Append(r, au)[Len(r) + 1] = au
    BY <2>3, AppendProperties
  <2>5. d \in 0 .. Len(q)
    BY <1>0, <2>1
  <2> QED
    BY <2>2, <2>3, <2>4, <2>5
<1>2. CASE ~ (Len(q) >= Capacity)
  <2>1. Pushed(q, au) = Append(q, au)
    BY <1>2 DEF Pushed
  <2>2. /\ Append(q, au) \in Seq(Unit) /\ Len(Append(q, au)) = Len(q) + 1
        /\ \A k \in 1 .. Len(q) : Append(q, au)[k] = q[k]
        /\ Append(q, au)[Len(q) + 1] = au
    BY AppendProperties
  <2>3. 0 \in 0 .. Len(q) /\ Len(q) - 0 = Len(q) /\ \A k \in 1 .. Len(q) : k + 0 = k
    BY <1>0
  <2> QED
    BY <2>1, <2>2, <2>3
<1> QED
  BY <1>1, <1>2

\* The parts of a queue that is not empty.
LEMMA HeadIs ==
  ASSUME NEW q \in Seq(Unit), q # <<>>
  PROVE  /\ Len(q) \in Nat \ {0} /\ Head(q) = q[1] /\ q[1] \in Seq(Nal)
         /\ Len(q[1]) \in Nat \ {0} /\ NextNal(q) = q[1][1] /\ NextNal(q) \in Nal
<1>1. Len(q) \in Nat \ {0} /\ Head(q) = q[1] /\ q[1] \in Unit
  BY LenProperties, EmptySeq, HeadTailProperties, ElementOfSeq
<1>2. q[1] \in Seq(Nal) /\ q[1] # <<>>
  BY <1>1 DEF Unit
<1>3. Len(q[1]) \in Nat \ {0} /\ Head(q[1]) = q[1][1] /\ Head(q[1]) \in Nal
  BY <1>2, LenProperties, EmptySeq, HeadTailProperties
<1> QED
  BY <1>1, <1>2, <1>3 DEF NextNal

\* What is left when the next NAL unit is popped: the last one of an access unit
\* takes the access unit with it.
LEMMA PoppedIs ==
  ASSUME NEW q \in Seq(Unit), q # <<>>
  PROVE  /\ Popped(q) \in Seq(Unit)
         /\ \/ /\ Len(Popped(q)) = Len(q) - 1
               /\ \A k \in 1 .. Len(q) - 1 : Popped(q)[k] = q[k + 1]
            \/ /\ Len(Popped(q)) = Len(q)
               /\ Len(Popped(q)[1]) = Len(q[1]) - 1
               /\ \A j \in 1 .. Len(q[1]) - 1 : Popped(q)[1][j] = q[1][j + 1]
               /\ \A k \in 2 .. Len(q) : Popped(q)[k] = q[k]
<1>1. /\ Len(q) \in Nat \ {0} /\ Head(q) = q[1] /\ q[1] \in Seq(Nal)
      /\ Len(q[1]) \in Nat \ {0}
  BY HeadIs
<1>2. /\ Tail(q) \in Seq(Unit) /\ Len(Tail(q)) = Len(q) - 1
      /\ \A k \in 1 .. Len(q) - 1 : Tail(q)[k] = q[k + 1]
  BY HeadTailProperties
<1>3. CASE Len(q[1]) = 1
  BY <1>1, <1>2, <1>3 DEF Popped
<1>4. CASE Len(q[1]) # 1
  <2> DEFINE h == Tail(q[1])
             t == Tail(q)
  <2>1. q[1] # <<>>
    BY <1>1
  <2>2. /\ h \in Seq(Nal) /\ Len(h) = Len(q[1]) - 1
        /\ \A j \in 1 .. Len(q[1]) - 1 : h[j] = q[1][j + 1]
    BY <1>1, <2>1, HeadTailProperties
  <2>3. h \in Unit
    <3> HIDE DEF h
    <3>1. Len(h) # 0
      BY <1>1, <1>4, <2>2
    <3>2. h # <<>>
      BY <3>1
    <3> QED
      BY <2>2, <3>2 DEF Unit
  <2>4. Popped(q) = <<h>> \o t
    BY <1>1, <1>4 DEF Popped
  <2> HIDE DEF h, t
  <2>5. <<h>> \in Seq(Unit) /\ Len(<<h>>) = 1 /\ <<h>>[1] = h
    BY <2>3
  <2>6. t \in Seq(Unit) /\ Len(t) = Len(q) - 1 /\ \A k \in 1 .. Len(q) - 1 : t[k] = q[k + 1]
    BY <1>2 DEF t
  <2>7. /\ <<h>> \o t \in Seq(Unit)
        /\ Len(<<h>> \o t) = 1 + Len(t)
        /\ \A k \in 1 .. 1 + Len(t) : (<<h>> \o t)[k] = IF k <= 1 THEN <<h>>[k] ELSE t[k - 1]
    BY <2>5, <2>6, ConcatProperties
  <2> DEFINE p == <<h>> \o t
  <2> HIDE DEF p
  <2>8. /\ p \in Seq(Unit) /\ Len(p) = 1 + Len(t)
        /\ \A k \in 1 .. 1 + Len(t) : p[k] = IF k <= 1 THEN <<h>>[k] ELSE t[k - 1]
    BY <2>7 DEF p
  <2>9. Len(p) = Len(q) /\ p[1] = h
    BY <1>1, <2>5, <2>6, <2>8
  <2>10. ASSUME NEW k \in 2 .. Len(q)
         PROVE  p[k] = q[k]
    <3>1. k - 1 \in 1 .. Len(q) - 1 /\ (k - 1) + 1 = k /\ k \in 1 .. 1 + Len(t) /\ ~(k <= 1)
      BY <1>1, <2>6
    <3>2. p[k] = t[k - 1]
      BY <2>8, <3>1
    <3>3. t[k - 1] = q[(k - 1) + 1]
      BY <2>6, <3>1
    <3> QED
      BY <3>1, <3>2, <3>3
  <2>11. Popped(q) = p
    BY <2>4 DEF p
  <2> QED
    BY <2>2, <2>8, <2>9, <2>10, <2>11
<1> QED
  BY <1>3, <1>4

\* An access unit with NAL units.
LEMMA AccessUnitIs ==
  ASSUME NEW f \in 0 .. MaxFrames, NEW n \in 0 .. MaxNals, n > 0
  PROVE  /\ AccessUnit(f, n) \in Unit /\ Len(AccessUnit(f, n)) = n
         /\ \A k \in 1 .. n : AccessUnit(f, n)[k] = [frame |-> f, part |-> k]
<1>1. n \in Nat /\ MaxNals \in Nat
  BY BridgeAssumption
<1>2. \A k \in 1 .. n : [frame |-> f, part |-> k] \in Nal
  BY <1>1 DEF Nal
<1>3. AccessUnit(f, n) \in Seq(Nal) /\ Len(AccessUnit(f, n)) = n
  BY <1>1, <1>2 DEF AccessUnit
<1> QED
  BY <1>1, <1>3 DEF AccessUnit, Unit

-----------------------------------------------------------------------------
(* Sources and their readers *)

\* A queue knows the open sources of its stream and no others; only open sources
\* are read.
SourcesKnown ==
    /\ \A x \in Source : state[x] = "none" <=> made < x
    /\ \A x \in Source : state[x] # "open" => ~reading[x]
    /\ \A s \in Streams : active[s] = {x \in Source : state[x] = "open" /\ stream[x] = s}
    /\ describing # 0 => state[describing] = "open" /\ owner[describing] = Nobody
    /\ \A s \in Streams : worker[s] = "push" => nals[s] > 0

\* A reader that waits has told the queue so, or has a task scheduled.
ReadingAwaits ==
    \A x \in Source : reading[x] => awaiting[x] \/ due[x] > 0

ReadInv == TypeOK /\ SourcesKnown /\ ReadingAwaits /\ NoStuckSource

\* TypeOK says Seq(Seq(Nal) \ {<<>>}); this is its other name.
LEMMA QueueType == TypeOK => \A s \in Streams : queue[s] \in Seq(Unit)
  BY DEF TypeOK, Unit

\* Before the first client nobody reads.
LEMMA InitReadInv == Init => ReadInv
<1> SUFFICES ASSUME Init PROVE ReadInv
  OBVIOUS
<1>1. (CHOOSE s \in Streams : TRUE) \in Streams
  BY BridgeAssumption
<1>2. 0 \in 0 .. MaxSources /\ 0 \in 0 .. MaxFrames /\ 0 \in 0 .. MaxNals /\ NoNal \in Nal
  BY BridgeAssumption DEF Nal, NoNal
<1>3. <<>> \in Seq(Seq(Nal) \ {<<>>})
  OBVIOUS
<1>4. TypeOK
  <2> DEFINE st == CHOOSE s \in Streams : TRUE
  <2> HIDE DEF st
  <2>1. stream = [x \in Source |-> st] /\ st \in Streams
    BY <1>1 DEF Init, st
  <2>2. 0 \in Nat
    OBVIOUS
  <2> QED
    BY <1>2, <1>3, <2>1, <2>2, Zenon DEF Init, TypeOK
<1>5. SourcesKnown
  BY DEF Init, SourcesKnown, Source
<1>6. ReadingAwaits /\ NoStuckSource
  BY DEF Init, ReadingAwaits, NoStuckSource
<1> QED
  BY <1>4, <1>5, <1>6 DEF ReadInv

\* on_frame(): the push that fills a queue is followed by the trigger.
LEMMA WorkerKeepsReadInv ==
  ASSUME ReadInv, NEW s \in Streams, OnFrame(s) \/ WorkerStep(s)
  PROVE  ReadInv'
<1> USE DEF ReadInv, frameVars, sourceVars, waitVars, clientVars
<1>1. CASE OnFrame(s)
  <2>1. frame[s] + 1 \in 0 .. MaxFrames
    BY <1>1, BridgeAssumption DEF OnFrame, TypeOK
  <2>2. PICK n \in 0 .. MaxNals : nals' = [nals EXCEPT ![s] = n]
    BY <1>1 DEF OnFrame
  <2>3. PICK p \in BOOLEAN : params' = [params EXCEPT ![s] = @ \/ p]
    BY <1>1 DEF OnFrame
  <2>4. /\ frame' \in [Streams -> 0 .. MaxFrames] /\ nals' \in [Streams -> 0 .. MaxNals]
        /\ worker' \in [Streams -> {"idle", "check", "push", "trigger"}]
    BY <1>1, <2>1, <2>2 DEF OnFrame, TypeOK
  <2>5. params' \in [Streams -> BOOLEAN]
    BY <2>3 DEF TypeOK
  <2>6. TypeOK'
    BY <1>1, <2>4, <2>5 DEF OnFrame, TypeOK
  <2>7. SourcesKnown' /\ ReadingAwaits' /\ NoStuckSource'
    BY <1>1, <2>2 DEF OnFrame, TypeOK, SourcesKnown, ReadingAwaits, NoStuckSource
  <2> QED
    BY <2>6, <2>7
<1>2. CASE CheckActive(s)
  <2>1. TypeOK'
    BY <1>2 DEF CheckActive, TypeOK
  <2>2. SourcesKnown' /\ ReadingAwaits' /\ NoStuckSource'
    BY <1>2 DEF CheckActive, WorthPushing, TypeOK, SourcesKnown, ReadingAwaits,
                NoStuckSource
  <2> QED
    BY <2>1, <2>2
<1>3. CASE PushAccessUnit(s)
  <2> DEFINE q == Pushed(queue[s], AccessUnit(frame[s], nals[s]))
  <2>1. nals[s] > 0 /\ nals[s] \in 0 .. MaxNals /\ frame[s] \in 0 .. MaxFrames
    BY <1>3 DEF PushAccessUnit, SourcesKnown, TypeOK
  <2>2. q \in Seq(Unit)
    BY <2>1, AccessUnitIs, PushedIs, QueueType
  <2>3. queue' = [queue EXCEPT ![s] = q]
    BY <1>3 DEF PushAccessUnit
  <2> HIDE DEF q
  <2>4. TypeOK'
    BY <1>3, <2>2, <2>3 DEF PushAccessUnit, TypeOK, Unit
  <2>5. SourcesKnown' /\ ReadingAwaits'
    BY <1>3 DEF PushAccessUnit, TypeOK, SourcesKnown, ReadingAwaits
  <2>6. NoStuckSource'
    BY <1>3, <2>3 DEF PushAccessUnit, TypeOK, ReadingAwaits, NoStuckSource
  <2> QED
    BY <2>4, <2>5, <2>6
<1>4. CASE TriggerEvent(s)
  <2>1. TypeOK'
    BY <1>4 DEF TriggerEvent, TypeOK
  <2>2. SourcesKnown' /\ ReadingAwaits' /\ NoStuckSource'
    BY <1>4 DEF TriggerEvent, TypeOK, SourcesKnown, ReadingAwaits, NoStuckSource
  <2> QED
    BY <2>1, <2>2
<1> QED
  BY <1>1, <1>2, <1>3, <1>4 DEF WorkerStep

\* The trigger schedules a task for each source that awaits a frame.
LEMMA TriggerKeepsReadInv ==
  ASSUME ReadInv, HandleFrameTrigger
  PROVE  ReadInv'
<1> USE DEF ReadInv, frameVars, sourceVars, clientVars
<1> DEFINE woken == {x \in UNION {active[s] : s \in Streams} : awaiting[x]}
<1>1. /\ awaiting' = [x \in Source |-> awaiting[x] /\ x \notin woken]
      /\ due' = [x \in Source |-> due[x] + (IF x \in woken THEN 1 ELSE 0)]
  BY DEF HandleFrameTrigger
<1>2. \A x \in Source : state[x] = "open" /\ awaiting[x] => x \in woken
  BY DEF SourcesKnown, TypeOK
<1> HIDE DEF woken
<1>3. awaiting' \in [Source -> BOOLEAN]
  BY <1>1
<1>4. due' \in [Source -> Nat] /\ \A x \in Source : due'[x] >= due[x]
  BY <1>1 DEF TypeOK
<1>5. \A x \in Source : x \in woken => due'[x] > 0
  BY <1>1 DEF TypeOK
<1>6. TypeOK'
  BY <1>3, <1>4 DEF HandleFrameTrigger, TypeOK
<1>7. SourcesKnown'
  BY DEF HandleFrameTrigger, SourcesKnown
<1>8. ASSUME NEW x \in Source, reading[x]
      PROVE  due'[x] > 0
  <2>1. state[x] = "open" /\ (awaiting[x] \/ due[x] > 0)
    BY <1>8 DEF SourcesKnown, ReadingAwaits
  <2> QED
    BY <1>2, <1>4, <1>5, <2>1 DEF TypeOK
<1>9. ReadingAwaits' /\ NoStuckSource'
  BY <1>8 DEF HandleFrameTrigger, ReadingAwaits, NoStuckSource
<1> QED
  BY <1>6, <1>7, <1>9

\* What deliver_frame() does with a NAL unit.
LEMMA HandIs ==
  ASSUME TypeOK, NEW x \in Source, queue[stream[x]] # <<>>, Hand(x)
  PROVE  /\ queue' \in [Streams -> Seq(Unit)]
         /\ popped' \in [Streams -> Nal]
         /\ reading' = [reading EXCEPT ![x] = FALSE]
         /\ \A y \in Source : queue'[stream[y]] # <<>> => queue[stream[y]] # <<>>
<1> DEFINE s == stream[x]
<1>1. s \in Streams /\ queue[s] \in Seq(Unit) /\ queue[s] # <<>>
  BY QueueType DEF TypeOK
<1>2. /\ popped' = [popped EXCEPT ![s] = NextNal(queue[s])]
      /\ queue' = [queue EXCEPT ![s] = Popped(queue[s])]
      /\ reading' = [reading EXCEPT ![x] = FALSE]
  BY DEF Hand
<1> HIDE DEF s
<1>3. NextNal(queue[s]) \in Nal /\ Popped(queue[s]) \in Seq(Unit)
  BY <1>1, HeadIs, PoppedIs
<1>4. queue \in [Streams -> Seq(Unit)] /\ popped \in [Streams -> Nal]
      /\ stream \in [Source -> Streams]
  BY DEF TypeOK, Unit
<1> QED
  BY <1>1, <1>2, <1>3, <1>4

\* The tasks and the readers.
LEMMA DeliverKeepsReadInv ==
  ASSUME ReadInv, NEW x \in Source,
         DeliverFrame(x) \/ DeliverToDeleted(x) \/ GetNextFrame(x) \/ StopGettingFrames(x)
  PROVE  ReadInv'
<1> USE DEF ReadInv, frameVars, sourceVars, clientVars
<1>0. /\ reading \in [Source -> BOOLEAN] /\ awaiting \in [Source -> BOOLEAN]
      /\ due \in [Source -> Nat]
  BY DEF TypeOK
<1>1. CASE DeliverFrame(x)
  <2>1. /\ due' = [due EXCEPT ![x] = due[x] - 1] /\ due' \in [Source -> Nat]
        /\ state[x] = "open"
        /\ UNCHANGED <<active, params, frameVars, sourceVars, clientVars, triggered, crashed>>
    BY <1>0, <1>1 DEF DeliverFrame
  <2>2. CASE ~reading[x] /\ awaiting' = [awaiting EXCEPT ![x] = FALSE]
             /\ UNCHANGED <<reading, queue, popped>>
    <3>1. TypeOK'
      BY <1>0, <2>1, <2>2 DEF TypeOK
    <3>2. SourcesKnown'
      BY <1>0, <2>1, <2>2 DEF SourcesKnown
    <3>3. ReadingAwaits'
      BY <1>0, <2>1, <2>2 DEF ReadingAwaits
    <3>4. NoStuckSource'
      BY <1>0, <2>1, <2>2 DEF NoStuckSource
    <3> QED
      BY <3>1, <3>2, <3>3, <3>4
  <2>3. CASE queue[stream[x]] = <<>> /\ awaiting' = [awaiting EXCEPT ![x] = TRUE]
             /\ UNCHANGED <<reading, queue, popped>>
    <3>1. TypeOK'
      BY <1>0, <2>1, <2>3 DEF TypeOK
    <3>2. SourcesKnown'
      BY <1>0, <2>1, <2>3 DEF SourcesKnown
    <3>3. ReadingAwaits'
      BY <1>0, <2>1, <2>3 DEF ReadingAwaits
    <3>4. NoStuckSource'
      BY <1>0, <2>1, <2>3 DEF NoStuckSource
    <3> QED
      BY <3>1, <3>2, <3>3, <3>4
  <2>4. CASE queue[stream[x]] # <<>> /\ Hand(x) /\ UNCHANGED awaiting
    <3>1. /\ queue' \in [Streams -> Seq(Unit)] /\ popped' \in [Streams -> Nal]
          /\ reading' = [reading EXCEPT ![x] = FALSE]
          /\ \A y \in Source : queue'[stream[y]] # <<>> => queue[stream[y]] # <<>>
      BY <2>4, HandIs
    <3>2. TypeOK'
      BY <1>0, <2>1, <2>4, <3>1 DEF TypeOK, Unit
    <3>3. SourcesKnown' /\ ReadingAwaits' /\ NoStuckSource'
      BY <1>0, <2>1, <2>4, <3>1 DEF TypeOK, SourcesKnown, ReadingAwaits, NoStuckSource
    <3> QED
      BY <3>2, <3>3
  <2> QED
    BY <1>1, <2>2, <2>3, <2>4 DEF DeliverFrame, AwaitingAfterMiss
<1>2. CASE DeliverToDeleted(x)
  <2>1. due' = [due EXCEPT ![x] = due[x] - 1] /\ due' \in [Source -> Nat] /\ ~reading[x]
    BY <1>0, <1>2 DEF DeliverToDeleted, SourcesKnown
  <2>2. TypeOK'
    BY <1>2, <2>1 DEF DeliverToDeleted, TypeOK
  <2>3. SourcesKnown' /\ ReadingAwaits' /\ NoStuckSource'
    BY <1>2, <2>1 DEF DeliverToDeleted, TypeOK, SourcesKnown, ReadingAwaits, NoStuckSource
  <2> QED
    BY <2>2, <2>3
<1>3. CASE GetNextFrame(x)
  <2>1. /\ awaiting' = [awaiting EXCEPT ![x] = TRUE] /\ state[x] = "open"
        /\ UNCHANGED <<active, params, frameVars, sourceVars, due, clientVars,
                       triggered, crashed>>
    BY <1>3 DEF GetNextFrame
  <2>2. CASE queue[stream[x]] = <<>> /\ reading' = [reading EXCEPT ![x] = TRUE]
             /\ UNCHANGED <<queue, popped>>
    <3>1. TypeOK'
      BY <1>0, <2>1, <2>2 DEF TypeOK
    <3>2. SourcesKnown'
      BY <1>0, <2>1, <2>2 DEF SourcesKnown
    <3>3. ReadingAwaits'
      BY <1>0, <2>1, <2>2 DEF ReadingAwaits
    <3>4. NoStuckSource'
      BY <1>0, <2>1, <2>2 DEF NoStuckSource
    <3> QED
      BY <3>1, <3>2, <3>3, <3>4
  <2>3. CASE queue[stream[x]] # <<>> /\ Hand(x)
    <3>1. /\ queue' \in [Streams -> Seq(Unit)] /\ popped' \in [Streams -> Nal]
          /\ reading' = [reading EXCEPT ![x] = FALSE]
          /\ \A y \in Source : queue'[stream[y]] # <<>> => queue[stream[y]] # <<>>
      BY <2>3, HandIs
    <3>2. TypeOK'
      BY <1>0, <2>1, <3>1 DEF TypeOK, Unit
    <3>3. SourcesKnown' /\ ReadingAwaits' /\ NoStuckSource'
      BY <1>0, <2>1, <3>1 DEF TypeOK, SourcesKnown, ReadingAwaits, NoStuckSource
    <3> QED
      BY <3>2, <3>3
  <2> QED
    BY <1>3, <2>2, <2>3 DEF GetNextFrame
<1>4. CASE StopGettingFrames(x)
  <2>1. /\ awaiting' = [awaiting EXCEPT ![x] = FALSE] /\ reading' = [reading EXCEPT ![x] = FALSE]
        /\ UNCHANGED <<queue, active, params, frameVars, sourceVars, due, clientVars,
                       triggered, crashed, popped>>
    BY <1>4 DEF StopGettingFrames
  <2>2. TypeOK'
    BY <1>0, <2>1 DEF TypeOK
  <2>3. SourcesKnown'
    BY <1>0, <2>1 DEF SourcesKnown
  <2>4. ReadingAwaits'
    BY <1>0, <2>1 DEF ReadingAwaits
  <2>5. NoStuckSource'
    BY <1>0, <2>1 DEF NoStuckSource
  <2> QED
    BY <2>2, <2>3, <2>4, <2>5
<1> QED
  BY <1>1, <1>2, <1>3, <1>4

\* A source that is made is known to its queue.
LEMMA OpenIs ==
  ASSUME TypeOK, SourcesKnown, NEW s \in Streams, NEW o \in Clients \cup {Nobody},
         OpenSource(s, o)
  PROVE  /\ made + 1 \in Source /\ state[made + 1] = "none" /\ made' = made + 1
         /\ made' \in 0 .. MaxSources
         /\ state' = [state EXCEPT ![made + 1] = "open"]
         /\ stream' = [stream EXCEPT ![made + 1] = s]
         /\ owner' = [owner EXCEPT ![made + 1] = o]
         /\ active' = [active EXCEPT ![s] = active[s] \cup {made + 1}]
         /\ \A y \in Streams : made + 1 \notin active[y]
<1>1. made + 1 \in Source /\ made + 1 \in 0 .. MaxSources
  BY BridgeAssumption DEF OpenSource, TypeOK, Source
<1>2. state[made + 1] = "none"
  BY <1>1 DEF TypeOK, SourcesKnown
<1>3. \A y \in Streams : made + 1 \notin active[y]
  BY <1>1, <1>2 DEF SourcesKnown
<1> QED
  BY <1>1, <1>2, <1>3 DEF OpenSource

\* DESCRIBE, SETUP and TEARDOWN.
LEMMA OpenKeepsReadInv ==
  ASSUME ReadInv, NEW s \in Streams, NEW o \in Clients \cup {Nobody},
         OpenSource(s, o),
         UNCHANGED <<queue, params, frameVars, waitVars, triggered, crashed, popped>>,
         sessions' \in [Streams -> SUBSET Clients], sdpKnown' = sdpKnown,
         \/ describing' = made + 1 /\ o = Nobody
         \/ describing' = 0
  PROVE  ReadInv'
<1> DEFINE x == made + 1
<1>1. /\ x \in Source /\ state[x] = "none" /\ made' = x /\ x \in 0 .. MaxSources
      /\ state' = [state EXCEPT ![x] = "open"]
      /\ stream' = [stream EXCEPT ![x] = s]
      /\ owner' = [owner EXCEPT ![x] = o]
      /\ active' = [active EXCEPT ![s] = active[s] \cup {x}]
  BY OpenIs DEF ReadInv
<1>2. made \in Nat /\ \A y \in Source : y \in Nat /\ (made < y <=> x = y \/ x < y)
  BY BridgeAssumption DEF ReadInv, TypeOK, Source
<1>3. describing' \in {0, x} /\ (describing' # 0 => describing' = x /\ o = Nobody)
  OBVIOUS
<1> HIDE DEF x
<1>4. TypeOK'
  <2>1. describing' \in 0 .. MaxSources
    BY <1>1, <1>3, BridgeAssumption
  <2>2. /\ state' \in [Source -> {"none", "open", "closed"}]
        /\ stream' \in [Source -> Streams] /\ owner' \in [Source -> Clients \cup {Nobody}]
        /\ active' \in [Streams -> SUBSET Source]
    BY <1>1 DEF ReadInv, TypeOK
  <2> QED
    BY <1>1, <2>1, <2>2 DEF ReadInv, TypeOK, frameVars, waitVars
<1>5. SourcesKnown'
  <2>1. \A y \in Source : state'[y] = "none" <=> made' < y
    <3>1. \A y \in Source : state'[y] = IF y = x THEN "open" ELSE state[y]
      BY <1>1 DEF ReadInv, TypeOK
    <3>2. \A y \in Source : state[y] = "none" <=> made < y
      BY DEF ReadInv, SourcesKnown
    <3>3. x \in Nat /\ made' = x
      BY <1>1, <1>2
    <3> QED
      BY <1>2, <3>1, <3>2, <3>3
  <2>2. \A y \in Source : state'[y] # "open" => ~reading'[y]
    BY <1>1 DEF ReadInv, TypeOK, SourcesKnown, waitVars
  <2>3. ASSUME NEW z \in Streams
        PROVE  active'[z] = {y \in Source : state'[y] = "open" /\ stream'[y] = z}
    <3>1. active[z] = {y \in Source : state[y] = "open" /\ stream[y] = z}
      BY DEF ReadInv, SourcesKnown
    <3>2. CASE z = s
      BY <1>1, <3>1, <3>2 DEF ReadInv, TypeOK
    <3>3. CASE z # s
      BY <1>1, <3>1, <3>3 DEF ReadInv, TypeOK
    <3> QED
      BY <3>2, <3>3
  <2>4. describing' # 0 => state'[describing'] = "open" /\ owner'[describing'] = Nobody
    BY <1>1, <1>3 DEF ReadInv, TypeOK
  <2>5. \A z \in Streams : worker'[z] = "push" => nals'[z] > 0
    BY DEF ReadInv, SourcesKnown, frameVars
  <2> QED
    BY <2>1, <2>2, <2>3, <2>4, <2>5 DEF SourcesKnown
<1>6. ReadingAwaits'
  BY DEF ReadInv, ReadingAwaits, waitVars
<1>7. NoStuckSource'
  <2>1. ~reading[x]
    BY <1>1 DEF ReadInv, SourcesKnown
  <2>2. \A y \in Source : y # x => state'[y] = state[y] /\ stream'[y] = stream[y]
    BY <1>1 DEF ReadInv, TypeOK
  <2> QED
    BY <2>1, <2>2 DEF ReadInv, NoStuckSource, waitVars, frameVars
<1> QED
  BY <1>4, <1>5, <1>6, <1>7 DEF ReadInv

\* A source that is deleted reads no more, and its queue no longer knows it.
LEMMA CloseKeepsReadInv ==
  ASSUME ReadInv, NEW x \in Source, CloseSource(x), state[x] = "open",
         UNCHANGED <<queue, params, frameVars, made, stream, owner, due, triggered,
                     crashed, popped>>,
         sessions' \in [Streams -> SUBSET Clients], sdpKnown' \in [Streams -> BOOLEAN],
         describing' = 0
  PROVE  ReadInv'
<1>1. /\ state' = [state EXCEPT ![x] = "closed"]
      /\ active' = [active EXCEPT ![stream[x]] = active[stream[x]] \ {x}]
      /\ awaiting' = [awaiting EXCEPT ![x] = FALSE]
      /\ reading' = [reading EXCEPT ![x] = FALSE]
      /\ stream[x] \in Streams
  BY DEF CloseSource, StillActive, ReadInv, TypeOK
<1>2. TypeOK'
  <2>1. /\ state' \in [Source -> {"none", "open", "closed"}]
        /\ active' \in [Streams -> SUBSET Source]
        /\ awaiting' \in [Source -> BOOLEAN] /\ reading' \in [Source -> BOOLEAN]
    BY <1>1 DEF ReadInv, TypeOK
  <2>2. describing' \in 0 .. MaxSources
    BY BridgeAssumption
  <2> QED
    BY <2>1, <2>2 DEF ReadInv, TypeOK, frameVars
<1>3. SourcesKnown'
  <2>1. /\ \A y \in Source : state'[y] = "none" <=> made' < y
        /\ \A y \in Source : state'[y] # "open" => ~reading'[y]
    BY <1>1 DEF ReadInv, TypeOK, SourcesKnown
  <2>2. ASSUME NEW z \in Streams
        PROVE  active'[z] = {y \in Source : state'[y] = "open" /\ stream'[y] = z}
    <3>1. active[z] = {y \in Source : state[y] = "open" /\ stream[y] = z}
      BY DEF ReadInv, SourcesKnown
    <3>2. \A y \in Source : state'[y] = "open" <=> state[y] = "open" /\ y # x
      BY <1>1 DEF ReadInv, TypeOK
    <3>3. active'[z] = IF z = stream[x] THEN active[z] \ {x} ELSE active[z]
      BY <1>1 DEF ReadInv, TypeOK
    <3>4. stream' = stream
      OBVIOUS
    <3> QED
      BY <3>1, <3>2, <3>3, <3>4
  <2> QED
    BY <2>1, <2>2 DEF ReadInv, SourcesKnown, frameVars
<1>4. ReadingAwaits' /\ NoStuckSource'
  BY <1>1 DEF ReadInv, TypeOK, ReadingAwaits, NoStuckSource, frameVars
<1> QED
  BY <1>2, <1>3, <1>4 DEF ReadInv

\* DESCRIBE, SETUP and TEARDOWN make and delete sources that do not wait.
LEMMA ClientKeepsReadInv ==
  ASSUME ReadInv,
         \/ \E s \in Streams : DescribeBegin(s)
         \/ DescribeEnd
         \/ \E c \in Clients, s \in Streams : Setup(c, s)
         \/ \E x \in Source : DeleteStream(x)
  PROVE  ReadInv'
<1>1. ASSUME NEW s \in Streams, DescribeBegin(s)
      PROVE  ReadInv'
  <2>1. sessions' \in [Streams -> SUBSET Clients]
    BY <1>1 DEF DescribeBegin, ReadInv, TypeOK
  <2> QED
    BY <1>1, <2>1, OpenKeepsReadInv DEF DescribeBegin
<1>2. ASSUME NEW c \in Clients, NEW s \in Streams, Setup(c, s)
      PROVE  ReadInv'
  <2>1. sessions' \in [Streams -> SUBSET Clients] /\ describing' = 0
    BY <1>2 DEF Setup, LoopFree, ReadInv, TypeOK
  <2> QED
    BY <1>2, <2>1, OpenKeepsReadInv DEF Setup
<1>3. ASSUME NEW x \in Source, DeleteStream(x)
      PROVE  ReadInv'
  <2>1. /\ sessions' \in [Streams -> SUBSET Clients] /\ describing' = 0
        /\ sdpKnown' \in [Streams -> BOOLEAN]
    BY <1>3 DEF DeleteStream, LoopFree, ReadInv, TypeOK
  <2> QED
    BY <1>3, <2>1, CloseKeepsReadInv DEF DeleteStream
<1>4. CASE DescribeEnd
  <2>1. describing \in Source /\ state[describing] = "open" /\ stream[describing] \in Streams
    BY <1>4, BridgeAssumption DEF DescribeEnd, ReadInv, TypeOK, SourcesKnown, Source
  <2>2. PICK known \in BOOLEAN :
           sdpKnown' = [sdpKnown EXCEPT ![stream[describing]] = known]
    BY <1>4 DEF DescribeEnd
  <2>3. sdpKnown' \in [Streams -> BOOLEAN]
    BY <2>1, <2>2 DEF ReadInv, TypeOK
  <2>4. sessions' \in [Streams -> SUBSET Clients]
    BY <1>4 DEF DescribeEnd, ReadInv, TypeOK
  <2> QED
    BY <1>4, <2>1, <2>3, <2>4, CloseKeepsReadInv DEF DescribeEnd
<1> QED
  BY <1>1, <1>2, <1>3, <1>4

\* No step of the workers, the event loop or the clients strands a reader.
LEMMA StepReadInv == ReadInv /\ [Next]_vars => ReadInv'
<1> SUFFICES ASSUME ReadInv, [Next]_vars PROVE ReadInv'
  OBVIOUS
<1>1. CASE UNCHANGED vars
  BY <1>1 DEF vars, frameVars, sourceVars, waitVars, clientVars, ReadInv, TypeOK,
              SourcesKnown, ReadingAwaits, NoStuckSource
<1> QED
  BY <1>1, WorkerKeepsReadInv, TriggerKeepsReadInv, DeliverKeepsReadInv, ClientKeepsReadInv
     DEF Next

\* The invariant holds throughout.
THEOREM ReadInvariant == Spec => []ReadInv
  BY InitReadInv, StepReadInv, PTL DEF Spec

\* Every variable of the bridge keeps its type.
THEOREM BridgeTypes == Spec => []TypeOK
<1>1. ReadInv => TypeOK
  BY DEF ReadInv
<1> QED
  BY <1>1, ReadInvariant, PTL

\* No wake-up is lost between the workers and the event loop: a client never waits
\* over a queue that has something for it with nothing under way to tell it.
THEOREM NoReaderStuck == Spec => []NoStuckSource
<1>1. ReadInv => NoStuckSource
  BY DEF ReadInv
<1> QED
  BY <1>1, ReadInvariant, PTL

-----------------------------------------------------------------------------
(* Sessions *)

\* The sources of a stream that clients play.
Playing(s) == {x \in active[s] : owner[x] # Nobody}

\* Each session of a stream has one source and each of these one session.
SessionsCounted ==
    \A s \in Streams :
       /\ sessions[s] = {owner[x] : x \in Playing(s)}
       /\ \A x, y \in Playing(s) : owner[x] = owner[y] => x = y
       /\ IsFiniteSet(sessions[s])
       /\ Cardinality(Playing(s)) = Cardinality(sessions[s])
       /\ Cardinality(sessions[s]) <= ClientLimit

\* Only finitely many sources play.
LEMMA PlayingFinite ==
  ASSUME TypeOK, NEW s \in Streams
  PROVE  IsFiniteSet(Playing(s))
<1>1. IsFiniteSet(Source)
  BY FS_Interval, BridgeAssumption DEF Source
<1>2. Playing(s) \subseteq Source
  BY DEF Playing, TypeOK
<1> QED
  BY <1>1, <1>2, FS_Subset

\* Steps that leave the sources that are played, and the sessions, as they are.
LEMMA SessionsUndisturbed ==
  ASSUME SessionsCounted, sessions' = sessions,
         \A s \in Streams : Playing(s)' = Playing(s),
         \A s \in Streams : \A x \in Playing(s) : owner'[x] = owner[x]
  PROVE  SessionsCounted'
<1> SUFFICES ASSUME NEW s \in Streams
             PROVE  (/\ sessions[s] = {owner[x] : x \in Playing(s)}
                     /\ \A x, y \in Playing(s) : owner[x] = owner[y] => x = y
                     /\ IsFiniteSet(sessions[s])
                     /\ Cardinality(Playing(s)) = Cardinality(sessions[s])
                     /\ Cardinality(sessions[s]) <= ClientLimit)'
  BY DEF SessionsCounted
<1> DEFINE P == Playing(s)
<1>1. P' = P /\ sessions'[s] = sessions[s] /\ \A x \in P : owner'[x] = owner[x]
  OBVIOUS
<1>2. /\ sessions[s] = {owner[x] : x \in P}
      /\ \A x, y \in P : owner[x] = owner[y] => x = y
      /\ IsFiniteSet(sessions[s])
      /\ Cardinality(P) = Cardinality(sessions[s])
      /\ Cardinality(sessions[s]) <= ClientLimit
  BY DEF SessionsCounted
<1>3. ClientLimit' = ClientLimit
  BY DEF ClientLimit
<1> HIDE DEF P
<1>4. /\ sessions'[s] = {owner'[x] : x \in P'}
      /\ \A x, y \in P' : owner'[x] = owner'[y] => x = y
      /\ IsFiniteSet(sessions'[s])
      /\ Cardinality(P') = Cardinality(sessions'[s])
      /\ Cardinality(sessions'[s]) <= ClientLimit
  BY <1>1, <1>2
<1> QED
  BY <1>3, <1>4 DEF P

\* SETUP adds a session and its source.
LEMMA SetupKeepsSessions ==
  ASSUME ReadInv, SessionsCounted, NEW c \in Clients, NEW s \in Streams, Setup(c, s)
  PROVE  SessionsCounted'
<1> DEFINE n == made + 1
<1>1. /\ n \in Source /\ owner' = [owner EXCEPT ![n] = c]
      /\ active' = [active EXCEPT ![s] = active[s] \cup {n}]
      /\ \A y \in Streams : n \notin active[y]
  BY OpenIs DEF Setup, ReadInv
<1>2. /\ c \notin sessions[s] /\ Cardinality(sessions[s]) < ClientLimit
      /\ sessions' = [sessions EXCEPT ![s] = sessions[s] \cup {c}]
  BY DEF Setup, Accepts
<1> HIDE DEF n
<1>3. c # Nobody
  BY BridgeAssumption
<1>4. ASSUME NEW z \in Streams
      PROVE  Playing(z)' = IF z = s THEN Playing(z) \cup {n} ELSE Playing(z)
  BY <1>1, <1>3 DEF Playing, ReadInv, TypeOK
<1>5. \A z \in Streams : n \notin Playing(z) /\ \A x \in Playing(z) : owner'[x] = owner[x]
  BY <1>1 DEF Playing, ReadInv, TypeOK
<1>6. owner'[n] = c
  BY <1>1 DEF ReadInv, TypeOK
<1> SUFFICES ASSUME NEW z \in Streams
             PROVE  (/\ sessions[z] = {owner[x] : x \in Playing(z)}
                     /\ \A x, y \in Playing(z) : owner[x] = owner[y] => x = y
                     /\ IsFiniteSet(sessions[z])
                     /\ Cardinality(Playing(z)) = Cardinality(sessions[z])
                     /\ Cardinality(sessions[z]) <= ClientLimit)'
  BY DEF SessionsCounted
<1> DEFINE P == Playing(z)
<1>7. /\ sessions[z] = {owner[x] : x \in P}
      /\ \A x, y \in P : owner[x] = owner[y] => x = y
      /\ IsFiniteSet(sessions[z])
      /\ Cardinality(P) = Cardinality(sessions[z])
      /\ Cardinality(sessions[z]) <= ClientLimit
      /\ IsFiniteSet(P)
  BY PlayingFinite DEF SessionsCounted, ReadInv
<1>8. /\ P' = IF z = s THEN P \cup {n} ELSE P
      /\ n \notin P /\ \A x \in P : owner'[x] = owner[x]
      /\ sessions'[z] = IF z = s THEN sessions[z] \cup {c} ELSE sessions[z]
  BY <1>2, <1>4, <1>5 DEF ReadInv, TypeOK
<1>9. ClientLimit' = ClientLimit
  BY DEF ClientLimit
<1> HIDE DEF P
<1>10. CASE z # s
  <2>1. /\ sessions'[z] = {owner'[x] : x \in P'}
        /\ \A x, y \in P' : owner'[x] = owner'[y] => x = y
        /\ IsFiniteSet(sessions'[z])
        /\ Cardinality(P') = Cardinality(sessions'[z])
        /\ Cardinality(sessions'[z]) <= ClientLimit
    BY <1>7, <1>8, <1>10
  <2> QED
    BY <1>9, <2>1 DEF P
<1>11. CASE z = s
  <2>1. P' = P \cup {n} /\ sessions'[z] = sessions[z] \cup {c} /\ c \notin sessions[z]
    BY <1>2, <1>8, <1>11
  <2>2. sessions'[z] = {owner'[x] : x \in P'}
    BY <1>6, <1>7, <1>8, <2>1
  <2>3. ASSUME NEW x \in P', NEW y \in P', owner'[x] = owner'[y]
        PROVE  x = y
    <3>1. \A v \in P : owner'[v] # c
      BY <1>7, <1>8, <2>1
    <3>2. CASE x \in P /\ y \in P
      BY <1>7, <1>8, <2>3, <3>2
    <3> QED
      BY <1>6, <2>1, <2>3, <3>1, <3>2
  <2>4. /\ IsFiniteSet(sessions'[z])
        /\ Cardinality(sessions'[z]) = Cardinality(sessions[z]) + 1
    <3> DEFINE C == sessions[z]
    <3>1. IsFiniteSet(C) /\ c \notin C /\ sessions'[z] = C \cup {c}
      BY <1>7, <2>1
    <3> HIDE DEF C
    <3>2. IsFiniteSet(C \cup {c}) /\ Cardinality(C \cup {c}) = Cardinality(C) + 1
      BY <3>1, FS_AddElement
    <3> QED
      BY <3>1, <3>2 DEF C
  <2>5. Cardinality(P') = Cardinality(P) + 1
    BY <1>7, <1>8, <2>1, FS_AddElement
  <2>6. Cardinality(sessions'[z]) <= ClientLimit
    <3>1. Cardinality(sessions[z]) \in Nat /\ ClientLimit \in Nat
      BY <1>7, FS_CardinalityType, BridgeAssumption DEF ClientLimit
    <3> QED
      BY <1>2, <1>11, <2>4, <3>1
  <2> QED
    BY <1>7, <1>9, <2>2, <2>3, <2>4, <2>5, <2>6 DEF P
<1> QED
  BY <1>10, <1>11

\* TEARDOWN takes both away.
LEMMA DeleteKeepsSessions ==
  ASSUME ReadInv, SessionsCounted, NEW d \in Source, DeleteStream(d)
  PROVE  SessionsCounted'
<1> DEFINE s == stream[d]
           c == owner[d]
<1>1. /\ s \in Streams /\ owner' = owner /\ d \in Playing(s)
      /\ active' = [active EXCEPT ![s] = active[s] \ {d}]
      /\ sessions' = [sessions EXCEPT ![s] = sessions[s] \ {c}]
  BY DEF DeleteStream, CloseSource, StillActive, ReadInv, TypeOK, SourcesKnown, Playing
<1> HIDE DEF s, c
<1> SUFFICES ASSUME NEW z \in Streams
             PROVE  (/\ sessions[z] = {owner[x] : x \in Playing(z)}
                     /\ \A x, y \in Playing(z) : owner[x] = owner[y] => x = y
                     /\ IsFiniteSet(sessions[z])
                     /\ Cardinality(Playing(z)) = Cardinality(sessions[z])
                     /\ Cardinality(sessions[z]) <= ClientLimit)'
  BY DEF SessionsCounted
<1> DEFINE P == Playing(z)
<1>2. /\ sessions[z] = {owner[x] : x \in P}
      /\ \A x, y \in P : owner[x] = owner[y] => x = y
      /\ IsFiniteSet(sessions[z])
      /\ Cardinality(P) = Cardinality(sessions[z])
      /\ Cardinality(sessions[z]) <= ClientLimit
      /\ IsFiniteSet(P)
  BY PlayingFinite DEF SessionsCounted, ReadInv
<1>3. /\ P' = IF z = s THEN P \ {d} ELSE P
      /\ sessions'[z] = IF z = s THEN sessions[z] \ {c} ELSE sessions[z]
  BY <1>1 DEF ReadInv, TypeOK, Playing
<1>4. ClientLimit' = ClientLimit
  BY DEF ClientLimit
<1>5. z = s => d \in P
  BY <1>1
<1> HIDE DEF P
<1>6. CASE z # s
  <2>1. /\ sessions'[z] = {owner'[x] : x \in P'}
        /\ \A x, y \in P' : owner'[x] = owner'[y] => x = y
        /\ IsFiniteSet(sessions'[z])
        /\ Cardinality(P') = Cardinality(sessions'[z])
        /\ Cardinality(sessions'[z]) <= ClientLimit
    BY <1>1, <1>2, <1>3, <1>6
  <2> QED
    BY <1>4, <2>1 DEF P
<1>7. CASE z = s
  <2>1. P' = P \ {d} /\ sessions'[z] = sessions[z] \ {c} /\ d \in P
    BY <1>3, <1>5, <1>7
  <2>2. c = owner[d] /\ c \in sessions[z]
    BY <1>2, <2>1 DEF c
  <2>3. /\ sessions'[z] = {owner'[x] : x \in P'}
        /\ \A x, y \in P' : owner'[x] = owner'[y] => x = y
    BY <1>1, <1>2, <2>1, <2>2
  <2>4. /\ IsFiniteSet(sessions'[z])
        /\ Cardinality(sessions'[z]) = Cardinality(sessions[z]) - 1
    <3> DEFINE C == sessions[z]
    <3>1. IsFiniteSet(C) /\ c \in C /\ sessions'[z] = C \ {c}
      BY <1>2, <2>1, <2>2
    <3> HIDE DEF C
    <3>2. IsFiniteSet(C \ {c}) /\ Cardinality(C \ {c}) = Cardinality(C) - 1
      BY <3>1, FS_RemoveElement
    <3> QED
      BY <3>1, <3>2 DEF C
  <2>5. Cardinality(P') = Cardinality(P) - 1
    BY <1>2, <2>1, FS_RemoveElement
  <2>6. Cardinality(sessions'[z]) <= ClientLimit
    <3>1. Cardinality(sessions[z]) \in Nat /\ ClientLimit \in Nat
      BY <1>2, FS_CardinalityType, BridgeAssumption DEF ClientLimit
    <3> QED
      BY <1>2, <2>4, <3>1
  <2> QED
    BY <1>2, <1>4, <2>3, <2>4, <2>5, <2>6 DEF P
<1> QED
  BY <1>6, <1>7

\* Every step keeps sessions and sources together.
LEMMA StepSessions == ReadInv /\ SessionsCounted /\ [Next]_vars => SessionsCounted'
<1> SUFFICES ASSUME ReadInv, SessionsCounted, [Next]_vars PROVE SessionsCounted'
  OBVIOUS
<1>1. ASSUME UNCHANGED <<active, owner, sessions>>
      PROVE  SessionsCounted'
  BY <1>1, SessionsUndisturbed DEF Playing
<1>2. ASSUME NEW s \in Streams, DescribeBegin(s)
      PROVE  SessionsCounted'
  <2> DEFINE n == made + 1
  <2>1. /\ n \in Source /\ owner' = [owner EXCEPT ![n] = Nobody] /\ sessions' = sessions
        /\ active' = [active EXCEPT ![s] = active[s] \cup {n}]
        /\ \A y \in Streams : n \notin active[y]
    BY <1>2, OpenIs DEF DescribeBegin, ReadInv
  <2> HIDE DEF n
  <2>2. \A z \in Streams : Playing(z)' = Playing(z)
    BY <2>1 DEF Playing, ReadInv, TypeOK
  <2>3. \A z \in Streams : \A x \in Playing(z) : owner'[x] = owner[x]
    BY <2>1 DEF Playing, ReadInv, TypeOK
  <2> QED
    BY <2>1, <2>2, <2>3, SessionsUndisturbed
<1>3. CASE DescribeEnd
  <2> DEFINE d == describing
  <2>1. /\ d \in Source /\ owner[d] = Nobody /\ owner' = owner /\ sessions' = sessions
        /\ active' = [active EXCEPT ![stream[d]] = active[stream[d]] \ {d}]
    BY <1>3, BridgeAssumption
       DEF DescribeEnd, CloseSource, StillActive, ReadInv, TypeOK, SourcesKnown, Source
  <2>2. \A z \in Streams : Playing(z)' = Playing(z)
    BY <2>1 DEF Playing, ReadInv, TypeOK
  <2> QED
    BY <2>1, <2>2, SessionsUndisturbed
<1>4. CASE \E s \in Streams : OnFrame(s) \/ WorkerStep(s)
  BY <1>1, <1>4 DEF OnFrame, WorkerStep, CheckActive, PushAccessUnit, TriggerEvent,
                    sourceVars, clientVars
<1>5. CASE \/ HandleFrameTrigger
           \/ \E x \in Source : DeliverFrame(x) \/ DeliverToDeleted(x) \/ GetNextFrame(x)
           \/ \E x \in Source : StopGettingFrames(x)
  BY <1>1, <1>5 DEF HandleFrameTrigger, DeliverFrame, DeliverToDeleted, GetNextFrame,
                    StopGettingFrames, sourceVars, clientVars
<1>6. CASE UNCHANGED vars
  BY <1>1, <1>6 DEF vars, sourceVars, clientVars
<1> QED
  BY <1>2, <1>3, <1>4, <1>5, <1>6, SetupKeepsSessions, DeleteKeepsSessions DEF Next

\* The sessions counted against max_clients are those that have a source, for any
\* number of clients and streams: a client that left never blocks the next.
THEOREM SessionsHaveSources == Spec => []SessionsMatchSources
<1>1. Init => SessionsCounted
  <2> SUFFICES ASSUME Init, NEW s \in Streams
               PROVE  /\ sessions[s] = {} /\ Playing(s) = {}
                      /\ IsFiniteSet(sessions[s])
                      /\ Cardinality(Playing(s)) = 0 /\ Cardinality(sessions[s]) = 0
                      /\ 0 <= ClientLimit
    BY DEF SessionsCounted
  <2>1. sessions[s] = {} /\ Playing(s) = {}
    BY DEF Init, Playing
  <2>2. IsFiniteSet({}) /\ Cardinality({}) = 0
    BY FS_EmptySet
  <2> QED
    BY <2>1, <2>2, BridgeAssumption DEF ClientLimit
<1>2. ReadInv /\ SessionsCounted => SessionsMatchSources
  BY DEF ReadInv, SourcesKnown, SessionsCounted, SessionsMatchSources, Playing
<1> QED
  BY <1>1, <1>2, ReadInvariant, StepSessions, PTL DEF Spec

-----------------------------------------------------------------------------
(* The order of NAL units *)

\* The NAL units of a queue come one after the other.
Ordered(q) ==
    \A k, m \in 1 .. Len(q) : \A j \in 1 .. Len(q[k]), h \in 1 .. Len(q[m]) :
       k < m \/ (k = m /\ j < h) => Newer(q[m][h], q[k][j])

\* They are newer than n.
After(q, n) == \A k \in 1 .. Len(q) : \A j \in 1 .. Len(q[k]) : Newer(q[k][j], n)

\* They are of frames up to f.
UpTo(q, f) == \A k \in 1 .. Len(q) : \A j \in 1 .. Len(q[k]) : q[k][j].frame <= f

\* The last frame of a stream whose access unit may be in the queue.
LastPushed(s) == IF worker[s] \in {"check", "push"} THEN frame[s] - 1 ELSE frame[s]

QueuesOrdered ==
    \A s \in Streams :
       /\ worker[s] \in {"check", "push"} => frame[s] > 0
       /\ Ordered(queue[s])
       /\ After(queue[s], popped[s])
       /\ UpTo(queue[s], LastPushed(s))
       /\ popped[s].frame <= LastPushed(s)

\* The NAL units of a queue, one by one.
LEMMA NalType ==
  ASSUME NEW q \in Seq(Unit)
  PROVE  /\ Len(q) \in Nat
         /\ \A k \in 1 .. Len(q) : Len(q[k]) \in Nat \ {0}
         /\ \A k \in 1 .. Len(q) : \A j \in 1 .. Len(q[k]) :
               q[k][j] \in Nal /\ q[k][j].frame \in Nat /\ q[k][j].part \in Nat
<1>1. Len(q) \in Nat /\ \A k \in 1 .. Len(q) : q[k] \in Seq(Nal) /\ q[k] # <<>>
  <2>1. \A k \in 1 .. Len(q) : q[k] \in Unit
    BY ElementOfSeq
  <2> QED
    BY <2>1, LenProperties DEF Unit
<1> SUFFICES ASSUME NEW k \in 1 .. Len(q)
             PROVE  /\ Len(q[k]) \in Nat \ {0}
                    /\ \A j \in 1 .. Len(q[k]) :
                          q[k][j] \in Nal /\ q[k][j].frame \in Nat /\ q[k][j].part \in Nat
  BY <1>1
<1>2. Len(q[k]) \in Nat \ {0}
  BY <1>1, LenProperties, EmptySeq
<1>3. \A j \in 1 .. Len(q[k]) : q[k][j] \in Nal
  BY <1>1, ElementOfSeq
<1>4. \A n \in Nal : n.frame \in Nat /\ n.part \in Nat
  BY BridgeAssumption DEF Nal
<1> QED
  BY <1>2, <1>3, <1>4

\* A push of a later frame keeps the order.
LEMMA PushKeepsOrder ==
  ASSUME NEW q \in Seq(Unit), NEW f \in 0 .. MaxFrames, NEW n \in 0 .. MaxNals, n > 0, f > 0,
         NEW last \in Nal, Ordered(q), After(q, last), UpTo(q, f - 1), last.frame <= f - 1
  PROVE  LET p == Pushed(q, AccessUnit(f, n))
         IN  Ordered(p) /\ After(p, last) /\ UpTo(p, f)
<1> DEFINE au == AccessUnit(f, n)
           p == Pushed(q, au)
<1>1. /\ au \in Unit /\ Len(au) = n
      /\ \A k \in 1 .. n : au[k] = [frame |-> f, part |-> k]
  BY AccessUnitIs
<1> HIDE DEF au
<1>2. PICK d \in 0 .. Len(q) :
         /\ Len(p) = Len(q) - d + 1
         /\ \A k \in 1 .. Len(q) - d : p[k] = q[k + d]
         /\ p[Len(q) - d + 1] = au
  BY <1>1, PushedIs
<1> HIDE DEF p
<1>3. /\ Len(q) \in Nat /\ f \in Nat /\ n \in Nat /\ last.frame \in Nat /\ last.part \in Nat
      /\ \A k \in 1 .. Len(q) : \A j \in 1 .. Len(q[k]) :
            q[k][j].frame \in Nat /\ q[k][j].part \in Nat
  <2>1. last.frame \in Nat /\ last.part \in Nat
    BY BridgeAssumption DEF Nal
  <2>2. f \in Nat /\ n \in Nat
    BY BridgeAssumption
  <2>3. /\ Len(q) \in Nat
        /\ \A k \in 1 .. Len(q) : \A j \in 1 .. Len(q[k]) :
              q[k][j].frame \in Nat /\ q[k][j].part \in Nat
    BY NalType
  <2> QED
    BY <2>1, <2>2, <2>3
<1> DEFINE e == Len(q) - d
<1>4. e \in Nat /\ Len(p) = e + 1 /\ p[e + 1] = au /\ \A k \in 1 .. e : p[k] = q[k + d]
  BY <1>2, <1>3
<1>5. \A k \in 1 .. e : k + d \in 1 .. Len(q)
  BY <1>3
<1>6. \A k, m \in 1 .. e : (k < m <=> k + d < m + d) /\ (k = m <=> k + d = m + d)
  BY <1>3
<1> HIDE DEF e
<1>7. \A k \in 1 .. e + 1 : k \in 1 .. e \/ k = e + 1
  BY <1>4
<1>8. \A j \in 1 .. Len(au) : au[j].frame = f /\ au[j].part = j
  BY <1>1
<1>9. \A k \in 1 .. e : \A j \in 1 .. Len(p[k]) :
         /\ p[k][j].frame \in Nat /\ p[k][j].part \in Nat
         /\ p[k][j].frame <= f - 1 /\ Newer(p[k][j], last)
  BY <1>3, <1>4, <1>5 DEF After, UpTo
<1>10. After(p, last)
  <2>1. \A j \in 1 .. Len(au) : Newer(au[j], last)
    BY <1>3, <1>8 DEF Newer
  <2> QED
    BY <1>4, <1>7, <1>9, <2>1 DEF After
<1>11. UpTo(p, f)
  <2> SUFFICES ASSUME NEW k \in 1 .. e + 1, NEW j \in 1 .. Len(p[k])
               PROVE  p[k][j].frame <= f
    BY <1>4 DEF UpTo
  <2>1. CASE k \in 1 .. e
    BY <1>3, <1>9, <2>1
  <2>2. CASE k = e + 1
    BY <1>3, <1>4, <1>8, <2>2
  <2> QED
    BY <1>7, <2>1, <2>2
<1>12. Ordered(p)
  <2> SUFFICES ASSUME NEW k \in 1 .. e + 1, NEW m \in 1 .. e + 1,
                      NEW j \in 1 .. Len(p[k]), NEW h \in 1 .. Len(p[m]),
                      k < m \/ (k = m /\ j < h)
               PROVE  Newer(p[m][h], p[k][j])
    BY <1>4 DEF Ordered
  <2>1. CASE k \in 1 .. e /\ m \in 1 .. e
    <3>1. /\ p[k] = q[k + d] /\ p[m] = q[m + d]
          /\ k + d \in 1 .. Len(q) /\ m + d \in 1 .. Len(q)
          /\ k + d < m + d \/ (k + d = m + d /\ j < h)
      BY <1>4, <1>5, <1>6, <2>1
    <3> QED
      BY <3>1 DEF Ordered
  <2>2. CASE k \in 1 .. e /\ m = e + 1
    <3>1. p[m][h].frame = f /\ p[k][j].frame \in Nat /\ p[k][j].frame <= f - 1
      BY <1>4, <1>8, <1>9, <2>2
    <3> QED
      BY <1>3, <3>1 DEF Newer
  <2>3. CASE k = e + 1
    <3>1. m = e + 1 /\ j < h
      BY <1>4, <2>3
    <3> QED
      BY <1>1, <1>4, <1>8, <2>3, <3>1 DEF Newer
  <2> QED
    BY <1>7, <2>1, <2>2, <2>3
<1> QED
  BY <1>10, <1>11, <1>12 DEF p, au

\* The next NAL unit is the oldest, and what is left is newer.
LEMMA PopKeepsOrder ==
  ASSUME NEW q \in Seq(Unit), q # <<>>, NEW last, NEW f, Ordered(q), After(q, last), UpTo(q, f)
  PROVE  /\ Newer(NextNal(q), last) /\ NextNal(q).frame <= f
         /\ Ordered(Popped(q)) /\ After(Popped(q), NextNal(q)) /\ UpTo(Popped(q), f)
<1> DEFINE p == Popped(q)
<1>1. Len(q) \in Nat \ {0} /\ Len(q[1]) \in Nat \ {0} /\ NextNal(q) = q[1][1]
  BY HeadIs
<1>2. Newer(NextNal(q), last) /\ NextNal(q).frame <= f
  BY <1>1 DEF After, UpTo
<1>3. p \in Seq(Unit)
  BY PoppedIs
<1>4. \/ /\ Len(p) = Len(q) - 1
         /\ \A k \in 1 .. Len(q) - 1 : p[k] = q[k + 1]
      \/ /\ Len(p) = Len(q)
         /\ Len(p[1]) = Len(q[1]) - 1
         /\ \A j \in 1 .. Len(q[1]) - 1 : p[1][j] = q[1][j + 1]
         /\ \A k \in 2 .. Len(q) : p[k] = q[k]
  BY PoppedIs
<1>5. \A k \in 1 .. Len(q) : Len(q[k]) \in Nat \ {0}
  BY NalType
<1> HIDE DEF p
<1>6. CASE Len(p) = Len(q) - 1 /\ \A k \in 1 .. Len(q) - 1 : p[k] = q[k + 1]
  <2>1. \A k \in 1 .. Len(p) : k + 1 \in 1 .. Len(q) /\ p[k] = q[k + 1] /\ 1 < k + 1
    BY <1>1, <1>6
  <2>2. \A k, m \in 1 .. Len(p) : (k < m <=> k + 1 < m + 1) /\ (k = m <=> k + 1 = m + 1)
    BY <1>1, <1>6
  <2>3. 1 \in 1 .. Len(q) /\ 1 \in 1 .. Len(q[1])
    BY <1>1
  <2>4. Ordered(p)
    BY <2>1, <2>2 DEF Ordered
  <2>5. After(p, NextNal(q)) /\ UpTo(p, f)
    BY <1>1, <2>1, <2>3 DEF Ordered, After, UpTo
  <2> QED
    BY <1>2, <2>4, <2>5 DEF p
<1>7. CASE /\ Len(p) = Len(q)
           /\ Len(p[1]) = Len(q[1]) - 1
           /\ \A j \in 1 .. Len(q[1]) - 1 : p[1][j] = q[1][j + 1]
           /\ \A k \in 2 .. Len(q) : p[k] = q[k]
  <2> DEFINE up(k, j) == IF k = 1 THEN j + 1 ELSE j
  <2>1. ASSUME NEW k \in 1 .. Len(p), NEW j \in 1 .. Len(p[k])
        PROVE  /\ k \in 1 .. Len(q) /\ up(k, j) \in 1 .. Len(q[k])
               /\ p[k][j] = q[k][up(k, j)]
               /\ 1 < k \/ (1 = k /\ 1 < up(k, j))
    <3>1. CASE k = 1
      BY <1>1, <1>7, <3>1
    <3>2. CASE k # 1
      <4>1. k \in 2 .. Len(q)
        BY <1>1, <1>7, <3>2
      <4> QED
        BY <1>7, <3>2, <4>1
    <3> QED
      BY <3>1, <3>2
  <2>2. ASSUME NEW k \in 1 .. Len(p), NEW j \in 1 .. Len(p[k]), NEW h \in 1 .. Len(p[k]), j < h
        PROVE  up(k, j) < up(k, h)
    <3>1. j \in Nat /\ h \in Nat
      BY <1>3, NalType
    <3> QED
      BY <2>2, <3>1
  <2> HIDE DEF up
  <2>3. 1 \in 1 .. Len(q) /\ 1 \in 1 .. Len(q[1])
    BY <1>1
  <2>4. Ordered(p)
    <3> SUFFICES ASSUME NEW k \in 1 .. Len(p), NEW m \in 1 .. Len(p),
                        NEW j \in 1 .. Len(p[k]), NEW h \in 1 .. Len(p[m]),
                        k < m \/ (k = m /\ j < h)
                 PROVE  Newer(p[m][h], p[k][j])
      BY DEF Ordered
    <3>1. k < m \/ (k = m /\ up(k, j) < up(m, h))
      BY <2>2
    <3>2. /\ k \in 1 .. Len(q) /\ up(k, j) \in 1 .. Len(q[k]) /\ p[k][j] = q[k][up(k, j)]
          /\ m \in 1 .. Len(q) /\ up(m, h) \in 1 .. Len(q[m]) /\ p[m][h] = q[m][up(m, h)]
      BY <2>1
    <3> QED
      BY <3>1, <3>2 DEF Ordered
  <2>5. After(p, NextNal(q))
    BY <1>1, <2>1, <2>3 DEF Ordered, After
  <2>6. UpTo(p, f)
    BY <2>1 DEF UpTo
  <2> QED
    BY <1>2, <2>4, <2>5, <2>6 DEF p
<1> QED
  BY <1>4, <1>6, <1>7

\* A worker's steps, from the entry of on_frame() to the push.
LEMMA WorkerKeepsOrder ==
  ASSUME ReadInv, QueuesOrdered, NEW s \in Streams, OnFrame(s) \/ WorkerStep(s)
  PROVE  QueuesOrdered'
<1>0. /\ worker \in [Streams -> {"idle", "check", "push", "trigger"}]
      /\ frame \in [Streams -> 0 .. MaxFrames] /\ MaxFrames \in Nat
      /\ queue \in [Streams -> Seq(Unit)] /\ popped \in [Streams -> Nal]
  BY BridgeAssumption DEF ReadInv, TypeOK, Unit
<1>1. popped' = popped /\ \A z \in Streams : z # s =>
         queue'[z] = queue[z] /\ worker'[z] = worker[z] /\ frame'[z] = frame[z]
  BY <1>0 DEF OnFrame, WorkerStep, CheckActive, PushAccessUnit, TriggerEvent
<1>2. \A z \in Streams : z # s =>
         /\ worker'[z] \in {"check", "push"} => frame'[z] > 0
         /\ Ordered(queue'[z]) /\ After(queue'[z], popped'[z])
         /\ UpTo(queue'[z], LastPushed(z)') /\ popped'[z].frame <= LastPushed(z)'
  BY <1>1 DEF QueuesOrdered, LastPushed
<1> DEFINE q == queue[s]
           n == popped[s]
           f == frame[s]
           b == LastPushed(s)
<1>3. /\ q \in Seq(Unit) /\ n \in Nal /\ f \in 0 .. MaxFrames /\ f \in Nat
      /\ Ordered(q) /\ After(q, n) /\ UpTo(q, b) /\ n.frame <= b
      /\ worker[s] \in {"check", "push"} => f > 0
      /\ b = IF worker[s] \in {"check", "push"} THEN f - 1 ELSE f
  BY <1>0 DEF QueuesOrdered, LastPushed
<1>4. n.frame \in Nat /\ \A k \in 1 .. Len(q) : \A j \in 1 .. Len(q[k]) : q[k][j].frame \in Nat
  <2>1. n.frame \in Nat
    BY <1>0 DEF Nal
  <2> QED
    BY <1>3, <2>1, NalType
<1> HIDE DEF q, n, f, b
<1>5. /\ worker'[s] \in {"check", "push"} => frame'[s] > 0
      /\ Ordered(queue'[s]) /\ After(queue'[s], popped'[s])
      /\ UpTo(queue'[s], LastPushed(s)') /\ popped'[s].frame <= LastPushed(s)'
  <2>1. CASE OnFrame(s)
    <3>1. queue'[s] = q /\ popped'[s] = n /\ worker'[s] = "check" /\ frame'[s] = f + 1
      BY <1>0, <2>1 DEF OnFrame, q, n, f
    <3>2. LastPushed(s)' = b /\ frame'[s] > 0
      <4>1. worker[s] = "idle"
        BY <2>1 DEF OnFrame
      <4> QED
        BY <1>3, <3>1, <4>1 DEF LastPushed
    <3> QED
      BY <1>3, <3>1, <3>2
  <2>2. CASE CheckActive(s) \/ TriggerEvent(s)
    <3>1. /\ queue'[s] = q /\ popped'[s] = n /\ frame'[s] = f
          /\ worker[s] \in {"check", "trigger"} /\ worker'[s] \in {"idle", "push", "trigger"}
          /\ worker[s] = "trigger" => worker'[s] = "idle"
      BY <1>0, <2>2 DEF CheckActive, TriggerEvent, q, n, f
    <3>2. /\ worker'[s] \in {"check", "push"} => frame'[s] > 0
          /\ LastPushed(s)' = b \/ LastPushed(s)' = b + 1
          /\ b \in Nat
      BY <1>3, <3>1 DEF LastPushed
    <3>3. UpTo(q, b + 1) /\ n.frame <= b + 1
      BY <1>3, <1>4, <3>2 DEF UpTo
    <3> QED
      BY <1>3, <3>1, <3>2, <3>3
  <2>3. CASE PushAccessUnit(s)
    <3>1. /\ queue'[s] = Pushed(q, AccessUnit(f, nals[s])) /\ popped'[s] = n /\ frame'[s] = f
          /\ worker[s] = "push" /\ worker'[s] = "trigger"
      BY <1>0, <2>3 DEF PushAccessUnit, q, n, f
    <3>2. nals[s] \in 0 .. MaxNals /\ nals[s] > 0
      BY <3>1 DEF ReadInv, TypeOK, SourcesKnown
    <3>3. f > 0 /\ b = f - 1 /\ LastPushed(s)' = f
      BY <1>3, <3>1 DEF LastPushed
    <3>4. Ordered(queue'[s]) /\ After(queue'[s], n) /\ UpTo(queue'[s], f)
      BY <1>3, <3>1, <3>2, <3>3, PushKeepsOrder
    <3> QED
      BY <1>3, <1>4, <3>1, <3>3, <3>4
  <2> QED
    BY <2>1, <2>2, <2>3 DEF WorkerStep
<1> QED
  BY <1>2, <1>5 DEF QueuesOrdered

\* A NAL unit that is handed over is the oldest of its queue.
LEMMA HandKeepsOrder ==
  ASSUME ReadInv, QueuesOrdered, NEW x \in Source, queue[stream[x]] # <<>>, Hand(x),
         UNCHANGED <<worker, frame>>
  PROVE  /\ QueuesOrdered'
         /\ \A s \in Streams : popped'[s] # popped[s] => Newer(popped'[s], popped[s])
<1> DEFINE s == stream[x]
<1>1. s \in Streams /\ queue[s] \in Seq(Unit) /\ queue[s] # <<>>
  BY QueueType DEF ReadInv, TypeOK
<1>2. /\ popped' = [popped EXCEPT ![s] = NextNal(queue[s])]
      /\ queue' = [queue EXCEPT ![s] = Popped(queue[s])]
  BY DEF Hand
<1> HIDE DEF s
<1>3. /\ popped'[s] = NextNal(queue[s]) /\ queue'[s] = Popped(queue[s])
      /\ \A z \in Streams : z # s => popped'[z] = popped[z] /\ queue'[z] = queue[z]
      /\ \A z \in Streams : LastPushed(z)' = LastPushed(z)
  BY <1>1, <1>2 DEF ReadInv, TypeOK, LastPushed
<1>4. Ordered(queue[s]) /\ After(queue[s], popped[s]) /\ UpTo(queue[s], LastPushed(s))
  BY <1>1 DEF QueuesOrdered
<1>5. /\ Newer(popped'[s], popped[s]) /\ popped'[s].frame <= LastPushed(s)
      /\ Ordered(queue'[s]) /\ After(queue'[s], popped'[s]) /\ UpTo(queue'[s], LastPushed(s))
  BY <1>1, <1>3, <1>4, PopKeepsOrder
<1>6. QueuesOrdered'
  BY <1>3, <1>5 DEF QueuesOrdered
<1> QED
  BY <1>3, <1>5, <1>6

\* Every step keeps the order, and pops in order.
LEMMA StepOrder ==
  ASSUME ReadInv, QueuesOrdered, [Next]_vars
  PROVE  /\ QueuesOrdered'
         /\ \A s \in Streams : popped'[s] # popped[s] => Newer(popped'[s], popped[s])
<1>1. ASSUME UNCHANGED <<queue, popped, worker, frame>>
      PROVE  QueuesOrdered' /\ popped' = popped
  BY <1>1 DEF QueuesOrdered, LastPushed
<1>2. ASSUME NEW s \in Streams, OnFrame(s) \/ WorkerStep(s)
      PROVE  QueuesOrdered' /\ popped' = popped
  BY <1>2, WorkerKeepsOrder DEF OnFrame, WorkerStep, CheckActive, PushAccessUnit, TriggerEvent
<1>3. ASSUME NEW x \in Source, DeliverFrame(x) \/ GetNextFrame(x)
      PROVE  \/ UNCHANGED <<queue, popped, worker, frame>>
             \/ queue[stream[x]] # <<>> /\ Hand(x) /\ UNCHANGED <<worker, frame>>
  BY <1>3 DEF DeliverFrame, GetNextFrame, frameVars
<1>4. CASE \/ UNCHANGED vars \/ HandleFrameTrigger \/ DescribeEnd
           \/ \E x \in Source : DeliverToDeleted(x) \/ StopGettingFrames(x) \/ DeleteStream(x)
           \/ \E s \in Streams : DescribeBegin(s)
           \/ \E c \in Clients, s \in Streams : Setup(c, s)
  BY <1>1, <1>4 DEF vars, HandleFrameTrigger, DescribeEnd, DeliverToDeleted,
                    StopGettingFrames, DeleteStream, DescribeBegin, Setup, frameVars
<1> QED
  BY <1>1, <1>2, <1>3, <1>4, HandKeepsOrder DEF Next

\* The NAL units of a stream leave its queue in the order in which the encoder made
\* them, whatever push_access_unit() drops and whichever source takes them.
THEOREM NalsLeaveInOrder == Spec => PoppedInOrder
<1>1. Init => QueuesOrdered
  <2> SUFFICES ASSUME Init, NEW s \in Streams
               PROVE  /\ queue[s] = <<>> /\ Len(<<>>) = 0 /\ worker[s] = "idle"
                      /\ popped[s].frame = 0 /\ LastPushed(s) = 0
    BY DEF QueuesOrdered, Ordered, After, UpTo
  <2> QED
    BY DEF Init, NoNal, LastPushed
<1>2. ReadInv /\ QueuesOrdered /\ [Next]_vars => QueuesOrdered'
  BY StepOrder
<1>3. ReadInv /\ QueuesOrdered /\ [Next]_vars =>
         [\A s \in Streams : popped'[s] # popped[s] => Newer(popped'[s], popped[s])]_popped
  BY StepOrder
<1> QED
  BY <1>1, <1>2, <1>3, ReadInvariant, PTL DEF Spec, PoppedInOrder
=============================================================================
