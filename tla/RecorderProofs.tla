----------------------------- MODULE RecorderProofs -----------------------------
(***************************************************************************)
(* What StreamFrame and Recorder promise for any number of threads, any    *)
(* readings of the clock, and any size of the queue: that timestamps       *)
(* increase over all channels, and that the recorder writes in the order   *)
(* of the timestamps although it drops entries from the middle.            *)
(***************************************************************************)
EXTENDS Recorder, SequenceTheorems, FiniteSetTheorems, WellFoundedInduction, TLAPS

\* last_timestamp is the latest timestamp of all threads.
LastIsLatest == \A t \in Threads : stamp[t] <= last

-----------------------------------------------------------------------------
(* The clock *)

\* No step of the clock breaks the types, or gives a timestamp that is not later than
\* all others.
LEMMA ClockStep ==
  ASSUME ClockTypeOK, LastIsLatest, [ClockNext]_frameVars
  PROVE  /\ ClockTypeOK' /\ LastIsLatest'
         /\ \A t \in Threads : stamp'[t] # stamp[t] =>
               \A u \in Threads : stamp'[t] > stamp[u]
<1>1. CASE SetClock
  BY <1>1, ClockAssumption DEF SetClock, ClockTypeOK, LastIsLatest
<1>2. ASSUME NEW t \in Threads, ReadClock(t)
      PROVE  /\ ClockTypeOK' /\ LastIsLatest' /\ stamp' = stamp
  BY <1>2, ClockAssumption DEF ReadClock, ClockTypeOK, LastIsLatest
<1>3. ASSUME NEW t \in Threads, Stamp(t)
      PROVE  /\ ClockTypeOK' /\ LastIsLatest'
             /\ \A u \in Threads : u # t => stamp'[u] = stamp[u]
             /\ \A u \in Threads : stamp'[t] > stamp[u]
  <2>1. last' \in Nat /\ last' > last
    BY <1>3 DEF Stamp, NextStamp, ClockTypeOK
  <2>2. stamp' = [stamp EXCEPT ![t] = last']
    BY <1>3 DEF Stamp
  <2>3. ClockTypeOK'
    BY <1>3, <2>1, <2>2 DEF Stamp, ClockTypeOK
  <2>4. /\ LastIsLatest'
        /\ \A u \in Threads : u # t => stamp'[u] = stamp[u]
        /\ \A u \in Threads : stamp'[t] > stamp[u]
    BY <2>1, <2>2 DEF ClockTypeOK, LastIsLatest
  <2> QED
    BY <2>3, <2>4
<1>4. ASSUME NEW t \in Threads, HandOver(t)
      PROVE  /\ ClockTypeOK' /\ LastIsLatest' /\ stamp' = stamp
  BY <1>4 DEF HandOver, ClockTypeOK, LastIsLatest
<1>5. CASE UNCHANGED frameVars
  BY <1>5 DEF frameVars, ClockTypeOK, LastIsLatest
<1>6. ASSUME SetClock
      PROVE  stamp' = stamp
  BY <1>6 DEF SetClock
<1>7. CASE stamp' = stamp /\ ClockTypeOK' /\ LastIsLatest'
  BY <1>7
<1> QED
  BY <1>1, <1>2, <1>3, <1>4, <1>5, <1>6, <1>7 DEF ClockNext, frameVars

\* Before the first frame no timestamp was given.
LEMMA ClockStart == ClockInit => ClockTypeOK /\ LastIsLatest
  BY ClockAssumption DEF ClockInit, ClockTypeOK, LastIsLatest

\* Timestamps increase over all threads, however they interleave between reading the
\* clock and taking timestamp_mutex, and however the clock is set.
THEOREM TimestampsIncrease == ClockSpec => StampsIncrease
<1>1. ClockInit => ClockTypeOK /\ LastIsLatest
  BY ClockStart
<1>2. ClockTypeOK /\ LastIsLatest /\ [ClockNext]_frameVars => ClockTypeOK' /\ LastIsLatest'
  BY ClockStep
<1>3. ClockTypeOK /\ LastIsLatest /\ [ClockNext]_frameVars =>
         [\A t \in Threads : stamp'[t] # stamp[t] =>
             \A u \in Threads : stamp'[t] > stamp[u]]_frameVars
  BY ClockStep
<1> QED
  BY <1>1, <1>2, <1>3, PTL DEF ClockSpec, StampsIncrease

-----------------------------------------------------------------------------
(* Sequences and the entry that is dropped *)

\* A set of naturals that is not empty has a smallest element.
LEMMA Smallest ==
  ASSUME NEW T \in SUBSET Nat, T # {}
  PROVE  \E x \in T : \A y \in T : x <= y
<1>1. PICK x \in T : \A y \in T : ~ (<<y, x>> \in OpToRel(<, Nat))
  BY NatLessThanWellFounded, WFMin
<1>2. \A y \in T : ~ (y < x)
  BY <1>1 DEF OpToRel
<1> QED
  BY <1>2

\* What is left of a sequence when one element is taken out.
LEMMA RemoveAtIs ==
  ASSUME NEW S, NEW s \in Seq(S), NEW i \in 1 .. Len(s)
  PROVE  /\ RemoveAt(s, i) \in Seq(S)
         /\ Len(RemoveAt(s, i)) = Len(s) - 1
         /\ \A k \in 1 .. Len(s) - 1 :
               RemoveAt(s, i)[k] = IF k < i THEN s[k] ELSE s[k + 1]
<1> DEFINE a == SubSeq(s, 1, i - 1)
           b == SubSeq(s, i + 1, Len(s))
<1>1. /\ a \in Seq(S) /\ Len(a) = i - 1
      /\ \A k \in 1 .. i - 1 : a[k] = s[k]
  BY SubSeqProperties
<1>2. /\ b \in Seq(S) /\ Len(b) = Len(s) - i
      /\ \A k \in 1 .. Len(s) - i : b[k] = s[i + k]
  BY SubSeqProperties
<1>3. RemoveAt(s, i) = a \o b
  BY DEF RemoveAt
<1> HIDE DEF a, b
<1>4. /\ a \o b \in Seq(S) /\ Len(a \o b) = Len(s) - 1
      /\ \A k \in 1 .. Len(s) - 1 : (a \o b)[k] = IF k < i THEN a[k] ELSE b[k - i + 1]
  <2>1. /\ a \o b \in Seq(S) /\ Len(a \o b) = Len(a) + Len(b)
        /\ \A k \in 1 .. Len(a) + Len(b) : (a \o b)[k] =
              IF k <= Len(a) THEN a[k] ELSE b[k - Len(a)]
    BY <1>1, <1>2, ConcatProperties
  <2>2. Len(a) + Len(b) = Len(s) - 1
    BY <1>1, <1>2
  <2>3. ASSUME NEW k \in 1 .. Len(s) - 1
        PROVE  (a \o b)[k] = IF k < i THEN a[k] ELSE b[k - i + 1]
    BY <1>1, <2>1, <2>2
  <2> QED
    BY <2>1, <2>2, <2>3
<1>5. ASSUME NEW k \in 1 .. Len(s) - 1
      PROVE  (a \o b)[k] = IF k < i THEN s[k] ELSE s[k + 1]
  <2>1. Len(s) \in Nat
    BY LenProperties
  <2>2. CASE k < i
    BY <1>1, <1>4, <2>1, <2>2
  <2>3. CASE ~ (k < i)
    <3>1. k - i + 1 \in 1 .. Len(s) - i /\ i + (k - i + 1) = k + 1
      BY <2>1, <2>3
    <3>2. (a \o b)[k] = b[k - i + 1]
      BY <1>4, <2>3
    <3>3. b[k - i + 1] = s[i + (k - i + 1)]
      BY <1>2, <3>1
    <3> QED
      BY <2>3, <3>1, <3>2, <3>3
  <2> QED
    BY <2>2, <2>3
<1> QED
  BY <1>3, <1>4, <1>5

\* try_drop_frame() always finds an entry to drop in a queue that is not empty.
LEMMA VictimInQueue ==
  ASSUME queue \in Seq(Entry), queue # <<>>
  PROVE  Victim \in 1 .. Len(queue)
<1> DEFINE plain == {k \in 1 .. Len(queue) : ~queue[k].idr}
<1>1. Len(queue) \in Nat \ {0}
  BY EmptySeq, LenProperties
<1>2. CASE plain = {}
  BY <1>1, <1>2 DEF Victim
<1>3. CASE plain # {}
  <2>0. plain \in SUBSET Nat
    BY <1>1
  <2>1. \E x \in plain : \A y \in plain : x <= y
    <3> HIDE DEF plain
    <3> QED
      BY <1>3, <2>0, Smallest
  <2>2. Victim = CHOOSE k \in plain : \A j \in plain : k <= j
    BY <1>3 DEF Victim
  <2> HIDE DEF plain
  <2>3. Victim \in plain
    BY <2>1, <2>2
  <2> QED
    BY <2>3 DEF plain
<1> QED
  BY <1>2, <1>3

\* on_frame() puts its entry behind all others and drops at most one of those.
LEMMA EnqueuedIs ==
  ASSUME queue \in Seq(Entry), NEW e \in Entry
  PROVE  \E s \in Seq(Entry) :
            /\ Enqueued(e) = Append(s, e)
            /\ \A k \in 1 .. Len(s) :
                  \E h \in 1 .. Len(queue) :
                     /\ s[k] = queue[h]
                     /\ \A j \in 1 .. Len(s) : k < j =>
                           \E g \in 1 .. Len(queue) : h < g /\ s[j] = queue[g]
<1>1. CASE Len(queue) >= QueueSize
  <2>1. queue # <<>>
    BY <1>1, RecorderAssumption
  <2>2. Victim \in 1 .. Len(queue)
    BY <2>1, VictimInQueue
  <2> DEFINE s == RemoveAt(queue, Victim)
             v == Victim
  <2>3. /\ s \in Seq(Entry) /\ Len(s) = Len(queue) - 1
        /\ \A k \in 1 .. Len(queue) - 1 : s[k] = IF k < v THEN queue[k] ELSE queue[k + 1]
    BY <2>2, RemoveAtIs
  <2>4. Enqueued(e) = Append(s, e)
    BY <1>1 DEF Enqueued
  <2> HIDE DEF s, v
  <2>5. Len(queue) \in Nat
    BY LenProperties
  <2>6. v \in 1 .. Len(queue)
    BY <2>2 DEF v
  <2>7. ASSUME NEW k \in 1 .. Len(s)
        PROVE  \E h \in 1 .. Len(queue) :
                  /\ s[k] = queue[h]
                  /\ \A j \in 1 .. Len(s) : k < j =>
                        \E g \in 1 .. Len(queue) : h < g /\ s[j] = queue[g]
    <3> DEFINE at(i) == IF i < v THEN i ELSE i + 1
    <3>1. \A i \in 1 .. Len(s) : at(i) \in 1 .. Len(queue) /\ s[i] = queue[at(i)]
      BY <2>3, <2>5, <2>6
    <3>2. \A j \in 1 .. Len(s) : k < j => at(k) < at(j)
      BY <2>3, <2>5, <2>6
    <3> HIDE DEF at
    <3> QED
      BY <3>1, <3>2
  <2> QED
    BY <2>3, <2>4, <2>7
<1>2. CASE ~ (Len(queue) >= QueueSize)
  <2>1. Enqueued(e) = Append(queue, e)
    BY <1>2 DEF Enqueued
  <2> QED
    BY <2>1
<1> QED
  BY <1>1, <1>2

-----------------------------------------------------------------------------
(* The recorder *)

\* A writer that found its predicate true has an entry to take or is told to stop:
\* nobody else takes from the queue, and running_ is never set again.
ReadyHasEntry == writer = "ready" => queue # <<>> \/ ~running

\* An entry was made by the channel, and before the frame the channel has in hand.
Earlier(e) ==
    /\ e.stamp <= stamp[Channel]
    /\ stage[Channel] = "made" => e.stamp < stamp[Channel]

\* File, entry in hand and queue, read one after the other, increase.
InOrder ==
    /\ \A k \in 1 .. Len(queue) :
          /\ Earlier(queue[k])
          /\ \A j \in 1 .. Len(queue) : k < j => queue[k].stamp < queue[j].stamp
    /\ writer = "write" =>
          /\ Earlier(entry)
          /\ \A k \in 1 .. Len(queue) : entry.stamp < queue[k].stamp
    /\ \A i \in 1 .. Len(file) :
          /\ Earlier(file[i])
          /\ \A k \in 1 .. Len(queue) : file[i].stamp < queue[k].stamp
          /\ writer = "write" => file[i].stamp < entry.stamp

IInv == TypeOK /\ LastIsLatest /\ ReadyHasEntry /\ InOrder

\* A step of the clock leaves the entries that were made before.
LEMMA EarlierStays ==
  ASSUME IInv, ClockNext, NEW e \in Entry, Earlier(e)
  PROVE  Earlier(e)'
<1> USE DEF IInv
<1>0. Channel \in Threads /\ e.stamp \in Nat /\ stamp[Channel] \in Nat /\ last \in Nat
  BY RecorderAssumption DEF TypeOK, ClockTypeOK, Entry
<1>1. CASE SetClock
  BY <1>1 DEF SetClock, Earlier
<1>2. ASSUME NEW t \in Threads, ReadClock(t)
      PROVE  Earlier(e)'
  BY <1>0, <1>2 DEF ReadClock, Earlier, TypeOK
<1>3. ASSUME NEW t \in Threads, HandOver(t)
      PROVE  Earlier(e)'
  BY <1>0, <1>3 DEF HandOver, Earlier, TypeOK
<1>4. ASSUME NEW t \in Threads, Stamp(t)
      PROVE  Earlier(e)'
  <2>1. CASE t = Channel
    <3>1. NextStamp(t) \in Nat /\ NextStamp(t) > last
      BY DEF TypeOK, ClockTypeOK, NextStamp
    <3>2. stamp[Channel] <= last
      BY <1>0 DEF LastIsLatest
    <3>3. stamp'[Channel] = NextStamp(t)
      BY <1>4, <2>1 DEF Stamp, TypeOK, ClockTypeOK
    <3>4. e.stamp < stamp'[Channel]
      BY <1>0, <3>1, <3>2, <3>3 DEF Earlier
    <3>5. stamp'[Channel] \in Nat
      BY <3>1, <3>3
    <3> QED
      BY <1>0, <3>4, <3>5 DEF Earlier
  <2>2. CASE t # Channel
    BY <1>0, <1>4, <2>2 DEF Stamp, Earlier, TypeOK, ClockTypeOK
  <2> QED
    BY <2>1, <2>2
<1> QED
  BY <1>1, <1>2, <1>3, <1>4 DEF ClockNext

\* The steps of the clock, seen from the recorder.
LEMMA ClockKeepsInv ==
  ASSUME IInv, ClockNext, UNCHANGED recVars
  PROVE  IInv'
<1> USE DEF IInv
<1>1. ClockTypeOK' /\ LastIsLatest'
  BY ClockStep DEF TypeOK
<1>2. stage' \in [Threads -> {"idle", "read", "made", "notify"}]
  BY DEF TypeOK, ClockNext, SetClock, ReadClock, Stamp, HandOver
<1>3. TypeOK' /\ ReadyHasEntry'
  BY <1>1, <1>2 DEF TypeOK, recVars, ReadyHasEntry
<1>4. ASSUME NEW e \in Entry, Earlier(e)
      PROVE  Earlier(e)'
  BY <1>4, EarlierStays
<1>5. /\ \A k \in 1 .. Len(queue) : queue[k] \in Entry
      /\ \A k \in 1 .. Len(file) : file[k] \in Entry
      /\ entry \in Entry
  BY ElementOfSeq DEF TypeOK
<1>6. /\ queue' = queue /\ file' = file /\ writer' = writer /\ entry' = entry
  BY DEF recVars
<1>7. /\ \A k \in 1 .. Len(queue) : Earlier(queue[k])'
      /\ \A k \in 1 .. Len(file) : Earlier(file[k])'
      /\ writer = "write" => Earlier(entry)'
  BY <1>4, <1>5, <1>6 DEF InOrder, Earlier
<1>8. InOrder'
  BY <1>6, <1>7 DEF InOrder, Earlier
<1> QED
  BY <1>1, <1>3, <1>8

\* on_frame() appends the latest entry of all.
LEMMA OnFrameKeepsInv ==
  ASSUME IInv, NEW nalus \in SUBSET NaluTypes, OnFrame(nalus)
  PROVE  IInv'
<1> USE DEF IInv
<1> DEFINE e == [stamp |-> stamp[Channel], idr |-> IsIdr(codec, nalus)]
<1>1. /\ Channel \in Threads /\ stamp[Channel] \in Nat /\ e \in Entry
      /\ e.stamp = stamp[Channel]
  BY RecorderAssumption DEF TypeOK, ClockTypeOK, Entry, IsIdr
<1>2. /\ stage[Channel] = "made" /\ stage'[Channel] = "notify"
      /\ queue' = Enqueued(e)
      /\ stamp' = stamp /\ file' = file /\ writer' = writer /\ entry' = entry
      /\ running' = running /\ writer # "ready"
  BY <1>1 DEF OnFrame, TypeOK, MutexFree
<1>3. queue \in Seq(Entry)
  BY DEF TypeOK
<1>4. PICK s \in Seq(Entry) :
         /\ Enqueued(e) = Append(s, e)
         /\ \A k \in 1 .. Len(s) :
               \E h \in 1 .. Len(queue) :
                  /\ s[k] = queue[h]
                  /\ \A j \in 1 .. Len(s) : k < j =>
                        \E g \in 1 .. Len(queue) : h < g /\ s[j] = queue[g]
  <2> HIDE DEF e
  <2> QED
    BY <1>1, <1>3, EnqueuedIs
<1>5. queue' = Append(s, e) /\ queue' \in Seq(Entry)
  <2>1. queue' = Append(s, e)
    BY <1>2, <1>4
  <2> HIDE DEF e
  <2>2. Append(s, e) \in Seq(Entry)
    BY <1>1, AppendProperties
  <2> QED
    BY <2>1, <2>2
<1>6. TypeOK' /\ ReadyHasEntry' /\ LastIsLatest'
  <2>1. stage' \in [Threads -> {"idle", "read", "made", "notify"}]
    BY <1>1 DEF OnFrame, TypeOK
  <2>2. Len(queue) >= QueueSize => queue[Victim] \in Entry
    BY <1>3, VictimInQueue, ElementOfSeq, RecorderAssumption
  <2>3. discarded' \subseteq Entry /\ dropped' \in Nat
    BY <2>2 DEF OnFrame, TypeOK
  <2>4. handed' \subseteq Entry
    BY <1>1 DEF OnFrame, TypeOK
  <2>5. ClockTypeOK' /\ LastIsLatest'
    BY <2>1 DEF OnFrame, TypeOK, ClockTypeOK, LastIsLatest
  <2>6. ReadyHasEntry'
    BY <1>2 DEF ReadyHasEntry
  <2>7. UNCHANGED <<codec, running, writer, entry, dtor, consumed, file>>
    BY DEF OnFrame
  <2> QED
    BY <1>5, <2>1, <2>3, <2>4, <2>5, <2>6, <2>7 DEF TypeOK
<1>7. InOrder'
  <2> DEFINE n == Len(s)
  <2>1. /\ n \in Nat /\ Len(queue') = n + 1
        /\ \A k \in 1 .. n : queue'[k] = s[k]
        /\ queue'[n + 1] = e
    BY <1>1, <1>5, AppendProperties, LenProperties
  <2>2. /\ \A k \in 1 .. n : s[k] \in Entry
        /\ \A k \in 1 .. Len(queue) : queue[k].stamp \in Nat
        /\ \A k \in 1 .. Len(file) : file[k].stamp \in Nat
        /\ entry.stamp \in Nat
    <3>1. \A k \in 1 .. n : s[k] \in Entry
      BY ElementOfSeq
    <3>2. \A k \in 1 .. Len(queue) : queue[k] \in Entry
      BY <1>3, ElementOfSeq
    <3>3. entry \in Entry /\ \A k \in 1 .. Len(file) : file[k] \in Entry
      BY ElementOfSeq DEF TypeOK
    <3> QED
      BY <3>1, <3>2, <3>3 DEF Entry
  <2>3. /\ \A k \in 1 .. Len(queue) : queue[k].stamp < stamp[Channel]
        /\ \A k \in 1 .. Len(file) : file[k].stamp < stamp[Channel]
        /\ writer = "write" => entry.stamp < stamp[Channel]
    BY <1>2 DEF InOrder, Earlier
  <2>4. /\ \A k \in 1 .. n : s[k].stamp < stamp[Channel]
        /\ \A i \in 1 .. Len(file) : \A k \in 1 .. n : file[i].stamp < s[k].stamp
        /\ writer = "write" => \A k \in 1 .. n : entry.stamp < s[k].stamp
        /\ \A k, j \in 1 .. n : k < j => s[k].stamp < s[j].stamp
    BY <1>4, <2>3 DEF InOrder
  <2> HIDE DEF e, n
  <2>5. \A k \in 1 .. n + 1 : queue'[k] = IF k = n + 1 THEN e ELSE s[k]
    BY <2>1
  <2>6. \A k \in 1 .. n + 1 : k = n + 1 \/ k \in 1 .. n
    BY <2>1
  <2>7. ASSUME NEW k \in 1 .. n + 1
        PROVE  /\ queue'[k].stamp <= stamp[Channel]
               /\ \A j \in 1 .. n + 1 : k < j => queue'[k].stamp < queue'[j].stamp
    <3>1. CASE k = n + 1
      BY <1>1, <2>1, <3>1
    <3>2. CASE k \in 1 .. n
      <4>1. queue'[k] = s[k] /\ s[k].stamp \in Nat /\ s[k].stamp < stamp[Channel]
        BY <2>1, <2>2, <2>4, <3>2 DEF Entry
      <4>2. ASSUME NEW j \in 1 .. n + 1, k < j
            PROVE  s[k].stamp < queue'[j].stamp
        <5>1. CASE j = n + 1
          BY <1>1, <2>1, <4>1, <5>1
        <5>2. CASE j \in 1 .. n
          BY <2>1, <2>4, <3>2, <4>2, <5>2
        <5> QED
          BY <2>6, <5>1, <5>2
      <4> QED
        BY <1>1, <4>1, <4>2
    <3> QED
      BY <2>6, <3>1, <3>2
  <2>8. ASSUME NEW k \in 1 .. n + 1
        PROVE  /\ writer = "write" => entry.stamp < queue'[k].stamp
               /\ \A i \in 1 .. Len(file) : file[i].stamp < queue'[k].stamp
    <3>1. CASE k = n + 1
      BY <1>1, <2>1, <2>3, <3>1
    <3>2. CASE k \in 1 .. n
      BY <2>1, <2>4, <3>2
    <3> QED
      BY <2>6, <3>1, <3>2
  <2>9. ASSUME NEW x
        PROVE  (Earlier(x))' <=> x.stamp <= stamp[Channel]
    BY <1>2 DEF Earlier
  <2> QED
    <3>1. \A k \in 1 .. Len(queue') :
             /\ queue'[k].stamp <= stamp'[Channel]
             /\ \A j \in 1 .. Len(queue') : k < j => queue'[k].stamp < queue'[j].stamp
      BY <1>2, <2>1, <2>7
    <3>2. writer' = "write" =>
             /\ entry'.stamp <= stamp'[Channel]
             /\ \A k \in 1 .. Len(queue') : entry'.stamp < queue'[k].stamp
      BY <1>1, <1>2, <2>1, <2>2, <2>3, <2>8
    <3>3. \A i \in 1 .. Len(file') :
             /\ file'[i].stamp <= stamp'[Channel]
             /\ \A k \in 1 .. Len(queue') : file'[i].stamp < queue'[k].stamp
             /\ writer' = "write" => file'[i].stamp < entry'.stamp
      BY <1>1, <1>2, <2>1, <2>2, <2>3, <2>8 DEF InOrder
    <3>4. stage'[Channel] # "made"
      BY <1>2
    <3> QED
      BY <3>1, <3>2, <3>3, <3>4 DEF InOrder, Earlier
<1> QED
  BY <1>6, <1>7

\* The steps of the writer and of the destructor, and the end of on_frame().
LEMMA OthersKeepInv ==
  ASSUME IInv, OnFrameNotify \/ WriterStep \/ SpuriousWakeup \/ DestroyStop \/ DestroyStep
  PROVE  IInv'
<1> USE DEF IInv
<1>0. Channel \in Threads
  BY RecorderAssumption
<1>1. CASE OnFrameNotify
  <2>1. /\ queue' = queue /\ file' = file /\ entry' = entry /\ stamp' = stamp
        /\ writer' = "write" <=> writer = "write"
        /\ writer' = "ready" <=> writer = "ready"
        /\ running' = running
        /\ stage[Channel] # "made" /\ stage'[Channel] # "made"
    BY <1>0, <1>1 DEF OnFrameNotify, Notified, TypeOK
  <2>2. TypeOK'
    BY <1>0, <1>1 DEF OnFrameNotify, Notified, TypeOK, ClockTypeOK
  <2>3. LastIsLatest' /\ ReadyHasEntry'
    BY <1>1, <2>1 DEF OnFrameNotify, LastIsLatest, ReadyHasEntry
  <2>4. InOrder'
    BY <2>1 DEF InOrder, Earlier
  <2> QED
    BY <2>2, <2>3, <2>4
<1>2. CASE \/ WriterLoop \/ WriterTest \/ WriterPark \/ WriterBreak \/ SpuriousWakeup
           \/ DestroyStop \/ DestroyStep
  <2> USE DEF WriterLoop, WriterTest, WriterPark, WriterBreak, SpuriousWakeup, DestroyStop,
              DestroyStep, DestroyNotify, DestroyJoin, Writer, Destructor, Notified,
              MayLeaveWait, frameVars
  <2>1. /\ queue' = queue /\ file' = file /\ entry' = entry /\ stamp' = stamp
        /\ writer' = "write" <=> writer = "write"
        /\ stage' = stage
    BY <1>2
  <2>2. TypeOK'
    BY <1>2 DEF TypeOK, ClockTypeOK
  <2>3. LastIsLatest'
    BY <1>2 DEF LastIsLatest
  <2>4. ReadyHasEntry'
    BY <1>2 DEF ReadyHasEntry
  <2>5. InOrder'
    BY <2>1 DEF InOrder, Earlier
  <2> QED
    BY <2>2, <2>3, <2>4, <2>5
<1>3. CASE WriterTake
  <2>1. /\ queue \in Seq(Entry) /\ queue # <<>>
    BY <1>3 DEF WriterTake, Writer, ReadyHasEntry, TypeOK
  <2>2. /\ queue' = Tail(queue) /\ entry' = Head(queue) /\ writer' = "write"
        /\ stamp' = stamp /\ stage' = stage /\ file' = file
    BY <1>3 DEF WriterTake, Writer, frameVars
  <2>3. /\ queue' \in Seq(Entry) /\ entry' \in Entry
        /\ Len(queue) \in Nat \ {0} /\ Len(queue') = Len(queue) - 1
        /\ \A k \in 1 .. Len(queue) - 1 : queue'[k] = queue[k + 1]
        /\ entry' = queue[1]
    BY <2>1, <2>2, HeadTailProperties, EmptySeq, LenProperties
  <2>4. TypeOK' /\ LastIsLatest' /\ ReadyHasEntry'
    BY <1>3, <2>3 DEF WriterTake, Writer, frameVars, TypeOK, ClockTypeOK, LastIsLatest,
                      ReadyHasEntry
  <2>5. /\ 1 \in 1 .. Len(queue)
        /\ \A k \in 1 .. Len(queue') :
              k + 1 \in 1 .. Len(queue) /\ queue'[k] = queue[k + 1] /\ 1 < k + 1
    BY <2>3
  <2>6. ASSUME NEW k \in 1 .. Len(queue'), NEW j \in 1 .. Len(queue'), k < j
        PROVE  queue'[k].stamp < queue'[j].stamp
    <3>1. k + 1 < j + 1
      BY <2>3, <2>6
    <3> QED
      BY <2>5, <3>1 DEF InOrder
  <2>7. InOrder'
    BY <2>2, <2>3, <2>5, <2>6 DEF InOrder, Earlier
  <2> QED
    BY <2>4, <2>7
<1>4. CASE WriterWrite
  <2>1. /\ file \in Seq(Entry) /\ entry \in Entry /\ writer = "write"
        /\ file' = Append(file, entry) /\ queue' = queue /\ writer' = "loop"
        /\ stamp' = stamp /\ stage' = stage
    BY <1>4 DEF WriterWrite, Writer, frameVars, TypeOK
  <2>2. /\ file' \in Seq(Entry) /\ Len(file) \in Nat /\ Len(file') = Len(file) + 1
        /\ \A k \in 1 .. Len(file) : file'[k] = file[k]
        /\ file'[Len(file) + 1] = entry
    BY <2>1, AppendProperties, LenProperties
  <2>3. TypeOK' /\ LastIsLatest' /\ ReadyHasEntry'
    BY <1>4, <2>2 DEF WriterWrite, Writer, frameVars, TypeOK, ClockTypeOK, LastIsLatest,
                      ReadyHasEntry
  <2>4. \A k \in 1 .. Len(file') : k \in 1 .. Len(file) \/ k = Len(file) + 1
    BY <2>2
  <2>5. InOrder'
    BY <2>1, <2>2, <2>4 DEF InOrder, Earlier
  <2> QED
    BY <2>3, <2>5
<1> QED
  BY <1>1, <1>2, <1>3, <1>4 DEF WriterStep

\* The invariant holds at the start.
LEMMA InitInv == Init => IInv
<1> SUFFICES ASSUME Init PROVE IInv
  OBVIOUS
<1>1. ClockTypeOK /\ LastIsLatest
  BY ClockStart DEF Init
<1>2. TypeOK
  BY <1>1 DEF Init, TypeOK, ClockInit, Codecs, NoEntry, Entry
<1>3. ReadyHasEntry /\ InOrder
  BY DEF Init, ReadyHasEntry, InOrder
<1> QED
  BY <1>1, <1>2, <1>3 DEF IInv

\* Every step keeps the invariant.
LEMMA StepInv == IInv /\ [Next]_vars => IInv'
<1> SUFFICES ASSUME IInv, [Next]_vars PROVE IInv'
  OBVIOUS
<1>1. CASE UNCHANGED vars
  BY <1>1 DEF vars, frameVars, recVars, IInv, TypeOK, ClockTypeOK, LastIsLatest,
              ReadyHasEntry, InOrder, Earlier
<1>2. CASE ClockNext /\ UNCHANGED recVars
  BY <1>2, ClockKeepsInv
<1>3. CASE \E nalus \in SUBSET NaluTypes : OnFrame(nalus)
  BY <1>3, OnFrameKeepsInv
<1>4. CASE OnFrameNotify \/ WriterStep \/ SpuriousWakeup \/ DestroyStop \/ DestroyStep
  BY <1>4, OthersKeepInv
<1> QED
  BY <1>1, <1>2, <1>3, <1>4 DEF Next

\* The invariant holds throughout.
THEOREM RecorderInvariant == Spec => []IInv
  BY InitInv, StepInv, PTL DEF Spec

\* Every variable of the recorder keeps its type; in particular write_loop() never
\* takes the front of an empty deque, and try_drop_frame() drops from within it.
THEOREM RecorderTypes == Spec => []TypeOK
<1>1. IInv => TypeOK
  BY DEF IInv
<1> QED
  BY <1>1, RecorderInvariant, PTL

\* The recorder writes in the order of the timestamps, whatever it drops, and however
\* on_frame(), write_loop(), the clock and the destructor interleave.
THEOREM RecorderWritesInOrder == Spec => WrittenInOrder
<1>1. IInv /\ [Next]_vars =>
         [file' # file =>
            \A k \in 1 .. Len(file) : file[k].stamp < Last(file').stamp]_vars
  <2> SUFFICES ASSUME IInv, [Next]_vars, file' # file
               PROVE  \A k \in 1 .. Len(file) : file[k].stamp < Last(file').stamp
    OBVIOUS
  <2>1. WriterWrite
    BY DEF Next, vars, frameVars, recVars, ClockNext, OnFrame, OnFrameNotify, WriterStep,
           WriterLoop, WriterTest, WriterPark, WriterBreak, WriterTake, SpuriousWakeup,
           DestroyStop, DestroyStep, DestroyNotify, DestroyJoin, Writer, Destructor
  <2>2. /\ file \in Seq(Entry) /\ entry \in Entry /\ writer = "write"
        /\ file' = Append(file, entry)
    BY <2>1 DEF WriterWrite, Writer, IInv, TypeOK
  <2>3. Last(file') = entry
    BY <2>2, AppendProperties, LenProperties DEF Last
  <2> QED
    BY <2>2, <2>3 DEF IInv, InOrder
<1> QED
  BY <1>1, RecorderInvariant, PTL DEF Spec, WrittenInOrder

\* The recorder does not disturb the clock: its timestamps increase too.
THEOREM RecorderStampsIncrease == Spec => StampsIncrease
<1>1. IInv /\ [Next]_vars =>
         [\A t \in Threads : stamp'[t] # stamp[t] =>
             \A u \in Threads : stamp'[t] > stamp[u]]_frameVars
  <2> SUFFICES ASSUME IInv, [Next]_vars, NEW t \in Threads, stamp'[t] # stamp[t],
                      NEW u \in Threads
               PROVE  stamp'[t] > stamp[u]
    OBVIOUS
  <2>1. ClockNext
    BY DEF Next, vars, frameVars, OnFrame, OnFrameNotify, WriterStep, WriterWrite,
           WriterLoop, WriterTest, WriterPark, WriterBreak, WriterTake, SpuriousWakeup,
           DestroyStop, DestroyStep, DestroyNotify, DestroyJoin, Writer, Destructor
  <2> QED
    BY <2>1, ClockStep DEF IInv, TypeOK
<1> QED
  BY <1>1, RecorderInvariant, PTL DEF Spec, StampsIncrease

-----------------------------------------------------------------------------
(* Where the entries are *)

\* Entries come once: what on_frame() is given next is new, and what was dropped is
\* not in the queue any more.
EntriesDistinct ==
    /\ IsFiniteSet(handed) /\ IsFiniteSet(discarded)
    /\ \A e \in handed : Earlier(e)
    /\ \A e \in discarded : e \notin Range(queue)

Accounted == EntriesAccountedFor /\ EntriesDistinct

\* The range of a sequence, by its indices.
LEMMA RangeIs ==
  ASSUME NEW s \in Seq(Entry)
  PROVE  Range(s) = {s[k] : k \in 1 .. Len(s)}
  BY LenProperties DEF Range

\* Appending adds one element.
LEMMA RangeAppend ==
  ASSUME NEW s \in Seq(Entry), NEW e \in Entry
  PROVE  /\ Range(Append(s, e)) = Range(s) \cup {e}
         /\ Len(Append(s, e)) = Len(s) + 1
<1> DEFINE r == Append(s, e)
<1>1. /\ r \in Seq(Entry) /\ Len(r) = Len(s) + 1 /\ Len(s) \in Nat
      /\ \A k \in 1 .. Len(s) : r[k] = s[k]
      /\ r[Len(s) + 1] = e
  BY AppendProperties, LenProperties
<1> HIDE DEF r
<1>2. \A k \in 1 .. Len(r) : k \in 1 .. Len(s) \/ k = Len(s) + 1
  BY <1>1
<1>3. \A k \in 1 .. Len(s) : k \in 1 .. Len(r)
  BY <1>1
<1>4. Len(s) + 1 \in 1 .. Len(r)
  BY <1>1
<1>5. Range(r) = {r[k] : k \in 1 .. Len(r)} /\ Range(s) = {s[k] : k \in 1 .. Len(s)}
  BY <1>1, RangeIs
<1> QED
  BY <1>1, <1>2, <1>3, <1>4, <1>5 DEF r

\* Dropping takes one element away, and for good when no other is equal to it.
LEMMA RangeRemoveAt ==
  ASSUME NEW s \in Seq(Entry), NEW v \in 1 .. Len(s),
         \A j, k \in 1 .. Len(s) : s[j] = s[k] => j = k
  PROVE  /\ Range(RemoveAt(s, v)) = Range(s) \ {s[v]}
         /\ s[v] \in Range(s)
<1> DEFINE r == RemoveAt(s, v)
<1>1. /\ r \in Seq(Entry) /\ Len(r) = Len(s) - 1 /\ Len(s) \in Nat
      /\ \A k \in 1 .. Len(s) - 1 : r[k] = IF k < v THEN s[k] ELSE s[k + 1]
  BY RemoveAtIs, LenProperties
<1> HIDE DEF r
<1>2. Range(r) = {r[k] : k \in 1 .. Len(r)} /\ Range(s) = {s[k] : k \in 1 .. Len(s)}
  BY <1>1, RangeIs
<1>3. ASSUME NEW k \in 1 .. Len(r)
      PROVE  \E j \in 1 .. Len(s) : j # v /\ r[k] = s[j]
  <2>1. CASE k < v
    BY <1>1, <2>1
  <2>2. CASE ~ (k < v)
    <3>1. k + 1 \in 1 .. Len(s) /\ k + 1 # v /\ r[k] = s[k + 1]
      BY <1>1, <2>2
    <3> QED
      BY <3>1
  <2> QED
    BY <2>1, <2>2
<1>4. ASSUME NEW j \in 1 .. Len(s), j # v
      PROVE  \E k \in 1 .. Len(r) : r[k] = s[j]
  <2>1. CASE j < v
    <3>1. j \in 1 .. Len(r) /\ r[j] = s[j]
      BY <1>1, <2>1
    <3> QED
      BY <3>1
  <2>2. CASE ~ (j < v)
    <3>1. j - 1 \in 1 .. Len(s) - 1 /\ ~ (j - 1 < v) /\ (j - 1) + 1 = j
      BY <1>1, <1>4, <2>2
    <3>2. r[j - 1] = s[(j - 1) + 1]
      BY <1>1, <3>1
    <3> QED
      BY <1>1, <3>1, <3>2
  <2> QED
    BY <2>1, <2>2
<1>5. Range(r) \subseteq Range(s) \ {s[v]}
  BY <1>2, <1>3
<1>6. Range(s) \ {s[v]} \subseteq Range(r)
  BY <1>2, <1>4
<1> QED
  BY <1>2, <1>5, <1>6 DEF r

\* The writer has at most one entry in hand.
LEMMA InHandSize == IsFiniteSet(InHand) /\ Cardinality(InHand) = IF writer = "write" THEN 1 ELSE 0
<1>1. /\ IsFiniteSet({}) /\ Cardinality({}) = 0
      /\ IsFiniteSet({entry}) /\ Cardinality({entry}) = 1
  BY FS_EmptySet, FS_Singleton
<1> QED
  BY <1>1 DEF InHand

\* on_frame() is given a new entry, and drops one that is only in the queue.
LEMMA OnFrameKeepsAccount ==
  ASSUME IInv, Accounted, NEW nalus \in SUBSET NaluTypes, OnFrame(nalus)
  PROVE  Accounted'
<1> DEFINE e == [stamp |-> stamp[Channel], idr |-> IsIdr(codec, nalus)]
           v == queue[Victim]
           full == Len(queue) >= QueueSize
<1>1. /\ Channel \in Threads /\ stamp[Channel] \in Nat /\ e \in Entry
      /\ e.stamp = stamp[Channel] /\ queue \in Seq(Entry) /\ Len(queue) \in Nat
      /\ file \in Seq(Entry) /\ Len(file) \in Nat
      /\ handed \subseteq Entry /\ dropped \in Nat
  BY RecorderAssumption, LenProperties DEF IInv, TypeOK, ClockTypeOK, Entry, IsIdr
<1>2. /\ stage[Channel] = "made" /\ stage'[Channel] = "notify" /\ stamp' = stamp
      /\ queue' = Append(IF full THEN RemoveAt(queue, Victim) ELSE queue, e)
      /\ dropped' = IF full THEN dropped + 1 ELSE dropped
      /\ discarded' = IF full THEN discarded \cup {v} ELSE discarded
      /\ handed' = handed \cup {e}
      /\ file' = file /\ writer' = writer /\ entry' = entry /\ consumed' = consumed
  BY <1>1 DEF OnFrame, Enqueued, IInv, TypeOK
<1> HIDE DEF e
<1>3. \A x \in handed : x.stamp \in Nat /\ x.stamp < stamp[Channel]
  <2>1. \A x \in handed : x.stamp \in Nat
    BY <1>1 DEF Entry
  <2> QED
    BY <1>2, <2>1 DEF Accounted, EntriesDistinct, Earlier
<1>4. e \notin handed
  BY <1>1, <1>3
<1>5. /\ IsFiniteSet(handed) /\ IsFiniteSet(discarded)
      /\ handed = Range(queue) \cup InHand \cup Range(file) \cup discarded
      /\ Cardinality(handed) = Len(queue) + Cardinality(InHand) + Len(file)
                               + Cardinality(discarded)
      /\ consumed = Len(file) /\ dropped = Cardinality(discarded)
      /\ \A x \in discarded : x \notin Range(queue)
  BY DEF Accounted, EntriesAccountedFor, EntriesDistinct
<1>6. InHand' = InHand /\ Cardinality(InHand) \in Nat
  BY <1>2, InHandSize DEF InHand
<1>7. IsFiniteSet(handed') /\ Cardinality(handed') = Cardinality(handed) + 1
  BY <1>2, <1>4, <1>5, FS_AddElement
<1>8. \A x \in handed' : Earlier(x)'
  <2>1. \A x \in handed' : x.stamp \in Nat /\ x.stamp <= stamp[Channel]
    BY <1>1, <1>2, <1>3
  <2> QED
    BY <1>2, <2>1 DEF Earlier
<1>9. Cardinality(discarded) \in Nat
  BY <1>5, FS_CardinalityType
<1>10. CASE full
  <2>1. queue # <<>>
    BY <1>10, RecorderAssumption
  <2>2. Victim \in 1 .. Len(queue)
    BY <1>1, <2>1, VictimInQueue
  <2>3. \A j, k \in 1 .. Len(queue) : queue[j] = queue[k] => j = k
    <3>1. \A k \in 1 .. Len(queue) : queue[k].stamp \in Nat
      <4>1. \A k \in 1 .. Len(queue) : queue[k] \in Entry
        BY <1>1, ElementOfSeq
      <4> QED
        BY <4>1 DEF Entry
    <3>2. \A j, k \in 1 .. Len(queue) : j < k => queue[j].stamp < queue[k].stamp
      BY DEF IInv, InOrder
    <3> SUFFICES ASSUME NEW j \in 1 .. Len(queue), NEW k \in 1 .. Len(queue),
                        queue[j] = queue[k], j # k
                 PROVE  FALSE
      OBVIOUS
    <3>3. j < k \/ k < j
      BY <1>1
    <3> QED
      BY <3>1, <3>2, <3>3
  <2> DEFINE r == RemoveAt(queue, Victim)
  <2>4. Range(r) = Range(queue) \ {v} /\ v \in Range(queue)
    BY <1>1, <2>2, <2>3, RangeRemoveAt
  <2>5. r \in Seq(Entry) /\ Len(r) = Len(queue) - 1
    BY <1>1, <2>2, RemoveAtIs
  <2>6. queue' = Append(r, e) /\ discarded' = discarded \cup {v} /\ dropped' = dropped + 1
    BY <1>2, <1>10
  <2> HIDE DEF r, v
  <2>7. Range(queue') = Range(r) \cup {e} /\ Len(queue') = Len(r) + 1
    BY <1>1, <2>5, <2>6, RangeAppend
  <2>8. v \notin discarded /\ v \in handed /\ v # e
    BY <1>4, <1>5, <2>4
  <2>9. /\ IsFiniteSet(discarded')
        /\ Cardinality(discarded') = Cardinality(discarded) + 1
    BY <1>5, <2>6, <2>8, FS_AddElement
  <2>10. handed' = Range(queue') \cup InHand' \cup Range(file') \cup discarded'
    BY <1>2, <1>5, <1>6, <2>4, <2>6, <2>7
  <2>11. Cardinality(handed') = Len(queue') + Cardinality(InHand') + Len(file')
                                + Cardinality(discarded')
    <3>1. Len(queue') = Len(queue) /\ Len(file') = Len(file) /\ InHand' = InHand
      BY <1>1, <1>2, <1>6, <2>5, <2>7
    <3> QED
      BY <1>1, <1>5, <1>6, <1>7, <1>9, <2>9, <3>1
  <2>12. \A x \in discarded' : x \notin Range(queue')
    BY <1>4, <1>5, <2>4, <2>6, <2>7, <2>8
  <2>13. dropped' = Cardinality(discarded') /\ consumed' = Len(file')
    BY <1>2, <1>5, <2>6, <2>9
  <2> QED
    BY <1>7, <1>8, <2>9, <2>10, <2>11, <2>12, <2>13
       DEF Accounted, EntriesAccountedFor, EntriesDistinct
<1>11. CASE ~full
  <2>1. queue' = Append(queue, e) /\ discarded' = discarded /\ dropped' = dropped
    BY <1>2, <1>11
  <2>2. Range(queue') = Range(queue) \cup {e} /\ Len(queue') = Len(queue) + 1
    BY <1>1, <2>1, RangeAppend
  <2>3. handed' = Range(queue') \cup InHand' \cup Range(file') \cup discarded'
    BY <1>2, <1>5, <1>6, <2>1, <2>2
  <2>4. Cardinality(handed') = Len(queue') + Cardinality(InHand') + Len(file')
                               + Cardinality(discarded')
    <3>1. Len(file') = Len(file) /\ InHand' = InHand
      BY <1>2, <1>6
    <3> QED
      BY <1>1, <1>5, <1>6, <1>7, <1>9, <2>1, <2>2, <3>1
  <2>5. \A x \in discarded' : x \notin Range(queue')
    BY <1>4, <1>5, <2>1, <2>2
  <2> QED
    BY <1>2, <1>5, <1>7, <1>8, <2>1, <2>3, <2>4, <2>5
       DEF Accounted, EntriesAccountedFor, EntriesDistinct
<1> QED
  BY <1>10, <1>11

\* The writer passes entries on.
LEMMA WriterKeepsAccount ==
  ASSUME IInv, Accounted, WriterTake \/ WriterWrite
  PROVE  Accounted'
<1>0. /\ queue \in Seq(Entry) /\ file \in Seq(Entry) /\ entry \in Entry
      /\ Len(queue) \in Nat /\ Len(file) \in Nat
  BY LenProperties DEF IInv, TypeOK
<1>1. /\ UNCHANGED <<handed, discarded, dropped, stamp, stage>>
  BY DEF WriterTake, WriterWrite, Writer, frameVars
<1>2. /\ IsFiniteSet(handed) /\ IsFiniteSet(discarded)
      /\ handed = Range(queue) \cup InHand \cup Range(file) \cup discarded
      /\ Cardinality(handed) = Len(queue) + Cardinality(InHand) + Len(file)
                               + Cardinality(discarded)
      /\ consumed = Len(file) /\ dropped = Cardinality(discarded)
      /\ \A x \in discarded : x \notin Range(queue)
  BY DEF Accounted, EntriesAccountedFor, EntriesDistinct
<1>3. Cardinality(discarded) \in Nat
  BY <1>2, FS_CardinalityType
<1>4. \A x \in handed' : Earlier(x)'
  BY <1>1 DEF Accounted, EntriesDistinct, Earlier
<1>5. CASE WriterTake
  <2>1. /\ writer = "ready" /\ writer' = "write" /\ queue # <<>> /\ entry' = Head(queue)
        /\ queue' = Tail(queue) /\ file' = file /\ consumed' = consumed
    BY <1>5 DEF WriterTake, Writer, IInv, ReadyHasEntry
  <2>2. InHand = {} /\ InHand' = {entry'}
    BY <2>1 DEF InHand
  <2>3. Cardinality(InHand) = 0 /\ Cardinality(InHand') = 1
    BY <2>2, FS_EmptySet, FS_Singleton
  <2> DEFINE t == Tail(queue)
  <2>4. /\ t \in Seq(Entry) /\ Len(t) = Len(queue) - 1 /\ Len(queue) > 0
        /\ \A k \in 1 .. Len(queue) - 1 : t[k] = queue[k + 1]
        /\ Head(queue) = queue[1]
    BY <1>0, <2>1, HeadTailProperties, EmptySeq
  <2>5. queue' = t /\ entry' = queue[1]
    BY <2>1, <2>4
  <2> HIDE DEF t
  <2>6. Range(t) = {t[k] : k \in 1 .. Len(t)} /\ Range(queue) = {queue[k] : k \in 1 .. Len(queue)}
    BY <1>0, <2>4, RangeIs
  <2>7. Range(queue) = {queue[1]} \cup Range(t)
    <3>1. \A k \in 1 .. Len(t) : k + 1 \in 1 .. Len(queue) /\ t[k] = queue[k + 1]
      BY <1>0, <2>4
    <3>2. ASSUME NEW k \in 1 .. Len(queue), k # 1
          PROVE  \E j \in 1 .. Len(t) : t[j] = queue[k]
      <4>1. k - 1 \in 1 .. Len(queue) - 1 /\ (k - 1) + 1 = k
        BY <1>0, <3>2
      <4>2. t[k - 1] = queue[(k - 1) + 1]
        BY <2>4, <4>1
      <4> QED
        BY <2>4, <4>1, <4>2
    <3>3. 1 \in 1 .. Len(queue)
      BY <1>0, <2>4
    <3>4. ASSUME NEW x \in Range(queue)
          PROVE  x = queue[1] \/ x \in Range(t)
      <4>1. PICK k \in 1 .. Len(queue) : x = queue[k]
        BY <2>6
      <4>2. CASE k = 1
        BY <4>1, <4>2
      <4>3. CASE k # 1
        <5>1. PICK j \in 1 .. Len(t) : t[j] = queue[k]
          BY <3>2, <4>3
        <5> QED
          BY <2>6, <4>1, <5>1
      <4> QED
        BY <4>2, <4>3
    <3>5. ASSUME NEW x \in Range(t)
          PROVE  x \in Range(queue)
      <4>1. PICK j \in 1 .. Len(t) : x = t[j]
        BY <2>6
      <4>2. j + 1 \in 1 .. Len(queue) /\ t[j] = queue[j + 1]
        BY <3>1
      <4> QED
        BY <2>6, <4>1, <4>2
    <3>6. queue[1] \in Range(queue)
      BY <2>6, <3>3
    <3> QED
      BY <3>4, <3>5, <3>6
  <2>8. handed' = Range(queue') \cup InHand' \cup Range(file') \cup discarded'
    BY <1>1, <1>2, <2>1, <2>2, <2>5, <2>7
  <2>9. Cardinality(handed') = Len(queue') + Cardinality(InHand') + Len(file')
                               + Cardinality(discarded')
    <3>1. /\ handed' = handed /\ discarded' = discarded /\ Len(file') = Len(file)
          /\ Len(queue') = Len(queue) - 1
      BY <1>1, <2>1, <2>4, <2>5
    <3> QED
      BY <1>0, <1>2, <1>3, <2>3, <3>1
  <2>10. \A x \in discarded' : x \notin Range(queue')
    BY <1>1, <1>2, <2>5, <2>7
  <2> QED
    BY <1>1, <1>2, <1>4, <2>1, <2>8, <2>9, <2>10
       DEF Accounted, EntriesAccountedFor, EntriesDistinct
<1>6. CASE WriterWrite
  <2>1. /\ writer = "write" /\ writer' = "loop" /\ queue' = queue /\ entry' = entry
        /\ file' = Append(file, entry) /\ consumed' = consumed + 1
    BY <1>6 DEF WriterWrite, Writer
  <2>2. InHand = {entry} /\ InHand' = {}
    BY <2>1 DEF InHand
  <2>3. Cardinality(InHand) = 1 /\ Cardinality(InHand') = 0
    BY <2>2, FS_EmptySet, FS_Singleton
  <2>4. Range(file') = Range(file) \cup {entry} /\ Len(file') = Len(file) + 1
    BY <1>0, <2>1, RangeAppend
  <2>5. handed' = Range(queue') \cup InHand' \cup Range(file') \cup discarded'
    BY <1>1, <1>2, <2>1, <2>2, <2>4
  <2>6. Cardinality(handed') = Len(queue') + Cardinality(InHand') + Len(file')
                               + Cardinality(discarded')
    <3>1. handed' = handed /\ discarded' = discarded /\ Len(queue') = Len(queue)
      BY <1>1, <2>1
    <3> QED
      BY <1>0, <1>2, <1>3, <2>3, <2>4, <3>1
  <2> QED
    BY <1>1, <1>2, <1>4, <2>1, <2>4, <2>5, <2>6
       DEF Accounted, EntriesAccountedFor, EntriesDistinct
<1> QED
  BY <1>5, <1>6

\* Every step keeps account of the entries.
LEMMA StepAccount == IInv /\ Accounted /\ [Next]_vars => Accounted'
<1> SUFFICES ASSUME IInv, Accounted, [Next]_vars PROVE Accounted'
  OBVIOUS
<1>1. ASSUME UNCHANGED <<queue, handed, discarded, consumed, dropped, file, InHand>>,
             \A e \in handed : Earlier(e)'
      PROVE  Accounted'
  BY <1>1 DEF Accounted, EntriesAccountedFor, EntriesDistinct
<1>2. CASE ClockNext /\ UNCHANGED recVars
  <2>1. handed \subseteq Entry /\ \A e \in handed : Earlier(e)
    BY DEF IInv, TypeOK, Accounted, EntriesDistinct
  <2>2. \A e \in handed : Earlier(e)'
    BY <1>2, <2>1, EarlierStays
  <2> QED
    BY <1>1, <1>2, <2>2 DEF recVars, InHand
<1>3. CASE \/ OnFrameNotify \/ WriterLoop \/ WriterTest \/ WriterPark \/ WriterBreak
           \/ SpuriousWakeup \/ DestroyStop \/ DestroyStep \/ UNCHANGED vars
  <2>0. Channel \in Threads
    BY RecorderAssumption
  <2>1. /\ UNCHANGED <<queue, handed, discarded, consumed, dropped, file, entry, stamp>>
        /\ writer' = "write" <=> writer = "write"
        /\ stage'[Channel] = "made" => stage[Channel] = "made"
    BY <1>3, <2>0
       DEF OnFrameNotify, WriterLoop, WriterTest, WriterPark, WriterBreak, SpuriousWakeup,
           DestroyStop, DestroyStep, DestroyNotify, DestroyJoin, Writer, Destructor,
           Notified, vars, frameVars, recVars, IInv, TypeOK
  <2>2. \A e \in handed : Earlier(e)'
    BY <2>1 DEF Accounted, EntriesDistinct, Earlier
  <2> QED
    BY <1>1, <2>1, <2>2 DEF InHand
<1> QED
  BY <1>2, <1>3, OnFrameKeepsAccount, WriterKeepsAccount DEF Next, WriterStep

\* Every entry that on_frame() was given is queued, being written, written or dropped,
\* in exactly one of these places, and consumed_ and dropped_ count the last two.
THEOREM EntriesAreAccountedFor == Spec => []EntriesAccountedFor
<1>1. Init => Accounted
  <2> SUFFICES ASSUME Init PROVE Accounted
    OBVIOUS
  <2>1. /\ queue = <<>> /\ file = <<>> /\ handed = {} /\ discarded = {} /\ consumed = 0
        /\ dropped = 0 /\ InHand = {}
    BY DEF Init, InHand
  <2>2. Range(<<>>) = {} /\ Len(<<>>) = 0
    BY DEF Range
  <2>3. IsFiniteSet({}) /\ Cardinality({}) = 0
    BY FS_EmptySet
  <2> QED
    BY <2>1, <2>2, <2>3 DEF Accounted, EntriesAccountedFor, EntriesDistinct
<1>2. Accounted => EntriesAccountedFor
  BY DEF Accounted
<1> QED
  BY <1>1, <1>2, RecorderInvariant, StepAccount, PTL DEF Spec
=============================================================================
