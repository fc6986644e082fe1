------------------------------ MODULE StreamFrame ------------------------------
(***************************************************************************)
(* StreamFrame (modules/stream/src/stream_frame.cpp): how a frame gets its *)
(* timestamp, and whether it is a key frame.                               *)
(*                                                                         *)
(* next_monotonic_timestamp_ms() is called by one fetcher thread per       *)
(* channel.  A thread reads the system clock first and takes the mutex     *)
(* afterwards, so threads can be stamped in another order than they read.  *)
(* The system clock may be set, backwards too.  What a thread does with    *)
(* the mutex is one step.                                                  *)
(*                                                                         *)
(* A definition with an underscore in its name is a faulty variant of the  *)
(* one that follows it, kept to show that the properties can fail.         *)
(***************************************************************************)
EXTENDS Integers

CONSTANTS Threads,     \* the fetcher threads
          MaxClock,    \* bound: the latest reading of system_clock
          MaxFrames    \* bound: frames made in all

ASSUME ClockAssumption == MaxClock \in Nat /\ MaxFrames \in Nat

VARIABLES
    clock,     \* system_clock, in milliseconds
    last,      \* last_timestamp
    stage,     \* by thread: "idle", "read" (the clock), "made" (the frame), or what
               \* its consumer does with the frame
    now,       \* by thread: now, as read from the clock
    stamp,     \* by thread: the timestamp_ of its newest frame
    made       \* how many frames were made

frameVars == <<clock, last, stage, now, stamp, made>>

ClockInit ==
    /\ clock = 0
    /\ last = 0
    /\ stage = [t \in Threads |-> "idle"]
    /\ now = [t \in Threads |-> 0]
    /\ stamp = [t \in Threads |-> 0]
    /\ made = 0

\* Time passes, or somebody sets the clock.
SetClock ==
    /\ clock' \in 0 .. MaxClock
    /\ clock' # clock
    /\ UNCHANGED <<last, stage, now, stamp, made>>

\* system_clock::now(), before the mutex is taken.
ReadClock(t) ==
    /\ stage[t] = "idle"
    /\ made < MaxFrames
    /\ made' = made + 1
    /\ now' = [now EXCEPT ![t] = clock]
    /\ stage' = [stage EXCEPT ![t] = "read"]
    /\ UNCHANGED <<clock, last, stamp>>

NextStamp_KeepEqual(t) == IF now[t] < last THEN last + 1 ELSE now[t]
\* The reading, or one more than the last timestamp where that is not later.
NextStamp(t) == IF now[t] <= last THEN last + 1 ELSE now[t]

\* timestamp_mutex is taken and released; the frame is made.
Stamp(t) ==
    /\ stage[t] = "read"
    /\ last' = NextStamp(t)
    /\ stamp' = [stamp EXCEPT ![t] = NextStamp(t)]
    /\ stage' = [stage EXCEPT ![t] = "made"]
    /\ UNCHANGED <<clock, now, made>>

\* The frame is gone: to consumers that this module knows nothing of, or dropped
\* from a queue of the distributor.
HandOver(t) ==
    /\ stage[t] = "made"
    /\ stage' = [stage EXCEPT ![t] = "idle"]
    /\ UNCHANGED <<clock, last, now, stamp, made>>

ClockNext == SetClock \/ \E t \in Threads : ReadClock(t) \/ Stamp(t) \/ HandOver(t)

ClockSpec == ClockInit /\ [][ClockNext]_frameVars

\* is_idr(): a picture of MJPEG stands alone; otherwise one of the packs is a slice
\* of an IDR picture.
IsIdr(codec, nalus) == codec = "MJPEG" \/ "IDR_SLICE" \in nalus

-----------------------------------------------------------------------------

\* No timestamp comes twice, and each is later than all before it, of its own and
\* of the other channels: also when two threads read the same millisecond, when
\* they take the mutex in the other order, and after the clock was set back.  So none is
\* zero, which process_frame_nals() takes for "no timestamp".
StampsIncrease ==
    [][\A t \in Threads : stamp'[t] # stamp[t] =>
          \A u \in Threads : stamp'[t] > stamp[u]]_frameVars

\* The clock and its readers have their types.
ClockTypeOK ==
    /\ clock \in 0 .. MaxClock
    /\ last \in Nat
    /\ now \in [Threads -> 0 .. MaxClock]
    /\ stamp \in [Threads -> Nat]
    /\ made \in 0 .. MaxFrames
    /\ DOMAIN stage = Threads
=============================================================================
