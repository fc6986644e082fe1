------------------------------- MODULE FrameFeed -------------------------------
(***************************************************************************)
(* What a StreamDistributor promises to its consumers, without threads,    *)
(* mutexes or condition variables: frames come one by one, each consumer   *)
(* is called with some of them, one call at a time and in order, a frame   *)
(* is passed over only to make room for a newer one, and a consumer whose  *)
(* removal is over is never called again.                                  *)
(*                                                                         *)
(* StreamDistributor implements this specification.                        *)
(***************************************************************************)
EXTENDS Integers, Sequences

CONSTANTS Consumer,    \* who may ever be fed
          Room         \* how many frames may wait for each of them

VARIABLES newest,      \* number of the newest frame
          phase,       \* of each consumer
          pending,     \* the frames that wait for it, oldest first
          latest,      \* the frame it was last called with
          busy         \* whether that call still runs

feedVars == <<newest, phase, pending, latest, busy>>

Phase == {"absent", "open", "closing", "closed"}

FeedInit ==
    /\ newest = 0
    /\ phase = [c \in Consumer |-> "absent"]
    /\ pending = [c \in Consumer |-> <<>>]
    /\ latest = [c \in Consumer |-> 0]
    /\ busy = [c \in Consumer |-> FALSE]

Produce ==
    /\ newest' = newest + 1
    /\ UNCHANGED <<phase, pending, latest, busy>>

Open(c) ==
    /\ phase[c] = "absent"
    /\ phase' = [phase EXCEPT ![c] = "open"]
    /\ UNCHANGED <<newest, pending, latest, busy>>

\* The newest frame is added, at most once: an older one is dropped only when
\* there is no room.  A frame may still come while or after the consumer is
\* being removed; it is then never delivered.
Offer(c) ==
    /\ phase[c] # "absent"
    /\ \A n \in DOMAIN pending[c] : pending[c][n] < newest
    /\ pending' = [pending EXCEPT
                      ![c] = Append(IF Len(@) = Room[c] THEN Tail(@) ELSE @, newest)]
    /\ UNCHANGED <<newest, phase, latest, busy>>

Deliver(c) ==
    /\ phase[c] \in {"open", "closing"}
    /\ ~busy[c]
    /\ pending[c] # <<>>
    /\ Head(pending[c]) > latest[c]
    /\ latest' = [latest EXCEPT ![c] = Head(pending[c])]
    /\ pending' = [pending EXCEPT ![c] = Tail(@)]
    /\ busy' = [busy EXCEPT ![c] = TRUE]
    /\ UNCHANGED <<newest, phase>>

Finish(c) ==
    /\ busy[c]
    /\ busy' = [busy EXCEPT ![c] = FALSE]
    /\ UNCHANGED <<newest, phase, pending, latest>>

\* One consumer is being removed, or all of them at once.
Close(S) ==
    /\ \A c \in S : phase[c] = "open"
    /\ phase' = [c \in Consumer |-> IF c \in S THEN "closing" ELSE phase[c]]
    /\ UNCHANGED <<newest, pending, latest, busy>>

\* The removal is over: no call runs, and what waited is given up.
Closed(c) ==
    /\ phase[c] = "closing" /\ ~busy[c]
    /\ phase' = [phase EXCEPT ![c] = "closed"]
    /\ pending' \in {pending, [pending EXCEPT ![c] = <<>>]}
    /\ UNCHANGED <<newest, latest, busy>>

FeedNext ==
    \/ Produce
    \/ \E c \in Consumer :
          Open(c) \/ Offer(c) \/ Deliver(c) \/ Finish(c) \/ Closed(c)
    \/ \E S \in SUBSET Consumer : Close(S)

FeedSpec == FeedInit /\ [][FeedNext]_feedVars
=============================================================================
