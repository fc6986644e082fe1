-------------------------- MODULE MCStreamDistributor --------------------------
(***************************************************************************)
(* Small instances of StreamDistributor for TLC.                           *)
(***************************************************************************)
EXTENDS StreamDistributor

CONSTANT c1    \* the control thread

\* Consumer 0 is configured with 0, which add_consumer() turns into 1; the
\* others hold two frames.
MCConfigSize == [i \in Id |-> IF i = 0 THEN 0 ELSE 2]
=============================================================================
