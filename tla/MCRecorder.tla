------------------------------ MODULE MCRecorder ------------------------------
(***************************************************************************)
(* A small instance of Recorder for TLC.                                   *)
(***************************************************************************)
EXTENDS Recorder

CONSTANTS t1, t2    \* the recorded channel and another
=============================================================================
