---------------------------- MODULE MCRtspServerLife ----------------------------
(***************************************************************************)
(* Small instances of RtspServerLife for TLC.                              *)
(***************************************************************************)
EXTENDS RtspServerLife

CONSTANTS main_, sub,    \* the two streams of the application
          w1, w2         \* the workers of their distributors
=============================================================================
