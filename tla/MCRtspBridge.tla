------------------------------ MODULE MCRtspBridge ------------------------------
(***************************************************************************)
(* Small instances of RtspBridge for TLC.                                  *)
(***************************************************************************)
EXTENDS RtspBridge

CONSTANTS main, sub,    \* the two streams of the application
          c1, c2        \* client sessions

\* Clients are interchangeable.
MCSymmetry == Permutations({c1, c2})
=============================================================================
