----------------------------- MODULE MCStreamFetcher -----------------------------
(***************************************************************************)
(* Small instances of StreamFetcher for TLC.                               *)
(***************************************************************************)
EXTENDS StreamFetcher, TLC

CONSTANTS f1, f2    \* the fetchers of two streams

\* One channel can lose a stream to a refused release and go on, the other cannot.
MCBufferSize == f1 :> 2 @@ f2 :> 1
=============================================================================
