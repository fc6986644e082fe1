------------------------------ MODULE MCNalParser ------------------------------
(***************************************************************************)
(* A small instance of NalParser for TLC.                                  *)
(***************************************************************************)
EXTENDS NalParser

\* Packs are made of the two bytes of start codes and of bytes that begin a parameter
\* set: 104 = 96 + 8 is a PPS of H.264, and 68 = 2 * 34 one of H.265.  Frames of one
\* pack are long enough for two long start codes; frames of two show what is kept
\* between packs.
MCFrames ==
    {<<p>> : p \in BoundedSeq({0, 1, 104}, 8) \cup BoundedSeq({0, 1, 68, 104}, 6)}
    \cup {<<p, q>> : p, q \in BoundedSeq({0, 1, 104}, 4)}
=============================================================================
