------------------------------- MODULE NalParser -------------------------------
(***************************************************************************)
(* From the packs of a frame to NAL units: split_annex_b_nals() and the    *)
(* classification of modules/rtsp/src/rtsp_nal_parser.cpp, and the part of *)
(* RtspServer::process_frame_nals() that calls them, collects the access   *)
(* unit and fills the ParameterSetCache.                                   *)
(*                                                                         *)
(* The scan of a pack is a state machine, one step per turn of its loop.   *)
(* Positions are those of the code, from 0; At(d, p) is data[p].  The rest *)
(* of a pack's treatment is one step: only the cache is shared, and who    *)
(* reads it (getAuxSDPLine(), in RtspBridge) asks whether it is complete.  *)
(*                                                                         *)
(* Bytes are numbers, because their low bits decide what a NAL unit is.    *)
(*                                                                         *)
(* A definition with an underscore in its name is a faulty variant of the  *)
(* one that follows it, kept to show that the properties can fail.         *)
(***************************************************************************)
EXTENDS Integers, SequencesExt

CONSTANT Frames    \* the frames the encoder may make: sequences of packs

ASSUME FramesAssumption == Frames \subseteq Seq(Seq(0 .. 255))

VARIABLES
    codec,    \* stream_codecs_ of the stream
    frame,    \* the packs of the frame
    next,     \* the number of the pack to be treated next
    phase,    \* "packs" between two packs, "scan" within one, "done"
    data,     \* the pack
    i,        \* where its scan is
    cuts,     \* nal_offsets and nal_sc_lens: where a start code ends, its length
    unit,     \* access_unit_nals
    cache     \* ParameterSetCache

scanVars == <<data, i, cuts>>
vars == <<codec, frame, next, phase, scanVars, unit, cache>>

-----------------------------------------------------------------------------
(* Start codes *)

At(d, p) == d[p + 1]

\* 00 00 01 at position p.
Mark(d, p) ==
    /\ p + 3 <= Len(d)
    /\ At(d, p) = 0 /\ At(d, p + 1) = 0 /\ At(d, p + 2) = 1

\* 00 00 00 01 at position p.
LongMark(d, p) ==
    /\ p + 4 <= Len(d)
    /\ At(d, p) = 0 /\ At(d, p + 1) = 0 /\ At(d, p + 2) = 0 /\ At(d, p + 3) = 1

StartCodeLen_LongOnly(d, p) == IF LongMark(d, p) THEN 4 ELSE 0
\* start_code_len()
StartCodeLen(d, p) == IF Mark(d, p) THEN 3 ELSE IF LongMark(d, p) THEN 4 ELSE 0

-----------------------------------------------------------------------------
(* What a NAL unit is *)

\* parse_h264_nal_type()
H264Type(nal) ==
    LET t == Head(nal) % 32
    IN  CASE t = 1 -> "NON_IDR" [] t = 5 -> "IDR" [] t = 7 -> "SPS" [] t = 8 -> "PPS"
          [] OTHER -> "OTHER"

\* parse_h265_nal_type(); its header has two bytes.
H265Type(nal) ==
    LET t == (Head(nal) \div 2) % 64
    IN  CASE Len(nal) < 2 -> "OTHER"
          [] Len(nal) >= 2 /\ t \in {19, 20} -> "IDR"
          [] Len(nal) >= 2 /\ t = 32 -> "VPS"
          [] Len(nal) >= 2 /\ t = 33 -> "SPS"
          [] Len(nal) >= 2 /\ t = 34 -> "PPS"
          [] OTHER -> "OTHER"

\* classify_nal()
Kind(c, nal) == IF c = "H264" THEN H264Type(nal) ELSE H265Type(nal)

ParameterSets == {"VPS", "SPS", "PPS"}

\* The places in s of the NAL units of kind k.
Places(c, s, k) == {m \in DOMAIN s : Kind(c, s[m]) = k}

\* The last NAL unit of kind k in s, or else what was cached before.
Latest(c, s, k, before) ==
    IF Places(c, s, k) = {} THEN before ELSE s[Max(Places(c, s, k))]

-----------------------------------------------------------------------------
(* Sequences *)

\* The numbers of a finite set, in order.
Ascending(S) ==
    [m \in 1 .. Cardinality(S) |->
        CHOOSE x \in S : Cardinality({y \in S : y <= x}) = m]

\* The members of s that are not empty.
NonEmpty(s) ==
    LET at == Ascending({n \in DOMAIN s : s[n] # <<>>})
    IN  [m \in DOMAIN at |-> s[at[m]]]

-----------------------------------------------------------------------------

Init ==
    /\ codec \in {"H264", "H265"}
    /\ frame \in Frames
    /\ next = 1
    /\ phase = "packs"
    /\ data = <<>>
    /\ i = 0
    /\ cuts = <<>>
    /\ unit = <<>>
    /\ cache = [k \in ParameterSets |-> <<>>]

\* A pack without data is passed over.
SkipPack ==
    /\ phase = "packs" /\ next <= Len(frame)
    /\ frame[next] = <<>>
    /\ next' = next + 1
    /\ UNCHANGED <<codec, frame, phase, scanVars, unit, cache>>

\* split_annex_b_nals() is called.
BeginPack ==
    /\ phase = "packs" /\ next <= Len(frame)
    /\ frame[next] # <<>>
    /\ phase' = "scan"
    /\ data' = frame[next]
    /\ i' = 0
    /\ cuts' = <<>>
    /\ UNCHANGED <<codec, frame, next, unit, cache>>

\* A start code: the scan goes on behind it.
ScanHit ==
    /\ phase = "scan" /\ i < Len(data)
    /\ LET len == StartCodeLen(data, i)
       IN  /\ len > 0
           /\ cuts' = Append(cuts, [at |-> i + len, len |-> len])
           /\ i' = i + len
    /\ UNCHANGED <<codec, frame, next, phase, data, unit, cache>>

ScanMiss ==
    /\ phase = "scan" /\ i < Len(data)
    /\ StartCodeLen(data, i) = 0
    /\ i' = i + 1
    /\ UNCHANGED <<codec, frame, next, phase, data, cuts, unit, cache>>

\* Where the n-th NAL unit ends: at the start code that follows, or with the pack.
End(n) == IF n < Len(cuts) THEN cuts[n + 1].at - cuts[n + 1].len ELSE Len(data)

\* The NAL units of the pack: all of it when there is no start code; otherwise what
\* is between start codes, where there is anything.
Nals ==
    IF cuts = <<>> THEN <<data>>
    ELSE NonEmpty([n \in 1 .. Len(cuts) |-> SubSeq(data, cuts[n].at + 1, End(n))])

Cached_First(s) ==
    [k \in ParameterSets |->
        IF cache[k] # <<>> THEN cache[k] ELSE Latest(codec, s, k, cache[k])]
\* The cache after the NAL units s: the latest of each kind.
Cached(s) == [k \in ParameterSets |-> Latest(codec, s, k, cache[k])]

\* The scan is over: the NAL units go into the access unit, and the parameter sets
\* among them into the cache.
EndPack ==
    /\ phase = "scan" /\ i >= Len(data)
    /\ unit' = unit \o Nals
    /\ cache' = Cached(Nals)
    /\ next' = next + 1
    /\ phase' = "packs"
    /\ UNCHANGED <<codec, frame, scanVars>>

\* process_frame_nals() goes on to the queue, in RtspBridge.
EndFrame ==
    /\ phase = "packs" /\ next > Len(frame)
    /\ phase' = "done"
    /\ UNCHANGED <<codec, frame, next, scanVars, unit, cache>>

Next == SkipPack \/ BeginPack \/ ScanHit \/ ScanMiss \/ EndPack \/ EndFrame

Spec == Init /\ [][Next]_vars

-----------------------------------------------------------------------------
(* Properties *)

\* Start codes are found in order, do not overlap, and lie in what was scanned; so
\* end - start in split_annex_b_nals() never wraps around.
CutsOrdered ==
    /\ i <= Len(data)
    /\ \A n \in 1 .. Len(cuts) :
          cuts[n].len \in {3, 4} /\ cuts[n].len <= cuts[n].at /\ cuts[n].at <= i
    /\ \A m, n \in 1 .. Len(cuts) : m < n => cuts[m].at <= cuts[n].at - cuts[n].len

\* Once the scan of a pack is over, no start code is left in any of its NAL units: the
\* RTP payload contains none, whatever bytes the encoder makes.
NoStartCodeInNal ==
    phase = "scan" /\ i >= Len(data) =>
       /\ cuts = <<>> => \A p \in 0 .. Len(data) : ~Mark(data, p)
       /\ \A n \in 1 .. Len(cuts) : \A p \in 0 .. Len(data) :
             ~(Mark(data, p) /\ cuts[n].at <= p /\ p + 3 <= End(n))

\* The NAL units of a pack, defined without a scan: the positions of 00 00 01 cut it;
\* a zero before one of them belongs to the start code, and what is empty is no NAL
\* unit.
Definition(d) ==
    LET marks == Ascending({p \in 0 .. Len(d) : Mark(d, p)})
        end(n) == IF n = Len(marks) THEN Len(d)
                  ELSE IF marks[n + 1] > 0 /\ At(d, marks[n + 1] - 1) = 0
                  THEN marks[n + 1] - 1 ELSE marks[n + 1]
    IN  IF d = <<>> THEN <<>>
        ELSE IF marks = <<>> THEN <<d>>
        ELSE NonEmpty([n \in 1 .. Len(marks) |-> SubSeq(d, marks[n] + 4, end(n))])

\* The access unit of a frame is the sequence of the NAL units of its packs, none of
\* them lost, joined or empty, and the cache has the last parameter set of each kind.
FrameIngested ==
    phase = "done" =>
       /\ unit = FlattenSeq([k \in DOMAIN frame |-> Definition(frame[k])])
       /\ cache = [k \in ParameterSets |-> Latest(codec, unit, k, <<>>)]
=============================================================================
