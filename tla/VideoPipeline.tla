------------------------------ MODULE VideoPipeline ------------------------------
(***************************************************************************)
(* Bringing up the encoder pipeline: videoProcessHi::init(), the calls of  *)
(* the vendor's SDK it makes in order, and what is undone when one of them *)
(* fails (modules/platform/hi3516cv610/src/hi_video_pipeline.cpp).         *)
(*                                                                         *)
(* init() is a sequence of calls.  Each names what must be up for it, what *)
(* it brings up, what it takes down, and the calls that the code makes     *)
(* when it fails; after these init() returns.  deinit() changes nothing.   *)
(* Application composes this module with the rest of the program, which    *)
(* calls init() once and does not look at its result.                      *)
(*                                                                         *)
(* What a call needs is the SDK's affair, taken from the order in which    *)
(* the code makes its calls and from its comments.  Attributes are left    *)
(* out: wrap_enable, video_stretch_enable and rotateBSupport are false.    *)
(*                                                                         *)
(* A definition with an underscore in its name is a faulty variant of the  *)
(* one that follows it, kept to show that the properties can fail.         *)
(***************************************************************************)
EXTENDS Integers, SequencesExt

VARIABLES
    up,         \* what is up: pairs of a kind and a number
    todo,       \* the calls that init() has still to make
    outcome,    \* how far init() is
    refused     \* the calls of a clean-up that failed

vars == <<up, todo, outcome, refused>>

VpssChns == 0 .. 2
VencChns == 0 .. 2

\* Device, pipe, channel of VI and VPSS group all have the number 0.
The(kind) == <<kind, 0>>

Single == {"vb", "sys", "mode", "fd", "mipi", "dev", "vi_bound", "pipe", "pipe_started",
           "vi_chn", "ae", "awb", "isp_mem", "isp", "ispThread", "group",
           "group_started", "vpss_bound"}

Resources ==
    {The(kind) : kind \in Single}
       \cup {"vpss_chn"} \X VpssChns
       \cup {"venc", "encoding", "venc_bound"} \X VencChns

\* A call named c; on failure the calls of undo follow.
Call(c, needs, gives, takes, undo) ==
    [name |-> c, needs |-> needs, gives |-> gives, takes |-> takes, undo |-> undo]

\* A call that sets or gets attributes.
Ask(c, needs, undo) == Call(c, needs, {}, {}, undo)

-----------------------------------------------------------------------------
(* The calls of init() *)

SysCalls ==
    << Call("sys_exit", {}, {}, {The("sys")}, <<>>),
       Call("vb_exit", {}, {}, {The("vb")}, <<>>),
       Ask("vb_set_cfg", {}, <<>>),
       Call("vb_init", {}, {The("vb")}, {}, <<>>),
       Ask("sys_set_cfg", {}, <<>>),
       Call("sys_init", {The("vb")}, {The("sys")}, {}, <<>>) >>

\* "set_vi_vpss_mode: should be before vpss init"
ModeCalls ==
    << Ask("get_vi_vpss_mode", {The("sys")}, <<>>),
       Call("set_vi_vpss_mode", {The("sys")}, {The("mode")}, {}, <<>>),
       Ask("get_ctrl_param", {The("sys")}, <<>>),
       Ask("set_ctrl_param", {The("sys")}, <<>>) >>

CloseMipi == Call("close", {The("fd")}, {}, {The("fd")}, <<>>)

MipiIoctl(c) == Ask(c, {The("fd")}, <<CloseMipi>>)

MipiCalls ==
    << Call("open", {}, {The("fd")}, {}, <<>>),
       MipiIoctl("SET_HS_MODE"), MipiIoctl("ENABLE_MIPI_CLOCK"),
       MipiIoctl("RESET_MIPI"), MipiIoctl("ENABLE_SENSOR_CLOCK"),
       MipiIoctl("RESET_SENSOR"), MipiIoctl("SET_DEV_ATTR"),
       MipiIoctl("SET_EXT_DATA_TYPE"), MipiIoctl("UNRESET_MIPI"),
       MipiIoctl("UNRESET_SENSOR"),
       [CloseMipi EXCEPT !.gives = {The("mipi")}] >>

\* Once the pipe is started, destroying it does not stop it first.
DestroyPipe == Call("destroy_pipe", {The("pipe")}, {}, {The("pipe"), The("pipe_started")}, <<>>)

CreateViCalls ==
    << Ask("set_dev_attr", {The("mipi")}, <<>>),
       Call("enable_dev", {The("mipi")}, {The("dev")}, {}, <<>>),
       Call("vi_bind", {The("dev")}, {The("vi_bound")}, {}, <<>>),
       Call("create_pipe", {The("vi_bound")}, {The("pipe")}, {}, <<>>),
       Call("start_pipe", {The("pipe")}, {The("pipe_started")}, {}, <<DestroyPipe>>),
       Ask("set_chn_attr", {The("pipe")}, <<DestroyPipe>>),
       Call("enable_chn", {The("pipe_started")}, {The("vi_chn")}, {}, <<>>),
       Ask("set_pipe_3dnr_attr", {The("pipe_started")}, <<>>) >>

IspCalls ==
    << Call("isp_exit", {}, {}, {The("isp"), The("isp_mem")}, <<>>),
       Ask("sensor", {The("pipe")}, <<>>),
       Call("ae_register", {The("pipe")}, {The("ae")}, {}, <<>>),
       Call("awb_register", {The("pipe")}, {The("awb")}, {}, <<>>),
       Call("isp_mem_init", {The("ae"), The("awb")}, {The("isp_mem")}, {}, <<>>),
       Ask("isp_set_pub_attr", {The("isp_mem")}, <<>>),
       Call("isp_init", {The("isp_mem")}, {The("isp")}, {}, <<>>),
       Call("ispThread", {The("isp")}, {The("ispThread")}, {}, <<>>) >>

ViCalls == ModeCalls \o MipiCalls \o CreateViCalls \o IspCalls

EnableVpssChn(c) ==
    << Ask("vpss_set_chn_attr", {The("group")}, <<>>),
       Call("vpss_enable_chn", {The("group")}, {<<"vpss_chn", c>>}, {}, <<>>) >>

VpssCalls ==
    << Call("create_grp", {The("sys"), The("mode")}, {The("group")}, {}, <<>>) >>
       \o EnableVpssChn(0) \o EnableVpssChn(1) \o EnableVpssChn(2)
       \o << Call("start_grp", {The("group")}, {The("group_started")}, {}, <<>>) >>

\* bind_vi_vpss() has only the channels 0 and 1 disabled.
VpssStop ==
    << Call("vpss_disable_chn", {<<"vpss_chn", 0>>}, {}, {<<"vpss_chn", 0>>}, <<>>),
       Call("vpss_disable_chn", {<<"vpss_chn", 1>>}, {}, {<<"vpss_chn", 1>>}, <<>>),
       Call("stop_grp", {The("group_started")}, {}, {The("group_started")}, <<>>),
       Call("destroy_grp", {The("group")}, {}, {The("group")}, <<>>) >>

BindViVpss ==
    << Call("bind_vi_vpss", {The("vi_chn"), The("group_started")}, {The("vpss_bound")}, {},
            VpssStop) >>

DestroyVenc(v) == Call("destroy_chn", {<<"venc", v>>}, {}, {<<"venc", v>>}, <<>>)

CloseReencode(v) ==
    LET get == <<Ask("get_chn_attr", {<<"venc", v>>}, <<DestroyVenc(v)>>),
                 Ask("get_rc_param", {<<"venc", v>>}, <<DestroyVenc(v)>>)>>
    IN  IF v = 2 THEN get    \* MJPEG has no such parameter
        ELSE Append(get, Ask("set_rc_param", {<<"venc", v>>}, <<DestroyVenc(v)>>))

StartVenc(v) ==
    Call("start_chn", {<<"venc", v>>}, {<<"encoding", v>>}, {}, <<DestroyVenc(v)>>)

\* comm_venc_start() and bind_vpss_venc()
VencChn(v, source) ==
    << Call("create_chn", {The("sys")}, {<<"venc", v>>}, {}, <<>>) >>
       \o CloseReencode(v)
       \o << StartVenc(v),
             Call("bind_vpss_venc", {<<"encoding", v>>, <<"vpss_chn", source>>},
                  {<<"venc_bound", v>>}, {}, <<>>) >>

ModParam ==
    << Ask("get_mod_param", {The("sys")}, <<>>), Ask("set_mod_param", {The("sys")}, <<>>) >>

\* H.264, H.265 and MJPEG
MiniBufEn == ModParam \o ModParam \o ModParam

\* The MJPEG channel has the second channel of VPSS as its source, too.
VencCalls == MiniBufEn \o VencChn(0, 0) \o VencChn(1, 1) \o VencChn(2, 1)

InitCalls_VencFirst == SysCalls \o ViCalls \o VpssCalls \o VencCalls \o BindViVpss
InitCalls == SysCalls \o ViCalls \o VpssCalls \o BindViVpss \o VencCalls

-----------------------------------------------------------------------------

Init ==
    /\ up = {}
    /\ todo = <<>>
    /\ outcome = "none"
    /\ refused = {}

CallInit ==
    /\ outcome = "none"
    /\ todo' = InitCalls
    /\ outcome' = "running"
    /\ UNCHANGED <<up, refused>>

CallSucceeds ==
    /\ todo # <<>>
    /\ up' = (up \ Head(todo).takes) \cup Head(todo).gives
    /\ todo' = Tail(todo)
    /\ UNCHANGED <<outcome, refused>>

CallFails_GoesOn ==
    /\ outcome = "running" /\ todo # <<>>
    /\ Head(todo).name \notin {"close", "ispThread"}
    /\ todo' = Tail(todo)
    /\ UNCHANGED <<up, outcome, refused>>

\* The first call that fails ends init().  close() cannot fail here, and a thread
\* that cannot be made ends the process.
CallFails ==
    /\ outcome = "running" /\ todo # <<>>
    /\ Head(todo).name \notin {"close", "ispThread"}
    /\ todo' = Head(todo).undo
    /\ outcome' = "failing"
    /\ UNCHANGED <<up, refused>>

\* vpss_stop() returns at the first call that fails; the other clean-ups are a
\* single call.
UndoFails ==
    /\ outcome = "failing" /\ todo # <<>>
    /\ Head(todo).name # "close"
    /\ refused' = refused \cup {Head(todo)}
    /\ todo' = <<>>
    /\ UNCHANGED <<up, outcome>>

Return ==
    /\ todo = <<>> /\ outcome \in {"running", "failing"}
    /\ outcome' = IF outcome = "running" THEN "ok" ELSE "failed"
    /\ UNCHANGED <<up, todo, refused>>

Next == CallInit \/ CallSucceeds \/ CallFails \/ UndoFails \/ Return

Spec == Init /\ [][Next]_vars

-----------------------------------------------------------------------------
(* Properties *)

\* Every variable has its type.
TypeOK ==
    /\ up \subseteq Resources
    /\ outcome \in {"none", "running", "failing", "ok", "failed"}
    /\ \A i \in 1 .. Len(todo) :
          todo[i].needs \cup todo[i].gives \cup todo[i].takes \subseteq Resources

\* Every call, also of a clean-up, finds up what it needs: nothing is used before it
\* is brought up, nor after a failed call should have ended init(), and nothing is
\* destroyed that is not there.
NeedsMet == todo # <<>> => Head(todo).needs \subseteq up

\* The MIPI device is closed again, whichever of the nine ioctls fails.
MipiClosed == todo = <<>> => The("fd") \notin up

\* When init() returns, an encoder channel that exists encodes, unless the SDK
\* refused to destroy it.  A failed bind_vpss_venc() leaves one that encodes nothing,
\* but it is the last that was made: those before it have their source.
EncodersWhole ==
    todo = <<>> =>
       \A v \in VencChns :
          <<"venc", v>> \in up /\ DestroyVenc(v) \notin refused =>
             /\ <<"encoding", v>> \in up
             /\ \/ <<"venc_bound", v>> \in up
                \/ \A w \in VencChns : w > v => <<"venc", w>> \notin up

\* VI's device, binding, pipe and channel stand on each other.  The binding is made
\* before the pipe and never undone, so it outlives a pipe that is destroyed, but no
\* channel does.
ViWhole(S) ==
    /\ The("vi_bound") \in S => The("dev") \in S
    /\ The("pipe") \in S => The("vi_bound") \in S
    /\ The("vi_chn") \in S => {The("pipe"), The("pipe_started")} \subseteq S

\* VPSS is bound only to a channel of VI and as a started group, and an encoder is
\* bound only behind a VPSS group that VI feeds, whatever was undone.
BindingsWhole ==
    /\ ViWhole(up)
    /\ The("vpss_bound") \in up => {The("vi_chn"), The("group_started")} \subseteq up
    /\ \A v \in VencChns : <<"venc_bound", v>> \in up =>
          {The("vpss_bound"), <<"encoding", v>>} \subseteq up

\* What is up when every call has succeeded.
WholePipeline == Resources \ {The("fd")}

\* init() reports success only when nothing is missing.
SuccessWhole == outcome = "ok" => up = WholePipeline

=============================================================================
