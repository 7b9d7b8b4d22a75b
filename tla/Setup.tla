------------------------------- MODULE Setup -------------------------------
(***************************************************************************)
(* How the elements that use the accelerators, or share memory with other  *)
(* processes, take what they need and give it back, whichever step fails.  *)
(* Each owner takes its resources in a fixed order, some of them in        *)
(* start() and the rest when caps or the first frames come; what is kept   *)
(* where nothing would free it is lost.                                    *)
(***************************************************************************)
EXTENDS Integers, Sequences, FiniteSets, SequencesExt

CONSTANTS
  MaxStarts    (* Bound: starts of the element.                            *)

VARIABLES
  setup,       (* The owner, the step it is at (0: stopped), and whether a *)
               (* failure stopped it or its stream; history: what the      *)
               (* failures in the frame transport have left.               *)
  taken,       (* What it has, and whatever of it goes on when it stops.   *)
  lost,        (* What nothing holds any more, but is still allocated.     *)
  starts

setupVars == <<setup, taken, lost, starts>>

Each(resources) == [i \in DOMAIN resources |-> {resources[i]}]
Check == <<{}>>

-----------------------------------------------------------------------------
(* What each step takes.                                                   *)

(* The two preprocessors: an RGBA surface, reached by CUDA through EGL,    *)
(* two linear buffers, and the NPP context (in one of them the padding is  *)
(* painted then).                                                          *)
PreSteps == Each(<<"rgba", "eglImage", "egl_res", "rgba_lin", "planes">>) \o Check
RoiSteps == Each(<<"rgba", "eglImage", "egl_res", "rgba_lin", "planes">>) \o Check

(* The engine is one thing: load_file frees what it had itself.            *)
LoadFile(engine) == Each(<<engine>>)

Events == {"ev0", "ev1", "ev2", "ev3"}

(* start() of nvmminfer: the properties, the stream, the events that       *)
(* measure, the engine, its tensors, their memory, the binding.  The       *)
(* preprocessor waits for the first frame.                                 *)
InferStart ==
  Check \o Each(<<"stream">>) \o <<Events>> \o LoadFile("engine")
  \o Check \o <<{"d_input", "d_output"}>> \o Check

(* start() of nvmmsecondaryinfer.                                          *)
SecondaryStart ==
  Check \o Each(<<"stream">>) \o LoadFile("engine") \o Check
  \o <<{"d_input", "d_output"}>> \o Check \o RoiSteps \o Each(<<"cache">>)

(* SamuraiTracker::init(), called by start() of nvmmsamurai.               *)
EngineSteps ==
  Each(<<"stream">>) \o LoadFile("encoder") \o LoadFile("prompt") \o LoadFile("decoder")
  \o LoadFile("mem_encoder") \o LoadFile("mem_attn") \o PreSteps
EncoderOuts == <<"out3", "out4", "out5", "out6">>
EncoderSteps == Each(<<"d_crop">>) \o Check \o Each(EncoderOuts) \o Check
ConstSteps ==
  Check \o Each(<<"d_coords", "d_psparse", "d_pdense", "d_image_pe", "d_dense_const",
                  "d_empty_sparse", "d_dec_embed">>)
KernelSteps ==
  Each(<<"d_no_mem", "d_high", "d_box", "d_cond_maskmem", "d_mm_ptrs", "d_objptr_packed",
         "d_pos_list", "d_const_maskmem_pos", "d_tpos", "d_tposproj_w", "d_tposproj_b",
         "d_ring_bufs">>)
MotionSteps == Each(<<"gmc_surf", "gmc_estimator">>)
DecoderSteps ==
  Check \o Each(<<"d_dmasks", "d_dious", "d_dtokens", "d_dobj", "d_mem_mask">>)
  \o Check \o Each(<<"d_maskmem_feat", "d_maskmem_pos", "d_ma_curr", "d_ma_memory",
                     "d_ma_curr_pos", "d_ma_memory_pos", "d_ma_attn">>)

(* nvmmofa wraps the first frame and configures itself at the second.      *)
OfaConfigure == Each(<<"stream", "payload", "mv">>)
OfaFrames == <<{"prev", "prev_buf"}>> \o OfaConfigure

(* The two estimators of nvmmsamurai that use the accelerators, from their *)
(* init() to their destructor; to the tracker each is one thing.           *)
FftSteps ==
  Each(<<"cs", "stream", "fft", "ifft", "d_yp", "d_yc", "d_hann", "d_prevwin", "d_currwin",
         "d_aspec", "d_bspec", "d_corr">>)
  \o Check
  \o Each(<<"img_prevwin", "img_currwin", "img_aspec", "img_bspec", "img_corr">>)
PvaSteps ==
  Each(<<"stream", "prev_u8", "cur_u8", "prev_s16", "harris", "lk", "kp_prev", "scores",
         "kp_cur", "status", "pyr_p", "pyr_c">>)

(* XfeatMatcher::init(), which nvmmdetgate calls at every frame until it   *)
(* has worked once.                                                        *)
MatcherSteps ==
  LoadFile("xf") \o LoadFile("lg") \o Each(<<"stream">>) \o Check
  \o Each(<<"d_img", "d_feats", "d_kpts", "d_heat">>) \o Check
  \o Each(<<"d_d0", "d_d1", "d_k0", "d_k1", "d_sim", "d_z0", "d_z1">>) \o Check
  \o Each(<<"rgba">>)

(* nvmmdrawdet: ensure_rgba.                                               *)
EnsureRgba == Each(<<"rgba", "eglImage", "egl_res">>)

(* start() of nvmmsink: the segment, with its name, its size, its mapping, *)
(* the socket, with its path, and the thread that serves it; the pool,     *)
(* here of two, waits for caps, and clients for the pool.                  *)
SinkStart ==
  <<{"shm_fd", "segment"}, {}, {"shm_ptr"}, {"listen_fd", "socket_path"}, {"accept_thread"}>>
AllocatePool == <<{"pool0"}, {}, {"pool1"}, {}>>
ServeClients == <<{"client_fds"}>>

(* start() of nvmmappsrc: the segment, its size, its mapping, its header,  *)
(* the socket, the size of the pool, its descriptors, which no member      *)
(* keeps, and a surface for each.                                          *)
AppSrcStart ==
  <<{"shm_fd"}, {}, {"shm_ptr"}, {}, {"socket_fd"}, {}, {"fds"}, {"surface0"}, {"surface1"}>>

Starting == [
  infer     |-> InferStart,
  secondary |-> SecondaryStart,
  samurai   |-> EngineSteps \o EncoderSteps \o ConstSteps \o KernelSteps
                \o MotionSteps \o DecoderSteps,
  fft       |-> FftSteps,
  pva       |-> PvaSteps,
  ofa       |-> <<>>,
  detgate   |-> <<>>,
  drawdet   |-> <<>>,
  sink      |-> SinkStart,
  appsrc    |-> AppSrcStart]

AtFrames == [
  infer     |-> PreSteps,
  secondary |-> <<>>,
  samurai   |-> <<>>,
  fft       |-> <<>>,
  pva       |-> <<>>,
  ofa       |-> OfaFrames,
  detgate   |-> MatcherSteps,
  drawdet   |-> EnsureRgba,
  sink      |-> AllocatePool \o ServeClients,
  appsrc    |-> <<>>]

-----------------------------------------------------------------------------
(* What is given back.                                                     *)

(* The destructors of the preprocessors.                                   *)
PreFrees == {"egl_res", "eglImage", "rgba", "rgba_lin", "planes"}
RoiFrees == {"egl_res", "eglImage", "rgba", "rgba_lin", "planes"}

InferStop ==
  {"engine", "d_input", "d_output", "stream"} \union Events \union PreFrees
SecondaryStop ==
  {"engine", "cache", "d_input", "d_output", "stream"} \union RoiFrees
ReleaseOfa == {"stream", "payload", "prev", "prev_buf", "mv"}
DrawdetStop == {"egl_res", "eglImage", "rgba"}

(* destroy() of the estimators, and of the matcher free_buffers() with its *)
(* engines, which free themselves.                                         *)
FftDestroy ==
  {"img_prevwin", "img_currwin", "img_aspec", "img_bspec", "img_corr", "fft", "ifft",
   "stream", "cs", "d_yp", "d_yc", "d_hann", "d_prevwin", "d_currwin", "d_aspec",
   "d_bspec", "d_corr"}
PvaDestroy ==
  {"prev_u8", "cur_u8", "prev_s16", "kp_prev", "scores", "kp_cur", "status", "pyr_p",
   "pyr_c", "harris", "lk", "stream"}
MatcherFrees ==
  {"d_img", "d_feats", "d_kpts", "d_heat", "d_d0", "d_d1", "d_k0", "d_k1", "d_sim",
   "d_z0", "d_z1", "rgba", "stream"} \union {"xf", "lg"}

(* Mutant: the segment keeps its name.                                     *)
SinkStopKeepsName ==
  {"accept_thread", "client_fds", "listen_fd", "socket_path", "pool0", "pool1", "shm_ptr",
   "shm_fd"}

(* stop() of nvmmsink takes the names away as well; that of nvmmappsrc     *)
(* closes no descriptor of the pool.                                       *)
SinkStop ==
  {"accept_thread", "client_fds", "listen_fd", "socket_path", "pool0", "pool1", "shm_ptr",
   "shm_fd", "segment"}
AppSrcStop == {"surface0", "surface1", "socket_fd", "shm_ptr", "shm_fd"}

(* The members of the tracker that free themselves.                        *)
ImplFrees ==
  {"encoder", "prompt", "decoder", "mem_encoder", "mem_attn", "gmc_estimator"}
  \union PreFrees

(* ~SamuraiTracker                                                         *)
TrackerFrees ==
  {"d_crop", "d_coords", "d_psparse", "d_pdense", "d_image_pe", "d_dense_const",
   "d_empty_sparse", "d_dmasks", "d_dious", "d_dtokens", "d_dobj", "d_mem_mask",
   "d_maskmem_feat", "d_maskmem_pos", "d_dec_embed", "d_ma_curr", "d_ma_curr_pos",
   "d_ma_memory", "d_ma_memory_pos", "d_ma_attn", "d_no_mem", "d_high",
   "d_cond_maskmem", "d_mm_ptrs", "d_objptr_packed", "d_pos_list",
   "d_const_maskmem_pos", "d_tpos", "d_tposproj_w", "d_tposproj_b", "d_ring_bufs",
   "d_box", "gmc_surf", "stream"}
  \union ToSet(EncoderOuts) \union ImplFrees

Frees == [infer |-> InferStop, secondary |-> SecondaryStop, samurai |-> TrackerFrees,
          fft |-> FftDestroy, pva |-> PvaDestroy, ofa |-> ReleaseOfa,
          detgate |-> MatcherFrees, drawdet |-> DrawdetStop, sink |-> SinkStop,
          appsrc |-> AppSrcStop]

-----------------------------------------------------------------------------
Owner == setup.owner
Steps == Starting[Owner] \o AtFrames[Owner]
Running == setup.at > Len(Starting[Owner])

SetupInit ==
  /\ \E o \in DOMAIN Frees : 
       setup = [owner |-> o, at |-> 0, broken |-> FALSE, left |-> {}]
  /\ taken = {} /\ lost = {} /\ starts = 0

Begin ==
  /\ setup.at = 0 /\ starts < MaxStarts
  /\ starts' = starts + 1
  /\ setup' = [setup EXCEPT !.at = 1, !.broken = FALSE]
  /\ UNCHANGED <<taken, lost>>

(* A name that is there already is opened.                                 *)
Reopened == {"segment"}

(* A member that is written anew loses what it had.                        *)
TakeStep ==
  /\ setup.at \in 1 .. Len(Steps) /\ ~setup.broken
  /\ setup' = [setup EXCEPT !.at = @ + 1]
  /\ taken' = taken \union Steps[setup.at]
  /\ lost' = lost \union ((taken \intersect Steps[setup.at]) \ Reopened)
  /\ UNCHANGED starts

(* An encoder output is not in enc_out yet when its binding fails.         *)
Unkept == IF Owner = "samurai" THEN ToSet(EncoderOuts) ELSE {}

EndOfTransport == Owner \in {"sink", "appsrc"}

(* Members that are assigned what a call returns also when it fails.       *)
AlwaysAssigned == {"shm_fd", "shm_ptr", "listen_fd", "socket_fd"}

(* Until the segment is mapped its descriptor is closed, later the socket  *)
(* when not everything comes over it, and nothing else.                    *)
TransportFrees ==
  IF setup.at <= 3 THEN {"shm_fd"}
  ELSE IF Owner = "appsrc" /\ setup.at \in {6, 7} THEN {"socket_fd"} ELSE {}

(* What is freed when a step of start() fails.  When an engine does not    *)
(* load only the stream is; before there is nothing.                       *)
FreesOnFailure ==
  IF EndOfTransport THEN TransportFrees
  ELSE IF Owner \in {"infer", "secondary"} /\ {"engine"} \intersect taken = {}
  THEN {"stream"} ELSE Frees[Owner]

(* Creating events or a thread is not checked, and a frame that cannot be  *)
(* wrapped, or a client that cannot be served, is no failure.              *)
MayFail ==
  setup.at \in 1 .. Len(Steps)
  /\ Steps[setup.at] \notin {Events, OfaFrames[1], {"accept_thread"}, {"client_fds"}}

(* What a failure leaves: a stopped element in start(), one without a      *)
(* matcher in nvmmdetgate, which tries again at the next frame, and else   *)
(* an error that stops the stream.                                         *)
Failed ==
  IF ~Running THEN [setup EXCEPT !.at = 0, !.broken = TRUE]
  ELSE IF Owner = "detgate" THEN [setup EXCEPT !.at = 1]
  ELSE [setup EXCEPT !.broken = TRUE]

FreedByFailure ==
  IF ~Running THEN FreesOnFailure ELSE IF Owner = "detgate" THEN MatcherFrees ELSE {}

(* What start() leaves when a step of it fails: in nvmmsink the name of    *)
(* the segment and, when no socket can be had, the mapping with its        *)
(* descriptor; in nvmmappsrc these two from the header on, and the socket  *)
(* with the surfaces when one of them cannot be imported.                  *)
OfSegment == {"shm_fd", "shm_ptr"}
SinkLeaves == <<{}, {"segment"}, {"segment"}, OfSegment \union {"segment"}>>
AppSrcLeaves ==
  <<{}, {}, {}, OfSegment, OfSegment, OfSegment, OfSegment, OfSegment \union {"socket_fd"},
    OfSegment \union {"socket_fd", "surface0"}>>
LeftByStart ==
  IF Running THEN {}
  ELSE IF Owner = "sink" THEN SinkLeaves[setup.at]
  ELSE IF Owner = "appsrc" THEN AppSrcLeaves[setup.at] ELSE {}

(* A step fails with none or some of what it takes; with all of it, where  *)
(* what cannot be bound is not kept.                                       *)
StepFails ==
  /\ MayFail /\ ~setup.broken
  /\ \E part \in SUBSET Steps[setup.at] :
       LET emptied == Steps[setup.at] \intersect AlwaysAssigned IN
       /\ part = {} \/ (part # Steps[setup.at] /\ ~EndOfTransport) \/ part \subseteq Unkept
       /\ taken' = ((taken \ emptied) \union (part \ Unkept)) \ FreedByFailure
       /\ lost' = lost \union (part \intersect Unkept)
                     \union (taken \intersect (part \union emptied))
  /\ setup' = [Failed EXCEPT !.left = @ \union LeftByStart]
  /\ UNCHANGED starts

(* The events are there only to measure, and stay when measuring was       *)
(* switched off meanwhile.                                                 *)
SkipEvents ==
  /\ setup.at \in 1 .. Len(Steps) /\ Steps[setup.at] = Events /\ ~setup.broken
  /\ setup' = [setup EXCEPT !.at = @ + 1]
  /\ UNCHANGED <<taken, lost, starts>>

StopOwner ==
  /\ Running /\ setup.at > 0
  /\ setup' = [setup EXCEPT !.at = 0, !.broken = FALSE]
  /\ \E kept \in {{}, taken \intersect Events} : taken' = (taken \ Frees[Owner]) \union kept
  /\ UNCHANGED <<lost, starts>>

(* Caps that nvmmsink refused come again: it begins with the first surface *)
(* of its pool, over those it has.                                         *)
PoolSurfaces == {"pool0", "pool1"}
CapsAgain ==
  /\ Owner = "sink" /\ Running /\ setup.broken
  /\ setup' = [setup EXCEPT !.at = Len(SinkStart) + 1, !.broken = FALSE,
                            !.left = @ \union (taken \intersect PoolSurfaces)]
  /\ UNCHANGED <<taken, lost, starts>>

(* New caps: nvmmofa lets go of everything and begins anew with the next   *)
(* frames; nvmmdrawdet keeps the surface it has, nvmmsink its pool.        *)
NewCaps ==
  /\ Owner = "ofa" /\ Running /\ setup.at > 0 /\ ~setup.broken
  /\ setup' = [setup EXCEPT !.at = Len(Starting[Owner]) + 1]
  /\ taken' = taken \ ReleaseOfa
  /\ UNCHANGED <<lost, starts>>

SetupNext == Begin \/ TakeStep \/ StepFails \/ SkipEvents \/ CapsAgain \/ NewCaps \/ StopOwner

SetupSpec == SetupInit /\ [][SetupNext]_setupVars

-----------------------------------------------------------------------------
(***************************************************************************)
(* Whichever steps fail, in whichever starts, a stopped element holds      *)
(* nothing and nothing is lost, but for what is named here.  Of the users  *)
(* of the accelerators: the output of nvmmsamurai's encoder that could not *)
(* be bound (samurai_tracker.cpp:640), and the events of nvmminfer when    *)
(* its engine does not load or it is stopped after measuring was switched  *)
(* off (gstnvmminfer.cpp:165, 388).  Of nvmmappsrc: the descriptors of the *)
(* pool, which nothing closes (gstnvmmappsrc.cpp:265, 305).  Of both ends  *)
(* of the transport: what a start() that failed left at the step where it  *)
(* did (SinkLeaves, AppSrcLeaves: gstnvmmsink.cpp:329-361,                 *)
(* gstnvmmappsrc.cpp:224-283), until a stop, and for good once the next    *)
(* start writes over it; and the surfaces of a pool that was made anew     *)
(* over them (gstnvmmsink.cpp:131).                                        *)
(***************************************************************************)
Spared == [infer |-> Events, samurai |-> ToSet(EncoderOuts), appsrc |-> {"fds"},
           secondary |-> {}, fft |-> {}, pva |-> {}, ofa |-> {}, detgate |-> {},
           drawdet |-> {}, sink |-> {}]

NothingElseLeft ==
  /\ lost \subseteq Spared[Owner] \union setup.left
  /\ setup.at = 0 =>
       taken \subseteq Spared[Owner] \union (IF setup.broken THEN setup.left ELSE {})
=============================================================================
