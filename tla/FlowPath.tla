------------------------------ MODULE FlowPath ------------------------------
(***************************************************************************)
(* nvmmconvert, which fills buffers of a pool of its own                   *)
(* (gst/nvmmconvert/gstnvmmconvert.cpp), feeding nvmmofa, which keeps the  *)
(* buffer of the picture before to compute the flow from it                *)
(* (gst/nvmmofa/gstnvmmofa.cpp), feeding a sink that shows the last one    *)
(* (gstnvmmflowstats.cpp).  All on one thread.                             *)
(***************************************************************************)
EXTENDS Integers, FiniteSets

CONSTANTS
  MaxPictures, (* Bound: pictures converted.                               *)
  Proposals    (* What downstream may propose for the pool: <<min, max>>,  *)
               (* max 0 for no limit.                                      *)

ASSUME FlowPathAssumption == MaxPictures \in Nat /\ Proposals \subseteq Nat \X Nat

VARIABLES
  flowing,     (* Caps were agreed on and there was no error since.        *)
  modified,    (* A crop or a flip is set.                                 *)
  passthrough, (* Passthrough of the converter, set with the caps.         *)
  pool,        (* Its pool: buffers made and how many there may be, from   *)
               (* the caps before while it passes buffers through.         *)
  inHand,      (* The frame that has left the converter.                   *)
  prev,        (* prev and prev_buf, with what is in the buffer now.       *)
  configured,  (* configured of nvmmofa.                                   *)
  shown,       (* The frame that the sink still shows.                     *)
  pictures,    (* Pictures that have come.                                 *)
  flow,        (* History: the picture the last flow is from, and the last *)
               (* that was wrapped before, since the caps.                 *)
  wrapped      (* History: the last picture wrapped since the caps.        *)

flowVars == <<flowing, modified, passthrough, pool, inHand, prev,
              configured, shown, pictures, flow, wrapped>>

(* Buffer 0 is one that is not of the pool.                                *)
NoFrame == [buf |-> 0, pic |-> 0]
NoPool == [made |-> 0, max |-> 0]
NoFlow == [from |-> 0, due |-> 0]

FlowInit ==
  /\ flowing = FALSE /\ modified \in BOOLEAN /\ passthrough = FALSE
  /\ pool = NoPool
  /\ inHand = NoFrame /\ prev = NoFrame /\ shown = NoFrame
  /\ configured = FALSE
  /\ pictures = 0 /\ flow = NoFlow /\ wrapped = 0

-----------------------------------------------------------------------------
(* Caps and pools.                                                         *)

Sizes == 1 .. 2

(* transform_caps: any size, of those the other side asks for, if it does. *)
TransformCaps(filter) == IF filter = {} THEN Sizes ELSE Sizes \intersect filter

(* The size nearest to a wanted one among those allowed.                   *)
NearestSize(wanted, allowed) ==
  CHOOSE s \in allowed : \A t \in allowed :
    (s - wanted) * (s - wanted) <= (t - wanted) * (t - wanted)

(* fixate_caps: of what downstream allows, the size nearest to the crop or *)
(* to the input.  A flip alone asks for no other size.                     *)
FixatedSize(crop, in, allowed) ==
  NearestSize(IF crop > 0 THEN crop ELSE in, allowed)

(* set_caps; with an output of another format or size there is always work *)
(* to do.                                                                  *)
PassesThrough(out, in) == out = in /\ ~modified

(* set_config of the pool keeps the numbers it is given; when it starts,   *)
(* the pool makes its least number at once.                                *)
SetConfig(min, max) == [made |-> min, max |-> max]

(* Mutant: the pool is as small as downstream says.                        *)
PoolAsProposed(proposal) == SetConfig(proposal[1], proposal[2])

(* decide_allocation.                                                      *)
PoolFor(proposal) ==
  SetConfig(IF proposal[1] < 2 THEN 2 ELSE proposal[1],
            IF proposal[2] < 4 THEN 8 ELSE proposal[2])

(* Frames of a pool that is given up keep their buffers to themselves.     *)
Foreign(frame) == [frame EXCEPT !.buf = 0]

(* release_state.                                                          *)
ReleaseState == prev' = NoFrame /\ configured' = FALSE

(* New caps through converter and nvmmofa.                                 *)
Caps ==
  /\ inHand = NoFrame /\ (flowing \/ shown = NoFrame)
  /\ \E in \in Sizes, crop \in Sizes \union {0}, filter \in SUBSET Sizes :
       /\ crop > 0 => modified
       /\ passthrough' = PassesThrough(FixatedSize(crop, in, TransformCaps(filter)), in)
  /\ IF passthrough' THEN pool' = pool /\ shown' = shown
     ELSE /\ \E proposal \in Proposals : pool' = PoolFor(proposal)
          /\ shown' = Foreign(shown)
  /\ ReleaseState
  /\ flowing' = TRUE /\ wrapped' = 0
  /\ UNCHANGED <<modified, inHand, pictures, flow>>

(* A property is set, which passthrough does not follow.                   *)
Modify ==
  /\ modified' = ~modified
  /\ UNCHANGED <<flowing, passthrough, pool, inHand, prev, configured, shown,
                 pictures, flow, wrapped>>

(* stop() of all.                                                          *)
StopFlow ==
  /\ flowing' = FALSE /\ passthrough' = FALSE /\ pool' = NoPool
  /\ ReleaseState
  /\ inHand' = NoFrame /\ shown' = NoFrame
  /\ wrapped' = 0
  /\ UNCHANGED <<modified, pictures, flow>>

-----------------------------------------------------------------------------
(* A frame through the converter.                                          *)

InUse == {prev.buf, shown.buf}

FreeBuffers == (1 .. pool.made) \ InUse
Available ==
  IF FreeBuffers # {} THEN FreeBuffers
  ELSE IF pool.made < pool.max THEN {pool.made + 1} ELSE {}

(* prepare_output_buffer and transform, which fills the buffer; there is   *)
(* an error when the surface or the driver fails.                          *)
Convert(ok) ==
  /\ flowing /\ inHand = NoFrame /\ ~passthrough /\ pictures < MaxPictures
  /\ \E b \in Available :
       /\ pool' = [pool EXCEPT !.made = IF b > @ THEN b ELSE @]
       /\ inHand' = IF ok THEN [buf |-> b, pic |-> pictures + 1] ELSE NoFrame
       /\ prev' = IF ok /\ prev.buf = b
                  THEN [prev EXCEPT !.pic = pictures + 1] ELSE prev
  /\ pictures' = pictures + 1
  /\ flowing' = ok
  /\ UNCHANGED <<modified, passthrough, configured, shown, flow, wrapped>>

PassOn ==
  /\ flowing /\ inHand = NoFrame /\ passthrough /\ pictures < MaxPictures
  /\ pictures' = pictures + 1
  /\ inHand' = [buf |-> 0, pic |-> pictures + 1]
  /\ UNCHANGED <<flowing, modified, passthrough, pool, prev, configured, shown,
                 flow, wrapped>>

-----------------------------------------------------------------------------
(* transform_ip of nvmmofa, and the sink that shows the frame.             *)

Show ==
  /\ shown' = inHand
  /\ inHand' = NoFrame
  /\ UNCHANGED <<modified, passthrough, pool, pictures>>

(* No surface, or it cannot be wrapped: the frame passes without a flow.   *)
Unwrapped ==
  /\ inHand # NoFrame
  /\ Show
  /\ UNCHANGED <<flowing, prev, configured, flow, wrapped>>

FirstWrapped ==
  /\ inHand # NoFrame /\ prev = NoFrame
  /\ Show
  /\ prev' = inHand /\ wrapped' = inHand.pic
  /\ UNCHANGED <<flowing, configured, flow>>

(* Mutant: after a flow that failed, prev stays.                           *)
CompareSuccess(attached) ==
  /\ inHand # NoFrame /\ prev # NoFrame
  /\ Show
  /\ flow' = IF attached THEN [from |-> prev.pic, due |-> wrapped] ELSE flow
  /\ prev' = IF attached THEN inHand ELSE prev
  /\ wrapped' = inHand.pic /\ configured' = TRUE
  /\ UNCHANGED flowing

(* The flow is computed and attached, or the hardware or the copy to the   *)
(* host fails; the picture is the next one's past in any case.             *)
Compare(attached) ==
  /\ inHand # NoFrame /\ prev # NoFrame
  /\ Show
  /\ flow' = IF attached THEN [from |-> prev.pic, due |-> wrapped] ELSE flow
  /\ prev' = inHand /\ wrapped' = inHand.pic /\ configured' = TRUE
  /\ UNCHANGED flowing

(* configure() fails at the first flow: an error, the frame goes nowhere.  *)
ConfigureFails ==
  /\ inHand # NoFrame /\ prev # NoFrame /\ ~configured
  /\ inHand' = NoFrame
  /\ flowing' = FALSE
  /\ UNCHANGED <<modified, passthrough, pool, prev, configured, shown,
                 pictures, flow, wrapped>>

FlowNext ==
  \/ Caps \/ Modify \/ StopFlow
  \/ \E ok \in BOOLEAN : Convert(ok) \/ Compare(ok)
  \/ PassOn \/ Unwrapped \/ FirstWrapped \/ ConfigureFails

FlowSpec == FlowInit /\ [][FlowNext]_flowVars

-----------------------------------------------------------------------------
(***************************************************************************)
(* "The ref keeps prev's surface alive and unmodified" (gstnvmmofa.cpp:    *)
(* 72): a flow is always from the picture wrapped last before, since the   *)
(* caps, however many frames between could not be wrapped, had no flow or  *)
(* were converted into buffers used again.                                 *)
(***************************************************************************)
FlowExact == flow.from = flow.due

(***************************************************************************)
(* Whatever downstream proposes for the pool, the converter finds a buffer *)
(* when it needs one: the thread that would wait is the one that holds     *)
(* those in use (gstnvmmconvert.cpp:441).                                  *)
(***************************************************************************)
NeverStarved == flowing /\ inHand = NoFrame /\ ~passthrough => Available # {}
=============================================================================
