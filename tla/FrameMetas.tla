----------------------------- MODULE FrameMetas -----------------------------
(***************************************************************************)
(* What a buffer carries through a pipeline besides its picture: the       *)
(* detections (gst/common/nvmm_det_meta.cpp), and the metas that refer to  *)
(* them by index (nvmm_class_meta.cpp, nvmm_motion_meta.cpp) or go with    *)
(* the picture (nvmm_optical_flow_meta.cpp, nvmm_track_meta.cpp).  The     *)
(* elements come in any order, each at most once; whether one finds what   *)
(* it needs and succeeds is the environment's.                             *)
(***************************************************************************)
EXTENDS Integers, Sequences, FiniteSets

CONSTANTS
  MaxObjects   (* NVMM_META_MAX_OBJECTS.                                   *)

ASSUME FrameMetasAssumption == MaxObjects \in Nat

VARIABLES
  det,         (* The detections in order, by number; 0 is the one that    *)
               (* nvmmdetgate makes up.  NoMeta when there is no meta.     *)
  cls,         (* For each entry the detection it was made for.            *)
  mot,         (* The same.                                                *)
  flowMeta, track,  (* Whether these are there.                            *)
  passed       (* The elements that the buffer has passed.                 *)

metaVars == <<det, cls, mot, flowMeta, track, passed>>

NoMeta == <<-1>>   (* No list of detections.                               *)
Has(meta) == meta # NoMeta

MetasInit ==
  /\ det = NoMeta /\ cls = NoMeta /\ mot = NoMeta
  /\ flowMeta = FALSE /\ track = FALSE
  /\ passed = {}

Passes(element) ==
  /\ element \notin passed
  /\ passed' = passed \union {element}

(* gst_buffer_add_nvmm_det_meta keeps no more than there is room for.      *)
Detected(n) == [i \in 1 .. (IF n < MaxObjects THEN n ELSE MaxObjects) |-> i]

(* nvmminfer, on a frame that it infers.                                   *)
InferMeta(n) ==
  /\ Passes("infer") /\ ~Has(det)
  /\ det' = Detected(n)
  /\ UNCHANGED <<cls, mot, flowMeta, track>>

(* nvmmsecondaryinfer classifies every detection.                          *)
Classify ==
  /\ Passes("secondary")
  /\ Has(det) /\ det # <<>>
  /\ cls' = det
  /\ UNCHANGED <<det, mot, flowMeta, track>>

(* nvmmofa, from the second frame on.                                      *)
AddFlow ==
  /\ Passes("ofa")
  /\ flowMeta' = TRUE
  /\ UNCHANGED <<det, cls, mot, track>>

(* compute_box_motion: an entry for every object, or none when the field   *)
(* is empty.                                                               *)
MotionOf(objects) == objects

(* nvmmfusion puts the flow of the other branch, if it has any, on the     *)
(* buffer of the detections, and the motion of each box where it is asked  *)
(* to and the field can be mapped.                                         *)
Fuse(computes) ==
  /\ Passes("fusion")
  /\ flowMeta' \in (IF computes THEN {TRUE} ELSE {TRUE, flowMeta})
  /\ mot' = IF computes /\ Has(det) /\ det # <<>> THEN MotionOf(det) ELSE mot
  /\ UNCHANGED <<det, cls, track>>

(* nvmmdetgate passes on one detection, one it makes up, or none; the      *)
(* others are dropped where they are.                                      *)
Gate ==
  /\ Passes("detgate") /\ Has(det)
  /\ det' \in {<<det[keep]>> : keep \in DOMAIN det} \union {<<0>>, <<>>}
  /\ UNCHANGED <<cls, mot, flowMeta, track>>

(* nvmmsamurai.                                                            *)
AddTrack ==
  /\ Passes("samurai")
  /\ track' = TRUE
  /\ UNCHANGED <<det, cls, mot, flowMeta>>

(* Mutant of ClassTransformed: the class meta is copied whatever is done.  *)
ClassAlways(copied) == cls

(* The transform functions of the metas keep them when a buffer is copied  *)
(* and drop them when its picture is scaled or cropped.                    *)
DetTransformed(copied) == IF copied THEN det ELSE NoMeta
ClassTransformed(copied) == IF copied THEN cls ELSE NoMeta
MotionTransformed(copied) == IF copied THEN mot ELSE NoMeta
FlowTransformed(copied) == copied /\ flowMeta
TrackTransformed(copied) == copied /\ track

Transformed(copied) ==
  /\ Passes(IF copied THEN "copy" ELSE "scale")
  /\ det' = DetTransformed(copied)
  /\ cls' = ClassTransformed(copied)
  /\ mot' = MotionTransformed(copied)
  /\ flowMeta' = FlowTransformed(copied)
  /\ track' = TrackTransformed(copied)

(* nvmmsink to nvmmappsrc: the slot holds what DeepStream detected on the  *)
(* frame, an empty list when that is nothing, and no other meta; without   *)
(* the meta block none arrives.                                            *)
Transport(metaBlock, n) ==
  /\ Passes("ipc")
  /\ det' = IF metaBlock THEN Detected(n) ELSE NoMeta
  /\ cls' = NoMeta /\ mot' = NoMeta /\ flowMeta' = FALSE /\ track' = FALSE

MetasNext ==
  \/ \E n \in 0 .. MaxObjects + 1 :
       InferMeta(n) \/ \E metaBlock \in BOOLEAN : Transport(metaBlock, n)
  \/ Classify \/ AddFlow \/ Gate \/ AddTrack
  \/ \E yes \in BOOLEAN : Fuse(yes) \/ Transformed(yes)

MetasSpec == MetasInit /\ [][MetasNext]_metaVars

-----------------------------------------------------------------------------
(* What nvmmdrawdet writes beside a detection, and nvmmdetlog logs: the    *)
(* entries at its index, where there are so many.                          *)
Beside(i, meta) == IF Has(meta) /\ i <= Len(meta) THEN {meta[i]} ELSE {}
Shown(i) == Beside(i, cls) \union Beside(i, mot)

(***************************************************************************)
(* "Entry i belongs to GstNvmmDetMeta object i on the same buffer"         *)
(* (nvmm_class_meta.h:8, nvmm_motion_meta.h:8).                           *)
(***************************************************************************)
EntriesBelong ==
  Has(det) => \A i \in DOMAIN det : Shown(i) \subseteq {det[i]}

(***************************************************************************)
(* Wherever a buffer is copied, scaled or sent, the metas that refer to    *)
(* detections never outlive them, and as long as the detections did not    *)
(* pass nvmmdetgate after the entries were made, they are for them         *)
(* (nvmm_class_meta.cpp:41).                                               *)
(***************************************************************************)
NoOrphans ==
  \A m \in {cls, mot} : Has(m) =>
    /\ Has(det)
    /\ "detgate" \notin passed => m = det
=============================================================================
