--------------------------- MODULE SecondaryInfer ---------------------------
(***************************************************************************)
(* nvmmsecondaryinfer: a classifier that runs on each tracked detection    *)
(* once every infer_interval frames and serves its last answer in between  *)
(* (gst/nvmmsecondaryinfer/gstnvmmsecondaryinfer.cpp), out of a cache that *)
(* forgets tracks that are out of sight (secondary_cache.cpp).             *)
(*                                                                         *)
(* The tracker ids of a frame are distinct (DistinctIds of Tracker), so a  *)
(* frame is a function from the ids it shows to what would come of running *)
(* the classifier on them: a class, or NoLabel when the region is too      *)
(* small, the crop, the network or the copy back fails, or the score is    *)
(* below conf_threshold.  All of these leave by the same continue.         *)
(***************************************************************************)
EXTENDS Naturals, FiniteSets

CONSTANTS
  Ids,           (* Tracker ids of detections, none of them 0.             *)
  Classes,       (* What the classifier can answer.                        *)
  NoLabel,       (* class_id -1.                                           *)
  InferInterval, (* infer_interval.                                        *)
  MaxAge,        (* max_track_age.                                         *)
  MaxFrames      (* Bound: frames between two starts.                      *)

ASSUME SecondaryInferAssumption ==
  /\ 0 \notin Ids
  /\ NoLabel \notin Classes
  /\ {InferInterval, MaxAge} \subseteq Nat \ {0}
  /\ MaxFrames \in Nat

Untracked == 0
Labels == Classes \union {NoLabel}

VARIABLES
  running,       (* The element is started: the cache exists.              *)
  frameNo,       (* frame_no: frames of this session.                      *)
  entries,       (* entries_: result, last_infer and last_seen of an id.   *)
  meta,          (* The class meta of the frame that passed last.          *)
  excused        (* History: frames since an id's last inference in which  *)
                 (* it was absent or the classifier had no answer for it.  *)

vars == <<running, frameNo, entries, meta, excused>>

cached == DOMAIN entries
Entry == [class : Classes, infer : Nat, seen : Nat]

ClassEntries == [class : Labels, fresh : BOOLEAN]

TypeOK ==
  /\ running \in BOOLEAN
  /\ frameNo \in 0 .. MaxFrames
  /\ cached \subseteq Ids
  /\ entries \in [cached -> Entry]
  /\ DOMAIN meta \subseteq Ids \union {Untracked}
  /\ meta \in [DOMAIN meta -> ClassEntries]
  /\ excused \in [Ids -> Nat]

-----------------------------------------------------------------------------
(* SecondaryCache.                                                         *)

(* Mutant: an entry lives one frame longer.                                *)
KeptLonger(i) == i \in cached /\ frameNo - entries[i].seen <= MaxAge + 1

(* expire: the entries that outlive the beginning of the frame frameNo.    *)
Kept(i) == i \in cached /\ frameNo - entries[i].seen <= MaxAge

(* Mutant: due one frame late.                                             *)
DueLate(i) == frameNo - entries[i].infer > InferInterval

Due(i) == frameNo - entries[i].infer >= InferInterval

-----------------------------------------------------------------------------
(* The element.                                                            *)

Empty == [i \in {} |-> NoLabel]

Init ==
  /\ running = FALSE
  /\ frameNo = 0
  /\ entries = Empty
  /\ meta = Empty
  /\ excused = [i \in Ids |-> 0]

(* start() makes a new cache and counts the frames from 0 again.           *)
Start ==
  /\ ~running
  /\ running' = TRUE
  /\ frameNo' = 0
  /\ entries' = Empty
  /\ meta' = Empty
  /\ excused' = [i \in Ids |-> 0]

Stop ==
  /\ running
  /\ running' = FALSE
  /\ entries' = Empty
  /\ meta' = Empty
  /\ excused' = [i \in Ids |-> 0]
  /\ UNCHANGED frameNo

(* The objects of the frame that get a new answer: the classifier runs on  *)
(* those that are not cached and those whose answer is due.                *)
Inferred(frame) ==
  {i \in DOMAIN frame : /\ frame[i] # NoLabel
                        /\ i \in Ids => ~Kept(i) \/ Due(i)}

(* Mutant: only an answer marks a track as seen.                           *)
AfterUnseen(frame, i) ==
  IF i \in Inferred(frame)
    THEN [class |-> frame[i], infer |-> frameNo, seen |-> frameNo]
    ELSE entries[i]

(* The entry of id i after the frame: store puts a new one, lookup marks   *)
(* the one that is there as seen.                                          *)
After(frame, i) ==
  IF i \in Inferred(frame)
    THEN [class |-> frame[i], infer |-> frameNo, seen |-> frameNo]
    ELSE IF i \in DOMAIN frame THEN [entries[i] EXCEPT !.seen = frameNo]
    ELSE entries[i]

(* The classification of object i in the meta.                             *)
ClassEntry(frame, i) ==
  [class |-> IF i \in Inferred(frame) THEN frame[i]
             ELSE IF i \in Ids /\ Kept(i) THEN entries[i].class
             ELSE NoLabel,
   fresh |-> i \in Inferred(frame)]

(* A frame that shows the objects in DOMAIN frame: expire, and for each of *)
(* them lookup, then the classifier and store.                             *)
TransformIp(frame) ==
  /\ running
  /\ frameNo < MaxFrames
  /\ frameNo' = frameNo + 1
  /\ entries' = [i \in {k \in Ids : Kept(k) \/ k \in Inferred(frame)} |->
                   After(frame, i)]
  /\ meta' = [i \in DOMAIN frame |-> ClassEntry(frame, i)]
  /\ excused' = [i \in Ids |->
                   IF i \in Inferred(frame) THEN 0
                   ELSE IF i \notin DOMAIN entries' THEN 0
                   ELSE IF i \in DOMAIN frame /\ frame[i] # NoLabel THEN excused[i]
                   ELSE excused[i] + 1]
  /\ UNCHANGED running

(* A buffer whose surface cannot be mapped leaves after expire, whatever   *)
(* objects it carries: for the cache it is a frame that shows nothing.     *)
Frames == UNION {[S -> Labels] : S \in SUBSET (Ids \union {Untracked})}

Next ==
  \/ Start \/ Stop
  \/ \E frame \in Frames : TransformIp(frame)

Spec == Init /\ [][Next]_vars

-----------------------------------------------------------------------------
(***************************************************************************)
(* The subtractions of frame numbers in due and expire are of unsigned     *)
(* 64-bit numbers: none of them may go below 0, in no order of sightings,  *)
(* answers and failures, nor after a restart that counts from 0 again, and *)
(* no entry is older than max_track_age between frames.                    *)
(***************************************************************************)
AgesOrdered ==
  \A i \in cached : /\ entries[i].infer <= entries[i].seen
                    /\ entries[i].seen < frameNo
                    /\ frameNo - 1 - entries[i].seen <= MaxAge

(***************************************************************************)
(* An answer is never older than infer_interval frames, but for the frames *)
(* since it was given in which the track was absent or the classifier had  *)
(* no answer: a failure is retried on the very next frame, not after       *)
(* another interval.                                                       *)
(***************************************************************************)
FreshEnough ==
  \A i \in cached : frameNo - entries[i].infer <= InferInterval + excused[i]

Label(i) == IF i \in cached THEN entries[i].class ELSE NoLabel
Gap(i) == IF i \in cached THEN frameNo - 1 - entries[i].seen ELSE 0

(***************************************************************************)
(* What the class meta says of a tracked object is what the cache holds of *)
(* it after the frame, and fresh says that it is this frame's answer.      *)
(***************************************************************************)
MetaAgrees ==
  \A i \in Ids \intersect DOMAIN meta :
    /\ meta[i].class = Label(i)
    /\ meta[i].fresh <=> i \in cached /\ entries[i].infer + 1 = frameNo

(***************************************************************************)
(* "lookup() marks the track seen, so skipped or failed inference cannot   *)
(* expire it" (gstnvmmsecondaryinfer.cpp:362): the cache with its frame    *)
(* numbers is a memory in which only frames out of sight count.            *)
(***************************************************************************)
Memory == INSTANCE LabelMemory WITH
            Patience <- MaxAge,
            shown <- Ids \intersect DOMAIN meta,
            label <- [i \in Ids |-> Label(i)],
            gap   <- [i \in Ids |-> Gap(i)]

ImplementsMemory == Memory!Spec

=============================================================================
