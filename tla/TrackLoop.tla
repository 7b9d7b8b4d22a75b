----------------------------- MODULE TrackLoop -----------------------------
(***************************************************************************)
(* nvmmsamurai, a queue, nvmmfusekf and the nvmm-reseed event that goes    *)
(* back from the second to the first: the visual tracker is seeded from a  *)
(* region or a detection, follows its target with full inferences and      *)
(* Kalman steps in between, and is told to start again when the filter     *)
(* behind the queue has found it lost (gst/nvmmsamurai/gstnvmmsamurai.cpp, *)
(* samurai_tracker.cpp, gst/nvmmfusekf/gstnvmmfusekf.cpp).                 *)
(*                                                                         *)
(* A box is which target it is on and whether it is flat (no width or no   *)
(* height); one that is not flat is larger than kf-min-area.  The pixels,  *)
(* and with them the masks, scores and failures of the engines, are the    *)
(* environment's, and so is the detection that comes with a frame: one at  *)
(* most that both elements would use.                                      *)
(***************************************************************************)
EXTENDS Integers, Sequences

CONSTANTS
  Targets,      (* What there is to see.                                   *)
  NoTarget,     (* No detection that could be used.                        *)
  MaxKf,        (* max-kf.                                                 *)
  SeedDelay,    (* seed-delay.                                             *)
  Roi,          (* What seed-roi is on, or NoTarget without one.           *)
  MaxLost,      (* max-lost.                                               *)
  Cooldown,     (* reseed-cooldown.                                        *)
  QueueSize     (* Frames between the tracker and the filter.              *)

ASSUME TrackLoopAssumption ==
  /\ NoTarget \notin Targets
  /\ Roi \in Targets \union {NoTarget}
  /\ MaxKf \in Nat /\ SeedDelay \in Nat /\ MaxLost \in Nat /\ Cooldown \in Nat
  /\ QueueSize \in Nat \ {0}

Boxes == [on : Targets, flat : BOOLEAN]
NoBox == [on |-> NoTarget, flat |-> TRUE]
Whole(target) == [on |-> target, flat |-> FALSE]
Capped(n, bound) == IF n < bound THEN n ELSE bound

VARIABLES
  tracker,       (* seeded_, last, the filter's box and stable_frames > 0. *)
  frameNo,       (* frame_no, counted up to SeedDelay.                     *)
  kfCount,       (* kf_count.                                              *)
  roiArmed,      (* roi_armed.                                             *)
  reseedPending, (* reseed_pending, ...                                    *)
  reseedBox,     (* ... and what reseed_box is on, for it and for the roi. *)
  queue,         (* Buffers on their way to nvmmfusekf.                    *)
  initiated,     (* kf->initiated().                                       *)
  lost,          (* lost, counted up to MaxLost + 1.                       *)
  cooldown,      (* reseed_cooldown.                                       *)
  everValid,     (* ever_valid.                                            *)
  (* History: *)
  coasting,      (* Kalman steps since an inference was tried or a seed    *)
                 (* succeeded, counted up to 2 * MaxKf + 1;                *)
  unseen         (* full inferences in a row that found no mask, counted   *)
                 (* up to MaxLost + 1.                                     *)

trackerVars == <<tracker, frameNo, kfCount, roiArmed, coasting, unseen>>
fuseVars == <<initiated, lost, cooldown, everValid>>
vars == <<trackerVars, reseedPending, reseedBox, queue, fuseVars>>

Tracker == [seeded : BOOLEAN, last : Boxes \union {NoBox},
            kf : Boxes \union {NoBox}, stable : BOOLEAN]

(* What a buffer carries: no track meta, one whose box does not count, or  *)
(* one whose box does; a detection.  History: it was tracked before the    *)
(* last reseed was taken up; the tracker has long not seen its target.     *)
Metas == {"absent", "no", "yes"}
Buffers == [sam : Metas, det : Targets \union {NoTarget},
            old : BOOLEAN, gone : BOOLEAN]

TypeOK ==
  /\ tracker \in Tracker
  /\ frameNo \in 0 .. SeedDelay
  /\ kfCount \in 0 .. MaxKf
  /\ roiArmed \in BOOLEAN
  /\ reseedPending \in BOOLEAN
  /\ reseedBox \in Targets \union {NoTarget}
  /\ roiArmed \/ reseedPending => reseedBox \in Targets
  /\ queue \in Seq(Buffers) /\ Len(queue) <= QueueSize
  /\ initiated \in BOOLEAN
  /\ lost \in 0 .. MaxLost + 1
  /\ cooldown \in 0 .. Cooldown
  /\ everValid \in BOOLEAN
  /\ coasting \in 0 .. 2 * MaxKf + 1
  /\ unseen \in 0 .. MaxLost + 1

Unseeded == [seeded |-> FALSE, last |-> NoBox, kf |-> NoBox, stable |-> FALSE]

(* start() of both elements.                                               *)
Init ==
  /\ tracker = Unseeded
  /\ frameNo = 0
  /\ kfCount = 0
  /\ roiArmed = (Roi # NoTarget)
  /\ reseedPending = FALSE
  /\ reseedBox = Roi
  /\ queue = <<>>
  /\ initiated = FALSE
  /\ lost = 0
  /\ cooldown = 0
  /\ everValid = FALSE
  /\ coasting = 0
  /\ unseen = 0

-----------------------------------------------------------------------------
(* SamuraiTracker::seed, from a box on a target: it fails before anything  *)
(* has changed, or when the box is found but the memory cannot be encoded, *)
(* or it succeeds.  Without a mask the box is taken as it is, and the      *)
(* filter keeps what it has.                                               *)
SeedMasks(target) == [on : {target}, flat : BOOLEAN]

FailedSeeds(t, target) ==
  {t} \union {[t EXCEPT !.last = box] : box \in SeedMasks(target)}

GoodSeeds(t, target) ==
  {[seeded |-> TRUE, last |-> Whole(target), kf |-> t.kf, stable |-> TRUE]} \union
  [seeded : {TRUE}, last : SeedMasks(target), kf : SeedMasks(target), stable : {TRUE}]

Seeds(t, target) == FailedSeeds(t, target) \union GoodSeeds(t, target)

(* SamuraiTracker::track with kf_only: the filter predicts, and what it    *)
(* predicts may have shrunk to nothing; without a filter the box stays.    *)
Predictions(box) == [on : {box.on}, flat : {box.flat, TRUE}]

Coasts(t) ==
  IF t.kf = NoBox THEN {t}
  ELSE {[t EXCEPT !.kf = box, !.last = box] : box \in Predictions(t.kf)}

(* SamuraiTracker::track without: the filter is made anew from the mask,   *)
(* or predicts and is updated with it, or is declared unstable.            *)
Renewed(t, mask) ==
  IF mask = NoBox THEN t
  ELSE [t EXCEPT !.last = mask, !.kf = mask, !.stable = TRUE]

Unstable(t, mask, predicted) ==
  [t EXCEPT !.last = IF mask = NoBox THEN @ ELSE mask,
            !.kf = predicted, !.stable = FALSE]

Updated(t, mask, on) == [t EXCEPT !.last = mask, !.kf = Whole(on)]

Followed(t, mask) ==
  IF t.kf = NoBox \/ ~t.stable THEN {Renewed(t, mask)}
  ELSE {Unstable(t, mask, box) : box \in Predictions(t.kf)} \union
       (IF mask # NoBox /\ ~t.kf.flat
        THEN {Updated(t, mask, on) : on \in {mask.on, t.kf.on}} ELSE {})

-----------------------------------------------------------------------------
Meta(t) == IF t.seeded /\ ~t.last.flat THEN "yes" ELSE "no"

(* The tracker is done with a frame and pushes it.                         *)
Push(sam, det, old, gone) ==
  queue' = Append(queue, [sam |-> sam, det |-> det, old |-> old, gone |-> gone])

(* The frame's number is below seed-delay no more.                         *)
DelayOver == frameNo = SeedDelay
CountFrame == frameNo' = Capped(frameNo + 1, SeedDelay)

(* The three seeds a frame may bring, in this order; event says that the   *)
(* first one was made and succeeded.                                       *)
Reseeds(event) ==
  IF ~reseedPending THEN IF event THEN {} ELSE {tracker}
  ELSE IF event THEN GoodSeeds(tracker, reseedBox)
       ELSE FailedSeeds(tracker, reseedBox)

RoiDue(t) == roiArmed /\ ~t.seeded /\ DelayOver
RoiSeeds(t) == IF RoiDue(t) THEN Seeds(t, reseedBox) ELSE {t}

DetSeeds(t, det) ==
  IF ~t.seeded /\ DelayOver /\ det # NoTarget THEN Seeds(t, det) ELSE {t}

(* transform_ip from the seeds on, with the tracker t they left, kf_count  *)
(* at count and this many Kalman steps and empty inferences behind it: not *)
(* seeded, a Kalman step, an inference, or one that fails.                 *)
Wait(t, det, count, steps, empty) ==
  /\ ~t.seeded
  /\ tracker' = t
  /\ kfCount' = count
  /\ coasting' = steps /\ unseen' = empty
  /\ Push("no", det, FALSE, FALSE)

Coast(t, det, count, steps, empty) ==
  /\ t.seeded /\ count < MaxKf
  /\ tracker' \in Coasts(t)
  /\ kfCount' = count + 1
  /\ coasting' = Capped(steps + 1, 2 * MaxKf + 1)
  /\ unseen' = empty
  /\ Push(Meta(tracker'), det, FALSE, empty > MaxLost)

Infer(t, det, count, empty) ==
  /\ t.seeded /\ count >= MaxKf
  /\ kfCount' = 0
  /\ coasting' = 0
  /\ \/ \E mask \in Boxes \union {NoBox} :
          /\ tracker' \in Followed(t, mask)
          /\ unseen' = IF mask = NoBox THEN Capped(empty + 1, MaxLost + 1) ELSE 0
          /\ \/ Push(Meta(tracker'), det, FALSE, unseen' > MaxLost)
             \/ Push("absent", det, FALSE, FALSE)
     \/ tracker' = t /\ unseen' = empty /\ Push("absent", det, FALSE, FALSE)

(* nvmmsamurai gets a frame.                                               *)
Track(det) ==
  /\ Len(queue) < QueueSize
  /\ CountFrame
  /\ reseedPending' = FALSE
  /\ \E event \in BOOLEAN : \E first \in Reseeds(event) : \E second \in RoiSeeds(first) :
       \E t \in DetSeeds(second, det) :
         LET count == IF reseedPending THEN 0 ELSE kfCount
             steps == IF event THEN 0 ELSE coasting
             empty == IF event THEN 0 ELSE unseen
         IN /\ roiArmed' = (roiArmed /\ ~RoiDue(first))
            /\ \/ Wait(t, det, count, steps, empty)
               \/ Coast(t, det, count, steps, empty)
               \/ Infer(t, det, count, empty)
  /\ UNCHANGED <<reseedBox, fuseVars>>

(* ... or a buffer without a surface, and lets it pass.                    *)
NoSurface ==
  /\ Len(queue) < QueueSize
  /\ CountFrame
  /\ Push("absent", NoTarget, reseedPending, FALSE)
  /\ UNCHANGED <<tracker, kfCount, roiArmed, coasting, unseen,
                 reseedPending, reseedBox, fuseVars>>

-----------------------------------------------------------------------------
(* What nvmmfusekf makes of a buffer with a track meta.                    *)
LostAfter(buf) == IF buf.sam = "yes" THEN 0 ELSE Capped(lost + 1, MaxLost + 1)

(* Mutant of Cooled: it never counts down.                                 *)
CooledNever == cooldown

Cooled == IF cooldown > 0 THEN cooldown - 1 ELSE 0
Holds(buf) == (initiated \/ buf.sam = "yes") /\ LostAfter(buf) <= MaxLost

(* Mutants of Sends: with no regard for the cooldown; or although it never *)
(* had a track.                                                            *)
SendsHot(buf) ==
  /\ buf.sam # "absent"
  /\ everValid \/ Holds(buf)
  /\ LostAfter(buf) > MaxLost
  /\ buf.det # NoTarget

SendsEarly(buf) ==
  /\ buf.sam # "absent"
  /\ LostAfter(buf) > MaxLost
  /\ buf.det # NoTarget
  /\ Cooled = 0

(* It asks for a reseed.  nvmmsamurai's src_event runs in its thread.      *)
Sends(buf) ==
  /\ buf.sam # "absent"
  /\ everValid \/ Holds(buf)
  /\ LostAfter(buf) > MaxLost
  /\ buf.det # NoTarget
  /\ Cooled = 0

Aged(bufs) == [i \in DOMAIN bufs |-> [bufs[i] EXCEPT !.old = TRUE]]

Fuse ==
  /\ queue # <<>>
  /\ LET buf == Head(queue) IN
     /\ IF buf.sam = "absent" THEN UNCHANGED fuseVars
        ELSE /\ initiated' = (initiated \/ buf.sam = "yes")
             /\ lost' = LostAfter(buf)
             /\ everValid' = (everValid \/ Holds(buf))
             /\ cooldown' = IF Sends(buf) THEN Cooldown ELSE Cooled
     /\ IF Sends(buf)
        THEN /\ reseedBox' = buf.det
             /\ reseedPending' = TRUE
             /\ queue' = Aged(Tail(queue))
        ELSE /\ queue' = Tail(queue)
             /\ UNCHANGED <<reseedBox, reseedPending>>
  /\ UNCHANGED trackerVars

(* Stopped and started again.                                              *)
Restart ==
  /\ tracker' = Unseeded
  /\ frameNo' = 0
  /\ kfCount' = 0
  /\ roiArmed' = (Roi # NoTarget)
  /\ reseedPending' = FALSE
  /\ reseedBox' = Roi
  /\ queue' = <<>>
  /\ initiated' = FALSE
  /\ lost' = 0
  /\ cooldown' = 0
  /\ everValid' = FALSE
  /\ coasting' = 0
  /\ unseen' = 0

Next ==
  \/ \E det \in Targets \union {NoTarget} : Track(det)
  \/ NoSurface
  \/ Fuse
  \/ Restart

Spec == Init /\ [][Next]_vars

-----------------------------------------------------------------------------
(* Properties.                                                             *)

(* The region of seed-roi waits in the box that reseed events write        *)
(* (gstnvmmsamurai.cpp:202, :230): as long as it waits, nothing the two    *)
(* elements do to each other has replaced it or set an event before it.    *)
RoiIntact == roiArmed => reseedBox = Roi /\ ~reseedPending

(* reseed-cooldown outlasts the queue: nvmmfusekf never asks for a reseed  *)
(* because of a frame tracked before the last reseed it asked for was      *)
(* taken up, and never while one still waits, which it would replace.      *)
NoStaleReseed ==
  [][Fuse /\ Sends(Head(queue)) => ~Head(queue).old /\ ~reseedPending]_vars

(* A reseed puts the inference off (gstnvmmsamurai.cpp:224), but reseeds   *)
(* are so rare that there are at most twice max-kf Kalman steps from one   *)
(* inference that was tried, or one seed that succeeded, to the next.      *)
CadenceBounded == coasting <= 2 * MaxKf

(* The cooldown does not starve a lost track: as long as frames keep       *)
(* coming to nvmmfusekf with a detection, a loss ends or a reseed is asked *)
(* for.                                                                    *)
FusesDetection ==
  Fuse /\ Head(queue).sam # "absent" /\ Head(queue).det # NoTarget
Lost == everValid /\ lost > MaxLost
LossAnswered ==
  []<><<FusesDetection>>_vars => (Lost ~> (reseedPending \/ ~Lost))

(* docs/elements/nvmmfusekf.md:22, "after max-lost frames with no          *)
(* measurement the track is marked lost": a frame for which the tracker    *)
(* has found no mask in more than max-lost inferences in a row is lost.    *)
LossNoticed == [][Fuse /\ Head(queue).gone => lost' > MaxLost]_vars

=============================================================================
