----------------------------- MODULE SamuraiBox -----------------------------
(***************************************************************************)
(* The box of SamuraiTracker, its Kalman filter and the camera motion that *)
(* is taken out of both (gst/nvmmsamurai/samurai_tracker.cpp).             *)
(*                                                                         *)
(* Every call of seed() or track() begins with apply_gmc, which compares a *)
(* patch of the picture with the patch kept of an earlier one and moves    *)
(* box and filter by the motion found between the two.  Pictures are       *)
(* numbered by the calls, and motion i is the camera's between the         *)
(* pictures i - 1 and i.  What box and filter know is a set of             *)
(* measurements: each tells the picture it was made on and how often it    *)
(* has been moved by each motion since.  Where the box comes from nothing  *)
(* measured (the prompt of a seed without a mask) the set is empty.        *)
(***************************************************************************)
EXTENDS Integers

CONSTANT MaxViews  (* Bound: calls of seed() and track() between two starts. *)

ASSUME SamuraiBoxAssumption == MaxViews \in Nat

VARIABLES
  tracking,    (* seeded_.                                                 *)
  patch,       (* The picture gmc_prev is of, 0: gmc_have_prev not set.    *)
  box,         (* last.                                                    *)
  filter,      (* kf, {} before it is initiated.                           *)
  stable,      (* stable_frames # 0.                                       *)
  (* History: *)
  view,        (* Calls made since start.                                  *)
  unseen,      (* The pictures of which no patch could be taken.           *)
  forgone      (* The motions found too small or too unsure to be applied. *)

boxVars == <<tracking, patch, box, filter, stable, view, unseen, forgone>>

Motions == 1 .. MaxViews

Measurements == [on : Motions, moved : [Motions -> Nat]]

BoxTypeOK ==
  /\ tracking \in BOOLEAN /\ stable \in BOOLEAN
  /\ view \in 0 .. MaxViews
  /\ patch \in 0 .. view
  /\ box \subseteq Measurements
  /\ filter \subseteq Measurements
  /\ unseen \subseteq 1 .. view
  /\ forgone \subseteq 1 .. patch

BoxInit ==
  /\ tracking = FALSE /\ stable = FALSE
  /\ patch = 0 /\ box = {} /\ filter = {}
  /\ view = 0 /\ unseen = {} /\ forgone = {}

(* start() of the element makes a new tracker.                             *)
NewBox ==
  /\ view > 0
  /\ tracking' = FALSE /\ stable' = FALSE
  /\ patch' = 0 /\ box' = {} /\ filter' = {}
  /\ view' = 0 /\ unseen' = {} /\ forgone' = {}

-----------------------------------------------------------------------------
(***************************************************************************)
(* apply_gmc, first in every call, has one of three outcomes: no patch of  *)
(* the new picture ("blind"), a patch but no motion to apply ("still": the *)
(* first one, or the motion is too small or unsure), or a motion applied   *)
(* ("moves").                                                              *)
(***************************************************************************)
GmcOutcomes == {"blind", "still", "moves"}

(* The motions between the patch kept and the new picture.                 *)
Between == patch + 1 .. view + 1

ApplyGmc(o) ==
  /\ view < MaxViews
  /\ o = "moves" => patch # 0
  /\ view' = view + 1
  /\ patch' = IF o = "blind" THEN patch ELSE view + 1
  /\ unseen' = IF o = "blind" THEN unseen \union {view + 1} ELSE unseen
  /\ forgone' = IF o = "still" THEN forgone \union Between ELSE forgone

Moved(m, motions) ==
  [on |-> m.on,
   moved |-> [i \in Motions |-> IF i \in motions THEN m.moved[i] + 1 ELSE m.moved[i]]]

Shifted(ms, o) == IF o = "moves" THEN {Moved(m, Between) : m \in ms} ELSE ms

ShiftedBox(o) == Shifted(box, o)

(* Mutant: kf.shift is forgotten.                                          *)
FilterStays(o) == filter

ShiftedFilter(o) == Shifted(filter, o)

(* A mask found in the picture of this call.                               *)
Here == {[on |-> view + 1, moved |-> [i \in Motions |-> 0]]}

-----------------------------------------------------------------------------
(* seed().  Without a mask in the picture the box is the prompt given.     *)

SeedPlaces(o, mask) ==
  /\ ApplyGmc(o)
  /\ tracking' = TRUE /\ stable' = TRUE
  /\ box' = IF mask THEN Here ELSE {}
  /\ filter' = IF mask THEN Here ELSE ShiftedFilter(o)

(* The memory encoder fails, with the box replaced already.                *)
SeedPlacesBox(o, mask) ==
  /\ ApplyGmc(o)
  /\ box' = IF mask THEN Here ELSE {}
  /\ filter' = ShiftedFilter(o)
  /\ UNCHANGED <<tracking, stable>>

(* An engine fails before the box is chosen, in seed() or in track().      *)
CallFails(o) ==
  /\ ApplyGmc(o)
  /\ box' = ShiftedBox(o) /\ filter' = ShiftedFilter(o)
  /\ UNCHANGED <<tracking, stable>>

-----------------------------------------------------------------------------
(* track().                                                                *)

(* kf_only: the filter's own box, whether it is right or not.              *)
KalmanStep(o) ==
  /\ tracking
  /\ ApplyGmc(o)
  /\ box' = IF filter = {} THEN ShiftedBox(o) ELSE ShiftedFilter(o)
  /\ filter' = ShiftedFilter(o)
  /\ UNCHANGED <<tracking, stable>>

(* A full inference.  The filter begins anew where it has not begun or its *)
(* last measurement was rejected.                                          *)
Begins == filter = {} \/ ~stable

TrackBegins(o) ==
  /\ tracking /\ Begins
  /\ ApplyGmc(o)
  /\ box' = Here /\ filter' = Here /\ stable' = TRUE
  /\ UNCHANGED tracking

TrackUpdates(o) ==
  /\ tracking /\ ~Begins
  /\ ApplyGmc(o)
  /\ box' = Here /\ filter' = ShiftedFilter(o) \union Here
  /\ UNCHANGED <<tracking, stable>>

(* A mask the model itself thinks bad, or a filter grown too small.        *)
TrackRejects(o) ==
  /\ tracking /\ ~Begins
  /\ ApplyGmc(o)
  /\ box' = Here /\ filter' = ShiftedFilter(o) /\ stable' = FALSE
  /\ UNCHANGED tracking

(* No mask where the one selected should be.                               *)
TrackMisses(o) ==
  /\ tracking
  /\ ApplyGmc(o)
  /\ box' = ShiftedBox(o) /\ filter' = ShiftedFilter(o)
  /\ stable' = (stable /\ Begins)
  /\ UNCHANGED tracking

BoxNext ==
  \/ NewBox
  \/ \E o \in GmcOutcomes :
       \/ \E mask \in BOOLEAN : SeedPlaces(o, mask) \/ SeedPlacesBox(o, mask)
       \/ CallFails(o) \/ KalmanStep(o)
       \/ TrackBegins(o) \/ TrackUpdates(o) \/ TrackRejects(o) \/ TrackMisses(o)

BoxSpec == BoxInit /\ [][BoxNext]_boxVars

-----------------------------------------------------------------------------
(***************************************************************************)
(* Every measurement in the box and in the filter has been moved exactly   *)
(* once by each motion of the camera between its picture and the patch     *)
(* kept last, and by no other, through failing seeds, Kalman steps that    *)
(* put the filter's box in the place of the last one and frames without a  *)
(* mask; but for the motions that apply_gmc found too small or unsure,     *)
(* which are never made up for since the patch moves on all the same       *)
(* (samurai_tracker.cpp:254-265), and not for a measurement on a picture   *)
(* that no patch was taken of, which the next comparison moves by motions  *)
(* from before it (:229-230).                                              *)
(***************************************************************************)
MotionsApplied ==
  \A m \in box \union filter : m.on \notin unseen =>
    \A i \in Motions :
      m.moved[i] = IF i \in (m.on + 1 .. patch) \ forgone THEN 1 ELSE 0
=============================================================================
