------------------------------ MODULE Tracker ------------------------------
(***************************************************************************)
(* nvmmtracker: greedy per-class IOU matching of the detections of a frame *)
(* against the tracks of the frames before (gst/nvmmtracker/tracker.cpp)   *)
(* and the element that calls it (gst/nvmmtracker/gstnvmmtracker.cpp).     *)
(*                                                                         *)
(* Boxes have one size and move along a line, so a box is its left edge    *)
(* and the IOU of two boxes is a decreasing function of their distance:    *)
(* the length of their overlap stands for it.                              *)
(***************************************************************************)
EXTENDS Naturals, Sequences, FiniteSets, SequencesExt

CONSTANTS
  Places,      (* The left edges a box can have, integers.                 *)
  DetClasses,  (* Detector classes.                                        *)
  Width,       (* The width of every box.                                  *)
  MinOverlap,  (* The overlap at iou_threshold.                            *)
  MaxTrackAge, (* max_age.                                                 *)
  MaxId        (* Bound: tracks ever created.                              *)

Objects == [place : Places, class : DetClasses]

VARIABLES
  tracking,    (* start() has made a Tracker.                              *)
  tracks,      (* Tracker::tracks_, in creation order.                     *)
  nextId,      (* Tracker::next_id_.                                       *)
  objects,     (* The detections of the frame that passed last ...         *)
  trackerId,   (* ... and the tracker_id each was given.                   *)
  unseen       (* History: frames since the track last had a detection,    *)
               (* counted up to MaxTrackAge + 1.                           *)

trackerVars == <<tracking, tracks, nextId, objects, trackerId, unseen>>

TrackIds == {tracks[k].id : k \in DOMAIN tracks}

-----------------------------------------------------------------------------
(* Tracker::update.                                                        *)

Overlap(x, y) ==
  LET d == IF x < y THEN y - x ELSE x - y
  IN  IF d < Width THEN Width - d ELSE 0

(* Mutant: tracks taken by an earlier detection of the frame are offered   *)
(* again.                                                                  *)
CandidatesTwice(o, trks, matched) ==
  {k \in DOMAIN trks :
     trks[k].class = o.class /\ Overlap(o.place, trks[k].place) >= MinOverlap}

(* The tracks detection o may continue, given those already taken.         *)
Candidates(o, trks, matched) ==
  {k \in DOMAIN trks \ matched :
     trks[k].class = o.class /\ Overlap(o.place, trks[k].place) >= MinOverlap}

(* Greatest overlap; the last one among equals.                            *)
Better(o, trks, j, k) ==
  \/ Overlap(o.place, trks[j].place) > Overlap(o.place, trks[k].place)
  \/ /\ Overlap(o.place, trks[j].place) = Overlap(o.place, trks[k].place)
     /\ j > k

BestOf(o, trks, cands) ==
  CHOOSE k \in cands : \A j \in cands \ {k} : Better(o, trks, k, j)

(* One round of the loop over the detections: the best track is moved to   *)
(* the detection, or a new track is made, itself matched.                  *)
Associate(st, o) ==
  LET cands == Candidates(o, st.trks, st.matched)
      best  == BestOf(o, st.trks, cands)
      new   == [id |-> st.next, place |-> o.place, class |-> o.class, age |-> 0]
  IN  IF cands # {}
      THEN [trks    |-> [st.trks EXCEPT ![best].place = o.place, ![best].age = 0],
            matched |-> st.matched \union {best},
            next    |-> st.next,
            ids     |-> Append(st.ids, st.trks[best].id)]
      ELSE [trks    |-> Append(st.trks, new),
            matched |-> st.matched \union {Len(st.trks) + 1},
            next    |-> st.next + 1,
            ids     |-> Append(st.ids, st.next)]

Associated(objs) ==
  FoldLeft(Associate,
           [trks |-> tracks, matched |-> {}, next |-> nextId, ids |-> <<>>], objs)

(* Tracks without a detection age, and those older than max_age go.        *)
Aged(st) ==
  [k \in DOMAIN st.trks |->
     IF k \in st.matched THEN st.trks[k]
     ELSE [st.trks[k] EXCEPT !.age = @ + 1]]

(* Mutant: a track dies one frame early.                                   *)
SurvivingEarly(trks, t) == IF t.age < MaxTrackAge THEN Append(trks, t) ELSE trks

Surviving(trks, t) == IF t.age <= MaxTrackAge THEN Append(trks, t) ELSE trks

Survivors(trks) == FoldLeft(Surviving, <<>>, trks)

-----------------------------------------------------------------------------
(* The element: start() makes the Tracker, stop() deletes it.              *)

NobodySeen == [i \in 1 .. MaxId |-> 0]
OneMore(n) == IF n <= MaxTrackAge THEN n + 1 ELSE n

TrackerInit ==
  /\ tracking = FALSE
  /\ tracks = <<>>
  /\ nextId = 1
  /\ objects = <<>>
  /\ trackerId = <<>>
  /\ unseen = NobodySeen

StartTracker ==
  /\ ~tracking
  /\ tracking' = TRUE
  /\ nextId' = 1
  /\ unseen' = NobodySeen
  /\ UNCHANGED <<tracks, objects, trackerId>>

StopTracker ==
  /\ tracking
  /\ tracking' = FALSE
  /\ tracks' = <<>>
  /\ objects' = <<>>
  /\ trackerId' = <<>>
  /\ UNCHANGED <<nextId, unseen>>

(* A frame with detections.                                                *)
TrackFrame(objs) ==
  \E st \in {Associated(objs)} :
  /\ tracking
  /\ objs # <<>>
  /\ st.next <= MaxId + 1
  /\ tracks' = Survivors(Aged(st))
  /\ nextId' = st.next
  /\ objects' = objs
  /\ trackerId' = st.ids
  /\ unseen' = [i \in 1 .. MaxId |->
                  IF \E k \in DOMAIN st.ids : st.ids[k] = i THEN 0
                  ELSE IF i \in TrackIds THEN OneMore(unseen[i]) ELSE 0]
  /\ UNCHANGED tracking

(* A frame without detections, or without the meta: update is not called.  *)
TrackNothing ==
  /\ tracking
  /\ objects' = <<>>
  /\ trackerId' = <<>>
  /\ unseen' = [i \in 1 .. MaxId |-> IF i \in TrackIds THEN OneMore(unseen[i]) ELSE 0]
  /\ UNCHANGED <<tracking, tracks, nextId>>

-----------------------------------------------------------------------------
(***************************************************************************)
(* One id, one track, one detection: live tracks and the detections of a   *)
(* frame carry distinct ids, all handed out already, and every detection   *)
(* of the frame is now the position of the track it names (tracker.hpp:21: *)
(* "1-based, stable across frames").                                       *)
(***************************************************************************)
DistinctIds ==
  /\ \A j, k \in DOMAIN tracks : tracks[j].id = tracks[k].id => j = k
  /\ \A j, k \in DOMAIN trackerId : trackerId[j] = trackerId[k] => j = k
  /\ \A k \in DOMAIN tracks : tracks[k].id < nextId
  /\ \A k \in DOMAIN trackerId : \E j \in DOMAIN tracks :
       /\ tracks[j].id = trackerId[k]
       /\ tracks[j].place = objects[k].place
       /\ tracks[j].class = objects[k].class

(***************************************************************************)
(* In an unambiguous frame no identity is lost or swapped: a detection     *)
(* that overlaps one track of its class only, and no other detection of    *)
(* the frame overlaps that track, continues it, wherever it stands in the  *)
(* frame's list and however long, within max_age, the track was unseen.    *)
(***************************************************************************)
Overlaps(o, t) == t.class = o.class /\ Overlap(o.place, t.place) >= MinOverlap
OnlyMatch(objs, i, k) ==
  /\ Overlaps(objs[i], tracks[k])
  /\ \A j \in DOMAIN tracks \ {k} : ~Overlaps(objs[i], tracks[j])
  /\ \A j \in DOMAIN objs \ {i} : ~Overlaps(objs[j], tracks[k])

IdentityKept ==
  [][\A i \in DOMAIN objects', k \in DOMAIN tracks :
       OnlyMatch(objects', i, k) => trackerId'[i] = tracks[k].id]_objects

(***************************************************************************)
(* A track goes only after more than max_age frames without a detection of *)
(* its own, and ids are never handed out twice in a session.               *)
(***************************************************************************)
NoEarlyExpiry ==
  [][tracking /\ tracking' =>
       /\ nextId' >= nextId
       /\ \A i \in TrackIds \ TrackIds' : unseen'[i] > MaxTrackAge]_trackerVars

=============================================================================
