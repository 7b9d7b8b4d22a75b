------------------------------ MODULE Pipeline ------------------------------
(***************************************************************************)
(* nvmmtracker and nvmmsecondaryinfer one behind the other: things turn up *)
(* along a line in front of a detector that may miss any of them and a     *)
(* classifier that tells each thing from the others, or fails.             *)
(* nvmminfer passes frames by between inferences (InferInterval): to the   *)
(* tracker those are frames without detections.                            *)
(***************************************************************************)
EXTENDS SecondaryInfer, Tracker

ASSUME PipelineAssumption ==
  /\ MaxId \in Nat /\ Ids = 1 .. MaxId
  /\ IsFiniteSet(Classes)
  /\ Places \subseteq Nat
  /\ {Width, MaxTrackAge} \subseteq Nat
  /\ MinOverlap \in 1 .. Width

VARIABLES
  who,         (* History: whose the detections of the last frame are; the *)
               (* things are the classes.                                  *)
  trail,       (* History: what was detected where in each of the last     *)
               (* max_track_age frames.                                    *)
  apart        (* History: the things have kept their distance.            *)

pipeline == <<vars, trackerVars, who, trail, apart>>

Sightings == [thing : Classes, object : Objects]

(* What a frame can show: each thing once at most, in any order.           *)
Scenes == {scene \in UNION {[1 .. n -> Sightings] : n \in 0 .. Cardinality(Classes)} :
             \A j, k \in DOMAIN scene : scene[j].thing = scene[k].thing => j = k}

Seen(scene) == {scene[k] : k \in DOMAIN scene}
Before == UNION {trail[n] : n \in DOMAIN trail}

(* No thing is within reach of where another is, or was of late.           *)
Apart(scene) ==
  \A s \in Seen(scene), t \in Seen(scene) \union Before :
    s.thing # t.thing => Overlap(s.object.place, t.object.place) < MinOverlap

PipelineInit ==
  /\ Init
  /\ TrackerInit
  /\ who = <<>>
  /\ trail = <<>>
  /\ apart = TRUE

StartAll ==
  /\ Start
  /\ StartTracker
  /\ trail' = <<>>
  /\ apart' = TRUE
  /\ UNCHANGED who

StopAll ==
  /\ Stop
  /\ StopTracker
  /\ who' = <<>>
  /\ UNCHANGED <<trail, apart>>

(* What the classifier would say of the objects the tracker has named.     *)
Answers(scene, ids, unclear) ==
  [i \in {ids[k] : k \in DOMAIN ids} |->
     LET thing == scene[CHOOSE k \in DOMAIN ids : ids[k] = i].thing
     IN  IF thing \in unclear THEN NoLabel ELSE thing]

(* A frame goes through the tracker ...                                    *)
Pass(scene) ==
  /\ frameNo < MaxFrames
  /\ who' = [k \in DOMAIN scene |-> scene[k].thing]
  /\ trail' = IF Len(trail) < MaxAge THEN Append(trail, Seen(scene))
              ELSE Append(Tail(trail), Seen(scene))
  /\ apart' = (apart /\ Apart(scene))
  /\ IF scene = <<>>
       THEN TrackNothing
       ELSE TrackFrame([k \in DOMAIN scene |-> scene[k].object])

(* ... and on to the classifier, which fails on some of its objects, or    *)
(* cannot map the frame at all.                                            *)
Frame(scene) ==
  /\ Pass(scene)
  /\ \E frame \in {Empty} \union {Answers(scene, trackerId', unclear) :
                                  unclear \in SUBSET {s.thing : s \in Seen(scene)}} :
       TransformIp(frame)

PipelineNext ==
  \/ StartAll \/ StopAll
  \/ \E scene \in Scenes : Frame(scene)

PipelineSpec == PipelineInit /\ [][PipelineNext]_pipeline

-----------------------------------------------------------------------------
(***************************************************************************)
(* No thing is shown with the label of another unless it overlaps a place  *)
(* where that other was seen in the last max_track_age frames: frames      *)
(* without detections do not age the tracks (gstnvmmtracker.cpp:51), so a  *)
(* track long out of date can be continued by another thing, but the cache *)
(* counts every frame (gstnvmmsecondaryinfer.cpp:364) and has forgotten    *)
(* the label by then.                                                      *)
(***************************************************************************)
LabelsFollow ==
  apart =>
    \A k \in DOMAIN who :
      trackerId[k] \in DOMAIN meta => meta[trackerId[k]].class \in {NoLabel, who[k]}
=============================================================================
