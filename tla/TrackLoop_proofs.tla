-------------------------- MODULE TrackLoop_proofs --------------------------
(***************************************************************************)
(* The region that waits for nvmmsamurai's first seed is safe in the box   *)
(* it shares with reseed events; a long enough cooldown keeps the reseeds  *)
(* fresh and the inferences coming, and runs out while a track is lost.    *)
(* For every queue and every setting.                                      *)
(***************************************************************************)
EXTENDS TrackLoop, FiniteSets, FunctionTheorems, FiniteSetTheorems, TLAPS

-----------------------------------------------------------------------------
(* What seeding and tracking make of a tracker.                            *)

LEMMA PredictionType ==
  ASSUME NEW box \in Boxes, NEW predicted \in Predictions(box)
  PROVE  predicted \in Boxes
<1>1. box.on \in Targets /\ box.flat \in BOOLEAN
  BY DEF Boxes
<1>2. {box.on} \subseteq Targets /\ {box.flat, TRUE} \subseteq BOOLEAN
  BY <1>1, Zenon
<1> QED
  BY <1>2 DEF Predictions, Boxes

LEMMA SeedType ==
  ASSUME NEW t \in Tracker, NEW target \in Targets, NEW u \in Seeds(t, target)
  PROVE  u \in Tracker
<1>1. CASE u \in FailedSeeds(t, target)
  <2>1. CASE u = t
    BY <2>1
  <2>2. ASSUME NEW box \in SeedMasks(target), u = [t EXCEPT !.last = box]
        PROVE  u \in Tracker
    <3>1. box \in Boxes
      BY <2>2 DEF SeedMasks, Boxes
    <3> QED
      BY <2>2, <3>1 DEF Tracker
  <2> QED
    BY <1>1, <2>1, <2>2 DEF FailedSeeds
<1>2. CASE u = [seeded |-> TRUE, last |-> Whole(target), kf |-> t.kf, stable |-> TRUE]
  <2>1. Whole(target) \in Boxes
    BY DEF Whole, Boxes
  <2> QED
    BY <1>2, <2>1 DEF Tracker
<1>3. CASE u \in [seeded : {TRUE}, last : SeedMasks(target),
                  kf : SeedMasks(target), stable : {TRUE}]
  <2>1. SeedMasks(target) \subseteq Boxes \union {NoBox}
    <3>1. SeedMasks(target) \subseteq Boxes
      BY DEF SeedMasks, Boxes
    <3> QED
      BY <3>1
  <2> QED
    BY <1>3, <2>1 DEF Tracker
<1> QED
  BY <1>1, <1>2, <1>3 DEF Seeds, GoodSeeds

LEMMA CoastType ==
  ASSUME NEW t \in Tracker, NEW u \in Coasts(t)
  PROVE  u \in Tracker
<1>1. CASE t.kf = NoBox
  BY <1>1 DEF Coasts
<1>2. CASE t.kf # NoBox
  <2>1. t.kf \in Boxes
    BY <1>2 DEF Tracker
  <2>2. PICK box \in Predictions(t.kf) : u = [t EXCEPT !.kf = box, !.last = box]
    BY <1>2 DEF Coasts
  <2>3. box \in Boxes
    BY <2>1, PredictionType
  <2> QED
    BY <2>2, <2>3 DEF Tracker
<1> QED
  BY <1>1, <1>2

LEMMA FollowType ==
  ASSUME NEW t \in Tracker, NEW mask \in Boxes \union {NoBox}, NEW u \in Followed(t, mask)
  PROVE  u \in Tracker
<1>1. CASE u = Renewed(t, mask)
  BY <1>1 DEF Renewed, Tracker
<1>2. CASE t.kf # NoBox
  <2>1. t.kf \in Boxes
    BY <1>2 DEF Tracker
  <2>2. ASSUME NEW box \in Predictions(t.kf), u = Unstable(t, mask, box)
        PROVE  u \in Tracker
    <3>1. box \in Boxes
      BY <2>1, PredictionType
    <3> QED
      BY <2>2, <3>1 DEF Unstable, Tracker
  <2>3. ASSUME mask # NoBox, NEW on \in {mask.on, t.kf.on}, u = Updated(t, mask, on)
        PROVE  u \in Tracker
    <3>1. Whole(on) \in Boxes
      BY <2>1, <2>3 DEF Whole, Boxes
    <3> QED
      BY <2>3, <3>1 DEF Updated, Tracker
  <2> QED
    BY <1>1, <2>2, <2>3 DEF Followed
<1> QED
  BY <1>1, <1>2 DEF Followed

LEMMA RoiSeedType ==
  ASSUME NEW t \in Tracker, roiArmed => reseedBox \in Targets, NEW u \in RoiSeeds(t)
  PROVE  u \in Tracker
BY SeedType DEF RoiSeeds, RoiDue

LEMMA DetSeedType ==
  ASSUME NEW t \in Tracker, NEW det \in Targets \union {NoTarget}, NEW u \in DetSeeds(t, det)
  PROVE  u \in Tracker
BY SeedType DEF DetSeeds

LEMMA ReseedType ==
  ASSUME TypeOK, NEW event \in BOOLEAN, NEW u \in Reseeds(event)
  PROVE  u \in Tracker /\ (event => reseedPending)
<1>1. CASE ~reseedPending
  BY <1>1 DEF Reseeds, TypeOK
<1>2. CASE reseedPending
  <2>1. reseedBox \in Targets
    BY <1>2 DEF TypeOK
  <2>2. u \in Seeds(tracker, reseedBox)
    BY <1>2 DEF Reseeds, Seeds
  <2> QED
    BY <1>2, <2>1, <2>2, SeedType DEF TypeOK
<1> QED
  BY <1>1, <1>2

-----------------------------------------------------------------------------
(* Every variable keeps its type.                                          *)

LEMMA CappedType ==
  ASSUME NEW bound \in Nat, NEW n \in 0 .. bound
  PROVE  n \in Nat /\ Capped(n + 1, bound) \in 0 .. bound
BY DEF Capped

LEMMA PushType ==
  ASSUME queue \in Seq(Buffers), Len(queue) < QueueSize, QueueSize \in Nat,
         NEW sam \in Metas, NEW det \in Targets \union {NoTarget},
         NEW old \in BOOLEAN, NEW gone \in BOOLEAN, Push(sam, det, old, gone)
  PROVE  queue' \in Seq(Buffers) /\ Len(queue') <= QueueSize
<1> DEFINE buf == [sam |-> sam, det |-> det, old |-> old, gone |-> gone]
<1>1. buf \in Buffers
  BY DEF Buffers
<1>2. queue' = Append(queue, buf)
  BY DEF Push
<1> HIDE DEF buf
<1> QED
  BY <1>1, <1>2

(* What the last steps of transform_ip work on.                            *)
Ready(t, det, count, steps, empty) ==
  /\ t \in Tracker
  /\ det \in Targets \union {NoTarget}
  /\ count \in 0 .. MaxKf
  /\ steps \in 0 .. 2 * MaxKf + 1
  /\ empty \in 0 .. MaxLost + 1
  /\ queue \in Seq(Buffers)
  /\ Len(queue) < QueueSize

(* ... and what they leave.                                                *)
Tracked ==
  /\ tracker' \in Tracker
  /\ kfCount' \in 0 .. MaxKf
  /\ coasting' \in 0 .. 2 * MaxKf + 1
  /\ unseen' \in 0 .. MaxLost + 1
  /\ queue' \in Seq(Buffers)
  /\ Len(queue') <= QueueSize

LEMMA MetaType == ASSUME NEW t PROVE Meta(t) \in Metas /\ "absent" \in Metas /\ "no" \in Metas
BY DEF Meta, Metas

LEMMA WaitType ==
  ASSUME NEW t, NEW det, NEW count, NEW steps, NEW empty,
         Ready(t, det, count, steps, empty), Wait(t, det, count, steps, empty)
  PROVE  Tracked
<1>1. queue' \in Seq(Buffers) /\ Len(queue') <= QueueSize
  BY PushType, MetaType, TrackLoopAssumption DEF Ready, Wait
<1> QED
  BY <1>1 DEF Ready, Wait, Tracked

LEMMA CoastStepType ==
  ASSUME NEW t, NEW det, NEW count, NEW steps, NEW empty,
         Ready(t, det, count, steps, empty), Coast(t, det, count, steps, empty)
  PROVE  Tracked
<1>1. (empty > MaxLost) \in BOOLEAN
  OBVIOUS
<1>2. queue' \in Seq(Buffers) /\ Len(queue') <= QueueSize
  BY <1>1, PushType, MetaType, TrackLoopAssumption DEF Ready, Coast
<1>3. tracker' \in Tracker
  BY CoastType DEF Ready, Coast
<1>4. kfCount' \in 0 .. MaxKf
  BY TrackLoopAssumption DEF Ready, Coast
<1>5. coasting' \in 0 .. 2 * MaxKf + 1
  BY CappedType, TrackLoopAssumption DEF Ready, Coast
<1> QED
  BY <1>2, <1>3, <1>4, <1>5 DEF Ready, Coast, Tracked

LEMMA InferType ==
  ASSUME NEW t, NEW det, NEW count, NEW steps, NEW empty,
         Ready(t, det, count, steps, empty), Infer(t, det, count, empty)
  PROVE  Tracked
<1>1. kfCount' \in 0 .. MaxKf /\ coasting' \in 0 .. 2 * MaxKf + 1
  BY TrackLoopAssumption DEF Infer
<1>2. CASE tracker' = t /\ unseen' = empty /\ Push("absent", det, FALSE, FALSE)
  <2>1. queue' \in Seq(Buffers) /\ Len(queue') <= QueueSize
    BY <1>2, PushType, MetaType, TrackLoopAssumption DEF Ready
  <2> QED
    BY <1>1, <1>2, <2>1 DEF Ready, Tracked
<1>3. ASSUME NEW mask \in Boxes \union {NoBox},
             tracker' \in Followed(t, mask),
             unseen' = IF mask = NoBox THEN Capped(empty + 1, MaxLost + 1) ELSE 0,
             Push(Meta(tracker'), det, FALSE, unseen' > MaxLost)
               \/ Push("absent", det, FALSE, FALSE)
      PROVE  Tracked
  <2>1. tracker' \in Tracker
    BY <1>3, FollowType DEF Ready
  <2>2. unseen' \in 0 .. MaxLost + 1
    BY <1>3, CappedType, TrackLoopAssumption DEF Ready
  <2>3. (unseen' > MaxLost) \in BOOLEAN
    OBVIOUS
  <2>4. queue' \in Seq(Buffers) /\ Len(queue') <= QueueSize
    BY <1>3, <2>3, PushType, MetaType, TrackLoopAssumption DEF Ready
  <2> QED
    BY <1>1, <2>1, <2>2, <2>4 DEF Tracked
<1> QED
  BY <1>2, <1>3 DEF Infer

LEMMA TrackType ==
  ASSUME TypeOK, NEW det \in Targets \union {NoTarget}, Track(det)
  PROVE  TypeOK'
<1>0. PICK event \in BOOLEAN : \E first \in Reseeds(event) :
        \E second \in RoiSeeds(first) : \E t \in DetSeeds(second, det) :
          LET count == IF reseedPending THEN 0 ELSE kfCount
              steps == IF event THEN 0 ELSE coasting
              empty == IF event THEN 0 ELSE unseen
          IN /\ roiArmed' = (roiArmed /\ ~RoiDue(first))
             /\ \/ Wait(t, det, count, steps, empty)
                \/ Coast(t, det, count, steps, empty)
                \/ Infer(t, det, count, empty)
  BY DEF Track
<1>1. PICK first \in Reseeds(event) :
        \E second \in RoiSeeds(first) : \E t \in DetSeeds(second, det) :
          LET count == IF reseedPending THEN 0 ELSE kfCount
              steps == IF event THEN 0 ELSE coasting
              empty == IF event THEN 0 ELSE unseen
          IN /\ roiArmed' = (roiArmed /\ ~RoiDue(first))
             /\ \/ Wait(t, det, count, steps, empty)
                \/ Coast(t, det, count, steps, empty)
                \/ Infer(t, det, count, empty)
  BY <1>0
<1> DEFINE count == IF reseedPending THEN 0 ELSE kfCount
           steps == IF event THEN 0 ELSE coasting
           empty == IF event THEN 0 ELSE unseen
<1> DEFINE Ends(t) ==
             /\ roiArmed' = (roiArmed /\ ~RoiDue(first))
             /\ \/ Wait(t, det, count, steps, empty)
                \/ Coast(t, det, count, steps, empty)
                \/ Infer(t, det, count, empty)
<1>2. PICK second \in RoiSeeds(first) : \E t \in DetSeeds(second, det) : Ends(t)
  BY <1>1
<1>12. PICK t \in DetSeeds(second, det) : Ends(t)
  BY <1>2
<1>3. first \in Tracker /\ (event => reseedPending)
  BY ReseedType
<1>4. second \in Tracker
  BY <1>3, RoiSeedType DEF TypeOK
<1>5. t \in Tracker
  BY <1>4, DetSeedType
<1>6. Ready(t, det, count, steps, empty)
  BY <1>5, TrackLoopAssumption DEF Ready, Track, TypeOK
<1> HIDE DEF count, steps, empty
<1>7. Tracked
  BY <1>12, <1>6, WaitType, CoastStepType, InferType
<1>8. frameNo' \in 0 .. SeedDelay
  BY CappedType, TrackLoopAssumption DEF Track, CountFrame, TypeOK
<1>9. roiArmed' \in BOOLEAN /\ (roiArmed' => roiArmed)
  BY <1>12
<1>11. UNCHANGED <<reseedBox, initiated, lost, cooldown, everValid>> 
  BY DEF Track, fuseVars
<1>13. reseedPending' = FALSE
  BY DEF Track
<1>14. reseedPending' \in BOOLEAN /\ initiated' \in BOOLEAN /\ everValid' \in BOOLEAN
  BY <1>11, <1>13, Zenon DEF TypeOK
<1>15. roiArmed' \/ reseedPending' => reseedBox' \in Targets
  BY <1>9, <1>11, <1>13 DEF TypeOK
<1> QED
  BY <1>7, <1>8, <1>9, <1>11, <1>14, <1>15 DEF TypeOK, Tracked

LEMMA NoSurfaceType ==
  ASSUME TypeOK, NoSurface
  PROVE  TypeOK'
<1>1. queue' \in Seq(Buffers) /\ Len(queue') <= QueueSize
  BY PushType, MetaType, TrackLoopAssumption DEF NoSurface, TypeOK
<1>2. frameNo' \in 0 .. SeedDelay
  BY CappedType, TrackLoopAssumption DEF NoSurface, CountFrame, TypeOK
<1> QED
  BY <1>1, <1>2 DEF NoSurface, TypeOK, fuseVars

LEMMA AgedType ==
  ASSUME NEW bufs \in Seq(Buffers)
  PROVE  /\ Aged(bufs) \in Seq(Buffers)
         /\ Len(Aged(bufs)) = Len(bufs)
         /\ \A i \in DOMAIN bufs : Aged(bufs)[i].sam = bufs[i].sam
<1>1. ASSUME NEW i \in DOMAIN bufs
      PROVE  [bufs[i] EXCEPT !.old = TRUE] \in Buffers
  <2>1. bufs[i] \in Buffers
    OBVIOUS
  <2> QED
    BY <2>1 DEF Buffers
<1>2. DOMAIN bufs = 1 .. Len(bufs)
  OBVIOUS
<1>3. Aged(bufs) \in [1 .. Len(bufs) -> Buffers]
  BY <1>1, <1>2 DEF Aged
<1>4. Aged(bufs) \in Seq(Buffers)
  BY <1>3
<1> QED
  BY <1>2, <1>3, <1>4 DEF Aged, Buffers

LEMMA FuseType ==
  ASSUME TypeOK, Fuse
  PROVE  TypeOK'
<1> DEFINE buf == Head(queue)
<1>1. buf \in Buffers /\ Tail(queue) \in Seq(Buffers) /\ Len(Tail(queue)) <= QueueSize
  BY TrackLoopAssumption DEF Fuse, TypeOK
<1>2. LostAfter(buf) \in 0 .. MaxLost + 1
  BY CappedType, TrackLoopAssumption DEF LostAfter, TypeOK
<1>3. Cooled \in 0 .. Cooldown
  BY TrackLoopAssumption DEF Cooled, TypeOK
<1>4. Cooldown \in 0 .. Cooldown
  BY TrackLoopAssumption
<1>5. lost' \in 0 .. MaxLost + 1 /\ cooldown' \in 0 .. Cooldown
  BY <1>2, <1>3, <1>4 DEF Fuse, TypeOK, fuseVars
<1>6. Holds(buf) \in BOOLEAN /\ (buf.sam = "yes") \in BOOLEAN
  BY DEF Holds
<1>7. initiated' \in BOOLEAN /\ everValid' \in BOOLEAN
  BY <1>6, Zenon DEF Fuse, TypeOK, fuseVars
<1>8. queue' \in Seq(Buffers) /\ Len(queue') <= QueueSize
  BY <1>1, AgedType DEF Fuse
<1>9. Sends(buf) => buf.det \in Targets
  BY <1>1 DEF Sends, Buffers
<1>10. /\ reseedPending' \in BOOLEAN
       /\ reseedBox' \in Targets \union {NoTarget}
       /\ roiArmed' \/ reseedPending' => reseedBox' \in Targets
  BY <1>9 DEF Fuse, TypeOK, trackerVars
<1> QED
  BY <1>5, <1>7, <1>8, <1>10 DEF Fuse, TypeOK, trackerVars

LEMMA UnseededType == Unseeded \in Tracker
BY DEF Unseeded, Tracker

LEMMA InitType == Init => TypeOK
<1> SUFFICES ASSUME Init PROVE TypeOK
  OBVIOUS
<1>1. queue \in Seq(Buffers) /\ Len(queue) <= QueueSize
  BY TrackLoopAssumption DEF Init
<1>2. roiArmed \in BOOLEAN /\ (roiArmed \/ reseedPending => reseedBox \in Targets)
  BY TrackLoopAssumption DEF Init
<1>3. reseedPending \in BOOLEAN /\ initiated \in BOOLEAN /\ everValid \in BOOLEAN
  BY Zenon DEF Init
<1>4. /\ frameNo \in 0 .. SeedDelay
      /\ kfCount \in 0 .. MaxKf
      /\ lost \in 0 .. MaxLost + 1
      /\ cooldown \in 0 .. Cooldown
      /\ coasting \in 0 .. 2 * MaxKf + 1
      /\ unseen \in 0 .. MaxLost + 1
  BY TrackLoopAssumption DEF Init
<1>5. tracker \in Tracker
  BY UnseededType DEF Init
<1>6. reseedBox \in Targets \union {NoTarget}
  BY TrackLoopAssumption DEF Init
<1> QED
  BY <1>1, <1>2, <1>3, <1>4, <1>5, <1>6 DEF TypeOK

LEMMA RestartType == Restart => TypeOK'
<1> SUFFICES ASSUME Restart PROVE TypeOK'
  OBVIOUS
<1>1. queue' \in Seq(Buffers) /\ Len(queue') <= QueueSize
  BY TrackLoopAssumption DEF Restart
<1>2. roiArmed' \in BOOLEAN /\ (roiArmed' \/ reseedPending' => reseedBox' \in Targets)
  BY TrackLoopAssumption DEF Restart
<1>3. reseedPending' \in BOOLEAN /\ initiated' \in BOOLEAN /\ everValid' \in BOOLEAN
  BY Zenon DEF Restart
<1>4. /\ frameNo' \in 0 .. SeedDelay
      /\ kfCount' \in 0 .. MaxKf
      /\ lost' \in 0 .. MaxLost + 1
      /\ cooldown' \in 0 .. Cooldown
      /\ coasting' \in 0 .. 2 * MaxKf + 1
      /\ unseen' \in 0 .. MaxLost + 1
  BY TrackLoopAssumption DEF Restart
<1>5. tracker' \in Tracker
  BY UnseededType DEF Restart
<1>6. reseedBox' \in Targets \union {NoTarget}
  BY TrackLoopAssumption DEF Restart
<1> QED
  BY <1>1, <1>2, <1>3, <1>4, <1>5, <1>6 DEF TypeOK

(* Type correctness of both elements and the queue between them.           *)
THEOREM TypeCorrect == Spec => []TypeOK
<1>1. TypeOK /\ [Next]_vars => TypeOK'
  <2> SUFFICES ASSUME TypeOK, [Next]_vars PROVE TypeOK'
    OBVIOUS
  <2>1. CASE UNCHANGED vars
    BY <2>1 DEF vars, trackerVars, fuseVars, TypeOK
  <2> QED
    BY <2>1, TrackType, NoSurfaceType, FuseType, RestartType DEF Next
<1> QED
  BY <1>1, InitType, PTL DEF Spec

-----------------------------------------------------------------------------
(* As long as the region waits nobody has seen a target: the tracker has   *)
(* no seed, no buffer a box, and nvmmfusekf has never had a track, without *)
(* which it asks for no reseed.                                            *)
NothingSeen ==
  /\ reseedBox = Roi
  /\ ~reseedPending
  /\ ~tracker.seeded
  /\ \A i \in DOMAIN queue : queue[i].sam # "yes"
  /\ ~initiated
  /\ ~everValid

IInv == TypeOK /\ (roiArmed => NothingSeen)

LEMMA TrackKeeps ==
  ASSUME IInv, NEW det \in Targets \union {NoTarget}, Track(det), roiArmed'
  PROVE  NothingSeen'
<1>0. PICK event \in BOOLEAN : \E first \in Reseeds(event) :
        \E second \in RoiSeeds(first) : \E t \in DetSeeds(second, det) :
          /\ roiArmed' = (roiArmed /\ ~RoiDue(first))
          /\ \E count, steps, empty :
               \/ Wait(t, det, count, steps, empty)
               \/ Coast(t, det, count, steps, empty)
               \/ Infer(t, det, count, empty)
  BY DEF Track
<1>1. PICK first \in Reseeds(event) :
        \E second \in RoiSeeds(first) : \E t \in DetSeeds(second, det) :
          /\ roiArmed' = (roiArmed /\ ~RoiDue(first))
          /\ \E count, steps, empty :
               \/ Wait(t, det, count, steps, empty)
               \/ Coast(t, det, count, steps, empty)
               \/ Infer(t, det, count, empty)
  BY <1>0
<1> DEFINE Ends(t) ==
             /\ roiArmed' = (roiArmed /\ ~RoiDue(first))
             /\ \E count, steps, empty :
                  \/ Wait(t, det, count, steps, empty)
                  \/ Coast(t, det, count, steps, empty)
                  \/ Infer(t, det, count, empty)
<1>2. PICK second \in RoiSeeds(first) : \E t \in DetSeeds(second, det) : Ends(t)
  BY <1>1
<1>12. PICK t \in DetSeeds(second, det) : Ends(t)
  BY <1>2
<1>3. NothingSeen /\ ~RoiDue(first) /\ roiArmed
  BY <1>12 DEF IInv
<1>4. first = tracker
  BY <1>3 DEF NothingSeen, Reseeds
<1>5. ~DelayOver
  BY <1>3, <1>4 DEF NothingSeen, RoiDue
<1>6. t = tracker
  BY <1>3, <1>4, <1>5 DEF RoiSeeds, DetSeeds
<1>7. tracker' = tracker /\ Push("no", det, FALSE, FALSE)
  BY <1>12, <1>3, <1>6 DEF NothingSeen, Wait, Coast, Infer
<1>8. \A i \in DOMAIN queue' : queue'[i].sam # "yes"
  BY <1>3, <1>7 DEF Push, NothingSeen, IInv, TypeOK
<1> QED
  BY <1>3, <1>7, <1>8 DEF Track, NothingSeen, fuseVars

LEMMA NoSurfaceKeeps ==
  ASSUME IInv, NoSurface, roiArmed'
  PROVE  NothingSeen'
<1>1. NothingSeen
  BY DEF IInv, NoSurface
<1>2. \A i \in DOMAIN queue' : queue'[i].sam # "yes"
  BY <1>1 DEF NoSurface, Push, NothingSeen, IInv, TypeOK
<1> QED
  BY <1>1, <1>2 DEF NoSurface, NothingSeen, fuseVars

LEMMA FuseKeeps ==
  ASSUME IInv, Fuse, roiArmed'
  PROVE  NothingSeen'
<1>1. NothingSeen
  BY DEF IInv, Fuse, trackerVars
<1>2. Head(queue).sam # "yes"
  BY <1>1 DEF Fuse, NothingSeen, IInv, TypeOK
<1>3. ~Holds(Head(queue))
  BY <1>1, <1>2 DEF Holds, NothingSeen
<1>4. ~Sends(Head(queue))
  BY <1>1, <1>3 DEF Sends, NothingSeen
<1>5. queue' = Tail(queue) /\ UNCHANGED <<reseedBox, reseedPending>>
  BY <1>4 DEF Fuse
<1>6. \A i \in DOMAIN queue' : queue'[i].sam # "yes"
  BY <1>1, <1>5 DEF Fuse, NothingSeen, IInv, TypeOK
<1>7. ~initiated' /\ ~everValid'
  BY <1>1, <1>2, <1>3 DEF Fuse, NothingSeen, fuseVars
<1> QED
  BY <1>1, <1>5, <1>6, <1>7 DEF Fuse, NothingSeen, trackerVars

(* The waiting region of seed-roi is never replaced by a reseed event,     *)
(* whatever the sizes, delays and detections.                              *)
THEOREM RoiSafe == Spec => []RoiIntact
<1>1. Init => IInv
  BY InitType DEF Init, IInv, NothingSeen, Unseeded
<1>2. IInv /\ [Next]_vars => IInv'
  <2> SUFFICES ASSUME IInv, [Next]_vars PROVE IInv'
    OBVIOUS
  <2>1. TypeOK'
    <3>1. CASE UNCHANGED vars
      BY <3>1 DEF IInv, vars, trackerVars, fuseVars, TypeOK
    <3> QED
      BY <3>1, TrackType, NoSurfaceType, FuseType, RestartType DEF IInv, Next
  <2>2. roiArmed' => NothingSeen'
    <3>1. CASE UNCHANGED vars
      BY <3>1 DEF IInv, vars, trackerVars, fuseVars, NothingSeen
    <3>2. CASE Restart
      BY <3>2 DEF Restart, NothingSeen, Unseeded
    <3> QED
      BY <3>1, <3>2, TrackKeeps, NoSurfaceKeeps, FuseKeeps DEF Next
  <2> QED
    BY <2>1, <2>2 DEF IInv
<1>3. IInv => RoiIntact
  BY DEF IInv, NothingSeen, RoiIntact
<1> QED
  BY <1>1, <1>2, <1>3, PTL DEF Spec

-----------------------------------------------------------------------------
(***************************************************************************)
(* What the cooldown of nvmmfusekf is worth, for every queue between it    *)
(* and nvmmsamurai: if it is at least as long as the queue no reseed is    *)
(* asked for because of an outdated frame, and if it is max-kf longer the  *)
(* inferences that reseeds put off are never far apart.                    *)
(***************************************************************************)

(* What the tracker pushes is not outdated when it is pushed.              *)
Pushes(det) ==
  \E buf \in Buffers : queue' = Append(queue, buf) /\ buf.det = det /\ ~buf.old

LEMMA PushPushes ==
  ASSUME NEW sam \in Metas, NEW det \in Targets \union {NoTarget},
         NEW gone \in BOOLEAN, Push(sam, det, FALSE, gone)
  PROVE  Pushes(det)
<1> DEFINE buf == [sam |-> sam, det |-> det, old |-> FALSE, gone |-> gone]
<1>1. buf \in Buffers /\ buf.det = det /\ ~buf.old
  BY DEF Buffers
<1>2. queue' = Append(queue, buf)
  BY DEF Push
<1> HIDE DEF buf
<1> QED
  BY <1>1, <1>2 DEF Pushes

(* A frame that nvmmsamurai gets, as the seeds and one of three ends.      *)
Ended(event, t, det) ==
  LET count == IF reseedPending THEN 0 ELSE kfCount
      steps == IF event THEN 0 ELSE coasting
      empty == IF event THEN 0 ELSE unseen
  IN \/ Wait(t, det, count, steps, empty)
     \/ Coast(t, det, count, steps, empty)
     \/ Infer(t, det, count, empty)

LEMMA GoodSeedsSeed ==
  ASSUME NEW t, NEW target, NEW u \in GoodSeeds(t, target)
  PROVE  u.seeded
<1>1. CASE u = [seeded |-> TRUE, last |-> Whole(target), kf |-> t.kf, stable |-> TRUE]
  BY <1>1
<1>2. CASE u \in [seeded : {TRUE}, last : SeedMasks(target),
                  kf : SeedMasks(target), stable : {TRUE}]
  <2>1. u.seeded = TRUE
    BY <1>2
  <2> QED
    BY <2>1
<1> QED
  BY <1>1, <1>2 DEF GoodSeeds

LEMMA SeedsKeepSeeded ==
  ASSUME NEW t \in Tracker, NEW target, NEW u \in Seeds(t, target)
  PROVE  t.seeded => u.seeded
<1>1. CASE u \in GoodSeeds(t, target)
  BY <1>1, GoodSeedsSeed
<1>2. CASE u \in FailedSeeds(t, target)
  <2>1. u = t \/ \E box : u = [t EXCEPT !.last = box]
    BY <1>2 DEF FailedSeeds
  <2>2. \A box : [t EXCEPT !.last = box].seeded = t.seeded
    BY DEF Tracker
  <2> QED
    BY <2>1, <2>2
<1> QED
  BY <1>1, <1>2 DEF Seeds

(* No step before the last takes a seed away, and an event that succeeds   *)
(* leaves one.                                                             *)
LEMMA TrackEnds ==
  ASSUME TypeOK, NEW det \in Targets \union {NoTarget}, Track(det)
  PROVE  \E event \in BOOLEAN, t \in Tracker :
           /\ Ended(event, t, det)
           /\ event => reseedPending
           /\ ~t.seeded => ~tracker.seeded /\ ~event
<1>1. PICK event \in BOOLEAN : \E first \in Reseeds(event) :
        \E second \in RoiSeeds(first) : \E t \in DetSeeds(second, det) :
          Ended(event, t, det)
  BY DEF Track, Ended
<1>2. PICK first \in Reseeds(event) :
        \E second \in RoiSeeds(first) : \E t \in DetSeeds(second, det) :
          Ended(event, t, det)
  BY <1>1
<1>3. PICK second \in RoiSeeds(first) : \E t \in DetSeeds(second, det) :
        Ended(event, t, det)
  BY <1>2
<1>4. PICK t \in DetSeeds(second, det) : Ended(event, t, det)
  BY <1>3
<1>5. first \in Tracker /\ (event => reseedPending)
  BY ReseedType
<1>6. second \in Tracker
  BY <1>5, RoiSeedType DEF TypeOK
<1>7. t \in Tracker
  BY <1>6, DetSeedType
<1>8. tracker \in Tracker
  BY DEF TypeOK
<1>9. ~first.seeded => ~tracker.seeded /\ ~event
  <2>1. CASE event
    BY <2>1, <1>5, GoodSeedsSeed DEF Reseeds
  <2>2. CASE ~event
    BY <2>2, <1>8, SeedsKeepSeeded DEF Reseeds, Seeds
  <2> QED
    BY <2>1, <2>2
<1>10. second.seeded \/ ~first.seeded
  BY <1>5, SeedsKeepSeeded DEF RoiSeeds
<1>11. t.seeded \/ ~second.seeded
  BY <1>6, SeedsKeepSeeded DEF DetSeeds
<1> QED
  BY <1>4, <1>5, <1>7, <1>9, <1>10, <1>11

LEMMA EndPushes ==
  ASSUME NEW event, NEW t, NEW det \in Targets \union {NoTarget}, Ended(event, t, det)
  PROVE  Pushes(det)
<1>1. "absent" \in Metas /\ "no" \in Metas /\ Meta(tracker') \in Metas
  BY MetaType
<1>2. \A a, b : (a > b) \in BOOLEAN
  OBVIOUS
<1>3. ASSUME NEW count, NEW steps, NEW empty, Wait(t, det, count, steps, empty)
      PROVE  Pushes(det)
  BY <1>1, <1>3, PushPushes DEF Wait
<1>4. ASSUME NEW count, NEW steps, NEW empty, Coast(t, det, count, steps, empty)
      PROVE  Pushes(det)
  BY <1>1, <1>2, <1>4, PushPushes DEF Coast
<1>5. ASSUME NEW count, NEW empty, Infer(t, det, count, empty)
      PROVE  Pushes(det)
  BY <1>1, <1>2, <1>5, PushPushes DEF Infer
<1> QED
  BY <1>3, <1>4, <1>5 DEF Ended

-----------------------------------------------------------------------------
(* The frames that were tracked before the last reseed was taken up are    *)
(* all done with when the cooldown is, and while it waits there are no     *)
(* others.                                                                 *)
Outlasted ==
  \A i \in DOMAIN queue :
    queue[i].sam # "absent" => /\ queue[i].old => cooldown > i
                               /\ reseedPending => queue[i].old

LEMMA TailElements ==
  ASSUME NEW S, NEW q \in Seq(S), q # <<>>
  PROVE  /\ Tail(q) \in Seq(S) /\ Len(Tail(q)) = Len(q) - 1
         /\ Head(q) = q[1] /\ 1 \in DOMAIN q
         /\ \A i \in DOMAIN Tail(q) : i \in Nat \ {0} /\ i + 1 \in DOMAIN q /\ Tail(q)[i] = q[i + 1]
OBVIOUS

LEMMA AgedElements ==
  ASSUME NEW q \in Seq(Buffers)
  PROVE  /\ DOMAIN Aged(q) = DOMAIN q
         /\ \A i \in DOMAIN q : Aged(q)[i].sam = q[i].sam /\ Aged(q)[i].old = TRUE
<1>1. \A i \in DOMAIN q : q[i] \in Buffers
  OBVIOUS
<1> QED
  BY <1>1 DEF Aged, Buffers

LEMMA TrackOutlasts ==
  ASSUME TypeOK, Outlasted, NEW det \in Targets \union {NoTarget}, Track(det)
  PROVE  Outlasted'
<1>1. PICK buf \in Buffers : queue' = Append(queue, buf) /\ ~buf.old
  BY TrackEnds, EndPushes DEF Pushes
<1>2. reseedPending' = FALSE /\ cooldown' = cooldown
  BY DEF Track, fuseVars
<1>3. queue \in Seq(Buffers)
  BY DEF TypeOK
<1>4. ASSUME NEW i \in DOMAIN queue', queue'[i].old, queue'[i].sam # "absent"
      PROVE  cooldown > i
  <2>1. i \in DOMAIN queue /\ queue'[i] = queue[i]
    BY <1>1, <1>3, <1>4
  <2> QED
    BY <2>1, <1>4 DEF Outlasted
<1> QED
  BY <1>2, <1>4 DEF Outlasted

LEMMA NoSurfaceOutlasts ==
  ASSUME TypeOK, Outlasted, NoSurface
  PROVE  Outlasted'
<1>1. UNCHANGED <<reseedPending, cooldown>>
  BY DEF NoSurface, fuseVars
<1>2. \A i \in DOMAIN queue' :
        queue'[i].sam # "absent" => i \in DOMAIN queue /\ queue'[i] = queue[i]
  BY DEF NoSurface, Push, TypeOK
<1> QED
  BY <1>1, <1>2 DEF Outlasted

LEMMA FuseOutlasts ==
  ASSUME TypeOK, Outlasted, Fuse, Cooldown >= QueueSize
  PROVE  Outlasted'
<1> DEFINE buf == Head(queue)
           rest == Tail(queue)
<1>1. /\ rest \in Seq(Buffers) /\ Len(rest) < QueueSize
      /\ buf = queue[1] /\ 1 \in DOMAIN queue
      /\ \A i \in DOMAIN rest :
           i \in Nat /\ i + 1 \in DOMAIN queue /\ rest[i] = queue[i + 1]
  BY TailElements, TrackLoopAssumption DEF Fuse, TypeOK
<1>2. cooldown \in Nat /\ Cooldown \in Nat /\ QueueSize \in Nat
  BY TrackLoopAssumption DEF TypeOK
<1>3. CASE Sends(buf)
  <2>1. cooldown' = Cooldown /\ queue' = Aged(rest) /\ reseedPending' = TRUE
    BY <1>3 DEF Fuse, Sends
  <2>2. \A i \in DOMAIN rest : Cooldown > i
    BY <1>1, <1>2
  <2> QED
    BY <2>1, <2>2, <1>1, AgedElements DEF Outlasted
<1>4. CASE ~Sends(buf)
  <2>1. queue' = rest /\ UNCHANGED reseedPending
    BY <1>4 DEF Fuse
  <2>2. cooldown' = cooldown \/ cooldown' = Cooled
    BY <1>4 DEF Fuse, fuseVars
  <2>3. cooldown' \in Nat /\ cooldown' >= cooldown - 1
    BY <2>2, <1>2 DEF Cooled
  <2> QED
    BY <2>1, <2>3, <1>1, <1>2 DEF Outlasted
<1> QED
  BY <1>3, <1>4

LEMMA OutlastedInvariant ==
  ASSUME Cooldown >= QueueSize
  PROVE  Spec => [](TypeOK /\ Outlasted)
<1>1. Init => TypeOK /\ Outlasted
  BY InitType DEF Init, Outlasted
<1>2. TypeOK /\ Outlasted /\ [Next]_vars => TypeOK' /\ Outlasted'
  <2> SUFFICES ASSUME TypeOK, Outlasted, [Next]_vars PROVE TypeOK' /\ Outlasted'
    OBVIOUS
  <2>1. CASE UNCHANGED vars
    BY <2>1 DEF vars, trackerVars, fuseVars, TypeOK, Outlasted
  <2>2. CASE Restart
    BY <2>2, RestartType DEF Restart, Outlasted
  <2> QED
    BY <2>1, <2>2, TrackType, NoSurfaceType, FuseType,
       TrackOutlasts, NoSurfaceOutlasts, FuseOutlasts DEF Next
<1> QED
  BY <1>1, <1>2, PTL DEF Spec

(* A reseed-cooldown at least as long as the queue keeps nvmmfusekf from   *)
(* asking for a reseed because of a frame tracked before the last one was  *)
(* taken up, and from replacing one that still waits.                      *)
THEOREM ReseedsFresh ==
  ASSUME Cooldown >= QueueSize
  PROVE  Spec => NoStaleReseed
<1>1. TypeOK /\ Outlasted
        => (Fuse /\ Sends(Head(queue)) => ~Head(queue).old /\ ~reseedPending)
  <2> SUFFICES ASSUME TypeOK, Outlasted, Fuse, Sends(Head(queue))
               PROVE  ~Head(queue).old /\ ~reseedPending
    OBVIOUS
  <2>1. Head(queue) = queue[1] /\ 1 \in DOMAIN queue
    BY TailElements DEF Fuse, TypeOK
  <2>2. ~(cooldown > 1) /\ Head(queue).sam # "absent"
    BY DEF Sends, Cooled, TypeOK
  <2> QED
    BY <2>1, <2>2 DEF Outlasted
<1> QED
  BY <1>1, OutlastedInvariant, PTL DEF NoStaleReseed

-----------------------------------------------------------------------------
(* How many frames on the way the filter will count its cooldown down for. *)
Live(q) == {i \in DOMAIN q : q[i].sam # "absent"}
Coming(q) == Cardinality(Live(q))

LEMMA ToLen ==
  ASSUME NEW n \in Nat
  PROVE  IsFiniteSet(1 .. n) /\ Cardinality(1 .. n) = n
<1>1. 1 \in Int /\ n \in Int
  OBVIOUS
<1>2. IsFiniteSet(1 .. n) /\ Cardinality(1 .. n) = IF 1 > n THEN 0 ELSE n - 1 + 1
  BY <1>1, FS_Interval, Zenon
<1> QED
  BY <1>2

LEMMA LiveFinite ==
  ASSUME NEW S, NEW q \in Seq(S)
  PROVE  /\ IsFiniteSet(Live(q))
         /\ Coming(q) \in Nat
         /\ Coming(q) <= Len(q)
<1>0. Len(q) \in Nat
  OBVIOUS
<1>1. IsFiniteSet(1 .. Len(q)) /\ Cardinality(1 .. Len(q)) = Len(q)
  BY <1>0, ToLen
<1>2. Live(q) \subseteq 1 .. Len(q)
  BY DEF Live
<1>3. IsFiniteSet(Live(q)) /\ Cardinality(Live(q)) <= Len(q)
  BY <1>1, <1>2, FS_Subset
<1> QED
  BY <1>3, FS_CardinalityType DEF Coming

LEMMA ComingAppend ==
  ASSUME NEW S, NEW q \in Seq(S), NEW buf \in S
  PROVE  /\ Coming(Append(q, buf)) <= Coming(q) + 1
         /\ buf.sam = "absent" => Coming(Append(q, buf)) = Coming(q)
<1>1. Append(q, buf) \in Seq(S) /\ DOMAIN Append(q, buf) = (DOMAIN q) \union {Len(q) + 1}
  OBVIOUS
<1>2. /\ \A i \in DOMAIN q : Append(q, buf)[i] = q[i]
      /\ Append(q, buf)[Len(q) + 1] = buf
      /\ Len(q) + 1 \notin DOMAIN q
  OBVIOUS
<1>3. CASE buf.sam = "absent"
  <2>1. Live(Append(q, buf)) = Live(q)
    BY <1>1, <1>2, <1>3 DEF Live
  <2>2. Coming(Append(q, buf)) = Coming(q)
    BY <2>1 DEF Coming
  <2> QED
    BY <2>2, LiveFinite
<1>4. CASE buf.sam # "absent"
  <2>1. Live(Append(q, buf)) = Live(q) \union {Len(q) + 1}
    BY <1>1, <1>2, <1>4 DEF Live
  <2>2. Cardinality(Live(q) \union {Len(q) + 1})
          = IF Len(q) + 1 \in Live(q) THEN Cardinality(Live(q)) ELSE Cardinality(Live(q)) + 1
    BY LiveFinite, FS_AddElement
  <2>3. Coming(q) \in Nat
    BY LiveFinite
  <2> QED
    BY <1>4, <2>1, <2>2, <2>3 DEF Coming
<1> QED
  BY <1>3, <1>4

LEMMA ComingTail ==
  ASSUME NEW S, NEW q \in Seq(S), q # <<>>
  PROVE  /\ Coming(Tail(q)) <= Coming(q)
         /\ Head(q).sam # "absent" => Coming(Tail(q)) + 1 <= Coming(q)
<1> DEFINE shift == [i \in Live(Tail(q)) |-> i + 1]
           rest == Live(q) \ {1}
<1>1. shift \in Injection(Live(Tail(q)), rest)
  <2>1. \A i \in Live(Tail(q)) : i \in Nat \ {0} /\ i + 1 \in Live(q)
    BY TailElements DEF Live
  <2>2. \A i \in Live(Tail(q)) : i + 1 \in rest
    BY <2>1
  <2>3. shift \in [Live(Tail(q)) -> rest] /\ \A i \in Live(Tail(q)) : shift[i] = i + 1
    BY <2>2
  <2> HIDE DEF shift
  <2>4. ASSUME NEW i \in Live(Tail(q)), NEW j \in Live(Tail(q)), shift[i] = shift[j]
        PROVE  i = j
    <3>1. i \in Nat /\ j \in Nat /\ i + 1 = j + 1
      BY <2>1, <2>3, <2>4
    <3> QED
      BY <3>1
  <2> QED
    BY <2>3, <2>4 DEF Injection, IsInjective
<1>2. IsFiniteSet(Live(q)) /\ Coming(q) \in Nat
  BY LiveFinite
<1>3. /\ IsFiniteSet(rest)
      /\ Cardinality(rest) = IF 1 \in Live(q) THEN Coming(q) - 1 ELSE Coming(q)
  BY <1>2, FS_RemoveElement DEF Coming
<1> HIDE DEF shift, rest
<1>4. Cardinality(Live(Tail(q))) <= Cardinality(rest)
  BY <1>1, <1>3, FS_Injection
<1>5. Coming(Tail(q)) \in Nat
  BY TailElements, LiveFinite
<1>6. Head(q).sam # "absent" <=> 1 \in Live(q)
  BY TailElements DEF Live
<1> QED
  BY <1>2, <1>3, <1>4, <1>5, <1>6 DEF Coming

LEMMA ComingAged ==
  ASSUME NEW q \in Seq(Buffers)
  PROVE  Coming(Aged(q)) = Coming(q)
<1>1. Live(Aged(q)) = Live(q)
  BY AgedElements DEF Live
<1> QED
  BY <1>1 DEF Coming

-----------------------------------------------------------------------------
(* The Kalman steps that kf_count does not know of are those from before   *)
(* one reseed: it is zero again, and until an inference is tried, after    *)
(* max-kf more steps, the cooldown has not run out for the frames that are *)
(* on their way.                                                           *)
OneReseedAhead ==
  /\ kfCount <= coasting
  /\ coasting <= kfCount + MaxKf
  /\ ~tracker.seeded => coasting = 0
  /\ reseedPending => coasting = kfCount /\ cooldown >= MaxKf + 1 + Coming(queue)
  /\ coasting > kfCount => cooldown + kfCount >= MaxKf + 1 + Coming(queue)

LEMMA TrackCadence ==
  ASSUME TypeOK, OneReseedAhead, NEW det \in Targets \union {NoTarget}, Track(det)
  PROVE  OneReseedAhead'
<1>1. PICK event \in BOOLEAN, t \in Tracker :
        /\ Ended(event, t, det)
        /\ event => reseedPending
        /\ ~t.seeded => ~tracker.seeded /\ ~event
  BY TrackEnds
<1>2. Coming(queue) \in Nat /\ Coming(queue') \in Nat /\ Coming(queue') <= Coming(queue) + 1
  <2>1. PICK buf \in Buffers : queue' = Append(queue, buf)
    BY <1>1, EndPushes DEF Pushes
  <2>2. queue \in Seq(Buffers) /\ queue' \in Seq(Buffers)
    BY <2>1 DEF TypeOK
  <2> QED
    BY <2>1, <2>2, ComingAppend, LiveFinite
<1>3. reseedPending' = FALSE /\ cooldown' = cooldown
  BY DEF Track, fuseVars
<1>4. /\ kfCount \in Nat /\ coasting \in Nat /\ cooldown \in Nat /\ MaxKf \in Nat
      /\ kfCount <= MaxKf
  BY TrackLoopAssumption DEF TypeOK
<1> DEFINE count == IF reseedPending THEN 0 ELSE kfCount
           steps == IF event THEN 0 ELSE coasting
           empty == IF event THEN 0 ELSE unseen
<1>5. /\ count \in Nat /\ steps \in Nat /\ count <= steps /\ steps <= count + MaxKf
      /\ steps > count => cooldown + count >= MaxKf + 1 + Coming(queue)
  <2>1. CASE event
    <3>1. count = 0 /\ steps = 0
      BY <2>1, <1>1
    <3> QED
      BY <3>1, <1>4
  <2>2. CASE ~event /\ reseedPending
    <3>1. count = 0 /\ steps = coasting
      BY <2>2
    <3> QED
      BY <2>2, <3>1, <1>4, <1>2 DEF OneReseedAhead
  <2>3. CASE ~event /\ ~reseedPending
    <3>1. count = kfCount /\ steps = coasting
      BY <2>3
    <3> QED
      BY <3>1, <1>4 DEF OneReseedAhead
  <2> QED
    BY <2>1, <2>2, <2>3
<1>0. ~t.seeded => steps = 0
  BY <1>1 DEF OneReseedAhead
<1> HIDE DEF count, steps, empty
<1>6. CASE Wait(t, det, count, steps, empty)
  <2>1. steps = 0
    BY <1>0, <1>6 DEF Wait
  <2>2. kfCount' = 0 /\ coasting' = 0
    BY <1>5, <1>6, <2>1 DEF Wait
  <2> QED
    BY <2>2, <1>3, <1>4 DEF OneReseedAhead
<1>7. CASE Coast(t, det, count, steps, empty)
  <2>1. count < MaxKf /\ kfCount' = count + 1 /\ coasting' = Capped(steps + 1, 2 * MaxKf + 1)
    BY <1>7 DEF Coast
  <2>2. coasting' = steps + 1
    BY <2>1, <1>4, <1>5 DEF Capped
  <2>3. tracker'.seeded
    <3>1. tracker' \in Coasts(t) /\ t.seeded
      BY <1>7 DEF Coast
    <3> QED
      BY <3>1 DEF Coasts, Tracker
  <2> QED
    BY <1>2, <1>3, <1>4, <1>5, <2>1, <2>2, <2>3 DEF OneReseedAhead
<1>8. CASE Infer(t, det, count, empty)
  <2>1. kfCount' = 0 /\ coasting' = 0
    BY <1>8 DEF Infer
  <2> QED
    BY <2>1, <1>3, <1>4 DEF OneReseedAhead
<1> QED
  BY <1>1, <1>6, <1>7, <1>8 DEF Ended, count, steps, empty

LEMMA NoSurfaceCadence ==
  ASSUME TypeOK, OneReseedAhead, NoSurface
  PROVE  OneReseedAhead'
<1>1. Coming(queue') = Coming(queue)
  <2> DEFINE buf == [sam |-> "absent", det |-> NoTarget, old |-> reseedPending, gone |-> FALSE]
  <2>1. queue' = Append(queue, buf) /\ buf.sam = "absent"
    BY DEF NoSurface, Push
  <2>2. buf \in Buffers
    BY MetaType DEF Buffers, TypeOK
  <2> HIDE DEF buf
  <2>3. queue \in Seq(Buffers)
    BY DEF TypeOK
  <2> QED
    BY <2>1, <2>2, <2>3, ComingAppend
<1> QED
  BY <1>1 DEF NoSurface, fuseVars, OneReseedAhead

LEMMA FuseCadence ==
  ASSUME TypeOK, OneReseedAhead, Fuse, Cooldown >= QueueSize + MaxKf
  PROVE  OneReseedAhead'
<1> DEFINE buf == Head(queue)
           rest == Tail(queue)
<1>1. /\ rest \in Seq(Buffers)
      /\ Len(rest) < QueueSize
      /\ Coming(rest) \in Nat /\ Coming(queue) \in Nat
      /\ Coming(rest) <= Len(rest)
      /\ Coming(rest) <= Coming(queue)
      /\ buf.sam # "absent" => Coming(rest) + 1 <= Coming(queue)
  <2>1. queue \in Seq(Buffers) /\ queue # <<>> /\ Len(queue) <= QueueSize
    BY DEF Fuse, TypeOK
  <2>2. rest \in Seq(Buffers) /\ Len(rest) = Len(queue) - 1
    BY <2>1, TailElements
  <2>3. Len(rest) < QueueSize
    BY <2>1, <2>2, TrackLoopAssumption
  <2>4. Coming(rest) \in Nat /\ Coming(queue) \in Nat /\ Coming(rest) <= Len(rest)
    BY <2>1, <2>2, LiveFinite
  <2>5. Coming(rest) <= Coming(queue) /\ (buf.sam # "absent" => Coming(rest) + 1 <= Coming(queue))
    BY <2>1, ComingTail
  <2> QED
    BY <2>2, <2>3, <2>4, <2>5
<1>2. /\ kfCount \in Nat /\ coasting \in Nat /\ cooldown \in Nat /\ MaxKf \in Nat
      /\ Cooldown \in Nat /\ QueueSize \in Nat /\ kfCount <= MaxKf
  BY TrackLoopAssumption DEF TypeOK
<1>3. UNCHANGED <<tracker, kfCount, coasting>>
  BY DEF Fuse, trackerVars
<1> HIDE DEF buf, rest
<1>4. CASE Sends(buf)
  <2>1. cooldown' = Cooldown /\ queue' = Aged(rest)
    BY <1>4 DEF Fuse, Sends, buf, rest
  <2>2. Coming(queue') = Coming(rest)
    BY <2>1, <1>1, ComingAged
  <2>3. coasting = kfCount
    <3>1. buf.sam # "absent" /\ cooldown <= 1
      BY <1>2, <1>4 DEF Sends, Cooled
    <3> QED
      BY <3>1, <1>1, <1>2 DEF OneReseedAhead
  <2>4. Len(rest) \in Nat
    BY <1>1
  <2>5. Cooldown >= MaxKf + 1 + Coming(rest)
    BY <2>4, <1>1, <1>2
  <2> QED
    BY <2>1, <2>2, <2>3, <2>5, <1>2, <1>3 DEF OneReseedAhead
<1>5. CASE ~Sends(buf)
  <2>1. queue' = rest /\ UNCHANGED reseedPending
    BY <1>5 DEF Fuse, buf, rest
  <2>2. \/ cooldown' = cooldown
        \/ buf.sam # "absent" /\ cooldown' = Cooled
    BY <1>5 DEF Fuse, fuseVars, buf, rest
  <2>3. cooldown' \in Nat /\ cooldown' >= cooldown - 1
    BY <2>2, <1>2 DEF Cooled
  <2>4. \A n \in Nat : cooldown + n >= MaxKf + 1 + Coming(queue)
                         => cooldown' + n >= MaxKf + 1 + Coming(rest)
    BY <2>2, <2>3, <1>1, <1>2
  <2>5. reseedPending => cooldown' >= MaxKf + 1 + Coming(rest)
    BY <2>2, <2>3, <1>1, <1>2 DEF OneReseedAhead
  <2>6. coasting > kfCount => cooldown' + kfCount >= MaxKf + 1 + Coming(rest)
    BY <2>4, <1>2 DEF OneReseedAhead
  <2> QED
    BY <2>1, <2>5, <2>6, <1>3 DEF OneReseedAhead
<1> QED
  BY <1>4, <1>5

(* With a reseed-cooldown that is max-kf longer than the queue, reseeds    *)
(* never add up: there are at most twice max-kf Kalman steps from one      *)
(* inference that was tried, or one seed that succeeded, to the next.      *)
THEOREM CadenceKept ==
  ASSUME Cooldown >= QueueSize + MaxKf
  PROVE  Spec => []CadenceBounded
<1>1. Init => TypeOK /\ OneReseedAhead
  <2>1. Coming(<<>>) = 0
    BY FS_EmptySet DEF Coming, Live
  <2> QED
    BY <2>1, InitType, TrackLoopAssumption DEF Init, OneReseedAhead
<1>2. TypeOK /\ OneReseedAhead /\ [Next]_vars => TypeOK' /\ OneReseedAhead'
  <2> SUFFICES ASSUME TypeOK, OneReseedAhead, [Next]_vars
               PROVE  TypeOK' /\ OneReseedAhead'
    OBVIOUS
  <2>1. CASE UNCHANGED vars
    BY <2>1 DEF vars, trackerVars, fuseVars, TypeOK, OneReseedAhead
  <2>2. CASE Restart
    BY <2>2, RestartType, TrackLoopAssumption DEF Restart, OneReseedAhead
  <2> QED
    BY <2>1, <2>2, TrackType, NoSurfaceType, FuseType,
       TrackCadence, NoSurfaceCadence, FuseCadence DEF Next
<1>3. TypeOK /\ OneReseedAhead => CadenceBounded
  BY TrackLoopAssumption DEF TypeOK, OneReseedAhead, CadenceBounded
<1> QED
  BY <1>1, <1>2, <1>3, PTL DEF Spec

-----------------------------------------------------------------------------
(* As long as a track stays lost and no reseed is asked for, the cooldown  *)
(* does not grow, and shrinks with every frame that has a detection.       *)
CountsDown ==
  Lost /\ Lost' /\ ~reseedPending' =>
    /\ cooldown' <= cooldown
    /\ FusesDetection => cooldown' < cooldown

LEMMA FuseCools ==
  ASSUME TypeOK, Fuse, Lost, Lost', ~reseedPending'
  PROVE  /\ cooldown' <= cooldown
         /\ FusesDetection => cooldown' < cooldown
<1> DEFINE buf == Head(queue)
<1>1. cooldown \in Nat
  BY TrackLoopAssumption DEF TypeOK
<1>2. ~Sends(buf)
  BY DEF Fuse
<1>3. cooldown' = IF buf.sam = "absent" THEN cooldown ELSE Cooled
  BY <1>2 DEF Fuse, fuseVars
<1>4. FusesDetection => Cooled # 0
  <2> SUFFICES ASSUME FusesDetection PROVE Cooled # 0
    OBVIOUS
  <2>1. buf.sam # "absent" /\ buf.det # NoTarget /\ everValid
    BY DEF FusesDetection, Lost
  <2>2. LostAfter(buf) > MaxLost
    BY <2>1 DEF Fuse, Lost
  <2> QED
    BY <1>2, <2>1, <2>2 DEF Sends
<1>5. FusesDetection => buf.sam # "absent"
  BY DEF FusesDetection
<1> QED
  BY <1>1, <1>3, <1>4, <1>5 DEF Cooled

(* reseed-cooldown does not starve a lost track (gstnvmmfusekf.cpp:        *)
(* 150-157): as long as it stays lost, every frame with a detection brings *)
(* the next reseed nearer, so that it is asked for within reseed-cooldown  *)
(* of them.                                                                *)
THEOREM CooldownRunsOut == Spec => [][CountsDown]_vars
<1>1. TypeOK /\ [Next]_vars => [CountsDown]_vars
  <2> SUFFICES ASSUME TypeOK, Next, Lost, Lost', ~reseedPending'
               PROVE  /\ cooldown' <= cooldown
                      /\ FusesDetection => cooldown' < cooldown
    BY DEF CountsDown
  <2>1. CASE Fuse
    BY <2>1, FuseCools
  <2>2. CASE ~Fuse
    <3>1. ~FusesDetection
      BY <2>2 DEF FusesDetection
    <3>2. ~Restart
      BY DEF Restart, Lost
    <3>3. UNCHANGED fuseVars
      BY <2>2, <3>2 DEF Next, Track, NoSurface
    <3> QED
      BY <3>1, <3>3, TrackLoopAssumption DEF fuseVars, TypeOK
  <2> QED
    BY <2>1, <2>2
<1> QED
  BY TypeCorrect, <1>1, PTL DEF Spec
=============================================================================
