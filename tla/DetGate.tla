------------------------------ MODULE DetGate ------------------------------
(***************************************************************************)
(* nvmmdetgate: passes on no detection until one track of detections has   *)
(* moved independently of the background for long enough, then latches and *)
(* passes on that one (gst/nvmmdetgate/detgate.hpp and the element that    *)
(* calls it, gstnvmmdetgate.cpp).  A frame the element cannot or need not  *)
(* look at it passes on as it came, with every detection.                  *)
(*                                                                         *)
(* Detections are points on a line.  Whether one moved (its residual is at *)
(* least rmin) and whether the residuals make a blob, and where, is what a *)
(* frame brings.  Confidences only order the detections and break ties, so *)
(* the order is any, and so is the choice between tracks of equal support. *)
(* A frame brings the whole list of its det meta; objects of another class *)
(* than target-class or below min-conf are in it and are not looked at.    *)
(***************************************************************************)
EXTENDS Integers, Sequences, FiniteSets, SequencesExt

CONSTANTS
  Places,       (* Where detections can be.                                *)
  Border,       (* The places within borderfrac of the frame's edge.       *)
  Dist,         (* dist.                                                   *)
  Amin,         (* amin.                                                   *)
  Ksup,         (* ksup.                                                   *)
  MaxLost,      (* maxlost.                                                *)
  SeedOnMotion, (* seed_on_motion.                                         *)
  MotionSilent, (* motion_silent.                                          *)
  MaxObjects,   (* Bound: objects in the det meta of one frame ...         *)
  MaxDets,      (* ... and those of them the gate looks at.                *)
  MaxSup        (* Bound: sup counts no further; age stops at Amin, fcount *)
                (* at MotionSilent and the histories at what they are for. *)

ASSUME DetGateAssumption ==
  /\ Places \subseteq Nat
  /\ Border \subseteq Places
  /\ {Dist, Amin, Ksup, MotionSilent} \subseteq Nat \ {0}
  /\ {MaxLost, MaxObjects, MaxDets, MaxSup} \subseteq Nat
  /\ MaxSup > Ksup
  /\ SeedOnMotion \in BOOLEAN

Motion == -100     (* kMotionSentinel.                                     *)
NoIndex == -1
SynthConfirm == -2 (* kSynthConfirm.                                       *)
Nowhere == -1
Everything == -2   (* Emitted: the list of the frame, as it came.          *)
Elsewhere == -3    (* Where an object is that the gate does not look at.   *)

Capped(n, bound) == IF n < bound THEN n ELSE bound
Distance(p, q) == IF p < q THEN q - p ELSE p - q
InActive(p) == p \notin Border

VARIABLES
  tracks,       (* tracks_ of the unlocked gate: place, age, lost, sup.    *)
                (* Nothing reads them while it is locked, and they are     *)
                (* cleared with the lock; src_index and matched are set    *)
                (* anew by each update that reads them.                    *)
  locked,       (* locked_, and the lock while there is one.               *)
  lockPlace,
  lockLost,
  fcount,       (* fcount_.                                                *)
  synth,        (* synth_valid_.                                           *)
  keep,         (* What update() returned last, ...                        *)
  emitted,      (* ... and where the detection passed on is, or Nowhere,   *)
                (* or Everything.                                          *)
  since,        (* History of the unlocked gate: updates since there last  *)
                (* was no track ...                                       *)
  moving,       (* ... and those of them with a detection that moved.      *)
  steady,       (* History: unlocked updates in a row with one detection,  *)
                (* moving, in the active area at one and the same place.   *)
  passedOver    (* History: the locked gate passed a detection on while    *)
                (* another was nearer to its lock.                         *)

lock == <<locked, lockPlace, lockLost>>
history == <<since, moving, steady, passedOver>>
detGateVars == <<tracks, locked, lockPlace, lockLost, fcount, synth, keep, emitted,
          since, moving, steady, passedOver>>

HistoryBound == IF Amin > Ksup THEN Amin ELSE Ksup
Track == [place : Places, age : 1 .. Amin, lost : 0 .. MaxLost, sup : 0 .. MaxSup]

TypeOK ==
  /\ tracks \in Seq(Track)
  /\ locked \in BOOLEAN
  /\ lockPlace \in Places \union {Nowhere}
  /\ lockLost \in 0 .. MaxLost
  /\ fcount \in 0 .. MotionSilent
  /\ synth \in BOOLEAN
  /\ keep \in {NoIndex, SynthConfirm} \union 1 .. MaxObjects
  /\ emitted \in Places \union {Nowhere, Everything}

NotSteady == [n |-> 0, place |-> Nowhere]

DetGateInit ==
  /\ tracks = <<>>
  /\ locked = FALSE
  /\ lockPlace = Nowhere
  /\ lockLost = 0
  /\ fcount = 0
  /\ synth = FALSE
  /\ keep = NoIndex
  /\ emitted = Nowhere
  /\ since = 0
  /\ moving = 0
  /\ steady = NotSteady
  /\ passedOver = FALSE

-----------------------------------------------------------------------------
(* A frame: whether it carries a det meta, the objects of it in list       *)
(* order, and what motion_blob makes of the residuals, if anything.        *)
Seen == [place : Places, moved : BOOLEAN]
Other == [place |-> Elsewhere, moved |-> FALSE]
NoBlob == [place |-> Nowhere, moved |-> FALSE]
Blobs == IF SeedOnMotion THEN Seen \union {NoBlob} ELSE {NoBlob}
ObjectLists == UNION {[1 .. n -> Seen \union {Other}] : n \in 0 .. MaxObjects}

(* The detections the gate looks at, by their index in the whole list.     *)
Wanted(frame) == {i \in DOMAIN frame.objects : frame.objects[i] # Other}

Frames == {f \in [meta : BOOLEAN, objects : ObjectLists, blob : Blobs] :
             /\ ~f.meta => f.objects = <<>>
             /\ Cardinality(Wanted(f)) <= MaxDets}

(* What the unlocked gate associates: the detections and the blob, in any  *)
(* order by descending confidence.                                         *)
Augmented(frame) ==
  {[place |-> frame.objects[i].place, moved |-> frame.objects[i].moved, src |-> i] :
     i \in Wanted(frame)}
  \union
  IF SeedOnMotion /\ fcount + 1 >= MotionSilent /\ frame.blob # NoBlob
    THEN {[place |-> frame.blob.place, moved |-> frame.blob.moved, src |-> Motion]}
    ELSE {}

(* Mutant: a track may take two detections of a frame.                     *)
NearestShared(d, trks) ==
  {k \in DOMAIN trks :
     /\ Distance(trks[k].place, d.place) < Dist
     /\ \A j \in DOMAIN trks \ {k} :
          \/ Distance(trks[k].place, d.place) < Distance(trks[j].place, d.place)
          \/ /\ Distance(trks[k].place, d.place) = Distance(trks[j].place, d.place)
             /\ k < j}

(* The track d continues: the first among the nearest unmatched ones.      *)
Nearest(d, trks) ==
  LET free == {k \in DOMAIN trks : /\ ~trks[k].matched
                                   /\ Distance(trks[k].place, d.place) < Dist}
  IN  {k \in free : \A j \in free \ {k} :
         \/ Distance(trks[k].place, d.place) < Distance(trks[j].place, d.place)
         \/ /\ Distance(trks[k].place, d.place) = Distance(trks[j].place, d.place)
            /\ k < j}

Support(sup, moved) == IF moved THEN Capped(sup + 1, MaxSup) ELSE 0

Continued(t, d) ==
  [t EXCEPT !.place = d.place, !.age = Capped(@ + 1, Amin), !.lost = 0,
            !.matched = TRUE, !.sup = Support(@, d.moved), !.src = d.src]

(* Mutant: the first detection of a track does not count for its age.       *)
AssociateUncounted(trks, d) ==
  LET best == Nearest(d, trks)
  IN  IF best # {}
      THEN [k \in DOMAIN trks |->
              IF k \in best THEN Continued(trks[k], d) ELSE trks[k]]
      ELSE Append(trks, [place |-> d.place, age |-> 0, lost |-> 0,
                         sup |-> IF d.moved THEN 1 ELSE 0, src |-> d.src,
                         matched |-> TRUE])

Associate(trks, d) ==
  LET best == Nearest(d, trks)
  IN  IF best # {}
      THEN [k \in DOMAIN trks |->
              IF k \in best THEN Continued(trks[k], d) ELSE trks[k]]
      ELSE Append(trks, [place |-> d.place, age |-> 1, lost |-> 0,
                         sup |-> IF d.moved THEN 1 ELSE 0, src |-> d.src,
                         matched |-> TRUE])

Aged ==
  [k \in DOMAIN tracks |->
     [place |-> tracks[k].place, age |-> tracks[k].age, lost |-> tracks[k].lost + 1,
      sup |-> tracks[k].sup, src |-> NoIndex, matched |-> FALSE]]

Kept(trks) ==
  [k \in DOMAIN trks |-> [place |-> trks[k].place, age |-> trks[k].age,
                          lost |-> trks[k].lost, sup |-> trks[k].sup]]

StillThere(trks, t) == IF t.lost <= MaxLost THEN Append(trks, t) ELSE trks

Reaped(trks) == FoldLeft(StillThere, <<>>, trks)

(* The tracks that clear the gate, and the best supported among them.      *)
Confirmable(trks) ==
  {k \in DOMAIN trks : /\ trks[k].lost = 0
                       /\ trks[k].age >= Amin
                       /\ InActive(trks[k].place)
                       /\ trks[k].sup >= Ksup}

Leaders(trks) ==
  {k \in Confirmable(trks) :
     \A j \in Confirmable(trks) : trks[j].sup <= trks[k].sup}

(* One detection in the scan of update_locked: the lock moves to each that *)
(* is nearer to it than the one before was.                                *)
Scan(st, d) ==
  IF d.place # Elsewhere /\ Distance(st.place, d.place) < st.within
  THEN [within |-> Distance(st.place, d.place), best |-> d.index, place |-> d.place]
  ELSE st

Indexed(objects) ==
  [i \in DOMAIN objects |-> [index |-> i, place |-> objects[i].place]]

Scanned(objects) ==
  FoldLeft(Scan, [within |-> Dist, best |-> NoIndex, place |-> lockPlace],
           Indexed(objects))

-----------------------------------------------------------------------------
(* transform_ip.                                                           *)

(* Mutant: the index of update() is taken for one into the detections it   *)
(* was given, not into the list they were picked from.                     *)
EmitByRank(frame) ==
  LET rank == Cardinality({i \in Wanted(frame) : i <= keep'}) IN
  /\ emitted' = IF ~frame.meta THEN Nowhere
                ELSE IF keep' \in DOMAIN frame.objects THEN frame.objects[rank].place
                ELSE IF keep' = SynthConfirm THEN lockPlace'
                ELSE Nowhere
  /\ synth' = IF keep' = SynthConfirm THEN ~frame.meta ELSE synth

(* What becomes of the det meta: one detection or none.                    *)
Emit(frame) ==
  /\ emitted' = IF ~frame.meta THEN Nowhere
                ELSE IF keep' \in DOMAIN frame.objects THEN frame.objects[keep'].place
                ELSE IF keep' = SynthConfirm THEN lockPlace'
                ELSE Nowhere
  /\ synth' = IF keep' = SynthConfirm THEN ~frame.meta ELSE synth

Moved(frame) == \E d \in Augmented(frame) : d.moved
(* The one detection of a frame that has no other, if it moves where it    *)
(* can be locked on.                                                       *)
Lone(frame) ==
  {d \in Augmented(frame) :
     Augmented(frame) = {d} /\ d.src # Motion /\ d.moved /\ InActive(d.place)}
Steady(frame) ==
  IF Lone(frame) = {} THEN NotSteady
  ELSE LET target == CHOOSE d \in Lone(frame) : TRUE
       IN  [n |-> IF steady.place = target.place
                  THEN Capped(steady.n + 1, HistoryBound) ELSE 1,
            place |-> target.place]

(* The frame goes on as it came and the gate hears nothing of it: the      *)
(* element is disabled, the buffer has no surface, engine-dir is not set   *)
(* or the matcher cannot be set up.                                        *)
PassThrough(meta) ==
  /\ keep' = NoIndex
  /\ emitted' = IF meta THEN Everything ELSE Nowhere
  /\ UNCHANGED <<tracks, lock, fcount, synth, history>>

(* The gate is not asked: the frame is one of the first 2*dlt after a      *)
(* start, or no features could be extracted from it.                       *)
Ungated ==
  /\ keep' = NoIndex
  /\ emitted' = Nowhere
  /\ UNCHANGED <<tracks, lock, fcount, synth, history>>

(* The tracks an update may leave, by the order it takes the detections in.*)
Outcomes(frame) ==
  {Reaped(FoldLeft(Associate, Aged, order)) : order \in SetToSeqs(Augmented(frame))}

UpdateUnlocked(frame, trks) ==
  /\ ~locked
  /\ fcount' = Capped(fcount + 1, MotionSilent)
  /\ \/ /\ Leaders(trks) = {}
        /\ keep' = NoIndex
        /\ tracks' = Kept(trks)
        /\ UNCHANGED lock
     \/ \E k \in Leaders(trks) :
          /\ locked' = TRUE
          /\ tracks' = <<>>
          /\ lockLost' = 0
          /\ lockPlace' = trks[k].place
          /\ keep' = IF trks[k].src = Motion THEN SynthConfirm ELSE trks[k].src
  /\ Emit(frame)
  /\ since' = IF trks = <<>> THEN 0 ELSE Capped(since + 1, Amin)
  /\ moving' = CASE trks = <<>> -> 0
                 [] trks # <<>> /\ Moved(frame) -> Capped(moving + 1, Ksup)
                 [] OTHER -> moving
  /\ passedOver' = FALSE
  /\ steady' = IF locked' THEN NotSteady ELSE Steady(frame)

(* The lock's place and misses are not looked at until the next lock.      *)
Unlock ==
  /\ locked' = FALSE
  /\ lockPlace' = Nowhere
  /\ lockLost' = 0
  /\ tracks' = <<>>
  /\ since' = 0
  /\ moving' = 0

KeepLock(place, misses) ==
  /\ locked' = TRUE
  /\ lockPlace' = place
  /\ lockLost' = misses
  /\ UNCHANGED tracks
  /\ since' = 0
  /\ moving' = 0

UpdateLocked(frame) ==
  LET found == Scanned(frame.objects) IN
  /\ locked
  /\ fcount' = Capped(fcount + 1, MotionSilent)
  /\ \/ /\ ~InActive(lockPlace)
        /\ keep' = NoIndex
        /\ Unlock
     \/ /\ InActive(lockPlace)
        /\ found.best # NoIndex
        /\ keep' = found.best
        /\ KeepLock(found.place, 0)
     \/ /\ InActive(lockPlace)
        /\ found.best = NoIndex
        /\ keep' = NoIndex
        /\ \/ lockLost + 1 > MaxLost /\ Unlock
           \/ lockLost + 1 <= MaxLost /\ KeepLock(lockPlace, lockLost + 1)
  /\ Emit(frame)
  /\ passedOver' = \E i \in Wanted(frame) :
                     keep' # NoIndex /\ Distance(lockPlace, frame.objects[i].place)
                                       < Distance(lockPlace, frame.objects[keep'].place)
  /\ UNCHANGED steady

(* nvmm-reset: the gate is un-latched.                                     *)
Reset ==
  /\ Unlock
  /\ keep' = NoIndex
  /\ emitted' = Nowhere
  /\ passedOver' = FALSE
  /\ steady' = NotSteady
  /\ UNCHANGED <<fcount, synth>>

(* stop() deletes the gate; the first frame after it makes a new one.      *)
Stop ==
  /\ Unlock
  /\ fcount' = 0
  /\ synth' = FALSE
  /\ keep' = NoIndex
  /\ emitted' = Nowhere
  /\ steady' = NotSteady
  /\ passedOver' = FALSE

DetGateNext ==
  \/ Reset \/ Stop \/ Ungated
  \/ \E meta \in BOOLEAN : PassThrough(meta)
  \/ \E frame \in Frames :
       \/ \E trks \in Outcomes(frame) : UpdateUnlocked(frame, trks)
       \/ UpdateLocked(frame)

DetGateSpec == DetGateInit /\ [][DetGateNext]_detGateVars

-----------------------------------------------------------------------------
Locks == ~locked /\ locked'

(***************************************************************************)
(* "... until a target is confirmed" (gstnvmmdetgate.cpp:80), and how: a   *)
(* lock takes at least amin updates since there last was no track, and at  *)
(* least ksup of them with something that moved, whatever frames were      *)
(* missed and however tracks met in between; and it is not had at the      *)
(* border.                                                                 *)
(***************************************************************************)
LockEarned ==
  [][Locks => since' >= Amin /\ moving' >= Ksup /\ InActive(lockPlace')]_detGateVars

(***************************************************************************)
(* Whenever a frame leaves with one detection picked for it, that is the   *)
(* target: the detection of this frame that the lock is now on, never that *)
(* of a stale index or of one into another list, and none for a lock that  *)
(* got to the border.  It is not so that a frame leaves with nothing until *)
(* there is a lock, as gstnvmmdetgate.cpp:80 has it: what the element does *)
(* not look at (disabled, no surface, no matcher; 88-108) leaves with all  *)
(* its detections, lock or no lock, and the lock does not age meanwhile.   *)
(***************************************************************************)
EmitsTheLock ==
  [][emitted' \notin {Nowhere, Everything} =>
       /\ locked' /\ emitted' = lockPlace'
       /\ locked => InActive(lockPlace)]_detGateVars

(***************************************************************************)
(* A lone target that keeps moving in the active area is locked on within  *)
(* max(amin, ksup) updates, whatever tracks the gate had before.           *)
(***************************************************************************)
LockOnTime == steady.n < Amin \/ steady.n < Ksup

(***************************************************************************)
(* tests/test_nvmm_detgate.cpp:479:                                        *)
(* "a_locked_gate_returns_the_detection_nearest_the_lock_whatever_the_list *)
(* _order".                                                                *)
(***************************************************************************)
NearestToLock == ~passedOver
=============================================================================
