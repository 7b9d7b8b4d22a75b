-------------------------- MODULE PersistenceGate --------------------------
(***************************************************************************)
(* The gate of the analytics library (analytics/persistence_gate.hpp) and  *)
(* the one on top of it that asks the motion around each box               *)
(* (analytics/detection_motion_gate.hpp): a detection that persists with   *)
(* support is confirmed, and followed until it is lost.                    *)
(*                                                                         *)
(* Detections are points on a line.  The unlocked gate takes them by       *)
(* descending confidence and the locked one as they are listed; either     *)
(* order is any, and a frame brings one list.                              *)
(***************************************************************************)
EXTENDS Integers, Sequences, FiniteSets, SequencesExt

CONSTANTS
  Points,      (* Where detections can be.                                 *)
  AssocDist,   (* assoc_dist.                                              *)
  MinAge,      (* min_age.                                                 *)
  MinSupport,  (* min_support.                                             *)
  MaxMissed,   (* max_lost.                                                *)
  MaxBoxes,    (* Bound: detections in a frame, ...                        *)
  MaxUpdates   (* ... and frames.                                          *)

ASSUME PersistenceAssumption ==
  /\ Points \subseteq Nat
  /\ {AssocDist, MinAge, MinSupport, MaxBoxes, MaxUpdates} \subseteq Nat \ {0}
  /\ MaxMissed \in Nat

NoPoint == -1

VARIABLES
  pTracks,     (* tracks_ of the unlocked gate (nothing reads them while   *)
               (* it is locked, and they are cleared with the lock);       *)
               (* history: what each frame since its first was for a       *)
               (* track: "supported", "seen" or "missed".                  *)
  pLock,       (* locked_, where, lock_lost_; history: what the track had  *)
               (* been through that was locked.                            *)
  pTarget,     (* Where the detection is that update() returned.           *)
  updates

gateVars == <<pTracks, pLock, pTarget, updates>>

Unlocked == [locked |-> FALSE, at |-> NoPoint, lost |-> 0, past |-> <<>>]

GateInit ==
  /\ pTracks = <<>>
  /\ pLock = Unlocked
  /\ pTarget = NoPoint
  /\ updates = 0

-----------------------------------------------------------------------------
(* Support is what the caller says; MovingObjectGate says it of the boxes  *)
(* with motion around them, and looks at no motion while it is locked.     *)
Boxes == UNION {[1 .. n -> [at : Points, supported : BOOLEAN]] : n \in 0 .. MaxBoxes}

Apart(p, q) == IF p < q THEN q - p ELSE p - q

Aging(t) == [t EXCEPT !.lost = @ + 1, !.matched = FALSE, !.past = Append(@, "missed")]

(* The first of the nearest tracks that have no detection of this frame.   *)
Continues(trks, d) ==
  LET free == {k \in DOMAIN trks : ~trks[k].matched /\ Apart(trks[k].at, d.at) < AssocDist}
  IN  {k \in free : \A j \in free \ {k} :
         \/ Apart(trks[k].at, d.at) < Apart(trks[j].at, d.at)
         \/ Apart(trks[k].at, d.at) = Apart(trks[j].at, d.at) /\ k < j}

Outcome(d) == IF d.supported THEN "supported" ELSE "seen"

(* Mutant: a frame without support takes nothing back.                     *)
SupportedTotal(sup, d) == IF d.supported THEN sup + 1 ELSE sup

SupportedAgain(sup, d) == IF d.supported THEN sup + 1 ELSE 0

Matched(t, d) ==
  [at |-> d.at, age |-> t.age + 1, lost |-> 0, sup |-> SupportedAgain(t.sup, d),
   matched |-> TRUE, past |-> Append(Front(t.past), Outcome(d))]

Born(d) ==
  [at |-> d.at, age |-> 1, lost |-> 0, sup |-> SupportedAgain(0, d),
   matched |-> TRUE, past |-> <<Outcome(d)>>]

Assigned(trks, d) ==
  LET best == Continues(trks, d)
  IN  IF best = {} THEN Append(trks, Born(d))
      ELSE [k \in DOMAIN trks |-> IF k \in best THEN Matched(trks[k], d) ELSE trks[k]]

KeptIfThere(trks, t) == IF t.lost <= MaxMissed THEN Append(trks, t) ELSE trks
Confirms(t) == t.lost = 0 /\ t.age >= MinAge /\ t.sup >= MinSupport

(* The tracks after a frame.                                               *)
Tracked(dets) ==
  FoldLeft(KeptIfThere, <<>>,
           FoldLeft(Assigned, [k \in DOMAIN pTracks |-> Aging(pTracks[k])], dets))

(* The first track that is confirmed is the lock.                          *)
Search(dets) ==
  /\ ~pLock.locked
  /\ \E trks \in {Tracked(dets)} :
     LET found == {k \in DOMAIN trks : Confirms(trks[k])}
         first == trks[Min(found)]
     IN
     IF found = {} THEN pTracks' = trks /\ pLock' = pLock /\ pTarget' = NoPoint
     ELSE /\ pTracks' = <<>>
          /\ pLock' = [locked |-> TRUE, at |-> first.at, lost |-> 0, past |-> first.past]
          /\ pTarget' = first.at

(* The scan of the locked gate, which moves the lock as it goes.           *)
Nearer(best, d) ==
  IF Apart(best.at, d.at) < best.dist THEN [at |-> d.at, dist |-> Apart(best.at, d.at)] ELSE best

Follow(dets) ==
  /\ pLock.locked
  /\ LET best == FoldLeft(Nearer, [at |-> pLock.at, dist |-> AssocDist], dets)
     IN
     IF best.dist < AssocDist
     THEN /\ pLock' = [pLock EXCEPT !.at = best.at, !.lost = 0]
          /\ pTarget' = best.at
     ELSE /\ pLock' = IF pLock.lost + 1 > MaxMissed THEN Unlocked
                      ELSE [pLock EXCEPT !.lost = @ + 1]
          /\ pTarget' = NoPoint
  /\ UNCHANGED pTracks

GateReset ==
  /\ pTracks' = <<>> /\ pLock' = Unlocked
  /\ UNCHANGED pTarget

GateNext ==
  /\ updates < MaxUpdates /\ updates' = updates + 1
  /\ \/ \E dets \in Boxes : Search(dets) \/ Follow(dets)
     \/ GateReset

GateSpec == GateInit /\ [][GateNext]_gateVars

-----------------------------------------------------------------------------
Hits(past) == {i \in DOMAIN past : past[i] # "missed"}
HitsAfter(past, i) == {j \in Hits(past) : j > i}
Gap(past, i) == \A j \in i .. i + MaxMissed : past[j] = "missed"

Earned(past) ==
  /\ Cardinality(Hits(past)) >= MinAge /\ Cardinality(Hits(past)) >= MinSupport
  /\ \A i \in Hits(past) :
       Cardinality(HitsAfter(past, i)) < MinSupport => past[i] = "supported"
  /\ Last(past) # "missed"
  /\ ~\E i \in 1 .. Len(past) - MaxMissed : Gap(past, i)

(***************************************************************************)
(* "confirm a detection that persists with caller-supplied support for     *)
(* consecutive frames, then latch onto it until it is lost"                *)
(* (persistence_gate.hpp:25): a lock was earned by what its track had been *)
(* through, frame by frame and whichever tracks lay near it, and no track  *)
(* that has earned one waits for it.  A frame that misses the detection    *)
(* neither counts nor starts the count again.                              *)
(***************************************************************************)
GateEarned ==
  /\ pLock.locked => Earned(pLock.past)
  /\ ~pLock.locked => \A k \in DOMAIN pTracks : ~Earned(pTracks[k].past)
=============================================================================
