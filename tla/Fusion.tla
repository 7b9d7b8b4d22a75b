------------------------------- MODULE Fusion -------------------------------
(***************************************************************************)
(* nvmmfusion: the join by PTS of the two branches a tee splits a stream   *)
(* into, detection and flow (gst/nvmmfusion/gstnvmmfusion.cpp).            *)
(*                                                                         *)
(* Around the element: the tee pushes every frame to the detection branch  *)
(* and then to the flow branch, and waits when the branch is full; in a    *)
(* branch a frame is queued, then delivered to the pad of nvmmfusion, or   *)
(* lost; a pad is full until the element takes from it.  Every stage is a  *)
(* thread of its own.  Frames are numbered in stream order, the number is  *)
(* the PTS of those that have one, and what is in a queue is a set of      *)
(* numbers whose head is its least.                                        *)
(***************************************************************************)
EXTENDS Naturals, FiniteSets

CONSTANTS
  MaxFrames,   (* Bound: frames of the stream.                             *)
  Stamped,     (* The frames with a valid PTS.                             *)
  QueueSize,   (* Frames that fit in a branch before the pad.              *)
  PadSize,     (* Frames that fit in a pad.                                *)
  MaxLost      (* Frames a branch may lose in a row.                       *)

ASSUME FusionAssumption ==
  /\ {MaxFrames, MaxLost} \subseteq Nat
  /\ {QueueSize, PadSize} \subseteq Nat \ {0}
  /\ Stamped \subseteq 1 .. MaxFrames

Frames == 1 .. MaxFrames
Branches == {"detection", "flow"}
Other(b) == IF b = "detection" THEN "flow" ELSE "detection"

VARIABLES
  next,        (* The frame the tee pushes ...                             *)
  target,      (* ... and the branch it pushes it to.                      *)
  teeEos,      (* The stream has ended at the tee.                         *)
  branch,      (* The frames queued in each branch.                        *)
  lost,        (* Frames each branch has lost since it last delivered one. *)
  pad,         (* The frames queued at each pad of nvmmfusion ...          *)
  padEos,      (* ... and whether the stream ends behind them.             *)
  fused,       (* The pairs pushed downstream, [detection, flow].          *)
  ended,       (* aggregate() has returned GST_FLOW_EOS.                   *)
  delivered    (* History: the frames each pad ever got.                   *)

teeVars == <<next, target, teeEos>>
vars == <<next, target, teeEos, branch, lost, pad, padEos, fused, ended, delivered>>

Full(S, size) == Cardinality(S) >= size
IsHead(x, S) == x \in S /\ \A y \in S : x <= y

(* No queue ever holds more than fits.                                     *)
WithinSizes ==
  \A b \in Branches : /\ Cardinality(branch[b]) <= QueueSize
                      /\ Cardinality(pad[b]) <= PadSize

TypeOK ==
  /\ next \in 1 .. MaxFrames + 1
  /\ target \in Branches
  /\ teeEos \in BOOLEAN
  /\ branch \in [Branches -> SUBSET Frames]
  /\ lost \in [Branches -> 0 .. MaxLost]
  /\ pad \in [Branches -> SUBSET Frames]
  /\ padEos \in [Branches -> BOOLEAN]
  /\ fused \subseteq [detection : Frames, flow : Frames]
  /\ ended \in BOOLEAN
  /\ delivered \in [Branches -> SUBSET Frames]
  /\ WithinSizes

Init ==
  /\ next = 1
  /\ target = "detection"
  /\ teeEos = FALSE
  /\ branch = [b \in Branches |-> {}]
  /\ lost = [b \in Branches |-> 0]
  /\ pad = [b \in Branches |-> {}]
  /\ padEos = [b \in Branches |-> FALSE]
  /\ fused = {}
  /\ ended = FALSE
  /\ delivered = [b \in Branches |-> {}]

-----------------------------------------------------------------------------
(* Around the element.                                                     *)

TeePush ==
  /\ ~teeEos
  /\ next <= MaxFrames
  /\ ~Full(branch[target], QueueSize)
  /\ branch' = [branch EXCEPT ![target] = @ \union {next}]
  /\ target' = Other(target)
  /\ next' = IF target = "flow" THEN next + 1 ELSE next
  /\ UNCHANGED <<teeEos, lost, pad, padEos, fused, ended, delivered>>

(* The stream ends, between two frames.                                    *)
TeeEnds ==
  /\ ~teeEos
  /\ target = "detection"
  /\ teeEos' = TRUE
  /\ UNCHANGED <<next, target, branch, lost, pad, padEos, fused, ended, delivered>>

(* The elements of branch b hand its first frame on to the pad, which      *)
(* takes none after the end.                                               *)
Deliver(b) ==
  /\ ~ended
  /\ ~Full(pad[b], PadSize)
  /\ \E x \in branch[b] :
       /\ IsHead(x, branch[b])
       /\ branch' = [branch EXCEPT ![b] = @ \ {x}]
       /\ pad' = [pad EXCEPT ![b] = @ \union {x}]
       /\ delivered' = [delivered EXCEPT ![b] = @ \union {x}]
  /\ lost' = [lost EXCEPT ![b] = 0]
  /\ UNCHANGED <<teeVars, padEos, fused, ended>>

(* A frame is lost in branch b.                                            *)
Lose(b) ==
  /\ lost[b] < MaxLost
  /\ \E x \in branch[b] :
       /\ IsHead(x, branch[b])
       /\ branch' = [branch EXCEPT ![b] = @ \ {x}]
  /\ lost' = [lost EXCEPT ![b] = @ + 1]
  /\ UNCHANGED <<teeVars, pad, padEos, fused, ended, delivered>>

(* The end of the stream reaches the pad, behind the last frame.           *)
DeliverEos(b) ==
  /\ ~ended
  /\ teeEos
  /\ branch[b] = {}
  /\ ~padEos[b]
  /\ padEos' = [padEos EXCEPT ![b] = TRUE]
  /\ UNCHANGED <<teeVars, branch, lost, pad, fused, ended, delivered>>

-----------------------------------------------------------------------------
(* aggregate(): called when each pad has a frame or has ended.             *)

(* Mutant: any two heads are a pair.                                       *)
PairUnchecked(d, f) == TRUE

(* Two heads are a pair unless both are stamped, differently.              *)
Pair(d, f) == d \in Stamped /\ f \in Stamped => d = f

(* A pad has ended once its last frame is taken: so has the join.          *)
End(b) ==
  /\ ~ended
  /\ pad[b] = {} /\ padEos[b]
  /\ pad[Other(b)] # {} \/ padEos[Other(b)]
  /\ ended' = TRUE
  /\ UNCHANGED <<teeVars, branch, lost, pad, padEos, fused, delivered>>

(* Mutant: the newer head is dropped.                                      *)
DropNewer(b) ==
  /\ ~ended
  /\ \E x \in pad[b], y \in pad[Other(b)] :
       /\ IsHead(x, pad[b]) /\ IsHead(y, pad[Other(b)])
       /\ ~Pair(x, y)
       /\ x > y
       /\ pad' = [pad EXCEPT ![b] = @ \ {x}]
  /\ UNCHANGED <<teeVars, branch, lost, padEos, fused, ended, delivered>>

(* Mutant: only the detection branch is resynchronised.                    *)
DropDetection(b) ==
  /\ ~ended
  /\ \E x \in pad["detection"], y \in pad["flow"] :
       /\ IsHead(x, pad["detection"]) /\ IsHead(y, pad["flow"])
       /\ ~Pair(x, y)
       /\ x < y
       /\ pad' = [pad EXCEPT !["detection"] = @ \ {x}]
  /\ UNCHANGED <<teeVars, branch, lost, padEos, fused, ended, delivered>>

(* The head of b is older than the other head, and dropped.                *)
DropOlder(b) ==
  /\ ~ended
  /\ \E x \in pad[b], y \in pad[Other(b)] :
       /\ IsHead(x, pad[b]) /\ IsHead(y, pad[Other(b)])
       /\ ~Pair(x, y)
       /\ x < y
       /\ pad' = [pad EXCEPT ![b] = @ \ {x}]
  /\ UNCHANGED <<teeVars, branch, lost, padEos, fused, ended, delivered>>

(* The heads are a pair: both are taken, and the detection buffer goes out *)
(* with the flow of the other.                                             *)
Fuse ==
  /\ ~ended
  /\ \E d \in pad["detection"], f \in pad["flow"] :
       /\ IsHead(d, pad["detection"]) /\ IsHead(f, pad["flow"])
       /\ Pair(d, f)
       /\ pad' = [detection |-> pad["detection"] \ {d}, flow |-> pad["flow"] \ {f}]
       /\ fused' = fused \union {[detection |-> d, flow |-> f]}
  /\ UNCHANGED <<teeVars, branch, lost, padEos, ended, delivered>>

Next ==
  \/ TeePush \/ TeeEnds \/ Fuse
  \/ \E b \in Branches :
       Deliver(b) \/ Lose(b) \/ DeliverEos(b) \/ End(b) \/ DropOlder(b)

Spec == Init /\ [][Next]_vars

(* The tee, each branch and the aggregator are threads that run when they  *)
(* can; nothing forces a branch to lose a frame.                           *)
Fairness ==
  /\ WF_vars(TeePush \/ (next > MaxFrames /\ TeeEnds))
  /\ WF_vars(Fuse \/ \E b \in Branches : End(b) \/ DropOlder(b))
  /\ \A b \in Branches : WF_vars(Deliver(b) \/ DeliverEos(b))

FairSpec == Spec /\ Fairness

-----------------------------------------------------------------------------
(***************************************************************************)
(* A stamped flow field is only ever attached to the frame it was computed *)
(* from.  Nothing is promised of frames without a PTS: two heads of which  *)
(* one has none are taken for a pair.                                      *)
(***************************************************************************)
PairsOneFrame ==
  \A p \in fused : p.detection \in Stamped /\ p.flow \in Stamped =>
                     p.detection = p.flow

StampedUpTo(x) == \A y \in Frames : y <= x => y \in Stamped

(***************************************************************************)
(* The join leaves out no frame it could have fused: as long as every      *)
(* frame has had a PTS, one that reached both pads is fused, or waits at   *)
(* both, whatever either branch lost; when the stream has ended none is    *)
(* left waiting.                                                           *)
(***************************************************************************)
JoinComplete ==
  \A x \in delivered["detection"] \intersect delivered["flow"] :
    StampedUpTo(x) =>
      \/ [detection |-> x, flow |-> x] \in fused
      \/ ~ended /\ x \in pad["detection"] /\ x \in pad["flow"]

(***************************************************************************)
(* No buffer is used twice or out of turn: the pairs leave in strictly     *)
(* increasing order of both their frames, with or without PTS.             *)
(***************************************************************************)
FusedInOrder ==
  \A p, q \in fused : p # q =>
    \/ p.detection < q.detection /\ p.flow < q.flow
    \/ q.detection < p.detection /\ q.flow < p.flow

(***************************************************************************)
(* What is fused is right: lost frames and frames without a PTS may shift  *)
(* the pairing of others, never that of two stamped frames, and every pair *)
(* takes the stream on.                                                    *)
(***************************************************************************)
FusedExact == PairsOneFrame /\ FusedInOrder

(***************************************************************************)
(* "on a mismatch the older head is dropped, so a lost frame self-heals"   *)
(* (gstnvmmfusion.cpp:62): branches that lose fewer frames in a row than   *)
(* a branch and its pad hold never bring the tee, and with it the stream,  *)
(* to a stop.  A frame without a PTS that is paired with another counts    *)
(* as one more that was lost.                                              *)
(***************************************************************************)
StreamEnds == <>ended
=============================================================================
