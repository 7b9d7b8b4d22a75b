----------------------------- MODULE YoloParser -----------------------------
(***************************************************************************)
(* From the tensor of one frame to its objects                             *)
(* (gst/nvmminfer/yolo_parser.cpp).  Boxes are spans of one direction, the *)
(* other being alike, and coordinates and scores are small integers.       *)
(***************************************************************************)
EXTENDS Integers, Sequences, FiniteSets, SequencesExt

CONSTANTS
  Spans,          (* Boxes a proposal can have, in pixels of the network.  *)
  Labels,         (* The classes, 0 .. num_classes - 1.                    *)
  Scores,
  ConfThreshold,  (* conf_threshold, ...                                   *)
  IouPercent,     (* ... and iou_threshold in hundredths.                  *)
  PadX, InvScale, (* The letterbox, ...                                    *)
  FrameW,         (* ... and the size of the frame.                        *)
  MaxKept,        (* NVMM_META_MAX_OBJECTS.                                *)
  MaxProposals    (* Bound: num_proposals.                                 *)

ASSUME YoloAssumption ==
  /\ Labels \subseteq Nat /\ Scores \subseteq Nat /\ Spans \subseteq Int \X Int
  /\ {ConfThreshold, IouPercent, PadX, FrameW, MaxKept, MaxProposals} \subseteq Nat
  /\ InvScale \in Nat \ {0}

VARIABLES
  cands,          (* The candidates, sorted.                               *)
  objects,        (* The objects: the numbers of the candidates, in order. *)
  over            (* truncated.                                            *)

parseVars == <<cands, objects, over>>

ParseInit == cands = <<>> /\ objects = <<>> /\ over = FALSE

-----------------------------------------------------------------------------
Lower(a, b) == IF a < b THEN a ELSE b
Higher(a, b) == IF a < b THEN b ELSE a

(* The IoU of two boxes is above the threshold.                            *)
Iou(a, b) ==
  LET inter == Higher(0, Lower(a.hi, b.hi) - Higher(a.lo, b.lo))
      both == (a.hi - a.lo) + (b.hi - b.lo) - inter
  IN  both > 0 /\ 100 * inter > IouPercent * both

(* In the frame: the padding taken off, scaled and clipped.                *)
InFrame(x) == Lower(FrameW, Higher(0, (x - PadX) * InvScale))

(* A proposal is its span and a score for each class.  It is a candidate   *)
(* with the first class of the highest score, if that is above the         *)
(* threshold and something of the box is in the frame.                     *)
Proposed == [span : Spans, score : [Labels -> Scores]]

Best(p) ==
  CHOOSE k \in Labels :
    \A j \in Labels : /\ p.score[j] <= p.score[k]
                     /\ j < k => p.score[j] < p.score[k]

Candidate(p) ==
  [lo |-> InFrame(p.span[1]), hi |-> InFrame(p.span[2]), cls |-> Best(p),
   score |-> p.score[Best(p)]]

IsCandidate(p) == Candidate(p).score > ConfThreshold /\ Candidate(p).lo < Candidate(p).hi

(* std::sort: any order among equals.                                      *)
Sorted(s) == \A i, j \in DOMAIN s : i < j => s[i].score >= s[j].score

Suppresses(a, b) == a.cls = b.cls /\ Iou(a, b)

(* Mutant: full is full, whatever is left.                                 *)
ConsideredCounting(loop, a) ==
  LET removed == {b \in a + 1 .. Len(loop.cands) : Suppresses(loop.cands[a], loop.cands[b])}
  IN  IF loop.over \/ Len(loop.kept) >= MaxKept THEN [loop EXCEPT !.over = TRUE]
      ELSE IF a \in loop.removed THEN loop
      ELSE [loop EXCEPT !.removed = @ \union removed, !.kept = Append(@, a)]

(* One round of the outer loop, which the break ends.                      *)
Considered(loop, a) ==
  LET removed == {b \in a + 1 .. Len(loop.cands) : Suppresses(loop.cands[a], loop.cands[b])}
  IN  IF loop.over \/ a \in loop.removed THEN loop
      ELSE IF Len(loop.kept) >= MaxKept THEN [loop EXCEPT !.over = TRUE]
      ELSE [loop EXCEPT !.removed = @ \union removed, !.kept = Append(@, a)]

Suppressed(s) ==
  FoldLeft(Considered, [cands |-> s, removed |-> {}, kept |-> <<>>, over |-> FALSE],
           [a \in DOMAIN s |-> a])

Parse(tensor) ==
  /\ LET passing == {i \in DOMAIN tensor : IsCandidate(tensor[i])}
     IN  cands' \in {[i \in DOMAIN order |-> Candidate(tensor[order[i]])] :
                       order \in SetToSeqs(passing)}
  /\ Sorted(cands')
  /\ objects' = Suppressed(cands').kept
  /\ over' = Suppressed(cands').over

Tensors == UNION {[1 .. n -> Proposed] : n \in 0 .. MaxProposals}

(* Bound: one frame, as no frame depends on another.                       *)
ParseNext == cands = <<>> /\ \E tensor \in Tensors : Parse(tensor)

ParseSpec == ParseInit /\ [][ParseNext]_parseVars

-----------------------------------------------------------------------------
Answered(b) == \E a \in ToSet(objects) : a < b /\ Suppresses(cands[a], cands[b])

(***************************************************************************)
(* "the count clamped to NVMM_META_MAX_OBJECTS and sets truncated on       *)
(* overflow" (yolo_parser.hpp:27): the objects are the best candidates of  *)
(* which no two of a class are one, every other candidate is one with a    *)
(* better object of its class or was left out for lack of room, and only   *)
(* then the frame says so: a full frame that lost only duplicates is not   *)
(* truncated.                                                              *)
(***************************************************************************)
ParsedExact ==
  LET left == {b \in DOMAIN cands \ ToSet(objects) : ~Answered(b)}
  IN  /\ \A b \in ToSet(objects) : ~Answered(b)
      /\ \A i, j \in DOMAIN objects : i < j => objects[i] < objects[j]
      /\ over = (left # {})
      /\ over => Len(objects) = MaxKept
      /\ \A b \in left, a \in ToSet(objects) : a < b
=============================================================================
