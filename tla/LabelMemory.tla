---------------------------- MODULE LabelMemory ----------------------------
(***************************************************************************)
(* What nvmmsecondaryinfer promises of its labels, with no frame numbers   *)
(* and no cache: a track keeps the label it was last given until it has    *)
(* been out of sight for Patience frames in a row.                         *)
(***************************************************************************)
EXTENDS Naturals

CONSTANTS
  Ids,         (* Track ids.                                               *)
  Classes,     (* What a track can be labelled ...                         *)
  NoLabel,     (* ... and what it is when it is not.                       *)
  Patience     (* Frames out of sight after which a label is forgotten.    *)

VARIABLES
  shown,       (* The tracks in the frame that passed last.                *)
  label,       (* The label of each track.                                 *)
  gap          (* Frames a labelled track has been out of sight.           *)

Forgotten(i) == gap[i] >= Patience

Init ==
  /\ shown = {}
  /\ label = [i \in Ids |-> NoLabel]
  /\ gap = [i \in Ids |-> 0]

(* A frame shows the tracks in seen and may teach new labels of them.      *)
Frame(seen) ==
  /\ shown' = seen
  /\ gap' = [i \in Ids |->
               IF i \in seen \/ label[i] = NoLabel \/ Forgotten(i) THEN 0
               ELSE gap[i] + 1]
  /\ \E learned \in [Ids -> Classes \union {NoLabel}] :
       /\ \A i \in Ids \ seen : learned[i] = NoLabel
       /\ label' = [i \in Ids |->
                      IF learned[i] # NoLabel THEN learned[i]
                      ELSE IF Forgotten(i) THEN NoLabel
                      ELSE label[i]]

Reset ==
  /\ shown' = {}
  /\ label' = [i \in Ids |-> NoLabel]
  /\ gap' = [i \in Ids |-> 0]

Next == Reset \/ \E seen \in SUBSET Ids : Frame(seen)

Spec == Init /\ [][Next]_<<shown, label, gap>>
=============================================================================
