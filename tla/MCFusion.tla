------------------------------ MODULE MCFusion ------------------------------
(* Instances of Fusion for TLC. *)
EXTENDS Fusion

(* The fourth frame has no PTS.                                            *)
MostStamped == (1 .. MaxFrames) \ {4}
=============================================================================
