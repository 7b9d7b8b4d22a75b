----------------------------- MODULE MCDetGate -----------------------------
(* Instances of DetGate for TLC. *)
EXTENDS DetGate

ThreePlaces == 0 .. 2
FourPlaces == 0 .. 3
=============================================================================
