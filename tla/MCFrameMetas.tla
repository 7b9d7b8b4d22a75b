---------------------------- MODULE MCFrameMetas ----------------------------
(* An instance of FrameMetas for TLC. *)
EXTENDS FrameMetas
=============================================================================
