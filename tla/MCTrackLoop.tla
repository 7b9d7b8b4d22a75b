---------------------------- MODULE MCTrackLoop ----------------------------
(* Small instances of TrackLoop.                                           *)
EXTENDS TrackLoop
=============================================================================
