----------------------------- MODULE MCPipeline -----------------------------
(* An instance of Pipeline for TLC. *)
EXTENDS Pipeline, TLC

ThreeIds == 1 .. 3
ThreePlaces == 0 .. 2
Things == Permutations(Classes)
=============================================================================
