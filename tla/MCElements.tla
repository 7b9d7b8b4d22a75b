----------------------------- MODULE MCElements -----------------------------
(* The elements and helpers that keep state of their own and share none    *)
(* with each other, checked in one run: a behaviour is one of one of them. *)
EXTENDS InferInterval, SamuraiMemory, SamuraiBox, SharedMemory, FlowPath, Compositor,
        Setup, FrameMetas, PersistenceGate, YoloParser, TLC

VARIABLE part  (* Whose behaviour it is.                                   *)

Parts == {"interval", "memory", "box", "shm", "flow", "compositor", "setup", "metas", "gate",
          "parser"}

TwoPads == 1 .. 2
ThreePoints == 0 .. 2
SomeSpans == {<<0, 4>>, <<1, 5>>, <<3, 7>>}
TwoLabels == {0, 1}
SomeScores == 0 .. 2
SomeProposals == {<<0, 0>>, <<1, 2>>, <<2, 3>>, <<2, 4>>, <<4, 8>>}

(* The others stay in one of their initial states.                         *)
Init ==
  /\ part \in Parts
  /\ IntervalInit /\ MemoryInit /\ BoxInit /\ ShmInit /\ CompositorInit /\ MetasInit
  /\ GateInit /\ ParseInit
  /\ FlowInit /\ (part = "flow" \/ ~modified)
  /\ SetupInit /\ (part = "setup" \/ Owner = "ofa")

Next ==
  /\ UNCHANGED part
  /\ \/ part = "interval" /\ IntervalNext
     \/ part = "memory" /\ MemoryNext
     \/ part = "box" /\ BoxNext
     \/ part = "shm" /\ ShmNext
     \/ part = "flow" /\ FlowNext
     \/ part = "compositor" /\ CompositorNext
     \/ part = "setup" /\ SetupNext
     \/ part = "metas" /\ MetasNext
     \/ part = "gate" /\ GateNext
     \/ part = "parser" /\ ParseNext
  /\ part # "interval" => UNCHANGED intervalVars
  /\ part # "memory" => UNCHANGED memoryVars
  /\ part # "box" => UNCHANGED boxVars
  /\ part # "shm" => UNCHANGED shmVars
  /\ part # "flow" => UNCHANGED flowVars
  /\ part # "compositor" => UNCHANGED padVars
  /\ part # "setup" => UNCHANGED setupVars
  /\ part # "metas" => UNCHANGED metaVars
  /\ part # "gate" => UNCHANGED gateVars
  /\ part # "parser" => UNCHANGED parseVars

vars == <<part, intervalVars, memoryVars, boxVars, shmVars, flowVars, padVars, setupVars,
          metaVars, gateVars, parseVars>>

Spec == Init /\ [][Next]_vars

(* Bound: planes mapped at a time.                                         *)
FewMapped == Cardinality({m \in Memories : mapping[m] # None}) <= 2

Interchangeable == Permutations(Memories) \union Permutations(Planes)
=============================================================================
