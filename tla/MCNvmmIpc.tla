----------------------------- MODULE MCNvmmIpc -----------------------------
(* Instances of NvmmIpc for TLC. *)
EXTENDS NvmmIpc

CONSTANTS c1, c2

OneReader == {c1}
TwoReaders == {c1, c2}
=============================================================================
