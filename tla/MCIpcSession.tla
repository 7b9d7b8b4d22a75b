---------------------------- MODULE MCIpcSession ----------------------------
(* A small instance of IpcSession.                                         *)
EXTENDS IpcSession

CONSTANTS c1, c2
TwoConsumers == {c1, c2}
Anybody == TwoConsumers \union {Producer}
=============================================================================
