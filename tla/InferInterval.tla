--------------------------- MODULE InferInterval ---------------------------
(***************************************************************************)
(* Which frames nvmminfer runs the detector on                             *)
(* (gst/nvmminfer/gstnvmminfer.cpp): every infer-interval-th one, but      *)
(* every one until infer-gate-frames inferred frames in a row have had a   *)
(* detection.  Whether a frame can be inferred and what is on it is the    *)
(* environment's.                                                          *)
(***************************************************************************)
EXTENDS Integers, Sequences

CONSTANTS
  Interval,    (* infer-interval.                                          *)
  GateFrames   (* infer-gate-frames.                                       *)

ASSUME InferIntervalAssumption ==
  Interval \in Nat \ {0} /\ GateFrames \in Nat

VARIABLES
  inferStarted, (* Between start() and stop().                             *)
  seenFrames,  (* seen_frames, modulo the interval.                        *)
  acqRun,      (* acq_run, counted up to GateFrames.                       *)
  (* History: *)
  skipped,     (* frames in a row that were passed by, counted up to       *)
               (* Interval;                                                *)
  recent       (* whether each of the last GateFrames inferred frames had  *)
               (* a detection.                                             *)

intervalVars == <<inferStarted, seenFrames, acqRun, skipped, recent>>

IntervalTypeOK ==
  /\ inferStarted \in BOOLEAN
  /\ seenFrames \in 0 .. Interval - 1
  /\ acqRun \in 0 .. GateFrames
  /\ skipped \in 0 .. Interval
  /\ recent \in Seq(BOOLEAN) /\ Len(recent) <= GateFrames

IntervalInit ==
  /\ inferStarted = FALSE
  /\ seenFrames = 0
  /\ acqRun = 0
  /\ skipped = 0
  /\ recent = <<>>

GateOpen == GateFrames = 0 \/ acqRun >= GateFrames

(* The frame is counted only where the count decides anything.             *)
Decimates == Interval > 1 /\ GateOpen

(* Mutants of CountFrame: only inferred frames count; or the count never   *)
(* wraps.                                                                  *)
CountInferred == seenFrames' = IF Decimates /\ seenFrames = 0 THEN 1 % Interval ELSE seenFrames
CountOn == seenFrames' = IF Decimates THEN seenFrames + 1 ELSE seenFrames

CountFrame == seenFrames' = IF Decimates THEN (seenFrames + 1) % Interval ELSE seenFrames
InferDue == ~Decimates \/ seenFrames = 0

SkipFrame ==
  /\ inferStarted /\ ~InferDue
  /\ CountFrame
  /\ skipped' = IF skipped < Interval THEN skipped + 1 ELSE skipped
  /\ UNCHANGED <<inferStarted, acqRun, recent>>

(* The last n of a sequence and one more.                                  *)
Slid(s, x, n) ==
  IF n = 0 THEN <<>>
  ELSE IF Len(s) < n THEN Append(s, x) ELSE Append(Tail(s), x)

(* Mutant of Infer: a frame without a detection ends nothing.              *)
InferOn(found) ==
  /\ inferStarted /\ InferDue
  /\ CountFrame
  /\ acqRun' = IF found /\ acqRun < GateFrames THEN acqRun + 1 ELSE acqRun
  /\ skipped' = 0
  /\ recent' = Slid(recent, found, GateFrames)
  /\ UNCHANGED inferStarted

Infer(found) ==
  /\ inferStarted /\ InferDue
  /\ CountFrame
  /\ acqRun' = IF ~found THEN 0 ELSE IF acqRun < GateFrames THEN acqRun + 1 ELSE acqRun
  /\ skipped' = 0
  /\ recent' = Slid(recent, found, GateFrames)
  /\ UNCHANGED inferStarted

(* No surface, no frame size, or CUDA or TensorRT fail.                    *)
FailFrame ==
  /\ inferStarted /\ InferDue
  /\ CountFrame
  /\ skipped' = 0
  /\ UNCHANGED <<inferStarted, acqRun, recent>>

(* start() sets neither counter back.                                      *)
StartInfer ==
  /\ ~inferStarted
  /\ inferStarted' = TRUE
  /\ UNCHANGED <<seenFrames, acqRun, skipped, recent>>

StopInfer ==
  /\ inferStarted
  /\ inferStarted' = FALSE
  /\ UNCHANGED <<seenFrames, acqRun, skipped, recent>>

IntervalNext ==
  \/ SkipFrame
  \/ \E found \in BOOLEAN : Infer(found)
  \/ FailFrame
  \/ StartInfer
  \/ StopInfer

IntervalSpec == IntervalInit /\ [][IntervalNext]_intervalVars

-----------------------------------------------------------------------------
(* Properties.                                                             *)

(* "Costs up to N-1 frames" (gstnvmminfer.cpp:497): however the gate opens *)
(* and shuts, frames fail and the element is restarted, no more than       *)
(* infer-interval - 1 frames in a row are passed by.                       *)
SkipsBounded == skipped < Interval

(* "Hold infer-interval OFF until this many consecutive inferred frames    *)
(* have produced a detection, and re-arm the hold as soon as one produces  *)
(* none" (gstnvmminfer.cpp:501): whatever fails in between, a frame is     *)
(* passed by only while each of the last infer-gate-frames inferred ones   *)
(* had a detection.  They may be of the stream before a restart, for the   *)
(* count survives stop().                                                  *)
HoldEarned ==
  [][skipped' > skipped =>
       Len(recent) = GateFrames /\ \A i \in DOMAIN recent : recent[i]]_intervalVars
=============================================================================
