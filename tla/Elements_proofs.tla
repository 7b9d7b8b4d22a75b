--------------------------- MODULE Elements_proofs ---------------------------
(***************************************************************************)
(* What holds of the elements and helpers that keep state of their own and *)
(* share none with each other, each for every value of its constants: the  *)
(* decimation of nvmminfer (InferInterval), the metas on a buffer          *)
(* (FrameMetas), the frames of nvmmconvert and nvmmofa (FlowPath), the     *)
(* memories they come in (SharedMemory) and the rounds of nvmmcompositor   *)
(* (Compositor), the memory and the box of nvmmsamurai (SamuraiMemory,     *)
(* SamuraiBox), the parser of nvmminfer (YoloParser), the gate of the      *)
(* analytics library (PersistenceGate), and what each of them takes and    *)
(* gives back (Setup).                                                     *)
(***************************************************************************)
EXTENDS InferInterval, FrameMetas, FlowPath, SharedMemory, Compositor,
        SamuraiMemory, SamuraiBox, YoloParser, PersistenceGate, Setup, FiniteSetTheorems,
        WellFoundedInduction, TLAPS

Considering == INSTANCE Folding WITH Op <- Considered

-----------------------------------------------------------------------------
(* The decimation of nvmminfer.                                            *)

(* Counting from an inferred frame, no more frames have been passed by     *)
(* than the phase of the interval has moved on; at phase 0 that is all but *)
(* one of them.                                                            *)
PhaseBound == skipped <= IF seenFrames = 0 THEN Interval - 1 ELSE seenFrames - 1

(* acq_run counts the detections at the end of the history.                *)
RunRecorded ==
  /\ acqRun <= Len(recent)
  /\ \A i \in 1 .. Len(recent) : i > Len(recent) - acqRun => recent[i]

IntervalInv == IntervalTypeOK /\ PhaseBound /\ RunRecorded

LEMMA IntervalInitial == IntervalInit => IntervalInv
<1> SUFFICES ASSUME IntervalInit PROVE IntervalInv
  OBVIOUS
<1>1. recent \in Seq(BOOLEAN) /\ Len(recent) = 0
  BY DEF IntervalInit
<1>2. inferStarted \in BOOLEAN
  BY DEF IntervalInit
<1>3. /\ seenFrames \in 0 .. Interval - 1 /\ acqRun \in 0 .. GateFrames
      /\ skipped \in 0 .. Interval /\ Len(recent) <= GateFrames
  BY <1>1, InferIntervalAssumption DEF IntervalInit
<1>4. PhaseBound /\ RunRecorded
  BY <1>1, InferIntervalAssumption DEF IntervalInit, PhaseBound, RunRecorded
<1> QED
  BY <1>1, <1>2, <1>3, <1>4 DEF IntervalInv, IntervalTypeOK

(* The phase goes one step round the interval, or stands still.            *)
LEMMA PhaseMoves ==
  ASSUME IntervalInv, CountFrame
  PROVE  /\ seenFrames' \in 0 .. Interval - 1
         /\ Decimates => seenFrames' = IF seenFrames + 1 = Interval THEN 0
                                       ELSE seenFrames + 1
         /\ ~Decimates => seenFrames' = seenFrames
<1>1. Interval \in Nat \ {0} /\ seenFrames \in 0 .. Interval - 1
  BY InferIntervalAssumption DEF IntervalInv, IntervalTypeOK
<1>2. (seenFrames + 1) % Interval = IF seenFrames + 1 = Interval THEN 0 ELSE seenFrames + 1
  <2>1. CASE seenFrames + 1 = Interval
    <3>1. Interval % Interval = 0
      BY <1>1, Z3
    <3> QED BY <2>1, <3>1
  <2>2. CASE seenFrames + 1 # Interval
    <3>1. seenFrames + 1 \in 0 .. Interval - 1
      BY <1>1, <2>2
    <3> QED BY <1>1, <2>2, <3>1, Z3
  <2> QED BY <2>1, <2>2
<1> QED
  BY <1>1, <1>2 DEF CountFrame

LEMMA SkipKeeps == IntervalInv /\ SkipFrame => IntervalInv'
<1> SUFFICES ASSUME IntervalInv, SkipFrame PROVE IntervalInv'
  OBVIOUS
<1>1. CountFrame /\ Decimates /\ seenFrames # 0
  BY DEF SkipFrame, InferDue
<1>2. /\ seenFrames' \in 0 .. Interval - 1
      /\ seenFrames' = IF seenFrames + 1 = Interval THEN 0 ELSE seenFrames + 1
  BY <1>1, PhaseMoves
<1>3. skipped' \in 0 .. Interval /\ PhaseBound'
  BY <1>1, <1>2, InferIntervalAssumption DEF SkipFrame, IntervalInv, IntervalTypeOK, PhaseBound
<1>4. inferStarted' \in BOOLEAN
  BY DEF SkipFrame, IntervalInv, IntervalTypeOK
<1> QED
  BY <1>2, <1>3, <1>4 DEF SkipFrame, IntervalInv, IntervalTypeOK, RunRecorded

(* After an inferred or failed frame the phase is past 0, or stands still. *)
LEMMA InferredPhase ==
  ASSUME IntervalInv, InferDue, CountFrame, skipped' \in {0}
  PROVE  seenFrames' \in 0 .. Interval - 1 /\ skipped' \in 0 .. Interval /\ PhaseBound'
<1>1. Interval \in Nat \ {0} /\ seenFrames \in 0 .. Interval - 1
  BY InferIntervalAssumption DEF IntervalInv, IntervalTypeOK
<1>2. seenFrames' \in 0 .. Interval - 1
  BY PhaseMoves
<1>3. skipped' \in 0 .. Interval
  BY <1>1
<1>4. CASE seenFrames' = 0
  BY <1>1, <1>4 DEF PhaseBound
<1>5. CASE seenFrames' # 0
  <2>1. ASSUME NEW y \in 0 .. Interval - 1, y # 0 PROVE 0 <= y - 1
    BY <1>1, <2>1
  <2>2. 0 <= seenFrames' - 1
    BY <1>2, <1>5, <2>1, Zenon
  <2>3. PhaseBound'
    BY <1>5, <2>2 DEF PhaseBound
  <2> QED BY <1>2, <1>3, <2>3
<1> QED
  BY <1>2, <1>3, <1>4, <1>5

(* t is s after one more, x, with no more than n of them kept.             *)
IsSlid(t, s, x, n) ==
  /\ t \in Seq(BOOLEAN)
  /\ Len(t) = IF Len(s) < n THEN Len(s) + 1 ELSE n
  /\ n # 0 => t[Len(t)] = x
  /\ \A i \in 1 .. Len(t) - 1 : t[i] = IF Len(s) < n THEN s[i] ELSE s[i + 1]

(* The history after one more inferred frame.                              *)
LEMMA SlidHistory ==
  \A s \in Seq(BOOLEAN), x \in BOOLEAN, n \in Nat :
    Len(s) <= n => IsSlid(Slid(s, x, n), s, x, n)
<1> SUFFICES ASSUME NEW s \in Seq(BOOLEAN), NEW x \in BOOLEAN, NEW n \in Nat, Len(s) <= n
             PROVE  IsSlid(Slid(s, x, n), s, x, n)
  OBVIOUS
<1>1. CASE n = 0
  BY <1>1 DEF Slid, IsSlid
<1>2. CASE n # 0 /\ Len(s) < n
  BY <1>2 DEF Slid, IsSlid
<1>3. CASE n # 0 /\ Len(s) = n
  <2>1. s # <<>> /\ Tail(s) \in Seq(BOOLEAN) /\ Len(Tail(s)) = n - 1
    BY <1>3
  <2>2. \A i \in 1 .. n - 1 : Tail(s)[i] = s[i + 1]
    BY <1>3, <2>1
  <2>3. Slid(s, x, n) = Append(Tail(s), x)
    BY <1>3 DEF Slid
  <2> QED BY <1>3, <2>1, <2>2, <2>3 DEF IsSlid
<1> QED BY <1>1, <1>2, <1>3

LEMMA InferKeeps == ASSUME IntervalInv, NEW found \in BOOLEAN, Infer(found) PROVE IntervalInv'
<1>1. seenFrames' \in 0 .. Interval - 1 /\ skipped' \in 0 .. Interval /\ PhaseBound'
  BY InferredPhase DEF Infer
<1>2. /\ GateFrames \in Nat /\ acqRun \in 0 .. GateFrames
      /\ recent \in Seq(BOOLEAN) /\ Len(recent) \in Nat /\ Len(recent) <= GateFrames
      /\ acqRun <= Len(recent)
  BY InferIntervalAssumption DEF IntervalInv, IntervalTypeOK, RunRecorded
<1>3. acqRun' \in 0 .. GateFrames /\ acqRun' <= acqRun + 1 /\ (~found => acqRun' = 0)
  BY <1>2 DEF Infer
<1>4. recent' = Slid(recent, found, GateFrames)
  BY DEF Infer
<1>5. /\ recent' \in Seq(BOOLEAN)
      /\ Len(recent') = IF Len(recent) < GateFrames THEN Len(recent) + 1 ELSE GateFrames
      /\ GateFrames # 0 => recent'[Len(recent')] = found
      /\ \A i \in 1 .. Len(recent') - 1 :
           recent'[i] = IF Len(recent) < GateFrames THEN recent[i] ELSE recent[i + 1]
  <2>1. GateFrames \in Nat /\ recent \in Seq(BOOLEAN) /\ Len(recent) <= GateFrames
    BY <1>2
  <2>2. IsSlid(recent', recent, found, GateFrames)
    BY <1>4, <2>1, SlidHistory, Zenon
  <2> QED BY <2>2 DEF IsSlid
<1>6. acqRun' <= Len(recent') /\ Len(recent') <= GateFrames /\ Len(recent') \in Nat
  BY <1>2, <1>3, <1>5
<1>7. ASSUME NEW i \in 1 .. Len(recent'), i > Len(recent') - acqRun'
      PROVE  recent'[i]
  <2>1. found /\ GateFrames # 0
    BY <1>2, <1>3, <1>6, <1>7
  <2>2. CASE i = Len(recent')
    BY <1>5, <2>1, <2>2
  <2>3. CASE i # Len(recent')
    <3> DEFINE j == IF Len(recent) < GateFrames THEN i ELSE i + 1
    <3>1. i \in 1 .. Len(recent') - 1 /\ recent'[i] = recent[j]
      BY <1>5, <1>6, <2>3
    <3>2. j \in 1 .. Len(recent) /\ j > Len(recent) - acqRun
      <4>1. ASSUME NEW l \in Nat, NEW m \in Nat, NEW a \in Int, NEW b \in Int, NEW k \in Int,
                   m = IF l < GateFrames THEN l + 1 ELSE GateFrames, l <= GateFrames,
                   b <= a + 1, k > m - b, k \in 1 .. m - 1
            PROVE  /\ (IF l < GateFrames THEN k ELSE k + 1) \in 1 .. l
                   /\ (IF l < GateFrames THEN k ELSE k + 1) > l - a
        BY <1>2, <4>1
      <4>2. /\ Len(recent) \in Nat /\ Len(recent') \in Nat /\ acqRun \in Int
            /\ acqRun' \in Int /\ i \in Int
        BY <1>2, <1>3, <1>6
      <4> QED BY <1>2, <1>3, <1>5, <1>7, <3>1, <4>1, <4>2, Zenon
    <3>3. recent[j]
      BY <3>2 DEF IntervalInv, RunRecorded
    <3> QED BY <3>1, <3>3
  <2> QED BY <2>2, <2>3
<1>8. inferStarted' \in BOOLEAN
  BY DEF Infer, IntervalInv, IntervalTypeOK
<1>9. RunRecorded'
  BY <1>6, <1>7 DEF RunRecorded
<1> QED
  BY <1>1, <1>3, <1>5, <1>6, <1>8, <1>9 DEF IntervalInv, IntervalTypeOK

LEMMA IntervalStep == IntervalInv /\ [IntervalNext]_intervalVars => IntervalInv'
<1> SUFFICES ASSUME IntervalInv, [IntervalNext]_intervalVars PROVE IntervalInv'
  OBVIOUS
<1>1. CASE SkipFrame
  BY <1>1, SkipKeeps
<1>2. CASE \E found \in BOOLEAN : Infer(found)
  BY <1>2, InferKeeps
<1>3. CASE FailFrame
  <2>1. seenFrames' \in 0 .. Interval - 1 /\ skipped' \in 0 .. Interval /\ PhaseBound'
    BY <1>3, InferredPhase DEF FailFrame
  <2>2. inferStarted' \in BOOLEAN
    BY <1>3 DEF FailFrame, IntervalInv, IntervalTypeOK
  <2> QED BY <1>3, <2>1, <2>2 DEF FailFrame, IntervalInv, IntervalTypeOK, RunRecorded
<1>4. CASE StartInfer
  BY <1>4 DEF StartInfer, IntervalInv, IntervalTypeOK, PhaseBound, RunRecorded
<1>5. CASE StopInfer
  BY <1>5 DEF StopInfer, IntervalInv, IntervalTypeOK, PhaseBound, RunRecorded
<1>6. CASE UNCHANGED intervalVars
  BY <1>6 DEF intervalVars, IntervalInv, IntervalTypeOK, PhaseBound, RunRecorded
<1> QED
  BY <1>1, <1>2, <1>3, <1>4, <1>5, <1>6 DEF IntervalNext

LEMMA IntervalAlways == IntervalSpec => []IntervalInv
BY IntervalInitial, IntervalStep, PTL DEF IntervalSpec

(* The counters keep their types.                                          *)
THEOREM IntervalTypeCorrect == IntervalSpec => []IntervalTypeOK
BY IntervalAlways, PTL DEF IntervalInv

(* However the gate opens and shuts, frames fail and the element is        *)
(* restarted, no more than infer-interval - 1 frames in a row are passed   *)
(* by.                                                                     *)
THEOREM SkipsAreBounded == IntervalSpec => []SkipsBounded
<1>1. IntervalInv => SkipsBounded
  BY InferIntervalAssumption DEF IntervalInv, IntervalTypeOK, PhaseBound, SkipsBounded
<1> QED
  BY <1>1, IntervalAlways, PTL

(* A frame is passed by only while each of the last infer-gate-frames      *)
(* inferred frames had a detection.                                        *)
THEOREM HoldIsEarned == IntervalSpec => HoldEarned
<1>1. ASSUME IntervalInv, [IntervalNext]_intervalVars, skipped' > skipped
      PROVE  Len(recent) = GateFrames /\ \A i \in DOMAIN recent : recent[i]
  <2>1. skipped \in Nat
    BY <1>1, InferIntervalAssumption DEF IntervalInv, IntervalTypeOK
  <2>2. SkipFrame
    BY <1>1, <2>1 DEF IntervalNext, Infer, FailFrame, StartInfer, StopInfer, intervalVars
  <2>3. GateOpen
    BY <2>2 DEF SkipFrame, InferDue, Decimates
  <2>4. /\ GateFrames \in Nat /\ acqRun \in 0 .. GateFrames /\ recent \in Seq(BOOLEAN)
        /\ Len(recent) \in Nat /\ Len(recent) <= GateFrames /\ acqRun <= Len(recent)
        /\ DOMAIN recent = 1 .. Len(recent)
    BY <1>1, InferIntervalAssumption DEF IntervalInv, IntervalTypeOK, RunRecorded
  <2>5. acqRun = Len(recent) /\ Len(recent) = GateFrames
    <3>1. CASE GateFrames = 0
      BY <2>4, <3>1
    <3>2. CASE acqRun >= GateFrames
      <4>1. acqRun \in Int /\ GateFrames \in Int /\ Len(recent) \in Int
            /\ acqRun <= Len(recent) /\ Len(recent) <= GateFrames
        BY <2>4
      <4> QED BY <3>2, <4>1
    <3> QED BY <2>3, <3>1, <3>2 DEF GateOpen
  <2> QED
    BY <1>1, <2>4, <2>5 DEF IntervalInv, RunRecorded
<1> QED
  BY <1>1, IntervalAlways, PTL DEF IntervalSpec, HoldEarned

-----------------------------------------------------------------------------
(* The metas on a buffer.                                                  *)

Lists == Seq(Nat) \union {NoMeta}

(* The entries of a meta are for the detections, if it is there.           *)
Follows(meta) ==
  meta # NoMeta => det # NoMeta /\ ("detgate" \notin passed => meta = det)

MetasInv == det \in Lists /\ cls \in Lists /\ mot \in Lists /\ Follows(cls) /\ Follows(mot)

LEMMA NoMetaIsNoList == NoMeta \notin Seq(Nat)
<1>1. NoMeta[1] = -1 /\ 1 \in 1 .. Len(NoMeta) /\ -1 \notin Nat
  BY DEF NoMeta
<1>2. ASSUME NoMeta \in Seq(Nat) PROVE NoMeta[1] \in Nat
  BY <1>1, <1>2
<1> QED
  BY <1>1, <1>2

LEMMA DetectedIsList ==
  ASSUME NEW n \in Nat
  PROVE  Detected(n) \in Seq(Nat)
<1> DEFINE k == IF n < MaxObjects THEN n ELSE MaxObjects
<1>1. k \in Nat
  BY FrameMetasAssumption
<1>2. \A i \in 1 .. k : i \in Nat
  BY <1>1
<1>3. Detected(n) = [i \in 1 .. k |-> i]
  BY DEF Detected
<1> HIDE DEF k
<1> QED
  BY <1>1, <1>2, <1>3

LEMMA MetasInitial == MetasInit => MetasInv
BY DEF MetasInit, MetasInv, Follows, Lists

LEMMA MetasStep == MetasInv /\ [MetasNext]_metaVars => MetasInv'
<1> SUFFICES ASSUME MetasInv, [MetasNext]_metaVars PROVE MetasInv'
  OBVIOUS
<1> USE DEF MetasInv, Follows, Has
<1>1. ASSUME NEW n \in 0 .. MaxObjects + 1, InferMeta(n) PROVE MetasInv'
  <2>1. det' \in Lists
    BY <1>1, FrameMetasAssumption, DetectedIsList DEF InferMeta, Lists
  <2>2. cls = NoMeta /\ mot = NoMeta
    BY <1>1 DEF InferMeta
  <2> QED BY <1>1, <2>1, <2>2 DEF InferMeta
<1>2. ASSUME NEW n \in 0 .. MaxObjects + 1, NEW metaBlock \in BOOLEAN, Transport(metaBlock, n)
      PROVE  MetasInv'
  BY <1>2, FrameMetasAssumption, DetectedIsList DEF Transport, Lists
<1>3. CASE Classify
  BY <1>3 DEF Classify, Passes
<1>4. CASE AddFlow
  BY <1>4 DEF AddFlow, Passes
<1>5. CASE Gate
  <2>1. det \in Seq(Nat)
    BY <1>5 DEF Gate, Lists
  <2>2. det' \in Seq(Nat)
    <3>1. \A keep \in DOMAIN det : <<det[keep]>> \in Seq(Nat)
      <4>1. \A keep \in DOMAIN det : det[keep] \in Nat
        BY <2>1
      <4> QED BY <4>1
    <3>2. <<0>> \in Seq(Nat) /\ <<>> \in Seq(Nat)
      OBVIOUS
    <3> QED BY <1>5, <3>1, <3>2, Zenon DEF Gate
  <2>3. "detgate" \in passed'
    BY <1>5 DEF Gate, Passes
  <2> QED BY <1>5, <2>2, <2>3, NoMetaIsNoList DEF Gate, Lists
<1>6. CASE AddTrack
  BY <1>6 DEF AddTrack, Passes
<1>7. ASSUME NEW yes \in BOOLEAN, Fuse(yes) PROVE MetasInv'
  BY <1>7 DEF Fuse, MotionOf, Passes
<1>8. ASSUME NEW yes \in BOOLEAN, Transformed(yes) PROVE MetasInv'
  <2>1. CASE yes
    BY <1>8, <2>1 DEF Transformed, DetTransformed, ClassTransformed, MotionTransformed, Passes
  <2>2. CASE ~yes
    BY <1>8, <2>2 DEF Transformed, DetTransformed, ClassTransformed, MotionTransformed, Lists
  <2> QED BY <2>1, <2>2
<1>9. CASE UNCHANGED metaVars
  BY <1>9 DEF metaVars
<1> QED
  BY <1>1, <1>2, <1>3, <1>4, <1>5, <1>6, <1>7, <1>8, <1>9 DEF MetasNext

(***************************************************************************)
(* On every way a buffer can take through the elements the entries of the  *)
(* class and motion metas have their detections with them, and are for     *)
(* them until nvmmdetgate drops some (nvmm_class_meta.cpp:41).             *)
(***************************************************************************)
THEOREM MetasFollow == MetasSpec => []NoOrphans
<1>1. MetasInv => NoOrphans
  BY DEF MetasInv, Follows, NoOrphans, Has
<1> QED
  BY MetasInitial, MetasStep, <1>1, PTL DEF MetasSpec

-----------------------------------------------------------------------------
(* The frames of nvmmconvert and nvmmofa.                                  *)

Frames == [buf : Nat, pic : Nat]

FlowTypeOK ==
  /\ pool \in [made : Nat, max : Nat]
  /\ inHand \in Frames /\ prev \in Frames /\ shown \in Frames
  /\ pictures \in Nat /\ wrapped \in Nat

(* No frame is in a buffer that the pool has not made.                     *)
BuffersMade == prev.buf <= pool.made /\ shown.buf <= pool.made /\ inHand.buf <= pool.made

(* The buffer that nvmmofa keeps has still the picture it was wrapped with.*)
PrevUnmodified == prev # NoFrame => prev.pic = wrapped

(* decide_allocation leaves room for more than the two buffers in use.     *)
PoolSuffices == flowing /\ ~passthrough => pool.max >= 4

FlowInv == FlowTypeOK /\ BuffersMade /\ PrevUnmodified /\ PoolSuffices /\ FlowExact

LEMMA FlowInitial == FlowInit => FlowInv
BY DEF FlowInit, FlowInv, FlowTypeOK, BuffersMade, PrevUnmodified, PoolSuffices, FlowExact,
       Frames, NoFrame, NoPool, NoFlow

LEMMA PoolForSuffices ==
  ASSUME NEW proposal \in Proposals
  PROVE  /\ PoolFor(proposal) \in [made : Nat, max : Nat]
         /\ PoolFor(proposal).max >= 4
<1>1. proposal[1] \in Nat /\ proposal[2] \in Nat
  BY FlowPathAssumption
<1> QED
  BY <1>1 DEF PoolFor, SetConfig

LEMMA CapsKeeps == FlowInv /\ Caps => FlowInv'
<1> SUFFICES ASSUME FlowInv, Caps PROVE FlowInv'
  OBVIOUS
<1>1. /\ inHand' = NoFrame /\ prev' = NoFrame /\ wrapped' = 0
      /\ UNCHANGED <<pictures, flow>>
  BY DEF Caps, ReleaseState
<1>2. /\ pool' \in [made : Nat, max : Nat] /\ PoolSuffices'
      /\ shown' \in Frames /\ shown'.buf <= pool'.made
  <2>1. CASE passthrough'
    BY <2>1 DEF Caps, FlowInv, FlowTypeOK, BuffersMade, PoolSuffices
  <2>2. CASE ~passthrough'
    <3>1. pool' \in [made : Nat, max : Nat] /\ pool'.max >= 4
      BY <2>2, PoolForSuffices DEF Caps
    <3>2. shown' \in Frames /\ shown'.buf = 0
      BY <2>2 DEF Caps, Foreign, FlowInv, FlowTypeOK, Frames
    <3> QED BY <3>1, <3>2 DEF PoolSuffices
  <2> QED BY <2>1, <2>2
<1> QED
  BY <1>1, <1>2 DEF FlowInv, FlowTypeOK, BuffersMade, PrevUnmodified, FlowExact, NoFrame, Frames

(* The buffer that is filled is neither kept by nvmmofa nor shown.         *)
LEMMA AvailableIsFree ==
  ASSUME FlowInv, NEW b \in Available
  PROVE  b \in Nat \ InUse /\ b > 0
<1>1. pool.made \in Nat
  BY DEF FlowInv, FlowTypeOK
<1>2. CASE FreeBuffers # {}
  BY <1>1, <1>2 DEF Available, FreeBuffers
<1>3. CASE FreeBuffers = {}
  <2>1. b = pool.made + 1
    BY <1>3 DEF Available
  <2>2. prev.buf \in Nat /\ shown.buf \in Nat /\ prev.buf <= pool.made /\ shown.buf <= pool.made
    BY DEF FlowInv, FlowTypeOK, BuffersMade, Frames
  <2> QED BY <1>1, <2>1, <2>2 DEF InUse
<1> QED
  BY <1>2, <1>3

LEMMA ConvertKeeps ==
  ASSUME FlowInv, NEW ok \in BOOLEAN, Convert(ok)
  PROVE  FlowInv'
<1>1. PICK b \in Available :
        /\ pool' = [pool EXCEPT !.made = IF b > @ THEN b ELSE @]
        /\ inHand' = IF ok THEN [buf |-> b, pic |-> pictures + 1] ELSE NoFrame
        /\ prev' = IF ok /\ prev.buf = b THEN [prev EXCEPT !.pic = pictures + 1] ELSE prev
  BY DEF Convert
<1>2. b \in Nat /\ prev.buf # b
  BY AvailableIsFree DEF InUse
<1>3. prev' = prev
  BY <1>1, <1>2
<1>4. /\ pool' \in [made : Nat, max : Nat] /\ pool'.max = pool.max
      /\ pool'.made >= pool.made /\ pool'.made >= b
  BY <1>1, <1>2 DEF FlowInv, FlowTypeOK
<1>5. pictures' = pictures + 1 /\ UNCHANGED <<passthrough, shown, flow, wrapped>>
      /\ flowing
  BY DEF Convert
<1>6. inHand' \in Frames /\ inHand'.buf <= pool'.made
  BY <1>1, <1>2, <1>4 DEF FlowInv, FlowTypeOK, Frames, NoFrame
<1> QED
  BY <1>3, <1>4, <1>5, <1>6
  DEF FlowInv, FlowTypeOK, BuffersMade, PrevUnmodified, PoolSuffices, FlowExact, Frames

LEMMA FlowStep == FlowInv /\ [FlowNext]_flowVars => FlowInv'
<1> SUFFICES ASSUME FlowInv, [FlowNext]_flowVars PROVE FlowInv'
  OBVIOUS
<1> USE DEF FlowInv, FlowTypeOK, BuffersMade, PrevUnmodified, PoolSuffices, FlowExact, Frames,
            NoFrame
<1>1. CASE Caps
  BY <1>1, CapsKeeps
<1>2. CASE Modify
  BY <1>2 DEF Modify
<1>3. CASE StopFlow
  BY <1>3 DEF StopFlow, ReleaseState, NoPool
<1>4. ASSUME NEW ok \in BOOLEAN, Convert(ok) PROVE FlowInv'
  BY <1>4, ConvertKeeps
<1>5. ASSUME NEW ok \in BOOLEAN, Compare(ok) PROVE FlowInv'
  BY <1>5 DEF Compare, Show
<1>6. CASE PassOn
  BY <1>6 DEF PassOn
<1>7. CASE Unwrapped
  BY <1>7 DEF Unwrapped, Show
<1>8. CASE FirstWrapped
  BY <1>8 DEF FirstWrapped, Show
<1>9. CASE ConfigureFails
  BY <1>9 DEF ConfigureFails
<1>10. CASE UNCHANGED flowVars
  BY <1>10 DEF flowVars
<1> QED
  BY <1>1, <1>2, <1>3, <1>4, <1>5, <1>6, <1>7, <1>8, <1>9, <1>10 DEF FlowNext

LEMMA FlowAlways == FlowSpec => []FlowInv
BY FlowInitial, FlowStep, PTL DEF FlowSpec

(***************************************************************************)
(* "The ref keeps prev's surface alive and unmodified" (gstnvmmofa.cpp:    *)
(* 72): whatever pools downstream proposes and however many frames between *)
(* fail, a flow is from the picture wrapped last before.                   *)
(***************************************************************************)
THEOREM FlowFromPrevious == FlowSpec => []FlowExact
<1>1. FlowInv => FlowExact
  BY DEF FlowInv
<1> QED
  BY FlowAlways, <1>1, PTL

(* Of three buffers two at most are in use.                                *)
LEMMA ThirdBufferFree ==
  ASSUME FlowInv, pool.made >= 3
  PROVE  FreeBuffers # {}
<1>1. {1, 2, 3} \subseteq 1 .. pool.made
  BY DEF FlowInv, FlowTypeOK
<1>2. \E b \in {1, 2, 3} : b # prev.buf /\ b # shown.buf
  OBVIOUS
<1> QED
  BY <1>1, <1>2 DEF FreeBuffers, InUse

(***************************************************************************)
(* For any proposal of downstream, the thread that converts never waits    *)
(* for a buffer that it would have to give back itself                     *)
(* (gstnvmmconvert.cpp:441).                                               *)
(***************************************************************************)
THEOREM ConverterNeverStarves == FlowSpec => []NeverStarved
<1>1. FlowInv => NeverStarved
  <2> SUFFICES ASSUME FlowInv, flowing, ~passthrough, FreeBuffers = {}
               PROVE  pool.made < pool.max
    BY DEF NeverStarved, Available
  <2> QED
    BY ThirdBufferFree DEF FlowInv, FlowTypeOK, PoolSuffices
<1> QED
  BY FlowAlways, <1>1, PTL
-----------------------------------------------------------------------------
(* The memories.                                                           *)

ShmTypeOK ==
  /\ owner \in [Memories -> Memories \union {None}]
  /\ held \subseteq Memories
  /\ surface \in [Memories -> Surfaces \union {None}]
  /\ mapping \in [Memories -> Mappings \union {None}]
  /\ clashed \subseteq Memories

(* An owner owns itself, and what is mapped is held.                       *)
OwnersOwn == \A m \in Memories : Exists(m) => owner[owner[m]] = owner[m]
MappedHeld == \A m \in Memories : mapping[m] # None => m \in held

ReachInv == ShmTypeOK /\ OwnersOwn /\ MappedHeld /\ SurfacesReachable

(* The holders that have a plane of the surface of o mapped.               *)
Mappers(o) == {m \in Memories : owner[m] = o /\ mapping[m] # None}

InPlace(o, p) == surface[o].data[p] = TRUE /\ surface[o].copy[p] = None

(* While holders take turns, one at most has mapped, the handle knows      *)
(* which plane, and the others are in place.                               *)
Turns(o) ==
  /\ \A m, n \in Mappers(o) : m = n
  /\ \A m \in Mappers(o) :
       /\ surface[o].mapped = TRUE /\ surface[o].plane = mapping[m].plane
       /\ surface[o].copy[mapping[m].plane] = TRUE
       /\ \A p \in Planes \ {mapping[m].plane} : InPlace(o, p)
  /\ Mappers(o) = {} => surface[o].mapped = FALSE /\ \A p \in Planes : InPlace(o, p)

TurnsInv == \A o \in Memories \ clashed : surface[o] # None => Turns(o)

ShmInv == ReachInv /\ TurnsInv

LEMMA NoneApart ==
  /\ None \notin Memories /\ None \notin Planes /\ None \notin BOOLEAN
  /\ None \notin Surfaces /\ None \notin Mappings
BY SharedMemoryAssumption, Zenon

LEMMA NewSurfaceIs ==
  /\ NewSurface \in Surfaces
  /\ NewSurface.mapped = FALSE
  /\ \A p \in Planes : NewSurface.data[p] = TRUE /\ NewSurface.copy[p] = None
BY DEF NewSurface, AllNewest, Surfaces

(* What map_read and map_write make of a surface.                          *)
MappedTo(s, p) == [SurfaceMap(s, p) EXCEPT !.mapped = TRUE, !.plane = p]

LEMMA MappedElsewhere ==
  ASSUME NEW s \in Surfaces, NEW p \in Planes
  PROVE  /\ MappedTo(s, p) \in Surfaces
         /\ \A q \in Planes \ {p} : /\ MappedTo(s, p).data[q] = s.data[q]
                                    /\ MappedTo(s, p).copy[q] = s.copy[q]
<1> DEFINE c == [s.copy EXCEPT ![p] = IF s.copy[p] = None THEN s.data[p] ELSE s.copy[p]]
           t == [s EXCEPT !.copy = c, !.mapped = TRUE, !.plane = p]
<1>1. /\ s.data \in [Planes -> BOOLEAN] /\ s.copy \in [Planes -> BOOLEAN \union {None}]
      /\ s.data[p] \in BOOLEAN
  BY DEF Surfaces
<1>2. c \in [Planes -> BOOLEAN \union {None}]
  BY <1>1
<1>3. MappedTo(s, p) = t
  BY DEF MappedTo, SurfaceMap, Surfaces
<1>4. t \in Surfaces /\ t.data = s.data /\ t.copy = c
  <2> HIDE DEF c
  <2> QED BY <1>2 DEF Surfaces
<1>5. \A q \in Planes \ {p} : c[q] = s.copy[q]
  BY <1>1
<1> HIDE DEF c, t
<1> QED
  BY <1>3, <1>4, <1>5

LEMMA MappedThere ==
  ASSUME NEW s \in Surfaces, NEW p \in Planes, s.copy[p] = None, s.data[p] = TRUE
  PROVE  /\ MappedTo(s, p).mapped = TRUE /\ MappedTo(s, p).plane = p
         /\ MappedTo(s, p).copy[p] = TRUE
<1> DEFINE c == [s.copy EXCEPT ![p] = TRUE]
<1>1. s.copy \in [Planes -> BOOLEAN \union {None}]
  BY DEF Surfaces
<1>2. MappedTo(s, p) = [s EXCEPT !.copy = c, !.mapped = TRUE, !.plane = p]
  BY DEF MappedTo, SurfaceMap, Surfaces
<1>3. c[p] = TRUE
  BY <1>1
<1> HIDE DEF c
<1> QED
  BY <1>2, <1>3 DEF Surfaces

LEMMA UnmappedIs ==
  ASSUME NEW s \in Surfaces
  PROVE  /\ Unmapped(s) \in Surfaces
         /\ \A p \in Planes : s.mapped = TRUE /\ s.plane = p /\ s.copy[p] = TRUE =>
              /\ Unmapped(s).mapped = FALSE
              /\ Unmapped(s).data[p] = TRUE /\ Unmapped(s).copy[p] = None
              /\ \A q \in Planes \ {p} :
                   Unmapped(s).data[q] = s.data[q] /\ Unmapped(s).copy[q] = s.copy[q]
<1> DEFINE u == SurfaceUnMap(s, s.plane)
<1>1. /\ s.data \in [Planes -> BOOLEAN] /\ s.copy \in [Planes -> BOOLEAN \union {None}]
      /\ s.plane \in Planes \union {None} /\ s.mapped \in BOOLEAN
  BY Zenon DEF Surfaces
<1>2. u \in Surfaces
  BY <1>1 DEF SurfaceUnMap, Surfaces
<1>3. Unmapped(s) = IF ~s.mapped THEN s ELSE [u EXCEPT !.mapped = FALSE, !.plane = None]
  BY DEF Unmapped
<1>4. ASSUME NEW p \in Planes, s.plane = p, s.copy[p] = TRUE
      PROVE  /\ u.data[p] = TRUE /\ u.copy[p] = None
             /\ \A q \in Planes \ {p} : u.data[q] = s.data[q] /\ u.copy[q] = s.copy[q]
  BY <1>1, <1>4, NoneApart DEF SurfaceUnMap, Surfaces
<1> DEFINE t == [u EXCEPT !.mapped = FALSE, !.plane = None]
<1> HIDE DEF u
<1>5. t \in Surfaces /\ t.mapped = FALSE /\ t.data = u.data /\ t.copy = u.copy
  BY <1>2 DEF Surfaces
<1> HIDE DEF t
<1>6. CASE s.mapped
  <2>1. Unmapped(s) = t
    BY <1>3, <1>6 DEF t
  <2>2. /\ Unmapped(s) \in Surfaces /\ Unmapped(s).mapped = FALSE
        /\ Unmapped(s).data = u.data /\ Unmapped(s).copy = u.copy
    BY <1>5, <2>1
  <2>3. ASSUME NEW p \in Planes, s.plane = p, s.copy[p] = TRUE
        PROVE  /\ Unmapped(s).data[p] = TRUE /\ Unmapped(s).copy[p] = None
               /\ \A q \in Planes \ {p} :
                    Unmapped(s).data[q] = s.data[q] /\ Unmapped(s).copy[q] = s.copy[q]
    BY <1>4, <2>2, <2>3
  <2> QED BY <2>2, <2>3
<1>7. CASE ~s.mapped
  <2>1. Unmapped(s) = s /\ s.mapped # TRUE
    BY <1>3, <1>7
  <2> QED BY <2>1
<1> QED
  BY <1>6, <1>7

LEMMA UnmappedElsewhere ==
  ASSUME NEW s \in Surfaces, NEW p \in Planes, s.mapped = TRUE, s.plane = p, s.copy[p] = TRUE,
         NEW q \in Planes \ {p}
  PROVE  Unmapped(s).data[q] = s.data[q] /\ Unmapped(s).copy[q] = s.copy[q]
<1>1. \A r \in Planes \ {p} :
        Unmapped(s).data[r] = s.data[r] /\ Unmapped(s).copy[r] = s.copy[r]
  BY UnmappedIs, Zenon
<1> QED
  BY <1>1, Zenon

LEMMA UnmappedThere ==
  ASSUME NEW s \in Surfaces, NEW p \in Planes, s.mapped = TRUE, s.plane = p, s.copy[p] = TRUE
  PROVE  /\ Unmapped(s).mapped = FALSE
         /\ Unmapped(s).data[p] = TRUE /\ Unmapped(s).copy[p] = None
BY UnmappedIs

LEMMA ShmInitial == ShmInit => ShmInv
<1> SUFFICES ASSUME ShmInit PROVE ShmInv
  OBVIOUS
<1> USE DEF ShmInit
<1>1. ShmTypeOK
  BY DEF ShmTypeOK
<1>2. OwnersOwn /\ MappedHeld /\ SurfacesReachable
  BY DEF OwnersOwn, MappedHeld, SurfacesReachable, Exists
<1>3. TurnsInv
  BY DEF TurnsInv
<1> QED
  BY <1>1, <1>2, <1>3 DEF ShmInv, ReachInv

(* Steps that give memories or take them.                                  *)
LEMMA AllocReach ==
  ASSUME ReachInv, NEW m \in Memories, Alloc(m)
  PROVE  ReachInv'
<1>1. ShmTypeOK'
  BY NewSurfaceIs DEF ReachInv, ShmTypeOK, Alloc
<1>2. \A n \in Memories : owner[n] # m
  BY NoneApart DEF ReachInv, OwnersOwn, Alloc, Exists
<1>3. OwnersOwn' /\ MappedHeld'
  BY <1>2, NoneApart DEF ReachInv, ShmTypeOK, OwnersOwn, MappedHeld, Alloc, Exists
<1>4. SurfacesReachable'
  BY <1>2, NoneApart, NewSurfaceIs DEF ReachInv, ShmTypeOK, SurfacesReachable, Alloc, Exists
<1> QED
  BY <1>1, <1>3, <1>4 DEF ReachInv

LEMMA ShareReach ==
  ASSUME ReachInv, NEW m \in Memories, NEW s \in Memories, Share(m, s)
  PROVE  ReachInv'
<1>1. owner[m] \in Memories /\ owner[owner[m]] = owner[m] /\ owner[m] # s
  BY NoneApart DEF ReachInv, ShmTypeOK, OwnersOwn, SurfacesReachable, Share, Exists
<1>2. ShmTypeOK'
  BY <1>1 DEF ReachInv, ShmTypeOK, Share
<1>3. OwnersOwn' /\ MappedHeld'
  BY <1>1, NoneApart DEF ReachInv, ShmTypeOK, OwnersOwn, MappedHeld, Share, Exists
<1>4. SurfacesReachable'
  BY <1>1, NoneApart DEF ReachInv, ShmTypeOK, SurfacesReachable, Share, Exists
<1> QED
  BY <1>2, <1>3, <1>4 DEF ReachInv

(* What goes is not held, and no share that stays is of an owner that goes.*)
LEMMA FreedUnused ==
  ASSUME ReachInv, NEW m \in Memories, Unref(m)
  PROVE  /\ Freed(m) \intersect held' = {}
         /\ \A n \in Memories \ Freed(m) : owner[n] \notin Freed(m)
<1> DEFINE o == owner[m]
<1>1. o \in Memories /\ owner[o] = o
  BY DEF ReachInv, ShmTypeOK, OwnersOwn, SurfacesReachable, Unref, Exists
<1>2. Freed(m) \intersect held' = {}
  BY DEF Freed, Unref
<1>3. ASSUME NEW n \in Memories, n \notin Freed(m), owner[n] \in Freed(m) PROVE FALSE
  <2>1. owner[n] # None
    BY <1>1, <1>3, NoneApart DEF Freed
  <2>2. owner[owner[n]] = owner[n]
    BY <2>1 DEF ReachInv, OwnersOwn, Exists
  <2>3. owner[n] = o
    BY <1>3, <2>2 DEF Freed
  <2>4. o \in Freed(m) /\ ~(o \in held \ {m} \/ SharesOf(o) \ {m} # {})
    BY <1>3, <2>3 DEF Freed
  <2>5. n = o \/ n = m
    BY <2>3, <2>4 DEF SharesOf
  <2> QED BY <1>3, <2>4, <2>5 DEF Freed
<1> QED
  BY <1>2, <1>3

LEMMA UnrefReach ==
  ASSUME ReachInv, NEW m \in Memories, Unref(m)
  PROVE  ReachInv'
<1>1. \A n \in Memories :
        /\ n \in Freed(m) => owner'[n] = None /\ surface'[n] = None
        /\ n \notin Freed(m) => owner'[n] = owner[n] /\ surface'[n] = surface[n]
  BY DEF Unref
<1>2. ShmTypeOK'
  BY DEF ReachInv, ShmTypeOK, Unref
<1>3. OwnersOwn'
  BY <1>1, FreedUnused, NoneApart DEF ReachInv, ShmTypeOK, OwnersOwn, Exists
<1>4. MappedHeld'
  BY DEF ReachInv, MappedHeld, Unref
<1>5. SurfacesReachable'
  <2>1. \A n \in held' : n \in held /\ n \in Memories /\ n \notin Freed(m)
    BY FreedUnused DEF Unref, ReachInv, ShmTypeOK
  <2>2. \A n \in held' : Exists(n)'
    BY <1>1, <2>1 DEF ReachInv, SurfacesReachable, Exists
  <2>3. \A n \in Memories : owner'[n] # None => surface'[owner'[n]] # None
    <3> SUFFICES ASSUME NEW n \in Memories, owner'[n] # None PROVE surface'[owner'[n]] # None
      OBVIOUS
    <3>1. n \notin Freed(m) /\ owner'[n] = owner[n]
      BY <1>1
    <3>2. owner[n] \in Memories /\ owner[n] \notin Freed(m) /\ surface[owner[n]] # None
      BY <3>1, FreedUnused DEF ReachInv, ShmTypeOK, SurfacesReachable, Exists
    <3> QED BY <1>1, <3>1, <3>2
  <2>4. \A n \in Memories : surface'[n] # None => owner'[n] = n
    BY <1>1 DEF ReachInv, SurfacesReachable
  <2> QED BY <2>2, <2>3, <2>4 DEF SurfacesReachable, Exists
<1> QED
  BY <1>2, <1>3, <1>4, <1>5 DEF ReachInv

(* Steps that only use the surfaces of memories that stay.                 *)
LEMMA UseReach ==
  ASSUME ReachInv, UNCHANGED <<owner, held>>, ShmTypeOK', MappedHeld',
         \A o \in Memories : surface'[o] = None <=> surface[o] = None
  PROVE  ReachInv'
BY NoneApart DEF ReachInv, ShmTypeOK, OwnersOwn, SurfacesReachable, Exists

(* Whoever has mapped a plane has a surface.                               *)
LEMMA HeldHasSurface ==
  ASSUME ReachInv, NEW m \in Memories, m \in held \/ mapping[m] # None
  PROVE  owner[m] \in Memories /\ surface[owner[m]] \in Surfaces
BY DEF ReachInv, ShmTypeOK, MappedHeld, SurfacesReachable, Exists

LEMMA MapReach ==
  ASSUME ReachInv, NEW m \in Memories, NEW p \in Planes, NEW write \in BOOLEAN,
         MapPlane(m, p, write)
  PROVE  ReachInv' /\ surface' = [surface EXCEPT ![owner[m]] = MappedTo(surface[owner[m]], p)]
<1>1. owner[m] \in Memories /\ surface[owner[m]] \in Surfaces
  BY HeldHasSurface DEF MapPlane
<1>2. MappedTo(surface[owner[m]], p) \in Surfaces
  BY <1>1, MappedElsewhere
<1>3. surface' = [surface EXCEPT ![owner[m]] = MappedTo(surface[owner[m]], p)]
  BY DEF MapPlane, Mapped, MappedTo
<1>4. /\ \A o \in Memories : surface'[o] = None <=> surface[o] = None
      /\ surface' \in [Memories -> Surfaces \union {None}]
  BY <1>1, <1>2, <1>3, NoneApart DEF ReachInv, ShmTypeOK
<1>5. [plane |-> p, write |-> write] \in Mappings
  BY DEF Mappings
<1>6. mapping' \in [Memories -> Mappings \union {None}] /\ MappedHeld'
  BY <1>5 DEF ReachInv, ShmTypeOK, MappedHeld, MapPlane
<1>7. clashed' \subseteq Memories
  BY <1>1 DEF ReachInv, ShmTypeOK, MapPlane, Clash
<1>8. UNCHANGED <<owner, held>>
  BY DEF MapPlane
<1>9. ShmTypeOK'
  BY <1>4, <1>6, <1>7, <1>8 DEF ReachInv, ShmTypeOK
<1> QED
  BY <1>3, <1>4, <1>6, <1>8, <1>9, UseReach

(* What a plane has got that its holder has written to.                    *)
Written(s, p) == [s EXCEPT !.copy[p] = TRUE, !.data[p] = FALSE]

LEMMA WrittenIs ==
  ASSUME NEW s \in Surfaces, NEW p \in Planes
  PROVE  /\ Written(s, p) \in Surfaces
         /\ Written(s, p).mapped = s.mapped /\ Written(s, p).plane = s.plane
         /\ Written(s, p).copy[p] = TRUE
<1>1. s.data \in [Planes -> BOOLEAN] /\ s.copy \in [Planes -> BOOLEAN \union {None}]
  BY DEF Surfaces
<1>2. /\ Written(s, p).copy = [s.copy EXCEPT ![p] = TRUE]
      /\ Written(s, p).data = [s.data EXCEPT ![p] = FALSE]
      /\ Written(s, p).mapped = s.mapped /\ Written(s, p).plane = s.plane
  BY DEF Written, Surfaces
<1>3. Written(s, p) \in Surfaces
  BY <1>1 DEF Written, Surfaces
<1> QED
  BY <1>1, <1>2, <1>3

LEMMA WrittenElsewhere ==
  ASSUME NEW s \in Surfaces, NEW p \in Planes, NEW q \in Planes \ {p}
  PROVE  Written(s, p).data[q] = s.data[q] /\ Written(s, p).copy[q] = s.copy[q]
<1>1. s.data \in [Planes -> BOOLEAN] /\ s.copy \in [Planes -> BOOLEAN \union {None}]
  BY DEF Surfaces
<1>2. /\ Written(s, p).copy = [s.copy EXCEPT ![p] = TRUE]
      /\ Written(s, p).data = [s.data EXCEPT ![p] = FALSE]
  BY DEF Written, Surfaces
<1> QED
  BY <1>1, <1>2

LEMMA WrittenThere ==
  ASSUME NEW s \in Surfaces, NEW p \in Planes
  PROVE  /\ Written(s, p).mapped = s.mapped /\ Written(s, p).plane = s.plane
         /\ Written(s, p).copy[p] = TRUE
BY WrittenIs

LEMMA WriteReach ==
  ASSUME ReachInv, NEW m \in Memories, Write(m)
  PROVE  /\ ReachInv' /\ mapping[m].plane \in Planes
         /\ surface' = [surface EXCEPT ![owner[m]] = Written(surface[owner[m]], mapping[m].plane)]
<1>1. owner[m] \in Memories /\ surface[owner[m]] \in Surfaces
  BY HeldHasSurface DEF Write
<1>2. mapping[m] \in Mappings /\ mapping[m].plane \in Planes
  BY DEF ReachInv, ShmTypeOK, Write, Mappings
<1>3. surface' = [surface EXCEPT ![owner[m]] = Written(surface[owner[m]], mapping[m].plane)]
  BY DEF Write, Written
<1>4. Written(surface[owner[m]], mapping[m].plane) \in Surfaces
  BY <1>1, <1>2, WrittenIs
<1>5. /\ \A o \in Memories : surface'[o] = None <=> surface[o] = None
      /\ surface' \in [Memories -> Surfaces \union {None}]
  BY <1>1, <1>3, <1>4, NoneApart DEF ReachInv, ShmTypeOK
<1>6. UNCHANGED <<owner, held, mapping, clashed>>
  BY DEF Write
<1>7. ShmTypeOK' /\ MappedHeld'
  BY <1>5, <1>6 DEF ReachInv, ShmTypeOK, MappedHeld
<1> QED
  BY <1>2, <1>3, <1>5, <1>6, <1>7, UseReach

LEMMA UnmapReach ==
  ASSUME ReachInv, NEW m \in Memories, UnmapPlane(m)
  PROVE  ReachInv' /\ surface' = [surface EXCEPT ![owner[m]] = Unmapped(surface[owner[m]])]
<1>1. owner[m] \in Memories /\ surface[owner[m]] \in Surfaces
  BY HeldHasSurface DEF UnmapPlane
<1>2. Unmapped(surface[owner[m]]) \in Surfaces
  BY <1>1, UnmappedIs
<1>3. surface' = [surface EXCEPT ![owner[m]] = Unmapped(surface[owner[m]])]
  BY <1>1, NoneApart DEF UnmapPlane
<1>4. /\ \A o \in Memories : surface'[o] = None <=> surface[o] = None
      /\ surface' \in [Memories -> Surfaces \union {None}]
  BY <1>1, <1>2, <1>3, NoneApart DEF ReachInv, ShmTypeOK
<1>5. UNCHANGED <<owner, held, clashed>> /\ mapping' = [mapping EXCEPT ![m] = None]
  BY DEF UnmapPlane
<1>6. ShmTypeOK' /\ MappedHeld'
  BY <1>4, <1>5 DEF ReachInv, ShmTypeOK, MappedHeld
<1> QED
  BY <1>3, <1>4, <1>5, <1>6, UseReach

(* What the driver writes to a surface that is mapped is not in the copy.  *)
ConvertedTo(s) == [s EXCEPT !.data = AllNewest, !.copy = Stale(s.copy)]

LEMMA ConvertedToIs ==
  ASSUME NEW s \in Surfaces
  PROVE  /\ ConvertedTo(s) \in Surfaces /\ ConvertedTo(s).mapped = s.mapped
         /\ \A p \in Planes : /\ ConvertedTo(s).data[p] = TRUE
                              /\ s.copy[p] = None => ConvertedTo(s).copy[p] = None
<1>1. AllNewest \in [Planes -> BOOLEAN] /\ Stale(s.copy) \in [Planes -> BOOLEAN \union {None}]
  BY DEF AllNewest, Stale
<1>2. ConvertedTo(s) \in Surfaces /\ ConvertedTo(s).mapped = s.mapped
  BY <1>1 DEF ConvertedTo, Surfaces
<1>3. ConvertedTo(s).data = AllNewest /\ ConvertedTo(s).copy = Stale(s.copy)
  BY DEF ConvertedTo, Surfaces
<1> QED
  BY <1>2, <1>3 DEF AllNewest, Stale

LEMMA TransformReach ==
  ASSUME ReachInv, NEW m \in Memories, NEW n \in Memories, NEW ok \in BOOLEAN,
         Transform(m, n, ok)
  PROVE  /\ ReachInv'
         /\ \/ surface' = surface
            \/ surface' = [surface EXCEPT ![owner[n]] = ConvertedTo(surface[owner[n]])]
<1>1. /\ owner[m] \in Memories
      /\ owner[n] \in Memories /\ surface[owner[n]] \in Surfaces
  BY HeldHasSurface DEF Transform
<1>2. \/ surface' = surface
      \/ surface' = [surface EXCEPT ![owner[n]] = ConvertedTo(surface[owner[n]])]
  BY DEF Transform, Converted, ConvertedTo
<1>3. ConvertedTo(surface[owner[n]]) \in Surfaces
  BY <1>1, ConvertedToIs
<1>4. /\ \A o \in Memories : surface'[o] = None <=> surface[o] = None
      /\ surface' \in [Memories -> Surfaces \union {None}]
  BY <1>1, <1>2, <1>3, NoneApart DEF ReachInv, ShmTypeOK
<1>5. UNCHANGED <<owner, held, mapping>> /\ clashed' \subseteq Memories
  BY <1>1 DEF Transform, Clash, ReachInv, ShmTypeOK
<1>6. ShmTypeOK' /\ MappedHeld'
  BY <1>4, <1>5 DEF ReachInv, ShmTypeOK, MappedHeld
<1> QED
  BY <1>2, <1>4, <1>5, <1>6, UseReach

(* A surface that a step leaves alone, with its mappings, is as it was.    *)
LEMMA TurnsKept ==
  ASSUME NEW o, Turns(o), surface'[o] = surface[o], Mappers(o)' = Mappers(o),
         \A m \in Mappers(o) : mapping'[m] = mapping[m]
  PROVE  Turns(o)'
BY DEF Turns, InPlace

LEMMA AllocTurns ==
  ASSUME ShmInv, NEW m \in Memories, Alloc(m)
  PROVE  TurnsInv'
<1>1. /\ \A n \in Memories : owner[n] # m
      /\ m \notin held /\ mapping[m] = None /\ owner[m] = None
  BY NoneApart DEF ShmInv, ReachInv, OwnersOwn, MappedHeld, SurfacesReachable, Alloc, Exists
<1>2. \A n \in Memories : owner'[n] = IF n = m THEN m ELSE owner[n]
  BY DEF Alloc, ShmInv, ReachInv, ShmTypeOK
<1>3. \A n \in Memories : surface'[n] = IF n = m THEN NewSurface ELSE surface[n]
  BY DEF Alloc, ShmInv, ReachInv, ShmTypeOK
<1>4. UNCHANGED <<mapping, clashed>>
  BY DEF Alloc
<1>5. SUFFICES ASSUME NEW o \in Memories \ clashed, surface'[o] # None PROVE Turns(o)'
  BY <1>4 DEF TurnsInv
<1>6. CASE o = m
  <2>1. Mappers(o)' = {}
    BY <1>1, <1>2, <1>4, <1>6 DEF Mappers
  <2>2. surface'[o] = NewSurface
    BY <1>3, <1>6
  <2> QED BY <2>1, <2>2, NewSurfaceIs DEF Turns, InPlace
<1>7. CASE o # m
  <2>1. surface'[o] = surface[o] /\ Turns(o)
    BY <1>3, <1>5, <1>7 DEF ShmInv, TurnsInv
  <2>2. Mappers(o)' = Mappers(o)
    BY <1>1, <1>2, <1>4, <1>7 DEF Mappers
  <2> QED BY <1>4, <2>1, <2>2, TurnsKept
<1> QED
  BY <1>6, <1>7

LEMMA ShareTurns ==
  ASSUME ShmInv, NEW m \in Memories, NEW s \in Memories, Share(m, s)
  PROVE  TurnsInv'
<1>1. mapping[s] = None
  BY DEF ShmInv, ReachInv, MappedHeld, SurfacesReachable, Share, Exists
<1>2. UNCHANGED <<surface, mapping, clashed>>
  BY DEF Share
<1>3. \A n \in Memories : n # s => owner'[n] = owner[n]
  BY DEF Share, ShmInv, ReachInv, ShmTypeOK
<1>4. ASSUME NEW o PROVE Mappers(o)' = Mappers(o)
  BY <1>1, <1>2, <1>3 DEF Mappers
<1> QED
  BY <1>2, <1>4, TurnsKept DEF ShmInv, TurnsInv

LEMMA UnrefTurns ==
  ASSUME ShmInv, NEW m \in Memories, Unref(m)
  PROVE  TurnsInv'
<1>1. \A n \in Memories :
        /\ n \in Freed(m) => owner'[n] = None /\ surface'[n] = None
        /\ n \notin Freed(m) => owner'[n] = owner[n] /\ surface'[n] = surface[n]
  BY DEF Unref
<1>2. mapping' = mapping /\ clashed' = clashed \ Freed(m)
  BY DEF Unref
<1>3. SUFFICES ASSUME NEW o \in Memories, o \notin clashed', surface'[o] # None PROVE Turns(o)'
  BY DEF TurnsInv
<1>4. o \notin clashed /\ surface'[o] = surface[o]
  BY <1>1, <1>2, <1>3
<1>5. Turns(o)
  BY <1>3, <1>4 DEF ShmInv, TurnsInv
<1>6. \A n \in Memories : mapping[n] # None => n \notin Freed(m)
  BY FreedUnused DEF ShmInv, ReachInv, MappedHeld, Unref
<1>7. Mappers(o)' = Mappers(o)
  BY <1>1, <1>2, <1>6 DEF Mappers
<1> QED
  BY <1>2, <1>4, <1>5, <1>7, TurnsKept

LEMMA MapTurns ==
  ASSUME ShmInv, NEW m \in Memories, NEW p \in Planes, NEW write \in BOOLEAN,
         MapPlane(m, p, write)
  PROVE  TurnsInv'
<1> DEFINE o1 == owner[m]
<1>1. /\ o1 \in Memories /\ surface[o1] \in Surfaces
      /\ mapping[m] = None
  BY HeldHasSurface DEF ShmInv, MapPlane
<1>2. surface' = [surface EXCEPT ![o1] = MappedTo(surface[o1], p)]
  BY MapReach DEF ShmInv
<1>3. /\ mapping' = [mapping EXCEPT ![m] = [plane |-> p, write |-> write]]
      /\ owner' = owner /\ clashed' = clashed \union Clash(o1)
  BY DEF MapPlane
<1>4. /\ mapping'[m] # None /\ mapping'[m].plane = p
      /\ \A n \in Memories : n # m => mapping'[n] = mapping[n]
  <2>1. [plane |-> p, write |-> write] \in Mappings
    BY DEF Mappings
  <2> QED BY <1>3, <2>1, NoneApart DEF ShmInv, ReachInv, ShmTypeOK
<1>5. SUFFICES ASSUME NEW o \in Memories, o \notin clashed', surface'[o] # None PROVE Turns(o)'
  BY DEF TurnsInv
<1>6. CASE o # o1
  <2>1. surface'[o] = surface[o] /\ Turns(o)
    BY <1>2, <1>3, <1>5, <1>6 DEF ShmInv, TurnsInv, ReachInv, ShmTypeOK
  <2>2. Mappers(o)' = Mappers(o) /\ \A n \in Mappers(o) : mapping'[n] = mapping[n]
    BY <1>1, <1>3, <1>4, <1>6 DEF Mappers
  <2> QED BY <2>1, <2>2, TurnsKept
<1>7. CASE o = o1
  <2>1. Mappers(o) = {}
    BY <1>3, <1>5, <1>7 DEF Clash, Mappers
  <2>2. Mappers(o)' = {m}
    BY <1>3, <1>4, <1>7, <2>1 DEF Mappers
  <2>3. Turns(o)
    BY <1>1, <1>3, <1>5, <1>7, NoneApart DEF ShmInv, TurnsInv
  <2>4. \A q \in Planes : surface[o].data[q] = TRUE /\ surface[o].copy[q] = None
    BY <2>1, <2>3 DEF Turns, InPlace
  <2>5. surface'[o] = MappedTo(surface[o], p)
    BY <1>1, <1>2, <1>7 DEF ShmInv, ReachInv, ShmTypeOK
  <2>6. /\ surface'[o].mapped = TRUE /\ surface'[o].plane = p
        /\ surface'[o].copy[p] = TRUE
        /\ \A q \in Planes \ {p} : surface'[o].data[q] = TRUE /\ surface'[o].copy[q] = None
    <3>1. surface[o] \in Surfaces
      BY <1>1, <1>7
    <3>2. \A q \in Planes \ {p} : /\ MappedTo(surface[o], p).data[q] = surface[o].data[q]
                                  /\ MappedTo(surface[o], p).copy[q] = surface[o].copy[q]
      BY <3>1, MappedElsewhere
    <3>3. surface[o].copy[p] = None /\ surface[o].data[p] = TRUE
      BY <2>4
    <3>4. /\ MappedTo(surface[o], p).mapped = TRUE /\ MappedTo(surface[o], p).plane = p
          /\ MappedTo(surface[o], p).copy[p] = TRUE
      BY <3>1, <3>3, MappedThere
    <3> QED BY <2>4, <2>5, <3>2, <3>4
  <2> QED BY <1>4, <2>2, <2>6 DEF Turns, InPlace
<1> QED
  BY <1>6, <1>7

LEMMA WriteTurns ==
  ASSUME ShmInv, NEW m \in Memories, Write(m)
  PROVE  TurnsInv'
<1> DEFINE o1 == owner[m]
           p == mapping[m].plane
<1>1. o1 \in Memories /\ surface[o1] \in Surfaces /\ mapping[m] # None
  BY HeldHasSurface DEF ShmInv, Write
<1>2. p \in Planes /\ surface' = [surface EXCEPT ![o1] = Written(surface[o1], p)]
  BY WriteReach DEF ShmInv
<1>3. UNCHANGED <<owner, mapping, clashed>>
  BY DEF Write
<1>4. SUFFICES ASSUME NEW o \in Memories \ clashed, surface'[o] # None PROVE Turns(o)'
  BY <1>3 DEF TurnsInv
<1>5. ASSUME NEW x PROVE Mappers(x)' = Mappers(x)
  BY <1>3 DEF Mappers
<1>6. CASE o # o1
  <2>1. surface'[o] = surface[o] /\ Turns(o)
    BY <1>2, <1>4, <1>6 DEF ShmInv, TurnsInv, ReachInv, ShmTypeOK
  <2> QED BY <1>3, <1>5, <2>1, TurnsKept
<1>7. CASE o = o1
  <2>1. Turns(o) /\ m \in Mappers(o)
    BY <1>1, <1>4, <1>7, NoneApart DEF ShmInv, TurnsInv, Mappers
  <2>2. surface'[o] = Written(surface[o], p)
    BY <1>1, <1>2, <1>7 DEF ShmInv, ReachInv, ShmTypeOK
  <2>3. /\ \A n \in Mappers(o) : n = m
        /\ surface[o].mapped = TRUE /\ surface[o].plane = p
        /\ \A q \in Planes \ {p} : surface[o].data[q] = TRUE /\ surface[o].copy[q] = None
    BY <2>1 DEF Turns, InPlace
  <2>4. /\ surface'[o].mapped = TRUE /\ surface'[o].plane = p
        /\ surface'[o].copy[p] = TRUE
        /\ \A q \in Planes \ {p} : surface'[o].data[q] = TRUE /\ surface'[o].copy[q] = None
    <3>1. surface[o] \in Surfaces
      BY <1>1, <1>7
    <3>2. p \in Planes
      BY <1>2
    <3> HIDE DEF p
    <3>3. /\ Written(surface[o], p).mapped = surface[o].mapped
          /\ Written(surface[o], p).plane = surface[o].plane
          /\ Written(surface[o], p).copy[p] = TRUE
      BY <3>1, <3>2, WrittenThere
    <3>4. \A q \in Planes \ {p} : /\ Written(surface[o], p).data[q] = surface[o].data[q]
                                  /\ Written(surface[o], p).copy[q] = surface[o].copy[q]
      BY <3>1, <3>2, WrittenElsewhere
    <3> QED BY <2>2, <2>3, <3>3, <3>4
  <2>5. \A n \in Mappers(o)' : n = m
    BY <1>5, <2>3
  <2>6. Mappers(o)' # {} /\ mapping' = mapping
    BY <1>3, <1>5, <2>1
  <2> QED BY <2>4, <2>5, <2>6 DEF Turns, InPlace
<1> QED
  BY <1>6, <1>7

LEMMA UnmapTurns ==
  ASSUME ShmInv, NEW m \in Memories, UnmapPlane(m)
  PROVE  TurnsInv'
<1> DEFINE o1 == owner[m]
           p == mapping[m].plane
<1>1. o1 \in Memories /\ surface[o1] \in Surfaces /\ mapping[m] # None
  BY HeldHasSurface DEF ShmInv, UnmapPlane
<1>2. surface' = [surface EXCEPT ![o1] = Unmapped(surface[o1])]
  BY UnmapReach DEF ShmInv
<1>3. UNCHANGED <<owner, clashed>> /\ mapping' = [mapping EXCEPT ![m] = None]
  BY DEF UnmapPlane
<1>4. mapping'[m] = None /\ \A n \in Memories : n # m => mapping'[n] = mapping[n]
  BY <1>3 DEF ShmInv, ReachInv, ShmTypeOK
<1>5. SUFFICES ASSUME NEW o \in Memories \ clashed, surface'[o] # None PROVE Turns(o)'
  BY <1>3 DEF TurnsInv
<1>6. CASE o # o1
  <2>1. surface'[o] = surface[o] /\ Turns(o)
    BY <1>2, <1>5, <1>6 DEF ShmInv, TurnsInv, ReachInv, ShmTypeOK
  <2>2. Mappers(o)' = Mappers(o) /\ \A n \in Mappers(o) : mapping'[n] = mapping[n]
    BY <1>3, <1>4, <1>6 DEF Mappers
  <2> QED BY <2>1, <2>2, TurnsKept
<1>7. CASE o = o1
  <2>1. Turns(o) /\ m \in Mappers(o)
    BY <1>1, <1>5, <1>7, NoneApart DEF ShmInv, TurnsInv, Mappers
  <2>2. surface'[o] = Unmapped(surface[o])
    BY <1>1, <1>2, <1>7 DEF ShmInv, ReachInv, ShmTypeOK
  <2>3. /\ \A n \in Mappers(o) : n = m
        /\ surface[o].mapped = TRUE /\ surface[o].plane = p /\ surface[o].copy[p] = TRUE
        /\ \A q \in Planes \ {p} : surface[o].data[q] = TRUE /\ surface[o].copy[q] = None
    BY <2>1 DEF Turns, InPlace
  <2>4. Mappers(o)' = {}
    BY <1>3, <1>4, <2>3 DEF Mappers
  <2>5. p \in Planes
    BY <1>1 DEF ShmInv, ReachInv, ShmTypeOK, Mappings
  <2>6. /\ surface'[o].mapped = FALSE
        /\ \A q \in Planes : surface'[o].data[q] = TRUE /\ surface'[o].copy[q] = None
    <3>1. surface[o] \in Surfaces
      BY <1>1, <1>7
    <3> HIDE DEF p
    <3>2. /\ Unmapped(surface[o]).mapped = FALSE
          /\ Unmapped(surface[o]).data[p] = TRUE /\ Unmapped(surface[o]).copy[p] = None
      BY <2>3, <2>5, <3>1, UnmappedThere
    <3>3. \A q \in Planes \ {p} : /\ Unmapped(surface[o]).data[q] = surface[o].data[q]
                                  /\ Unmapped(surface[o]).copy[q] = surface[o].copy[q]
      BY <2>3, <2>5, <3>1, UnmappedElsewhere
    <3> QED BY <2>2, <2>3, <3>2, <3>3
  <2> QED BY <2>4, <2>6 DEF Turns, InPlace
<1> QED
  BY <1>6, <1>7

LEMMA TransformTurns ==
  ASSUME ShmInv, NEW m \in Memories, NEW n \in Memories, NEW ok \in BOOLEAN,
         Transform(m, n, ok)
  PROVE  TurnsInv'
<1>1. owner[n] \in Memories /\ surface[owner[n]] \in Surfaces
  BY HeldHasSurface DEF ShmInv, Transform
<1>2. \/ surface' = surface
      \/ surface' = [surface EXCEPT ![owner[n]] = ConvertedTo(surface[owner[n]])]
  BY TransformReach DEF ShmInv
<1>3. /\ UNCHANGED <<owner, mapping>>
      /\ clashed \subseteq clashed' /\ Clash(owner[n]) \subseteq clashed'
  BY DEF Transform
<1>4. SUFFICES ASSUME NEW o \in Memories, o \notin clashed', surface'[o] # None PROVE Turns(o)'
  BY DEF TurnsInv
<1>5. ASSUME NEW x PROVE Mappers(x)' = Mappers(x)
  BY <1>3 DEF Mappers
<1>6. surface[o] # None
  BY <1>1, <1>2, <1>4, NoneApart DEF ShmInv, ReachInv, ShmTypeOK
<1>7. Turns(o)
  BY <1>3, <1>4, <1>6 DEF ShmInv, TurnsInv
<1>8. CASE surface'[o] = surface[o]
  BY <1>3, <1>5, <1>7, <1>8, TurnsKept
<1>9. CASE surface'[o] # surface[o]
  <2>1. o = owner[n] /\ surface'[o] = ConvertedTo(surface[o])
    BY <1>1, <1>2, <1>9 DEF ShmInv, ReachInv, ShmTypeOK
  <2>2. Mappers(o) = {}
    BY <1>3, <1>4, <2>1 DEF Clash, Mappers
  <2>3. surface[o].mapped = FALSE /\ \A p \in Planes : surface[o].copy[p] = None
    BY <1>7, <2>2 DEF Turns, InPlace
  <2>4. /\ surface'[o].mapped = FALSE
        /\ \A p \in Planes : surface'[o].data[p] = TRUE /\ surface'[o].copy[p] = None
    <3>1. surface[o] \in Surfaces
      BY <1>1, <2>1
    <3>2. /\ ConvertedTo(surface[o]).mapped = surface[o].mapped
          /\ \A p \in Planes :
               /\ ConvertedTo(surface[o]).data[p] = TRUE
               /\ surface[o].copy[p] = None => ConvertedTo(surface[o]).copy[p] = None
      BY <3>1, ConvertedToIs
    <3> QED BY <2>1, <2>3, <3>2
  <2> QED BY <1>5, <2>2, <2>4 DEF Turns, InPlace
<1> QED
  BY <1>8, <1>9

LEMMA ShmStep == ShmInv /\ [ShmNext]_shmVars => ShmInv'
<1> SUFFICES ASSUME ShmInv, [ShmNext]_shmVars PROVE ShmInv'
  OBVIOUS
<1>0. ReachInv
  BY DEF ShmInv
<1>1. ASSUME NEW m \in Memories, Alloc(m) PROVE ShmInv'
  BY <1>0, <1>1, AllocReach, AllocTurns DEF ShmInv
<1>2. ASSUME NEW m \in Memories, Unref(m) PROVE ShmInv'
  BY <1>0, <1>2, UnrefReach, UnrefTurns DEF ShmInv
<1>3. ASSUME NEW m \in Memories, Write(m) PROVE ShmInv'
  BY <1>0, <1>3, WriteReach, WriteTurns DEF ShmInv
<1>4. ASSUME NEW m \in Memories, UnmapPlane(m) PROVE ShmInv'
  BY <1>0, <1>4, UnmapReach, UnmapTurns DEF ShmInv
<1>5. ASSUME NEW m \in Memories, NEW s \in Memories, Share(m, s) PROVE ShmInv'
  BY <1>0, <1>5, ShareReach, ShareTurns DEF ShmInv
<1>6. ASSUME NEW m \in Memories, NEW p \in Planes, NEW write \in BOOLEAN, MapPlane(m, p, write)
      PROVE  ShmInv'
  BY <1>0, <1>6, MapReach, MapTurns DEF ShmInv
<1>7. ASSUME NEW m \in Memories, NEW n \in Memories, NEW ok \in BOOLEAN, Transform(m, n, ok)
      PROVE  ShmInv'
  BY <1>0, <1>7, TransformReach, TransformTurns DEF ShmInv
<1>8. CASE UNCHANGED shmVars
  BY <1>8 DEF shmVars, ShmInv, ReachInv, TurnsInv, ShmTypeOK, OwnersOwn, MappedHeld,
              SurfacesReachable, Exists, Turns, Mappers, InPlace
<1> QED
  BY <1>1, <1>2, <1>3, <1>4, <1>5, <1>6, <1>7, <1>8 DEF ShmNext

LEMMA ShmAlways == ShmSpec => []ShmInv
BY ShmInitial, ShmStep, PTL DEF ShmSpec

(***************************************************************************)
(* However many memories share surfaces and in whatever order they are     *)
(* given up, each reaches a surface, and no surface is left without its    *)
(* memory (gstnvmmallocator.cpp:13).                                       *)
(***************************************************************************)
THEOREM MemoriesReachSurfaces == ShmSpec => []SurfacesReachable
<1>1. ShmInv => SurfacesReachable
  BY DEF ShmInv, ReachInv
<1> QED
  BY ShmAlways, <1>1, PTL

(***************************************************************************)
(* Holders that take turns see in every plane what it was last given,      *)
(* whichever planes they map and whether or not they write                 *)
(* (nvmm_buffer.cpp: map_read, map_write and unmap).                       *)
(***************************************************************************)
THEOREM TakingTurnsIsSafe == ShmSpec => []TurnsKeepWrites
<1>1. ASSUME ShmInv PROVE TurnsKeepWrites
  <2>1. SUFFICES ASSUME NEW o \in Memories \ clashed, surface[o] # None, NEW p \in Planes
                 PROVE  IF \E m \in Memories : owner[m] = o /\ mapping[m] # None
                                               /\ mapping[m].plane = p
                        THEN surface[o].copy[p] = TRUE
                        ELSE surface[o].data[p] /\ surface[o].copy[p] = None
    BY Zenon DEF TurnsKeepWrites
  <2>2. Turns(o)
    BY <1>1, <2>1 DEF ShmInv, TurnsInv
  <2>3. CASE \E m \in Mappers(o) : mapping[m].plane = p
    <3>1. surface[o].copy[p] = TRUE
      BY <2>2, <2>3 DEF Turns
    <3> QED BY <2>3, <3>1, Zenon DEF Mappers
  <2>4. CASE \A m \in Mappers(o) : mapping[m].plane # p
    <3>1. InPlace(o, p)
      <4>1. CASE Mappers(o) = {}
        BY <2>2, <4>1 DEF Turns
      <4>2. CASE Mappers(o) # {}
        <5>1. PICK m \in Mappers(o) : TRUE
          BY <4>2
        <5> QED BY <2>2, <2>4, <5>1 DEF Turns
      <4> QED BY <4>1, <4>2
    <3>2. surface[o].data[p] /\ surface[o].copy[p] = None
      BY <3>1 DEF InPlace
    <3> QED BY <2>4, <3>2, Zenon DEF Mappers
  <2> QED BY <2>3, <2>4
<1> QED
  BY ShmAlways, <1>1, PTL
-----------------------------------------------------------------------------
(* The rounds of nvmmcompositor.                                           *)

QueuedFrames == [n : Nat, pts : Nat, surf : BOOLEAN]
Outputs == [tiles : [Pads -> Nat], clock : Nat, pts : Nat]

CompositorTypeOK ==
  /\ queue \in [Pads -> Seq(QueuedFrames)]
  /\ arrived \in [Pads -> Nat] /\ latest \in [Pads -> Nat]
  /\ padEos \subseteq Pads
  /\ ended \in BOOLEAN /\ failed \in BOOLEAN
  /\ output \in Outputs
  /\ rounds \in Nat /\ shortRounds \in Nat

(* The frames that have left the queue of a pad.                           *)
Taken(p) == arrived[p] - Len(queue[p])

(* A queue holds the frames that came last, and which have no surface is   *)
(* known of those that came.                                               *)
InOrder(p) ==
  /\ Taken(p) \in Nat
  /\ \A i \in 1 .. Len(queue[p]) :
       /\ queue[p][i].n = Taken(p) + i
       /\ queue[p][i].surf <=> <<p, queue[p][i].n>> \notin refused
  /\ \A n \in Nat : <<p, n>> \in refused => n <= arrived[p]
  /\ \A n \in Nat : <<p, n>> \in undrawn => n <= Taken(p)

QueuesInOrder == \A p \in Pads : InOrder(p)

(* The frame f has a PTS behind t.                                         *)
After(f, t) == f.pts # 0 => f.pts > t

(* Where they have a PTS the frames of a queue lie behind one another and  *)
(* behind the output, when that has its PTS from the pad.                  *)
InTime(p) ==
  /\ \A i \in 1 .. Len(queue[p]) :
       /\ queue[p][i].pts <= latest[p]
       /\ \A j \in 1 .. i - 1 : After(queue[p][i], queue[p][j].pts)
  /\ output.clock = p =>
       /\ output.pts <= latest[p]
       /\ \A i \in 1 .. Len(queue[p]) : After(queue[p][i], output.pts)

TimesInOrder == \A p \in Pads : InTime(p)

(* A pad that may give a frame in a round to come.                         *)
Active(p) == p \notin padEos \/ queue[p] # <<>>

(* No pad has given more frames than there were rounds, none that is       *)
(* active less but for the rounds that did not wait, and no frame in the   *)
(* output is of a later one.                                               *)
RoundsInv ==
  \A p \in Pads :
    /\ Taken(p) <= rounds /\ output.tiles[p] <= rounds
    /\ Active(p) => Taken(p) + shortRounds >= rounds

CompositorInv == CompositorTypeOK /\ QueuesInOrder /\ TimesInOrder /\ RoundsInv /\ PadsInStep

LEMMA HeadTail ==
  ASSUME NEW Q, NEW s \in Seq(Q), s # <<>>
  PROVE  /\ Len(s) \in Nat \ {0} /\ Head(s) = s[1] /\ Head(s) \in Q
         /\ Tail(s) \in Seq(Q) /\ Len(Tail(s)) = Len(s) - 1
         /\ \A i \in 1 .. Len(s) - 1 : Tail(s)[i] = s[i + 1]
OBVIOUS

(* Of some pads one comes first.                                           *)
LEMMA FirstPad ==
  ASSUME NEW S \in SUBSET Nat, S # {}
  PROVE  \E m \in S : \A k \in S : m <= k
BY Considering!LeastOf

LEMMA CompositorInitial == CompositorInit => CompositorInv
<1> SUFFICES ASSUME CompositorInit PROVE CompositorInv
  OBVIOUS
<1> USE DEF CompositorInit, Blank
<1>1. CompositorTypeOK
  <2>1. queue \in [Pads -> Seq(QueuedFrames)]
    BY DEF QueuedFrames
  <2>2. ended \in BOOLEAN /\ failed \in BOOLEAN
    OBVIOUS
  <2>3. output \in Outputs
    BY DEF Outputs
  <2> QED BY <2>1, <2>2, <2>3 DEF CompositorTypeOK
<1>2. QueuesInOrder
  BY DEF QueuesInOrder, InOrder, Taken
<1>3. TimesInOrder
  BY CompositorAssumption DEF TimesInOrder, InTime
<1>4. RoundsInv
  BY DEF RoundsInv, Taken
<1>5. PadsInStep
  BY DEF PadsInStep
<1> QED
  BY <1>1, <1>2, <1>3, <1>4, <1>5 DEF CompositorInv

LEMMA CompositorRestart == (CompositorInit => CompositorInv)'
BY CompositorInitial, PTL

LEMMA ArriveKeeps ==
  ASSUME CompositorInv, NEW p \in Pads, NEW hasSurface \in BOOLEAN, NEW pts \in 0 .. MaxTime,
         ArriveOn(p, hasSurface, pts)
  PROVE  CompositorInv'
<1> DEFINE new == [n |-> arrived[p] + 1, pts |-> pts, surf |-> hasSurface]
           last == IF pts = 0 THEN latest[p] ELSE pts
<1>0. /\ UNCHANGED <<padEos, ended, failed, output, rounds, shortRounds, undrawn>>
      /\ arrived' = [arrived EXCEPT ![p] = arrived[p] + 1]
      /\ latest' = [latest EXCEPT ![p] = last]
      /\ queue' = [queue EXCEPT ![p] = Append(queue[p], new)]
      /\ refused' = IF hasSurface THEN refused ELSE refused \union {<<p, arrived[p] + 1>>}
      /\ p \notin padEos
      /\ pts = 0 \/ pts > latest[p]
  BY DEF ArriveOn
<1>1. /\ queue[p] \in Seq(QueuedFrames) /\ arrived[p] \in Nat /\ latest[p] \in Nat
      /\ pts \in Nat /\ new \in QueuedFrames /\ last \in Nat /\ last >= latest[p]
  BY <1>0, CompositorAssumption DEF CompositorInv, CompositorTypeOK, QueuedFrames
<1>2. /\ Append(queue[p], new) \in Seq(QueuedFrames)
      /\ Len(Append(queue[p], new)) = Len(queue[p]) + 1
      /\ Append(queue[p], new)[Len(queue[p]) + 1] = new
      /\ \A i \in 1 .. Len(queue[p]) : Append(queue[p], new)[i] = queue[p][i]
      /\ Append(queue[p], new) # <<>> /\ Len(queue[p]) \in Nat
  <2> HIDE DEF new
  <2> QED BY <1>1
<1>3. CompositorTypeOK'
  BY <1>0, <1>1, <1>2 DEF CompositorInv, CompositorTypeOK
<1>4. \A q \in Pads : Taken(q)' = Taken(q) /\ Taken(q) \in Nat
  BY <1>0, <1>1, <1>2 DEF Taken, CompositorInv, CompositorTypeOK, QueuesInOrder, InOrder
<1>5. ASSUME NEW q \in Pads, q # p
      PROVE  /\ queue'[q] = queue[q] /\ arrived'[q] = arrived[q] /\ latest'[q] = latest[q]
             /\ \A n : <<q, n>> \in refused' <=> <<q, n>> \in refused
  BY <1>0, <1>5 DEF CompositorInv, CompositorTypeOK
<1>6. /\ queue'[p] = Append(queue[p], new) /\ arrived'[p] = arrived[p] + 1 /\ latest'[p] = last
      /\ Len(queue'[p]) = Len(queue[p]) + 1
  BY <1>0, <1>2 DEF CompositorInv, CompositorTypeOK
<1>7. QueuesInOrder'
  <2>1. ASSUME NEW q \in Pads, q # p PROVE InOrder(q)'
    BY <1>0, <1>4, <1>5, <2>1 DEF CompositorInv, QueuesInOrder, InOrder
  <2>2. InOrder(p)'
    <3>0. InOrder(p)
      BY DEF CompositorInv, QueuesInOrder
    <3>1. ASSUME NEW i \in 1 .. Len(queue[p])
          PROVE  /\ queue'[p][i].n = Taken(p) + i
                 /\ queue'[p][i].surf <=> <<p, queue'[p][i].n>> \notin refused'
      <4>1. /\ queue'[p][i] = queue[p][i] /\ queue[p][i].n = Taken(p) + i
            /\ queue[p][i].surf <=> <<p, queue[p][i].n>> \notin refused
        BY <1>2, <1>6, <3>0 DEF InOrder
      <4>2. queue[p][i].n # arrived[p] + 1
        BY <1>1, <1>2, <4>1 DEF Taken
      <4> QED BY <1>0, <4>1, <4>2
    <3>2. LET k == Len(queue[p]) + 1
          IN  /\ queue'[p][k].n = Taken(p) + k
              /\ queue'[p][k].surf <=> <<p, queue'[p][k].n>> \notin refused'
      <4>1. queue'[p][Len(queue[p]) + 1] = new
        BY <1>2, <1>6
      <4>2. Taken(p) + (Len(queue[p]) + 1) = arrived[p] + 1
        BY <1>1, <1>2 DEF Taken
      <4>3. <<p, arrived[p] + 1>> \notin refused
        BY <1>1, <3>0 DEF InOrder
      <4> QED BY <1>0, <4>1, <4>2, <4>3
    <3>3. \A n \in Nat : <<p, n>> \in refused' => n <= arrived[p] + 1
      BY <1>0, <1>1, <3>0 DEF InOrder
    <3>4. \A i \in 1 .. Len(queue[p]) + 1 : i \in 1 .. Len(queue[p]) \/ i = Len(queue[p]) + 1
      BY <1>2
    <3> QED BY <1>0, <1>4, <1>6, <3>0, <3>1, <3>2, <3>3, <3>4 DEF InOrder
  <2> QED BY <2>1, <2>2 DEF QueuesInOrder
<1>8. TimesInOrder'
  <2>1. ASSUME NEW q \in Pads, q # p PROVE InTime(q)'
    BY <1>0, <1>5, <2>1 DEF CompositorInv, TimesInOrder, InTime
  <2>2. InTime(p)'
    <3>0. InTime(p) /\ output \in Outputs /\ queue[p] \in Seq(QueuedFrames)
      BY DEF CompositorInv, TimesInOrder, CompositorTypeOK
    <3>1. ASSUME NEW i \in 1 .. Len(queue[p])
          PROVE  /\ queue'[p][i].pts <= last
                 /\ \A j \in 1 .. i - 1 : After(queue'[p][i], queue'[p][j].pts)
                 /\ output.clock = p => After(queue'[p][i], output.pts)
      <4>1. /\ queue'[p][i] = queue[p][i]
            /\ \A j \in 1 .. i - 1 : queue'[p][j] = queue[p][j]
        BY <1>2, <1>6
      <4>2. queue[p][i].pts <= latest[p]
        BY <3>0 DEF InTime
      <4>3. queue[p][i].pts \in Nat
        <5>1. queue[p][i] \in QueuedFrames
          BY <3>0
        <5> QED BY <5>1 DEF QueuedFrames
      <4>4. queue'[p][i].pts <= last
        BY <1>1, <4>1, <4>2, <4>3
      <4>5. \A j \in 1 .. i - 1 : After(queue'[p][i], queue'[p][j].pts)
        BY <3>0, <4>1 DEF InTime
      <4>6. output.clock = p => After(queue'[p][i], output.pts)
        BY <3>0, <4>1 DEF InTime
      <4> QED BY <4>4, <4>5, <4>6
    <3>2. LET k == Len(queue[p]) + 1
          IN  /\ queue'[p][k].pts <= last
              /\ \A j \in 1 .. k - 1 : After(queue'[p][k], queue'[p][j].pts)
              /\ output.clock = p => After(queue'[p][k], output.pts)
      <4>1. queue'[p][Len(queue[p]) + 1].pts = pts
        BY <1>2, <1>6
      <4>2. ASSUME NEW j \in 1 .. Len(queue[p])
            PROVE  queue'[p][j].pts <= latest[p] /\ queue'[p][j].pts \in Nat
        <5>1. queue'[p][j] = queue[p][j]
          BY <1>2, <1>6
        <5>2. queue[p][j] \in QueuedFrames
          BY <3>0
        <5>3. queue[p][j].pts <= latest[p]
          BY <3>0 DEF InTime
        <5> QED BY <5>1, <5>2, <5>3 DEF QueuedFrames
      <4>3. pts # 0 => pts > latest[p]
        BY <1>0
      <4>4. output.pts \in Nat /\ (output.clock = p => output.pts <= latest[p])
        BY <3>0 DEF Outputs, InTime
      <4>5. (Len(queue[p]) + 1) - 1 = Len(queue[p])
        BY <1>2
      <4>6. pts <= last
        BY <1>1
      <4> QED BY <1>1, <4>1, <4>2, <4>3, <4>4, <4>5, <4>6 DEF After
    <3>3. output.clock = p => output.pts <= last
      BY <1>1, <3>0 DEF InTime, Outputs
    <3>4. \A i \in 1 .. Len(queue[p]) + 1 : i \in 1 .. Len(queue[p]) \/ i = Len(queue[p]) + 1
      BY <1>2
    <3> QED BY <1>0, <1>6, <3>1, <3>2, <3>3, <3>4 DEF InTime
  <2> QED BY <2>1, <2>2 DEF TimesInOrder
<1>9. RoundsInv'
  <2>1. \A q \in Pads : Active(q)' => Active(q)
    BY <1>0, <1>5 DEF Active
  <2> QED BY <1>0, <1>4, <2>1 DEF CompositorInv, RoundsInv
<1>10. PadsInStep'
  <2>1. ended => padEos = Pads \/ failed
    BY DEF CompositorInv, PadsInStep
  <2>2. ended' /\ ~failed' => FALSE
    BY <1>0, <2>1
  <2> QED BY <1>0, <2>2 DEF CompositorInv, PadsInStep
<1> QED
  BY <1>3, <1>7, <1>8, <1>9, <1>10 DEF CompositorInv

LEMMA EndKeeps ==
  ASSUME CompositorInv, NEW p \in Pads, EndOn(p)
  PROVE  CompositorInv'
<1>0. /\ UNCHANGED <<queue, arrived, latest, ended, failed, output, rounds, shortRounds,
                     refused, undrawn>>
      /\ padEos' = padEos \union {p} /\ p \notin padEos
  BY DEF EndOn
<1>1. CompositorTypeOK'
  BY <1>0 DEF CompositorInv, CompositorTypeOK
<1>2. QueuesInOrder' /\ TimesInOrder'
  BY <1>0 DEF CompositorInv, QueuesInOrder, InOrder, Taken, TimesInOrder, InTime
<1>3. RoundsInv'
  BY <1>0 DEF CompositorInv, RoundsInv, Taken, Active
<1>4. PadsInStep'
  BY <1>0 DEF CompositorInv, PadsInStep
<1> QED
  BY <1>1, <1>2, <1>3, <1>4 DEF CompositorInv

(* What a round does to the queues: every pad that has a frame gives one.  *)
LEMMA AggregateTakes ==
  ASSUME CompositorInv, NEW drawn \in SUBSET Composed, Aggregate(drawn), NEW p \in Pads
  PROVE  /\ queue'[p] \in Seq(QueuedFrames)
         /\ Taken(p)' = Taken(p) + (IF p \in Queued THEN 1 ELSE 0)
         /\ queue'[p] # <<>> => p \in Queued
         /\ p \in Queued =>
              /\ Head(queue[p]) = queue[p][1] /\ queue[p][1] \in QueuedFrames
              /\ Head(queue[p]).n = Taken(p) + 1 /\ Taken(p) + 1 <= arrived[p]
              /\ Head(queue[p]).surf <=> <<p, Taken(p) + 1>> \notin refused
              /\ Len(queue'[p]) = Len(queue[p]) - 1 /\ Len(queue[p]) \in Nat \ {0}
              /\ \A i \in 1 .. Len(queue'[p]) : queue'[p][i] = queue[p][i + 1]
         /\ p \notin Queued =>
              queue'[p] = queue[p] /\ Len(queue[p]) = 0 /\ arrived[p] = Taken(p)
<1>0. /\ arrived' = arrived /\ queue[p] \in Seq(QueuedFrames) /\ arrived[p] \in Nat
      /\ InOrder(p)
      /\ queue' = [q \in Pads |-> IF q \in Queued THEN Tail(queue[q]) ELSE queue[q]]
  BY DEF Aggregate, Drops, CompositorInv, CompositorTypeOK, QueuesInOrder
<1>1. CASE p \in Queued
  <2>1. queue'[p] = Tail(queue[p]) /\ queue[p] # <<>>
    BY <1>0, <1>1 DEF Queued
  <2>2. /\ Len(queue[p]) \in Nat \ {0} /\ Head(queue[p]) = queue[p][1]
        /\ Head(queue[p]) \in QueuedFrames
        /\ queue'[p] \in Seq(QueuedFrames) /\ Len(queue'[p]) = Len(queue[p]) - 1
        /\ \A i \in 1 .. Len(queue[p]) - 1 : queue'[p][i] = queue[p][i + 1]
    BY <1>0, <2>1, HeadTail
  <2>3. Taken(p)' = Taken(p) + 1 /\ Taken(p) + 1 <= arrived[p]
    BY <1>0, <2>2 DEF Taken
  <2>4. queue[p][1].n = Taken(p) + 1 /\ (queue[p][1].surf <=> <<p, Taken(p) + 1>> \notin refused)
    <3>1. 1 \in 1 .. Len(queue[p])
      BY <2>2
    <3> QED BY <1>0, <3>1 DEF InOrder
  <2>5. queue'[p] # <<>> => p \in Queued
    BY <1>1
  <2>6. Len(queue'[p]) = Len(queue[p]) - 1
    BY <2>2
  <2> QED BY <1>1, <2>2, <2>3, <2>4, <2>5, <2>6
<1>2. CASE p \notin Queued
  <2>1. queue'[p] = queue[p] /\ queue[p] = <<>>
    BY <1>0, <1>2 DEF Queued
  <2>2. Taken(p)' = Taken(p) /\ arrived[p] = Taken(p) /\ Taken(p) \in Nat
    BY <1>0, <2>1 DEF Taken
  <2>3. Taken(p)' = Taken(p) + (IF p \in Queued THEN 1 ELSE 0)
    BY <1>2, <2>2
  <2>4. Len(queue[p]) = 0 /\ queue'[p] = <<>> /\ queue'[p] \in Seq(QueuedFrames)
    BY <1>0, <2>1
  <2> QED BY <1>2, <2>1, <2>2, <2>3, <2>4
<1> QED BY <1>1, <1>2

(* What a round does to the output, if it changes it.                      *)
LEMMA AggregateShows ==
  ASSUME CompositorInv, NEW drawn \in SUBSET Composed, Aggregate(drawn), Composed # {}
  PROVE  /\ output' \in Outputs
         /\ \A p \in Pads : output'.tiles[p] = IF p \in drawn THEN Taken(p) + 1 ELSE 0
         /\ output'.clock = Clock /\ Clock \in Timed \union {0}
         /\ Clock # 0 => output'.pts = Head(queue[Clock]).pts
<1> DEFINE tiles == [p \in Pads |-> IF p \in drawn THEN Head(queue[p]).n ELSE 0]
           pts == IF Clock = 0 THEN 0 ELSE Head(queue[Clock]).pts
<1>1. output' = [tiles |-> tiles, clock |-> Clock, pts |-> pts]
  BY DEF Aggregate
<1>2. drawn \subseteq Composed /\ Composed \subseteq Queued /\ Queued \subseteq Pads
      /\ Timed \subseteq Composed /\ Pads \subseteq Nat \ {0}
  BY CompositorAssumption DEF Composed, Queued, Timed
<1>3. Clock \in Timed \union {0}
  <2>1. CASE Timed # {}
    <3>1. \E p \in Timed : \A q \in Timed : p <= q
      BY <1>2, <2>1, FirstPad
    <3> QED BY <2>1, <3>1 DEF Clock
  <2>2. CASE Timed = {}
    BY <2>2 DEF Clock
  <2> QED BY <2>1, <2>2
<1>4. ASSUME NEW p \in Queued
      PROVE  Head(queue[p]).n = Taken(p) + 1 /\ Taken(p) + 1 \in Nat /\ Head(queue[p]).pts \in Nat
  <2>1. p \in Pads
    BY <1>2
  <2>2. Taken(p) \in Nat
    BY <2>1 DEF CompositorInv, QueuesInOrder, InOrder
  <2> QED BY <2>1, <2>2, AggregateTakes DEF QueuedFrames
<1>5. /\ tiles \in [Pads -> Nat]
      /\ \A p \in Pads : tiles[p] = IF p \in drawn THEN Taken(p) + 1 ELSE 0
  BY <1>2, <1>4
<1>6. pts \in Nat /\ Clock \in Nat
  BY <1>2, <1>3, <1>4
<1> HIDE DEF tiles, pts
<1>7. output' \in Outputs
  BY <1>1, <1>5, <1>6 DEF Outputs
<1>8. output'.tiles = tiles /\ output'.clock = Clock /\ output'.pts = pts
  BY <1>1
<1> QED
  BY <1>3, <1>5, <1>7, <1>8 DEF pts

(* A round, whether it waited for all or not.                              *)
LEMMA RoundKeeps ==
  ASSUME CompositorInv, Round \/ ShortRound
  PROVE  CompositorInv'
<1>a. PICK drawn \in SUBSET Composed : Aggregate(drawn)
  BY DEF Round, ShortRound
<1>0. /\ UNCHANGED <<padEos, arrived, latest, failed, refused>> /\ ended' = AllEos
      /\ rounds' = rounds + 1 /\ rounds \in Nat /\ shortRounds \in Nat
      /\ undrawn' = undrawn \union {<<p, Head(queue[p]).n>> : p \in Composed \ drawn}
      /\ ShortRound => ~(Pads \subseteq Queued \union padEos)
      /\ Round => Pads \subseteq Queued \union padEos
      /\ \/ Round /\ shortRounds' = shortRounds
         \/ ShortRound /\ shortRounds' = shortRounds + 1
  BY <1>a DEF Round, ShortRound, Aggregate, CompositorInv, CompositorTypeOK
<1>1. output' = output \/ Composed # {}
  BY <1>a DEF Aggregate
<1>2. Composed \subseteq Queued /\ Queued \subseteq Pads /\ drawn \subseteq Composed
      /\ Timed \subseteq Composed /\ Pads \subseteq Nat \ {0}
  BY CompositorAssumption DEF Composed, Queued, Timed
<1>3. \A p \in Pads : /\ Taken(p) \in Nat /\ arrived[p] \in Nat /\ queue[p] \in Seq(QueuedFrames)
                      /\ Taken(p) <= rounds /\ output.tiles[p] <= rounds
                      /\ Active(p) => Taken(p) + shortRounds >= rounds
                      /\ output.tiles[p] \in Nat
  BY DEF CompositorInv, CompositorTypeOK, QueuesInOrder, InOrder, RoundsInv, Outputs
<1>4. CompositorTypeOK'
  <2>1. queue' \in [Pads -> Seq(QueuedFrames)]
    <3>1. queue' = [p \in Pads |-> IF p \in Drops THEN Tail(queue[p]) ELSE queue[p]]
      BY <1>a DEF Aggregate
    <3>2. \A p \in Pads : queue'[p] \in Seq(QueuedFrames)
      BY <1>a, AggregateTakes
    <3> QED BY <3>1, <3>2
  <2>2. output' \in Outputs
    <3>1. output \in Outputs
      BY DEF CompositorInv, CompositorTypeOK
    <3> QED BY <1>a, <1>1, <3>1, AggregateShows
  <2>3. ended' \in BOOLEAN /\ failed' \in BOOLEAN
    BY <1>0, Zenon DEF AllEos, CompositorInv, CompositorTypeOK
  <2>4. /\ arrived' \in [Pads -> Nat] /\ latest' \in [Pads -> Nat] /\ padEos' \subseteq Pads
        /\ rounds' \in Nat /\ shortRounds' \in Nat
    BY <1>0 DEF CompositorInv, CompositorTypeOK
  <2> QED BY <2>1, <2>2, <2>3, <2>4 DEF CompositorTypeOK
<1>5. QueuesInOrder'
  <2> SUFFICES ASSUME NEW p \in Pads PROVE InOrder(p)'
    BY DEF QueuesInOrder
  <2>0. InOrder(p)
    BY DEF CompositorInv, QueuesInOrder
  <2>1. CASE p \in Queued
    <3>1. /\ Taken(p)' = Taken(p) + 1 /\ Len(queue'[p]) = Len(queue[p]) - 1
          /\ Len(queue[p]) \in Nat \ {0}
          /\ \A i \in 1 .. Len(queue'[p]) : queue'[p][i] = queue[p][i + 1]
          /\ Head(queue[p]).n = Taken(p) + 1
      BY <1>a, <2>1, AggregateTakes
    <3>2. ASSUME NEW i \in 1 .. Len(queue'[p])
          PROVE  /\ queue'[p][i].n = Taken(p)' + i
                 /\ queue'[p][i].surf <=> <<p, queue'[p][i].n>> \notin refused'
      <4>1. i + 1 \in 1 .. Len(queue[p]) /\ queue'[p][i] = queue[p][i + 1]
        BY <3>1
      <4>2. /\ queue[p][i + 1].n = Taken(p) + (i + 1)
            /\ queue[p][i + 1].surf <=> <<p, queue[p][i + 1].n>> \notin refused
        BY <2>0, <4>1 DEF InOrder
      <4>3. Taken(p) + (i + 1) = Taken(p)' + i
        BY <1>3, <3>1
      <4> QED BY <1>0, <4>1, <4>2, <4>3
    <3>3. ASSUME NEW n \in Nat, <<p, n>> \in undrawn' PROVE n <= Taken(p)'
      <4>1. <<p, n>> \in undrawn \/ n = Head(queue[p]).n
        BY <1>0, <3>3
      <4>2. <<p, n>> \in undrawn => n <= Taken(p)
        BY <2>0 DEF InOrder
      <4> QED BY <1>3, <3>1, <4>1, <4>2
    <3>4. Taken(p)' \in Nat /\ \A n \in Nat : <<p, n>> \in refused' => n <= arrived'[p]
      BY <1>0, <1>3, <2>0, <3>1 DEF InOrder
    <3> QED BY <3>2, <3>3, <3>4 DEF InOrder
  <2>2. CASE p \notin Queued
    <3>1. queue'[p] = queue[p] /\ Taken(p)' = Taken(p)
      <4>1. queue'[p] = queue[p] /\ Taken(p)' = Taken(p) + (IF p \in Queued THEN 1 ELSE 0)
        BY <1>a, <2>2, AggregateTakes
      <4> QED BY <1>3, <2>2, <4>1
    <3>2. \A n \in Nat : <<p, n>> \in undrawn' => <<p, n>> \in undrawn
      BY <1>0, <1>2, <2>2
    <3> QED BY <1>0, <2>0, <3>1, <3>2 DEF InOrder
  <2> QED BY <2>1, <2>2
<1>6. TimesInOrder'
  <2> SUFFICES ASSUME NEW p \in Pads PROVE InTime(p)'
    BY DEF TimesInOrder
  <2>0. InTime(p) /\ output \in Outputs /\ latest[p] \in Nat /\ latest' = latest
    BY <1>0 DEF CompositorInv, TimesInOrder, CompositorTypeOK
  <2>1. CASE p \in Queued
    <3>1. /\ Len(queue'[p]) = Len(queue[p]) - 1 /\ Len(queue[p]) \in Nat \ {0}
          /\ \A i \in 1 .. Len(queue'[p]) : queue'[p][i] = queue[p][i + 1]
          /\ Head(queue[p]) = queue[p][1]
      BY <1>a, <2>1, AggregateTakes
    <3>2. ASSUME NEW i \in 1 .. Len(queue'[p])
          PROVE  /\ queue'[p][i].pts <= latest'[p]
                 /\ \A j \in 1 .. i - 1 : After(queue'[p][i], queue'[p][j].pts)
                 /\ After(queue'[p][i], queue[p][1].pts)
                 /\ output.clock = p => After(queue'[p][i], output.pts)
      <4>1. /\ i + 1 \in 1 .. Len(queue[p]) /\ 1 \in 1 .. (i + 1) - 1
            /\ queue'[p][i] = queue[p][i + 1]
        BY <3>1
      <4>2. \A j \in 1 .. i - 1 : j + 1 \in 1 .. (i + 1) - 1 /\ queue'[p][j] = queue[p][j + 1]
        BY <3>1
      <4>3. /\ queue[p][i + 1].pts <= latest[p]
            /\ \A j \in 1 .. (i + 1) - 1 : After(queue[p][i + 1], queue[p][j].pts)
            /\ output.clock = p => After(queue[p][i + 1], output.pts)
        BY <2>0, <4>1 DEF InTime
      <4> QED BY <2>0, <4>1, <4>2, <4>3
    <3>3. ASSUME output'.clock = p
          PROVE  /\ output'.pts <= latest'[p]
                 /\ \A i \in 1 .. Len(queue'[p]) : After(queue'[p][i], output'.pts)
      <4>1. CASE output' = output
        BY <2>0, <3>2, <3>3, <4>1 DEF InTime
      <4>2. CASE Composed # {}
        <5>1. Clock = p /\ Clock # 0
          BY <1>a, <1>2, <3>3, <4>2, AggregateShows
        <5>2. output'.pts = queue[p][1].pts
          BY <1>a, <3>1, <4>2, <5>1, AggregateShows
        <5>3. queue[p][1].pts <= latest[p]
          <6>1. 1 \in 1 .. Len(queue[p])
            BY <3>1
          <6> QED BY <2>0, <6>1 DEF InTime
        <5> QED BY <2>0, <3>2, <5>2, <5>3
      <4> QED BY <1>1, <4>1, <4>2
    <3> QED BY <3>2, <3>3 DEF InTime
  <2>2. CASE p \notin Queued
    <3>1. queue'[p] = queue[p] /\ Len(queue[p]) = 0
      BY <1>a, <2>2, AggregateTakes
    <3>2. output'.clock = p => output' = output
      <4>1. ASSUME Composed # {}, output'.clock = p PROVE FALSE
        BY <1>a, <1>2, <2>2, <4>1, AggregateShows
      <4> QED BY <1>1, <4>1
    <3>3. \A i : i \notin 1 .. 0
      OBVIOUS
    <3> QED BY <2>0, <3>1, <3>2, <3>3 DEF InTime
  <2> QED BY <2>1, <2>2
<1>7. RoundsInv'
  <2> SUFFICES ASSUME NEW p \in Pads
               PROVE  /\ Taken(p)' <= rounds + 1 /\ output'.tiles[p] <= rounds + 1
                      /\ p \notin padEos' \/ queue'[p] # <<>> =>
                           Taken(p)' + shortRounds' >= rounds + 1
    BY <1>0 DEF RoundsInv, Active
  <2>1. Taken(p)' = Taken(p) + (IF p \in Queued THEN 1 ELSE 0) /\ (queue'[p] # <<>> => p \in Queued)
    BY <1>a, AggregateTakes
  <2>2. Taken(p)' <= rounds + 1
    BY <1>0, <1>3, <2>1
  <2>3. output'.tiles[p] <= rounds + 1
    <3>1. CASE output' = output
      BY <1>0, <1>3, <3>1
    <3>2. CASE Composed # {}
      <4>1. output'.tiles[p] = Taken(p) + 1 \/ output'.tiles[p] = 0
        BY <1>a, <3>2, AggregateShows
      <4> QED BY <1>0, <1>3, <4>1
    <3> QED BY <1>1, <3>1, <3>2
  <2>4. ASSUME p \notin padEos' \/ queue'[p] # <<>>
        PROVE  Taken(p)' + shortRounds' >= rounds + 1
    <3>1. CASE p \in Queued
      <4>1. Taken(p)' = Taken(p) + 1 /\ Taken(p) + shortRounds >= rounds
        BY <1>3, <2>1, <3>1 DEF Active, Queued
      <4> QED BY <1>0, <1>3, <4>1
    <3>2. CASE p \notin Queued
      <4>1. p \notin padEos /\ ShortRound /\ shortRounds' = shortRounds + 1
        BY <1>0, <2>1, <2>4, <3>2
      <4>2. Taken(p)' = Taken(p) /\ Taken(p) + shortRounds >= rounds
        BY <1>3, <2>1, <3>2, <4>1 DEF Active
      <4> QED BY <1>0, <1>3, <4>1, <4>2
    <3> QED BY <3>1, <3>2
  <2> QED BY <2>2, <2>3, <2>4
<1>8. ASSUME NEW p \in Pads, NEW q \in Pads, output'.tiles[p] > 0, output'.tiles[q] > 0
      PROVE  output'.tiles[p] - output'.tiles[q] <= shortRounds'
  <2>1. CASE output' = output
    <3>1. output.tiles[p] - output.tiles[q] <= shortRounds
      BY <1>8, <2>1 DEF CompositorInv, PadsInStep
    <3> QED BY <1>0, <1>3, <2>1, <3>1
  <2>2. CASE Composed # {}
    <3>1. /\ output'.tiles[p] = IF p \in drawn THEN Taken(p) + 1 ELSE 0
          /\ output'.tiles[q] = IF q \in drawn THEN Taken(q) + 1 ELSE 0
      BY <1>a, <2>2, AggregateShows
    <3>2. p \in drawn /\ q \in drawn
      BY <1>8, <3>1
    <3>3. Taken(p) <= rounds /\ Taken(q) + shortRounds >= rounds
      BY <1>2, <1>3, <3>2 DEF Active, Queued
    <3> QED BY <1>0, <1>3, <3>1, <3>2, <3>3
  <2> QED BY <1>1, <2>1, <2>2
<1>9. ended' => padEos' = Pads /\ \A p \in Pads : queue'[p] = <<>>
  <2>1. ASSUME AllEos PROVE padEos = Pads /\ \A p \in Pads : queue'[p] = <<>>
    <3>1. Queued = {} /\ padEos = Pads
      BY <2>1 DEF AllEos, CompositorInv, CompositorTypeOK
    <3>2. \A p \in Pads : queue'[p] = <<>>
      BY <1>a, <3>1, AggregateTakes
    <3> QED BY <3>1, <3>2
  <2> QED BY <1>0, <2>1
<1>10. PadsInStep'
  BY <1>8, <1>9 DEF PadsInStep
<1> QED
  BY <1>4, <1>5, <1>6, <1>7, <1>10 DEF CompositorInv

LEMMA CompositorStep == CompositorInv /\ [CompositorNext]_padVars => CompositorInv'
<1> SUFFICES ASSUME CompositorInv, [CompositorNext]_padVars PROVE CompositorInv'
  OBVIOUS
<1>1. ASSUME NEW p \in Pads, EndOn(p) PROVE CompositorInv'
  BY <1>1, EndKeeps
<1>2. ASSUME NEW p \in Pads, NEW hasSurface \in BOOLEAN, NEW pts \in 0 .. MaxTime,
             ArriveOn(p, hasSurface, pts)
      PROVE  CompositorInv'
  BY <1>2, ArriveKeeps
<1>3. CASE Round \/ ShortRound
  BY <1>3, RoundKeeps
<1>4. CASE AllocationFails
  <2>1. ended' = TRUE /\ failed' = TRUE
    BY <1>4 DEF AllocationFails
  <2>2. UNCHANGED <<queue, padEos, arrived, latest, output, rounds, shortRounds, refused, undrawn>>
    BY <1>4 DEF AllocationFails
  <2>3. CompositorTypeOK'
    BY <2>1, <2>2 DEF CompositorInv, CompositorTypeOK
  <2>4. QueuesInOrder' /\ TimesInOrder'
    BY <2>2 DEF CompositorInv, QueuesInOrder, InOrder, Taken, TimesInOrder, InTime
  <2>5. RoundsInv'
    BY <2>2 DEF CompositorInv, RoundsInv, Taken, Active
  <2>6. PadsInStep'
    BY <2>1, <2>2 DEF CompositorInv, PadsInStep
  <2> QED BY <2>3, <2>4, <2>5, <2>6 DEF CompositorInv
<1>5. CASE StopCompositor
  <2>1. CompositorInit'
    BY <1>5 DEF StopCompositor, CompositorInit
  <2> QED BY <2>1, CompositorRestart
<1>6. CASE UNCHANGED padVars
  <2>1. UNCHANGED <<queue, padEos, arrived, latest, ended, failed, output, rounds, shortRounds,
                    refused, undrawn>>
    BY <1>6 DEF padVars
  <2>2. CompositorTypeOK' /\ PadsInStep'
    BY <2>1 DEF CompositorInv, CompositorTypeOK, PadsInStep
  <2>3. QueuesInOrder' /\ TimesInOrder' /\ RoundsInv'
    BY <2>1 DEF CompositorInv, QueuesInOrder, InOrder, Taken, TimesInOrder, InTime, RoundsInv, Active
  <2> QED BY <2>2, <2>3 DEF CompositorInv
<1> QED
  BY <1>1, <1>2, <1>3, <1>4, <1>5, <1>6 DEF CompositorNext

LEMMA CompositorAlways == CompositorSpec => []CompositorInv
BY CompositorInitial, CompositorStep, PTL DEF CompositorSpec

(***************************************************************************)
(* For every number of pads and in any order of frames, ends of stream and *)
(* deadlines: the frames of an output are no further apart than rounds     *)
(* were begun without a frame that had not come, and the end is sent on    *)
(* when all was taken (gstnvmmcompositor.cpp:157-186).                     *)
(***************************************************************************)
THEOREM TilesInStep == CompositorSpec => []PadsInStep
<1>1. CompositorInv => PadsInStep
  BY DEF CompositorInv
<1> QED
  BY CompositorAlways, <1>1, PTL

LEMMA OutputAdvances ==
  ASSUME CompositorInv, [CompositorNext]_padVars, rounds' > rounds, shortRounds' = 0
  PROVE  /\ \A p \in Pads :
              output'.tiles[p] = rounds' <=>
                rounds' <= arrived[p] /\ <<p, rounds'>> \notin refused \union undrawn'
         /\ output' # output /\ output'.clock = output.clock /\ output.clock # 0 =>
              output'.pts > output.pts
<1>0. rounds \in Nat /\ shortRounds \in Nat
  BY DEF CompositorInv, CompositorTypeOK
<1>1. Round
  <2>1. ~StopCompositor
    BY <1>0 DEF StopCompositor
  <2>2. ~ShortRound
    BY <1>0 DEF ShortRound
  <2>3. rounds' # rounds
    BY <1>0
  <2>4. ~AllocationFails /\ ~UNCHANGED padVars
    BY <2>3 DEF AllocationFails, padVars
  <2>5. ASSUME NEW p \in Pads
        PROVE  /\ ~EndOn(p)
               /\ \A hasSurface \in BOOLEAN, pts \in 0 .. MaxTime : ~ArriveOn(p, hasSurface, pts)
    BY <2>3 DEF EndOn, ArriveOn
  <2> QED BY <2>1, <2>2, <2>4, <2>5 DEF CompositorNext
<1>2. PICK drawn \in SUBSET Composed : Aggregate(drawn)
  BY <1>1 DEF Round
<1>3. /\ Pads \subseteq Queued \union padEos /\ shortRounds = 0 /\ rounds' = rounds + 1
      /\ undrawn' = undrawn \union {<<p, Head(queue[p]).n>> : p \in Composed \ drawn}
      /\ output' = output \/ Composed # {}
  BY <1>1, <1>2 DEF Round, Aggregate
<1>4. Composed \subseteq Queued /\ Queued \subseteq Pads /\ drawn \subseteq Composed
      /\ Timed \subseteq Composed
  BY DEF Composed, Queued, Timed
<1>5. ASSUME NEW p \in Pads
      PROVE  output'.tiles[p] = rounds' <=>
               rounds' <= arrived[p] /\ <<p, rounds'>> \notin refused \union undrawn'
  <2>0. /\ Taken(p) \in Nat /\ Taken(p) <= rounds /\ arrived[p] \in Nat
        /\ output.tiles[p] \in Nat /\ output.tiles[p] <= rounds
        /\ \A n \in Nat : <<p, n>> \in undrawn => n <= Taken(p)
    BY DEF CompositorInv, CompositorTypeOK, QueuesInOrder, InOrder, RoundsInv, Outputs
  <2>1. rounds' \in Nat /\ rounds' # 0 /\ rounds' > rounds
    BY <1>0, <1>3
  <2>2. CASE p \in Queued
    <3>1. Taken(p) = rounds
      <4>1. Taken(p) + 0 >= rounds
        BY <1>3, <2>2 DEF CompositorInv, RoundsInv, Active, Queued
      <4> QED BY <1>0, <2>0, <4>1
    <3>2. /\ Head(queue[p]).n = rounds' /\ rounds' <= arrived[p]
          /\ Head(queue[p]).surf <=> <<p, rounds'>> \notin refused
      BY <1>2, <1>3, <2>2, <3>1, AggregateTakes
    <3>3. <<p, rounds'>> \notin undrawn
      BY <1>0, <2>0, <2>1
    <3>4. CASE p \in drawn
      <4>1. output'.tiles[p] = rounds'
        <5>1. Composed # {} /\ output'.tiles[p] = Taken(p) + 1
          BY <1>2, <3>4, AggregateShows
        <5> QED BY <1>3, <3>1, <5>1
      <4>2. <<p, rounds'>> \notin refused
        BY <1>4, <3>2, <3>4 DEF Composed
      <4>3. <<p, rounds'>> \notin undrawn'
        BY <1>3, <3>3, <3>4
      <4> QED BY <3>2, <4>1, <4>2, <4>3
    <3>5. CASE p \notin drawn
      <4>1. output'.tiles[p] # rounds'
        <5>1. CASE output' = output
          BY <1>0, <2>0, <2>1, <5>1
        <5>2. CASE Composed # {}
          <6>1. output'.tiles[p] = 0
            BY <1>2, <3>5, <5>2, AggregateShows
          <6> QED BY <2>1, <6>1
        <5> QED BY <1>3, <5>1, <5>2
      <4>2. CASE p \in Composed
        <5>1. <<p, rounds'>> \in undrawn'
          BY <1>3, <3>2, <3>5, <4>2
        <5> QED BY <4>1, <5>1
      <4>3. CASE p \notin Composed
        <5>1. ~Head(queue[p]).surf
          BY <2>2, <4>3 DEF Composed
        <5> QED BY <3>2, <4>1, <5>1
      <4> QED BY <4>2, <4>3
    <3> QED BY <3>4, <3>5
  <2>3. CASE p \notin Queued
    <3>1. arrived[p] = Taken(p)
      BY <1>2, <2>3, AggregateTakes
    <3>2. ~(rounds' <= arrived[p])
      BY <1>0, <2>0, <2>1, <3>1
    <3>3. output'.tiles[p] # rounds'
      <4>1. CASE output' = output
        BY <1>0, <2>0, <2>1, <4>1
      <4>2. CASE Composed # {}
        <5>1. output'.tiles[p] = 0
          BY <1>2, <1>4, <2>3, <4>2, AggregateShows
        <5> QED BY <2>1, <5>1
      <4> QED BY <1>3, <4>1, <4>2
    <3> QED BY <3>2, <3>3
  <2> QED BY <2>2, <2>3
<1>6. ASSUME output' # output, output'.clock = output.clock, output.clock # 0
      PROVE  output'.pts > output.pts
  <2>1. PICK c : c = output.clock
    OBVIOUS
  <2>2. Clock = c /\ c \in Timed /\ output'.pts = Head(queue[c]).pts
    <3>1. /\ output'.clock = Clock /\ Clock \in Timed \union {0}
          /\ Clock # 0 => output'.pts = Head(queue[Clock]).pts
      BY <1>2, <1>3, <1>6, AggregateShows
    <3> QED BY <1>6, <2>1, <3>1
  <2>3. c \in Pads /\ c \in Queued
    BY <1>4, <2>2
  <2>4. Head(queue[c]) = queue[c][1] /\ Len(queue[c]) \in Nat \ {0}
    BY <1>2, <2>3, AggregateTakes
  <2>5. 1 \in 1 .. Len(queue[c])
    BY <2>4
  <2>6. After(queue[c][1], output.pts)
    BY <2>1, <2>3, <2>5 DEF CompositorInv, TimesInOrder, InTime
  <2>7. queue[c][1].pts # 0
    BY <2>2, <2>4 DEF Timed
  <2> QED BY <2>2, <2>4, <2>6, <2>7 DEF After
<1> QED
  BY <1>5, <1>6

(***************************************************************************)
(* While every round waits, the n-th round draws the n-th frame of every   *)
(* pad that has one, but those without a surface and those the transform   *)
(* fails for, and the PTS of the outputs goes forward as long as one pad   *)
(* gives it, for every number of pads and whichever way their times        *)
(* compare (gstnvmmcompositor.cpp:157-199).                                *)
(***************************************************************************)
THEOREM OutputsGoForward == CompositorSpec => OutputsAdvance
<1>1. CompositorInv /\ [CompositorNext]_padVars =>
        [rounds' > rounds /\ shortRounds' = 0 =>
           /\ \A p \in Pads :
                output'.tiles[p] = rounds' <=>
                  rounds' <= arrived[p] /\ <<p, rounds'>> \notin refused \union undrawn'
           /\ output' # output /\ output'.clock = output.clock /\ output.clock # 0 =>
                output'.pts > output.pts]_padVars
  BY OutputAdvances
<1> QED
  BY CompositorAlways, <1>1, PTL DEF CompositorSpec, OutputsAdvance

-----------------------------------------------------------------------------
(***************************************************************************)
(* The memory of nvmmsamurai.                                              *)
(***************************************************************************)

(* The list walks round the ring and ends before the buffer written next.  *)
SlotOf(i, w, n) ==
  LET d == w - n + i - 1 IN IF d < 0 THEN d + Ring ELSE d

RingPlaces ==
  \A i \in 1 .. Len(ringDev) : ringDev[i] = SlotOf(i, ringWrite, Len(ringDev))

(* The newest of what was remembered, as many as there is room for.        *)
Remembers(n) == IF Len(remembered) < n THEN Len(remembered) ELSE n
Recalled(i, n) == remembered[Len(remembered) - n + i]

RingContents ==
  /\ Len(ringDev) = Remembers(Ring)
  /\ \A i \in 1 .. Len(ringDev) : bufs[ringDev[i]] = Recalled(i, Len(ringDev))

PtrContents ==
  /\ Len(ringObjptr) = Remembers(Ptrs)
  /\ \A i \in 1 .. Len(ringObjptr) : ringObjptr[i] = Recalled(i, Len(ringObjptr))

Counted == frameIdx >= Len(remembered)

MemoryInv == MemoryTypeOK /\ RingPlaces /\ RingContents /\ PtrContents /\ Counted

-----------------------------------------------------------------------------
(* Numbers: no two entries of the list are in one buffer, and as long as   *)
(* it is not full the buffer written next is none of them; when it is, it  *)
(* is the oldest.                                                          *)
LEMMA EntriesApart ==
  ASSUME NEW w \in Slots, NEW n \in 0 .. Ring, NEW i \in 1 .. n
  PROVE  /\ SlotOf(i, w, n) \in Slots
         /\ SlotOf(i, w, n) = w => n = Ring /\ i = 1
         /\ n = Ring /\ i = 1 => SlotOf(i, w, n) = w
BY SamuraiMemoryAssumption DEF SlotOf, Slots

LEMMA Onward ==
  ASSUME NEW w \in Slots
  PROVE  (w + 1) % Ring = IF w + 1 = Ring THEN 0 ELSE w + 1
<1>1. Ring \in Nat \ {0} /\ w \in 0 .. Ring - 1
  BY SamuraiMemoryAssumption DEF Slots
<1>2. CASE w + 1 = Ring
  <2>1. Ring % Ring = 0
    BY <1>1, Z3
  <2> QED BY <1>2, <2>1
<1>3. CASE w + 1 # Ring
  <2>1. w + 1 \in 0 .. Ring - 1
    BY <1>1, <1>3
  <2> QED BY <1>1, <1>3, <2>1, Z3
<1> QED BY <1>2, <1>3

(* Writing moves every place one back, or not when the list grows.         *)
Grows(w, v, n) ==
  /\ \A i \in 1 .. n : SlotOf(i, v, n + 1) = SlotOf(i, w, n)
  /\ SlotOf(n + 1, v, n + 1) = w
Rotates(w, v, n) ==
  /\ \A i \in 1 .. n - 1 : SlotOf(i, v, n) = SlotOf(i + 1, w, n)
  /\ SlotOf(n, v, n) = w

LEMMA Walk ==
  ASSUME NEW w \in Slots, NEW v \in Slots, v = (IF w + 1 = Ring THEN 0 ELSE w + 1),
         NEW n \in 0 .. Ring
  PROVE  (n < Ring => Grows(w, v, n)) /\ (n = Ring => Rotates(w, v, n))
BY SamuraiMemoryAssumption DEF SlotOf, Slots, Grows, Rotates

(* t is s with x behind it, the first dropped when there were n.           *)
IsTrimmed(t, s, x, n, S) ==
  /\ t \in Seq(S)
  /\ Len(s) < n => Len(t) = Len(s) + 1 /\ \A i \in 1 .. Len(s) : t[i] = s[i]
  /\ Len(s) = n => Len(t) = n /\ \A i \in 1 .. n - 1 : t[i] = s[i + 1]
  /\ t[Len(t)] = x

LEMMA TrimmedIs ==
  \A S : \A s \in Seq(S), x \in S, n \in Nat \ {0} :
    Len(s) <= n => IsTrimmed(Trimmed(Append(s, x), n), s, x, n, S)
<1> SUFFICES ASSUME NEW S, NEW s \in Seq(S), NEW x \in S, NEW n \in Nat \ {0}, Len(s) <= n
             PROVE  IsTrimmed(Trimmed(Append(s, x), n), s, x, n, S)
  OBVIOUS
<1> DEFINE a == Append(s, x)
<1>1. /\ a \in Seq(S) /\ Len(a) = Len(s) + 1 /\ a[Len(s) + 1] = x
      /\ \A i \in 1 .. Len(s) : a[i] = s[i]
  OBVIOUS
<1>2. CASE Len(s) < n
  BY <1>1, <1>2 DEF Trimmed, IsTrimmed
<1>3. CASE Len(s) = n
  <2>1. a # <<>> /\ Tail(a) \in Seq(S) /\ Len(Tail(a)) = n
    BY <1>1, <1>3
  <2>2. \A i \in 1 .. n : Tail(a)[i] = a[i + 1]
    BY <1>1, <1>3, <2>1
  <2>3. Trimmed(a, n) = Tail(a)
    BY <1>1, <1>3 DEF Trimmed
  <2> QED BY <1>1, <1>3, <2>1, <2>2, <2>3 DEF IsTrimmed
<1> QED BY <1>2, <1>3
-----------------------------------------------------------------------------
LEMMA MemoryInitial == MemoryInit => MemoryInv
<1> SUFFICES ASSUME MemoryInit PROVE MemoryInv
  OBVIOUS
<1>1. /\ ringDev = <<>> /\ ringObjptr = <<>> /\ remembered = <<>>
      /\ Len(ringDev) = 0 /\ Len(ringObjptr) = 0 /\ Len(remembered) = 0
  BY DEF MemoryInit
<1>2. MemoryTypeOK
  <2>1. bufs \in [Slots -> Nat]
    BY DEF MemoryInit
  <2>2. ringDev \in Seq(Slots) /\ ringObjptr \in Seq(Nat) /\ remembered \in Seq(Nat)
    BY <1>1
  <2>3. ringWrite \in Slots /\ call \in 0 .. MaxCalls /\ frameIdx \in Nat
        /\ condMem \in Nat /\ condPtr \in Nat
    BY SamuraiMemoryAssumption DEF MemoryInit, Slots
  <2>4. seeded \in BOOLEAN
    BY DEF MemoryInit
  <2> QED BY <1>1, <2>1, <2>2, <2>3, <2>4, SamuraiMemoryAssumption DEF MemoryTypeOK
<1>3. RingPlaces /\ RingContents /\ PtrContents /\ Counted
  BY <1>1, SamuraiMemoryAssumption
     DEF MemoryInit, RingPlaces, RingContents, PtrContents, Counted, Remembers
<1> QED BY <1>2, <1>3 DEF MemoryInv

LEMMA Calls ==
  ASSUME MemoryInv, NewCall
  PROVE  call' \in 0 .. MaxCalls /\ call + 1 \in Nat
BY SamuraiMemoryAssumption DEF MemoryInv, MemoryTypeOK, NewCall

(* Calls that leave the memory alone but for the pointer of a seed that    *)
(* failed half-way, or count an inference.                                 *)
LEMMA MemoryStands ==
  ASSUME MemoryInv, seeded' = seeded, condMem' = condMem, condPtr' \in Nat,
         frameIdx' \in Nat, frameIdx' >= frameIdx,
         UNCHANGED <<bufs, ringWrite, ringDev, ringObjptr, remembered>>,
         call' \in 0 .. MaxCalls
  PROVE  MemoryInv'
<1>1. MemoryTypeOK'
  BY DEF MemoryInv, MemoryTypeOK
<1>2. Counted'
  <2>1. ASSUME NEW a \in Nat, NEW b \in Nat, NEW c \in Nat, b >= a, a >= c PROVE b >= c
    BY <2>1
  <2>2. frameIdx \in Nat /\ Len(remembered) \in Nat /\ frameIdx >= Len(remembered)
    BY DEF MemoryInv, MemoryTypeOK, Counted
  <2>3. frameIdx' >= Len(remembered)
    BY <2>1, <2>2, Zenon
  <2> QED BY <2>3 DEF Counted
<1>3. RingPlaces' /\ RingContents' /\ PtrContents'
  BY DEF MemoryInv, RingPlaces, RingContents, PtrContents, Remembers, Recalled
<1> QED BY <1>1, <1>2, <1>3 DEF MemoryInv

LEMMA SeedKeeps ==
  ASSUME MemoryInv, SeedsGood
  PROVE  MemoryInv'
<1>1. call' \in 0 .. MaxCalls /\ call + 1 \in Nat
  BY Calls DEF SeedsGood
<1>2. /\ ringDev' = <<>> /\ ringObjptr' = <<>> /\ remembered' = <<>>
      /\ Len(ringDev') = 0 /\ Len(ringObjptr') = 0 /\ Len(remembered') = 0
  BY DEF SeedsGood
<1>3. MemoryTypeOK'
  BY <1>1, <1>2, SamuraiMemoryAssumption DEF SeedsGood, MemoryInv, MemoryTypeOK, Slots
<1>4. RingPlaces' /\ RingContents' /\ PtrContents' /\ Counted'
  BY <1>2, SamuraiMemoryAssumption
     DEF SeedsGood, RingPlaces, RingContents, PtrContents, Counted, Remembers
<1> QED BY <1>1, <1>3, <1>4 DEF MemoryInv

(* The step that takes work: the buffer written over is the one whose      *)
(* entry leaves the list, or one no entry points to.                       *)
LEMMA RememberKeeps ==
  ASSUME MemoryInv, Remember
  PROVE  MemoryInv'
<1>0. PICK n \in Nat, m \in Nat, k \in Nat, x \in Nat, w \in Slots :
        /\ n = Len(ringDev) /\ m = Len(remembered) /\ k = Len(ringObjptr)
        /\ x = call + 1 /\ w = ringWrite
  BY Calls DEF Remember, MemoryInv, MemoryTypeOK
<1>1. call' \in 0 .. MaxCalls
  BY Calls DEF Remember
<1>2. /\ Ring \in Nat \ {0} /\ Ptrs \in Nat \ {0}
      /\ n \in 0 .. Ring /\ k \in 0 .. Ptrs
      /\ ringDev \in Seq(Slots) /\ ringObjptr \in Seq(Nat) /\ remembered \in Seq(Nat)
      /\ ringWrite \in Slots /\ bufs \in [Slots -> Nat]
      /\ n = (IF m < Ring THEN m ELSE Ring) /\ k = (IF m < Ptrs THEN m ELSE Ptrs)
  BY <1>0, SamuraiMemoryAssumption DEF MemoryInv, MemoryTypeOK, RingContents, PtrContents, Remembers
<1>3. /\ remembered' = Append(remembered, x) /\ remembered' \in Seq(Nat)
      /\ Len(remembered') = m + 1 /\ remembered'[m + 1] = x
      /\ \A i \in 1 .. m : remembered'[i] = remembered[i]
  BY <1>0, <1>1, <1>2 DEF Remember
<1>4. PICK v \in Slots : v = ringWrite' /\ v = IF w + 1 = Ring THEN 0 ELSE w + 1
  <2>1. ringWrite' = IF w + 1 = Ring THEN 0 ELSE w + 1
    BY <1>0, Onward DEF Remember
  <2>2. (IF w + 1 = Ring THEN 0 ELSE w + 1) \in Slots
    BY <1>2 DEF Slots
  <2> QED BY <2>1, <2>2
<1>5. /\ ringDev' \in Seq(Slots)
      /\ n < Ring => Len(ringDev') = n + 1 /\ \A i \in 1 .. n : ringDev'[i] = ringDev[i]
      /\ n = Ring => Len(ringDev') = n /\ \A i \in 1 .. n - 1 : ringDev'[i] = ringDev[i + 1]
      /\ ringDev'[Len(ringDev')] = w
  <2>1. ringDev' = Trimmed(Append(ringDev, w), Ring)
    BY <1>0 DEF Remember
  <2>2. Len(ringDev) <= Ring
    BY <1>0, <1>2
  <2>3. IsTrimmed(ringDev', ringDev, w, Ring, Slots)
    BY <1>0, <1>2, <2>1, <2>2, TrimmedIs, Zenon
  <2> QED BY <1>0, <2>3 DEF IsTrimmed
<1>6. /\ ringObjptr' \in Seq(Nat)
      /\ k < Ptrs => Len(ringObjptr') = k + 1 /\ \A i \in 1 .. k : ringObjptr'[i] = ringObjptr[i]
      /\ k = Ptrs => Len(ringObjptr') = k /\ \A i \in 1 .. k - 1 : ringObjptr'[i] = ringObjptr[i + 1]
      /\ ringObjptr'[Len(ringObjptr')] = x
  <2>1. ringObjptr' = Trimmed(Append(ringObjptr, x), Ptrs)
    BY <1>0 DEF Remember
  <2>2. Len(ringObjptr) <= Ptrs
    BY <1>0, <1>2
  <2>3. IsTrimmed(ringObjptr', ringObjptr, x, Ptrs, Nat)
    BY <1>0, <1>2, <2>1, <2>2, TrimmedIs, Zenon
  <2> QED BY <1>0, <2>3 DEF IsTrimmed
<1>7. RingPlaces'
  <2>1. CASE n < Ring
    <3>0. Grows(w, v, n)
      BY <1>2, <1>4, <2>1, Walk
    <3>1. \A i \in 1 .. n : ringDev'[i] = SlotOf(i, v, n + 1)
      <4>1. \A i \in 1 .. n : ringDev[i] = SlotOf(i, w, n)
        BY <1>0 DEF MemoryInv, RingPlaces
      <4>2. \A i \in 1 .. n : SlotOf(i, v, n + 1) = SlotOf(i, w, n)
        BY <3>0 DEF Grows
      <4> QED BY <1>5, <2>1, <4>1, <4>2
    <3>2. ringDev'[n + 1] = SlotOf(n + 1, v, n + 1)
      <4>1. SlotOf(n + 1, v, n + 1) = w
        BY <3>0 DEF Grows
      <4> QED BY <1>5, <2>1, <4>1
    <3>3. Len(ringDev') = n + 1
      BY <1>5, <2>1
    <3>4. \A i \in 1 .. n + 1 : i \in 1 .. n \/ i = n + 1
      BY <1>2
    <3> QED BY <1>4, <3>1, <3>2, <3>3, <3>4 DEF RingPlaces
  <2>2. CASE n = Ring
    <3>0. Rotates(w, v, n)
      BY <1>2, <1>4, <2>2, Walk
    <3>1. \A i \in 1 .. n - 1 : ringDev'[i] = SlotOf(i, v, n)
      <4>1. \A i \in 1 .. n - 1 : i + 1 \in 1 .. n
        BY <1>2
      <4>2. \A i \in 1 .. n - 1 : ringDev[i + 1] = SlotOf(i + 1, w, n)
        BY <1>0, <4>1 DEF MemoryInv, RingPlaces
      <4>3. \A i \in 1 .. n - 1 : SlotOf(i, v, n) = SlotOf(i + 1, w, n)
        BY <3>0 DEF Rotates
      <4> QED BY <1>5, <2>2, <4>2, <4>3
    <3>2. ringDev'[n] = SlotOf(n, v, n)
      <4>1. SlotOf(n, v, n) = w
        BY <3>0 DEF Rotates
      <4> QED BY <1>5, <2>2, <4>1
    <3>3. Len(ringDev') = n
      BY <1>5, <2>2
    <3>4. \A i \in 1 .. n : i \in 1 .. n - 1 \/ i = n
      BY <1>2
    <3> QED BY <1>4, <3>1, <3>2, <3>3, <3>4 DEF RingPlaces
  <2> QED BY <1>2, <2>1, <2>2
<1>8. \A i \in 1 .. n : /\ ringDev[i] \in Slots
                        /\ ringDev[i] = w => n = Ring /\ i = 1
  <2>1. \A i \in 1 .. n : ringDev[i] = SlotOf(i, w, n)
    BY <1>0 DEF MemoryInv, RingPlaces
  <2>2. \A i \in 1 .. n : /\ SlotOf(i, w, n) \in Slots
                          /\ SlotOf(i, w, n) = w => n = Ring /\ i = 1
    BY <1>2, EntriesApart
  <2> QED BY <2>1, <2>2
<1>9. RingContents'
  <2>1. bufs'[w] = x /\ \A s \in Slots \ {w} : bufs'[s] = bufs[s]
    BY <1>0, <1>2 DEF Remember
  <2>2. CASE n < Ring
    <3>1. n = m /\ Len(ringDev') = n + 1 /\ Remembers(Ring)' = n + 1
      BY <1>2, <1>3, <1>5, <2>2 DEF Remembers
    <3>2. ASSUME NEW i \in 1 .. n PROVE bufs'[ringDev'[i]] = remembered'[i]
      <4>1. bufs'[ringDev[i]] = bufs[ringDev[i]]
        <5>1. ringDev[i] \in Slots
          BY <1>8, Zenon
        <5>2. n # Ring
          BY <1>2, <2>2
        <5>3. ringDev[i] # w
          BY <1>8, <5>2, Zenon
        <5> QED BY <2>1, <5>1, <5>3
      <4>2. bufs[ringDev[i]] = remembered[m - n + i]
        BY <1>0 DEF MemoryInv, RingContents, Recalled
      <4>9. m - n + i = i
        BY <3>1
      <4> QED BY <1>3, <1>5, <2>2, <3>1, <4>1, <4>2, <4>9
    <3>3. bufs'[ringDev'[n + 1]] = remembered'[n + 1]
      BY <1>3, <1>5, <2>1, <3>1
    <3>4. \A i \in 1 .. n + 1 : (i \in 1 .. n \/ i = n + 1) /\ (m + 1) - (n + 1) + i = i
      BY <1>2, <3>1
    <3> QED BY <1>3, <3>1, <3>2, <3>3, <3>4 DEF RingContents, Recalled
  <2>3. CASE n = Ring
    <3>1. Ring <= m /\ Len(ringDev') = n /\ Remembers(Ring)' = n
      BY <1>2, <1>3, <1>5, <2>3 DEF Remembers
    <3>2. ASSUME NEW i \in 1 .. n - 1 PROVE bufs'[ringDev'[i]] = remembered'[(m + 1) - n + i]
      <4>1. i + 1 \in 1 .. n /\ i + 1 # 1 /\ m - n + (i + 1) = (m + 1) - n + i
            /\ (m + 1) - n + i \in 1 .. m
        BY <1>2, <2>3, <3>1
      <4>2. ringDev'[i] = ringDev[i + 1] /\ ringDev[i + 1] # w /\ ringDev[i + 1] \in Slots
        BY <1>5, <1>8, <2>3, <4>1
      <4>3. bufs'[ringDev[i + 1]] = bufs[ringDev[i + 1]]
        BY <2>1, <4>2
      <4>4. bufs[ringDev[i + 1]] = remembered[m - n + (i + 1)]
        BY <1>0, <4>1 DEF MemoryInv, RingContents, Recalled
      <4> QED BY <1>3, <4>1, <4>2, <4>3, <4>4
    <3>3. bufs'[ringDev'[n]] = remembered'[(m + 1) - n + n]
      <4>1. (m + 1) - n + n = m + 1
        BY <1>2
      <4> QED BY <1>3, <1>5, <2>1, <3>1, <4>1
    <3>4. \A i \in 1 .. n : i \in 1 .. n - 1 \/ i = n
      BY <1>2
    <3> QED BY <1>3, <3>1, <3>2, <3>3, <3>4 DEF RingContents, Recalled
  <2> QED BY <1>2, <2>2, <2>3
<1>10. PtrContents'
  <2>1. CASE k < Ptrs
    <3>1. k = m /\ Len(ringObjptr') = k + 1 /\ Remembers(Ptrs)' = k + 1
      BY <1>2, <1>3, <1>6, <2>1 DEF Remembers
    <3>2. ASSUME NEW i \in 1 .. k PROVE ringObjptr'[i] = remembered'[i]
      <4>1. ringObjptr[i] = remembered[m - k + i]
        BY <1>0 DEF MemoryInv, PtrContents, Recalled
      <4>9. m - k + i = i
        BY <3>1
      <4> QED BY <1>3, <1>6, <2>1, <3>1, <4>1, <4>9
    <3>3. ringObjptr'[k + 1] = remembered'[k + 1]
      BY <1>3, <1>6, <3>1
    <3>4. \A i \in 1 .. k + 1 : (i \in 1 .. k \/ i = k + 1) /\ (m + 1) - (k + 1) + i = i
      BY <1>2, <3>1
    <3> QED BY <1>3, <3>1, <3>2, <3>3, <3>4 DEF PtrContents, Recalled
  <2>2. CASE k = Ptrs
    <3>1. Ptrs <= m /\ Len(ringObjptr') = k /\ Remembers(Ptrs)' = k
      BY <1>2, <1>3, <1>6, <2>2 DEF Remembers
    <3>2. ASSUME NEW i \in 1 .. k - 1 PROVE ringObjptr'[i] = remembered'[(m + 1) - k + i]
      <4>1. i + 1 \in 1 .. k /\ m - k + (i + 1) = (m + 1) - k + i
            /\ (m + 1) - k + i \in 1 .. m
        BY <1>2, <2>2, <3>1
      <4>2. ringObjptr[i + 1] = remembered[m - k + (i + 1)]
        BY <1>0, <4>1 DEF MemoryInv, PtrContents, Recalled
      <4> QED BY <1>3, <1>6, <2>2, <4>1, <4>2
    <3>3. ringObjptr'[k] = remembered'[(m + 1) - k + k]
      <4>1. (m + 1) - k + k = m + 1
        BY <1>2
      <4> QED BY <1>3, <1>6, <3>1, <4>1
    <3>4. \A i \in 1 .. k : i \in 1 .. k - 1 \/ i = k
      BY <1>2
    <3> QED BY <1>3, <3>1, <3>2, <3>3, <3>4 DEF PtrContents, Recalled
  <2> QED BY <1>2, <2>1, <2>2
<1>11. MemoryTypeOK'
  <2>1. bufs' \in [Slots -> Nat]
    BY <1>0, <1>2 DEF Remember
  <2>2. Len(ringDev') <= Ring /\ Len(ringObjptr') <= Ptrs
    <3>1. n < Ring \/ n = Ring
      BY <1>2
    <3>2. k < Ptrs \/ k = Ptrs
      BY <1>2
    <3>3. n < Ring => n + 1 <= Ring
      BY <1>2
    <3>4. k < Ptrs => k + 1 <= Ptrs
      BY <1>2
    <3>5. Ring <= Ring /\ Ptrs <= Ptrs
      BY <1>2
    <3> QED BY <1>5, <1>6, <3>1, <3>2, <3>3, <3>4, <3>5, Zenon
  <2>3. frameIdx' \in Nat /\ seeded' \in BOOLEAN /\ condMem' \in Nat /\ condPtr' \in Nat
    BY DEF Remember, MemoryInv, MemoryTypeOK
  <2> QED BY <1>1, <1>3, <1>4, <1>5, <1>6, <2>1, <2>2, <2>3 DEF MemoryTypeOK
<1>12. Counted'
  BY <1>0, <1>2, <1>3 DEF Remember, MemoryInv, MemoryTypeOK, Counted
<1> QED BY <1>1, <1>7, <1>9, <1>10, <1>11, <1>12 DEF MemoryInv

LEMMA MemoryStep == MemoryInv /\ [MemoryNext]_memoryVars => MemoryInv'
<1> SUFFICES ASSUME MemoryInv, [MemoryNext]_memoryVars PROVE MemoryInv'
  OBVIOUS
<1>1. CASE NewTracker
  <2>1. /\ ringDev' = <<>> /\ ringObjptr' = <<>> /\ remembered' = <<>>
        /\ Len(ringDev') = 0 /\ Len(ringObjptr') = 0 /\ Len(remembered') = 0
    BY <1>1 DEF NewTracker
  <2>2. MemoryTypeOK'
    <3>1. bufs' \in [Slots -> Nat]
      BY <1>1 DEF NewTracker
    <3>2. ringDev' \in Seq(Slots) /\ ringObjptr' \in Seq(Nat) /\ remembered' \in Seq(Nat)
      BY <2>1
    <3>3. ringWrite' \in Slots /\ call' \in 0 .. MaxCalls /\ frameIdx' \in Nat
          /\ condMem' \in Nat /\ condPtr' \in Nat
      BY <1>1, SamuraiMemoryAssumption DEF NewTracker, Slots
    <3>4. seeded' \in BOOLEAN
      BY <1>1 DEF NewTracker
    <3> QED BY <2>1, <3>1, <3>2, <3>3, <3>4, SamuraiMemoryAssumption DEF MemoryTypeOK
  <2>3. RingPlaces' /\ RingContents' /\ PtrContents' /\ Counted'
    BY <1>1, <2>1, SamuraiMemoryAssumption
       DEF NewTracker, RingPlaces, RingContents, PtrContents, Counted, Remembers
  <2> QED BY <2>2, <2>3 DEF MemoryInv
<1>2. CASE SeedsGood
  BY <1>2, SeedKeeps
<1>3. CASE SeedsHalf
  <2>1. condPtr' \in Nat /\ frameIdx' = frameIdx /\ frameIdx \in Nat
    BY <1>3, Calls DEF SeedsHalf, MemoryInv, MemoryTypeOK
  <2>2. call' \in 0 .. MaxCalls
    BY <1>3, Calls DEF SeedsHalf
  <2>3. frameIdx' \in Nat /\ frameIdx' >= frameIdx
    BY <2>1
  <2> QED BY <1>3, <2>1, <2>2, <2>3, MemoryStands DEF SeedsHalf
<1>4. CASE SeedFails \/ TrackLight
  <2>1. NewCall /\ UNCHANGED memory
    BY <1>4 DEF SeedFails, TrackLight
  <2>2. condPtr \in Nat /\ frameIdx \in Nat /\ UNCHANGED <<condPtr, frameIdx>>
    BY <2>1 DEF memory, MemoryInv, MemoryTypeOK
  <2>3. call' \in 0 .. MaxCalls
    BY <2>1, Calls
  <2>4. condPtr' \in Nat /\ frameIdx' \in Nat /\ frameIdx' >= frameIdx
    BY <2>2
  <2> QED BY <2>1, <2>3, <2>4, MemoryStands DEF memory
<1>5. CASE TrackForgets
  <2>1. condPtr \in Nat /\ condPtr' = condPtr
    BY <1>5 DEF TrackForgets, MemoryInv, MemoryTypeOK
  <2>2. frameIdx' \in Nat /\ frameIdx' >= frameIdx
    <3>1. frameIdx \in Nat /\ frameIdx' = frameIdx + 1
      BY <1>5 DEF TrackForgets, MemoryInv, MemoryTypeOK
    <3> QED BY <3>1
  <2> QED BY <1>5, <2>1, <2>2, Calls, MemoryStands DEF TrackForgets
<1>6. CASE Remember
  BY <1>6, RememberKeeps
<1>7. CASE UNCHANGED memoryVars
  BY <1>7 DEF memoryVars, MemoryInv, MemoryTypeOK, RingPlaces, RingContents, PtrContents, Counted,
              Remembers, Recalled
<1> QED
  BY <1>1, <1>2, <1>3, <1>4, <1>5, <1>6, <1>7 DEF MemoryNext

LEMMA MemoryAlways == MemorySpec => []MemoryInv
BY MemoryInitial, MemoryStep, PTL DEF MemorySpec

-----------------------------------------------------------------------------
(* Every variable of the memory keeps its type, whatever the sizes.        *)
THEOREM MemoryTypeCorrect == MemorySpec => []MemoryTypeOK
BY MemoryAlways, PTL DEF MemoryInv

(* The newest entries of a list that ends like another one are those of    *)
(* the other, as far as the list goes.                                     *)
EndsLike(e, r, l, m, size) ==
  /\ Len(e) = l /\ Len(r) = m /\ l = (IF m < size THEN m ELSE size)
  /\ \A i \in 1 .. l : e[i] = r[m - l + i]

LEMMA NewestAgree ==
  ASSUME NEW e, NEW r, NEW cond, NEW l \in Nat, NEW m \in Nat, NEW size \in Nat,
         NEW q \in 1 .. size, EndsLike(e, r, l, m, size)
  PROVE  Newest(e, q, cond) = Newest(r, q, cond)
<1> USE DEF EndsLike
<1>1. CASE q <= l
  <2>1. l + 1 - q \in 1 .. l /\ m - l + (l + 1 - q) = m + 1 - q /\ q <= m
    BY <1>1
  <2> QED BY <1>1, <2>1 DEF Newest
<1>2. CASE ~(q <= l)
  <2>1. ~(q <= m)
    BY <1>2
  <2> QED BY <1>2, <2>1 DEF Newest
<1> QED BY <1>1, <1>2

(* What memory_attention is shown is exactly the newest remembered frames  *)
(* since the seed and their pointers, whatever failed, coasted or was      *)
(* seeded anew, for every ring and every number of pointers.               *)
THEOREM MemoryIsExact == MemorySpec => []MemoryExact
<1>1. ASSUME MemoryInv PROVE MemoryExact
  <2>1. PICK n \in Nat, m \in Nat, k \in Nat :
          n = Len(ringDev) /\ m = Len(remembered) /\ k = Len(ringObjptr)
    BY <1>1 DEF MemoryInv, MemoryTypeOK
  <2>2. /\ Ring \in Nat /\ Ptrs \in Nat
        /\ n = (IF m < Ring THEN m ELSE Ring) /\ k = (IF m < Ptrs THEN m ELSE Ptrs)
    BY <1>1, <2>1, SamuraiMemoryAssumption DEF MemoryInv, RingContents, PtrContents, Remembers
  <2> DEFINE listed == [i \in DOMAIN ringDev |-> bufs[ringDev[i]]]
  <2>3. DOMAIN ringDev = 1 .. n
    BY <1>1, <2>1 DEF MemoryInv, MemoryTypeOK
  <2>4. Len(listed) = n /\ \A i \in 1 .. n : listed[i] = remembered[m - n + i]
    <3>1. \A i \in 1 .. n : listed[i] = bufs[ringDev[i]]
      BY <2>3
    <3>2. \A i \in 1 .. n : bufs[ringDev[i]] = remembered[m - n + i]
      BY <1>1, <2>1 DEF MemoryInv, RingContents, Recalled
    <3> QED BY <2>3, <3>1, <3>2
  <2>5. ASSUME NEW s \in 1 .. Ring
        PROVE  MemoriesShown[s] = Newest(remembered, Ring + 1 - s, condMem)
    <3>1. Ring + 1 - s \in 1 .. Ring /\ s # 0 /\ s \in 0 .. Ring
      BY <2>2
    <3>2. MemoriesShown[s] = Newest(listed, Ring + 1 - s, condMem)
      BY <3>1 DEF MemoriesShown
    <3>3. EndsLike(listed, remembered, n, m, Ring)
      BY <2>1, <2>2, <2>4 DEF EndsLike
    <3> HIDE DEF listed
    <3>4. Newest(listed, Ring + 1 - s, condMem) = Newest(remembered, Ring + 1 - s, condMem)
      BY <2>2, <3>1, <3>3, NewestAgree
    <3> QED BY <3>2, <3>4
  <2>6. ASSUME NEW p \in 1 .. Ptrs
        PROVE  PointersShown[p] = Newest(remembered, p, condPtr)
    <3>1. p \in 0 .. Ptrs /\ p # 0
      BY <2>2
    <3>2. PointersShown[p] = Newest(ringObjptr, p, condPtr)
      BY <3>1 DEF PointersShown
    <3>3. \A i \in 1 .. k : ringObjptr[i] = remembered[m - k + i]
      BY <1>1, <2>1 DEF MemoryInv, PtrContents, Recalled
    <3>4. EndsLike(ringObjptr, remembered, k, m, Ptrs)
      BY <2>1, <2>2, <3>3 DEF EndsLike
    <3>5. Newest(ringObjptr, p, condPtr) = Newest(remembered, p, condPtr)
      BY <2>2, <3>4, NewestAgree
    <3> QED BY <3>2, <3>5
  <2>7. frameIdx >= Len(remembered)
    BY <1>1 DEF MemoryInv, Counted
  <2> QED BY <2>5, <2>6, <2>7 DEF MemoryExact
<1> QED
  BY <1>1, MemoryAlways, PTL

-----------------------------------------------------------------------------
(***************************************************************************)
(* The box of nvmmsamurai.                                                 *)
(***************************************************************************)

(* What is owed to a measurement when the patch is of picture p: that of   *)
(* MotionsApplied.  No picture that was seen is later than the patch.      *)
Settled(m, p, u, f) ==
  m.on \notin u =>
    /\ m.on <= p
    /\ \A i \in Motions : m.moved[i] = IF i \in (m.on + 1 .. p) \ f THEN 1 ELSE 0

AllSettled(ms, v, p, u, f) ==
  \A m \in ms : m \in Measurements /\ m.on <= v /\ Settled(m, p, u, f)

BoxInv ==
  /\ BoxTypeOK
  /\ AllSettled(box, view, patch, unseen, forgone)
  /\ AllSettled(filter, view, patch, unseen, forgone)

(* A picture that is not compared settles nothing and owes nothing ...     *)
LEMMA BlindSettles ==
  ASSUME NEW v \in Nat, NEW p \in 0 .. v, NEW u, NEW f \in SUBSET (1 .. p), NEW ms,
         AllSettled(ms, v, p, u, f)
  PROVE  AllSettled(ms, v + 1, p, u \union {v + 1}, f)
<1> SUFFICES ASSUME NEW m \in ms
             PROVE  m \in Measurements /\ m.on <= v + 1 /\ Settled(m, p, u \union {v + 1}, f)
  BY DEF AllSettled
<1>1. m \in Measurements /\ m.on <= v /\ Settled(m, p, u, f)
  BY DEF AllSettled
<1>2. m.on \in Nat
  BY <1>1, SamuraiBoxAssumption DEF Measurements, Motions
<1>3. m.on <= v + 1
  BY <1>1, <1>2
<1>4. Settled(m, p, u \union {v + 1}, f)
  BY <1>1 DEF Settled
<1> QED BY <1>1, <1>3, <1>4

(* ... one whose motion is not applied gives all of it up ...              *)
LEMMA StillSettles ==
  ASSUME NEW v \in Nat, NEW p \in 0 .. v, NEW u, NEW f \in SUBSET (1 .. p), NEW ms,
         AllSettled(ms, v, p, u, f)
  PROVE  AllSettled(ms, v + 1, v + 1, u, f \union (p + 1 .. v + 1))
<1> SUFFICES ASSUME NEW m \in ms
             PROVE  /\ m \in Measurements /\ m.on <= v + 1
                    /\ Settled(m, v + 1, u, f \union (p + 1 .. v + 1))
  BY DEF AllSettled
<1>1. m \in Measurements /\ m.on <= v /\ Settled(m, p, u, f)
  BY DEF AllSettled
<1>2. m.on \in Nat /\ Motions \subseteq Nat
  BY <1>1, SamuraiBoxAssumption DEF Measurements, Motions
<1>3. m.on <= v + 1
  BY <1>1, <1>2
<1>4. ASSUME m.on \notin u, NEW i \in Motions
      PROVE  i \in (m.on + 1 .. v + 1) \ (f \union (p + 1 .. v + 1)) <=> i \in (m.on + 1 .. p) \ f
  BY <1>2
<1>5. Settled(m, v + 1, u, f \union (p + 1 .. v + 1))
  BY <1>1, <1>3, <1>4 DEF Settled
<1> QED BY <1>1, <1>3, <1>5

(* ... and one whose motion is applied owes it to every measurement there  *)
(* is, since each is of the patch's picture or of an older one.            *)
LEMMA MovesSettle ==
  ASSUME NEW v \in Nat, NEW p \in 0 .. v, NEW u, NEW f \in SUBSET (1 .. p), NEW ms,
         AllSettled(ms, v, p, u, f)
  PROVE  AllSettled({Moved(m, p + 1 .. v + 1) : m \in ms}, v + 1, v + 1, u, f)
<1> SUFFICES ASSUME NEW m \in ms
             PROVE  LET n == Moved(m, p + 1 .. v + 1)
                    IN n \in Measurements /\ n.on <= v + 1 /\ Settled(n, v + 1, u, f)
  BY DEF AllSettled
<1> DEFINE n == Moved(m, p + 1 .. v + 1)
<1>1. m \in Measurements /\ m.on <= v /\ Settled(m, p, u, f)
  BY DEF AllSettled
<1>2. m.on \in Motions /\ m.on \in Nat /\ Motions \subseteq Nat /\ m.moved \in [Motions -> Nat]
  BY <1>1, SamuraiBoxAssumption DEF Measurements, Motions
<1>3. n.on = m.on /\ \A i \in Motions :
        n.moved[i] = IF i \in p + 1 .. v + 1 THEN m.moved[i] + 1 ELSE m.moved[i]
  BY DEF Moved
<1>4. n \in Measurements
  <2>1. [i \in Motions |-> IF i \in p + 1 .. v + 1 THEN m.moved[i] + 1 ELSE m.moved[i]]
          \in [Motions -> Nat]
    BY <1>2
  <2> QED BY <1>2, <2>1 DEF Moved, Measurements
<1>5. n.on <= v + 1
  BY <1>1, <1>2, <1>3
<1>6. ASSUME m.on \notin u, NEW i \in Motions
      PROVE  n.moved[i] = IF i \in (m.on + 1 .. v + 1) \ f THEN 1 ELSE 0
  <2>1. m.on <= p /\ m.moved[i] = IF i \in (m.on + 1 .. p) \ f THEN 1 ELSE 0
    BY <1>1, <1>6 DEF Settled
  <2>2. CASE i \in p + 1 .. v + 1
    <3>1. i \notin m.on + 1 .. p /\ i \notin f /\ i \in m.on + 1 .. v + 1
      BY <1>2, <2>1, <2>2
    <3> QED BY <1>3, <2>1, <2>2, <3>1
  <2>3. CASE i \notin p + 1 .. v + 1
    <3>1. i \in m.on + 1 .. v + 1 <=> i \in m.on + 1 .. p
      BY <1>2, <2>1, <2>3
    <3> QED BY <1>3, <2>1, <2>3, <3>1
  <2> QED BY <2>2, <2>3
<1>7. Settled(n, v + 1, u, f)
  BY <1>3, <1>5, <1>6 DEF Settled
<1> QED BY <1>4, <1>5, <1>7

(* After any call what was there has been moved as it should be, and what  *)
(* the call measured has nothing owed to it.                               *)
LEMMA CallSettles ==
  ASSUME BoxInv, NEW o \in GmcOutcomes, ApplyGmc(o)
  PROVE  /\ view' \in 0 .. MaxViews /\ patch' \in 0 .. view'
         /\ unseen' \subseteq 1 .. view' /\ forgone' \subseteq 1 .. patch'
         /\ AllSettled(ShiftedBox(o), view', patch', unseen', forgone')
         /\ AllSettled(ShiftedFilter(o), view', patch', unseen', forgone')
         /\ AllSettled(Here, view', patch', unseen', forgone')
<1>1. /\ MaxViews \in Nat /\ view \in Nat /\ view < MaxViews /\ view' = view + 1
      /\ patch \in 0 .. view
      /\ unseen \subseteq 1 .. view /\ forgone \in SUBSET (1 .. patch)
      /\ AllSettled(box, view, patch, unseen, forgone)
      /\ AllSettled(filter, view, patch, unseen, forgone)
  BY SamuraiBoxAssumption DEF BoxInv, BoxTypeOK, ApplyGmc
<1>2. view' \in 0 .. MaxViews /\ patch' \in 0 .. view' /\ unseen' \subseteq 1 .. view'
  BY <1>1 DEF ApplyGmc
<1>3. forgone' \subseteq 1 .. patch' /\ AllSettled(ShiftedBox(o), view', patch', unseen', forgone')
      /\ AllSettled(ShiftedFilter(o), view', patch', unseen', forgone')
  <2>1. CASE o = "blind"
    <3>1. /\ patch' = patch /\ unseen' = unseen \union {view + 1} /\ forgone' = forgone
          /\ ShiftedBox(o) = box /\ ShiftedFilter(o) = filter
      BY <2>1 DEF ApplyGmc, ShiftedBox, ShiftedFilter, Shifted
    <3> QED BY <1>1, <3>1, BlindSettles
  <2>2. CASE o = "still"
    <3>1. /\ patch' = view + 1 /\ unseen' = unseen
          /\ forgone' = forgone \union (patch + 1 .. view + 1)
          /\ ShiftedBox(o) = box /\ ShiftedFilter(o) = filter
      BY <2>2 DEF ApplyGmc, Between, ShiftedBox, ShiftedFilter, Shifted
    <3>2. forgone' \subseteq 1 .. patch'
      BY <1>1, <3>1
    <3> QED BY <1>1, <3>1, <3>2, StillSettles
  <2>3. CASE o = "moves"
    <3>1. /\ patch' = view + 1 /\ unseen' = unseen /\ forgone' = forgone
          /\ ShiftedBox(o) = {Moved(m, patch + 1 .. view + 1) : m \in box}
          /\ ShiftedFilter(o) = {Moved(m, patch + 1 .. view + 1) : m \in filter}
      BY <2>3 DEF ApplyGmc, Between, ShiftedBox, ShiftedFilter, Shifted
    <3>2. forgone' \subseteq 1 .. patch'
      BY <1>1, <3>1
    <3> QED BY <1>1, <3>1, <3>2, MovesSettle
  <2> QED BY <2>1, <2>2, <2>3 DEF GmcOutcomes
<1>4. AllSettled(Here, view', patch', unseen', forgone')
  <2> DEFINE m == [on |-> view + 1, moved |-> [i \in Motions |-> 0]]
  <2>1. m \in Measurements
    <3>1. view + 1 \in Motions /\ [i \in Motions |-> 0] \in [Motions -> Nat]
      BY <1>1 DEF Motions
    <3> QED BY <3>1 DEF Measurements
  <2>2. m.on = view + 1 /\ \A i \in Motions : m.moved[i] = 0
    OBVIOUS
  <2>3. Settled(m, patch', unseen', forgone')
    <3>1. CASE o = "blind"
      <4>1. m.on \in unseen'
        BY <2>2, <3>1 DEF ApplyGmc
      <4> QED BY <4>1 DEF Settled
    <3>2. CASE o # "blind"
      <4>1. patch' = view + 1
        BY <3>2 DEF ApplyGmc
      <4>2. m.on + 1 .. patch' = {} /\ m.on <= patch'
        BY <1>1, <2>2, <4>1
      <4> QED BY <2>2, <4>2 DEF Settled
    <3> QED BY <3>1, <3>2
  <2>4. m.on <= view'
    BY <1>1, <2>2
  <2> QED BY <2>1, <2>3, <2>4 DEF AllSettled, Here
<1> QED BY <1>1, <1>2, <1>3, <1>4

LEMMA NothingToSettle == \A v, p, u, f : AllSettled({}, v, p, u, f)
BY DEF AllSettled

LEMMA BoxInitial == BoxInit => BoxInv
<1> SUFFICES ASSUME BoxInit PROVE BoxInv
  OBVIOUS
<1>1. BoxTypeOK
  <2>1. tracking \in BOOLEAN /\ stable \in BOOLEAN
    BY Zenon DEF BoxInit
  <2>2. view \in 0 .. MaxViews /\ patch \in 0 .. view
    BY SamuraiBoxAssumption DEF BoxInit
  <2> QED BY <2>1, <2>2 DEF BoxInit, BoxTypeOK
<1> QED BY <1>1, NothingToSettle DEF BoxInit, BoxInv

(* Every call leaves in the box and in the filter nothing but what it      *)
(* shifted and what it measured.                                           *)
LEMMA Leaves ==
  ASSUME BoxInv, NEW o \in GmcOutcomes, ApplyGmc(o),
         tracking' \in BOOLEAN, stable' \in BOOLEAN,
         box' \subseteq ShiftedBox(o) \union ShiftedFilter(o) \union Here,
         filter' \subseteq ShiftedFilter(o) \union Here
  PROVE  BoxInv'
<1>1. PICK b, g, v, p, u, f : /\ b = box' /\ g = filter' /\ v = view' /\ p = patch'
                              /\ u = unseen' /\ f = forgone'
  OBVIOUS
<1>2. AllSettled(b, v, p, u, f) /\ AllSettled(g, v, p, u, f)
  BY <1>1, CallSettles DEF AllSettled
<1>3. b \subseteq Measurements /\ g \subseteq Measurements
  BY <1>2 DEF AllSettled
<1>4. BoxTypeOK'
  BY <1>1, <1>3, CallSettles DEF BoxTypeOK
<1> QED BY <1>1, <1>2, <1>4 DEF BoxInv

LEMMA BoxStep == BoxInv /\ [BoxNext]_boxVars => BoxInv'
<1> SUFFICES ASSUME BoxInv, [BoxNext]_boxVars PROVE BoxInv'
  OBVIOUS
<1>0. tracking \in BOOLEAN /\ stable \in BOOLEAN
  BY DEF BoxInv, BoxTypeOK
<1>1. CASE NewBox
  <2>1. BoxTypeOK'
    <3>1. tracking' \in BOOLEAN /\ stable' \in BOOLEAN
      BY <1>1, Zenon DEF NewBox
    <3>2. view' \in 0 .. MaxViews /\ patch' \in 0 .. view'
      BY <1>1, SamuraiBoxAssumption DEF NewBox
    <3> QED BY <1>1, <3>1, <3>2 DEF NewBox, BoxTypeOK
  <2>2. AllSettled({}, view', patch', unseen', forgone')
    BY NothingToSettle
  <2> QED BY <1>1, <2>1, <2>2 DEF NewBox, BoxInv
<1>2. ASSUME NEW o \in GmcOutcomes, NEW mask \in BOOLEAN,
             SeedPlaces(o, mask) \/ SeedPlacesBox(o, mask)
      PROVE  BoxInv'
  <2>1. CASE SeedPlaces(o, mask)
    BY <2>1, Leaves DEF SeedPlaces
  <2>2. CASE SeedPlacesBox(o, mask)
    BY <1>0, <2>2, Leaves DEF SeedPlacesBox
  <2> QED BY <1>2, <2>1, <2>2
<1>3. ASSUME NEW o \in GmcOutcomes, CallFails(o) \/ KalmanStep(o) PROVE BoxInv'
  <2>1. CASE CallFails(o)
    BY <1>0, <2>1, Leaves DEF CallFails
  <2>2. CASE KalmanStep(o)
    BY <1>0, <2>2, Leaves DEF KalmanStep
  <2> QED BY <1>3, <2>1, <2>2
<1>4. ASSUME NEW o \in GmcOutcomes, TrackBegins(o) \/ TrackUpdates(o) PROVE BoxInv'
  <2>1. CASE TrackBegins(o)
    BY <1>0, <2>1, Leaves DEF TrackBegins
  <2>2. CASE TrackUpdates(o)
    BY <1>0, <2>2, Leaves DEF TrackUpdates
  <2> QED BY <1>4, <2>1, <2>2
<1>5. ASSUME NEW o \in GmcOutcomes, TrackRejects(o) \/ TrackMisses(o) PROVE BoxInv'
  <2>1. CASE TrackRejects(o)
    BY <1>0, <2>1, Leaves DEF TrackRejects
  <2>2. CASE TrackMisses(o)
    <3>1. stable' \in BOOLEAN /\ tracking' \in BOOLEAN
      BY <1>0, <2>2, Zenon DEF TrackMisses
    <3> QED BY <2>2, <3>1, Leaves DEF TrackMisses
  <2> QED BY <1>5, <2>1, <2>2
<1>6. CASE UNCHANGED boxVars
  <2>1. UNCHANGED <<tracking, patch, box, filter, stable, view, unseen, forgone>>
    BY <1>6 DEF boxVars
  <2> QED BY <2>1 DEF BoxInv, BoxTypeOK, AllSettled, Settled
<1> QED
  BY <1>1, <1>2, <1>3, <1>4, <1>5, <1>6 DEF BoxNext

LEMMA BoxAlways == BoxSpec => []BoxInv
BY BoxInitial, BoxStep, PTL DEF BoxSpec

(* Every measurement in the box and in the filter of nvmmsamurai has been  *)
(* moved exactly once by each motion of the camera since its picture, but  *)
(* for those found too small or too unsure, for any number of calls.       *)
THEOREM MotionsAreApplied == BoxSpec => []MotionsApplied
<1>1. ASSUME BoxInv PROVE MotionsApplied
  BY <1>1 DEF BoxInv, AllSettled, Settled, MotionsApplied
<1> QED
  BY <1>1, BoxAlways, PTL

-----------------------------------------------------------------------------
(***************************************************************************)
(* The suppression of nvmminfer's parser, which goes over the candidates   *)
(* from the best to the worst (module Folding).                            *)
(***************************************************************************)
Picked(loop) == ToSet(loop.kept)
Unpicked(s, loop, b) == b \notin Picked(loop) /\ b \notin loop.removed

LoopOver(s, k, loop) ==
  /\ loop.cands = s
  /\ loop.kept \in Seq(1 .. k) /\ Len(loop.kept) <= MaxKept
  /\ loop.removed = {b \in 1 .. Len(s) :
                       \E a \in Picked(loop) : a < b /\ Suppresses(s[a], s[b])}
  /\ Picked(loop) \intersect loop.removed = {}
  /\ \A i, j \in 1 .. Len(loop.kept) : i < j => loop.kept[i] < loop.kept[j]
  /\ \A b \in 1 .. k : Unpicked(s, loop, b) => \A a \in Picked(loop) : a < b
  /\ loop.over \in BOOLEAN

LoopEnd(s, k, loop) ==
  /\ loop.over => /\ Len(loop.kept) = MaxKept
                  /\ \E b \in 1 .. k : Unpicked(s, loop, b)
  /\ ~loop.over => \A b \in 1 .. k : ~Unpicked(s, loop, b)

LoopInv(s, k, loop) == LoopOver(s, k, loop) /\ LoopEnd(s, k, loop)

LEMMA ConsideredRuns ==
  ASSUME NEW Q, NEW b, NEW s \in Seq(Q)
  PROVE  \E run : /\ Considering!IsRun(run, b, s, Len(s))
                  /\ FoldLeft(Considered, b, s) = run[Len(s)]
<1>1. DOMAIN s = 1 .. Len(s) /\ Len(s) \in Nat
  OBVIOUS
<1>2. FoldLeft(Considered, b, s) = Considering!Folded(b, s, DOMAIN s)
  BY Zenon DEF FoldLeft, MapThenFoldSet, Max, Considering!Folded,
               Considering!Unrolled, Considering!Largest
<1> QED
  BY <1>1, <1>2, Considering!FoldRuns, Zenon

(* What is appended to the objects.                                        *)
LEMMA PickedAppend ==
  ASSUME NEW n \in Nat, NEW s \in Seq(1 .. n), NEW x \in 1 .. n + 1
  PROVE  /\ Append(s, x) \in Seq(1 .. n + 1) /\ Len(Append(s, x)) = Len(s) + 1
         /\ \A i \in 1 .. Len(s) : Append(s, x)[i] = s[i]
         /\ Append(s, x)[Len(s) + 1] = x
         /\ ToSet(Append(s, x)) = ToSet(s) \union {x}
         /\ s \in Seq(1 .. n + 1)
<1>1. s \in Seq(1 .. n + 1)
  OBVIOUS
<1>2. /\ Append(s, x) \in Seq(1 .. n + 1) /\ Len(Append(s, x)) = Len(s) + 1
      /\ \A i \in 1 .. Len(s) : Append(s, x)[i] = s[i]
      /\ Append(s, x)[Len(s) + 1] = x
      /\ DOMAIN Append(s, x) = 1 .. Len(s) + 1
      /\ DOMAIN s = 1 .. Len(s) /\ Len(s) \in Nat
  BY <1>1
<1>3. ToSet(Append(s, x)) = ToSet(s) \union {x}
  <2> DEFINE t == Append(s, x)
  <2>1. \A i \in 1 .. Len(s) + 1 : i \in 1 .. Len(s) \/ i = Len(s) + 1
    BY <1>2
  <2>2. 1 .. Len(s) \subseteq 1 .. Len(s) + 1 /\ Len(s) + 1 \in 1 .. Len(s) + 1
    BY <1>2
  <2> HIDE DEF t
  <2> QED BY <1>2, <2>1, <2>2 DEF ToSet, t
<1> QED
  BY <1>1, <1>2, <1>3

LEMMA ConsideredKeeps ==
  ASSUME NEW Q, NEW s \in Seq(Q), NEW k \in 1 .. Len(s), NEW loop, LoopInv(s, k - 1, loop),
         DOMAIN loop = {"cands", "removed", "kept", "over"}
  PROVE  /\ LoopInv(s, k, Considered(loop, k))
         /\ DOMAIN Considered(loop, k) = {"cands", "removed", "kept", "over"}
<1> DEFINE removed == {b \in k + 1 .. Len(s) : Suppresses(s[k], s[b])}
           next == Considered(loop, k)
<1>0. Len(s) \in Nat /\ k \in Nat /\ k - 1 \in Nat /\ (k - 1) + 1 = k
  OBVIOUS
<1>1. /\ loop.cands = s
      /\ loop.kept \in Seq(1 .. k - 1) /\ Len(loop.kept) <= MaxKept
      /\ loop.removed = {b \in 1 .. Len(s) :
                           \E a \in Picked(loop) : a < b /\ Suppresses(s[a], s[b])}
      /\ Picked(loop) \intersect loop.removed = {}
      /\ \A i, j \in 1 .. Len(loop.kept) : i < j => loop.kept[i] < loop.kept[j]
      /\ \A b \in 1 .. k - 1 : Unpicked(s, loop, b) => \A a \in Picked(loop) : a < b
  BY DEF LoopInv, LoopOver
<1>2. loop.over \in BOOLEAN
  BY DEF LoopInv, LoopOver
<1>3. Picked(loop) \subseteq 1 .. k - 1
  BY <1>1 DEF Picked, ToSet
<1>4. loop.kept \in Seq(1 .. k) /\ Len(loop.kept) \in Nat
  BY <1>0, <1>1
<1>5. \A b \in 1 .. k : b = k \/ b \in 1 .. k - 1
  BY <1>0
<1>6. CASE loop.over \/ k \in loop.removed
  <2>1. next = loop
    BY <1>6 DEF Considered
  <2>2. LoopOver(s, k, loop)
    <3>1. \A b \in 1 .. k : Unpicked(s, loop, b) => \A a \in Picked(loop) : a < b
      <4>1. \A a \in Picked(loop) : a < k
        BY <1>0, <1>3
      <4>2. \A b \in 1 .. k - 1 : Unpicked(s, loop, b) => \A a \in Picked(loop) : a < b
        BY <1>1
      <4> QED BY <1>5, <4>1, <4>2
    <3> QED BY <1>1, <1>2, <1>4, <3>1 DEF LoopOver
  <2>3. LoopEnd(s, k, loop)
    <3>1. ASSUME loop.over PROVE LoopEnd(s, k, loop)
      <4>1. Len(loop.kept) = MaxKept /\ \E b \in 1 .. k - 1 : Unpicked(s, loop, b)
        BY <3>1 DEF LoopInv, LoopEnd
      <4>2. \E b \in 1 .. k : Unpicked(s, loop, b)
        BY <1>0, <4>1
      <4> QED BY <3>1, <4>1, <4>2 DEF LoopEnd
    <3>2. ASSUME ~loop.over PROVE LoopEnd(s, k, loop)
      <4>1. \A b \in 1 .. k - 1 : ~Unpicked(s, loop, b)
        BY <3>2 DEF LoopInv, LoopEnd
      <4>2. ~Unpicked(s, loop, k)
        BY <1>6, <3>2 DEF Unpicked
      <4> QED BY <1>5, <3>2, <4>1, <4>2 DEF LoopEnd
    <3> QED BY <3>1, <3>2
  <2> QED BY <2>1, <2>2, <2>3 DEF LoopInv
<1>7. CASE ~(loop.over \/ k \in loop.removed) /\ Len(loop.kept) >= MaxKept
  <2>1. next = [loop EXCEPT !.over = TRUE]
    BY <1>7, Zenon DEF Considered
  <2>2. /\ next.cands = s /\ next.kept = loop.kept /\ next.removed = loop.removed
        /\ DOMAIN next = {"cands", "removed", "kept", "over"}
    BY <1>1, <2>1
  <2>3. next.over = TRUE
    BY <2>1
  <2>4. Picked(next) = Picked(loop)
    BY <2>2 DEF Picked
  <2>5. \A b \in 1 .. k : Unpicked(s, next, b) <=> Unpicked(s, loop, b)
    BY <2>2, <2>4 DEF Unpicked
  <2>6. LoopOver(s, k, next)
    <3>1. \A b \in 1 .. k : Unpicked(s, next, b) => \A a \in Picked(next) : a < b
      BY <1>0, <1>1, <1>3, <1>5, <2>4, <2>5
    <3>2. next.over \in BOOLEAN
      BY <2>3, Zenon
    <3> HIDE DEF next
    <3> QED BY <1>1, <1>4, <2>2, <2>4, <3>1, <3>2 DEF LoopOver
  <2>7. Unpicked(s, next, k)
    BY <1>0, <1>3, <1>7, <2>5 DEF Unpicked
  <2>8. Len(next.kept) = MaxKept
    BY <1>1, <1>4, <1>7, <2>2, YoloAssumption
  <2>9. LoopEnd(s, k, next)
    <3>1. k \in 1 .. k
      BY <1>0
    <3> HIDE DEF next
    <3> QED BY <2>3, <2>7, <2>8, <3>1, Zenon DEF LoopEnd
  <2> QED BY <2>2, <2>6, <2>9 DEF LoopInv
<1>8. CASE ~(loop.over \/ k \in loop.removed) /\ ~(Len(loop.kept) >= MaxKept)
  <2>1. next = [loop EXCEPT !.removed = loop.removed \union removed,
                            !.kept = Append(loop.kept, k)]
    BY <1>1, <1>8 DEF Considered
  <2>2. /\ next.cands = s /\ next.kept = Append(loop.kept, k)
        /\ next.removed = loop.removed \union removed
        /\ DOMAIN next = {"cands", "removed", "kept", "over"}
    BY <1>1, <2>1
  <2>3. next.over = loop.over
    BY <2>1
  <2> HIDE DEF next
  <2>4. /\ next.kept \in Seq(1 .. k) /\ Len(next.kept) = Len(loop.kept) + 1
        /\ \A i \in 1 .. Len(loop.kept) : next.kept[i] = loop.kept[i]
        /\ next.kept[Len(loop.kept) + 1] = k
        /\ Picked(next) = Picked(loop) \union {k}
    <3>1. k \in 1 .. (k - 1) + 1
      BY <1>0
    <3> QED BY <1>0, <1>1, <2>2, <3>1, PickedAppend DEF Picked
  <2>5. next.removed = {b \in 1 .. Len(s) :
                          \E a \in Picked(next) : a < b /\ Suppresses(s[a], s[b])}
    <3>1. removed = {b \in 1 .. Len(s) : k < b /\ Suppresses(s[k], s[b])}
      BY <1>0
    <3> HIDE DEF removed
    <3> QED BY <1>1, <2>2, <2>4, <3>1
  <2>6. Picked(next) \intersect next.removed = {}
    <3>1. removed \subseteq k + 1 .. Len(s)
      OBVIOUS
    <3>2. Picked(next) \intersect removed = {}
      BY <1>0, <1>3, <2>4, <3>1
    <3> HIDE DEF removed
    <3> QED BY <1>1, <1>8, <2>2, <2>4, <3>2
  <2>7. \A i, j \in 1 .. Len(next.kept) : i < j => next.kept[i] < next.kept[j]
    <3> SUFFICES ASSUME NEW i \in 1 .. Len(next.kept), NEW j \in 1 .. Len(next.kept), i < j
                 PROVE  next.kept[i] < next.kept[j]
      OBVIOUS
    <3>1. i \in 1 .. Len(loop.kept)
      BY <1>4, <2>4
    <3>2. loop.kept[i] \in 1 .. k - 1
      BY <1>1, <3>1
    <3>3. CASE j = Len(loop.kept) + 1
      <4>1. next.kept[j] = k /\ next.kept[i] = loop.kept[i]
        BY <2>4, <3>1, <3>3, Zenon
      <4> QED BY <1>0, <3>2, <4>1
    <3>4. CASE j # Len(loop.kept) + 1
      <4>1. j \in 1 .. Len(loop.kept)
        BY <1>4, <2>4, <3>4
      <4> QED BY <1>1, <2>4, <3>1, <4>1
    <3> QED BY <3>3, <3>4
  <2>8. \A b \in 1 .. k : ~Unpicked(s, next, b)
    <3>1. \A b \in 1 .. k - 1 : ~Unpicked(s, loop, b)
      BY <1>8 DEF LoopInv, LoopEnd
    <3> HIDE DEF removed
    <3> QED BY <1>5, <2>2, <2>4, <3>1 DEF Unpicked
  <2>9. LoopOver(s, k, next)
    <3>1. Len(next.kept) <= MaxKept
      BY <1>1, <1>4, <1>8, <2>4, YoloAssumption
    <3> QED BY <1>2, <2>2, <2>3, <2>4, <2>5, <2>6, <2>7, <2>8, <3>1 DEF LoopOver
  <2>10. LoopEnd(s, k, next)
    BY <1>8, <2>3, <2>8 DEF LoopEnd
  <2> QED BY <2>2, <2>9, <2>10 DEF LoopInv, next
<1> QED
  BY <1>6, <1>7, <1>8

LEMMA SuppressedIs ==
  ASSUME NEW Q, NEW s \in Seq(Q)
  PROVE  LoopInv(s, Len(s), Suppressed(s))
<1> DEFINE base == [cands |-> s, removed |-> {}, kept |-> <<>>, over |-> FALSE]
           all == [a \in DOMAIN s |-> a]
           fields == {"cands", "removed", "kept", "over"}
<1>0. Len(s) \in Nat /\ DOMAIN s = 1 .. Len(s)
  OBVIOUS
<1>1. all \in Seq(Nat) /\ Len(all) = Len(s) /\ \A k \in 1 .. Len(s) : all[k] = k
  <2>1. all \in [1 .. Len(s) -> Nat]
    BY <1>0
  <2> QED BY <1>0, <2>1
<1>2. PICK run : Considering!IsRun(run, base, all, Len(s)) /\ Suppressed(s) = run[Len(s)]
  <2>1. Suppressed(s) = FoldLeft(Considered, base, all)
    BY DEF Suppressed
  <2> HIDE DEF base, all
  <2>2. PICK run : /\ Considering!IsRun(run, base, all, Len(all))
                   /\ FoldLeft(Considered, base, all) = run[Len(all)]
    BY <1>1, ConsideredRuns
  <2> QED BY <1>1, <2>1, <2>2
<1>3. LoopInv(s, 0, base) /\ DOMAIN base = fields
  <2>1. Picked(base) = {}
    BY DEF Picked, ToSet
  <2>2. base.over = FALSE
    OBVIOUS
  <2>3. base.cands = s /\ base.kept = <<>> /\ base.removed = {} /\ DOMAIN base = fields
    OBVIOUS
  <2>4. <<>> \in Seq(1 .. 0) /\ Len(<<>>) = 0 /\ 0 <= MaxKept
    BY YoloAssumption
  <2> HIDE DEF base, fields
  <2>5. LoopOver(s, 0, base)
    <3>1. base.over \in BOOLEAN
      BY <2>2, Zenon
    <3>2. base.removed = {b \in 1 .. Len(s) :
                            \E a \in Picked(base) : a < b /\ Suppresses(s[a], s[b])}
      BY <2>1, <2>3
    <3>3. /\ base.kept \in Seq(1 .. 0) /\ Len(base.kept) <= MaxKept
          /\ Picked(base) \intersect base.removed = {}
          /\ \A i, j \in 1 .. Len(base.kept) : i < j => base.kept[i] < base.kept[j]
          /\ \A b \in 1 .. 0 : Unpicked(s, base, b) => \A a \in Picked(base) : a < b
      BY <2>1, <2>3, <2>4
    <3> QED BY <2>3, <3>1, <3>2, <3>3 DEF LoopOver
  <2>6. LoopEnd(s, 0, base)
    BY <2>2 DEF LoopEnd
  <2> QED BY <2>3, <2>5, <2>6 DEF LoopInv
<1> HIDE DEF base, all
<1> DEFINE S == {k \in 0 .. Len(s) : LoopInv(s, k, run[k]) /\ DOMAIN run[k] = fields}
<1>4. 0 \in S
  <2>1. run[0] = base
    BY <1>2 DEF Considering!IsRun
  <2> QED BY <1>0, <1>3, <2>1
<1>5. ASSUME NEW k \in 1 .. Len(s), k - 1 \in S PROVE k \in S
  <2>1. run[k] = Considered(run[k - 1], k)
    BY <1>1, <1>2 DEF Considering!IsRun
  <2>2. LoopInv(s, k - 1, run[k - 1]) /\ DOMAIN run[k - 1] = fields
    BY <1>5
  <2>3. LoopInv(s, k, run[k]) /\ DOMAIN run[k] = fields
    BY <2>1, <2>2, ConsideredKeeps
  <2> QED BY <1>0, <2>3
<1>6. \A k \in 0 .. Len(s) : k \in S
  <2> HIDE DEF S
  <2> QED BY <1>0, <1>4, <1>5, Considering!ClimbTo
<1> QED
  BY <1>0, <1>2, <1>6

LEMMA ParseStep ==
  ASSUME NEW tensor \in Tensors, Parse(tensor)
  PROVE  ParsedExact'
<1>1. PICK n \in 0 .. MaxProposals : tensor \in [1 .. n -> Proposed]
  BY DEF Tensors
<1> DEFINE passing == {i \in DOMAIN tensor : IsCandidate(tensor[i])}
<1>2. IsFiniteSet(passing) /\ Cardinality(passing) \in Nat
  <2>1. n \in Int /\ passing \subseteq 1 .. n
    BY <1>1, YoloAssumption
  <2>2. IsFiniteSet(passing)
    BY <2>1, FS_Interval, FS_Subset
  <2> QED BY <2>2, FS_CardinalityType
<1>3. PICK order \in SetToSeqs(passing) :
        cands' = [i \in DOMAIN order |-> Candidate(tensor[order[i]])]
  BY DEF Parse
<1>4. objects' = Suppressed(cands').kept /\ over' = Suppressed(cands').over
  BY DEF Parse
<1> HIDE DEF passing
<1>5. DOMAIN cands' = 1 .. Cardinality(passing)
  BY <1>3 DEF SetToSeqs
<1> DEFINE Q == {cands'[i] : i \in DOMAIN cands'}
<1>6. cands' \in Seq(Q)
  <2>1. cands' = [i \in DOMAIN cands' |-> cands'[i]]
    BY <1>3
  <2>2. cands' \in [DOMAIN cands' -> Q]
    BY <2>1
  <2> HIDE DEF Q
  <2> QED BY <1>2, <1>5, <2>2
<1> HIDE DEF Q
<1> DEFINE s == cands'
           loop == Suppressed(s)
<1>7. LoopInv(s, Len(s), loop)
  BY <1>6, SuppressedIs
<1>8. objects' = loop.kept /\ over' = loop.over /\ s = cands'
  BY <1>4
<1>9. Len(s) \in Nat /\ DOMAIN s = 1 .. Len(s)
  BY <1>6
<1> HIDE DEF loop, s
<1>10. /\ loop.kept \in Seq(1 .. Len(s))
       /\ loop.removed = {b \in 1 .. Len(s) :
                            \E a \in Picked(loop) : a < b /\ Suppresses(s[a], s[b])}
       /\ Picked(loop) \intersect loop.removed = {}
       /\ \A i, j \in 1 .. Len(loop.kept) : i < j => loop.kept[i] < loop.kept[j]
       /\ \A b \in 1 .. Len(s) : Unpicked(s, loop, b) => \A a \in Picked(loop) : a < b
  BY <1>7 DEF LoopInv, LoopOver
<1>11. loop.over \in BOOLEAN
  BY <1>7 DEF LoopInv, LoopOver
<1>12. ToSet(objects') = Picked(loop) /\ Picked(loop) \subseteq 1 .. Len(s)
  BY <1>8, <1>10 DEF Picked, ToSet
<1>13. \A b \in 1 .. Len(s) : Answered(b)' <=> b \in loop.removed
  BY <1>8, <1>10, <1>12 DEF Answered
<1> DEFINE left == {b \in DOMAIN cands \ ToSet(objects) : ~Answered(b)}'
<1>14. left = {b \in 1 .. Len(s) : Unpicked(s, loop, b)}
  BY <1>8, <1>9, <1>12, <1>13 DEF Unpicked
<1> HIDE DEF left
<1>15. \A b \in ToSet(objects') : ~Answered(b)'
  BY <1>10, <1>12, <1>13
<1>16. \A i, j \in DOMAIN objects' : i < j => objects'[i] < objects'[j]
  <2>1. DOMAIN objects' = 1 .. Len(loop.kept)
    BY <1>8, <1>10
  <2> QED BY <1>8, <1>10, <2>1
<1>17. over' = (left # {})
  <2>1. CASE loop.over
    <3>1. left # {}
      BY <1>7, <1>14, <2>1 DEF LoopInv, LoopEnd
    <3>2. loop.over = TRUE
      BY <1>11, <2>1, Zenon
    <3> QED BY <1>8, <3>1, <3>2, Zenon
  <2>2. CASE ~loop.over
    <3>1. left = {}
      BY <1>7, <1>14, <2>2 DEF LoopInv, LoopEnd
    <3>2. loop.over = FALSE
      BY <1>11, <2>2, Zenon
    <3> QED BY <1>8, <3>1, <3>2, Zenon
  <2> QED BY <2>1, <2>2
<1>18. over' => Len(objects') = MaxKept
  BY <1>7, <1>8 DEF LoopInv, LoopEnd
<1>19. \A b \in left, a \in ToSet(objects') : a < b
  BY <1>10, <1>12, <1>14
<1> QED
  BY <1>15, <1>16, <1>17, <1>18, <1>19, Zenon DEF ParsedExact, left

(***************************************************************************)
(* The objects of a frame are the best candidates of which no two are one, *)
(* whatever the tensor, the thresholds and the room for objects, and a     *)
(* frame is truncated exactly if a candidate was left out for lack of      *)
(* room.                                                                   *)
(***************************************************************************)
THEOREM ParseIsExact == ParseSpec => []ParsedExact
<1>1. ParseInit => ParsedExact
  <2> SUFFICES ASSUME ParseInit PROVE ParsedExact
    OBVIOUS
  <2>1. DOMAIN cands = {} /\ DOMAIN objects = {} /\ ToSet(objects) = {}
    BY DEF ParseInit, ToSet
  <2>2. over = FALSE
    BY DEF ParseInit
  <2> QED BY <2>1, <2>2 DEF ParsedExact
<1>2. ParsedExact /\ [ParseNext]_parseVars => ParsedExact'
  <2> SUFFICES ASSUME ParsedExact, [ParseNext]_parseVars PROVE ParsedExact'
    OBVIOUS
  <2>1. CASE ParseNext
    BY <2>1, ParseStep DEF ParseNext
  <2>2. CASE UNCHANGED parseVars
    BY <2>2 DEF parseVars, ParsedExact, Answered
  <2> QED BY <2>1, <2>2
<1> QED
  BY <1>1, <1>2, PTL DEF ParseSpec

-----------------------------------------------------------------------------
(***************************************************************************)
(* The gate of the analytics library.  What a track counts is what its     *)
(* history says, through every frame: age are the frames that had a        *)
(* detection for it, sup those of them since the last without support, and *)
(* lost the misses at the end.                                             *)
(***************************************************************************)
Assigning == INSTANCE Folding WITH Op <- Assigned
Keeping == INSTANCE Folding WITH Op <- KeptIfThere

Outcomes == {"supported", "seen", "missed"}
GateTracks == [at : Points, age : Nat, lost : Nat, sup : Nat, matched : BOOLEAN,
               past : Seq(Outcomes)]

SupportIs(past, sup) ==
  /\ sup <= Cardinality(Hits(past))
  /\ \A i \in Hits(past) :
       Cardinality(HitsAfter(past, i)) < sup => past[i] = "supported"
  /\ sup < Cardinality(Hits(past)) =>
       \E i \in Hits(past) : Cardinality(HitsAfter(past, i)) = sup /\ past[i] = "seen"

MissesAre(past, missing) ==
  /\ missing < Len(past) /\ past[Len(past) - missing] # "missed"
  /\ \A j \in Len(past) - missing + 1 .. Len(past) : past[j] = "missed"

GapFree(past) == ~\E i \in 1 .. Len(past) - MaxMissed : Gap(past, i)

Followed(t) ==
  /\ t \in GateTracks
  /\ t.age = Cardinality(Hits(t.past))
  /\ SupportIs(t.past, t.sup) /\ MissesAre(t.past, t.lost) /\ GapFree(t.past)

(* A track while the detections of a frame are taken one by one.           *)
Midway(t) ==
  /\ t.matched => Followed(t) /\ t.lost = 0
  /\ ~t.matched => \E old : Followed(old) /\ t = Aging(old)
  /\ t \in GateTracks

GateInv ==
  /\ pTracks \in Seq(GateTracks)
  /\ \A k \in DOMAIN pTracks : Followed(pTracks[k]) /\ ~Confirms(pTracks[k])
  /\ DOMAIN pLock = {"locked", "at", "lost", "past"}
  /\ pLock.locked \in BOOLEAN
  /\ pLock.locked => Earned(pLock.past) /\ pTracks = <<>>

LEMMA AssignedRuns ==
  ASSUME NEW Q, NEW b, NEW s \in Seq(Q)
  PROVE  \E run : /\ Assigning!IsRun(run, b, s, Len(s))
                  /\ FoldLeft(Assigned, b, s) = run[Len(s)]
<1>1. DOMAIN s = 1 .. Len(s) /\ Len(s) \in Nat
  OBVIOUS
<1>2. FoldLeft(Assigned, b, s) = Assigning!Folded(b, s, DOMAIN s)
  BY Zenon DEF FoldLeft, MapThenFoldSet, Max, Assigning!Folded,
               Assigning!Unrolled, Assigning!Largest
<1> QED
  BY <1>1, <1>2, Assigning!FoldRuns, Zenon

LEMMA KeptRuns ==
  ASSUME NEW Q, NEW b, NEW s \in Seq(Q)
  PROVE  \E run : /\ Keeping!IsRun(run, b, s, Len(s))
                  /\ FoldLeft(KeptIfThere, b, s) = run[Len(s)]
<1>1. DOMAIN s = 1 .. Len(s) /\ Len(s) \in Nat
  OBVIOUS
<1>2. FoldLeft(KeptIfThere, b, s) = Keeping!Folded(b, s, DOMAIN s)
  BY Zenon DEF FoldLeft, MapThenFoldSet, Max, Keeping!Folded,
               Keeping!Unrolled, Keeping!Largest
<1> QED
  BY <1>1, <1>2, Keeping!FoldRuns, Zenon

-----------------------------------------------------------------------------
(* A frame more in a history.                                              *)
LEMMA HitsAre ==
  ASSUME NEW past \in Seq(Outcomes)
  PROVE  /\ Hits(past) \subseteq 1 .. Len(past) /\ IsFiniteSet(Hits(past))
         /\ Cardinality(Hits(past)) \in Nat
         /\ \A i : /\ HitsAfter(past, i) \subseteq Hits(past)
                   /\ IsFiniteSet(HitsAfter(past, i))
                   /\ Cardinality(HitsAfter(past, i)) \in Nat
<1>1. DOMAIN past = 1 .. Len(past) /\ Len(past) \in Nat
  OBVIOUS
<1>2. IsFiniteSet(1 .. Len(past))
  BY <1>1, FS_Interval
<1>3. Hits(past) \subseteq 1 .. Len(past)
  BY <1>1 DEF Hits
<1>4. \A i : HitsAfter(past, i) \subseteq Hits(past)
  BY DEF HitsAfter
<1>5. IsFiniteSet(Hits(past))
  BY <1>2, <1>3, FS_Subset
<1>6. \A i : IsFiniteSet(HitsAfter(past, i))
  BY <1>4, <1>5, FS_Subset
<1> QED
  BY <1>3, <1>4, <1>5, <1>6, FS_CardinalityType

LEMMA OneMore ==
  ASSUME NEW past \in Seq(Outcomes), NEW o \in Outcomes
  PROVE  /\ Append(past, o) \in Seq(Outcomes) /\ Len(Append(past, o)) = Len(past) + 1
         /\ Len(past) \in Nat
         /\ \A i \in 1 .. Len(past) : Append(past, o)[i] = past[i]
         /\ Append(past, o)[Len(past) + 1] = o
         /\ DOMAIN past = 1 .. Len(past) /\ DOMAIN Append(past, o) = 1 .. Len(past) + 1
OBVIOUS

LEMMA MissAppended ==
  ASSUME NEW past \in Seq(Outcomes)
  PROVE  /\ Hits(Append(past, "missed")) = Hits(past)
         /\ \A i : HitsAfter(Append(past, "missed"), i) = HitsAfter(past, i)
<1> DEFINE next == Append(past, "missed")
<1>1. /\ Len(past) \in Nat
      /\ \A i \in 1 .. Len(past) : next[i] = past[i]
      /\ next[Len(past) + 1] = "missed"
      /\ DOMAIN past = 1 .. Len(past) /\ DOMAIN next = 1 .. Len(past) + 1
  BY OneMore DEF Outcomes
<1> HIDE DEF next
<1>2. \A i : i \in 1 .. Len(past) + 1 <=> i \in 1 .. Len(past) \/ i = Len(past) + 1
  BY <1>1
<1>3. Hits(next) = Hits(past)
  BY <1>1, <1>2 DEF Hits
<1> QED
  BY <1>3 DEF HitsAfter, next

LEMMA HitAppended ==
  ASSUME NEW past \in Seq(Outcomes), NEW o \in Outcomes, o # "missed"
  PROVE  /\ Hits(Append(past, o)) = Hits(past) \union {Len(past) + 1}
         /\ Cardinality(Hits(Append(past, o))) = Cardinality(Hits(past)) + 1
         /\ \A i \in Hits(past) :
              Cardinality(HitsAfter(Append(past, o), i)) = Cardinality(HitsAfter(past, i)) + 1
         /\ Cardinality(HitsAfter(Append(past, o), Len(past) + 1)) = 0
<1> DEFINE next == Append(past, o)
           n == Len(past) + 1
<1>1. /\ Len(past) \in Nat
      /\ \A i \in 1 .. Len(past) : next[i] = past[i]
      /\ next[n] = o
      /\ DOMAIN past = 1 .. Len(past) /\ DOMAIN next = 1 .. n
  BY OneMore
<1> HIDE DEF next
<1>2. \A i : i \in 1 .. n <=> i \in 1 .. Len(past) \/ i = n
  BY <1>1
<1>3. Hits(next) = Hits(past) \union {n}
  BY <1>1, <1>2 DEF Hits
<1>4. /\ Hits(past) \subseteq 1 .. Len(past) /\ IsFiniteSet(Hits(past))
      /\ \A i : /\ HitsAfter(past, i) \subseteq Hits(past)
                /\ IsFiniteSet(HitsAfter(past, i))
  BY HitsAre
<1>5. n \notin Hits(past) /\ \A i : n \notin HitsAfter(past, i)
  BY <1>1, <1>4
<1>6. ASSUME NEW i \in Hits(past)
      PROVE  HitsAfter(next, i) = HitsAfter(past, i) \union {n}
  <2>1. i < n
    BY <1>1, <1>4
  <2> QED BY <1>3, <2>1 DEF HitsAfter
<1>7. HitsAfter(next, n) = {}
  <2>1. \A j \in Hits(next) : ~(j > n)
    BY <1>1, <1>3, <1>4
  <2> QED BY <2>1 DEF HitsAfter
<1>8. Cardinality(Hits(next)) = Cardinality(Hits(past)) + 1
  <2>1. IsFiniteSet(Hits(past)) /\ n \notin Hits(past)
    BY <1>4, <1>5
  <2> HIDE DEF n
  <2>2. Cardinality(Hits(past) \union {n}) = Cardinality(Hits(past)) + 1
    BY <2>1, FS_AddElement
  <2> QED BY <1>3, <2>2
<1>9. ASSUME NEW i \in Hits(past)
      PROVE  Cardinality(HitsAfter(next, i)) = Cardinality(HitsAfter(past, i)) + 1
  <2>1. IsFiniteSet(HitsAfter(past, i)) /\ n \notin HitsAfter(past, i)
    BY <1>4, <1>5
  <2> HIDE DEF n
  <2>2. Cardinality(HitsAfter(past, i) \union {n}) = Cardinality(HitsAfter(past, i)) + 1
    BY <2>1, FS_AddElement
  <2> QED BY <1>6, <2>2
<1>10. Cardinality(HitsAfter(next, n)) = 0
  BY <1>7, FS_EmptySet
<1> QED
  BY <1>3, <1>8, <1>9, <1>10 DEF next

LEMMA SupportGrows ==
  ASSUME NEW past \in Seq(Outcomes), NEW sup \in Nat, SupportIs(past, sup)
  PROVE  /\ SupportIs(Append(past, "supported"), sup + 1)
         /\ SupportIs(Append(past, "seen"), 0)
         /\ SupportIs(Append(past, "missed"), sup)
<1> DEFINE n == Len(past) + 1
           count == Cardinality(Hits(past))
<1>1. count \in Nat /\ \A i : Cardinality(HitsAfter(past, i)) \in Nat
  BY HitsAre
<1>2. SupportIs(Append(past, "supported"), sup + 1)
  <2> DEFINE next == Append(past, "supported")
  <2>1. /\ Hits(next) = Hits(past) \union {n} /\ Cardinality(Hits(next)) = count + 1
        /\ \A i \in Hits(past) :
             Cardinality(HitsAfter(next, i)) = Cardinality(HitsAfter(past, i)) + 1
    BY HitAppended DEF Outcomes
  <2>2. next[n] = "supported" /\ \A i \in Hits(past) : next[i] = past[i]
    BY OneMore, HitsAre DEF Outcomes
  <2> HIDE DEF next, n, count
  <2>3. sup + 1 <= Cardinality(Hits(next))
    BY <1>1, <2>1 DEF SupportIs, count
  <2>4. ASSUME NEW i \in Hits(next), Cardinality(HitsAfter(next, i)) < sup + 1
        PROVE  next[i] = "supported"
    BY <1>1, <2>1, <2>2, <2>4 DEF SupportIs
  <2>5. ASSUME sup + 1 < Cardinality(Hits(next))
        PROVE  \E i \in Hits(next) :
                 Cardinality(HitsAfter(next, i)) = sup + 1 /\ next[i] = "seen"
    <3>1. sup < count
      BY <1>1, <2>1, <2>5
    <3>2. PICK i \in Hits(past) : Cardinality(HitsAfter(past, i)) = sup /\ past[i] = "seen"
      BY <3>1 DEF SupportIs, count
    <3> QED BY <2>1, <2>2, <3>2
  <2>6. SupportIs(next, sup + 1)
    BY <2>3, <2>4, <2>5 DEF SupportIs
  <2> QED BY <2>6 DEF next
<1>3. SupportIs(Append(past, "seen"), 0)
  <2> DEFINE next == Append(past, "seen")
  <2>1. /\ Hits(next) = Hits(past) \union {n} /\ Cardinality(Hits(next)) = count + 1
        /\ Cardinality(HitsAfter(next, n)) = 0
    BY HitAppended DEF Outcomes
  <2>2. next[n] = "seen" /\ next \in Seq(Outcomes)
    BY OneMore DEF Outcomes
  <2> HIDE DEF next, n, count
  <2>3. \A i : Cardinality(HitsAfter(next, i)) \in Nat
    BY <2>2, HitsAre
  <2>4. SupportIs(next, 0)
    BY <1>1, <2>1, <2>2, <2>3 DEF SupportIs
  <2> QED BY <2>4 DEF next
<1>4. SupportIs(Append(past, "missed"), sup)
  <2> DEFINE next == Append(past, "missed")
  <2>1. Hits(next) = Hits(past) /\ \A i : HitsAfter(next, i) = HitsAfter(past, i)
    BY MissAppended
  <2>2. \A i \in Hits(past) : next[i] = past[i]
    BY OneMore, HitsAre DEF Outcomes
  <2> HIDE DEF next
  <2>3. SupportIs(next, sup)
    BY <2>1, <2>2 DEF SupportIs
  <2> QED BY <2>3 DEF next
<1> QED
  BY <1>2, <1>3, <1>4

(* No gap comes with a hit, nor with a miss while the track is kept.       *)
LEMMA HitClosesGap ==
  ASSUME NEW past \in Seq(Outcomes), NEW o \in Outcomes, o # "missed", GapFree(past)
  PROVE  GapFree(Append(past, o)) /\ MissesAre(Append(past, o), 0)
<1> DEFINE next == Append(past, o)
<1>1. /\ Len(past) \in Nat /\ Len(next) = Len(past) + 1 /\ MaxMissed \in Nat
      /\ \A i \in 1 .. Len(past) : next[i] = past[i]
      /\ next[Len(past) + 1] = o
  BY OneMore, PersistenceAssumption
<1> HIDE DEF next
<1>2. MissesAre(next, 0)
  BY <1>1 DEF MissesAre
<1>3. ASSUME NEW i \in 1 .. Len(next) - MaxMissed, Gap(next, i) PROVE FALSE
  <2>1. CASE i + MaxMissed = Len(next)
    BY <1>1, <1>3, <2>1 DEF Gap
  <2>2. CASE i + MaxMissed < Len(next)
    <3>1. i \in 1 .. Len(past) - MaxMissed
      BY <1>1, <2>2
    <3>2. \A j \in i .. i + MaxMissed : j \in 1 .. Len(past)
      BY <1>1, <3>1
    <3>3. Gap(past, i)
      BY <1>1, <1>3, <3>2 DEF Gap
    <3> QED BY <3>1, <3>3 DEF GapFree
  <2> QED BY <1>1, <2>1, <2>2
<1> QED
  BY <1>2, <1>3 DEF GapFree, next

LEMMA MissLeavesGap ==
  ASSUME NEW past \in Seq(Outcomes), NEW missing \in Nat, MissesAre(past, missing)
  PROVE  /\ MissesAre(Append(past, "missed"), missing + 1)
         /\ GapFree(past) /\ missing + 1 <= MaxMissed => GapFree(Append(past, "missed"))
<1> DEFINE next == Append(past, "missed")
<1>1. /\ Len(past) \in Nat /\ Len(next) = Len(past) + 1 /\ MaxMissed \in Nat
      /\ \A i \in 1 .. Len(past) : next[i] = past[i]
      /\ next[Len(past) + 1] = "missed"
  BY OneMore, PersistenceAssumption DEF Outcomes
<1> HIDE DEF next
<1>2. /\ missing < Len(past) /\ past[Len(past) - missing] # "missed"
      /\ \A j \in Len(past) - missing + 1 .. Len(past) : past[j] = "missed"
  BY DEF MissesAre
<1>3. MissesAre(next, missing + 1)
  <2>1. /\ missing + 1 < Len(next) /\ Len(next) - (missing + 1) = Len(past) - missing
        /\ Len(past) - missing \in 1 .. Len(past)
    BY <1>1, <1>2
  <2>2. ASSUME NEW j \in Len(next) - (missing + 1) + 1 .. Len(next) PROVE next[j] = "missed"
    <3>1. CASE j = Len(past) + 1
      BY <1>1, <3>1
    <3>2. CASE j # Len(past) + 1
      <4>1. j \in Len(past) - missing + 1 .. Len(past) /\ j \in 1 .. Len(past)
        <5>1. missing \in Nat /\ missing < Len(past) /\ j \in Int
          BY <1>2
        <5>2. Len(past) - missing + 1 <= j /\ j <= Len(past) + 1
          BY <1>1, <2>1, <5>1
        <5> QED BY <1>1, <3>2, <5>1, <5>2
      <4> QED BY <1>1, <1>2, <4>1
    <3> QED BY <3>1, <3>2
  <2> QED BY <1>1, <1>2, <2>1, <2>2 DEF MissesAre
<1>4. ASSUME GapFree(past), missing + 1 <= MaxMissed,
             NEW i \in 1 .. Len(next) - MaxMissed, Gap(next, i)
      PROVE  FALSE
  <2>1. CASE i + MaxMissed = Len(next)
    <3>1. Len(past) - missing \in i .. i + MaxMissed /\ Len(past) - missing \in 1 .. Len(past)
      BY <1>1, <1>2, <1>4, <2>1
    <3> QED BY <1>1, <1>2, <1>4, <3>1 DEF Gap
  <2>2. CASE i + MaxMissed < Len(next)
    <3>1. i \in 1 .. Len(past) - MaxMissed
      BY <1>1, <2>2
    <3>2. \A j \in i .. i + MaxMissed : j \in 1 .. Len(past)
      BY <1>1, <3>1
    <3>3. Gap(past, i)
      BY <1>1, <1>4, <3>2 DEF Gap
    <3> QED BY <1>4, <3>1, <3>3 DEF GapFree
  <2> QED BY <1>1, <2>1, <2>2
<1> QED
  BY <1>3, <1>4 DEF GapFree, next

-----------------------------------------------------------------------------
(* A track is due when its history says so.                                *)
LEMMA DueWhenEarned ==
  ASSUME NEW t, Followed(t)
  PROVE  Confirms(t) <=> Earned(t.past)
<1> DEFINE past == t.past
           count == Cardinality(Hits(past))
<1>1. /\ past \in Seq(Outcomes) /\ t.lost \in Nat /\ t.sup \in Nat /\ t.age = count
      /\ SupportIs(past, t.sup) /\ MissesAre(past, t.lost) /\ GapFree(past)
  BY DEF Followed, GateTracks
<1>2. /\ MinAge \in Nat /\ MinSupport \in Nat /\ Len(past) \in Nat /\ count \in Nat
      /\ \A i : Cardinality(HitsAfter(past, i)) \in Nat
      /\ Last(past) = past[Len(past)]
  BY <1>1, HitsAre, PersistenceAssumption DEF Last
<1> HIDE DEF past
<1>3. t.lost = 0 <=> Last(past) # "missed"
  <2>1. CASE t.lost = 0
    BY <1>1, <1>2, <2>1 DEF MissesAre
  <2>2. CASE t.lost # 0
    BY <1>1, <1>2, <2>2 DEF MissesAre
  <2> QED BY <2>1, <2>2
<1>4. ASSUME Confirms(t) PROVE Earned(past)
  <2>1. t.lost = 0 /\ count >= MinAge /\ t.sup >= MinSupport
    BY <1>1, <1>4 DEF Confirms
  <2>2. t.sup <= count
    BY <1>1 DEF SupportIs
  <2>3. count >= MinSupport
    BY <1>1, <1>2, <2>1, <2>2
  <2>4. ASSUME NEW i \in Hits(past), Cardinality(HitsAfter(past, i)) < MinSupport
        PROVE  past[i] = "supported"
    <3>1. Cardinality(HitsAfter(past, i)) < t.sup
      BY <1>1, <1>2, <2>1, <2>4
    <3> QED BY <1>1, <3>1 DEF SupportIs
  <2> QED BY <1>1, <1>3, <2>1, <2>3, <2>4 DEF Earned, GapFree
<1>5. ASSUME Earned(past) PROVE Confirms(t)
  <2>1. t.lost = 0 /\ count >= MinAge /\ count >= MinSupport
    BY <1>3, <1>5 DEF Earned
  <2>2. t.sup >= MinSupport
    <3> SUFFICES ASSUME t.sup < MinSupport PROVE FALSE
      BY <1>1, <1>2
    <3>1. t.sup < count
      BY <1>1, <1>2, <2>1
    <3>2. PICK i \in Hits(past) :
            Cardinality(HitsAfter(past, i)) = t.sup /\ past[i] = "seen"
      BY <1>1, <3>1 DEF SupportIs
    <3> QED BY <1>5, <3>2 DEF Earned
  <2> QED BY <1>1, <2>1, <2>2 DEF Confirms
<1> QED
  BY <1>4, <1>5 DEF past

-----------------------------------------------------------------------------
(* What a frame does to a track.                                           *)
Detections == [at : Points, supported : BOOLEAN]

LEMMA AgingIs ==
  ASSUME NEW t \in GateTracks
  PROVE  Aging(t) = [at |-> t.at, age |-> t.age, lost |-> t.lost + 1, sup |-> t.sup,
                     matched |-> FALSE, past |-> Append(t.past, "missed")]
<1>1. DOMAIN t = {"at", "age", "lost", "sup", "matched", "past"}
  BY DEF GateTracks
<1>2. Aging(t) = [f \in DOMAIN t |-> Aging(t)[f]]
  BY DEF Aging
<1>3. /\ Aging(t).at = t.at /\ Aging(t).age = t.age /\ Aging(t).sup = t.sup
  BY <1>1 DEF Aging
<1>4. Aging(t).lost = t.lost + 1
  BY <1>1 DEF Aging
<1>5. Aging(t).matched = FALSE
  BY <1>1 DEF Aging
<1>6. Aging(t).past = Append(t.past, "missed")
  BY <1>1 DEF Aging
<1> QED
  BY <1>1, <1>2, <1>3, <1>4, <1>5, <1>6

LEMMA AgingMidway ==
  ASSUME NEW t, Followed(t)
  PROVE  Midway(Aging(t)) /\ Aging(t) \in GateTracks
<1>1. t \in GateTracks
  BY DEF Followed
<1>2. /\ t.at \in Points /\ t.age \in Nat /\ t.lost + 1 \in Nat /\ t.sup \in Nat
      /\ Append(t.past, "missed") \in Seq(Outcomes)
  BY <1>1, OneMore DEF GateTracks, Outcomes
<1>3. Aging(t) = [at |-> t.at, age |-> t.age, lost |-> t.lost + 1, sup |-> t.sup,
                  matched |-> FALSE, past |-> Append(t.past, "missed")]
  BY <1>1, AgingIs
<1> DEFINE next == Append(t.past, "missed")
<1> HIDE DEF next
<1>4. Aging(t).matched = FALSE /\ Aging(t) \in GateTracks
  BY <1>2, <1>3 DEF GateTracks, next
<1> QED
  BY <1>4 DEF Midway

LEMMA AgedFollowed ==
  ASSUME NEW t, Followed(t), Aging(t).lost <= MaxMissed
  PROVE  Followed(Aging(t))
<1> DEFINE next == Append(t.past, "missed")
<1>1. /\ t \in GateTracks /\ t.past \in Seq(Outcomes) /\ t.lost \in Nat /\ t.sup \in Nat
      /\ t.age = Cardinality(Hits(t.past))
      /\ SupportIs(t.past, t.sup) /\ MissesAre(t.past, t.lost) /\ GapFree(t.past)
  BY DEF Followed, GateTracks
<1>2. /\ Aging(t).lost = t.lost + 1 /\ Aging(t).past = next /\ Aging(t).sup = t.sup
      /\ Aging(t).age = t.age
  BY <1>1, AgingIs
<1>3. Aging(t) \in GateTracks
  BY AgingMidway
<1>4. Hits(next) = Hits(t.past)
  BY <1>1, MissAppended
<1>5. SupportIs(next, t.sup)
  BY <1>1, SupportGrows
<1>6. MissesAre(next, t.lost + 1) /\ GapFree(next)
  BY <1>1, <1>2, MissLeavesGap
<1> HIDE DEF next
<1> QED
  BY <1>1, <1>2, <1>3, <1>4, <1>5, <1>6 DEF Followed

LEMMA OutcomeIs ==
  ASSUME NEW d \in Detections
  PROVE  /\ d.at \in Points /\ d.supported \in BOOLEAN
         /\ Outcome(d) = IF d.supported THEN "supported" ELSE "seen"
         /\ Outcome(d) \in Outcomes /\ Outcome(d) # "missed"
<1>1. d.at \in Points
  BY DEF Detections
<1>2. d.supported \in BOOLEAN
  BY Zenon DEF Detections
<1> QED
  BY <1>1, <1>2 DEF Outcome, Outcomes

LEMMA AgedBack ==
  ASSUME NEW t, Followed(t)
  PROVE  Front(Aging(t).past) = t.past
<1>1. t \in GateTracks /\ t.past \in Seq(Outcomes) /\ Aging(t).past = Append(t.past, "missed")
  BY AgingIs DEF Followed, GateTracks
<1> DEFINE next == Append(t.past, "missed")
<1>2. /\ Len(t.past) \in Nat /\ Len(next) = Len(t.past) + 1
      /\ \A i \in 1 .. Len(t.past) : next[i] = t.past[i]
  BY <1>1, OneMore DEF Outcomes
<1> HIDE DEF next
<1>3. Front(next) = [i \in 1 .. Len(t.past) |-> t.past[i]]
  BY <1>2 DEF Front
<1>4. t.past = [i \in 1 .. Len(t.past) |-> t.past[i]]
  BY <1>1
<1> QED
  BY <1>1, <1>3, <1>4 DEF next

LEMMA MatchedFollowed ==
  ASSUME NEW old, Followed(old), NEW d \in Detections
  PROVE  /\ Followed(Matched(Aging(old), d))
         /\ Matched(Aging(old), d).matched = TRUE /\ Matched(Aging(old), d).lost = 0
<1> DEFINE t == Matched(Aging(old), d)
           next == Append(old.past, Outcome(d))
           sup == SupportedAgain(old.sup, d)
<1>1. /\ old \in GateTracks /\ old.past \in Seq(Outcomes) /\ old.sup \in Nat /\ old.age \in Nat
      /\ old.age = Cardinality(Hits(old.past))
      /\ SupportIs(old.past, old.sup) /\ GapFree(old.past)
  BY DEF Followed, GateTracks
<1>2. /\ Aging(old).age = old.age /\ Aging(old).sup = old.sup
      /\ Front(Aging(old).past) = old.past
  BY <1>1, AgingIs, AgedBack
<1>3. t = [at |-> d.at, age |-> old.age + 1, lost |-> 0, sup |-> sup, matched |-> TRUE,
           past |-> next]
  BY <1>2, Zenon DEF Matched
<1>4. /\ d.at \in Points /\ d.supported \in BOOLEAN
      /\ Outcome(d) = IF d.supported THEN "supported" ELSE "seen"
      /\ Outcome(d) \in Outcomes /\ Outcome(d) # "missed"
  BY OutcomeIs
<1>5. sup \in Nat
  BY <1>1, <1>4 DEF SupportedAgain
<1>6. next \in Seq(Outcomes)
  BY <1>1, <1>4, OneMore
<1>7. Cardinality(Hits(next)) = old.age + 1
  BY <1>1, <1>4, HitAppended
<1>8. SupportIs(next, sup)
  <2>0. /\ SupportIs(Append(old.past, "supported"), old.sup + 1)
        /\ SupportIs(Append(old.past, "seen"), 0)
    BY <1>1, SupportGrows
  <2>1. CASE d.supported
    <3>1. sup = old.sup + 1 /\ Outcome(d) = "supported"
      BY <2>1 DEF SupportedAgain, Outcome
    <3> QED BY <2>0, <3>1
  <2>2. CASE ~d.supported
    <3>1. sup = 0 /\ Outcome(d) = "seen"
      BY <2>2 DEF SupportedAgain, Outcome
    <3> QED BY <2>0, <3>1
  <2> QED BY <2>1, <2>2
<1>9. GapFree(next) /\ MissesAre(next, 0)
  BY <1>1, <1>4, HitClosesGap
<1> HIDE DEF t, next, sup
<1>10. t \in GateTracks
  BY <1>1, <1>3, <1>4, <1>5, <1>6 DEF GateTracks
<1>11. /\ t.age = old.age + 1 /\ t.lost = 0 /\ t.sup = sup /\ t.matched = TRUE
       /\ t.past = next
  BY <1>3
<1>12. Followed(t)
  BY <1>7, <1>8, <1>9, <1>10, <1>11 DEF Followed
<1> QED
  BY <1>11, <1>12 DEF t

LEMMA BornFollowed ==
  ASSUME NEW d \in Detections
  PROVE  Followed(Born(d)) /\ Born(d).matched = TRUE /\ Born(d).lost = 0
<1> DEFINE past == Append(<<>>, Outcome(d))
           sup == SupportedAgain(0, d)
           b == Born(d)
<1>1. /\ d.at \in Points /\ d.supported \in BOOLEAN
      /\ Outcome(d) \in Outcomes /\ Outcome(d) # "missed"
  BY OutcomeIs
<1>2. <<Outcome(d)>> = past /\ <<>> \in Seq(Outcomes)
  BY <1>1
<1>3. b = [at |-> d.at, age |-> 1, lost |-> 0, sup |-> sup, matched |-> TRUE, past |-> past]
  BY <1>2, Zenon DEF Born
<1>4. Hits(<<>>) = {} /\ Cardinality(Hits(<<>>)) = 0
  BY FS_EmptySet DEF Hits
<1>5. SupportIs(<<>>, 0)
  BY <1>4 DEF SupportIs
<1>6. GapFree(<<>>)
  BY PersistenceAssumption DEF GapFree
<1>7. past \in Seq(Outcomes)
  BY <1>1, <1>2, OneMore
<1>8. Cardinality(Hits(past)) = 1
  <2>1. Cardinality(Hits(past)) = Cardinality(Hits(<<>>)) + 1
    BY <1>1, <1>2, HitAppended
  <2> QED BY <1>4, <2>1
<1>9. SupportIs(past, sup) /\ sup \in Nat
  <2>0. SupportIs(Append(<<>>, "supported"), 0 + 1) /\ SupportIs(Append(<<>>, "seen"), 0)
    BY <1>2, <1>5, SupportGrows
  <2>1. CASE d.supported
    <3>1. sup = 0 + 1 /\ Outcome(d) = "supported"
      BY <2>1 DEF SupportedAgain, Outcome
    <3> QED BY <2>0, <3>1
  <2>2. CASE ~d.supported
    <3>1. sup = 0 /\ Outcome(d) = "seen"
      BY <2>2 DEF SupportedAgain, Outcome
    <3> QED BY <2>0, <3>1
  <2> QED BY <2>1, <2>2
<1>10. GapFree(past) /\ MissesAre(past, 0)
  BY <1>1, <1>2, <1>6, HitClosesGap
<1> HIDE DEF past, sup, b
<1>11. b \in GateTracks
  BY <1>1, <1>3, <1>7, <1>9 DEF GateTracks
<1>12. b.age = 1 /\ b.lost = 0 /\ b.sup = sup /\ b.matched = TRUE /\ b.past = past
  BY <1>3
<1>13. Followed(b)
  BY <1>8, <1>9, <1>10, <1>11, <1>12 DEF Followed
<1> QED
  BY <1>12, <1>13 DEF b

(* The detections of a frame, one after the other.                         *)
MidwayAll(trks) == trks \in Seq(GateTracks) /\ \A k \in DOMAIN trks : Midway(trks[k])
FollowedAll(trks) == trks \in Seq(GateTracks) /\ \A k \in DOMAIN trks : Followed(trks[k])

LEMMA AssignedKeeps ==
  ASSUME NEW trks, MidwayAll(trks), NEW d \in Detections
  PROVE  MidwayAll(Assigned(trks, d))
<1> DEFINE best == Continues(trks, d)
<1>0. trks \in Seq(GateTracks) /\ \A k \in DOMAIN trks : Midway(trks[k])
  BY DEF MidwayAll
<1>1. CASE best = {}
  <2>1. Assigned(trks, d) = Append(trks, Born(d))
    BY <1>1 DEF Assigned
  <2>2. Midway(Born(d)) /\ Born(d) \in GateTracks
    <3>1. Followed(Born(d)) /\ Born(d).matched = TRUE /\ Born(d).lost = 0
      BY BornFollowed
    <3> QED BY <3>1 DEF Midway, Followed
  <2>3. /\ Append(trks, Born(d)) \in Seq(GateTracks)
        /\ DOMAIN Append(trks, Born(d)) = 1 .. Len(trks) + 1
        /\ DOMAIN trks = 1 .. Len(trks) /\ Len(trks) \in Nat
        /\ \A k \in 1 .. Len(trks) : Append(trks, Born(d))[k] = trks[k]
        /\ Append(trks, Born(d))[Len(trks) + 1] = Born(d)
    BY <1>0, <2>2
  <2>4. \A k \in 1 .. Len(trks) + 1 : k \in 1 .. Len(trks) \/ k = Len(trks) + 1
    BY <2>3
  <2>5. \A k \in DOMAIN Append(trks, Born(d)) : Midway(Append(trks, Born(d))[k])
    BY <1>0, <2>2, <2>3, <2>4, Zenon
  <2> QED BY <2>1, <2>3, <2>5, Zenon DEF MidwayAll
<1>2. CASE best # {}
  <2> DEFINE next == [k \in DOMAIN trks |-> IF k \in best THEN Matched(trks[k], d) ELSE trks[k]]
  <2>1. Assigned(trks, d) = next
    BY <1>2 DEF Assigned
  <2>2. \A k \in best : k \in DOMAIN trks /\ ~trks[k].matched
    BY DEF Continues
  <2>3. ASSUME NEW k \in DOMAIN trks PROVE Midway(next[k]) /\ next[k] \in GateTracks
    <3>0. Midway(trks[k]) /\ trks[k] \in GateTracks
      BY <1>0 DEF Midway
    <3>1. CASE k \in best
      <4>1. PICK old : Followed(old) /\ trks[k] = Aging(old)
        BY <2>2, <3>0, <3>1 DEF Midway
      <4>2. next[k] = Matched(Aging(old), d)
        BY <3>1, <4>1
      <4>3. /\ Followed(Matched(Aging(old), d))
            /\ Matched(Aging(old), d).matched = TRUE /\ Matched(Aging(old), d).lost = 0
        BY <4>1, MatchedFollowed
      <4> HIDE DEF next
      <4>4. Followed(next[k]) /\ next[k].matched = TRUE /\ next[k].lost = 0
        BY <4>2, <4>3, Zenon
      <4> QED BY <4>4 DEF Midway, Followed
    <3>2. CASE k \notin best
      BY <3>0, <3>2
    <3> QED BY <3>1, <3>2
  <2>4. DOMAIN next = DOMAIN trks /\ DOMAIN trks = 1 .. Len(trks) /\ Len(trks) \in Nat
    BY <1>0
  <2>5. next \in [1 .. Len(trks) -> GateTracks]
    BY <2>3, <2>4
  <2> HIDE DEF next
  <2>6. next \in Seq(GateTracks)
    BY <2>4, <2>5
  <2>7. MidwayAll(next)
    BY <2>3, <2>4, <2>6, Zenon DEF MidwayAll
  <2> QED BY <2>1, <2>7
<1> QED
  BY <1>1, <1>2

LEMMA KeptKeeps ==
  ASSUME NEW trks, FollowedAll(trks), NEW t, Midway(t)
  PROVE  FollowedAll(KeptIfThere(trks, t))
<1>1. CASE t.lost <= MaxMissed
  <2>1. Followed(t)
    <3>1. CASE t.matched
      BY <3>1 DEF Midway
    <3>2. CASE ~t.matched
      <4>1. PICK old : Followed(old) /\ t = Aging(old)
        BY <3>2 DEF Midway
      <4> QED BY <1>1, <4>1, AgedFollowed
    <3> QED BY <3>1, <3>2
  <2>2. t \in GateTracks /\ trks \in Seq(GateTracks) /\ \A k \in DOMAIN trks : Followed(trks[k])
    BY <2>1 DEF Followed, FollowedAll
  <2>3. /\ Append(trks, t) \in Seq(GateTracks)
        /\ DOMAIN Append(trks, t) = 1 .. Len(trks) + 1
        /\ DOMAIN trks = 1 .. Len(trks) /\ Len(trks) \in Nat
        /\ \A k \in 1 .. Len(trks) : Append(trks, t)[k] = trks[k]
        /\ Append(trks, t)[Len(trks) + 1] = t
    BY <2>2
  <2>4. \A k \in 1 .. Len(trks) + 1 : k \in 1 .. Len(trks) \/ k = Len(trks) + 1
    BY <2>3
  <2>5. \A k \in DOMAIN Append(trks, t) : Followed(Append(trks, t)[k])
    BY <2>1, <2>2, <2>3, <2>4, Zenon
  <2> QED BY <1>1, <2>3, <2>5, Zenon DEF FollowedAll, KeptIfThere
<1>2. CASE ~(t.lost <= MaxMissed)
  BY <1>2 DEF KeptIfThere
<1> QED
  BY <1>1, <1>2

LEMMA TrackedFollowed ==
  ASSUME FollowedAll(pTracks), NEW dets \in Boxes
  PROVE  FollowedAll(Tracked(dets))
<1> DEFINE aged == [k \in DOMAIN pTracks |-> Aging(pTracks[k])]
           mid == FoldLeft(Assigned, aged, dets)
<1>1. dets \in Seq(Detections)
  <2>1. PICK n \in 0 .. MaxBoxes : dets \in [1 .. n -> Detections]
    BY DEF Boxes, Detections
  <2>2. n \in Nat
    BY PersistenceAssumption
  <2> QED BY <2>1, <2>2
<1>2. MidwayAll(aged)
  <2>1. pTracks \in Seq(GateTracks) /\ \A k \in DOMAIN pTracks : Followed(pTracks[k])
    BY DEF FollowedAll
  <2>2. DOMAIN pTracks = 1 .. Len(pTracks) /\ Len(pTracks) \in Nat
    BY <2>1
  <2>3. \A k \in DOMAIN pTracks :
          Midway(Aging(pTracks[k])) /\ Aging(pTracks[k]) \in GateTracks
    BY <2>1, AgingMidway
  <2>4. aged \in [1 .. Len(pTracks) -> GateTracks]
    BY <2>2, <2>3
  <2>5. \A k \in DOMAIN aged : Midway(aged[k])
    BY <2>3
  <2> HIDE DEF aged
  <2>6. aged \in Seq(GateTracks)
    BY <2>2, <2>4
  <2> QED BY <2>5, <2>6 DEF MidwayAll
<1> HIDE DEF aged
<1>3. MidwayAll(mid)
  <2>1. PICK run : Assigning!IsRun(run, aged, dets, Len(dets)) /\ mid = run[Len(dets)]
    BY <1>1, AssignedRuns
  <2> DEFINE S == {k \in 0 .. Len(dets) : MidwayAll(run[k])}
  <2>2. Len(dets) \in Nat /\ \A k \in 1 .. Len(dets) : dets[k] \in Detections
    BY <1>1
  <2>3. 0 \in S
    BY <1>2, <2>1, <2>2 DEF Assigning!IsRun
  <2>4. ASSUME NEW k \in 1 .. Len(dets), k - 1 \in S PROVE k \in S
    <3>1. run[k] = Assigned(run[k - 1], dets[k])
      BY <2>1 DEF Assigning!IsRun
    <3>2. MidwayAll(run[k - 1])
      BY <2>4
    <3>3. MidwayAll(Assigned(run[k - 1], dets[k]))
      BY <2>2, <3>2, AssignedKeeps
    <3> QED BY <2>2, <3>1, <3>3
  <2>5. \A k \in 0 .. Len(dets) : k \in S
    <3> HIDE DEF S
    <3> QED BY <2>2, <2>3, <2>4, Assigning!ClimbTo
  <2>6. Len(dets) \in S
    BY <2>2, <2>5
  <2> QED BY <2>1, <2>6
<1>4. Tracked(dets) = FoldLeft(KeptIfThere, <<>>, mid)
  BY Zenon DEF Tracked, mid, aged
<1> HIDE DEF mid
<1>5. mid \in Seq(GateTracks) /\ \A k \in DOMAIN mid : Midway(mid[k])
  BY <1>3 DEF MidwayAll
<1>6. PICK run : Keeping!IsRun(run, <<>>, mid, Len(mid)) /\ Tracked(dets) = run[Len(mid)]
  BY <1>4, <1>5, KeptRuns
<1> DEFINE S == {k \in 0 .. Len(mid) : FollowedAll(run[k])}
<1>7. Len(mid) \in Nat /\ DOMAIN mid = 1 .. Len(mid)
  BY <1>5
<1>8. 0 \in S
  <2>1. FollowedAll(<<>>)
    BY DEF FollowedAll
  <2> QED BY <1>6, <1>7, <2>1 DEF Keeping!IsRun
<1>9. ASSUME NEW k \in 1 .. Len(mid), k - 1 \in S PROVE k \in S
  <2>1. run[k] = KeptIfThere(run[k - 1], mid[k])
    BY <1>6 DEF Keeping!IsRun
  <2>2. FollowedAll(run[k - 1]) /\ Midway(mid[k])
    BY <1>5, <1>7, <1>9
  <2>3. FollowedAll(KeptIfThere(run[k - 1], mid[k]))
    BY <2>2, KeptKeeps
  <2> QED BY <1>7, <2>1, <2>3
<1>10. \A k \in 0 .. Len(mid) : k \in S
  <2> HIDE DEF S
  <2> QED BY <1>7, <1>8, <1>9, Keeping!ClimbTo
<1>11. Len(mid) \in S
  BY <1>7, <1>10
<1> QED
  BY <1>6, <1>11

LEMMA SearchKeeps ==
  ASSUME GateInv, NEW dets \in Boxes, Search(dets)
  PROVE  GateInv'
<1> DEFINE trks == Tracked(dets)
           found == {k \in DOMAIN trks : Confirms(trks[k])}
<1>1. ~pLock.locked /\ FollowedAll(pTracks)
  BY DEF GateInv, Search, FollowedAll
<1>2. FollowedAll(trks)
  BY <1>1, TrackedFollowed
<1>3. trks \in Seq(GateTracks) /\ \A k \in DOMAIN trks : Followed(trks[k])
  BY <1>2 DEF FollowedAll
<1>4. IF found = {} THEN pTracks' = trks /\ pLock' = pLock /\ pTarget' = NoPoint
      ELSE /\ pTracks' = <<>>
           /\ pLock' = [locked |-> TRUE, at |-> trks[Min(found)].at, lost |-> 0,
                        past |-> trks[Min(found)].past]
           /\ pTarget' = trks[Min(found)].at
  BY Zenon DEF Search
<1>5. CASE found = {}
  <2>1. pTracks' = trks /\ pLock' = pLock
    BY <1>4, <1>5
  <2>2. \A k \in DOMAIN trks : Followed(trks[k]) /\ ~Confirms(trks[k])
    BY <1>3, <1>5
  <2> HIDE DEF trks, found
  <2> QED BY <1>1, <1>3, <2>1, <2>2 DEF GateInv
<1>6. CASE found # {}
  <2> DEFINE past == trks[Min(found)].past
  <2>1. /\ pTracks' = <<>>
        /\ pLock' = [locked |-> TRUE, at |-> trks[Min(found)].at, lost |-> 0, past |-> past]
    BY <1>4, <1>6
  <2>2. Min(found) \in found
    <3>1. DOMAIN trks = 1 .. Len(trks) /\ Len(trks) \in Nat
      BY <1>3
    <3> HIDE DEF trks
    <3>2. found \in SUBSET Nat
      BY <3>1
    <3> HIDE DEF found
    <3>3. \E m \in found : \A k \in found : m <= k
      BY <1>6, <3>2, Assigning!LeastOf
    <3> QED BY <3>3 DEF Min
  <2> HIDE DEF trks
  <2>3. Followed(trks[Min(found)]) /\ Confirms(trks[Min(found)])
    BY <1>3, <2>2
  <2>4. Earned(past)
    BY <2>3, DueWhenEarned
  <2> HIDE DEF past, found
  <2>5. DOMAIN pLock' = {"locked", "at", "lost", "past"} /\ pLock'.locked = TRUE
        /\ pLock'.past = past
    BY <2>1
  <2> QED BY <2>1, <2>4, <2>5 DEF GateInv
<1> QED
  BY <1>5, <1>6

LEMMA FollowKeeps ==
  ASSUME GateInv, NEW dets \in Boxes, Follow(dets)
  PROVE  GateInv'
<1>1. /\ pLock.locked /\ Earned(pLock.past) /\ pTracks = <<>> /\ pTracks' = pTracks
      /\ DOMAIN pLock = {"locked", "at", "lost", "past"}
  BY DEF GateInv, Follow
<1> DEFINE Kept == /\ DOMAIN pLock' = {"locked", "at", "lost", "past"}
                   /\ pLock'.locked = pLock.locked /\ pLock'.past = pLock.past
<1>2. Kept \/ pLock' = Unlocked
  <2>1. ASSUME NEW a, NEW l, pLock' = [pLock EXCEPT !.at = a, !.lost = l] PROVE Kept
    BY <1>1, <2>1
  <2>2. ASSUME pLock' = [pLock EXCEPT !.lost = @ + 1] PROVE Kept
    BY <1>1, <2>2
  <2>3. \/ \E a : pLock' = [pLock EXCEPT !.at = a, !.lost = 0]
        \/ pLock' = [pLock EXCEPT !.lost = @ + 1]
        \/ pLock' = Unlocked
    <3> DEFINE best == FoldLeft(Nearer, [at |-> pLock.at, dist |-> AssocDist], dets)
    <3>1. \/ pLock' = [pLock EXCEPT !.at = best.at, !.lost = 0]
          \/ pLock' = IF pLock.lost + 1 > MaxMissed THEN Unlocked
                      ELSE [pLock EXCEPT !.lost = @ + 1]
      BY Zenon DEF Follow
    <3> HIDE DEF best
    <3> QED BY <3>1
  <2> QED BY <2>1, <2>2, <2>3
<1>3. CASE Kept
  BY <1>1, <1>3 DEF GateInv
<1>4. CASE pLock' = Unlocked
  BY <1>1, <1>4 DEF GateInv, Unlocked
<1> QED
  BY <1>2, <1>3, <1>4

LEMMA GateStep == GateInv /\ [GateNext]_gateVars => GateInv'
<1> SUFFICES ASSUME GateInv, [GateNext]_gateVars PROVE GateInv'
  OBVIOUS
<1>1. ASSUME NEW dets \in Boxes, Search(dets) PROVE GateInv'
  BY <1>1, SearchKeeps
<1>2. ASSUME NEW dets \in Boxes, Follow(dets) PROVE GateInv'
  BY <1>2, FollowKeeps
<1>3. CASE GateReset
  BY <1>3 DEF GateReset, GateInv, Unlocked
<1>4. CASE UNCHANGED gateVars
  <2>1. pTracks' = pTracks /\ pLock' = pLock
    BY <1>4 DEF gateVars
  <2> QED BY <2>1 DEF GateInv
<1> QED
  BY <1>1, <1>2, <1>3, <1>4 DEF GateNext

(***************************************************************************)
(* A lock of the library's gate was earned, frame by frame, and no track   *)
(* that has earned one waits for it, for every setting of the gate and     *)
(* whichever tracks lay near each other.                                   *)
(***************************************************************************)
THEOREM GateLocksAreEarned == GateSpec => []GateEarned
<1>1. GateInit => GateInv
  BY DEF GateInit, GateInv, Unlocked
<1>2. GateInv => GateEarned
  <2> SUFFICES ASSUME GateInv PROVE GateEarned
    OBVIOUS
  <2>1. \A k \in DOMAIN pTracks : ~Earned(pTracks[k].past)
    BY DueWhenEarned DEF GateInv
  <2> QED BY <2>1 DEF GateInv, GateEarned
<1> QED
  BY <1>1, <1>2, GateStep, PTL DEF GateSpec

-----------------------------------------------------------------------------
(***************************************************************************)
(* The resources of the elements (Setup).  Ten fixed lists say what each   *)
(* step takes; the proof is about any list that is made of pieces with     *)
(* nothing in common, and about how far along it an owner is.              *)
(***************************************************************************)

(* The steps of a list take these things, no two of them the same one.     *)
Piece(s, taking) ==
  /\ s \in Seq(SUBSET taking)
  /\ \A i, j \in 1 .. Len(s) : s[i] \intersect s[j] # {} => i = j
  /\ \A r \in taking : \E i \in 1 .. Len(s) : r \in s[i]

LEMMA NoPiece == Piece(<<>>, {})
BY DEF Piece

LEMMA OnePiece == ASSUME NEW S PROVE Piece(<<S>>, S)
<1>1. <<S>> \in Seq(SUBSET S)
  OBVIOUS
<1>2. Len(<<S>>) = 1 /\ <<S>>[1] = S
  OBVIOUS
<1> QED
  BY <1>1, <1>2 DEF Piece

LEMMA CheckPiece == Piece(Check, {})
BY OnePiece DEF Check

(* A list of names, each another one.                                      *)
Names(q, names) ==
  /\ q \in Seq(names)
  /\ \A i, j \in 1 .. Len(q) : q[i] = q[j] => i = j
  /\ \A r \in names : \E i \in 1 .. Len(q) : q[i] = r

LEMMA EachPiece ==
  ASSUME NEW q, NEW names, Names(q, names)
  PROVE  Piece(Each(q), names)
<1>1. /\ q \in Seq(names) /\ DOMAIN q = 1 .. Len(q) /\ Len(q) \in Nat
      /\ \A i \in 1 .. Len(q) : q[i] \in names
  BY DEF Names
<1>2. Each(q) = [i \in 1 .. Len(q) |-> {q[i]}]
  BY <1>1 DEF Each
<1>3. Each(q) \in [1 .. Len(q) -> SUBSET names]
  BY <1>1, <1>2
<1>4. Each(q) \in Seq(SUBSET names) /\ Len(Each(q)) = Len(q)
  BY <1>1, <1>2, <1>3
<1>5. \A i \in 1 .. Len(q) : Each(q)[i] = {q[i]}
  BY <1>2
<1>6. ASSUME NEW i \in 1 .. Len(q), NEW j \in 1 .. Len(q),
             Each(q)[i] \intersect Each(q)[j] # {}
      PROVE  i = j
  <2>1. q[i] = q[j]
    BY <1>5, <1>6
  <2> QED BY <2>1 DEF Names
<1>7. ASSUME NEW r \in names PROVE \E i \in 1 .. Len(q) : r \in Each(q)[i]
  <2>1. PICK i \in 1 .. Len(q) : q[i] = r
    BY DEF Names
  <2> QED BY <1>5, <2>1
<1> QED
  BY <1>4, <1>6, <1>7 DEF Piece

LEMMA JoinIs ==
  ASSUME NEW s, NEW t, NEW S, NEW T, s \in Seq(SUBSET S), t \in Seq(SUBSET T)
  PROVE  /\ s \o t \in Seq(SUBSET (S \union T))
         /\ Len(s) \in Nat /\ Len(t) \in Nat /\ Len(s \o t) = Len(s) + Len(t)
         /\ \A i \in 1 .. Len(s) : (s \o t)[i] = s[i]
         /\ \A i \in 1 .. Len(t) : (s \o t)[Len(s) + i] = t[i]
<1>1. ASSUME NEW x, NEW X, x \in Seq(SUBSET X), X \subseteq S \union T
      PROVE  x \in Seq(SUBSET (S \union T)) /\ Len(x) \in Nat
  <2>1. Len(x) \in Nat /\ x \in [1 .. Len(x) -> SUBSET X]
    BY <1>1
  <2>2. x \in [1 .. Len(x) -> SUBSET (S \union T)]
    BY <1>1, <2>1
  <2> QED BY <2>1, <2>2
<1>2. /\ s \in Seq(SUBSET (S \union T)) /\ t \in Seq(SUBSET (S \union T))
      /\ Len(s) \in Nat /\ Len(t) \in Nat
  BY <1>1
<1> QED
  BY <1>2

LEMMA JoinPieces ==
  ASSUME NEW s, NEW t, NEW S, NEW T, Piece(s, S), Piece(t, T), S \intersect T = {}
  PROVE  Piece(s \o t, S \union T)
<1> DEFINE q == s \o t
<1>1. /\ q \in Seq(SUBSET (S \union T)) /\ Len(q) = Len(s) + Len(t)
      /\ Len(s) \in Nat /\ Len(t) \in Nat
  BY JoinIs DEF Piece
<1>2. Len(q) = Len(s) + Len(t)
  BY <1>1
<1>3. /\ \A i \in 1 .. Len(s) : q[i] = s[i]
      /\ \A i \in 1 .. Len(t) : q[Len(s) + i] = t[i]
  BY JoinIs DEF Piece
<1>4. ASSUME NEW i \in 1 .. Len(q)
      PROVE  \/ i \in 1 .. Len(s) /\ q[i] = s[i]
             \/ i - Len(s) \in 1 .. Len(t) /\ q[i] = t[i - Len(s)]
  <2>1. CASE i <= Len(s)
    BY <1>1, <1>3, <2>1
  <2>2. CASE i > Len(s)
    <3>1. i - Len(s) \in 1 .. Len(t) /\ i = Len(s) + (i - Len(s))
      BY <1>1, <1>2, <2>2
    <3> QED BY <1>3, <3>1
  <2> QED BY <1>1, <2>1, <2>2
<1> HIDE DEF q
<1>5. ASSUME NEW i \in 1 .. Len(q)
      PROVE  \/ i \in 1 .. Len(s) /\ q[i] = s[i] /\ q[i] \subseteq S
             \/ i - Len(s) \in 1 .. Len(t) /\ q[i] = t[i - Len(s)] /\ q[i] \subseteq T
  BY <1>4 DEF Piece
<1>6. ASSUME NEW i \in 1 .. Len(q), NEW j \in 1 .. Len(q), q[i] \intersect q[j] # {}
      PROVE  i = j
  <2>1. CASE /\ i \in 1 .. Len(s) /\ q[i] = s[i]
             /\ j \in 1 .. Len(s) /\ q[j] = s[j]
    BY <1>6, <2>1 DEF Piece
  <2>2. CASE /\ i - Len(s) \in 1 .. Len(t) /\ q[i] = t[i - Len(s)]
             /\ j - Len(s) \in 1 .. Len(t) /\ q[j] = t[j - Len(s)]
    <3>1. i - Len(s) = j - Len(s)
      BY <1>6, <2>2 DEF Piece
    <3> QED BY <1>1, <3>1
  <2>3. ~(q[i] \subseteq S /\ q[j] \subseteq T) /\ ~(q[j] \subseteq S /\ q[i] \subseteq T)
    BY <1>6
  <2> QED BY <1>5, <2>1, <2>2, <2>3
<1>7. ASSUME NEW r
      PROVE  r \in S \union T => \E i \in 1 .. Len(q) : r \in q[i]
  <2>2. ASSUME r \in S PROVE \E i \in 1 .. Len(q) : r \in q[i]
    <3>1. PICK i \in 1 .. Len(s) : r \in s[i]
      BY <2>2 DEF Piece
    <3>2. i \in 1 .. Len(q)
      BY <1>1, <1>2
    <3> QED BY <1>3, <3>1, <3>2 DEF q
  <2>3. ASSUME r \in T PROVE \E i \in 1 .. Len(q) : r \in q[i]
    <3>1. PICK i \in 1 .. Len(t) : r \in t[i]
      BY <2>3 DEF Piece
    <3>2. Len(s) + i \in 1 .. Len(q)
      BY <1>1, <1>2
    <3> QED BY <1>3, <3>1, <3>2 DEF q
  <2> QED BY <2>2, <2>3
<1> QED
  BY <1>1, <1>6, <1>7 DEF Piece, q



LEMMA ThenPiece ==
  ASSUME NEW s, NEW t, NEW S, NEW T, NEW all, Piece(s, S), Piece(t, T),
         S \intersect T = {}, all = S \union T
  PROVE  Piece(s \o t, all)
BY JoinPieces

LEMMA ThenCheck ==
  ASSUME NEW s, NEW S, Piece(s, S)
  PROVE  Piece(s \o Check, S) /\ Piece(Check \o s, S)
BY ThenPiece, CheckPiece

LEMMA OneName == ASSUME NEW x PROVE Piece(Each(<<x>>), {x})
<1>1. <<x>> \in Seq({x})
  OBVIOUS
<1>2. Len(<<x>>) = 1 /\ <<x>>[1] = x
  OBVIOUS
<1>3. Names(<<x>>, {x})
  BY <1>1, <1>2 DEF Names
<1> QED
  BY <1>3, EachPiece

(* The preprocessors, and with them nvmminfer and nvmmsecondaryinfer.      *)
SurfaceTakes == {"rgba", "eglImage", "egl_res", "rgba_lin", "planes"}
LEMMA SurfacePiece ==
  Piece(Each(<<"rgba", "eglImage", "egl_res", "rgba_lin", "planes">>),
               SurfaceTakes)
<1>1. Names(<<"rgba", "eglImage", "egl_res", "rgba_lin", "planes">>,
              SurfaceTakes)
  BY DEF Names, SurfaceTakes
<1> QED
  BY <1>1, EachPiece

LEMMA PrePiece == Piece(PreSteps, PreFrees)
<1>1. SurfaceTakes = PreFrees
  BY DEF SurfaceTakes, PreFrees
<1> QED
  BY <1>1, SurfacePiece, ThenCheck DEF PreSteps

LEMMA RoiPiece == Piece(RoiSteps, RoiFrees)
<1>1. SurfaceTakes = RoiFrees
  BY DEF SurfaceTakes, RoiFrees
<1> QED
  BY <1>1, SurfacePiece, ThenCheck DEF RoiSteps

InferTakes == {"stream", "engine", "d_input", "d_output"} \union Events
LEMMA InferPiece == Piece(InferStart, InferTakes)
<1> DEFINE a1 == Check
           a2 == a1 \o Each(<<"stream">>)
           a3 == a2 \o <<Events>>
           a4 == a3 \o LoadFile("engine")
           a5 == a4 \o Check
           a6 == a5 \o <<{"d_input", "d_output"}>>
           a7 == a6 \o Check
<1>1. Piece(a1, {})
  BY CheckPiece
<1>2. Piece(a2, {"stream"})
  BY ThenCheck, OneName
<1>3. Piece(a3, {"stream"} \union Events)
  BY <1>2, OnePiece, JoinPieces DEF Events
<1>4. Piece(a4, {"stream"} \union Events \union {"engine"})
  BY <1>3, OneName, JoinPieces DEF LoadFile, Events
<1>5. Piece(a5, {"stream"} \union Events \union {"engine"})
  BY <1>4, ThenCheck
<1>6. Piece(a6, {"stream"} \union Events \union {"engine"}
                \union {"d_input", "d_output"})
  BY <1>5, OnePiece, JoinPieces DEF Events
<1>7. Piece(a7, {"stream"} \union Events \union {"engine"}
                \union {"d_input", "d_output"})
  BY <1>6, ThenCheck
<1>8. {"stream"} \union Events \union {"engine"}
        \union {"d_input", "d_output"} = InferTakes
  BY DEF InferTakes
<1> QED
  BY <1>7, <1>8 DEF InferStart

SecondaryTakes == {"stream", "engine", "d_input", "d_output",
                   "cache"} \union RoiFrees
LEMMA SecondaryPiece == Piece(SecondaryStart, SecondaryTakes)
<1> DEFINE a1 == Check
           a2 == a1 \o Each(<<"stream">>)
           a3 == a2 \o LoadFile("engine")
           a4 == a3 \o Check
           a5 == a4 \o <<{"d_input", "d_output"}>>
           a6 == a5 \o Check
           a7 == a6 \o RoiSteps
           a8 == a7 \o Each(<<"cache">>)
<1>1. Piece(a1, {})
  BY CheckPiece
<1>2. Piece(a2, {"stream"})
  BY ThenCheck, OneName
<1>3. Piece(a3, {"stream"} \union {"engine"})
  BY <1>2, OneName, JoinPieces DEF LoadFile
<1>4. Piece(a4, {"stream"} \union {"engine"})
  BY <1>3, ThenCheck
<1>5. Piece(a5, {"stream"} \union {"engine"} \union {"d_input", "d_output"})
  BY <1>4, OnePiece, JoinPieces
<1>6. Piece(a6, {"stream"} \union {"engine"} \union {"d_input", "d_output"})
  BY <1>5, ThenCheck
<1>7. Piece(a7, {"stream"} \union {"engine"}
                \union {"d_input", "d_output"} \union RoiFrees)
  BY <1>6, RoiPiece, JoinPieces DEF RoiFrees
<1>8. Piece(a8, {"stream"} \union {"engine"}
                \union {"d_input", "d_output"} \union RoiFrees
                  \union {"cache"})
  BY <1>7, OneName, JoinPieces DEF RoiFrees
<1>9. {"stream"} \union {"engine"} \union {"d_input", "d_output"}
        \union RoiFrees \union {"cache"} = SecondaryTakes
  BY DEF SecondaryTakes
<1> QED
  BY <1>8, <1>9 DEF SecondaryStart

(* nvmmsamurai.                                                            *)
EngineTakes == {"stream", "encoder", "prompt", "decoder", "mem_encoder",
                "mem_attn"} \union PreFrees
LEMMA EnginePiece == Piece(EngineSteps, EngineTakes)
<1> DEFINE a1 == Each(<<"stream">>)
           a2 == a1 \o LoadFile("encoder")
           a3 == a2 \o LoadFile("prompt")
           a4 == a3 \o LoadFile("decoder")
           a5 == a4 \o LoadFile("mem_encoder")
           a6 == a5 \o LoadFile("mem_attn")
           a7 == a6 \o PreSteps
<1>1. Piece(a1, {"stream"})
  BY OneName
<1>2. Piece(a2, {"stream"} \union {"encoder"})
  BY <1>1, OneName, JoinPieces DEF LoadFile
<1>3. Piece(a3, {"stream"} \union {"encoder"} \union {"prompt"})
  BY <1>2, OneName, JoinPieces DEF LoadFile
<1>4. Piece(a4, {"stream"} \union {"encoder"} \union {"prompt"}
                \union {"decoder"})
  BY <1>3, OneName, JoinPieces DEF LoadFile
<1>5. Piece(a5, {"stream"} \union {"encoder"} \union {"prompt"}
                \union {"decoder"} \union {"mem_encoder"})
  BY <1>4, OneName, JoinPieces DEF LoadFile
<1>6. Piece(a6, {"stream"} \union {"encoder"} \union {"prompt"}
                \union {"decoder"} \union {"mem_encoder"} \union {"mem_attn"})
  BY <1>5, OneName, JoinPieces DEF LoadFile
<1>7. Piece(a7, {"stream"} \union {"encoder"} \union {"prompt"}
                \union {"decoder"} \union {"mem_encoder"}
                  \union {"mem_attn"} \union PreFrees)
  BY <1>6, PrePiece, JoinPieces DEF PreFrees
<1>8. {"stream"} \union {"encoder"} \union {"prompt"}
        \union {"decoder"} \union {"mem_encoder"} \union {"mem_attn"}
          \union PreFrees = EngineTakes
  BY DEF EngineTakes
<1> QED
  BY <1>7, <1>8 DEF EngineSteps

OutsTakes == {"out3", "out4", "out5", "out6"}
LEMMA OutsPiece ==
  Piece(Each(EncoderOuts), OutsTakes) /\ ToSet(EncoderOuts) = OutsTakes
<1> DEFINE q == EncoderOuts
<1>1. Names(q, OutsTakes)
  BY DEF Names, OutsTakes, EncoderOuts
<1>2. DOMAIN q = 1 .. 4
  BY DEF EncoderOuts
<1>3. \A x : x \in ToSet(q) <=> x \in OutsTakes
  BY <1>2 DEF ToSet, OutsTakes, EncoderOuts
<1> QED
  BY <1>1, <1>3, EachPiece

EncoderTakes == {"d_crop"} \union OutsTakes
LEMMA EncoderPiece == Piece(EncoderSteps, EncoderTakes)
<1> DEFINE a1 == Each(<<"d_crop">>)
           a2 == a1 \o Check
           a3 == a2 \o Each(EncoderOuts)
           a4 == a3 \o Check
<1>1. Piece(a1, {"d_crop"})
  BY OneName
<1>2. Piece(a2, {"d_crop"})
  BY <1>1, ThenCheck
<1>3. Piece(a3, {"d_crop"} \union OutsTakes)
  BY <1>2, OutsPiece, JoinPieces DEF OutsTakes
<1>4. Piece(a4, {"d_crop"} \union OutsTakes)
  BY <1>3, ThenCheck
<1>5. {"d_crop"} \union OutsTakes = EncoderTakes
  BY DEF EncoderTakes
<1> QED
  BY <1>4, <1>5 DEF EncoderSteps

FixedTakes == {"d_coords", "d_psparse", "d_pdense", "d_image_pe",
               "d_dense_const", "d_empty_sparse", "d_dec_embed"}
LEMMA FixedPiece ==
  Piece(Each(<<"d_coords", "d_psparse", "d_pdense", "d_image_pe",
               "d_dense_const", "d_empty_sparse", "d_dec_embed">>), FixedTakes)
<1>1. Names(<<"d_coords", "d_psparse", "d_pdense", "d_image_pe",
              "d_dense_const", "d_empty_sparse", "d_dec_embed">>, FixedTakes)
  BY DEF Names, FixedTakes
<1> QED
  BY <1>1, EachPiece

ConstTakes == FixedTakes
LEMMA ConstPiece == Piece(ConstSteps, ConstTakes)
<1> DEFINE a1 == Check
           a2 == a1 \o Each(<<"d_coords", "d_psparse", "d_pdense",
                              "d_image_pe", "d_dense_const", "d_empty_sparse", "d_dec_embed">>)
<1>1. Piece(a1, {})
  BY CheckPiece
<1>2. Piece(a2, FixedTakes)
  BY ThenCheck, FixedPiece
<1>3. FixedTakes = ConstTakes
  BY DEF ConstTakes
<1> QED
  BY <1>2, <1>3 DEF ConstSteps

KernelTakes == {"d_no_mem", "d_high", "d_box", "d_cond_maskmem", "d_mm_ptrs",
                "d_objptr_packed", "d_pos_list", "d_const_maskmem_pos",
                "d_tpos", "d_tposproj_w", "d_tposproj_b", "d_ring_bufs"}
LEMMA KernelPiece == Piece(KernelSteps, KernelTakes)
<1>1. Names(<<"d_no_mem", "d_high", "d_box", "d_cond_maskmem", "d_mm_ptrs",
              "d_objptr_packed", "d_pos_list", "d_const_maskmem_pos",
              "d_tpos", "d_tposproj_w", "d_tposproj_b", "d_ring_bufs">>, KernelTakes)
  BY DEF Names, KernelTakes
<1> QED
  BY <1>1, EachPiece DEF KernelSteps

MotionTakes == {"gmc_surf", "gmc_estimator"}
LEMMA MotionPiece == Piece(MotionSteps, MotionTakes)
<1>1. Names(<<"gmc_surf", "gmc_estimator">>, MotionTakes)
  BY DEF Names, MotionTakes
<1> QED
  BY <1>1, EachPiece DEF MotionSteps

MaskTakes == {"d_dmasks", "d_dious", "d_dtokens", "d_dobj", "d_mem_mask"}
LEMMA MaskPiece ==
  Piece(Each(<<"d_dmasks", "d_dious", "d_dtokens", "d_dobj",
               "d_mem_mask">>), MaskTakes)
<1>1. Names(<<"d_dmasks", "d_dious", "d_dtokens", "d_dobj", "d_mem_mask">>,
              MaskTakes)
  BY DEF Names, MaskTakes
<1> QED
  BY <1>1, EachPiece

AttnTakes == {"d_maskmem_feat", "d_maskmem_pos", "d_ma_curr", "d_ma_memory",
              "d_ma_curr_pos", "d_ma_memory_pos", "d_ma_attn"}
LEMMA AttnPiece ==
  Piece(Each(<<"d_maskmem_feat", "d_maskmem_pos", "d_ma_curr",
               "d_ma_memory", "d_ma_curr_pos", "d_ma_memory_pos", "d_ma_attn">>), AttnTakes)
<1>1. Names(<<"d_maskmem_feat", "d_maskmem_pos", "d_ma_curr", "d_ma_memory",
              "d_ma_curr_pos", "d_ma_memory_pos", "d_ma_attn">>, AttnTakes)
  BY DEF Names, AttnTakes
<1> QED
  BY <1>1, EachPiece

DecoderTakes == MaskTakes \union AttnTakes
LEMMA DecoderPiece == Piece(DecoderSteps, DecoderTakes)
<1> DEFINE a1 == Check
           a2 == a1 \o Each(<<"d_dmasks", "d_dious", "d_dtokens", "d_dobj",
                              "d_mem_mask">>)
           a3 == a2 \o Check
           a4 == a3 \o Each(<<"d_maskmem_feat", "d_maskmem_pos",
                              "d_ma_curr", "d_ma_memory", "d_ma_curr_pos", "d_ma_memory_pos", "d_ma_attn">>)
<1>1. Piece(a1, {})
  BY CheckPiece
<1>2. Piece(a2, MaskTakes)
  BY ThenCheck, MaskPiece
<1>3. Piece(a3, MaskTakes)
  BY <1>2, ThenCheck
<1>4. Piece(a4, MaskTakes \union AttnTakes)
  BY <1>3, AttnPiece, JoinPieces DEF MaskTakes, AttnTakes
<1>5. MaskTakes \union AttnTakes = DecoderTakes
  BY DEF DecoderTakes
<1> QED
  BY <1>4, <1>5 DEF DecoderSteps

SamuraiTakes == EngineTakes \union EncoderTakes \union ConstTakes
  \union KernelTakes \union MotionTakes
                \union DecoderTakes
LEMMA SamuraiPiece == Piece(Starting["samurai"], SamuraiTakes)
<1> DEFINE a1 == EngineSteps
           a2 == a1 \o EncoderSteps
           a3 == a2 \o ConstSteps
           a4 == a3 \o KernelSteps
           a5 == a4 \o MotionSteps
           a6 == a5 \o DecoderSteps
<1>1. Piece(a1, EngineTakes)
  BY EnginePiece
<1>2. Piece(a2, EngineTakes \union EncoderTakes)
  BY <1>1, EncoderPiece, JoinPieces DEF EngineTakes, PreFrees, EncoderTakes,
     OutsTakes
<1>3. Piece(a3, EngineTakes \union EncoderTakes \union ConstTakes)
  BY <1>2, ConstPiece, JoinPieces DEF EngineTakes, PreFrees, EncoderTakes,
     OutsTakes, ConstTakes, FixedTakes
<1>4. Piece(a4, EngineTakes \union EncoderTakes \union ConstTakes
                \union KernelTakes)
  BY <1>3, KernelPiece, JoinPieces DEF EngineTakes, PreFrees, EncoderTakes,
     OutsTakes, ConstTakes, FixedTakes, KernelTakes
<1>5. Piece(a5, EngineTakes \union EncoderTakes \union ConstTakes
                \union KernelTakes \union MotionTakes)
  BY <1>4, MotionPiece, JoinPieces DEF EngineTakes, PreFrees, EncoderTakes,
     OutsTakes, ConstTakes, FixedTakes, KernelTakes, MotionTakes
<1>6. Piece(a6, EngineTakes \union EncoderTakes \union ConstTakes
                \union KernelTakes \union MotionTakes \union DecoderTakes)
  BY <1>5, DecoderPiece, JoinPieces DEF EngineTakes, PreFrees, EncoderTakes,
     OutsTakes, ConstTakes, FixedTakes, KernelTakes, MotionTakes, DecoderTakes,
     MaskTakes, AttnTakes
<1>7. EngineTakes \union EncoderTakes \union ConstTakes
        \union KernelTakes \union MotionTakes
          \union DecoderTakes = SamuraiTakes
  BY DEF SamuraiTakes
<1> QED
  BY <1>6, <1>7 DEF Starting

(* The others.                                                             *)
ConfigureTakes == {"stream", "payload", "mv"}
LEMMA ConfigurePiece == Piece(OfaConfigure, ConfigureTakes)
<1>1. Names(<<"stream", "payload", "mv">>, ConfigureTakes)
  BY DEF Names, ConfigureTakes
<1> QED
  BY <1>1, EachPiece DEF OfaConfigure

OfaTakes == {"prev", "prev_buf"} \union ConfigureTakes
LEMMA OfaPiece == Piece(OfaFrames, OfaTakes)
<1> DEFINE a1 == <<{"prev", "prev_buf"}>>
           a2 == a1 \o OfaConfigure
<1>1. Piece(a1, {"prev", "prev_buf"})
  BY OnePiece
<1>2. Piece(a2, {"prev", "prev_buf"} \union ConfigureTakes)
  BY <1>1, ConfigurePiece, JoinPieces DEF ConfigureTakes
<1>3. {"prev", "prev_buf"} \union ConfigureTakes = OfaTakes
  BY DEF OfaTakes
<1> QED
  BY <1>2, <1>3 DEF OfaFrames

BufferTakes == {"cs", "stream", "fft", "ifft", "d_yp", "d_yc", "d_hann",
                "d_prevwin", "d_currwin", "d_aspec", "d_bspec", "d_corr"}
LEMMA BufferPiece ==
  Piece(Each(<<"cs", "stream", "fft", "ifft", "d_yp", "d_yc", "d_hann",
               "d_prevwin", "d_currwin", "d_aspec", "d_bspec", "d_corr">>), BufferTakes)
<1>1. Names(<<"cs", "stream", "fft", "ifft", "d_yp", "d_yc", "d_hann",
              "d_prevwin", "d_currwin", "d_aspec", "d_bspec", "d_corr">>, BufferTakes)
  BY DEF Names, BufferTakes
<1> QED
  BY <1>1, EachPiece

ImageTakes == {"img_prevwin", "img_currwin", "img_aspec", "img_bspec",
               "img_corr"}
LEMMA ImagePiece ==
  Piece(Each(<<"img_prevwin", "img_currwin", "img_aspec", "img_bspec",
               "img_corr">>), ImageTakes)
<1>1. Names(<<"img_prevwin", "img_currwin", "img_aspec", "img_bspec",
              "img_corr">>, ImageTakes)
  BY DEF Names, ImageTakes
<1> QED
  BY <1>1, EachPiece

FftTakes == BufferTakes \union ImageTakes
LEMMA FftPiece == Piece(FftSteps, FftTakes)
<1> DEFINE a1 == Each(<<"cs", "stream", "fft", "ifft", "d_yp", "d_yc",
                        "d_hann", "d_prevwin", "d_currwin", "d_aspec", "d_bspec", "d_corr">>)
           a2 == a1 \o Check
           a3 == a2 \o Each(<<"img_prevwin", "img_currwin", "img_aspec",
                              "img_bspec", "img_corr">>)
<1>1. Piece(a1, BufferTakes)
  BY BufferPiece
<1>2. Piece(a2, BufferTakes)
  BY <1>1, ThenCheck
<1>3. Piece(a3, BufferTakes \union ImageTakes)
  BY <1>2, ImagePiece, JoinPieces DEF BufferTakes, ImageTakes
<1>4. BufferTakes \union ImageTakes = FftTakes
  BY DEF FftTakes
<1> QED
  BY <1>3, <1>4 DEF FftSteps

PvaTakes == {"stream", "prev_u8", "cur_u8", "prev_s16", "harris", "lk",
             "kp_prev", "scores", "kp_cur", "status", "pyr_p", "pyr_c"}
LEMMA PvaPiece == Piece(PvaSteps, PvaTakes)
<1>1. Names(<<"stream", "prev_u8", "cur_u8", "prev_s16", "harris", "lk",
              "kp_prev", "scores", "kp_cur", "status", "pyr_p", "pyr_c">>, PvaTakes)
  BY DEF Names, PvaTakes
<1> QED
  BY <1>1, EachPiece DEF PvaSteps

FeatureTakes == {"d_img", "d_feats", "d_kpts", "d_heat"}
LEMMA FeaturePiece ==
  Piece(Each(<<"d_img", "d_feats", "d_kpts", "d_heat">>), FeatureTakes)
<1>1. Names(<<"d_img", "d_feats", "d_kpts", "d_heat">>, FeatureTakes)
  BY DEF Names, FeatureTakes
<1> QED
  BY <1>1, EachPiece

MatchTakes == {"d_d0", "d_d1", "d_k0", "d_k1", "d_sim", "d_z0", "d_z1"}
LEMMA MatchPiece ==
  Piece(Each(<<"d_d0", "d_d1", "d_k0", "d_k1", "d_sim", "d_z0", "d_z1">>),
               MatchTakes)
<1>1. Names(<<"d_d0", "d_d1", "d_k0", "d_k1", "d_sim", "d_z0", "d_z1">>,
              MatchTakes)
  BY DEF Names, MatchTakes
<1> QED
  BY <1>1, EachPiece

MatcherTakes == {"xf", "lg", "stream", "rgba"} \union FeatureTakes
  \union MatchTakes
LEMMA MatcherPiece == Piece(MatcherSteps, MatcherTakes)
<1> DEFINE a1 == LoadFile("xf")
           a2 == a1 \o LoadFile("lg")
           a3 == a2 \o Each(<<"stream">>)
           a4 == a3 \o Check
           a5 == a4 \o Each(<<"d_img", "d_feats", "d_kpts", "d_heat">>)
           a6 == a5 \o Check
           a7 == a6 \o Each(<<"d_d0", "d_d1", "d_k0", "d_k1", "d_sim",
                              "d_z0", "d_z1">>)
           a8 == a7 \o Check
           a9 == a8 \o Each(<<"rgba">>)
<1>1. Piece(a1, {"xf"})
  BY OneName DEF LoadFile
<1>2. Piece(a2, {"xf"} \union {"lg"})
  BY <1>1, OneName, JoinPieces DEF LoadFile
<1>3. Piece(a3, {"xf"} \union {"lg"} \union {"stream"})
  BY <1>2, OneName, JoinPieces
<1>4. Piece(a4, {"xf"} \union {"lg"} \union {"stream"})
  BY <1>3, ThenCheck
<1>5. Piece(a5, {"xf"} \union {"lg"} \union {"stream"} \union FeatureTakes)
  BY <1>4, FeaturePiece, JoinPieces DEF FeatureTakes
<1>6. Piece(a6, {"xf"} \union {"lg"} \union {"stream"} \union FeatureTakes)
  BY <1>5, ThenCheck
<1>7. Piece(a7, {"xf"} \union {"lg"} \union {"stream"}
                \union FeatureTakes \union MatchTakes)
  BY <1>6, MatchPiece, JoinPieces DEF FeatureTakes, MatchTakes
<1>8. Piece(a8, {"xf"} \union {"lg"} \union {"stream"}
                \union FeatureTakes \union MatchTakes)
  BY <1>7, ThenCheck
<1>9. Piece(a9, {"xf"} \union {"lg"} \union {"stream"}
                \union FeatureTakes \union MatchTakes \union {"rgba"})
  BY <1>8, OneName, JoinPieces DEF FeatureTakes, MatchTakes
<1>10. {"xf"} \union {"lg"} \union {"stream"} \union FeatureTakes
         \union MatchTakes \union {"rgba"} = MatcherTakes
  BY DEF MatcherTakes
<1> QED
  BY <1>9, <1>10 DEF MatcherSteps

RgbaTakes == {"rgba", "eglImage", "egl_res"}
LEMMA RgbaPiece == Piece(EnsureRgba, RgbaTakes)
<1>1. Names(<<"rgba", "eglImage", "egl_res">>, RgbaTakes)
  BY DEF Names, RgbaTakes
<1> QED
  BY <1>1, EachPiece DEF EnsureRgba

(* The two ends of the transport.                                          *)
SinkTakes == {"shm_fd", "segment", "shm_ptr", "listen_fd", "socket_path", "accept_thread"}
LEMMA SinkPiece == Piece(SinkStart, SinkTakes)
<1>1. Len(SinkStart) = 5 /\ SinkStart \in Seq(SUBSET SinkTakes)
  BY DEF SinkStart, SinkTakes
<1>2. /\ SinkStart[1] = {"shm_fd", "segment"} /\ SinkStart[2] = {}
      /\ SinkStart[3] = {"shm_ptr"} /\ SinkStart[4] = {"listen_fd", "socket_path"}
      /\ SinkStart[5] = {"accept_thread"}
  BY DEF SinkStart
<1>3. \A i \in 1 .. 5 : i \in {1, 2, 3, 4, 5}
  OBVIOUS
<1>4. \A i, j \in {1, 2, 3, 4, 5} : SinkStart[i] \intersect SinkStart[j] # {} => i = j
  BY <1>2
<1>5. \A r \in SinkTakes : \E i \in {1, 3, 4, 5} : r \in SinkStart[i]
  BY <1>2 DEF SinkTakes
<1> QED
  BY <1>1, <1>3, <1>4, <1>5 DEF Piece

PoolTakes == PoolSurfaces \union {"client_fds"}
LEMMA PoolIs ==
  LET s == AllocatePool \o ServeClients IN
  /\ s \in Seq(SUBSET PoolTakes) /\ Len(s) = 5
  /\ s[1] = {"pool0"} /\ s[2] = {} /\ s[3] = {"pool1"} /\ s[4] = {} /\ s[5] = {"client_fds"}
BY DEF AllocatePool, ServeClients, PoolTakes, PoolSurfaces

LEMMA PoolPiece == Piece(AllocatePool \o ServeClients, PoolTakes)
<1> DEFINE s == AllocatePool \o ServeClients
<1>1. /\ s \in Seq(SUBSET PoolTakes) /\ Len(s) = 5
      /\ s[1] = {"pool0"} /\ s[2] = {} /\ s[3] = {"pool1"} /\ s[4] = {}
      /\ s[5] = {"client_fds"}
  BY PoolIs
<1> HIDE DEF s
<1>3. \A i \in 1 .. 5 : i \in {1, 2, 3, 4, 5}
  OBVIOUS
<1>4. \A i, j \in {1, 2, 3, 4, 5} : s[i] \intersect s[j] # {} => i = j
  BY <1>1
<1>5. \A r \in PoolTakes : \E i \in {1, 3, 5} : r \in s[i]
  BY <1>1 DEF PoolTakes, PoolSurfaces
<1>6. Piece(s, PoolTakes)
  BY <1>1, <1>3, <1>4, <1>5 DEF Piece
<1> QED
  BY <1>6 DEF s

AppSrcTakes == {"shm_fd", "shm_ptr", "socket_fd", "fds", "surface0", "surface1"}
LEMMA AppSrcIs ==
  /\ AppSrcStart \in Seq(SUBSET AppSrcTakes) /\ Len(AppSrcStart) = 9
  /\ AppSrcStart[1] = {"shm_fd"} /\ AppSrcStart[2] = {} /\ AppSrcStart[3] = {"shm_ptr"}
  /\ AppSrcStart[4] = {} /\ AppSrcStart[5] = {"socket_fd"} /\ AppSrcStart[6] = {}
  /\ AppSrcStart[7] = {"fds"} /\ AppSrcStart[8] = {"surface0"} /\ AppSrcStart[9] = {"surface1"}
BY DEF AppSrcStart, AppSrcTakes

LEMMA AppSrcPiece == Piece(AppSrcStart, AppSrcTakes)
<1>1. \A i \in 1 .. 9 : i \in {1, 2, 3, 4, 5, 6, 7, 8, 9}
  OBVIOUS
<1>2. \A i, j \in {1, 2, 3, 4, 5, 6, 7, 8, 9} :
        AppSrcStart[i] \intersect AppSrcStart[j] # {} => i = j
  BY AppSrcIs
<1>3. \A r \in AppSrcTakes : \E i \in {1, 3, 5, 7, 8, 9} : r \in AppSrcStart[i]
  BY AppSrcIs DEF AppSrcTakes
<1> QED
  BY AppSrcIs, <1>1, <1>2, <1>3 DEF Piece

-----------------------------------------------------------------------------
(* What an owner takes goes when it stops, or is spared; the events are    *)
(* nvmminfer's.                                                            *)
ListsRight(o) ==
  \E all : /\ Piece(Starting[o] \o AtFrames[o], all)
           /\ all \subseteq Frees[o] \union Spared[o]
           /\ all \intersect Events \subseteq Spared[o]

LEMMA JustStart ==
  ASSUME NEW s, NEW S, Piece(s, S)
  PROVE  Piece(s \o <<>>, S) /\ Piece(<<>> \o s, S)
BY JoinPieces, NoPiece

LEMMA OwnersRight == \A o \in DOMAIN Frees : ListsRight(o)
<1>1. ListsRight("infer")
  <2>1. InferTakes \intersect PreFrees = {}
    BY DEF InferTakes, PreFrees, Events
  <2>2. Piece(InferStart \o PreSteps, InferTakes \union PreFrees)
    BY <2>1, InferPiece, PrePiece, JoinPieces
  <2>3. InferTakes \union PreFrees \subseteq InferStop \union Events
    BY DEF InferTakes, InferStop
  <2> QED BY <2>2, <2>3 DEF ListsRight, Starting, AtFrames, Frees, Spared
<1>2. ListsRight("secondary")
  <2>1. SecondaryTakes \subseteq SecondaryStop /\ SecondaryTakes \intersect Events = {}
    BY DEF SecondaryTakes, SecondaryStop, Events, RoiFrees
  <2>2. Piece(SecondaryStart \o <<>>, SecondaryTakes)
    BY SecondaryPiece, JustStart
  <2> QED BY <2>1, <2>2 DEF ListsRight, Starting, AtFrames, Frees, Spared
<1>3. ListsRight("samurai")
  <2>1. /\ EngineTakes \subseteq TrackerFrees /\ EncoderTakes \subseteq TrackerFrees
        /\ ConstTakes \subseteq TrackerFrees /\ KernelTakes \subseteq TrackerFrees
    BY OutsPiece DEF EngineTakes, EncoderTakes, ConstTakes, KernelTakes, FixedTakes,
                     TrackerFrees, ImplFrees
  <2>2. MotionTakes \subseteq TrackerFrees /\ DecoderTakes \subseteq TrackerFrees
    BY DEF MotionTakes, DecoderTakes, MaskTakes, AttnTakes, TrackerFrees, ImplFrees
  <2>3. SamuraiTakes \subseteq TrackerFrees
    BY <2>1, <2>2 DEF SamuraiTakes
  <2>4. SamuraiTakes \intersect Events = {}
    BY DEF SamuraiTakes, EngineTakes, EncoderTakes, ConstTakes, KernelTakes,
       MotionTakes,
           DecoderTakes, MaskTakes, AttnTakes, FixedTakes, OutsTakes, PreFrees, Events
  <2>5. Piece(Starting["samurai"] \o <<>>, SamuraiTakes)
    BY SamuraiPiece, JustStart
  <2> QED BY <2>3, <2>4, <2>5 DEF ListsRight, AtFrames, Frees, Spared
<1>4. ListsRight("fft")
  <2>1. FftTakes \subseteq FftDestroy /\ FftTakes \intersect Events = {}
    BY DEF FftTakes, BufferTakes, ImageTakes, FftDestroy, Events
  <2>2. Piece(FftSteps \o <<>>, FftTakes)
    BY FftPiece, JustStart
  <2> QED BY <2>1, <2>2 DEF ListsRight, Starting, AtFrames, Frees, Spared
<1>5. ListsRight("pva")
  <2>1. PvaTakes \subseteq PvaDestroy /\ PvaTakes \intersect Events = {}
    BY DEF PvaTakes, PvaDestroy, Events
  <2>2. Piece(PvaSteps \o <<>>, PvaTakes)
    BY PvaPiece, JustStart
  <2> QED BY <2>1, <2>2 DEF ListsRight, Starting, AtFrames, Frees, Spared
<1>6. ListsRight("ofa")
  <2>1. OfaTakes \subseteq ReleaseOfa /\ OfaTakes \intersect Events = {}
    BY DEF OfaTakes, ConfigureTakes, ReleaseOfa, Events
  <2>2. Piece(<<>> \o OfaFrames, OfaTakes)
    BY OfaPiece, JustStart
  <2> QED BY <2>1, <2>2 DEF ListsRight, Starting, AtFrames, Frees, Spared
<1>7. ListsRight("detgate")
  <2>1. MatcherTakes \subseteq MatcherFrees /\ MatcherTakes \intersect Events = {}
    BY DEF MatcherTakes, FeatureTakes, MatchTakes, MatcherFrees, Events
  <2>2. Piece(<<>> \o MatcherSteps, MatcherTakes)
    BY MatcherPiece, JustStart
  <2> QED BY <2>1, <2>2 DEF ListsRight, Starting, AtFrames, Frees, Spared
<1>8. ListsRight("drawdet")
  <2>1. RgbaTakes \subseteq DrawdetStop /\ RgbaTakes \intersect Events = {}
    BY DEF RgbaTakes, DrawdetStop, Events
  <2>2. Piece(<<>> \o EnsureRgba, RgbaTakes)
    BY RgbaPiece, JustStart
  <2> QED BY <2>1, <2>2 DEF ListsRight, Starting, AtFrames, Frees, Spared
<1>9. ListsRight("sink")
  <2>1. SinkTakes \intersect PoolTakes = {}
    BY DEF SinkTakes, PoolTakes, PoolSurfaces
  <2>2. Piece(SinkStart \o (AllocatePool \o ServeClients), SinkTakes \union PoolTakes)
    BY <2>1, SinkPiece, PoolPiece, JoinPieces
  <2>3. /\ SinkTakes \union PoolTakes \subseteq SinkStop
        /\ (SinkTakes \union PoolTakes) \intersect Events = {}
    BY DEF SinkTakes, PoolTakes, PoolSurfaces, SinkStop, Events
  <2> QED BY <2>2, <2>3 DEF ListsRight, Starting, AtFrames, Frees, Spared
<1>10. ListsRight("appsrc")
  <2>1. AppSrcTakes \subseteq AppSrcStop \union {"fds"} /\ AppSrcTakes \intersect Events = {}
    BY DEF AppSrcTakes, AppSrcStop, Events
  <2>2. Piece(AppSrcStart \o <<>>, AppSrcTakes)
    BY AppSrcPiece, JustStart
  <2> QED BY <2>1, <2>2 DEF ListsRight, Starting, AtFrames, Frees, Spared
<1> QED
  BY <1>1, <1>2, <1>3, <1>4, <1>5, <1>6, <1>7, <1>8, <1>9, <1>10 DEF Frees

(* Where nothing but the stream is freed, the engine is not there, and     *)
(* nothing that comes after it.                                            *)
Ahead(s, x, before) ==
  \E k \in 1 .. Len(s) : s[k] = {x} /\ \A i \in 1 .. k - 1 : s[i] \subseteq before

LEMMA OnLengths ==
  ASSUME NEW n \in Nat, NEW S, NEW q \in [1 .. n -> S]
  PROVE  q \in Seq(S) /\ Len(q) = n
OBVIOUS

LEMMA AheadHere ==
  ASSUME NEW s, NEW S, NEW x, Piece(s, S)
  PROVE  Ahead(s \o Each(<<x>>), x, S)
<1> DEFINE t == Each(<<x>>)
<1>1. t \in Seq(SUBSET {x}) /\ Len(t) = 1 /\ t[1] = {x}
  <2>1. DOMAIN <<x>> = 1 .. 1 /\ <<x>>[1] = x
    OBVIOUS
  <2>2. t = [i \in 1 .. 1 |-> {<<x>>[i]}]
    BY <2>1 DEF Each
  <2>3. t[1] = {x} /\ t \in [1 .. 1 -> SUBSET {x}]
    BY <2>1, <2>2
  <2> HIDE DEF t
  <2>4. 1 \in Nat
    OBVIOUS
  <2> QED BY <2>3, <2>4, OnLengths, Zenon
<1> HIDE DEF t
<1>2. /\ Len(s) \in Nat /\ Len(s \o t) = Len(s) + 1
      /\ \A i \in 1 .. Len(s) : (s \o t)[i] = s[i]
      /\ (s \o t)[Len(s) + 1] = {x}
  <2>1. /\ Len(s) \in Nat /\ Len(s \o t) = Len(s) + Len(t)
        /\ \A i \in 1 .. Len(s) : (s \o t)[i] = s[i]
        /\ \A i \in 1 .. Len(t) : (s \o t)[Len(s) + i] = t[i]
    <3>1. s \in Seq(SUBSET S) /\ t \in Seq(SUBSET {x})
      BY <1>1 DEF Piece
    <3> QED BY <3>1, JoinIs
  <2>2. 1 \in 1 .. Len(t)
    BY <1>1
  <2> QED BY <1>1, <2>1, <2>2
<1>3. \A i \in 1 .. Len(s) : s[i] \subseteq S
  BY DEF Piece
<1>4. Len(s) + 1 \in 1 .. Len(s \o t) /\ Len(s) + 1 - 1 = Len(s)
  BY <1>2
<1> QED
  BY <1>2, <1>3, <1>4 DEF Ahead, t

LEMMA AheadStill ==
  ASSUME NEW s, NEW S, NEW t, NEW T, NEW x, NEW before, Piece(s, S), Piece(t, T),
         Ahead(s, x, before)
  PROVE  Ahead(s \o t, x, before)
<1>1. /\ Len(s) \in Nat /\ Len(t) \in Nat /\ Len(s \o t) = Len(s) + Len(t)
      /\ \A i \in 1 .. Len(s) : (s \o t)[i] = s[i]
  BY JoinIs DEF Piece
<1>2. PICK k \in 1 .. Len(s) : s[k] = {x} /\ \A i \in 1 .. k - 1 : s[i] \subseteq before
  BY DEF Ahead
<1>3. k \in 1 .. Len(s \o t) /\ \A i \in 1 .. k - 1 : i \in 1 .. Len(s)
  BY <1>1, <1>2
<1> QED
  BY <1>1, <1>2, <1>3 DEF Ahead

(* Of an owner that lost the engine's race: before the engine comes only   *)
(* the stream, and in nvmminfer the events.                                *)
LEMMA EngineAhead ==
  /\ Ahead(Starting["infer"] \o AtFrames["infer"], "engine", {"stream"} \union Events)
  /\ Ahead(Starting["secondary"] \o AtFrames["secondary"], "engine", {"stream"})
<1> DEFINE b == Check \o Each(<<"stream">>)
<1>1. Piece(b, {"stream"})
  BY OneName, ThenCheck
<1>2. Piece(Check, {}) /\ Piece(<<{"d_input", "d_output"}>>, {"d_input",
                                                              "d_output"})
  BY CheckPiece, OnePiece
<1>3. Ahead(InferStart \o PreSteps, "engine", {"stream"} \union Events)
  <2> DEFINE c == b \o <<Events>>
             d == c \o Each(<<"engine">>)
             e == d \o Check
             f == e \o <<{"d_input", "d_output"}>>
  <2>1. Piece(c, {"stream"} \union Events)
    <3>1. {"stream"} \intersect Events = {}
      BY DEF Events
    <3>2. Piece(<<Events>>, Events)
      BY OnePiece
    <3> QED BY <1>1, <3>1, <3>2, JoinPieces
  <2>2. Ahead(d, "engine", {"stream"} \union Events)
    BY <2>1, AheadHere
  <2>3. Piece(d, {"stream"} \union Events \union {"engine"})
    <3>1. ({"stream"} \union Events) \intersect {"engine"} = {}
      BY DEF Events
    <3>2. Piece(Each(<<"engine">>), {"engine"})
      BY OneName
    <3> HIDE DEF c
    <3> QED BY <2>1, <3>1, <3>2, JoinPieces
  <2> HIDE DEF d
  <2>4. Ahead(e, "engine", {"stream"} \union Events) /\ Piece(e, {"stream"} \union Events \union {"engine"})
    BY <1>2, <2>2, <2>3, AheadStill, ThenCheck
  <2> HIDE DEF e
  <2>5. Ahead(f, "engine", {"stream"} \union Events)
    BY <1>2, <2>4, AheadStill
  <2>6. Piece(f, {"stream"} \union Events \union {"engine"} \union {"d_input",
                                                                    "d_output"})
    <3>1. ({"stream"} \union Events \union {"engine"}) \intersect {"d_input",
                                                                   "d_output"} = {}
      BY DEF Events
    <3> QED BY <1>2, <2>4, <3>1, JoinPieces
  <2> HIDE DEF f
  <2>7. Ahead(f \o Check, "engine", {"stream"} \union Events)
    BY <1>2, <2>5, <2>6, AheadStill
  <2>8. f \o Check = InferStart
    BY DEF f, e, d, InferStart, LoadFile
  <2> QED BY <2>7, <2>8, InferPiece, PrePiece, AheadStill
<1>4. Ahead(SecondaryStart \o <<>>, "engine", {"stream"})
  <2> DEFINE d == b \o Each(<<"engine">>)
             e == d \o Check
             f == e \o <<{"d_input", "d_output"}>>
             g == f \o Check
             h == g \o RoiSteps
  <2>1. Ahead(d, "engine", {"stream"})
    BY <1>1, AheadHere
  <2>2. Piece(d, {"stream"} \union {"engine"})
    <3>1. Piece(Each(<<"engine">>), {"engine"}) /\ {"stream"} \intersect {"engine"} = {}
      BY OneName
    <3> HIDE DEF b
    <3> QED BY <1>1, <3>1, JoinPieces
  <2> HIDE DEF d
  <2>3. Ahead(e, "engine", {"stream"}) /\ Piece(e, {"stream"} \union {"engine"})
    BY <1>2, <2>1, <2>2, AheadStill, ThenCheck
  <2> HIDE DEF e
  <2>4. Ahead(f, "engine", {"stream"})
    BY <1>2, <2>3, AheadStill
  <2>5. Piece(f, {"stream"} \union {"engine"} \union {"d_input", "d_output"})
    <3>1. ({"stream"} \union {"engine"}) \intersect {"d_input", "d_output"} = {}
      OBVIOUS
    <3> QED BY <1>2, <2>3, <3>1, JoinPieces
  <2> HIDE DEF f
  <2>6. /\ Ahead(g, "engine", {"stream"})
        /\ Piece(g, {"stream"} \union {"engine"} \union {"d_input", "d_output"})
    BY <1>2, <2>4, <2>5, AheadStill, ThenCheck
  <2> HIDE DEF g
  <2>7. Ahead(h, "engine", {"stream"})
    BY <2>6, RoiPiece, AheadStill
  <2>8. Piece(h, {"stream"} \union {"engine"} \union {"d_input",
                                                      "d_output"} \union RoiFrees)
    <3>1. ({"stream"} \union {"engine"} \union {"d_input",
                                                "d_output"}) \intersect RoiFrees = {}
      BY DEF RoiFrees
    <3> QED BY <2>6, <3>1, RoiPiece, JoinPieces
  <2> HIDE DEF h
  <2>9. Ahead(h \o Each(<<"cache">>), "engine", {"stream"})
    BY <2>7, <2>8, OneName, AheadStill
  <2>10. h \o Each(<<"cache">>) = SecondaryStart
    BY DEF h, g, f, e, d, SecondaryStart, LoadFile
  <2> QED BY <2>9, <2>10, SecondaryPiece, NoPiece, AheadStill
<1> QED
  BY <1>3, <1>4 DEF Starting, AtFrames

(***************************************************************************)
(* Why nothing else is left.  What is held, and is no leak, was taken by a *)
(* step before the one the owner is at, or by one of the accelerators that *)
(* failed at a frame; a step that was taken left what it takes, so the     *)
(* engine is there when the owner is past it; and whatever is held is of   *)
(* one of the steps, so that a stop can give it back.                      *)
(***************************************************************************)
Leavable == OfSegment \union PoolSurfaces \union {"segment", "socket_fd", "surface0"}
Setups == [owner : DOMAIN Frees, at : Nat, broken : BOOLEAN, left : SUBSET Leavable]

Excused == Spared[Owner] \union setup.left

HeldInOrder ==
  \A r \in taken \ Excused : \E i \in 1 .. Len(Steps) :
    r \in Steps[i] /\ (i < setup.at \/ (i = setup.at /\ setup.broken /\ ~EndOfTransport))
StepsLeft ==
  \A i \in 1 .. Len(Steps) :
    i < setup.at /\ Steps[i] # Events => Steps[i] \subseteq taken \union Spared[Owner]
OfSteps == \A r \in taken : \E i \in 1 .. Len(Steps) : r \in Steps[i]
AtRest ==
  setup.at = 0 =>
    taken \subseteq Spared[Owner] \union (IF setup.broken THEN setup.left ELSE {})

SetupInv ==
  /\ setup \in Setups
  /\ lost \subseteq Excused
  /\ HeldInOrder /\ StepsLeft /\ OfSteps /\ AtRest
  /\ setup.broken /\ Owner = "sink" /\ Running => MayFail

LEMMA OwnerFacts ==
  ASSUME Owner \in DOMAIN Frees
  PROVE  /\ Len(Steps) \in Nat
         /\ \A i, j \in 1 .. Len(Steps) : Steps[i] \intersect Steps[j] # {} => i = j
         /\ \A i \in 1 .. Len(Steps) : /\ Steps[i] \subseteq Frees[Owner] \union Spared[Owner]
                                       /\ Steps[i] \intersect Events \subseteq Spared[Owner]
<1>1. PICK all : /\ Piece(Steps, all)
                 /\ all \subseteq Frees[Owner] \union Spared[Owner]
                 /\ all \intersect Events \subseteq Spared[Owner]
  BY OwnersRight DEF ListsRight, Steps
<1>2. Steps \in Seq(SUBSET all) /\ Len(Steps) \in Nat
      /\ \A i, j \in 1 .. Len(Steps) : Steps[i] \intersect Steps[j] # {} => i = j
  BY <1>1 DEF Piece
<1>3. \A i \in 1 .. Len(Steps) : Steps[i] \subseteq all
  BY <1>2
<1> QED
  BY <1>1, <1>2, <1>3

LEMMA SparedEach ==
  /\ Spared["infer"] = Events /\ Spared["secondary"] = {}
  /\ Spared["samurai"] = ToSet(EncoderOuts) /\ Spared["sink"] = {} /\ Spared["appsrc"] = {"fds"}
BY DEF Spared

(* The fields of setup after a step.                                       *)
LEMMA SetupAfter ==
  ASSUME setup \in Setups, NEW a \in Nat, NEW b \in BOOLEAN, NEW l \in SUBSET Leavable
  PROVE  /\ [setup EXCEPT !.at = a] \in Setups
         /\ [setup EXCEPT !.at = a].owner = setup.owner
         /\ [setup EXCEPT !.at = a].at = a
         /\ [setup EXCEPT !.at = a].broken = setup.broken
         /\ [setup EXCEPT !.at = a].left = setup.left
         /\ [setup EXCEPT !.at = a, !.broken = b] \in Setups
         /\ [setup EXCEPT !.at = a, !.broken = b].owner = setup.owner
         /\ [setup EXCEPT !.at = a, !.broken = b].at = a
         /\ [setup EXCEPT !.at = a, !.broken = b].broken = b
         /\ [setup EXCEPT !.at = a, !.broken = b].left = setup.left
         /\ [setup EXCEPT !.broken = b] \in Setups
         /\ [setup EXCEPT !.broken = b].owner = setup.owner
         /\ [setup EXCEPT !.broken = b].at = setup.at
         /\ [setup EXCEPT !.broken = b].broken = b
         /\ [setup EXCEPT !.broken = b].left = setup.left
         /\ [setup EXCEPT !.at = a, !.broken = b, !.left = l] \in Setups
         /\ [setup EXCEPT !.at = a, !.broken = b, !.left = l].owner = setup.owner
         /\ [setup EXCEPT !.at = a, !.broken = b, !.left = l].at = a
         /\ [setup EXCEPT !.at = a, !.broken = b, !.left = l].broken = b
         /\ [setup EXCEPT !.at = a, !.broken = b, !.left = l].left = l
BY DEF Setups

LEMMA StepsKept ==
  ASSUME setup'.owner = setup.owner
  PROVE  Owner' = Owner /\ Steps' = Steps /\ EndOfTransport' = EndOfTransport
BY DEF Owner, Steps, EndOfTransport

(* What is there already when a step takes it is a leak.                   *)
LEMMA TakenTwice ==
  ASSUME SetupInv, setup.at \in 1 .. Len(Steps), ~setup.broken,
         NEW r \in taken \intersect Steps[setup.at]
  PROVE  r \in Excused
<1>1. Owner \in DOMAIN Frees /\ setup.at \in Nat
  BY DEF SetupInv, Setups, Owner
<1> SUFFICES ASSUME r \notin Excused PROVE FALSE
  OBVIOUS
<1>2. PICK i \in 1 .. Len(Steps) : r \in Steps[i] /\ i < setup.at
  BY DEF SetupInv, HeldInOrder
<1>3. i = setup.at
  BY <1>1, <1>2, OwnerFacts
<1> QED
  BY <1>1, <1>2, <1>3

LEMMA TakeStepKeeps ==
  ASSUME SetupInv, TakeStep
  PROVE  SetupInv'
<1>1. /\ setup \in Setups /\ Owner \in DOMAIN Frees /\ setup.at \in Nat
      /\ setup.broken \in BOOLEAN
  BY DEF SetupInv, Setups, Owner
<1>2. /\ setup.at \in 1 .. Len(Steps) /\ ~setup.broken
      /\ setup' = [setup EXCEPT !.at = setup.at + 1]
      /\ taken' = taken \union Steps[setup.at]
      /\ lost' = lost \union ((taken \intersect Steps[setup.at]) \ Reopened)
  BY DEF TakeStep
<1>3. /\ setup' \in Setups /\ setup'.owner = setup.owner /\ setup'.at = setup.at + 1
      /\ setup'.broken = setup.broken /\ setup'.left = setup.left
  <2>1. setup.at + 1 \in Nat
    BY <1>1
  <2> QED BY <1>1, <1>2, <2>1, SetupAfter
<1>4. Owner' = Owner /\ Steps' = Steps /\ Excused' = Excused
  BY <1>3, StepsKept DEF Excused
<1>7. lost' \subseteq Excused
  <2>1. \A r \in taken \intersect Steps[setup.at] : r \in Excused
    BY <1>2, TakenTwice
  <2> QED BY <1>2, <2>1 DEF SetupInv
<1>8. HeldInOrder'
  <2> SUFFICES ASSUME NEW r \in taken', r \notin Excused
               PROVE  \E i \in 1 .. Len(Steps) : r \in Steps[i] /\ i < setup.at + 1
    BY <1>3, <1>4 DEF HeldInOrder
  <2>1. CASE r \in taken
    <3>1. PICK i \in 1 .. Len(Steps) : r \in Steps[i] /\ i < setup.at
      BY <1>2, <2>1 DEF SetupInv, HeldInOrder
    <3>2. i < setup.at + 1
      BY <1>1, <1>2, <3>1, OwnerFacts
    <3> QED BY <3>1, <3>2
  <2>2. CASE r \in Steps[setup.at]
    <3>1. setup.at < setup.at + 1
      BY <1>1
    <3> QED BY <1>2, <2>2, <3>1
  <2> QED BY <1>2, <2>1, <2>2
<1>9. StepsLeft'
  <2> SUFFICES ASSUME NEW i \in 1 .. Len(Steps), i < setup.at + 1, Steps[i] # Events
               PROVE  Steps[i] \subseteq taken' \union Spared[Owner]
    BY <1>3, <1>4 DEF StepsLeft
  <2>1. i < setup.at \/ i = setup.at
    BY <1>1, OwnerFacts
  <2>2. CASE i < setup.at
    BY <1>2, <2>2 DEF SetupInv, StepsLeft
  <2> QED BY <1>2, <2>1, <2>2
<1>10. OfSteps'
  BY <1>2, <1>4 DEF SetupInv, OfSteps
<1>11. setup'.at # 0 /\ ~setup'.broken
  BY <1>1, <1>2, <1>3
<1> QED
  BY <1>3, <1>4, <1>7, <1>8, <1>9, <1>10, <1>11 DEF SetupInv, AtRest

LEMMA SkipEventsKeeps ==
  ASSUME SetupInv, SkipEvents
  PROVE  SetupInv'
<1>1. setup \in Setups /\ Owner \in DOMAIN Frees /\ setup.at \in Nat
  BY DEF SetupInv, Setups, Owner
<1>2. /\ setup.at \in 1 .. Len(Steps) /\ Steps[setup.at] = Events
      /\ setup' = [setup EXCEPT !.at = setup.at + 1]
      /\ taken' = taken /\ lost' = lost
  BY DEF SkipEvents
<1>3. /\ setup' \in Setups /\ setup'.owner = setup.owner /\ setup'.at = setup.at + 1
      /\ setup'.broken = setup.broken /\ setup'.left = setup.left
  <2>1. setup.at + 1 \in Nat
    BY <1>1
  <2> QED BY <1>1, <1>2, <2>1, SetupAfter
<1>4. Owner' = Owner /\ Steps' = Steps /\ Excused' = Excused
  BY <1>3, StepsKept DEF Excused
<1>7. HeldInOrder'
  <2> SUFFICES ASSUME NEW r \in taken, r \notin Excused
               PROVE  \E i \in 1 .. Len(Steps) : r \in Steps[i] /\ i < setup.at + 1
    BY <1>2, <1>3, <1>4 DEF HeldInOrder
  <2>1. PICK i \in 1 .. Len(Steps) : r \in Steps[i] /\ i <= setup.at
    BY <1>1, OwnerFacts DEF SetupInv, HeldInOrder
  <2>2. i < setup.at + 1
    BY <1>1, <2>1, OwnerFacts
  <2> QED BY <2>1, <2>2
<1>8. StepsLeft'
  <2> SUFFICES ASSUME NEW i \in 1 .. Len(Steps), i < setup.at + 1, Steps[i] # Events
               PROVE  Steps[i] \subseteq taken \union Spared[Owner]
    BY <1>2, <1>3, <1>4 DEF StepsLeft
  <2>1. i < setup.at
    BY <1>1, <1>2, OwnerFacts
  <2> QED BY <2>1 DEF SetupInv, StepsLeft
<1>9. OfSteps'
  BY <1>2, <1>4 DEF SetupInv, OfSteps
<1>10. setup'.at # 0 /\ ~setup'.broken
  <2>1. ~setup.broken
    BY DEF SkipEvents
  <2> QED BY <1>1, <1>3, <2>1
<1> QED
  BY <1>2, <1>3, <1>4, <1>7, <1>8, <1>9, <1>10 DEF SetupInv, AtRest

(* Where everything is freed that a stop frees, only what is spared stays. *)
LEMMA OnlySparedLeft ==
  ASSUME setup \in Setups, OfSteps, NEW r, NEW more,
         more \subseteq Spared[Owner] \/ \E j \in 1 .. Len(Steps) : more \subseteq Steps[j],
         r \in taken \union more, r \notin Frees[Owner]
  PROVE  r \in Spared[Owner]
<1>1. Owner \in DOMAIN Frees
  BY DEF Setups, Owner
<1>2. r \in Spared[Owner] \/ \E i \in 1 .. Len(Steps) : r \in Steps[i]
  BY DEF OfSteps
<1> QED
  BY <1>1, <1>2, OwnerFacts

LEMMA StopKeeps ==
  ASSUME SetupInv, StopOwner
  PROVE  SetupInv'
<1>1. setup \in Setups /\ Owner \in DOMAIN Frees /\ OfSteps
  BY DEF SetupInv, Setups, Owner
<1>2. /\ setup' = [setup EXCEPT !.at = 0, !.broken = FALSE] /\ lost' = lost
      /\ \E kept \in {{}, taken \intersect Events} : taken' = (taken \ Frees[Owner]) \union kept
  BY DEF StopOwner
<1>3. /\ setup' \in Setups /\ setup'.owner = setup.owner /\ setup'.at = 0
      /\ setup'.broken = FALSE /\ setup'.left = setup.left
  <2>1. 0 \in Nat /\ FALSE \in BOOLEAN
    OBVIOUS
  <2> QED BY <1>1, <1>2, <2>1, SetupAfter
<1>4. Owner' = Owner /\ Steps' = Steps /\ Excused' = Excused
  BY <1>3, StepsKept DEF Excused
<1>7. taken' \subseteq Spared[Owner]
  <2> SUFFICES ASSUME NEW r \in taken' PROVE r \in Spared[Owner]
    OBVIOUS
  <2>1. r \in taken /\ (r \notin Frees[Owner] \/ r \in Events)
    BY <1>2
  <2>2. CASE r \notin Frees[Owner]
    <3>1. {} \subseteq Spared[Owner] /\ r \in taken \union {}
      BY <2>1
    <3> QED BY <1>1, <2>2, <3>1, OnlySparedLeft
  <2>3. CASE r \in Events
    <3>1. \E i \in 1 .. Len(Steps) : r \in Steps[i]
      BY <1>1, <2>1 DEF OfSteps
    <3> QED BY <1>1, <2>3, <3>1, OwnerFacts
  <2> QED BY <2>1, <2>2, <2>3
<1>8. \A i \in 1 .. Len(Steps) : ~(i < 0)
  BY <1>1, OwnerFacts
<1>9. taken' \subseteq taken
  BY <1>2
<1>10. OfSteps'
  BY <1>1, <1>4, <1>9 DEF OfSteps
<1>11. HeldInOrder'
  BY <1>4, <1>7 DEF HeldInOrder, Excused
<1>12. StepsLeft'
  BY <1>3, <1>4, <1>8 DEF StepsLeft
<1>13. AtRest'
  BY <1>4, <1>7 DEF AtRest
<1> QED
  BY <1>2, <1>3, <1>4, <1>10, <1>11, <1>12, <1>13 DEF SetupInv

LEMMA BeginKeeps ==
  ASSUME SetupInv, Begin
  PROVE  SetupInv'
<1>1. setup \in Setups /\ Owner \in DOMAIN Frees
  BY DEF SetupInv, Setups, Owner
<1>2. /\ setup.at = 0 /\ setup' = [setup EXCEPT !.at = 1, !.broken = FALSE]
      /\ lost' = lost /\ taken' = taken
  BY DEF Begin
<1>3. /\ setup' \in Setups /\ setup'.owner = setup.owner /\ setup'.at = 1
      /\ setup'.broken = FALSE /\ setup'.left = setup.left
  <2>1. 1 \in Nat /\ FALSE \in BOOLEAN
    OBVIOUS
  <2> QED BY <1>1, <1>2, <2>1, SetupAfter
<1>4. Owner' = Owner /\ Steps' = Steps /\ Excused' = Excused
  BY <1>3, StepsKept DEF Excused
<1>7. \A i \in 1 .. Len(Steps) : ~(i < 1)
  BY <1>1, OwnerFacts
<1>8. taken \subseteq Excused
  BY <1>2 DEF SetupInv, AtRest, Excused
<1>9. HeldInOrder' /\ OfSteps'
  BY <1>2, <1>4, <1>8 DEF HeldInOrder, OfSteps, SetupInv
<1>10. StepsLeft'
  BY <1>3, <1>4, <1>7 DEF StepsLeft
<1>11. AtRest'
  BY <1>3 DEF AtRest
<1> QED
  BY <1>2, <1>3, <1>4, <1>9, <1>10, <1>11 DEF SetupInv

LEMMA NewCapsKeeps ==
  ASSUME SetupInv, NewCaps
  PROVE  SetupInv'
<1>1. setup \in Setups /\ Owner \in DOMAIN Frees /\ OfSteps
  BY DEF SetupInv, Setups, Owner
<1>2. /\ Owner = "ofa" /\ lost' = lost /\ taken' = taken \ Frees[Owner]
      /\ setup' = [setup EXCEPT !.at = 1] /\ ~setup.broken
  <2>1. Owner = "ofa" /\ Starting["ofa"] = <<>> /\ Frees["ofa"] = ReleaseOfa
    BY DEF NewCaps, Starting, Frees
  <2>2. Len(Starting[Owner]) + 1 = 1
    BY <2>1
  <2> QED BY <2>1, <2>2 DEF NewCaps
<1>3. /\ setup' \in Setups /\ setup'.owner = setup.owner /\ setup'.at = 1
      /\ setup'.broken = setup.broken /\ setup'.left = setup.left
  <2>1. 1 \in Nat
    OBVIOUS
  <2> QED BY <1>1, <1>2, <2>1, SetupAfter
<1>4. Owner' = Owner /\ Steps' = Steps /\ Excused' = Excused
  BY <1>3, StepsKept DEF Excused
<1>7. taken' \subseteq Spared[Owner]
  <2> SUFFICES ASSUME NEW r \in taken' PROVE r \in Spared[Owner]
    OBVIOUS
  <2>1. r \notin Frees[Owner] /\ {} \subseteq Spared[Owner] /\ r \in taken \union {}
    BY <1>2
  <2> QED BY <1>1, <2>1, OnlySparedLeft
<1>8. \A i \in 1 .. Len(Steps) : ~(i < 1)
  BY <1>1, OwnerFacts
<1>9. HeldInOrder'
  BY <1>4, <1>7 DEF HeldInOrder, Excused
<1>10. StepsLeft'
  BY <1>3, <1>4, <1>8 DEF StepsLeft
<1>11. OfSteps' /\ AtRest'
  BY <1>1, <1>2, <1>3, <1>4 DEF OfSteps, AtRest
<1> QED
  BY <1>2, <1>3, <1>4, <1>9, <1>10, <1>11 DEF SetupInv

(* The steps of nvmmsink and of nvmmappsrc, where they may fail.           *)
LEMMA SinkSteps ==
  ASSUME Owner = "sink"
  PROVE  /\ Starting[Owner] = SinkStart /\ Len(SinkStart) = 5 /\ Len(Steps) = 10
         /\ Steps[1] = {"shm_fd", "segment"} /\ Steps[2] = {} /\ Steps[3] = {"shm_ptr"}
         /\ Steps[4] = {"listen_fd", "socket_path"} /\ Steps[5] = {"accept_thread"}
         /\ \A i \in 6 .. 9 : Steps[i] \subseteq PoolSurfaces
         /\ Steps[10] = {"client_fds"}
<1> DEFINE s == AllocatePool \o ServeClients
<1>1. Starting[Owner] = SinkStart /\ Steps = SinkStart \o s
  BY DEF Starting, AtFrames, Steps
<1>2. /\ s \in Seq(SUBSET PoolTakes) /\ Len(s) = 5
      /\ s[1] = {"pool0"} /\ s[2] = {} /\ s[3] = {"pool1"} /\ s[4] = {} /\ s[5] = {"client_fds"}
  BY PoolIs
<1> HIDE DEF s
<1>3. /\ SinkStart \in Seq(SUBSET SinkTakes) /\ Len(SinkStart) = 5
      /\ SinkStart[1] = {"shm_fd", "segment"} /\ SinkStart[2] = {}
      /\ SinkStart[3] = {"shm_ptr"} /\ SinkStart[4] = {"listen_fd", "socket_path"}
      /\ SinkStart[5] = {"accept_thread"}
  BY DEF SinkStart, SinkTakes
<1>4. /\ Len(Steps) = 10 /\ \A i \in 1 .. 5 : Steps[i] = SinkStart[i]
      /\ \A i \in 1 .. 5 : Steps[5 + i] = s[i]
  <2>1. /\ Len(SinkStart \o s) = Len(SinkStart) + Len(s)
        /\ \A i \in 1 .. Len(SinkStart) : (SinkStart \o s)[i] = SinkStart[i]
        /\ \A i \in 1 .. Len(s) : (SinkStart \o s)[Len(SinkStart) + i] = s[i]
    <3>1. s \in Seq(SUBSET PoolTakes) /\ SinkStart \in Seq(SUBSET SinkTakes)
      BY <1>2, <1>3
    <3> QED BY <3>1, JoinIs
  <2> QED BY <1>1, <1>2, <1>3, <2>1
<1>5. /\ Steps[1] = SinkStart[1] /\ Steps[2] = SinkStart[2] /\ Steps[3] = SinkStart[3]
      /\ Steps[4] = SinkStart[4] /\ Steps[5] = SinkStart[5] /\ Steps[10] = s[5]
      /\ Steps[6] = s[1] /\ Steps[7] = s[2] /\ Steps[8] = s[3] /\ Steps[9] = s[4]
  <2>1. 1 \in 1 .. 5 /\ 2 \in 1 .. 5 /\ 3 \in 1 .. 5 /\ 4 \in 1 .. 5 /\ 5 \in 1 .. 5
    OBVIOUS
  <2>2. 6 = 5 + 1 /\ 7 = 5 + 2 /\ 8 = 5 + 3 /\ 9 = 5 + 4 /\ 10 = 5 + 5
    OBVIOUS
  <2> QED BY <1>4, <2>1, <2>2
<1>6. \A i \in 6 .. 9 : i \in {6, 7, 8, 9}
  OBVIOUS
<1>7. \A i \in {6, 7, 8, 9} : Steps[i] \subseteq PoolSurfaces
  BY <1>2, <1>5 DEF PoolSurfaces
<1> QED
  BY <1>1, <1>2, <1>3, <1>4, <1>5, <1>6, <1>7

LEMMA AppSrcSteps ==
  ASSUME Owner = "appsrc"
  PROVE  Starting[Owner] = AppSrcStart /\ Steps = AppSrcStart
<1>1. Starting[Owner] = AppSrcStart /\ Steps = AppSrcStart \o <<>>
  BY DEF Starting, AtFrames, Steps
<1>2. AppSrcStart \o <<>> = AppSrcStart
  BY AppSrcIs
<1> QED
  BY <1>1, <1>2

(* Where start() of either may fail.                                       *)
LEMMA SinkMayFail ==
  ASSUME Owner = "sink", ~Running, MayFail, setup.at \in Nat
  PROVE  setup.at \in {1, 2, 3, 4}
<1>1. /\ Len(Steps) = 10 /\ Len(Starting[Owner]) = 5 /\ Steps[5] = {"accept_thread"}
  BY SinkSteps
<1>2. setup.at \in 1 .. 10 /\ ~(setup.at > 5) /\ Steps[setup.at] # {"accept_thread"}
  BY <1>1 DEF MayFail, Running
<1>3. setup.at # 5
  BY <1>1, <1>2
<1> QED
  BY <1>2, <1>3

LEMMA AppSrcMayFail ==
  ASSUME Owner = "appsrc", setup.at \in 1 .. Len(Steps)
  PROVE  setup.at \in {1, 2, 3, 4, 5, 6, 7, 8, 9}
<1>1. Len(Steps) = 9
  BY AppSrcSteps, AppSrcIs
<1> QED
  BY <1>1

LEMMA CapsAgainKeeps ==
  ASSUME SetupInv, CapsAgain
  PROVE  SetupInv'
<1> DEFINE l == setup.left \union (taken \intersect PoolSurfaces)
<1>1. setup \in Setups /\ Owner = "sink" /\ Running /\ MayFail /\ setup.at \in Nat
  BY DEF SetupInv, CapsAgain, Setups
<1>2. /\ taken' = taken /\ lost' = lost
      /\ setup' = [setup EXCEPT !.at = 6, !.broken = FALSE, !.left = l]
  <2>1. Len(SinkStart) + 1 = 6
    <3>1. Len(SinkStart) = 5
      BY <1>1, SinkSteps
    <3> QED BY <3>1
  <2> QED BY <2>1 DEF CapsAgain
<1>3. /\ setup' \in Setups /\ setup'.owner = setup.owner /\ setup'.at = 6
      /\ setup'.broken = FALSE /\ setup'.left = l
  <2>1. 6 \in Nat /\ FALSE \in BOOLEAN /\ l \in SUBSET Leavable
    <3>1. setup.left \subseteq Leavable /\ PoolSurfaces \subseteq Leavable
      BY <1>1 DEF Setups, Leavable
    <3> QED BY <3>1
  <2> HIDE DEF l
  <2>2. setup' \in Setups
    BY <1>1, <1>2, <2>1 DEF Setups
  <2> QED BY <1>1, <1>2, <2>1, <2>2 DEF Setups
<1>4. Owner' = Owner /\ Steps' = Steps /\ Excused \subseteq Excused'
  BY <1>3, StepsKept DEF Excused
<1>5. setup.at \in 6 .. 9
  <2>1. /\ Len(Steps) = 10 /\ Len(Starting[Owner]) = 5 /\ Steps[10] = {"client_fds"}
    BY <1>1, SinkSteps
  <2>2. setup.at \in 1 .. 10 /\ setup.at > 5 /\ Steps[setup.at] # {"client_fds"}
    BY <1>1, <2>1 DEF MayFail, Running
  <2>3. setup.at # 10
    BY <2>1, <2>2
  <2> QED BY <2>2, <2>3
<1>6. HeldInOrder'
  <2> SUFFICES ASSUME NEW r \in taken, r \notin Excused'
               PROVE  \E i \in 1 .. Len(Steps) : r \in Steps[i] /\ i < 6
    BY <1>2, <1>3, <1>4 DEF HeldInOrder
  <2>1. PICK i \in 1 .. Len(Steps) : r \in Steps[i] /\ i < setup.at
    BY <1>1, <1>4 DEF SetupInv, HeldInOrder, EndOfTransport
  <2>2. r \notin PoolSurfaces
    BY <1>3 DEF Excused
  <2>3. ~(i \in 6 .. 9)
    BY <1>1, <2>1, <2>2, SinkSteps
  <2>4. i < 6
    BY <1>1, <1>5, <2>1, <2>3, SinkSteps
  <2> QED BY <2>1, <2>4
<1>7. StepsLeft'
  <2> SUFFICES ASSUME NEW i \in 1 .. Len(Steps), i < 6, Steps[i] # Events
               PROVE  Steps[i] \subseteq taken \union Spared[Owner]
    BY <1>2, <1>3, <1>4 DEF StepsLeft
  <2>1. i < setup.at
    BY <1>1, <1>5, SinkSteps
  <2> QED BY <2>1 DEF SetupInv, StepsLeft
<1>8. OfSteps' /\ AtRest' /\ lost' \subseteq Excused'
  BY <1>2, <1>3, <1>4 DEF SetupInv, OfSteps, AtRest
<1> QED
  BY <1>3, <1>6, <1>7, <1>8 DEF SetupInv

(* What a step that fails has taken of the engine or before it.            *)
LEMMA BeforeTheEngine ==
  ASSUME SetupInv, ~setup.broken, Owner \in {"infer", "secondary"},
         setup.at \in 1 .. Len(Steps), "engine" \notin taken,
         NEW part \in SUBSET Steps[setup.at],
         part = {} \/ part # Steps[setup.at] \/ part \subseteq Unkept,
         NEW r \in taken \union part, r # "stream"
  PROVE  r \in Excused
<1>1. /\ Owner \in DOMAIN Frees /\ setup.at \in Nat /\ Len(Steps) \in Nat
      /\ \A i, j \in 1 .. Len(Steps) : Steps[i] \intersect Steps[j] # {} => i = j
  BY OwnerFacts DEF SetupInv, Setups, Owner
<1>2. {"stream"} \union Spared[Owner] = IF Owner = "infer" THEN {"stream"} \union Events ELSE {"stream"}
  BY SparedEach
<1>3. Ahead(Steps, "engine", {"stream"} \union Spared[Owner])
  BY <1>2, EngineAhead DEF Steps
<1>4. PICK k \in 1 .. Len(Steps) :
        /\ Steps[k] = {"engine"}
        /\ \A i \in 1 .. k - 1 : Steps[i] \subseteq {"stream"} \union Spared[Owner]
  BY <1>3 DEF Ahead
<1>5. "engine" \notin Spared[Owner] /\ {"engine"} # Events
  BY SparedEach DEF Events
<1>6. setup.at <= k
  <2>1. ~(k < setup.at)
    BY <1>4, <1>5 DEF SetupInv, StepsLeft
  <2> QED BY <1>1, <2>1
<1>7. SUFFICES ASSUME r \notin Excused PROVE FALSE
  OBVIOUS
<1>8. PICK i \in 1 .. Len(Steps) :
        r \in Steps[i] /\ (i < setup.at \/ (i = setup.at /\ r \in part))
  BY <1>7 DEF SetupInv, HeldInOrder
<1>9. i = k
  <2>1. ~(i \in 1 .. k - 1)
    BY <1>4, <1>7, <1>8 DEF Excused
  <2> QED BY <1>1, <1>6, <1>8, <2>1
<1>10. i = setup.at /\ r \in part /\ setup.at = k
  BY <1>1, <1>6, <1>8, <1>9
<1>11. Unkept = {}
  BY DEF Unkept
<1> QED
  BY <1>4, <1>10, <1>11

(* What an end of the transport still has when a step of its start() has   *)
(* failed is what it leaves.                                               *)
LEMMA OnlyLeft ==
  ASSUME SetupInv, EndOfTransport, ~Running, MayFail, NEW r \in taken,
         r \notin Excused, r \notin TransportFrees
  PROVE  r \in LeftByStart
<1>1. setup.at \in 1 .. Len(Steps) /\ setup.at \in Nat
  BY DEF SetupInv, Setups, MayFail
<1>2. PICK i \in 1 .. Len(Steps) : r \in Steps[i] /\ i < setup.at
  BY DEF SetupInv, HeldInOrder
<1>3. CASE Owner = "sink"
  <2>1. setup.at \in {1, 2, 3, 4}
    BY <1>1, <1>3, SinkMayFail
  <2>2. i \in {1, 2, 3} /\ (i < 3 \/ setup.at = 4)
    BY <1>2, <1>3, <2>1, SinkSteps
  <2>3. LeftByStart = SinkLeaves[setup.at]
    BY <1>3 DEF LeftByStart
  <2>4. r = "segment" \/ r = "shm_fd" \/ (r = "shm_ptr" /\ setup.at = 4)
    BY <1>2, <1>3, <2>2, SinkSteps
  <2>5. r = "shm_fd" => setup.at = 4
    BY <2>1 DEF TransportFrees
  <2>6. setup.at # 1
    BY <1>2, <1>3, <2>1, SinkSteps
  <2>7. /\ SinkLeaves[2] = {"segment"} /\ SinkLeaves[3] = {"segment"}
        /\ SinkLeaves[4] = {"shm_fd", "shm_ptr", "segment"}
    BY DEF SinkLeaves, OfSegment
  <2> QED BY <2>1, <2>3, <2>4, <2>5, <2>6, <2>7
<1>4. CASE Owner = "appsrc"
  <2>1. setup.at \in {1, 2, 3, 4, 5, 6, 7, 8, 9}
    BY <1>1, <1>4, AppSrcMayFail
  <2>2. i \in {1, 2, 3, 4, 5, 6, 7, 8}
    BY <1>2, <1>4, <2>1, AppSrcSteps, AppSrcIs
  <2>3. LeftByStart = AppSrcLeaves[setup.at]
    BY <1>4 DEF LeftByStart
  <2>4. r # "fds"
    BY <1>4, SparedEach DEF Excused
  <2>5. /\ Steps[1] = {"shm_fd"} /\ Steps[2] = {} /\ Steps[3] = {"shm_ptr"}
        /\ Steps[4] = {} /\ Steps[5] = {"socket_fd"} /\ Steps[6] = {}
        /\ Steps[7] = {"fds"} /\ Steps[8] = {"surface0"}
    BY <1>4, AppSrcSteps, AppSrcIs
  <2>6. \/ r = "shm_fd" /\ i = 1
        \/ r = "shm_ptr" /\ i = 3
        \/ r = "socket_fd" /\ i = 5
        \/ r = "surface0" /\ i = 8
    BY <1>2, <2>2, <2>4, <2>5
  <2>7. r = "shm_fd" => ~(setup.at <= 3)
    BY DEF TransportFrees
  <2>8. r = "socket_fd" => setup.at \notin {6, 7}
    BY <1>4, <2>1 DEF TransportFrees
  <2>9. /\ \A k \in {4, 5, 6, 7} : AppSrcLeaves[k] = {"shm_fd", "shm_ptr"}
        /\ AppSrcLeaves[8] = {"shm_fd", "shm_ptr", "socket_fd"}
        /\ AppSrcLeaves[9] = {"shm_fd", "shm_ptr", "socket_fd", "surface0"}
    BY DEF AppSrcLeaves, OfSegment
  <2>10. CASE r = "shm_fd"
    BY <2>1, <2>3, <2>7, <2>9, <2>10
  <2>11. CASE r = "shm_ptr" /\ i = 3
    BY <1>2, <2>1, <2>3, <2>9, <2>11
  <2>12. CASE r = "socket_fd" /\ i = 5
    BY <1>2, <2>1, <2>3, <2>8, <2>9, <2>12
  <2>13. CASE r = "surface0" /\ i = 8
    BY <1>2, <2>1, <2>3, <2>9, <2>13
  <2> QED BY <2>6, <2>10, <2>11, <2>12, <2>13
<1> QED
  BY <1>3, <1>4 DEF EndOfTransport

LEMMA LeftTyped ==
  ASSUME setup \in Setups, MayFail
  PROVE  LeftByStart \subseteq Leavable
<1>1. setup.at \in 1 .. Len(Steps) /\ setup.at \in Nat
  BY DEF Setups, MayFail
<1>2. CASE Running \/ (Owner # "sink" /\ Owner # "appsrc")
  BY <1>2 DEF LeftByStart
<1>3. CASE ~Running /\ Owner = "sink"
  <2>1. setup.at \in {1, 2, 3, 4}
    BY <1>1, <1>3, SinkMayFail
  <2>2. \A k \in {1, 2, 3, 4} : SinkLeaves[k] \subseteq Leavable
    BY DEF SinkLeaves, Leavable
  <2> QED BY <1>3, <2>1, <2>2 DEF LeftByStart
<1>4. CASE ~Running /\ Owner = "appsrc"
  <2>1. setup.at \in {1, 2, 3, 4, 5, 6, 7, 8, 9}
    BY <1>1, <1>4, AppSrcMayFail
  <2>2. \A k \in {1, 2, 3, 4, 5, 6, 7, 8, 9} : AppSrcLeaves[k] \subseteq Leavable
    BY DEF AppSrcLeaves, Leavable
  <2>3. LeftByStart = AppSrcLeaves[setup.at]
    BY <1>4 DEF LeftByStart
  <2> QED BY <2>1, <2>2, <2>3
<1> QED
  BY <1>2, <1>3, <1>4

(* What setup is after a failure.                                          *)
LEMMA FailedIs ==
  ASSUME setup \in Setups, NEW l \in SUBSET Leavable
  PROVE  LET new == [Failed EXCEPT !.left = @ \union l] IN
         /\ new \in Setups /\ new.owner = setup.owner
         /\ new.left = setup.left \union l
         /\ ~Running => new.at = 0 /\ new.broken = TRUE
         /\ Running /\ Owner = "detgate" => new.at = 1 /\ new.broken = setup.broken
         /\ Running /\ Owner # "detgate" => new.at = setup.at /\ new.broken = TRUE
<1> DEFINE new == [Failed EXCEPT !.left = @ \union l]
<1>1. 0 \in Nat /\ 1 \in Nat /\ TRUE \in BOOLEAN /\ {} \in SUBSET Leavable
  OBVIOUS
<1>2. /\ Failed \in Setups /\ Failed.owner = setup.owner /\ Failed.left = setup.left
      /\ ~Running => Failed.at = 0 /\ Failed.broken = TRUE
      /\ Running /\ Owner = "detgate" => Failed.at = 1 /\ Failed.broken = setup.broken
      /\ Running /\ Owner # "detgate" => Failed.at = setup.at /\ Failed.broken = TRUE
  <2>1. CASE ~Running
    BY <1>1, <2>1, SetupAfter DEF Failed
  <2>2. CASE Running /\ Owner = "detgate"
    BY <1>1, <2>2, SetupAfter DEF Failed
  <2>3. CASE Running /\ Owner # "detgate"
    BY <1>1, <2>3, SetupAfter DEF Failed
  <2> QED BY <2>1, <2>2, <2>3
<1>3. /\ new \in Setups /\ new.owner = Failed.owner /\ new.at = Failed.at
      /\ new.broken = Failed.broken /\ new.left = Failed.left \union l
  BY <1>2 DEF Setups
<1> HIDE DEF new
<1>4. /\ new \in Setups /\ new.owner = setup.owner /\ new.left = setup.left \union l
      /\ ~Running => new.at = 0 /\ new.broken = TRUE
      /\ Running /\ Owner = "detgate" => new.at = 1 /\ new.broken = setup.broken
      /\ Running /\ Owner # "detgate" => new.at = setup.at /\ new.broken = TRUE
  BY <1>2, <1>3
<1> QED
  BY Zenon, <1>4 DEF new

(* The pieces of StepFails.                                                *)
LEMMA StepFailsKeeps ==
  ASSUME SetupInv, StepFails
  PROVE  SetupInv'
<1> DEFINE emptied == Steps[setup.at] \intersect AlwaysAssigned
<1>1. setup \in Setups /\ Owner \in DOMAIN Frees /\ setup.at \in Nat /\ OfSteps
  BY DEF SetupInv, Setups, Owner
<1>2. setup.at \in 1 .. Len(Steps) /\ ~setup.broken /\ MayFail
  BY DEF StepFails, MayFail
<1>3. PICK part \in SUBSET Steps[setup.at] :
        /\ part = {} \/ (part # Steps[setup.at] /\ ~EndOfTransport) \/ part \subseteq Unkept
        /\ taken' = ((taken \ emptied) \union (part \ Unkept)) \ FreedByFailure
        /\ lost' = lost \union (part \intersect Unkept)
                     \union (taken \intersect (part \union emptied))
  BY DEF StepFails
<1>4. setup' = [Failed EXCEPT !.left = @ \union LeftByStart] /\ LeftByStart \in SUBSET Leavable
  BY <1>1, <1>2, LeftTyped DEF StepFails
<1>6. /\ setup' \in Setups /\ setup'.owner = setup.owner
      /\ setup'.left = setup.left \union LeftByStart
      /\ ~Running => setup'.at = 0 /\ setup'.broken = TRUE
      /\ Running /\ Owner = "detgate" => setup'.at = 1 /\ setup'.broken = setup.broken
      /\ Running /\ Owner # "detgate" => setup'.at = setup.at /\ setup'.broken = TRUE
  BY Zenon, <1>1, <1>4, FailedIs
<1>7. /\ Owner' = Owner /\ Steps' = Steps /\ EndOfTransport' = EndOfTransport
      /\ Excused' = Excused \union LeftByStart
  BY <1>6, StepsKept DEF Excused
<1>10. \A i \in 1 .. Len(Steps) : ~(i < 0) /\ ~(i < 1)
  BY <1>1, OwnerFacts
<1>11. lost' \subseteq Excused
  <2>1. part \intersect Unkept \subseteq Excused
    <3>1. Unkept \subseteq Spared[Owner]
      BY SparedEach DEF Unkept
    <3> QED BY <3>1 DEF Excused
  <2>2. \A r \in taken \intersect Steps[setup.at] : r \in Excused
    BY <1>2, TakenTwice
  <2>3. taken \intersect (part \union emptied) \subseteq taken \intersect Steps[setup.at]
    BY <1>3
  <2>4. lost \subseteq Excused
    BY DEF SetupInv
  <2> QED BY <1>3, <2>1, <2>2, <2>3, <2>4
<1>12. /\ part \subseteq Steps[setup.at]
       /\ \A r \in taken' : r \in taken \union part /\ r \notin FreedByFailure
       /\ EndOfTransport => part = {}
  <2>1. EndOfTransport => Unkept = {}
    BY DEF EndOfTransport, Unkept
  <2> QED BY <1>3, <2>1
<1>13. OfSteps'
  <2> SUFFICES ASSUME NEW r \in taken' PROVE \E i \in 1 .. Len(Steps) : r \in Steps[i]
    BY <1>7 DEF OfSteps
  <2> QED BY <1>1, <1>2, <1>12 DEF OfSteps
<1>14. SUFFICES HeldInOrder' /\ StepsLeft' /\ AtRest' /\ (setup'.broken /\ Owner = "sink" /\ Running' => MayFail')
  BY <1>6, <1>7, <1>11, <1>13 DEF SetupInv
<1>15. CASE ~Running \/ Owner = "detgate"
  <2>1. taken' \subseteq Excused'
    <3> SUFFICES ASSUME NEW r \in taken', r \notin Excused' PROVE FALSE
      OBVIOUS
    <3>1. r \notin Excused /\ r \notin LeftByStart
      BY <1>7
    <3>2. CASE FreedByFailure = Frees[Owner]
      <4>1. r \in taken \union part /\ r \notin Frees[Owner]
        BY <1>12, <3>2
      <4>2. \E j \in 1 .. Len(Steps) : part \subseteq Steps[j]
        BY <1>2, <1>12
      <4>3. r \in Spared[Owner]
        BY <1>1, <4>1, <4>2, OnlySparedLeft
      <4> QED BY <3>1, <4>3 DEF Excused
    <3>3. CASE EndOfTransport
      <4>1. ~Running /\ FreedByFailure = TransportFrees
        BY <1>15, <3>3 DEF FreedByFailure, FreesOnFailure, EndOfTransport
      <4>2. r \in taken /\ r \notin TransportFrees
        BY <1>12, <3>3, <4>1
      <4> QED BY <1>2, <3>1, <3>3, <4>1, <4>2, OnlyLeft
    <3>4. CASE FreedByFailure # Frees[Owner] /\ ~EndOfTransport
      <4>1. /\ ~Running /\ FreesOnFailure = {"stream"} /\ FreedByFailure = {"stream"}
            /\ Owner \in {"infer", "secondary"} /\ "engine" \notin taken
        BY <1>15, <3>4 DEF FreedByFailure, FreesOnFailure, Frees
      <4>2. r \in taken \union part /\ r # "stream"
        BY <1>12, <4>1
      <4> QED BY <1>2, <1>3, <3>1, <4>1, <4>2, BeforeTheEngine
    <3> QED BY <3>2, <3>3, <3>4
  <2>2. (setup'.at = 0 /\ setup'.broken) \/ (setup'.at = 1 /\ ~setup'.broken)
    BY <1>2, <1>6, <1>15
  <2>3. \A i \in 1 .. Len(Steps) : ~(i < setup'.at)
    BY <1>10, <2>2
  <2>4. HeldInOrder' /\ StepsLeft'
    BY <1>7, <2>1, <2>3 DEF HeldInOrder, StepsLeft
  <2>5. AtRest'
    BY <2>1, <2>2 DEF AtRest, Excused
  <2>6. setup'.broken /\ Owner = "sink" => ~Running'
    <3>1. ASSUME setup'.at = 0, Owner = "sink" PROVE ~Running'
      <4>1. Len(Starting[Owner]) = 5
        BY <3>1, SinkSteps
      <4> QED BY <1>7, <3>1, <4>1 DEF Running
    <3> QED BY <2>2, <3>1
  <2> QED BY <2>4, <2>5, <2>6
<1>16. CASE Running /\ Owner # "detgate"
  <2>1. setup'.at = setup.at /\ setup'.broken = TRUE
    BY <1>6, <1>16
  <2>2. FreedByFailure = {}
    BY <1>16 DEF FreedByFailure
  <2>3. HeldInOrder'
    <3> SUFFICES ASSUME NEW r \in taken', r \notin Excused
                 PROVE  \E i \in 1 .. Len(Steps) :
                          r \in Steps[i] /\ (i < setup.at \/ (i = setup.at /\ ~EndOfTransport))
      BY <1>7, <2>1 DEF HeldInOrder
    <3>1. CASE r \in taken
      BY <1>2, <3>1 DEF SetupInv, HeldInOrder
    <3>2. CASE r \in part
      BY <1>2, <1>12, <3>2
    <3> QED BY <1>12, <3>1, <3>2
  <2>4. StepsLeft'
    <3> SUFFICES ASSUME NEW i \in 1 .. Len(Steps), i < setup.at, Steps[i] # Events
                 PROVE  Steps[i] \subseteq taken' \union Spared[Owner]
      BY <1>7, <2>1 DEF StepsLeft
    <3>1. Steps[i] \intersect Steps[setup.at] = {}
      <4>1. i # setup.at
        BY <1>1
      <4> QED BY <1>1, <1>2, <4>1, OwnerFacts
    <3>2. Steps[i] \subseteq taken \union Spared[Owner]
      BY DEF SetupInv, StepsLeft
    <3> QED BY <1>3, <2>2, <3>1, <3>2
  <2>5. AtRest' /\ MayFail'
    BY <1>1, <1>2, <1>7, <2>1 DEF AtRest, MayFail
  <2> QED BY <2>3, <2>4, <2>5
<1> QED
  BY <1>15, <1>16

LEMMA SetupStarts == SetupInit => SetupInv
<1> SUFFICES ASSUME SetupInit PROVE SetupInv
  OBVIOUS
<1>1. PICK o \in DOMAIN Frees :
        setup = [owner |-> o, at |-> 0, broken |-> FALSE, left |-> {}]
  BY DEF SetupInit
<1>2. setup \in Setups /\ setup.at = 0 /\ ~setup.broken /\ Owner \in DOMAIN Frees
  BY <1>1 DEF Setups, Owner
<1>3. \A i \in 1 .. Len(Steps) : ~(i < 0)
  BY <1>2, OwnerFacts
<1> QED
  BY <1>2, <1>3 DEF SetupInit, SetupInv, HeldInOrder, StepsLeft, OfSteps, AtRest

LEMMA SetupStep == SetupInv /\ [SetupNext]_setupVars => SetupInv'
<1> SUFFICES ASSUME SetupInv, [SetupNext]_setupVars PROVE SetupInv'
  OBVIOUS
<1>1. CASE Begin
  BY <1>1, BeginKeeps
<1>2. CASE TakeStep
  BY <1>2, TakeStepKeeps
<1>3. CASE StepFails
  BY <1>3, StepFailsKeeps
<1>4. CASE SkipEvents
  BY <1>4, SkipEventsKeeps
<1>5. CASE CapsAgain
  BY <1>5, CapsAgainKeeps
<1>6. CASE NewCaps
  BY <1>6, NewCapsKeeps
<1>7. CASE StopOwner
  BY <1>7, StopKeeps
<1>8. CASE UNCHANGED setupVars
  BY <1>8 DEF setupVars, SetupInv, Setups, Excused, HeldInOrder, StepsLeft, OfSteps, AtRest,
     Owner, Steps, EndOfTransport, Running, MayFail
<1> QED
  BY <1>1, <1>2, <1>3, <1>4, <1>5, <1>6, <1>7, <1>8 DEF SetupNext

LEMMA InvLeavesNothingElse == SetupInv => NothingElseLeft
BY DEF SetupInv, AtRest, Excused, NothingElseLeft

(***************************************************************************)
(* However often an element is started and whichever of its steps fails, a *)
(* stopped one holds nothing and has lost nothing, but for the leaks that  *)
(* NothingElseLeft names, those of the two ends of the transport by the    *)
(* step that failed: for any number of starts, where the runs have a few.  *)
(***************************************************************************)
THEOREM NothingElseIsLeft == SetupSpec => []NothingElseLeft
<1>1. SetupSpec => []SetupInv
  BY SetupStarts, SetupStep, PTL DEF SetupSpec
<1> QED
  BY <1>1, InvLeavesNothingElse, PTL
=============================================================================
