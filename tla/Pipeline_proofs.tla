-------------------------- MODULE Pipeline_proofs ---------------------------
(***************************************************************************)
(* Proofs about SecondaryInfer on its own, then about Tracker, then about  *)
(* Pipeline, in which the one feeds the other: for every set of things,    *)
(* classes and places, every width, threshold, interval and age, and any   *)
(* number of frames and tracks.                                            *)
(***************************************************************************)
EXTENDS Pipeline, FiniteSetTheorems, TLAPS


(* The safety invariants are inductive together: expire and due read only  *)
(* what they bound.                                                        *)
IInv == TypeOK /\ AgesOrdered /\ FreshEnough /\ MetaAgrees

(* A frame is a function from the objects it shows to labels.              *)
LEMMA FrameType ==
  ASSUME NEW frame \in Frames
  PROVE  /\ DOMAIN frame \subseteq Ids \union {Untracked}
         /\ \A i \in DOMAIN frame : frame[i] \in Labels
BY DEF Frames

LEMMA InferredType ==
  ASSUME NEW frame \in Frames
  PROVE  \A i \in Inferred(frame) : i \in DOMAIN frame /\ frame[i] \in Classes
BY FrameType DEF Inferred, Labels

LEMMA AfterType ==
  ASSUME IInv, frameNo \in Nat, NEW frame \in Frames, NEW i \in Ids,
         Kept(i) \/ i \in Inferred(frame)
  PROVE  /\ After(frame, i) \in Entry
         /\ i \in Inferred(frame) =>
              /\ After(frame, i).class = frame[i]
              /\ After(frame, i).infer = frameNo
              /\ After(frame, i).seen = frameNo
         /\ i \notin Inferred(frame) =>
              /\ i \in cached
              /\ After(frame, i).class = entries[i].class
              /\ After(frame, i).infer = entries[i].infer
              /\ After(frame, i).seen =
                   IF i \in DOMAIN frame THEN frameNo ELSE entries[i].seen
<1>1. CASE i \in Inferred(frame)
  BY <1>1, InferredType DEF After, Entry
<1>2. CASE i \notin Inferred(frame)
  <2>1. i \in cached /\ entries[i] \in Entry
    BY <1>2 DEF IInv, TypeOK, Kept
  <2>2. CASE i \in DOMAIN frame
    BY <1>2, <2>1, <2>2 DEF After, Entry
  <2>3. CASE i \notin DOMAIN frame
    BY <1>2, <2>1, <2>3 DEF After, Entry
  <2> QED BY <2>2, <2>3
<1> QED BY <1>1, <1>2

LEMMA InitIInv == Init => IInv
<1> SUFFICES ASSUME Init PROVE IInv
  OBVIOUS
<1>1. DOMAIN Empty = {}
  BY DEF Empty
<1>2. Empty \in [DOMAIN Empty -> Entry] /\ Empty \in [DOMAIN Empty -> ClassEntries]
  BY DEF Empty
<1>3. TypeOK
  <2>1. cached \subseteq Ids /\ entries \in [cached -> Entry]
    BY <1>1, <1>2 DEF Init, cached
  <2>2. DOMAIN meta \subseteq Ids \union {Untracked} /\ meta \in [DOMAIN meta -> ClassEntries]
    BY <1>1, <1>2 DEF Init
  <2>3. frameNo \in 0 .. MaxFrames /\ excused \in [Ids -> Nat]
    BY SecondaryInferAssumption DEF Init
  <2>4. running \in BOOLEAN
    BY DEF Init
  <2> QED BY <2>1, <2>2, <2>3, <2>4 DEF TypeOK
<1> QED
  BY <1>1, <1>3 DEF Init, IInv, AgesOrdered, FreshEnough, MetaAgrees, cached

(* start() and stop() leave an empty cache and no meta.                    *)
LEMMA ResetIInv == IInv /\ (Start \/ Stop) => IInv'
<1> SUFFICES ASSUME IInv, Start \/ Stop PROVE IInv'
  OBVIOUS
<1>1. DOMAIN Empty = {}
  BY DEF Empty
<1>2. Empty \in [DOMAIN Empty -> Entry] /\ Empty \in [DOMAIN Empty -> ClassEntries]
  BY DEF Empty
<1>3. entries' = Empty /\ meta' = Empty
  BY DEF Start, Stop
<1>4. frameNo' \in 0 .. MaxFrames /\ excused' \in [Ids -> Nat]
  BY SecondaryInferAssumption DEF Start, Stop, IInv, TypeOK
<1>6. running' \in BOOLEAN
  BY DEF Start, Stop
<1>5. TypeOK'
  <2>1. cached' \subseteq Ids /\ entries' \in [cached' -> Entry]
    BY <1>1, <1>2, <1>3 DEF cached
  <2>2. /\ DOMAIN meta' \subseteq Ids \union {Untracked}
        /\ meta' \in [DOMAIN meta' -> ClassEntries]
    BY <1>1, <1>2, <1>3
  <2> QED BY <1>4, <1>6, <2>1, <2>2 DEF TypeOK
<1> QED
  BY <1>1, <1>3, <1>5 DEF IInv, AgesOrdered, FreshEnough, MetaAgrees, cached

LEMMA TransformIInv ==
  ASSUME IInv, NEW frame \in Frames, TransformIp(frame)
  PROVE  IInv'
<1> DEFINE kept == {k \in Ids : Kept(k) \/ k \in Inferred(frame)}
<1>1. frameNo \in Nat /\ frameNo' = frameNo + 1 /\ frameNo' \in 0 .. MaxFrames
  BY SecondaryInferAssumption DEF IInv, TypeOK, TransformIp
<1>2. cached' = kept /\ entries' = [i \in kept |-> After(frame, i)]
  BY DEF TransformIp, cached
<1>3. \A i \in kept : i \in Ids /\ entries'[i] = After(frame, i) /\ entries'[i] \in Entry
  BY <1>1, <1>2, AfterType
<1>4. \A i \in Ids : excused[i] \in Nat /\ excused'[i] \in Nat
  BY DEF IInv, TypeOK, TransformIp
<1>5. meta' = [i \in DOMAIN frame |-> ClassEntry(frame, i)]
  BY DEF TransformIp
<1>6. \A i \in DOMAIN frame : ClassEntry(frame, i) \in ClassEntries
  BY FrameType, InferredType DEF ClassEntry, ClassEntries, Labels, Kept, IInv, TypeOK, Entry
<1>7. TypeOK'
  <2>1. cached' \subseteq Ids /\ entries' \in [cached' -> Entry]
    BY <1>2, <1>3
  <2>2. /\ DOMAIN meta' \subseteq Ids \union {Untracked}
        /\ meta' \in [DOMAIN meta' -> ClassEntries]
    BY <1>5, <1>6, FrameType
  <2>3. running' \in BOOLEAN /\ excused' \in [Ids -> Nat]
    BY <1>4 DEF IInv, TypeOK, TransformIp
  <2> QED BY <1>1, <2>1, <2>2, <2>3 DEF TypeOK
<1>8. AgesOrdered'
  <2> SUFFICES ASSUME NEW i \in kept
               PROVE  /\ entries'[i].infer <= entries'[i].seen
                      /\ entries'[i].seen < frameNo'
                      /\ frameNo' - 1 - entries'[i].seen <= MaxAge
    BY <1>2 DEF AgesOrdered
  <2>1. CASE i \in Inferred(frame)
    BY <1>1, <1>2, <1>3, <2>1, AfterType, SecondaryInferAssumption
  <2>2. CASE i \notin Inferred(frame)
    <3>1. i \in cached /\ Kept(i) /\ entries[i] \in Entry
      BY <2>2 DEF Kept, IInv, TypeOK
    <3>2. /\ entries'[i].infer = entries[i].infer
          /\ entries'[i].seen = IF i \in DOMAIN frame THEN frameNo ELSE entries[i].seen
      BY <1>1, <1>2, <1>3, <2>2, AfterType
    <3>3. /\ entries[i].infer <= entries[i].seen
          /\ entries[i].seen < frameNo
          /\ frameNo - entries[i].seen <= MaxAge
      BY <3>1 DEF IInv, AgesOrdered, Kept
    <3> QED BY <1>1, <3>1, <3>2, <3>3, SecondaryInferAssumption DEF Entry
  <2> QED BY <2>1, <2>2
<1>9. FreshEnough'
  <2> SUFFICES ASSUME NEW i \in kept
               PROVE  frameNo' - entries'[i].infer <= InferInterval + excused'[i]
    BY <1>2 DEF FreshEnough
  <2>1. CASE i \in Inferred(frame)
    BY <1>1, <1>2, <1>3, <1>4, <2>1, AfterType, SecondaryInferAssumption
  <2>2. CASE i \notin Inferred(frame)
    <3>1. i \in cached /\ Kept(i) /\ entries[i] \in Entry
      BY <2>2 DEF Kept, IInv, TypeOK
    <3>2. entries'[i].infer = entries[i].infer
      BY <1>1, <1>2, <1>3, <2>2, AfterType
    <3>3. frameNo - entries[i].infer <= InferInterval + excused[i]
      BY <3>1 DEF IInv, FreshEnough
    <3>4. CASE i \in DOMAIN frame /\ frame[i] # NoLabel
      <4>1. ~Due(i)
        BY <2>2, <3>1, <3>4 DEF Inferred
      <4> QED BY <1>1, <1>4, <3>1, <3>2, <4>1, SecondaryInferAssumption DEF Due, Entry
    <3>5. CASE ~(i \in DOMAIN frame /\ frame[i] # NoLabel)
      <4>1. excused'[i] = excused[i] + 1
        BY <1>2, <2>2, <3>5 DEF TransformIp
      <4> QED BY <1>1, <1>4, <3>1, <3>2, <3>3, <4>1, SecondaryInferAssumption DEF Entry
    <3> QED BY <3>4, <3>5
  <2> QED BY <2>1, <2>2
<1>10. MetaAgrees'
  <2> SUFFICES ASSUME NEW i \in Ids \intersect DOMAIN frame
               PROVE  /\ meta'[i].class = Label(i)'
                      /\ meta'[i].fresh <=> i \in cached' /\ entries'[i].infer + 1 = frameNo'
    BY <1>5 DEF MetaAgrees
  <2>1. /\ meta'[i].class = IF i \in Inferred(frame) THEN frame[i]
                            ELSE IF Kept(i) THEN entries[i].class ELSE NoLabel
        /\ meta'[i].fresh <=> i \in Inferred(frame)
    BY <1>5 DEF ClassEntry
  <2>2. i \in cached' <=> Kept(i) \/ i \in Inferred(frame)
    BY <1>2
  <2>3. /\ i \in Inferred(frame) => entries'[i].class = frame[i]
        /\ i \notin Inferred(frame) /\ Kept(i) => entries'[i].class = entries[i].class
    BY <1>1, <1>2, <1>3, AfterType
  <2>4. meta'[i].class = Label(i)'
    BY <2>1, <2>2, <2>3 DEF Label
  <2>5. i \in Inferred(frame) <=> i \in cached' /\ entries'[i].infer + 1 = frameNo'
    <3>1. CASE i \in Inferred(frame)
      BY <1>1, <1>2, <1>3, <2>2, <3>1, AfterType
    <3>2. CASE i \notin Inferred(frame) /\ Kept(i)
      <4>1. i \in cached /\ entries[i] \in Entry
        BY <3>2 DEF Kept, IInv, TypeOK
      <4>2. entries[i].infer < frameNo
        BY <1>1, <4>1 DEF IInv, AgesOrdered, Entry
      <4>3. entries'[i].infer = entries[i].infer
        BY <1>1, <1>2, <1>3, <3>2, AfterType
      <4> QED BY <1>1, <3>2, <4>1, <4>2, <4>3 DEF Entry
    <3>3. CASE i \notin Inferred(frame) /\ ~Kept(i)
      BY <2>2, <3>3
    <3> QED BY <3>1, <3>2, <3>3
  <2> QED BY <2>1, <2>4, <2>5
<1> QED BY <1>7, <1>8, <1>9, <1>10 DEF IInv

LEMMA NextIInv == IInv /\ [Next]_vars => IInv'
<1> SUFFICES ASSUME IInv, [Next]_vars PROVE IInv'
  OBVIOUS
<1>1. CASE Start \/ Stop
  BY <1>1, ResetIInv
<1>2. ASSUME NEW frame \in Frames, TransformIp(frame) PROVE IInv'
  BY <1>2, TransformIInv
<1>3. CASE UNCHANGED vars
  BY <1>3 DEF vars, IInv, TypeOK, AgesOrdered, FreshEnough, MetaAgrees, cached, Label
<1> QED BY <1>1, <1>2, <1>3 DEF Next

LEMMA IInvAlways == Spec => []IInv
BY InitIInv, NextIInv, PTL DEF Spec

(* No subtraction of frame numbers underflows, no entry outlives           *)
(* max_track_age, and the meta shows what the cache holds.                 *)
THEOREM Safety == Spec => [](TypeOK /\ AgesOrdered /\ MetaAgrees)
<1>1. IInv => TypeOK /\ AgesOrdered /\ MetaAgrees
  BY DEF IInv
<1> QED BY <1>1, IInvAlways, PTL

(* No answer is older than its interval, but for the frames that gave      *)
(* none.                                                                   *)
THEOREM AnswersAreFresh == Spec => []FreshEnough
<1>1. IInv => FreshEnough
  BY DEF IInv
<1> QED BY <1>1, IInvAlways, PTL

-----------------------------------------------------------------------------
(* The cache implements the memory: a frame of the element is a frame of   *)
(* the memory that shows the tracked objects and teaches the new answers.  *)
LEMMA FrameImplements ==
  ASSUME IInv, NEW frame \in Frames, TransformIp(frame)
  PROVE  Memory!Next
<1> DEFINE seen == Ids \intersect DOMAIN frame
           learned == [i \in Ids |-> IF i \in Inferred(frame) THEN frame[i] ELSE NoLabel]
           kept == {k \in Ids : Kept(k) \/ k \in Inferred(frame)}
<1>1. frameNo \in Nat /\ frameNo' = frameNo + 1
  BY SecondaryInferAssumption DEF IInv, TypeOK, TransformIp
<1>2. cached' = kept /\ entries' = [i \in kept |-> After(frame, i)]
  BY DEF TransformIp, cached
<1>3. \A i \in Inferred(frame) : i \in DOMAIN frame /\ frame[i] \in Classes /\ frame[i] # NoLabel
  BY InferredType, SecondaryInferAssumption
<1>4. seen \in SUBSET Ids /\ learned \in [Ids -> Classes \union {NoLabel}]
  BY <1>3
<1>5. \A i \in Ids \ seen : learned[i] = NoLabel
  BY <1>3
<1>6. Ids \intersect DOMAIN meta' = seen
  BY DEF TransformIp
<1>7. ASSUME NEW i \in Ids
      PROVE  Gap(i) >= MaxAge <=> i \in cached /\ ~Kept(i)
  <2>1. CASE i \in cached
    <3>1. entries[i] \in Entry
      BY <2>1 DEF IInv, TypeOK
    <3> QED BY <1>1, <2>1, <3>1, SecondaryInferAssumption DEF Gap, Kept, Entry
  <2>2. CASE i \notin cached
    BY <2>2, SecondaryInferAssumption DEF Gap
  <2> QED BY <2>1, <2>2
<1>8. ASSUME NEW i \in Ids
      PROVE  Label(i)' = IF learned[i] # NoLabel THEN learned[i]
                         ELSE IF Gap(i) >= MaxAge THEN NoLabel
                         ELSE Label(i)
  <2>1. CASE i \in Inferred(frame)
    BY <1>1, <1>2, <1>3, <2>1, AfterType DEF Label
  <2>2. CASE i \notin Inferred(frame) /\ Kept(i)
    <3>1. i \in cached /\ ~(Gap(i) >= MaxAge)
      BY <1>7, <2>2 DEF Kept
    <3>2. entries'[i].class = entries[i].class
      BY <1>1, <1>2, <2>2, AfterType
    <3> QED BY <1>2, <2>2, <3>1, <3>2 DEF Label
  <2>3. CASE i \notin Inferred(frame) /\ ~Kept(i)
    BY <1>2, <1>7, <2>3 DEF Label
  <2> QED BY <2>1, <2>2, <2>3
<1>9. ASSUME NEW i \in Ids
      PROVE  Gap(i)' = IF i \in seen \/ Label(i) = NoLabel \/ Gap(i) >= MaxAge THEN 0
                       ELSE Gap(i) + 1
  <2>1. CASE i \in Inferred(frame)
    BY <1>1, <1>2, <1>3, <2>1, AfterType DEF Gap
  <2>2. CASE i \notin Inferred(frame) /\ Kept(i)
    <3>1. i \in cached /\ entries[i] \in Entry /\ ~(Gap(i) >= MaxAge)
      BY <1>7, <2>2 DEF Kept, IInv, TypeOK
    <3>2. Label(i) # NoLabel
      BY <3>1, SecondaryInferAssumption DEF Label, Entry
    <3>3. i \in cached' /\ entries'[i].seen = IF i \in DOMAIN frame THEN frameNo ELSE entries[i].seen
      BY <1>1, <1>2, <2>2, AfterType
    <3> QED BY <1>1, <3>1, <3>2, <3>3 DEF Gap, Entry
  <2>3. CASE i \notin Inferred(frame) /\ ~Kept(i)
    <3>1. i \notin cached' /\ Gap(i)' = 0
      BY <1>2, <2>3 DEF Gap
    <3>2. i \notin cached => Label(i) = NoLabel
      BY DEF Label
    <3> QED BY <1>7, <2>3, <3>1, <3>2
  <2> QED BY <2>1, <2>2, <2>3
<1>10. Memory!Frame(seen)
  BY <1>4, <1>5, <1>6, <1>8, <1>9 DEF Memory!Frame, Memory!Forgotten
<1> QED BY <1>4, <1>10 DEF Memory!Next

(* Every execution of the element is one of the memory.                    *)
THEOREM Implements == Spec => ImplementsMemory
<1>1. Init => Memory!Init
  BY DEF Init, Memory!Init, Empty, cached, Label, Gap
<1>2. ASSUME Start \/ Stop PROVE Memory!Next
  <2>1. cached' = {} /\ DOMAIN meta' = {}
    BY <1>2 DEF Start, Stop, Empty, cached
  <2> QED BY <2>1 DEF Memory!Next, Memory!Reset, Label, Gap
<1>3. ASSUME UNCHANGED vars
      PROVE  UNCHANGED <<Ids \intersect DOMAIN meta, [i \in Ids |-> Label(i)], [i \in Ids |-> Gap(i)]>>
  BY <1>3 DEF vars, Label, Gap, cached
<1>4. IInv /\ [Next]_vars =>
        [Memory!Next]_<<Ids \intersect DOMAIN meta, [i \in Ids |-> Label(i)], [i \in Ids |-> Gap(i)]>>
  BY <1>2, <1>3, FrameImplements DEF Next
<1> QED BY <1>1, <1>4, IInvAlways, PTL DEF Spec, ImplementsMemory, Memory!Spec
-----------------------------------------------------------------------------
(***************************************************************************)
(* nvmmtracker.  The detections of a frame are taken one after the other,  *)
(* and so are the tracks that are left (module Folding).                   *)
(***************************************************************************)
Associating == INSTANCE Folding WITH Op <- Associate
Sifting == INSTANCE Folding WITH Op <- Surviving

Tracks == [id : Nat, place : Places, class : DetClasses, age : Nat]

TrackerInv ==
  /\ tracks \in Seq(Tracks)
  /\ tracking \in BOOLEAN
  /\ nextId \in 1 .. MaxId + 1
  /\ unseen \in [1 .. MaxId -> Nat]
  /\ \A k \in DOMAIN tracks : tracks[k].id \in 1 .. nextId - 1
  /\ \A j, k \in DOMAIN tracks : tracks[j].id = tracks[k].id => j = k
  /\ \A k \in DOMAIN tracks :
       tracks[k].age <= MaxTrackAge /\ tracks[k].age <= unseen[tracks[k].id]
  /\ ~tracking => tracks = <<>>
  /\ DistinctIds

LEMMA AssociateRuns ==
  ASSUME NEW Q, NEW b, NEW s \in Seq(Q)
  PROVE  \E run : /\ Associating!IsRun(run, b, s, Len(s))
                  /\ FoldLeft(Associate, b, s) = run[Len(s)]
<1>1. DOMAIN s = 1 .. Len(s) /\ Len(s) \in Nat
  OBVIOUS
<1>2. FoldLeft(Associate, b, s) = Associating!Folded(b, s, DOMAIN s)
  BY Zenon DEF FoldLeft, MapThenFoldSet, Max, Associating!Folded,
               Associating!Unrolled, Associating!Largest
<1> QED
  BY <1>1, <1>2, Associating!FoldRuns, Zenon

LEMMA SurvivingRuns ==
  ASSUME NEW Q, NEW b, NEW s \in Seq(Q)
  PROVE  \E run : /\ Sifting!IsRun(run, b, s, Len(s))
                  /\ FoldLeft(Surviving, b, s) = run[Len(s)]
<1>1. DOMAIN s = 1 .. Len(s) /\ Len(s) \in Nat
  OBVIOUS
<1>2. FoldLeft(Surviving, b, s) = Sifting!Folded(b, s, DOMAIN s)
  BY Zenon DEF FoldLeft, MapThenFoldSet, Max, Sifting!Folded,
               Sifting!Unrolled, Sifting!Largest
<1> QED
  BY <1>1, <1>2, Sifting!FoldRuns, Zenon

LEMMA OverlapType ==
  ASSUME NEW x \in Places, NEW y \in Places
  PROVE  Overlap(x, y) \in 0 .. Width
BY PipelineAssumption DEF Overlap

(* There is a best candidate.                                              *)
LEMMA BestExists ==
  ASSUME NEW trks \in Seq(Tracks), NEW o \in Objects, NEW cands, cands # {},
         cands \subseteq DOMAIN trks
  PROVE  BestOf(o, trks, cands) \in cands
<1> DEFINE short(k) == Width - Overlap(o.place, trks[k].place)
           D == {short(k) : k \in cands}
<1>1. Len(trks) \in Nat /\ DOMAIN trks = 1 .. Len(trks) /\ Width \in Nat
  BY PipelineAssumption
<1>2. \A k \in cands : Overlap(o.place, trks[k].place) \in 0 .. Width /\ k \in 1 .. Len(trks)
  <2> SUFFICES ASSUME NEW k \in cands
               PROVE  Overlap(o.place, trks[k].place) \in 0 .. Width /\ k \in 1 .. Len(trks)
    OBVIOUS
  <2>1. k \in 1 .. Len(trks) /\ trks[k] \in Tracks
    BY <1>1
  <2>2. o.place \in Places /\ trks[k].place \in Places
    BY <2>1 DEF Objects, Tracks
  <2> QED BY <2>1, <2>2, OverlapType
<1>3. D \in SUBSET Nat /\ D # {}
  BY <1>1, <1>2
<1>4. PICK least \in D : \A e \in D : least <= e
  <2> HIDE DEF D
  <2> QED BY <1>3, Associating!LeastOf
<1> DEFINE E == {Len(trks) - k : k \in {j \in cands : short(j) = least}}
<1>5. E \in SUBSET Nat /\ E # {}
  BY <1>1, <1>2, <1>4
<1>6. PICK last \in E : \A e \in E : last <= e
  <2> HIDE DEF E
  <2> QED BY <1>5, Associating!LeastOf
<1>7. PICK k \in cands : short(k) = least /\ last = Len(trks) - k
  BY <1>6
<1>8. ASSUME NEW j \in cands \ {k} PROVE Better(o, trks, k, j)
  <2>1. least <= short(j) /\ least \in Nat
    BY <1>3, <1>4
  <2>2. CASE short(j) = least
    <3>1. Len(trks) - k <= Len(trks) - j
      BY <1>6, <1>7, <2>2
    <3>2. k > j
      <4>1. k \in Nat /\ j \in Nat /\ k # j /\ Len(trks) \in Nat
        <5>1. k \in 1 .. Len(trks) /\ j \in 1 .. Len(trks)
          BY <1>2
        <5>2. Len(trks) \in Nat /\ j # k
          BY <1>1
        <5> QED BY <5>1, <5>2
      <4>2. Len(trks) - k <= Len(trks) - j
        BY <3>1
      <4>3. \A a, b, l \in Nat : a # b /\ l - a <= l - b => a > b
        OBVIOUS
      <4> QED BY <4>1, <4>2, <4>3
    <3>3. Overlap(o.place, trks[k].place) = Overlap(o.place, trks[j].place)
      <4>1. \A v, w \in 0 .. Width : Width - v = Width - w => v = w
        BY <1>1
      <4> QED BY <1>2, <1>7, <2>2, <4>1
    <3> QED BY <3>2, <3>3 DEF Better
  <2>3. CASE short(j) # least
    <3>1. Overlap(o.place, trks[k].place) > Overlap(o.place, trks[j].place)
      <4>1. \A v, w \in 0 .. Width : Width - v <= Width - w /\ Width - w # Width - v => v > w
        BY <1>1
      <4>2. short(k) <= short(j) /\ short(j) # short(k)
        BY <1>7, <2>1, <2>3
      <4> QED BY <1>2, <4>1, <4>2
    <3> QED BY <3>1 DEF Better
  <2> QED BY <2>2, <2>3
<1>9. \E x \in cands : \A j \in cands \ {x} : Better(o, trks, x, j)
  BY <1>8
<1> HIDE DEF D, E, short
<1> QED
  BY <1>9 DEF BestOf

(* The tracks while the detections of a frame are taken: those of before   *)
(* come first, and stand as they were until a detection takes them.        *)
WorkType(i, st) ==
  /\ st.trks \in Seq(Tracks) /\ Len(st.trks) >= Len(tracks)
  /\ st.matched \subseteq 1 .. Len(st.trks)
  /\ st.next = nextId + (Len(st.trks) - Len(tracks))
  /\ st.ids \in Seq(Nat) /\ Len(st.ids) = i

WorkIds(st) ==
  /\ \A k \in DOMAIN st.trks : st.trks[k].id \in 1 .. st.next - 1
  /\ \A j, k \in DOMAIN st.trks : st.trks[j].id = st.trks[k].id => j = k

WorkOld(st) ==
  /\ \A k \in DOMAIN tracks : st.trks[k].id = tracks[k].id
  /\ \A k \in DOMAIN tracks \ st.matched : st.trks[k] = tracks[k]
  /\ \A k \in DOMAIN st.trks \ DOMAIN tracks : st.trks[k].id >= nextId /\ k \in st.matched

(* Each track that was taken or made has its detection, and each detection *)
(* its track.                                                              *)
Shows(objs, st, j, k) ==
  /\ st.ids[j] = st.trks[k].id
  /\ st.trks[k].place = objs[j].place /\ st.trks[k].class = objs[j].class
  /\ st.trks[k].age = 0

WorkShown(objs, i, st) ==
  /\ \A k \in st.matched : \E j \in 1 .. i : Shows(objs, st, j, k)
  /\ \A j \in 1 .. i : \E k \in st.matched : Shows(objs, st, j, k)
  /\ \A j, k \in 1 .. i : st.ids[j] = st.ids[k] => j = k

WorkKept(objs, i, st) ==
  \A j \in 1 .. i, k \in DOMAIN tracks :
    /\ st.ids[j] = tracks[k].id => Overlaps(objs[j], tracks[k])
    /\ OnlyMatch(objs, j, k) => st.ids[j] = tracks[k].id

Working(objs, i, st) ==
  WorkType(i, st) /\ WorkIds(st) /\ WorkOld(st) /\ WorkShown(objs, i, st)
  /\ WorkKept(objs, i, st)

Continues(st, o, b, next) ==
  /\ b \in DOMAIN tracks /\ b \notin st.matched /\ b \in DOMAIN st.trks
  /\ st.trks[b] = tracks[b] /\ Overlaps(o, tracks[b])
  /\ next.trks \in Seq(Tracks) /\ Len(next.trks) = Len(st.trks)
  /\ \A k \in DOMAIN st.trks \ {b} : next.trks[k] = st.trks[k]
  /\ next.trks[b].id = tracks[b].id /\ next.trks[b].place = o.place
  /\ next.trks[b].class = o.class /\ next.trks[b].age = 0
  /\ next.matched = st.matched \union {b} /\ next.next = st.next
  /\ next.ids = Append(st.ids, tracks[b].id)

Begins(st, o, n, next) ==
  /\ n = Len(st.trks) + 1
  /\ next.trks \in Seq(Tracks) /\ Len(next.trks) = n
  /\ \A k \in DOMAIN st.trks : next.trks[k] = st.trks[k]
  /\ next.trks[n].id = st.next /\ next.trks[n].place = o.place
  /\ next.trks[n].class = o.class /\ next.trks[n].age = 0
  /\ next.matched = st.matched \union {n} /\ next.next = st.next + 1
  /\ next.ids = Append(st.ids, st.next)
  /\ \A k \in DOMAIN tracks \ st.matched : ~Overlaps(o, tracks[k])

LEMMA AssociateIs ==
  ASSUME TrackerInv, NEW o \in Objects, NEW i \in Nat, NEW st,
         WorkType(i, st), WorkOld(st)
  PROVE  \/ \E b : Continues(st, o, b, Associate(st, o))
         \/ Begins(st, o, Len(st.trks) + 1, Associate(st, o))
<1> DEFINE cands == Candidates(o, st.trks, st.matched)
           b == BestOf(o, st.trks, cands)
           new == [id |-> st.next, place |-> o.place, class |-> o.class, age |-> 0]
           next == Associate(st, o)
<1>1. /\ st.trks \in Seq(Tracks) /\ Len(st.trks) \in Nat /\ DOMAIN st.trks = 1 .. Len(st.trks)
      /\ tracks \in Seq(Tracks) /\ Len(tracks) \in Nat /\ DOMAIN tracks = 1 .. Len(tracks)
      /\ Len(st.trks) >= Len(tracks) /\ st.next \in Nat /\ st.ids \in Seq(Nat)
  BY DEF WorkType, TrackerInv
<1>2. o.place \in Places /\ o.class \in DetClasses
  BY DEF Objects
<1>3. \A k \in cands : /\ k \in DOMAIN tracks /\ k \notin st.matched /\ k \in DOMAIN st.trks
                       /\ st.trks[k] = tracks[k] /\ Overlaps(o, tracks[k])
  BY DEF Candidates, WorkOld, Overlaps
<1>4. CASE cands # {}
  <2>1. b \in cands
    <3>1. cands \subseteq DOMAIN st.trks
      BY <1>3
    <3> HIDE DEF cands
    <3> QED BY <1>1, <1>4, <3>1, BestExists
  <2>2. next = [trks    |-> [st.trks EXCEPT ![b].place = o.place, ![b].age = 0],
                matched |-> st.matched \union {b},
                next    |-> st.next,
                ids     |-> Append(st.ids, st.trks[b].id)]
    BY <1>4, Zenon DEF Associate
  <2> HIDE DEF cands, b
  <2>3. /\ b \in DOMAIN tracks /\ b \notin st.matched /\ b \in DOMAIN st.trks
        /\ st.trks[b] = tracks[b] /\ Overlaps(o, tracks[b])
    BY <1>3, <2>1
  <2> DEFINE trks == [st.trks EXCEPT ![b].place = o.place, ![b].age = 0]
  <2>4. /\ next.trks = trks /\ next.matched = st.matched \union {b} /\ next.next = st.next
        /\ next.ids = Append(st.ids, tracks[b].id)
    BY <2>2, <2>3
  <2>5. st.trks[b] \in Tracks
    BY <1>1, <2>3
  <2>6. /\ trks[b] = [st.trks[b] EXCEPT !.place = o.place, !.age = 0]
        /\ \A k \in DOMAIN st.trks \ {b} : trks[k] = st.trks[k]
        /\ DOMAIN trks = 1 .. Len(st.trks)
    BY <1>1, <2>3
  <2> HIDE DEF trks
  <2>7. trks[b] \in Tracks /\ trks[b].id = tracks[b].id /\ trks[b].place = o.place
        /\ trks[b].class = o.class /\ trks[b].age = 0
    <3> DEFINE t == [st.trks[b] EXCEPT !.place = o.place, !.age = 0]
    <3>1. DOMAIN t = {"id", "place", "class", "age"} /\ t = [f \in DOMAIN t |-> t[f]]
      BY <2>5 DEF Tracks
    <3>2. t.id = tracks[b].id /\ t.place = o.place /\ t.class = tracks[b].class /\ t.age = 0
      BY <2>3, <2>5 DEF Tracks
    <3>3. tracks[b].id \in Nat /\ tracks[b].class = o.class
      BY <2>3, <2>5 DEF Tracks, Overlaps
    <3>4. trks[b] = t
      BY <2>6
    <3> HIDE DEF t
    <3>5. t \in Tracks
      BY <1>2, <3>1, <3>2, <3>3 DEF Tracks
    <3> QED BY <3>2, <3>3, <3>4, <3>5
  <2>8. \A k \in 1 .. Len(st.trks) : trks[k] \in Tracks
    BY <1>1, <2>6, <2>7
  <2>9. trks \in Seq(Tracks) /\ Len(trks) = Len(st.trks)
    <3>1. trks = [k \in DOMAIN trks |-> trks[k]]
      BY DEF trks
    <3>2. trks = [k \in 1 .. Len(st.trks) |-> trks[k]]
      BY <2>6, <3>1
    <3>3. trks \in [1 .. Len(st.trks) -> Tracks]
      BY <2>8, <3>2
    <3>4. Len(st.trks) \in Nat
      BY <1>1
    <3> QED BY <3>3, <3>4
  <2> HIDE DEF next
  <2>10. Continues(st, o, b, next)
    BY <2>3, <2>4, <2>6, <2>7, <2>9 DEF Continues
  <2> QED BY <2>10 DEF next
<1>5. CASE cands = {}
  <2>1. next = [trks    |-> Append(st.trks, new),
                matched |-> st.matched \union {Len(st.trks) + 1},
                next    |-> st.next + 1,
                ids     |-> Append(st.ids, st.next)]
    BY <1>5, Zenon DEF Associate
  <2>2. ASSUME NEW k \in DOMAIN tracks \ st.matched PROVE ~Overlaps(o, tracks[k])
    BY <1>1, <1>5 DEF Candidates, WorkOld, Overlaps
  <2> HIDE DEF cands, next
  <2>3. new \in Tracks
    BY <1>1, <1>2 DEF Tracks
  <2>4. new.id = st.next /\ new.place = o.place /\ new.class = o.class /\ new.age = 0
    OBVIOUS
  <2> HIDE DEF new
  <2>5. /\ next.trks = Append(st.trks, new) /\ next.next = st.next + 1
        /\ next.matched = st.matched \union {Len(st.trks) + 1}
        /\ next.ids = Append(st.ids, st.next)
    BY <2>1
  <2>6. /\ Append(st.trks, new) \in Seq(Tracks)
        /\ Len(Append(st.trks, new)) = Len(st.trks) + 1
        /\ \A k \in DOMAIN st.trks : Append(st.trks, new)[k] = st.trks[k]
        /\ Append(st.trks, new)[Len(st.trks) + 1] = new
    BY <1>1, <2>3
  <2>7. Begins(st, o, Len(st.trks) + 1, next)
    BY <2>2, <2>4, <2>5, <2>6, Zenon DEF Begins
  <2> QED BY <2>7 DEF next
<1> QED
  BY <1>4, <1>5

LEMMA ContinueKeeps ==
  ASSUME TrackerInv, NEW objs \in Seq(Objects), NEW i \in 1 .. Len(objs), NEW st,
         Working(objs, i - 1, st), NEW b, NEW next, Continues(st, objs[i], b, next)
  PROVE  Working(objs, i, next)
<1>0. /\ Len(objs) \in Nat /\ i \in Nat /\ i - 1 \in Nat /\ DOMAIN objs = 1 .. Len(objs)
      /\ st.trks \in Seq(Tracks) /\ Len(st.trks) \in Nat /\ DOMAIN st.trks = 1 .. Len(st.trks)
      /\ tracks \in Seq(Tracks) /\ Len(tracks) \in Nat /\ DOMAIN tracks = 1 .. Len(tracks)
      /\ Len(st.trks) >= Len(tracks) /\ st.matched \subseteq 1 .. Len(st.trks)
      /\ st.next = nextId + (Len(st.trks) - Len(tracks)) /\ st.next \in Nat
      /\ st.ids \in Seq(Nat) /\ Len(st.ids) = i - 1
  BY DEF Working, WorkType, TrackerInv
<1>1. /\ b \in DOMAIN tracks /\ b \notin st.matched /\ b \in DOMAIN st.trks
      /\ st.trks[b] = tracks[b] /\ Overlaps(objs[i], tracks[b])
      /\ next.trks \in Seq(Tracks) /\ Len(next.trks) = Len(st.trks)
      /\ \A k \in DOMAIN st.trks \ {b} : next.trks[k] = st.trks[k]
      /\ next.trks[b].id = tracks[b].id /\ next.trks[b].place = objs[i].place
      /\ next.trks[b].class = objs[i].class /\ next.trks[b].age = 0
      /\ next.matched = st.matched \union {b} /\ next.next = st.next
      /\ next.ids = Append(st.ids, tracks[b].id)
  BY DEF Continues
<1>2. DOMAIN next.trks = DOMAIN st.trks
  BY <1>0, <1>1
<1>3. tracks[b].id \in Nat
  <2>1. tracks[b] \in Tracks
    BY <1>0, <1>1
  <2> QED BY <2>1 DEF Tracks
<1>4. /\ next.ids \in Seq(Nat) /\ Len(next.ids) = i
      /\ \A j \in 1 .. i - 1 : next.ids[j] = st.ids[j]
      /\ next.ids[i] = tracks[b].id
      /\ \A j \in 1 .. i : j \in 1 .. i - 1 \/ j = i
  BY <1>0, <1>1, <1>3
<1>5. \A k \in DOMAIN st.trks : next.trks[k].id = st.trks[k].id
  BY <1>1
<1>6. /\ \A k \in DOMAIN st.trks : st.trks[k].id \in 1 .. st.next - 1
      /\ \A j, k \in DOMAIN st.trks : st.trks[j].id = st.trks[k].id => j = k
  BY DEF Working, WorkIds
<1>7. WorkType(i, next)
  BY <1>0, <1>1, <1>4 DEF WorkType
<1>8. WorkIds(next)
  BY <1>1, <1>2, <1>5, <1>6 DEF WorkIds
<1>9. /\ \A k \in DOMAIN tracks : st.trks[k].id = tracks[k].id
      /\ \A k \in DOMAIN tracks \ st.matched : st.trks[k] = tracks[k]
      /\ \A k \in DOMAIN st.trks \ DOMAIN tracks : st.trks[k].id >= nextId /\ k \in st.matched
  BY DEF Working, WorkOld
<1>10. DOMAIN tracks \subseteq DOMAIN st.trks
  BY <1>0
<1>11. WorkOld(next)
  BY <1>1, <1>2, <1>5, <1>9, <1>10 DEF WorkOld
<1>12. /\ \A k \in st.matched : \E j \in 1 .. i - 1 : Shows(objs, st, j, k)
       /\ \A j \in 1 .. i - 1 : \E k \in st.matched : Shows(objs, st, j, k)
       /\ \A j, k \in 1 .. i - 1 : st.ids[j] = st.ids[k] => j = k
  BY DEF Working, WorkShown
<1>13. ASSUME NEW j \in 1 .. i - 1, NEW k \in st.matched, Shows(objs, st, j, k)
       PROVE  Shows(objs, next, j, k)
  <2>1. next.ids[j] = st.ids[j]
    BY <1>4
  <2>2. next.trks[k] = st.trks[k]
    BY <1>0, <1>1
  <2> QED BY <1>13, <2>1, <2>2 DEF Shows
<1>14. Shows(objs, next, i, b)
  BY <1>1, <1>4 DEF Shows
<1>15. 1 .. i - 1 \subseteq 1 .. i /\ i \in 1 .. i
  BY <1>0
<1>16. \A j \in 1 .. i - 1 : st.ids[j] # tracks[b].id
  <2> SUFFICES ASSUME NEW j \in 1 .. i - 1, st.ids[j] = tracks[b].id PROVE FALSE
    OBVIOUS
  <2>1. PICK k \in st.matched : st.ids[j] = st.trks[k].id
    BY <1>12 DEF Shows
  <2>2. k = b
    BY <1>0, <1>1, <1>6, <2>1
  <2> QED BY <1>1, <2>2
<1>17. WorkShown(objs, i, next)
  <2>1. ASSUME NEW k \in next.matched PROVE \E j \in 1 .. i : Shows(objs, next, j, k)
    <3>1. CASE k = b
      BY <1>14, <1>15, <3>1
    <3>2. CASE k # b
      <4>1. k \in st.matched
        BY <1>1, <3>2
      <4>2. PICK j \in 1 .. i - 1 : Shows(objs, st, j, k)
        BY <1>12, <4>1
      <4> QED BY <1>13, <1>15, <4>1, <4>2
    <3> QED BY <3>1, <3>2
  <2>2. ASSUME NEW j \in 1 .. i PROVE \E k \in next.matched : Shows(objs, next, j, k)
    <3>1. CASE j = i
      BY <1>1, <1>14, <3>1
    <3>2. CASE j \in 1 .. i - 1
      <4>1. PICK k \in st.matched : Shows(objs, st, j, k)
        BY <1>12, <3>2
      <4> QED BY <1>1, <1>13, <3>2, <4>1
    <3> QED BY <1>4, <3>1, <3>2
  <2>3. ASSUME NEW j \in 1 .. i, NEW k \in 1 .. i, next.ids[j] = next.ids[k] PROVE j = k
    <3>1. CASE j \in 1 .. i - 1 /\ k \in 1 .. i - 1
      BY <1>4, <1>12, <2>3, <3>1
    <3>2. CASE j = i /\ k \in 1 .. i - 1
      BY <1>4, <1>16, <2>3, <3>2
    <3>3. CASE j \in 1 .. i - 1 /\ k = i
      BY <1>4, <1>16, <2>3, <3>3
    <3> QED BY <1>4, <3>1, <3>2, <3>3
  <2> QED BY <2>1, <2>2, <2>3 DEF WorkShown
<1>18. WorkKept(objs, i, next)
  <2>1. ASSUME NEW j \in 1 .. i, NEW k \in DOMAIN tracks, next.ids[j] = tracks[k].id
        PROVE  Overlaps(objs[j], tracks[k])
    <3>1. CASE j \in 1 .. i - 1
      BY <1>4, <2>1, <3>1 DEF Working, WorkKept
    <3>2. CASE j = i
      <4>1. k = b
        BY <1>1, <1>4, <2>1, <3>2 DEF TrackerInv
      <4> QED BY <1>1, <3>2, <4>1
    <3> QED BY <1>4, <3>1, <3>2
  <2>2. ASSUME NEW j \in 1 .. i, NEW k \in DOMAIN tracks, OnlyMatch(objs, j, k)
        PROVE  next.ids[j] = tracks[k].id
    <3>1. CASE j \in 1 .. i - 1
      BY <1>4, <2>2, <3>1 DEF Working, WorkKept
    <3>2. CASE j = i
      <4>1. k = b
        BY <1>1, <2>2, <3>2 DEF OnlyMatch
      <4> QED BY <1>4, <3>2, <4>1
    <3> QED BY <1>4, <3>1, <3>2
  <2> QED BY <2>1, <2>2 DEF WorkKept
<1> QED
  BY <1>7, <1>8, <1>11, <1>17, <1>18 DEF Working

LEMMA BeginKeeps ==
  ASSUME TrackerInv, NEW objs \in Seq(Objects), NEW i \in 1 .. Len(objs), NEW st,
         Working(objs, i - 1, st), NEW n, NEW next, Begins(st, objs[i], n, next)
  PROVE  Working(objs, i, next)
<1>0. /\ Len(objs) \in Nat /\ i \in Nat /\ i - 1 \in Nat /\ DOMAIN objs = 1 .. Len(objs)
      /\ st.trks \in Seq(Tracks) /\ Len(st.trks) \in Nat /\ DOMAIN st.trks = 1 .. Len(st.trks)
      /\ tracks \in Seq(Tracks) /\ Len(tracks) \in Nat /\ DOMAIN tracks = 1 .. Len(tracks)
      /\ Len(st.trks) >= Len(tracks) /\ st.matched \subseteq 1 .. Len(st.trks)
      /\ st.next = nextId + (Len(st.trks) - Len(tracks)) /\ st.next \in Nat
      /\ st.next >= nextId /\ nextId \in Nat \ {0}
      /\ st.ids \in Seq(Nat) /\ Len(st.ids) = i - 1
  BY DEF Working, WorkType, TrackerInv
<1>1. /\ n = Len(st.trks) + 1
      /\ next.trks \in Seq(Tracks) /\ Len(next.trks) = n
      /\ \A k \in DOMAIN st.trks : next.trks[k] = st.trks[k]
      /\ next.trks[n].id = st.next /\ next.trks[n].place = objs[i].place
      /\ next.trks[n].class = objs[i].class /\ next.trks[n].age = 0
      /\ next.matched = st.matched \union {n} /\ next.next = st.next + 1
      /\ next.ids = Append(st.ids, st.next)
      /\ \A k \in DOMAIN tracks \ st.matched : ~Overlaps(objs[i], tracks[k])
  BY DEF Begins
<1>2. /\ DOMAIN next.trks = 1 .. n /\ n \in Nat /\ n \notin DOMAIN st.trks
      /\ \A k \in 1 .. n : k \in DOMAIN st.trks \/ k = n
      /\ DOMAIN st.trks \subseteq 1 .. n /\ n \in 1 .. n
  <2>1. n \in Nat /\ n = Len(st.trks) + 1 /\ DOMAIN st.trks = 1 .. Len(st.trks)
        /\ Len(st.trks) \in Nat
    BY <1>0, <1>1
  <2>2. DOMAIN next.trks = 1 .. n
    BY <1>1
  <2> QED BY <2>1, <2>2
<1>4. /\ next.ids \in Seq(Nat) /\ Len(next.ids) = i
      /\ \A j \in 1 .. i - 1 : next.ids[j] = st.ids[j]
      /\ next.ids[i] = st.next
      /\ \A j \in 1 .. i : j \in 1 .. i - 1 \/ j = i
  <2>1. st.next \in Nat /\ st.ids \in Seq(Nat) /\ Len(st.ids) = i - 1 /\ i \in Nat
    BY <1>0
  <2>2. next.ids = Append(st.ids, st.next)
    BY <1>1
  <2> QED BY <2>1, <2>2
<1>6. /\ \A k \in DOMAIN st.trks : st.trks[k].id \in 1 .. st.next - 1
      /\ \A j, k \in DOMAIN st.trks : st.trks[j].id = st.trks[k].id => j = k
  BY DEF Working, WorkIds
<1>61. \A k \in DOMAIN st.trks : st.trks[k].id # st.next /\ st.trks[k].id \in 1 .. st.next
  <2> TAKE k \in DOMAIN st.trks
  <2>1. st.trks[k].id \in 1 .. st.next - 1
    BY <1>6
  <2>2. st.next \in Nat
    BY <1>0
  <2> QED BY <2>1, <2>2
<1>7. WorkType(i, next)
  <2>1. Len(next.trks) >= Len(tracks) /\ next.next = nextId + (Len(next.trks) - Len(tracks))
    BY <1>0, <1>1
  <2>2. next.matched \subseteq 1 .. Len(next.trks)
    BY <1>0, <1>1, <1>2
  <2> QED BY <1>1, <1>4, <2>1, <2>2 DEF WorkType
<1>8. WorkIds(next)
  <2>0. \A k \in DOMAIN st.trks : next.trks[k].id = st.trks[k].id
    BY <1>1
  <2>1. ASSUME NEW k \in 1 .. n PROVE next.trks[k].id \in 1 .. st.next
    <3>0. st.next \in 1 .. st.next
      BY <1>0
    <3>1. CASE k = n
      BY <1>1, <3>0, <3>1
    <3>2. CASE k \in DOMAIN st.trks
      BY <1>61, <2>0, <3>2
    <3> QED BY <1>2, <3>1, <3>2
  <2>2. ASSUME NEW j \in 1 .. n, NEW k \in 1 .. n, next.trks[j].id = next.trks[k].id
        PROVE  j = k
    <3>1. CASE j \in DOMAIN st.trks /\ k \in DOMAIN st.trks
      BY <1>6, <2>0, <2>2, <3>1
    <3>2. CASE j = n /\ k \in DOMAIN st.trks
      BY <1>1, <1>61, <2>0, <2>2, <3>2
    <3>3. CASE j \in DOMAIN st.trks /\ k = n
      BY <1>1, <1>61, <2>0, <2>2, <3>3
    <3> QED BY <1>2, <3>1, <3>2, <3>3
  <2>3. next.next - 1 = st.next
    BY <1>0, <1>1
  <2> QED BY <1>2, <2>1, <2>2, <2>3 DEF WorkIds
<1>9. /\ \A k \in DOMAIN tracks : st.trks[k].id = tracks[k].id
      /\ \A k \in DOMAIN tracks \ st.matched : st.trks[k] = tracks[k]
      /\ \A k \in DOMAIN st.trks \ DOMAIN tracks : st.trks[k].id >= nextId /\ k \in st.matched
  BY DEF Working, WorkOld
<1>10. DOMAIN tracks \subseteq DOMAIN st.trks
  BY <1>0
<1>11. WorkOld(next)
  <2>1. \A k \in DOMAIN next.trks \ DOMAIN tracks :
          next.trks[k].id >= nextId /\ k \in next.matched
    BY <1>0, <1>1, <1>2, <1>9
  <2>2. \A k \in DOMAIN tracks : next.trks[k] = st.trks[k]
    BY <1>1, <1>10
  <2> QED BY <1>1, <1>9, <2>1, <2>2 DEF WorkOld
<1>12. /\ \A k \in st.matched : \E j \in 1 .. i - 1 : Shows(objs, st, j, k)
       /\ \A j \in 1 .. i - 1 : \E k \in st.matched : Shows(objs, st, j, k)
       /\ \A j, k \in 1 .. i - 1 : st.ids[j] = st.ids[k] => j = k
  BY DEF Working, WorkShown
<1>13. ASSUME NEW j \in 1 .. i - 1, NEW k \in st.matched, Shows(objs, st, j, k)
       PROVE  Shows(objs, next, j, k)
  <2>1. next.ids[j] = st.ids[j]
    BY <1>4
  <2>2. next.trks[k] = st.trks[k]
    BY <1>0, <1>1
  <2> QED BY <1>13, <2>1, <2>2 DEF Shows
<1>14. Shows(objs, next, i, n)
  BY <1>1, <1>4 DEF Shows
<1>15. 1 .. i - 1 \subseteq 1 .. i /\ i \in 1 .. i
  BY <1>0
<1>16. \A j \in 1 .. i - 1 : st.ids[j] # st.next
  <2> SUFFICES ASSUME NEW j \in 1 .. i - 1, st.ids[j] = st.next PROVE FALSE
    OBVIOUS
  <2>1. PICK k \in st.matched : st.ids[j] = st.trks[k].id
    BY <1>12 DEF Shows
  <2> QED BY <1>0, <1>61, <2>1
<1>17. WorkShown(objs, i, next)
  <2>1. ASSUME NEW k \in next.matched PROVE \E j \in 1 .. i : Shows(objs, next, j, k)
    <3>1. CASE k = n
      BY <1>14, <1>15, <3>1
    <3>2. CASE k # n
      <4>1. k \in st.matched
        BY <1>1, <3>2
      <4>2. PICK j \in 1 .. i - 1 : Shows(objs, st, j, k)
        BY <1>12, <4>1
      <4> QED BY <1>13, <1>15, <4>1, <4>2
    <3> QED BY <3>1, <3>2
  <2>2. ASSUME NEW j \in 1 .. i PROVE \E k \in next.matched : Shows(objs, next, j, k)
    <3>1. CASE j = i
      BY <1>1, <1>14, <3>1
    <3>2. CASE j \in 1 .. i - 1
      <4>1. PICK k \in st.matched : Shows(objs, st, j, k)
        BY <1>12, <3>2
      <4> QED BY <1>1, <1>13, <3>2, <4>1
    <3> QED BY <1>4, <3>1, <3>2
  <2>3. ASSUME NEW j \in 1 .. i, NEW k \in 1 .. i, next.ids[j] = next.ids[k] PROVE j = k
    <3>1. CASE j \in 1 .. i - 1 /\ k \in 1 .. i - 1
      BY <1>4, <1>12, <2>3, <3>1
    <3>2. CASE j = i /\ k \in 1 .. i - 1
      BY <1>4, <1>16, <2>3, <3>2
    <3>3. CASE j \in 1 .. i - 1 /\ k = i
      BY <1>4, <1>16, <2>3, <3>3
    <3> QED BY <1>4, <3>1, <3>2, <3>3
  <2> QED BY <2>1, <2>2, <2>3 DEF WorkShown
<1>18. WorkKept(objs, i, next)
  <2>1. ASSUME NEW j \in 1 .. i, NEW k \in DOMAIN tracks, next.ids[j] = tracks[k].id
        PROVE  Overlaps(objs[j], tracks[k])
    <3>1. CASE j \in 1 .. i - 1
      BY <1>4, <2>1, <3>1 DEF Working, WorkKept
    <3>2. CASE j = i
      BY <1>4, <1>9, <1>10, <1>61, <2>1, <3>2
    <3> QED BY <1>4, <3>1, <3>2
  <2>2. ASSUME NEW j \in 1 .. i, NEW k \in DOMAIN tracks, OnlyMatch(objs, j, k)
        PROVE  next.ids[j] = tracks[k].id
    <3>1. CASE j \in 1 .. i - 1
      BY <1>4, <2>2, <3>1 DEF Working, WorkKept
    <3>2. CASE j = i
      <4>1. k \in st.matched
        BY <1>1, <2>2, <3>2 DEF OnlyMatch
      <4>2. PICK m \in 1 .. i - 1 : st.ids[m] = st.trks[k].id
        BY <1>12, <4>1 DEF Shows
      <4>3. Overlaps(objs[m], tracks[k])
        BY <1>9, <4>2 DEF Working, WorkKept
      <4>4. m \in DOMAIN objs \ {i}
        BY <1>0
      <4> QED BY <2>2, <3>2, <4>3, <4>4 DEF OnlyMatch
    <3> QED BY <1>4, <3>1, <3>2
  <2> QED BY <2>1, <2>2 DEF WorkKept
<1> QED
  BY <1>7, <1>8, <1>11, <1>17, <1>18 DEF Working

LEMMA WorkBegins ==
  ASSUME TrackerInv, NEW objs,
         NEW st, st = [trks |-> tracks, matched |-> {}, next |-> nextId, ids |-> <<>>]
  PROVE  Working(objs, 0, st)
<1>1. st.trks = tracks /\ st.matched = {} /\ st.next = nextId /\ st.ids = <<>>
  OBVIOUS
<1>2. tracks \in Seq(Tracks) /\ Len(tracks) \in Nat /\ nextId \in Nat
  BY PipelineAssumption DEF TrackerInv
<1>3. WorkType(0, st)
  BY <1>1, <1>2 DEF WorkType
<1>4. WorkIds(st)
  BY <1>1 DEF WorkIds, TrackerInv
<1>5. WorkOld(st)
  BY <1>1 DEF WorkOld
<1>6. WorkShown(objs, 0, st) /\ WorkKept(objs, 0, st)
  BY <1>1 DEF WorkShown, WorkKept
<1> QED
  BY <1>3, <1>4, <1>5, <1>6 DEF Working

LEMMA AssociatedWorks ==
  ASSUME TrackerInv, NEW objs \in Seq(Objects)
  PROVE  Working(objs, Len(objs), Associated(objs))
<1> DEFINE st == [trks |-> tracks, matched |-> {}, next |-> nextId, ids |-> <<>>]
<1>1. PICK run : Associating!IsRun(run, st, objs, Len(objs)) /\ Associated(objs) = run[Len(objs)]
  BY AssociateRuns DEF Associated
<1>2. Len(objs) \in Nat /\ \A i \in 1 .. Len(objs) : objs[i] \in Objects /\ i - 1 \in Nat
  OBVIOUS
<1>3. Working(objs, 0, st)
  BY WorkBegins
<1> HIDE DEF st
<1> DEFINE S == {i \in 0 .. Len(objs) : Working(objs, i, run[i])}
<1>4. 0 \in S
  BY <1>1, <1>2, <1>3 DEF Associating!IsRun
<1>5. ASSUME NEW i \in 1 .. Len(objs), i - 1 \in S PROVE i \in S
  <2>1. run[i] = Associate(run[i - 1], objs[i])
    BY <1>1 DEF Associating!IsRun
  <2>2. Working(objs, i - 1, run[i - 1])
    BY <1>5
  <2>3. \/ \E b : Continues(run[i - 1], objs[i], b, run[i])
        \/ Begins(run[i - 1], objs[i], Len(run[i - 1].trks) + 1, run[i])
    BY <1>2, <2>1, <2>2, AssociateIs DEF Working
  <2>4. Working(objs, i, run[i])
    BY <2>2, <2>3, ContinueKeeps, BeginKeeps
  <2> QED BY <1>2, <2>4
<1>6. \A i \in 0 .. Len(objs) : i \in S
  <2> HIDE DEF S
  <2> QED BY <1>2, <1>4, <1>5, Associating!ClimbTo
<1>7. Len(objs) \in S
  BY <1>2, <1>6
<1> QED
  BY <1>1, <1>7

(* The tracks that are left after a frame.                                 *)
Left(trks, n, r) ==
  /\ r \in Seq(Tracks)
  /\ \A k \in DOMAIN r : \E m \in 1 .. n : r[k] = trks[m] /\ r[k].age <= MaxTrackAge
  /\ \A m \in 1 .. n : trks[m].age <= MaxTrackAge => \E k \in DOMAIN r : r[k] = trks[m]
  /\ \A j, k \in DOMAIN r : r[j].id = r[k].id => j = k

LEMMA SurvivingKeeps ==
  ASSUME NEW trks \in Seq(Tracks), NEW n \in 1 .. Len(trks), NEW r, Left(trks, n - 1, r),
         \A j, k \in DOMAIN trks : trks[j].id = trks[k].id => j = k
  PROVE  Left(trks, n, Surviving(r, trks[n]))
<1>1. /\ r \in Seq(Tracks) /\ Len(r) \in Nat /\ DOMAIN r = 1 .. Len(r) /\ trks[n] \in Tracks
      /\ n \in Nat /\ 1 .. n - 1 \subseteq 1 .. n /\ n \in 1 .. n /\ n \notin 1 .. n - 1
      /\ \A m \in 1 .. n : m \in 1 .. n - 1 \/ m = n
      /\ 1 .. n \subseteq DOMAIN trks
  BY DEF Left
<1>2. /\ \A k \in DOMAIN r : \E m \in 1 .. n - 1 : r[k] = trks[m] /\ r[k].age <= MaxTrackAge
      /\ \A m \in 1 .. n - 1 : trks[m].age <= MaxTrackAge => \E k \in DOMAIN r : r[k] = trks[m]
      /\ \A j, k \in DOMAIN r : r[j].id = r[k].id => j = k
  BY DEF Left
<1>3. CASE trks[n].age <= MaxTrackAge
  <2> DEFINE next == Append(r, trks[n])
             last == Len(r) + 1
  <2>1. /\ next \in Seq(Tracks) /\ DOMAIN next = 1 .. last /\ next[last] = trks[n]
        /\ \A k \in DOMAIN r : next[k] = r[k]
        /\ \A k \in 1 .. last : k \in DOMAIN r \/ k = last
        /\ DOMAIN r \subseteq 1 .. last /\ last \in 1 .. last
    BY <1>1
  <2> HIDE DEF next, last
  <2>2. ASSUME NEW k \in DOMAIN next
        PROVE  \E m \in 1 .. n : next[k] = trks[m] /\ next[k].age <= MaxTrackAge
    <3>1. CASE k = last
      BY <1>1, <1>3, <2>1, <3>1
    <3>2. CASE k \in DOMAIN r
      <4>1. PICK m \in 1 .. n - 1 : r[k] = trks[m] /\ r[k].age <= MaxTrackAge
        BY <1>2, <3>2
      <4> QED BY <1>1, <2>1, <3>2, <4>1
    <3> QED BY <2>1, <3>1, <3>2
  <2>3. ASSUME NEW m \in 1 .. n, trks[m].age <= MaxTrackAge
        PROVE  \E k \in DOMAIN next : next[k] = trks[m]
    <3>1. CASE m = n
      BY <2>1, <3>1
    <3>2. CASE m \in 1 .. n - 1
      <4>1. PICK k \in DOMAIN r : r[k] = trks[m]
        BY <1>2, <2>3, <3>2
      <4> QED BY <2>1, <4>1
    <3> QED BY <1>1, <3>1, <3>2
  <2>4. \A k \in DOMAIN r : r[k].id # trks[n].id
    <3> SUFFICES ASSUME NEW k \in DOMAIN r, r[k].id = trks[n].id PROVE FALSE
      OBVIOUS
    <3>1. PICK m \in 1 .. n - 1 : r[k] = trks[m]
      BY <1>2
    <3>2. trks[m].id = trks[n].id /\ m \in DOMAIN trks /\ n \in DOMAIN trks /\ m # n
      BY <1>1, <3>1
    <3> QED BY <3>2
  <2>5. ASSUME NEW j \in DOMAIN next, NEW k \in DOMAIN next, next[j].id = next[k].id
        PROVE  j = k
    <3>1. CASE j \in DOMAIN r /\ k \in DOMAIN r
      BY <1>2, <2>1, <2>5, <3>1
    <3>2. CASE j = last /\ k \in DOMAIN r
      BY <2>1, <2>4, <2>5, <3>2
    <3>3. CASE j \in DOMAIN r /\ k = last
      BY <2>1, <2>4, <2>5, <3>3
    <3> QED BY <2>1, <3>1, <3>2, <3>3
  <2>6. Left(trks, n, next)
    BY <2>1, <2>2, <2>3, <2>5 DEF Left
  <2> QED BY <1>3, <2>6 DEF Surviving, next
<1>4. CASE ~(trks[n].age <= MaxTrackAge)
  <2>1. Surviving(r, trks[n]) = r
    BY <1>4 DEF Surviving
  <2>2. \A k \in DOMAIN r : \E m \in 1 .. n : r[k] = trks[m] /\ r[k].age <= MaxTrackAge
    BY <1>1, <1>2
  <2>3. ASSUME NEW m \in 1 .. n, trks[m].age <= MaxTrackAge
        PROVE  \E k \in DOMAIN r : r[k] = trks[m]
    BY <1>1, <1>2, <1>4, <2>3
  <2>4. Left(trks, n, r)
    BY <1>1, <1>2, <2>2, <2>3 DEF Left
  <2> QED BY <2>1, <2>4
<1> QED
  BY <1>3, <1>4

LEMMA SurvivorsAre ==
  ASSUME NEW trks \in Seq(Tracks),
         \A j, k \in DOMAIN trks : trks[j].id = trks[k].id => j = k
  PROVE  Left(trks, Len(trks), Survivors(trks))
<1>1. PICK run : Sifting!IsRun(run, <<>>, trks, Len(trks))
                 /\ Survivors(trks) = run[Len(trks)]
  BY SurvivingRuns DEF Survivors
<1>2. Len(trks) \in Nat
  OBVIOUS
<1> DEFINE S == {n \in 0 .. Len(trks) : Left(trks, n, run[n])}
<1>3. 0 \in S
  <2>1. Left(trks, 0, <<>>)
    BY DEF Left
  <2> QED BY <1>1, <1>2, <2>1 DEF Sifting!IsRun
<1>4. ASSUME NEW n \in 1 .. Len(trks), n - 1 \in S PROVE n \in S
  <2>1. run[n] = Surviving(run[n - 1], trks[n])
    BY <1>1 DEF Sifting!IsRun
  <2>2. Left(trks, n - 1, run[n - 1])
    BY <1>4
  <2>3. Left(trks, n, run[n])
    BY <2>1, <2>2, SurvivingKeeps
  <2> QED BY <1>2, <2>3
<1>5. \A n \in 0 .. Len(trks) : n \in S
  <2> HIDE DEF S
  <2> QED BY <1>2, <1>3, <1>4, Sifting!ClimbTo
<1>6. Len(trks) \in S
  BY <1>2, <1>5
<1> QED
  BY <1>1, <1>6

(* What a frame with detections comes to.                                  *)
FrameNamed(objs) ==
  /\ nextId' \in Nat /\ nextId <= nextId' /\ nextId' <= MaxId + 1
  /\ trackerId' \in Seq(1 .. nextId' - 1) /\ Len(trackerId') = Len(objs)
  /\ \A j, k \in DOMAIN objs : trackerId'[j] = trackerId'[k] => j = k
  /\ \A j \in DOMAIN objs, k \in DOMAIN tracks :
       trackerId'[j] = tracks[k].id => Overlaps(objs[j], tracks[k])
  /\ \A j \in DOMAIN objs, k \in DOMAIN tracks :
       OnlyMatch(objs, j, k) => trackerId'[j] = tracks[k].id
  /\ \A j \in DOMAIN objs :
       trackerId'[j] >= nextId \/ \E k \in DOMAIN tracks : trackerId'[j] = tracks[k].id

Taken(objs, t) == \E j \in DOMAIN objs : /\ t.id = trackerId'[j] /\ t.place = objs[j].place
                                         /\ t.age = 0
Missed(objs, t) ==
  /\ \A j \in DOMAIN objs : t.id # trackerId'[j]
  /\ \E k \in DOMAIN tracks : /\ tracks[k].id = t.id /\ tracks[k].place = t.place
                              /\ t.age = tracks[k].age + 1

TracksAfter(objs) ==
  /\ tracks' \in Seq(Tracks)
  /\ \A j, k \in DOMAIN tracks' : tracks'[j].id = tracks'[k].id => j = k
  /\ \A j \in DOMAIN objs : \E k \in DOMAIN tracks' :
       /\ tracks'[k].id = trackerId'[j]
       /\ tracks'[k].place = objs[j].place /\ tracks'[k].class = objs[j].class
  /\ \A k \in DOMAIN tracks' : /\ Taken(objs, tracks'[k]) \/ Missed(objs, tracks'[k])
                               /\ tracks'[k].age <= MaxTrackAge
  /\ \A k \in DOMAIN tracks :
       \/ \E j \in DOMAIN tracks' : tracks'[j].id = tracks[k].id
       \/ /\ \A j \in DOMAIN objs : trackerId'[j] # tracks[k].id
          /\ tracks[k].age + 1 > MaxTrackAge

LEMMA AgedAre ==
  ASSUME NEW st, st.trks \in Seq(Tracks), WorkIds(st)
  PROVE  /\ Aged(st) \in Seq(Tracks) /\ Len(Aged(st)) = Len(st.trks)
         /\ DOMAIN Aged(st) = DOMAIN st.trks
         /\ \A k \in DOMAIN st.trks :
              /\ Aged(st)[k].id = st.trks[k].id /\ Aged(st)[k].place = st.trks[k].place
              /\ Aged(st)[k].class = st.trks[k].class
              /\ Aged(st)[k].age = IF k \in st.matched THEN st.trks[k].age
                                   ELSE st.trks[k].age + 1
         /\ \A j, k \in DOMAIN Aged(st) : Aged(st)[j].id = Aged(st)[k].id => j = k
<1> DEFINE aged == Aged(st)
<1>1. DOMAIN st.trks = 1 .. Len(st.trks) /\ Len(st.trks) \in Nat
  OBVIOUS
<1>2. DOMAIN aged = 1 .. Len(st.trks) /\ aged = [k \in DOMAIN aged |-> aged[k]]
  BY <1>1 DEF Aged
<1>3. ASSUME NEW k \in DOMAIN st.trks
      PROVE  /\ aged[k] \in Tracks
             /\ aged[k].id = st.trks[k].id /\ aged[k].place = st.trks[k].place
             /\ aged[k].class = st.trks[k].class
             /\ aged[k].age = IF k \in st.matched THEN st.trks[k].age ELSE st.trks[k].age + 1
  <2>1. st.trks[k] \in Tracks
    BY <1>1
  <2>2. CASE k \in st.matched
    BY <2>1, <2>2 DEF Aged
  <2>3. CASE k \notin st.matched
    <3> DEFINE t == [st.trks[k] EXCEPT !.age = @ + 1]
    <3>1. aged[k] = t
      BY <2>3 DEF Aged
    <3>2. DOMAIN t = {"id", "place", "class", "age"} /\ t = [f \in DOMAIN t |-> t[f]]
      BY <2>1 DEF Tracks
    <3>3. t.id = st.trks[k].id /\ t.place = st.trks[k].place /\ t.class = st.trks[k].class
      BY <2>1 DEF Tracks
    <3>4. t.age = st.trks[k].age + 1
      BY <2>1 DEF Tracks
    <3>5. /\ st.trks[k].id \in Nat /\ st.trks[k].place \in Places
          /\ st.trks[k].class \in DetClasses /\ st.trks[k].age + 1 \in Nat
      BY <2>1 DEF Tracks
    <3> HIDE DEF t
    <3>6. t \in Tracks
      BY <3>2, <3>3, <3>4, <3>5 DEF Tracks
    <3> QED BY <2>3, <3>1, <3>3, <3>4, <3>6
  <2> QED BY <2>2, <2>3
<1> HIDE DEF aged
<1>4. aged \in [1 .. Len(st.trks) -> Tracks]
  BY <1>1, <1>2, <1>3
<1>5. aged \in Seq(Tracks) /\ Len(aged) = Len(st.trks)
  BY <1>1, <1>4
<1>6. \A j, k \in DOMAIN aged : aged[j].id = aged[k].id => j = k
  BY <1>1, <1>2, <1>3 DEF WorkIds
<1> QED
  BY <1>1, <1>2, <1>3, <1>5, <1>6 DEF aged

LEMMA FrameTracked ==
  ASSUME TrackerInv, NEW objs \in Seq(Objects), TrackFrame(objs)
  PROVE  FrameNamed(objs) /\ TracksAfter(objs)
<1> DEFINE st == Associated(objs)
           aged == Aged(st)
<1>1. Working(objs, Len(objs), st)
  BY AssociatedWorks
<1>2. /\ st.next <= MaxId + 1 /\ tracks' = Survivors(aged) /\ nextId' = st.next
      /\ trackerId' = st.ids
  BY DEF TrackFrame
<1> HIDE DEF st
<1>3. /\ st.trks \in Seq(Tracks) /\ Len(st.trks) \in Nat /\ DOMAIN st.trks = 1 .. Len(st.trks)
      /\ tracks \in Seq(Tracks) /\ Len(tracks) \in Nat /\ DOMAIN tracks = 1 .. Len(tracks)
      /\ Len(st.trks) >= Len(tracks) /\ st.matched \subseteq 1 .. Len(st.trks)
      /\ st.ids \in Seq(Nat) /\ Len(st.ids) = Len(objs)
      /\ DOMAIN objs = 1 .. Len(objs) /\ Len(objs) \in Nat
  BY <1>1 DEF Working, WorkType, TrackerInv
<1>4. /\ nextId \in Nat /\ st.next \in Nat /\ nextId <= st.next
  BY <1>1, PipelineAssumption DEF Working, WorkType, TrackerInv
<1>5. WorkIds(st) /\ WorkOld(st) /\ WorkShown(objs, Len(objs), st)
      /\ WorkKept(objs, Len(objs), st)
  BY <1>1 DEF Working
<1>6. /\ \A k \in st.matched : \E j \in DOMAIN objs : Shows(objs, st, j, k)
      /\ \A j \in DOMAIN objs : \E k \in st.matched : Shows(objs, st, j, k)
      /\ \A j, k \in DOMAIN objs : st.ids[j] = st.ids[k] => j = k
  BY <1>3, <1>5 DEF WorkShown
<1>7. /\ \A k \in DOMAIN st.trks : st.trks[k].id \in 1 .. st.next - 1
      /\ \A j, k \in DOMAIN st.trks : st.trks[j].id = st.trks[k].id => j = k
      /\ \A k \in DOMAIN tracks : st.trks[k].id = tracks[k].id /\ k \in DOMAIN st.trks
      /\ \A k \in DOMAIN tracks \ st.matched : st.trks[k] = tracks[k]
      /\ \A k \in DOMAIN st.trks \ DOMAIN tracks : st.trks[k].id >= nextId /\ k \in st.matched
  BY <1>3, <1>5 DEF WorkIds, WorkOld
<1>8. FrameNamed(objs)
  <2>1. ASSUME NEW j \in DOMAIN objs PROVE st.ids[j] \in 1 .. st.next - 1
    <3>1. PICK k \in st.matched : Shows(objs, st, j, k)
      BY <1>6
    <3>2. k \in DOMAIN st.trks /\ st.ids[j] = st.trks[k].id
      BY <1>3, <3>1 DEF Shows
    <3> QED BY <1>7, <3>2
  <2>2. st.ids \in Seq(1 .. st.next - 1)
    <3> DEFINE R == 1 .. st.next - 1
               n == Len(objs)
    <3>1. st.ids \in [1 .. n -> R] /\ n \in Nat
      BY <1>3, <2>1
    <3> HIDE DEF R, n
    <3>2. st.ids \in Seq(R)
      BY <3>1
    <3> QED BY <3>2 DEF R
  <2>3. ASSUME NEW j \in DOMAIN objs
        PROVE  st.ids[j] >= nextId \/ \E k \in DOMAIN tracks : st.ids[j] = tracks[k].id
    <3>1. PICK k \in st.matched : Shows(objs, st, j, k)
      BY <1>6
    <3>2. k \in DOMAIN st.trks /\ st.ids[j] = st.trks[k].id
      BY <1>3, <3>1 DEF Shows
    <3> QED BY <1>7, <3>2
  <2>4. \A j \in DOMAIN objs, k \in DOMAIN tracks :
          /\ st.ids[j] = tracks[k].id => Overlaps(objs[j], tracks[k])
          /\ OnlyMatch(objs, j, k) => st.ids[j] = tracks[k].id
    BY <1>3, <1>5 DEF WorkKept
  <2> QED BY <1>2, <1>3, <1>4, <1>6, <2>2, <2>3, <2>4 DEF FrameNamed
<1>9. /\ aged \in Seq(Tracks) /\ Len(aged) = Len(st.trks) /\ DOMAIN aged = DOMAIN st.trks
      /\ \A k \in DOMAIN st.trks :
           /\ aged[k].id = st.trks[k].id /\ aged[k].place = st.trks[k].place
           /\ aged[k].class = st.trks[k].class
           /\ aged[k].age = IF k \in st.matched THEN st.trks[k].age ELSE st.trks[k].age + 1
      /\ \A j, k \in DOMAIN aged : aged[j].id = aged[k].id => j = k
  BY <1>3, <1>5, AgedAre
<1> HIDE DEF aged
<1>10. Left(aged, Len(aged), tracks')
  BY <1>2, <1>9, SurvivorsAre
<1>11. /\ tracks' \in Seq(Tracks)
       /\ \A k \in DOMAIN tracks' :
            \E m \in DOMAIN st.trks : tracks'[k] = aged[m] /\ tracks'[k].age <= MaxTrackAge
       /\ \A m \in DOMAIN st.trks :
            aged[m].age <= MaxTrackAge => \E k \in DOMAIN tracks' : tracks'[k] = aged[m]
       /\ \A j, k \in DOMAIN tracks' : tracks'[j].id = tracks'[k].id => j = k
  <2>1. Left(aged, Len(st.trks), tracks')
    BY <1>9, <1>10
  <2> QED BY <1>3, <2>1 DEF Left
<1>12. ASSUME NEW m \in DOMAIN st.trks, m \in st.matched
       PROVE  Taken(objs, aged[m]) /\ aged[m].age = 0
  <2>1. PICK j \in DOMAIN objs : Shows(objs, st, j, m)
    BY <1>6, <1>12
  <2> QED BY <1>2, <1>9, <1>12, <2>1 DEF Shows, Taken
<1>13. ASSUME NEW m \in DOMAIN st.trks, m \notin st.matched
       PROVE  /\ m \in DOMAIN tracks /\ Missed(objs, aged[m])
              /\ aged[m].age = tracks[m].age + 1 /\ aged[m].id = tracks[m].id
  <2>1. m \in DOMAIN tracks /\ st.trks[m] = tracks[m]
    BY <1>7, <1>13
  <2>2. aged[m].id = tracks[m].id /\ aged[m].place = tracks[m].place
        /\ aged[m].age = tracks[m].age + 1
    BY <1>9, <1>13, <2>1
  <2>3. ASSUME NEW j \in DOMAIN objs, aged[m].id = trackerId'[j] PROVE FALSE
    <3>1. PICK k \in st.matched : Shows(objs, st, j, k)
      BY <1>6
    <3>2. k \in DOMAIN st.trks /\ st.trks[k].id = st.trks[m].id
      BY <1>2, <1>3, <2>1, <2>2, <2>3, <3>1 DEF Shows
    <3>3. k = m
      BY <1>7, <3>2
    <3> QED BY <1>13, <3>3
  <2> QED BY <2>1, <2>2, <2>3 DEF Missed
<1>14. TracksAfter(objs)
  <2>1. ASSUME NEW k \in DOMAIN tracks'
        PROVE  /\ Taken(objs, tracks'[k]) \/ Missed(objs, tracks'[k])
               /\ tracks'[k].age <= MaxTrackAge
    <3>1. PICK m \in DOMAIN st.trks : tracks'[k] = aged[m] /\ tracks'[k].age <= MaxTrackAge
      BY <1>11
    <3> QED BY <1>12, <1>13, <3>1
  <2>2. ASSUME NEW k \in DOMAIN tracks
        PROVE  \/ \E j \in DOMAIN tracks' : tracks'[j].id = tracks[k].id
               \/ /\ \A j \in DOMAIN objs : trackerId'[j] # tracks[k].id
                  /\ tracks[k].age + 1 > MaxTrackAge
    <3>1. k \in DOMAIN st.trks /\ aged[k].id = tracks[k].id
      BY <1>7, <1>9
    <3>2. CASE aged[k].age <= MaxTrackAge
      BY <1>11, <3>1, <3>2
    <3>3. CASE ~(aged[k].age <= MaxTrackAge)
      <4>1. MaxTrackAge \in Nat
        BY PipelineAssumption
      <4>2. k \notin st.matched
        BY <1>12, <3>1, <3>3, <4>1
      <4>3. Missed(objs, aged[k]) /\ aged[k].age = tracks[k].age + 1
        BY <1>13, <3>1, <4>2
      <4>4. tracks[k].age \in Nat
        <5>1. tracks[k] \in Tracks
          BY <1>3
        <5> QED BY <5>1 DEF Tracks
      <4> QED BY <3>1, <3>3, <4>1, <4>3, <4>4 DEF Missed
    <3> QED BY <3>2, <3>3
  <2>3. ASSUME NEW j \in DOMAIN objs
        PROVE  \E k \in DOMAIN tracks' :
                 /\ tracks'[k].id = trackerId'[j]
                 /\ tracks'[k].place = objs[j].place /\ tracks'[k].class = objs[j].class
    <3>1. PICK m \in st.matched : Shows(objs, st, j, m)
      BY <1>6
    <3>2. m \in DOMAIN st.trks
      BY <1>3
    <3>3. aged[m].age <= MaxTrackAge
      BY <1>12, <3>2, PipelineAssumption
    <3>4. PICK k \in DOMAIN tracks' : tracks'[k] = aged[m]
      BY <1>11, <3>2, <3>3
    <3>5. /\ aged[m].id = trackerId'[j] /\ aged[m].place = objs[j].place
          /\ aged[m].class = objs[j].class
      BY <1>2, <1>9, <3>1, <3>2 DEF Shows
    <3> QED BY <3>4, <3>5
  <2> QED BY <1>11, <2>1, <2>2, <2>3 DEF TracksAfter
<1> QED
  BY <1>8, <1>14

-----------------------------------------------------------------------------
(* The tracker, step by step.                                              *)
TrackerNext ==
  \/ StartTracker \/ StopTracker \/ TrackNothing
  \/ \E objs \in Seq(Objects) : TrackFrame(objs)

LEMMA TrackerInitInv == TrackerInit => TrackerInv
<1> SUFFICES ASSUME TrackerInit PROVE TrackerInv
  OBVIOUS
<1>1. tracks = <<>> /\ tracking \in BOOLEAN /\ nextId = 1 /\ unseen \in [1 .. MaxId -> Nat]
  BY DEF TrackerInit, NobodySeen
<1>2. DistinctIds
  BY <1>1 DEF TrackerInit, DistinctIds
<1> QED
  BY <1>1, <1>2, PipelineAssumption DEF TrackerInv

LEMMA OneMoreGrows ==
  ASSUME NEW n \in Nat, NEW a \in Nat, a <= n, a <= MaxTrackAge
  PROVE  /\ a <= OneMore(n)
         /\ a + 1 <= MaxTrackAge => a + 1 <= OneMore(n)
         /\ a + 1 > MaxTrackAge => OneMore(n) > MaxTrackAge
BY PipelineAssumption DEF OneMore

LEMMA UnseenType ==
  ASSUME TrackerInv, TrackNothing \/ \E objs : TrackFrame(objs)
  PROVE  unseen' \in [1 .. MaxId -> Nat]
<1>1. \A i \in 1 .. MaxId : unseen[i] \in Nat
  BY DEF TrackerInv
<1>2. \A i \in 1 .. MaxId : OneMore(unseen[i]) \in Nat
  BY <1>1 DEF OneMore
<1>3. CASE TrackNothing
  BY <1>2, <1>3 DEF TrackNothing
<1>4. ASSUME NEW objs, TrackFrame(objs) PROVE unseen' \in [1 .. MaxId -> Nat]
  <2>1. PICK st \in {Associated(objs)} :
          unseen' = [i \in 1 .. MaxId |->
                       IF \E k \in DOMAIN st.ids : st.ids[k] = i THEN 0
                       ELSE IF i \in TrackIds THEN OneMore(unseen[i]) ELSE 0]
    BY <1>4 DEF TrackFrame
  <2> QED BY <1>2, <2>1
<1> QED
  BY <1>3, <1>4

(* A track that no detection took has been unseen for one more frame.      *)
LEMMA MissedUnseen ==
  ASSUME TrackerInv, NEW objs \in Seq(Objects), TrackFrame(objs),
         NEW k \in DOMAIN tracks, \A j \in DOMAIN objs : trackerId'[j] # tracks[k].id
  PROVE  unseen'[tracks[k].id] = OneMore(unseen[tracks[k].id])
<1> DEFINE st == Associated(objs)
<1>1. /\ trackerId' = st.ids
      /\ unseen' = [i \in 1 .. MaxId |->
                      IF \E n \in DOMAIN st.ids : st.ids[n] = i THEN 0
                      ELSE IF i \in TrackIds THEN OneMore(unseen[i]) ELSE 0]
  BY DEF TrackFrame
<1> HIDE DEF st
<1>2. tracks[k].id \in 1 .. MaxId /\ tracks[k].id \in TrackIds
  <2>1. tracks[k].id \in 1 .. nextId - 1 /\ nextId \in 1 .. MaxId + 1
    BY DEF TrackerInv
  <2> QED BY <2>1, PipelineAssumption DEF TrackIds
<1>3. DOMAIN trackerId' = DOMAIN objs
  <2>1. trackerId' \in Seq(1 .. nextId' - 1) /\ Len(trackerId') = Len(objs)
    BY FrameTracked DEF FrameNamed
  <2> QED BY <2>1
<1> QED
  BY <1>1, <1>2, <1>3

LEMMA FrameTrackerInv ==
  ASSUME TrackerInv, NEW objs \in Seq(Objects), TrackFrame(objs)
  PROVE  TrackerInv'
<1>1. FrameNamed(objs) /\ TracksAfter(objs)
  BY FrameTracked
<1>2. /\ tracks' \in Seq(Tracks)
      /\ \A j, k \in DOMAIN tracks' : tracks'[j].id = tracks'[k].id => j = k
  BY <1>1 DEF TracksAfter
<1>3. tracking' \in BOOLEAN /\ tracking' /\ unseen' \in [1 .. MaxId -> Nat]
  BY UnseenType DEF TrackFrame, TrackerInv
<1>4. /\ nextId' \in 1 .. MaxId + 1 /\ nextId \in 1 .. nextId'
      /\ \A j \in DOMAIN objs : trackerId'[j] \in 1 .. nextId' - 1
  <2>1. /\ nextId' \in Nat /\ nextId <= nextId' /\ nextId' <= MaxId + 1 /\ nextId \in 1 .. MaxId + 1
        /\ trackerId' \in Seq(1 .. nextId' - 1) /\ Len(trackerId') = Len(objs)
    BY <1>1 DEF FrameNamed, TrackerInv
  <2> QED BY <2>1, PipelineAssumption
<1>5. ASSUME NEW k \in DOMAIN tracks'
      PROVE  /\ tracks'[k].id \in 1 .. nextId' - 1 /\ tracks'[k].age <= MaxTrackAge
             /\ tracks'[k].age <= unseen'[tracks'[k].id]
  <2> DEFINE t == tracks'[k]
  <2>1. t.age <= MaxTrackAge /\ (Taken(objs, t) \/ Missed(objs, t))
    BY <1>1 DEF TracksAfter
  <2> HIDE DEF t
  <2>2. CASE Taken(objs, t)
    <3>1. t.id \in 1 .. nextId' - 1 /\ t.age = 0
      BY <1>4, <2>2 DEF Taken
    <3>2. t.id \in 1 .. MaxId
      BY <1>4, <3>1, PipelineAssumption
    <3>3. unseen'[t.id] \in Nat
      BY <1>3, <3>2
    <3> QED BY <2>1, <3>1, <3>3 DEF t
  <2>3. CASE Missed(objs, t)
    <3>1. PICK m \in DOMAIN tracks : tracks[m].id = t.id /\ t.age = tracks[m].age + 1
      BY <2>3 DEF Missed
    <3>2. \A j \in DOMAIN objs : trackerId'[j] # tracks[m].id
      BY <2>3, <3>1 DEF Missed
    <3>3. unseen'[t.id] = OneMore(unseen[t.id])
      BY <3>1, <3>2, MissedUnseen
    <3>4. /\ t.id \in 1 .. nextId - 1 /\ nextId \in 1 .. MaxId + 1
          /\ tracks[m].age <= unseen[t.id] /\ tracks[m].age \in Nat
          /\ unseen \in [1 .. MaxId -> Nat]
      <4>1. tracks \in Seq(Tracks)
        BY DEF TrackerInv
      <4>2. tracks[m] \in Tracks
        BY <4>1
      <4> QED BY <3>1, <4>2 DEF TrackerInv, Tracks
    <3>5. t.id \in 1 .. MaxId /\ t.id \in 1 .. nextId' - 1
      BY <1>4, <3>4, PipelineAssumption
    <3>6. unseen[t.id] \in Nat
      BY <3>4, <3>5
    <3>7. t.age <= unseen'[t.id]
      <4>1. MaxTrackAge \in Nat /\ tracks[m].age <= MaxTrackAge
        BY PipelineAssumption DEF TrackerInv
      <4> QED BY <2>1, <3>1, <3>3, <3>4, <3>6, <4>1, OneMoreGrows
    <3> QED BY <2>1, <3>5, <3>7 DEF t
  <2> QED BY <2>1, <2>2, <2>3
<1>6. DistinctIds'
  <2>1. /\ objects' = objs /\ DOMAIN trackerId' = DOMAIN objs
        /\ \A j, k \in DOMAIN objs : trackerId'[j] = trackerId'[k] => j = k
    <3>1. /\ trackerId' \in Seq(1 .. nextId' - 1) /\ Len(trackerId') = Len(objs)
          /\ \A j, k \in DOMAIN objs : trackerId'[j] = trackerId'[k] => j = k
      BY <1>1 DEF FrameNamed
    <3> QED BY <3>1 DEF TrackFrame
  <2>2. \A k \in DOMAIN tracks' : tracks'[k].id < nextId'
    BY <1>4, <1>5, PipelineAssumption
  <2>3. \A j \in DOMAIN objs : \E k \in DOMAIN tracks' :
          /\ tracks'[k].id = trackerId'[j]
          /\ tracks'[k].place = objs[j].place /\ tracks'[k].class = objs[j].class
    BY <1>1 DEF TracksAfter
  <2> QED BY <1>2, <2>1, <2>2, <2>3 DEF DistinctIds
<1> QED
  BY <1>2, <1>3, <1>4, <1>5, <1>6 DEF TrackerInv

LEMMA TrackerNextInv == TrackerInv /\ [TrackerNext]_trackerVars => TrackerInv'
<1> SUFFICES ASSUME TrackerInv, [TrackerNext]_trackerVars PROVE TrackerInv'
  OBVIOUS
<1>1. CASE StartTracker
  <2>1. tracks' = <<>> /\ nextId' = 1 /\ unseen' \in [1 .. MaxId -> Nat] /\ tracking' \in BOOLEAN
    BY <1>1 DEF StartTracker, NobodySeen, TrackerInv
  <2>2. tracks = <<>> /\ UNCHANGED <<objects, trackerId>> /\ DistinctIds
    BY <1>1 DEF StartTracker, TrackerInv
  <2>3. DistinctIds'
    BY <2>1, <2>2 DEF DistinctIds
  <2> QED BY <2>1, <2>3, PipelineAssumption DEF TrackerInv
<1>2. CASE StopTracker
  <2>1. tracks' = <<>> /\ UNCHANGED <<nextId, unseen>> /\ tracking' \in BOOLEAN
        /\ trackerId' = <<>>
    BY <1>2 DEF StopTracker
  <2>2. DistinctIds'
    BY <2>1 DEF DistinctIds
  <2> QED BY <2>1, <2>2 DEF TrackerInv
<1>3. CASE TrackNothing
  <2>1. unseen' \in [1 .. MaxId -> Nat] /\ UNCHANGED <<tracks, nextId, tracking>> /\ tracking
    BY <1>3, UnseenType DEF TrackNothing
  <2>2. ASSUME NEW k \in DOMAIN tracks
        PROVE  tracks[k].age <= unseen'[tracks[k].id]
    <3>1. /\ tracks[k].id \in 1 .. nextId - 1 /\ nextId \in 1 .. MaxId + 1
          /\ tracks[k].age <= unseen[tracks[k].id] /\ tracks[k].age \in Nat
          /\ tracks[k].age <= MaxTrackAge /\ unseen \in [1 .. MaxId -> Nat]
      <4>1. tracks \in Seq(Tracks)
        BY DEF TrackerInv
      <4>2. tracks[k] \in Tracks
        BY <4>1
      <4> QED BY <4>2 DEF TrackerInv, Tracks
    <3>2. tracks[k].id \in 1 .. MaxId /\ tracks[k].id \in TrackIds
      BY <3>1, PipelineAssumption DEF TrackIds
    <3>3. unseen[tracks[k].id] \in Nat /\ unseen'[tracks[k].id] = OneMore(unseen[tracks[k].id])
      BY <1>3, <3>1, <3>2 DEF TrackNothing
    <3> QED BY <3>1, <3>3, OneMoreGrows
  <2>3. DistinctIds'
    BY <1>3, <2>1 DEF TrackNothing, TrackerInv, DistinctIds
  <2> QED BY <2>1, <2>2, <2>3 DEF TrackerInv
<1>4. ASSUME NEW objs \in Seq(Objects), TrackFrame(objs) PROVE TrackerInv'
  BY <1>4, FrameTrackerInv
<1>5. CASE UNCHANGED trackerVars
  BY <1>5 DEF trackerVars, TrackerInv, DistinctIds
<1> QED
  BY <1>1, <1>2, <1>3, <1>4, <1>5 DEF TrackerNext

(* A detection that can only be one track is that track.                   *)
LEMMA StepKeepsIdentity ==
  ASSUME TrackerInv, TrackerNext
  PROVE  \/ UNCHANGED objects
         \/ \A i \in DOMAIN objects', k \in DOMAIN tracks :
              OnlyMatch(objects', i, k) => trackerId'[i] = tracks[k].id
<1>1. CASE StartTracker
  BY <1>1 DEF StartTracker
<1>2. CASE StopTracker
  BY <1>2 DEF StopTracker
<1>3. CASE TrackNothing
  BY <1>3 DEF TrackNothing
<1>4. ASSUME NEW objs \in Seq(Objects), TrackFrame(objs)
      PROVE  \A i \in DOMAIN objects', k \in DOMAIN tracks :
               OnlyMatch(objects', i, k) => trackerId'[i] = tracks[k].id
  <2>1. objects' = objs
    BY <1>4 DEF TrackFrame
  <2>2. FrameNamed(objs)
    BY <1>4, FrameTracked
  <2> QED BY <2>1, <2>2 DEF FrameNamed
<1> QED
  BY <1>1, <1>2, <1>3, <1>4 DEF TrackerNext

(* A track that goes was unseen for longer than max_age.                   *)
LEMMA StepExpiresLate ==
  ASSUME TrackerInv, TrackerNext, tracking, tracking'
  PROVE  /\ nextId' >= nextId
         /\ \A i \in TrackIds \ TrackIds' : unseen'[i] > MaxTrackAge
<1>1. CASE TrackNothing
  <2>1. nextId \in Nat
    BY PipelineAssumption DEF TrackerInv
  <2> QED BY <1>1, <2>1 DEF TrackNothing, TrackIds
<1>2. ASSUME NEW objs \in Seq(Objects), TrackFrame(objs)
      PROVE  /\ nextId' >= nextId
             /\ \A i \in TrackIds \ TrackIds' : unseen'[i] > MaxTrackAge
  <2>1. FrameNamed(objs) /\ TracksAfter(objs)
    BY <1>2, FrameTracked
  <2>2. nextId' >= nextId
    BY <2>1, PipelineAssumption DEF FrameNamed, TrackerInv
  <2>3. ASSUME NEW i \in TrackIds \ TrackIds' PROVE unseen'[i] > MaxTrackAge
    <3>1. PICK k \in DOMAIN tracks : i = tracks[k].id
      BY <2>3 DEF TrackIds
    <3>2. ~ \E j \in DOMAIN tracks' : tracks'[j].id = tracks[k].id
      BY <2>3, <3>1 DEF TrackIds
    <3>3. /\ \A j \in DOMAIN objs : trackerId'[j] # tracks[k].id
          /\ tracks[k].age + 1 > MaxTrackAge
      BY <2>1, <3>2 DEF TracksAfter
    <3>4. unseen'[i] = OneMore(unseen[i])
      BY <1>2, <3>1, <3>3, MissedUnseen
    <3>5. tracks[k].age <= unseen[i] /\ tracks[k].age \in Nat /\ unseen[i] \in Nat
      <4>1. tracks \in Seq(Tracks) /\ unseen \in [1 .. MaxId -> Nat]
        BY DEF TrackerInv
      <4>2. tracks[k] \in Tracks /\ i \in 1 .. nextId - 1 /\ nextId \in 1 .. MaxId + 1
        BY <3>1, <4>1 DEF TrackerInv
      <4>3. i \in 1 .. MaxId
        BY <4>2, PipelineAssumption
      <4> QED BY <3>1, <4>1, <4>2, <4>3 DEF TrackerInv, Tracks
    <3> QED BY <3>3, <3>4, <3>5, PipelineAssumption DEF OneMore
  <2> QED BY <2>2, <2>3
<1>3. ~StartTracker /\ ~StopTracker
  BY DEF StartTracker, StopTracker
<1> QED
  BY <1>1, <1>2, <1>3 DEF TrackerNext

-----------------------------------------------------------------------------
(* The pipeline: its steps are steps of both elements.                     *)
ObjectsOf(scene) == [k \in DOMAIN scene |-> scene[k].object]

LEMMA SceneType ==
  ASSUME NEW scene \in Scenes
  PROVE  /\ scene \in Seq(Sightings) /\ DOMAIN scene = 1 .. Len(scene) /\ Len(scene) \in Nat
         /\ ObjectsOf(scene) \in Seq(Objects) /\ Len(ObjectsOf(scene)) = Len(scene)
         /\ DOMAIN ObjectsOf(scene) = DOMAIN scene
         /\ \A k \in DOMAIN scene :
              /\ scene[k] \in Sightings /\ scene[k].thing \in Classes
              /\ scene[k].object \in Objects /\ ObjectsOf(scene)[k] = scene[k].object
         /\ Seen(scene) \subseteq Sightings
<1>1. PICK n \in 0 .. Cardinality(Classes) : scene \in [1 .. n -> Sightings]
  BY DEF Scenes
<1>2. n \in Nat /\ DOMAIN scene = 1 .. n
  BY <1>1, FS_CardinalityType, PipelineAssumption
<1>3. scene \in Seq(Sightings) /\ Len(scene) = n
  BY <1>1, <1>2
<1>4. \A k \in 1 .. n : scene[k] \in Sightings /\ scene[k].thing \in Classes
                        /\ scene[k].object \in Objects
  BY <1>1 DEF Sightings
<1>5. ObjectsOf(scene) \in [1 .. n -> Objects]
  BY <1>2, <1>4 DEF ObjectsOf
<1>6. ObjectsOf(scene) \in Seq(Objects) /\ Len(ObjectsOf(scene)) = n
  BY <1>2, <1>5
<1>7. \A k \in DOMAIN scene : ObjectsOf(scene)[k] = scene[k].object
  BY DEF ObjectsOf
<1> QED
  BY <1>2, <1>3, <1>4, <1>5, <1>6, <1>7 DEF Seen

LEMMA PassTracks ==
  ASSUME NEW scene \in Scenes, Pass(scene)
  PROVE  TrackNothing \/ TrackFrame(ObjectsOf(scene))
BY DEF Pass, ObjectsOf

LEMMA PipelineTracks == PipelineNext => TrackerNext
<1> SUFFICES ASSUME PipelineNext PROVE TrackerNext
  OBVIOUS
<1>1. ASSUME NEW scene \in Scenes, Frame(scene) PROVE TrackerNext
  BY <1>1, SceneType, PassTracks DEF Frame, TrackerNext
<1> QED
  BY <1>1 DEF PipelineNext, StartAll, StopAll, TrackerNext

(* What a frame does to the tracks, with detections or without.            *)
Passed(scene) ==
  /\ nextId' \in Nat /\ nextId <= nextId' /\ nextId' <= MaxId + 1
  /\ trackerId' \in Seq(1 .. nextId' - 1) /\ DOMAIN trackerId' = DOMAIN scene
  /\ \A j, k \in DOMAIN scene : trackerId'[j] = trackerId'[k] => j = k
  /\ \A j \in DOMAIN scene, k \in DOMAIN tracks :
       trackerId'[j] = tracks[k].id => Overlaps(scene[j].object, tracks[k])
  /\ \A j \in DOMAIN scene :
       trackerId'[j] >= nextId \/ \E k \in DOMAIN tracks : trackerId'[j] = tracks[k].id
  /\ \A k \in DOMAIN tracks' :
       \/ \E j \in DOMAIN scene : /\ tracks'[k].id = trackerId'[j]
                                  /\ tracks'[k].place = scene[j].object.place
       \/ /\ \A j \in DOMAIN scene : tracks'[k].id # trackerId'[j]
          /\ \E m \in DOMAIN tracks : /\ tracks[m].id = tracks'[k].id
                                      /\ tracks[m].place = tracks'[k].place

LEMMA PassPasses ==
  ASSUME TrackerInv, NEW scene \in Scenes, Pass(scene)
  PROVE  Passed(scene)
<1> DEFINE objs == ObjectsOf(scene)
<1>1. /\ objs \in Seq(Objects) /\ DOMAIN objs = DOMAIN scene
      /\ \A k \in DOMAIN scene : objs[k] = scene[k].object
  BY SceneType
<1> HIDE DEF objs
<1>2. CASE scene = <<>>
  <2>1. DOMAIN scene = {}
    BY <1>2
  <2>2. TrackNothing
    BY <1>2 DEF Pass
  <2>3. /\ trackerId' = <<>> /\ UNCHANGED <<tracks, nextId>> /\ nextId \in 1 .. MaxId + 1
    BY <2>2 DEF TrackNothing, TrackerInv
  <2>4. trackerId' \in Seq(1 .. nextId' - 1) /\ DOMAIN trackerId' = {}
    BY <2>3
  <2>5. nextId' \in Nat /\ nextId <= nextId' /\ nextId' <= MaxId + 1
    BY <2>3, PipelineAssumption
  <2> QED BY <2>1, <2>3, <2>4, <2>5 DEF Passed
<1>3. CASE scene # <<>>
  <2>1. TrackFrame(objs)
    BY <1>3 DEF Pass, ObjectsOf, objs
  <2>2. FrameNamed(objs) /\ TracksAfter(objs)
    BY <1>1, <2>1, FrameTracked
  <2>3. DOMAIN trackerId' = DOMAIN scene
    <3>1. trackerId' \in Seq(1 .. nextId' - 1) /\ Len(trackerId') = Len(objs)
      BY <2>2 DEF FrameNamed
    <3> QED BY <1>1, <3>1
  <2>4. /\ nextId' \in Nat /\ nextId <= nextId' /\ nextId' <= MaxId + 1
        /\ trackerId' \in Seq(1 .. nextId' - 1)
        /\ \A j, k \in DOMAIN scene : trackerId'[j] = trackerId'[k] => j = k
        /\ \A j \in DOMAIN scene :
             trackerId'[j] >= nextId \/ \E k \in DOMAIN tracks : trackerId'[j] = tracks[k].id
    BY <1>1, <2>2 DEF FrameNamed
  <2>5. \A j \in DOMAIN scene, k \in DOMAIN tracks :
          trackerId'[j] = tracks[k].id => Overlaps(scene[j].object, tracks[k])
    BY <1>1, <2>2 DEF FrameNamed
  <2>6. ASSUME NEW k \in DOMAIN tracks'
        PROVE  \/ \E j \in DOMAIN scene : /\ tracks'[k].id = trackerId'[j]
                                          /\ tracks'[k].place = scene[j].object.place
               \/ /\ \A j \in DOMAIN scene : tracks'[k].id # trackerId'[j]
                  /\ \E m \in DOMAIN tracks : /\ tracks[m].id = tracks'[k].id
                                              /\ tracks[m].place = tracks'[k].place
    <3>1. CASE Taken(objs, tracks'[k])
      BY <1>1, <3>1 DEF Taken
    <3>2. CASE Missed(objs, tracks'[k])
      <4>1. \A j \in DOMAIN scene : tracks'[k].id # trackerId'[j]
        BY <1>1, <3>2 DEF Missed
      <4>2. \E m \in DOMAIN tracks : /\ tracks[m].id = tracks'[k].id
                                     /\ tracks[m].place = tracks'[k].place
        BY <3>2 DEF Missed
      <4> QED BY <4>1, <4>2
    <3> QED BY <2>2, <3>1, <3>2 DEF TracksAfter
  <2> QED BY <2>3, <2>4, <2>5, <2>6 DEF Passed
<1> QED
  BY <1>2, <1>3

(* What the classifier is given of a frame.                                *)
LEMMA AnswersType ==
  ASSUME TrackerInv, NEW scene \in Scenes, Pass(scene), NEW unclear,
         NEW frame, frame = Answers(scene, trackerId', unclear)
  PROVE  /\ frame \in Frames
         /\ DOMAIN frame = {trackerId'[k] : k \in DOMAIN scene}
         /\ \A k \in DOMAIN scene : frame[trackerId'[k]] \in {NoLabel, scene[k].thing}
<1> DEFINE S == {trackerId'[k] : k \in DOMAIN trackerId'}
           at(i) == CHOOSE k \in DOMAIN trackerId' : trackerId'[k] = i
<1>1. Passed(scene)
  BY PassPasses
<1>2. /\ DOMAIN trackerId' = DOMAIN scene /\ trackerId' \in Seq(1 .. nextId' - 1)
      /\ nextId' \in Nat /\ nextId' <= MaxId + 1
      /\ \A j, k \in DOMAIN scene : trackerId'[j] = trackerId'[k] => j = k
  BY <1>1 DEF Passed
<1>3. \A k \in DOMAIN scene : trackerId'[k] \in Ids
  BY <1>2, PipelineAssumption
<1>4. frame = [i \in S |-> IF scene[at(i)].thing \in unclear THEN NoLabel
                           ELSE scene[at(i)].thing]
  BY Zenon DEF Answers
<1>5. \A k \in DOMAIN scene : at(trackerId'[k]) = k
  BY <1>2
<1> HIDE DEF at
<1>6. \A k \in DOMAIN scene : frame[trackerId'[k]] \in {NoLabel, scene[k].thing}
  BY <1>2, <1>4, <1>5
<1>7. frame \in [S -> Labels]
  <2>1. ASSUME NEW i \in S PROVE frame[i] \in Labels
    <3>1. PICK k \in DOMAIN scene : i = trackerId'[k]
      BY <1>2
    <3> QED BY <1>6, <3>1, SceneType DEF Labels
  <2> QED BY <1>4, <2>1
<1>8. S \in SUBSET (Ids \union {Untracked})
  BY <1>2, <1>3
<1>9. frame \in Frames
  BY <1>7, <1>8 DEF Frames
<1> QED
  BY <1>2, <1>4, <1>6, <1>9

(* A frame for the classifier: the objects that are shown, or none.        *)
Fitting(scene, frame) ==
  /\ frame \in Frames
  /\ \A i \in DOMAIN frame : \E k \in DOMAIN scene : i = trackerId'[k]
  /\ \A k \in DOMAIN scene :
       trackerId'[k] \in DOMAIN frame => frame[trackerId'[k]] \in {NoLabel, scene[k].thing}

LEMMA FrameFits ==
  ASSUME TrackerInv, NEW scene \in Scenes, Frame(scene)
  PROVE  \E frame : Fitting(scene, frame) /\ TransformIp(frame)
<1>1. PICK frame \in {Empty} \union {Answers(scene, trackerId', unclear) :
                                    unclear \in SUBSET {s.thing : s \in Seen(scene)}} :
        TransformIp(frame)
  BY DEF Frame
<1>2. CASE frame = Empty
  <2>1. DOMAIN Empty = {} /\ Empty \in Frames
    <3>1. Empty \in [{} -> Labels] /\ {} \in SUBSET (Ids \union {Untracked})
      BY DEF Empty
    <3> QED BY <3>1 DEF Frames, Empty
  <2>2. Fitting(scene, frame)
    BY <1>2, <2>1 DEF Fitting
  <2> QED BY <1>1, <2>2
<1>3. ASSUME NEW unclear, frame = Answers(scene, trackerId', unclear)
      PROVE  Fitting(scene, frame)
  <2>1. Pass(scene)
    BY DEF Frame
  <2>2. /\ frame \in Frames
        /\ DOMAIN frame = {trackerId'[k] : k \in DOMAIN scene}
        /\ \A k \in DOMAIN scene : frame[trackerId'[k]] \in {NoLabel, scene[k].thing}
    BY <1>3, <2>1, AnswersType
  <2> QED BY <2>2 DEF Fitting
<1> QED
  BY <1>1, <1>2, <1>3

LEMMA PipelineClassifies == TrackerInv /\ PipelineNext => Next
<1> SUFFICES ASSUME TrackerInv, PipelineNext PROVE Next
  OBVIOUS
<1>1. ASSUME NEW scene \in Scenes, Frame(scene) PROVE Next
  BY <1>1, FrameFits DEF Fitting, Next
<1> QED
  BY <1>1 DEF PipelineNext, StartAll, StopAll, Next

-----------------------------------------------------------------------------
(***************************************************************************)
(* The labels.  What makes LabelsFollow inductive is that the place of a   *)
(* track whose label is kept was seen, with that label's thing on it, in a *)
(* frame that the trail still holds: later than the cache saw the track.   *)
(***************************************************************************)
SeenSince(i, k) ==
  \E n \in DOMAIN trail : \E s \in trail[n] :
    /\ frameNo - Len(trail) + n > entries[i].seen
    /\ s.thing = entries[i].class /\ s.object.place = tracks[k].place

Kin ==
  apart =>
    \A i \in cached, k \in DOMAIN tracks :
      tracks[k].id = i /\ Kept(i) => SeenSince(i, k)

TrailInv ==
  /\ trail \in Seq(SUBSET Sightings)
  /\ Len(trail) = IF frameNo <= MaxAge THEN frameNo ELSE MaxAge

PipeInv ==
  /\ running = tracking
  /\ \A i \in cached : i < nextId
  /\ TrailInv
  /\ apart \in BOOLEAN
  /\ Kin
  /\ LabelsFollow

PIInv == IInv /\ TrackerInv /\ PipeInv

LEMMA InitPIInv == PipelineInit => PIInv
<1> SUFFICES ASSUME PipelineInit PROVE PIInv
  OBVIOUS
<1>1. IInv /\ TrackerInv
  BY InitIInv, TrackerInitInv DEF PipelineInit
<1>2. cached = {} /\ DOMAIN who = {} /\ running = tracking /\ apart \in BOOLEAN
  <2>1. running = FALSE /\ tracking = FALSE /\ entries = Empty /\ who = <<>> /\ apart = TRUE
    BY Zenon DEF PipelineInit, Init, TrackerInit
  <2>2. DOMAIN entries = {} /\ DOMAIN who = {}
    BY <2>1 DEF Empty
  <2> QED BY <2>1, <2>2 DEF cached
<1>3. trail = <<>> /\ frameNo = 0
  BY DEF PipelineInit, Init
<1>4. TrailInv
  BY <1>3, SecondaryInferAssumption DEF TrailInv
<1>5. Kin /\ LabelsFollow
  BY <1>2 DEF Kin, LabelsFollow
<1> QED
  BY <1>1, <1>2, <1>4, <1>5 DEF PIInv, PipeInv

(* start() and stop() forget the labels.                                   *)
LEMMA ResetPIInv ==
  ASSUME PIInv, StartAll \/ StopAll
  PROVE  PipeInv'
<1>1. cached' = {} /\ DOMAIN meta' = {}
  BY DEF StartAll, StopAll, Start, Stop, Empty, cached
<1>2. running' = tracking'
  BY DEF StartAll, StopAll, Start, Stop, StartTracker, StopTracker, PIInv, PipeInv
<1>3. apart' \in BOOLEAN
  BY DEF StartAll, StopAll, PIInv, PipeInv
<1>4. TrailInv'
  <2>1. CASE StartAll
    <3>1. trail' = <<>> /\ frameNo' = 0
      BY <2>1 DEF StartAll, Start
    <3> QED BY <3>1, SecondaryInferAssumption DEF TrailInv
  <2>2. CASE StopAll
    BY <2>2 DEF StopAll, Stop, PIInv, PipeInv, TrailInv
  <2> QED BY <2>1, <2>2
<1>5. Kin' /\ LabelsFollow'
  BY <1>1 DEF Kin, LabelsFollow
<1> QED
  BY <1>1, <1>2, <1>3, <1>4, <1>5 DEF PipeInv

(* The trail moves on with the frames.                                     *)
LEMMA TrailMoves ==
  ASSUME PIInv, NEW scene \in Scenes, Pass(scene), frameNo' = frameNo + 1
  PROVE  /\ TrailInv' /\ DOMAIN trail' = 1 .. Len(trail') /\ Len(trail') \in Nat \ {0}
         /\ trail'[Len(trail')] = Seen(scene)
         /\ \A n \in DOMAIN trail :
              frameNo - Len(trail) + n > frameNo - MaxAge + 1 =>
                \E m \in DOMAIN trail' :
                  /\ trail'[m] = trail[n]
                  /\ frameNo' - Len(trail') + m = frameNo - Len(trail) + n
<1>1. /\ trail \in Seq(SUBSET Sightings) /\ Len(trail) \in Nat
      /\ DOMAIN trail = 1 .. Len(trail) /\ frameNo \in Nat
      /\ Len(trail) = IF frameNo <= MaxAge THEN frameNo ELSE MaxAge
      /\ MaxAge \in Nat \ {0}
  BY SecondaryInferAssumption DEF PIInv, PipeInv, TrailInv, IInv, TypeOK
<1>2. Seen(scene) \in SUBSET Sightings
  BY SceneType
<1>3. trail' = IF Len(trail) < MaxAge THEN Append(trail, Seen(scene))
               ELSE Append(Tail(trail), Seen(scene))
  BY DEF Pass
<1>4. CASE Len(trail) < MaxAge
  <2>1. /\ trail' \in Seq(SUBSET Sightings) /\ Len(trail') = Len(trail) + 1
        /\ \A n \in 1 .. Len(trail) : trail'[n] = trail[n]
        /\ trail'[Len(trail')] = Seen(scene)
    BY <1>1, <1>2, <1>3, <1>4
  <2>2. DOMAIN trail' = 1 .. Len(trail') /\ Len(trail') \in Nat \ {0}
    BY <1>1, <2>1
  <2>3. \A n \in DOMAIN trail :
          /\ n \in DOMAIN trail'
          /\ frameNo' - Len(trail') + n = frameNo - Len(trail) + n
    BY <1>1, <2>1, <2>2
  <2>4. TrailInv'
    BY <1>1, <1>4, <2>1 DEF TrailInv
  <2> QED BY <1>1, <2>1, <2>2, <2>3, <2>4
<1>5. CASE ~(Len(trail) < MaxAge)
  <2>1. Len(trail) = MaxAge /\ trail # <<>> /\ frameNo >= MaxAge
    BY <1>1, <1>5
  <2>2. /\ Tail(trail) \in Seq(SUBSET Sightings) /\ Len(Tail(trail)) = Len(trail) - 1
        /\ \A n \in 1 .. Len(trail) - 1 : Tail(trail)[n] = trail[n + 1]
    BY <1>1, <2>1
  <2>3. /\ trail' \in Seq(SUBSET Sightings) /\ Len(trail') = Len(trail)
        /\ \A n \in 1 .. Len(trail) - 1 : trail'[n] = trail[n + 1]
        /\ trail'[Len(trail')] = Seen(scene)
    BY <1>1, <1>2, <1>3, <1>5, <2>1, <2>2
  <2>4. DOMAIN trail' = 1 .. Len(trail') /\ Len(trail') \in Nat \ {0}
    BY <1>1, <2>1, <2>3
  <2>5. ASSUME NEW n \in DOMAIN trail, frameNo - Len(trail) + n > frameNo - MaxAge + 1
        PROVE  \E m \in DOMAIN trail' :
                 /\ trail'[m] = trail[n]
                 /\ frameNo' - Len(trail') + m = frameNo - Len(trail) + n
    <3>1. n - 1 \in 1 .. Len(trail) - 1 /\ n - 1 \in DOMAIN trail' /\ n - 1 + 1 = n
      BY <1>1, <2>1, <2>3, <2>4, <2>5
    <3>2. trail'[n - 1] = trail[n]
      BY <2>3, <3>1
    <3>3. frameNo' - Len(trail') + (n - 1) = frameNo - Len(trail) + n
      <4>1. n \in Int /\ frameNo \in Int /\ Len(trail) \in Int /\ Len(trail') = Len(trail)
        BY <1>1, <2>3
      <4> QED BY <4>1
    <3> QED BY <3>1, <3>2, <3>3
  <2>6. TrailInv'
    BY <1>1, <2>1, <2>3 DEF TrailInv
  <2> QED BY <2>3, <2>4, <2>5, <2>6
<1> QED
  BY <1>4, <1>5

(* An object that is shown under the id of a label that is kept is the     *)
(* thing the label says.                                                   *)
LEMMA SameThing ==
  ASSUME PIInv, NEW scene \in Scenes, Pass(scene), apart',
         NEW j \in DOMAIN scene, trackerId'[j] \in cached, Kept(trackerId'[j])
  PROVE  scene[j].thing = entries[trackerId'[j]].class
<1> DEFINE i == trackerId'[j]
<1>1. apart /\ Apart(scene)
  BY DEF Pass
<1>2. Passed(scene)
  BY PassPasses DEF PIInv
<1>3. i < nextId /\ i \in Nat /\ nextId \in Nat
  <2>1. i \in 1 .. nextId' - 1 /\ nextId' \in Nat
    <3>1. trackerId' \in Seq(1 .. nextId' - 1) /\ DOMAIN trackerId' = DOMAIN scene
          /\ nextId' \in Nat
      BY <1>2 DEF Passed
    <3> QED BY <3>1
  <2>2. i < nextId /\ nextId \in 1 .. MaxId + 1
    BY DEF PIInv, PipeInv, TrackerInv
  <2> QED BY <2>1, <2>2, PipelineAssumption
<1>4. PICK k \in DOMAIN tracks : i = tracks[k].id
  BY <1>2, <1>3 DEF Passed
<1>5. Overlaps(scene[j].object, tracks[k])
  BY <1>2, <1>4 DEF Passed
<1>55. SeenSince(i, k)
  BY <1>1, <1>4 DEF PIInv, PipeInv, Kin
<1>56. PICK n \in DOMAIN trail : \E s \in trail[n] :
         s.thing = entries[i].class /\ s.object.place = tracks[k].place
  BY <1>55 DEF SeenSince
<1>6. PICK s \in trail[n] : s.thing = entries[i].class /\ s.object.place = tracks[k].place
  BY <1>56
<1>7. scene[j] \in Seen(scene) /\ s \in Before
  BY <1>56 DEF Seen, Before
<1>8. Overlap(scene[j].object.place, s.object.place) >= MinOverlap
  BY <1>5, <1>6 DEF Overlaps
<1>9. Overlap(scene[j].object.place, s.object.place) \in Nat /\ MinOverlap \in Nat
  <2>1. scene[j].object.place \in Places /\ s.object.place \in Places
    <3>1. s \in Sightings
      BY DEF PIInv, PipeInv, TrailInv
    <3> QED BY <3>1, SceneType DEF Sightings, Objects
  <2>2. MinOverlap \in Nat /\ Width \in Nat
    BY PipelineAssumption
  <2>3. Overlap(scene[j].object.place, s.object.place) \in 0 .. Width
    BY <2>1, OverlapType
  <2> QED BY <2>2, <2>3
<1>10. scene[j].thing # s.thing =>
         Overlap(scene[j].object.place, s.object.place) < MinOverlap
  BY <1>1, <1>7 DEF Apart
<1> QED
  BY <1>6, <1>8, <1>9, <1>10

LEMMA FramePipeInv ==
  ASSUME PIInv, NEW scene \in Scenes, Frame(scene), IInv'
  PROVE  PipeInv'
<1>1. PICK frame : Fitting(scene, frame) /\ TransformIp(frame)
  BY FrameFits DEF PIInv
<1>2. Pass(scene) /\ Passed(scene)
  BY PassPasses DEF Frame, PIInv
<1>3. /\ frameNo' = frameNo + 1 /\ frameNo \in Nat /\ frameNo' \in Nat
      /\ cached' = {k \in Ids : Kept(k) \/ k \in Inferred(frame)}
      /\ \A i \in cached' : entries'[i] = After(frame, i)
      /\ meta' = [i \in DOMAIN frame |-> ClassEntry(frame, i)]
      /\ UNCHANGED running
  BY <1>1 DEF TransformIp, cached, PIInv, IInv, TypeOK
<1>4. /\ frame \in Frames
      /\ \A i \in DOMAIN frame : \E k \in DOMAIN scene : i = trackerId'[k]
      /\ \A k \in DOMAIN scene :
           trackerId'[k] \in DOMAIN frame => frame[trackerId'[k]] \in {NoLabel, scene[k].thing}
  BY <1>1 DEF Fitting
<1>5. \A i \in Inferred(frame) : i \in DOMAIN frame /\ frame[i] # NoLabel
  BY DEF Inferred
<1>6. \A k \in DOMAIN scene : trackerId'[k] \in Ids /\ trackerId'[k] < nextId'
  <2>1. /\ trackerId' \in Seq(1 .. nextId' - 1) /\ DOMAIN trackerId' = DOMAIN scene
        /\ nextId' \in Nat /\ nextId' <= MaxId + 1
    BY <1>2 DEF Passed
  <2> QED BY <2>1, PipelineAssumption
<1>7. /\ TrailInv' /\ DOMAIN trail' = 1 .. Len(trail') /\ Len(trail') \in Nat \ {0}
      /\ trail'[Len(trail')] = Seen(scene)
      /\ \A n \in DOMAIN trail :
           frameNo - Len(trail) + n > frameNo - MaxAge + 1 =>
             \E m \in DOMAIN trail' :
               /\ trail'[m] = trail[n]
               /\ frameNo' - Len(trail') + m = frameNo - Len(trail) + n
  BY <1>2, <1>3, TrailMoves
<1>8. running' = tracking'
  BY <1>2, <1>3 DEF Pass, TrackNothing, TrackFrame, PIInv, PipeInv
<1>9. apart' \in BOOLEAN
  BY <1>2, Zenon DEF Pass, PIInv, PipeInv, Apart
<1>10. ASSUME NEW i \in cached' PROVE i < nextId'
  <2>1. CASE i \in Inferred(frame)
    BY <1>4, <1>5, <1>6, <2>1
  <2>2. CASE Kept(i)
    <3>1. i < nextId /\ i \in Nat
      BY <1>3, <2>2, PipelineAssumption DEF Kept, PIInv, PipeInv
    <3>2. nextId \in Nat /\ nextId' \in Nat /\ nextId <= nextId'
      BY <1>2, PipelineAssumption DEF Passed, PIInv, TrackerInv
    <3> QED BY <3>1, <3>2
  <2> QED BY <1>3, <2>1, <2>2
(* What the frame says of an object, under a label or a new answer.        *)
<1>11. ASSUME apart', NEW j \in DOMAIN scene, trackerId'[j] \in cached'
       PROVE  entries'[trackerId'[j]].class = scene[j].thing
  <2> DEFINE i == trackerId'[j]
  <2>1. CASE i \in Inferred(frame)
    <3>1. frame[i] = scene[j].thing
      BY <1>4, <1>5, <2>1
    <3>2. entries'[i] = After(frame, i)
      BY <1>3, <1>11
    <3>3. After(frame, i).class = frame[i]
      BY <2>1 DEF After
    <3> QED BY <3>1, <3>2, <3>3
  <2>2. CASE i \notin Inferred(frame)
    <3>1. Kept(i) /\ i \in cached
      BY <1>3, <1>11, <2>2 DEF Kept
    <3>2. scene[j].thing = entries[i].class
      BY <1>2, <1>11, <3>1, SameThing
    <3>3. entries'[i].class = entries[i].class
      BY <1>3, <1>4, <1>6, <2>2, <3>1, AfterType, <1>11 DEF PIInv
    <3> QED BY <3>2, <3>3
  <2> QED BY <2>1, <2>2
<1>12. Kin'
  <2> SUFFICES ASSUME apart', NEW i \in cached', NEW k \in DOMAIN tracks',
                      tracks'[k].id = i, Kept(i)'
               PROVE  SeenSince(i, k)'
    BY DEF Kin
  <2>1. ASSUME NEW j \in DOMAIN scene, tracks'[k].id = trackerId'[j],
               tracks'[k].place = scene[j].object.place
        PROVE  SeenSince(i, k)'
    <3>1. scene[j] \in trail'[Len(trail')] /\ Len(trail') \in DOMAIN trail'
      BY <1>7 DEF Seen
    <3>2. scene[j].thing = entries'[i].class
      BY <1>11, <2>1
    <3>3. entries'[i].seen < frameNo'
      BY DEF IInv, AgesOrdered
    <3>4. frameNo' - Len(trail') + Len(trail') = frameNo'
      BY <1>3, <1>7
    <3>5. frameNo' - Len(trail') + Len(trail') > entries'[i].seen
      <4>1. entries'[i].seen \in Nat
        BY DEF IInv, TypeOK, Entry
      <4> QED BY <1>3, <3>3, <3>4, <4>1
    <3> QED BY <2>1, <3>1, <3>2, <3>5 DEF SeenSince
  <2>2. ASSUME \A j \in DOMAIN scene : tracks'[k].id # trackerId'[j],
               NEW m \in DOMAIN tracks, tracks[m].id = tracks'[k].id,
               tracks[m].place = tracks'[k].place
        PROVE  SeenSince(i, k)'
    <3>1. i \notin DOMAIN frame /\ i \notin Inferred(frame)
      BY <1>4, <1>5, <2>2
    <3>2. Kept(i) /\ i \in cached /\ entries'[i] = entries[i]
      BY <1>3, <3>1 DEF After, Kept
    <3>3. apart /\ tracks[m].id = i
      BY <1>2, <2>2 DEF Pass
    <3>41. SeenSince(i, m)
      BY <3>2, <3>3 DEF PIInv, PipeInv, Kin
    <3>42. PICK n \in DOMAIN trail : \E s \in trail[n] :
             /\ frameNo - Len(trail) + n > entries[i].seen
             /\ s.thing = entries[i].class /\ s.object.place = tracks[m].place
      BY <3>41 DEF SeenSince
    <3>4. PICK s \in trail[n] :
            /\ frameNo - Len(trail) + n > entries[i].seen
            /\ s.thing = entries[i].class /\ s.object.place = tracks[m].place
      BY <3>42
    <3>5. frameNo' - entries[i].seen <= MaxAge /\ entries[i].seen \in Nat
      BY <3>2 DEF Kept, PIInv, IInv, TypeOK, Entry
    <3>6. frameNo - Len(trail) + n > frameNo - MaxAge + 1
      <4>1. n \in Nat /\ Len(trail) \in Nat /\ MaxAge \in Nat
        BY SecondaryInferAssumption DEF PIInv, PipeInv, TrailInv
      <4> QED BY <1>3, <3>4, <3>5, <4>1
    <3>7. PICK q \in DOMAIN trail' :
            /\ trail'[q] = trail[n]
            /\ frameNo' - Len(trail') + q = frameNo - Len(trail) + n
      BY <1>7, <3>6
    <3>8. /\ s \in trail'[q] /\ frameNo' - Len(trail') + q > entries'[i].seen
          /\ s.thing = entries'[i].class /\ s.object.place = tracks'[k].place
      BY <2>2, <3>2, <3>4, <3>7
    <3> QED BY <3>8 DEF SeenSince
  <2> QED BY <1>2, <2>1, <2>2 DEF Passed
<1>13. LabelsFollow'
  <2> SUFFICES ASSUME apart', NEW k \in DOMAIN scene, trackerId'[k] \in DOMAIN frame
               PROVE  meta'[trackerId'[k]].class \in {NoLabel, scene[k].thing}
    BY <1>2, <1>3 DEF Pass, LabelsFollow
  <2> DEFINE i == trackerId'[k]
  <2>1. meta'[i].class = IF i \in Inferred(frame) THEN frame[i]
                         ELSE IF i \in Ids /\ Kept(i) THEN entries[i].class
                         ELSE NoLabel
    BY <1>3 DEF ClassEntry
  <2>2. CASE i \in Inferred(frame)
    BY <1>4, <2>1, <2>2
  <2>3. CASE i \notin Inferred(frame) /\ Kept(i)
    <3>1. scene[k].thing = entries[i].class
      BY <1>2, <2>3, SameThing DEF Kept
    <3> QED BY <1>6, <2>1, <2>3, <3>1
  <2>4. CASE i \notin Inferred(frame) /\ ~Kept(i)
    BY <2>1, <2>4
  <2> QED BY <2>2, <2>3, <2>4
<1> QED
  BY <1>7, <1>8, <1>9, <1>10, <1>12, <1>13 DEF PipeInv

LEMMA NextPIInv == PIInv /\ [PipelineNext]_pipeline => PIInv' /\ [Next]_vars
<1> SUFFICES ASSUME PIInv, [PipelineNext]_pipeline PROVE PIInv' /\ [Next]_vars
  OBVIOUS
<1>1. CASE UNCHANGED pipeline
  <2>1. UNCHANGED vars /\ UNCHANGED trackerVars /\ UNCHANGED <<who, trail, apart>>
    BY <1>1 DEF pipeline
  <2>2. IInv' /\ TrackerInv'
    BY <2>1, NextIInv, TrackerNextInv DEF PIInv
  <2>3. PipeInv'
    BY <2>1 DEF vars, trackerVars, PIInv, PipeInv, TrailInv, Kin, SeenSince, Kept, cached,
                LabelsFollow
  <2> QED BY <2>1, <2>2, <2>3 DEF PIInv
<1>2. CASE PipelineNext
  <2>1. Next
    BY <1>2, PipelineClassifies DEF PIInv
  <2>2. IInv' /\ TrackerInv'
    BY <1>2, <2>1, NextIInv, PipelineTracks, TrackerNextInv DEF PIInv
  <2>3. ASSUME NEW scene \in Scenes, Frame(scene) PROVE PipeInv'
    BY <2>2, <2>3, FramePipeInv
  <2>4. PipeInv'
    BY <1>2, <2>3, ResetPIInv DEF PipelineNext
  <2> QED BY <2>1, <2>2, <2>4 DEF PIInv
<1> QED
  BY <1>1, <1>2

LEMMA PIInvAlways == PipelineSpec => []PIInv
<1>1. PIInv /\ [PipelineNext]_pipeline => PIInv'
  BY NextPIInv
<1> QED BY <1>1, InitPIInv, PTL DEF PipelineSpec

(* Behind the tracker the classifier behaves as it does on its own, so     *)
(* what is proved of it above holds there.                                 *)
THEOREM PipelineRefines == PipelineSpec => Spec /\ ImplementsMemory
<1>1. PipelineInit => Init
  BY DEF PipelineInit
<1>2. PIInv /\ [PipelineNext]_pipeline => [Next]_vars
  BY NextPIInv
<1>3. PipelineSpec => Spec
  BY <1>1, <1>2, PIInvAlways, PTL DEF PipelineSpec, Spec
<1> QED BY <1>3, Implements, PTL

(* While the things keep their distance no label moves from one to         *)
(* another.                                                                *)
THEOREM LabelsStay == PipelineSpec => []LabelsFollow
<1>1. PIInv => LabelsFollow
  BY DEF PIInv, PipeInv
<1> QED BY <1>1, PIInvAlways, PTL

(* An unambiguous detection continues the one track it overlaps.           *)
THEOREM IdentityIsKept == PipelineSpec => IdentityKept
<1>1. PIInv /\ [PipelineNext]_pipeline =>
        [\A i \in DOMAIN objects', k \in DOMAIN tracks :
           OnlyMatch(objects', i, k) => trackerId'[i] = tracks[k].id]_objects
  BY PipelineTracks, StepKeepsIdentity DEF PIInv, pipeline, trackerVars
<1> QED BY <1>1, PIInvAlways, PTL DEF PipelineSpec, IdentityKept

(* Live tracks and the detections of a frame carry distinct ids, which is  *)
(* what lets a frame be a function of ids in SecondaryInfer, and each      *)
(* detection is where the track it names is now.                           *)
THEOREM IdsAreDistinct == PipelineSpec => []DistinctIds
<1>1. PIInv => DistinctIds
  BY DEF PIInv, TrackerInv
<1> QED BY <1>1, PIInvAlways, PTL

(* No track goes before max_age frames without a detection, and the ids    *)
(* only grow while the element runs.                                       *)
THEOREM TracksOutlive == PipelineSpec => NoEarlyExpiry
<1>1. PIInv /\ [PipelineNext]_pipeline =>
        [tracking /\ tracking' =>
           /\ nextId' >= nextId
           /\ \A i \in TrackIds \ TrackIds' : unseen'[i] > MaxTrackAge]_trackerVars
  BY PipelineTracks, StepExpiresLate DEF PIInv, pipeline
<1> QED BY <1>1, PIInvAlways, PTL DEF PipelineSpec, NoEarlyExpiry
=============================================================================
