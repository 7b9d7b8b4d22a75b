--------------------------- MODULE NvmmIpc_proofs ---------------------------
(***************************************************************************)
(* Proofs about NvmmIpc, for every pool size, release delay, finite set of *)
(* consumers and number of frames.                                         *)
(*                                                                         *)
(* The inductive invariant is IInv: the types, where the producer is       *)
(* (SinkOK), and the two facts about references that hold each other up:   *)
(* ref_counts counts the references exactly (RefCountsExact), which is     *)
(* what makes the compare-and-swap 0 -> -1 a proof that nobody holds the   *)
(* slot (WriterExclusive), which is what lets the producer store 0 over    *)
(* its -1 without losing an increment.                                     *)
(***************************************************************************)
EXTENDS NvmmIpc, FiniteSetTheorems, TLAPS

USE PoolAssumption, DelayAssumption, ReadersAssumption, FramesAssumption

(* While a frame is under way the producer has a slot for it, and a number.*)
SinkOK ==
  /\ sinkPc \notin {"idle", "scan"} => target \in Slots
  /\ sinkPc \notin {"idle", "ready"} => nextFrame < MaxFrames

TypeInv == TypeOK /\ SinkOK

IInv == TypeInv /\ RefCountsExact /\ WriterExclusive /\ WindowStable

-----------------------------------------------------------------------------
(* The scan visits slots of the pool only.                                 *)
LEMMA ScanSlotType == \A i \in Nat : ScanSlot(i) \in Slots
  BY DEF ScanSlot, PrivWriteIdx, Slots

(* Values the steps store belong to their types.                           *)
LEMMA ConstantTypes ==
  /\ 0 \in Slots /\ 0 \in RingPlaces /\ 0 \in Frames
  /\ Blank \in Contents /\ Torn \in Contents /\ Spoilt \in Contents
  /\ Frames \subseteq Contents /\ Contents \subseteq Int
  /\ NoSlot \notin Slots
  /\ \A h \in RingPlaces : (h + 1) % ReleaseDelay \in RingPlaces
  BY DEF Slots, RingPlaces, Frames, Blank, Torn, Spoilt, Contents, NoSlot

LEMMA TypeInit == Init => TypeInv
<1> SUFFICES ASSUME Init PROVE TypeInv
  OBVIOUS
<1> USE ConstantTypes DEF Init
<1>1. /\ writeIdx \in Slots /\ timestamp \in Frames /\ frameNumber \in Frames
      /\ sinkPc \in SinkStates /\ scan \in 0 .. PoolSize
      /\ target \in Slots \union {NoSlot} /\ nextFrame \in Frames
  BY DEF SinkStates
<1>2. /\ refCounts \in [Slots -> Int]
      /\ pixels \in [Slots -> Contents] /\ metaRec \in [Slots -> Contents]
  OBVIOUS
<1>3. /\ readerPc \in [Readers -> ReaderStates] /\ idx \in [Readers -> Slots]
      /\ ringHead \in [Readers -> RingPlaces]
      /\ lastFrame \in [Readers -> Frames] /\ polled \in [Readers -> Frames]
      /\ newest \in [Readers -> Contents]
      /\ got \in [Readers -> [pts : Contents, meta : Contents]]
  BY DEF ReaderStates
<1>4. /\ ring \in [Readers -> [RingPlaces -> Slots \union {NoSlot}]]
      /\ ringFrame \in [Readers -> [RingPlaces -> Contents]]
  OBVIOUS
<1>5. SinkOK
  BY DEF SinkOK
<1>6. ready \in BOOLEAN
  BY Zenon
<1> QED
  BY <1>1, <1>2, <1>3, <1>4, <1>5, <1>6 DEF TypeInv, TypeOK

(* The producer's steps keep the types.                                    *)
LEMMA TypeSink == TypeInv /\ SinkNext => TypeInv'
<1> SUFFICES ASSUME TypeInv, SinkNext PROVE TypeInv'
  OBVIOUS
<1> USE DEF TypeInv, TypeOK, SinkOK, SinkStates, headerVars, readerVars, ringVars
<1>1. CASE BeginRender
  BY <1>1 DEF BeginRender
<1>2. CASE LockSlot
  <2>1. ScanSlot(scan) \in Slots
    BY <1>2, ScanSlotType DEF LockSlot
  <2> QED BY <1>2, <2>1 DEF LockSlot
<1>3. CASE SkipSlot
  BY <1>3 DEF SkipSlot
<1>4. CASE DropFrame
  BY <1>4 DEF DropFrame
<1>5. CASE BeginTransform
  BY <1>5, ConstantTypes DEF BeginTransform
<1>6. CASE TransformFails
  BY <1>6, ConstantTypes DEF TransformFails
<1>15. CASE UnlockFailed
  BY <1>15 DEF UnlockFailed
<1>7. CASE EndTransform
  BY <1>7, ConstantTypes DEF EndTransform
<1>8. CASE UnlockSlot
  BY <1>8 DEF UnlockSlot
<1>9. CASE BeginMeta
  BY <1>9, ConstantTypes DEF BeginMeta
<1>10. CASE EndMeta
  BY <1>10, ConstantTypes DEF EndMeta
<1>11. CASE StoreIndex
  BY <1>11 DEF StoreIndex
<1>12. CASE StoreTimestamp
  BY <1>12 DEF StoreTimestamp
<1>13. CASE StoreFrameNumber
  BY <1>13 DEF StoreFrameNumber, Frames
<1>14. CASE StoreReady
  BY <1>14 DEF StoreReady
<1> QED
  BY <1>1, <1>2, <1>3, <1>4, <1>5, <1>6, <1>7, <1>8, <1>9, <1>10, <1>11,
     <1>12, <1>13, <1>14, <1>15 DEF SinkNext, SinkWorks

(* The locals of create() when it returns.                                 *)
LEMMA ReturnType ==
  ASSUME TypeInv, NEW r \in Readers, Return(r)
  PROVE  /\ idx' \in [Readers -> Slots]
         /\ got' \in [Readers -> [pts : Contents, meta : Contents]]
         /\ polled' \in [Readers -> Frames]
         /\ \A q \in Readers \ {r} : UNCHANGED <<idx[q], got[q], polled[q]>>
<1>1. 0 \in Slots /\ 0 \in Frames /\ Blank \in Contents
  BY ConstantTypes DEF Slots, Frames, Contents
<1> QED
  BY <1>1 DEF Return, TypeInv, TypeOK

(* And so do the consumers'.                                               *)
LEMMA TypeReader ==
  ASSUME TypeInv, NEW r \in Readers, ReaderNext(r)
  PROVE  TypeInv'
<1> USE DEF TypeInv, TypeOK, SinkOK, ReaderStates, Goto, headerVars, sinkVars,
            ringVars
<1>1. CASE Start(r)
  BY <1>1, ConstantTypes DEF Start
<1>2. CASE Poll(r)
  BY <1>2 DEF Poll
<1>3. CASE WaitTimeout(r)
  BY <1>3 DEF WaitTimeout
<1>4. CASE LoadIndex(r)
  BY <1>4 DEF LoadIndex
<1>5. CASE Acquire(r)
  BY <1>5 DEF Acquire, NewestWith
<1>6. CASE Busy(r)
  BY <1>6 DEF Busy
<1>7. CASE GiveUp(r)
  BY <1>7, ReturnType DEF GiveUp
<1>8. CASE SwapRing(r)
  <2>1. refCounts' \in [Slots -> Int]
    BY <1>8 DEF SwapRing, Released
  <2>2. ring' \in [Readers -> [RingPlaces -> Slots \union {NoSlot}]]
    BY <1>8 DEF SwapRing
  <2>3. ringFrame' \in [Readers -> [RingPlaces -> Contents]]
    BY <1>8 DEF SwapRing
  <2>4. ringHead' \in [Readers -> RingPlaces]
    BY <1>8, ConstantTypes DEF SwapRing
  <2> QED BY <1>8, <2>1, <2>2, <2>3, <2>4 DEF SwapRing
<1>9. CASE ReadTimestamp(r)
  BY <1>9, ConstantTypes DEF ReadTimestamp
<1>10. CASE ReadMeta(r)
  BY <1>10 DEF ReadMeta
<1>11. CASE ReadLast(r)
  BY <1>11, ReturnType DEF ReadLast
<1>12. CASE BeginStop(r)
  BY <1>12 DEF BeginStop
<1>13. CASE StopRelease(r)
  BY <1>13, ConstantTypes DEF StopRelease, Released
<1>14. CASE StopDone(r)
  BY <1>14 DEF StopDone
<1> QED
  BY <1>1, <1>2, <1>3, <1>4, <1>5, <1>6, <1>7, <1>8, <1>9, <1>10, <1>11,
     <1>12, <1>13, <1>14 DEF ReaderNext, CreateStep

(***************************************************************************)
(* Type correctness, with the producer's own bookkeeping: every slot index *)
(* that reaches the shared header, and every one a consumer loads, is one  *)
(* of the pool's.                                                          *)
(***************************************************************************)
THEOREM TypeCorrect == Spec => []TypeOK
<1>1. TypeInv /\ UNCHANGED vars => TypeInv'
  BY DEF vars, TypeInv, TypeOK, SinkOK, headerVars, sinkVars, readerVars, ringVars
<1>2. TypeInv /\ [Next]_vars => TypeInv'
  BY <1>1, TypeSink, TypeReader DEF Next
<1>3. TypeInv => TypeOK
  BY DEF TypeInv
<1> QED
  BY TypeInit, <1>2, <1>3, PTL DEF Spec

-----------------------------------------------------------------------------
(* References are finitely many, so they can be counted.                   *)
LEMMA RefsFinite ==
  \A H \in SUBSET (Readers \X RefPlaces) :
    /\ IsFiniteSet(H) /\ Cardinality(H) \in Nat
    /\ Cardinality(H) = 0 <=> H = {}
<1>1. IsFiniteSet(RefPlaces)
  BY FS_Interval DEF RefPlaces
<1>2. IsFiniteSet(Readers \X RefPlaces)
  BY <1>1, FS_Product
<1> TAKE H \in SUBSET (Readers \X RefPlaces)
<1>3. IsFiniteSet(H)
  BY <1>2, FS_Subset
<1> QED
  BY <1>3, FS_CardinalityType, FS_EmptySet

LEMMA HoldsFinite ==
  \A s : /\ IsFiniteSet(Holds(s)) /\ Cardinality(Holds(s)) \in Nat
         /\ Cardinality(Holds(s)) = 0 <=> Holds(s) = {}
         /\ Cardinality(Holds(s)') \in Nat
<1> TAKE s
<1>1. Holds(s) \in SUBSET (Readers \X RefPlaces) /\ Holds(s)' \in SUBSET (Readers \X RefPlaces)
  BY DEF Holds
<1> QED
  BY <1>1, RefsFinite

(* A slot the consumers refer to is one the producer is not writing.       *)
LEMMA CountMeans ==
  ASSUME TypeInv, RefCountsExact, NEW s \in Slots
  PROVE  /\ refCounts[s] = 0 => ~WritesSlot(s) /\ Holds(s) = {}
         /\ refCounts[s] >= 0 => ~WritesSlot(s)
  BY HoldsFinite DEF RefCountsExact

RefInv == RefCountsExact /\ WriterExclusive

LEMMA RefInit == Init => RefInv
<1> SUFFICES ASSUME Init PROVE RefInv
  OBVIOUS
<1>1. ASSUME NEW s \in Slots PROVE Holds(s) = {}
  BY ConstantTypes DEF Init, Holds, RefersTo, RefPlaces, RingPlaces
<1>2. ASSUME NEW s \in Slots PROVE ~WritesSlot(s)
  BY DEF Init, WritesSlot
<1> QED
  BY <1>1, <1>2, HoldsFinite DEF Init, RefInv, RefCountsExact, WriterExclusive

(* The producer leaves the references alone ...                            *)
LEMMA SinkKeepsHolds ==
  ASSUME UNCHANGED readerVars
  PROVE  \A s : Holds(s)' = Holds(s)
  BY DEF readerVars, ringVars, Holds, RefersTo

(* ... and keeps its lock consistent with them.                            *)
LEMMA RefSink == TypeInv /\ RefInv /\ SinkNext => RefInv'
<1> SUFFICES ASSUME TypeInv, RefInv, SinkNext PROVE RefInv'
  OBVIOUS
<1> USE DEF RefInv, RefCountsExact, WriterExclusive
<1>1. \A s : Holds(s)' = Holds(s)
  <2>1. UNCHANGED readerVars
    BY DEF SinkNext, SinkWorks, BeginRender, LockSlot, SkipSlot, DropFrame,
           BeginTransform, TransformFails, UnlockFailed, EndTransform, UnlockSlot,
           BeginMeta, EndMeta, StoreIndex, StoreTimestamp, StoreFrameNumber, StoreReady
  <2> QED BY <2>1, SinkKeepsHolds
<1>2. ASSUME UNCHANGED refCounts, \A s \in Slots : WritesSlot(s)' <=> WritesSlot(s)
      PROVE  RefInv'
  BY <1>1, <1>2
<1>3. CASE LockSlot
  <2> DEFINE t == ScanSlot(scan)
  <2>1. t \in Slots
    BY <1>3, ScanSlotType DEF LockSlot, TypeInv, TypeOK
  <2>2. Holds(t) = {}
    BY <1>3, <2>1, CountMeans DEF LockSlot
  <2>3. \A s \in Slots : ~WritesSlot(s) /\ (WritesSlot(s)' <=> s = t)
    BY <1>3 DEF LockSlot, WritesSlot
  <2>4. refCounts' = [refCounts EXCEPT ![t] = -1]
    BY <1>3 DEF LockSlot
  <2> HIDE DEF t
  <2> QED BY <1>1, <2>1, <2>2, <2>3, <2>4 DEF TypeInv, TypeOK
<1>4. CASE UnlockFailed \/ UnlockSlot
  <2>1. target \in Slots /\ WritesSlot(target)
    BY <1>4 DEF UnlockFailed, UnlockSlot, TypeInv, SinkOK, WritesSlot
  <2>2. Holds(target) = {} /\ Cardinality(Holds(target)) = 0
    BY <2>1, HoldsFinite
  <2>3. \A s \in Slots : ~WritesSlot(s)' /\ (WritesSlot(s) => s = target)
    BY <1>4 DEF UnlockFailed, UnlockSlot, WritesSlot
  <2>4. refCounts' = [refCounts EXCEPT ![target] = 0]
    BY <1>4 DEF UnlockFailed, UnlockSlot
  <2> QED BY <1>1, <2>1, <2>2, <2>3, <2>4 DEF TypeInv, TypeOK
<1>5. CASE BeginTransform \/ TransformFails \/ EndTransform
  BY <1>2, <1>5 DEF BeginTransform, TransformFails, EndTransform, WritesSlot
<1>6. CASE BeginRender \/ SkipSlot \/ DropFrame
  BY <1>2, <1>6 DEF BeginRender, SkipSlot, DropFrame, WritesSlot
<1>7. CASE BeginMeta \/ EndMeta
  BY <1>2, <1>7 DEF BeginMeta, EndMeta, WritesSlot
<1>8. CASE StoreIndex \/ StoreTimestamp \/ StoreFrameNumber \/ StoreReady
  BY <1>2, <1>8 DEF StoreIndex, StoreTimestamp, StoreFrameNumber, StoreReady,
                    WritesSlot
<1> QED
  BY <1>3, <1>4, <1>5, <1>6, <1>7, <1>8 DEF SinkNext, SinkWorks

-----------------------------------------------------------------------------
(* What each step of a consumer does to the set of references on a slot.   *)

LEMMA ReaderKeepsWriter ==
  ASSUME NEW r \in Readers, ReaderNext(r)
  PROVE  UNCHANGED sinkVars /\ \A s : WritesSlot(s)' <=> WritesSlot(s)
<1>1. UNCHANGED sinkVars
  BY DEF ReaderNext, CreateStep, Start, Poll, WaitTimeout, LoadIndex, Acquire,
         Busy, GiveUp, SwapRing, ReadTimestamp, ReadMeta, ReadLast, BeginStop,
         StopRelease, StopDone
<1> QED
  BY <1>1 DEF sinkVars, WritesSlot

(* create() takes a reference that was not there.                          *)
LEMMA AcquireHolds ==
  ASSUME TypeInv, NEW r \in Readers, Acquire(r), NEW s \in Slots
  PROVE  /\ s = idx[r] => /\ Holds(s)' = Holds(s) \union {<<r, ReleaseDelay>>}
                          /\ <<r, ReleaseDelay>> \notin Holds(s)
         /\ s # idx[r] => Holds(s)' = Holds(s)
<1>1. \A h \in Readers \X RefPlaces :
        RefersTo(h[1], h[2], s)' <=>
          RefersTo(h[1], h[2], s) \/ (h = <<r, ReleaseDelay>> /\ s = idx[r])
  BY DEF Acquire, Goto, RefersTo, TypeInv, TypeOK, ringVars
<1>2. <<r, ReleaseDelay>> \in Readers \X RefPlaces
  BY DEF RefPlaces
<1>3. s = idx[r] => ~RefersTo(r, ReleaseDelay, s)
  BY DEF Acquire, Goto, RefersTo
<1> QED
  BY <1>1, <1>2, <1>3 DEF Holds

(* The new reference moves into the ring in place of the oldest one.       *)
LEMMA SwapHolds ==
  ASSUME TypeInv, NEW r \in Readers, SwapRing(r), NEW s \in Slots,
         NEW h, h = ringHead[r], NEW old, old = ring[r][h]
  PROVE  /\ s = idx[r] /\ s # old =>
              /\ <<r, ReleaseDelay>> \in Holds(s) /\ <<r, h>> \notin Holds(s)
              /\ Holds(s)' = (Holds(s) \ {<<r, ReleaseDelay>>}) \union {<<r, h>>}
         /\ s = idx[r] /\ s = old =>
              /\ <<r, ReleaseDelay>> \in Holds(s)
              /\ Holds(s)' = Holds(s) \ {<<r, ReleaseDelay>>}
         /\ s # idx[r] /\ s = old =>
              /\ <<r, h>> \in Holds(s)
              /\ Holds(s)' = Holds(s) \ {<<r, h>>}
         /\ {s} \intersect {idx[r], old} = {} => Holds(s)' = Holds(s)
<1>1. h \in RingPlaces /\ h \in RefPlaces /\ h # ReleaseDelay /\ ReleaseDelay \in RefPlaces
  BY DEF TypeInv, TypeOK, RingPlaces, RefPlaces
<1>2. readerPc[r] = "swap" /\ UNCHANGED idx /\ readerPc'[r] # "swap"
      /\ \A q \in Readers \ {r} : readerPc'[q] = readerPc[q] /\ ring'[q] = ring[q]
  BY DEF SwapRing, Goto, TypeInv, TypeOK
<1>3. ring'[r] = [ring[r] EXCEPT ![h] = idx[r]]
  BY DEF SwapRing, TypeInv, TypeOK
<1>4. /\ ring'[r][h] = idx[r]
      /\ \A k \in RefPlaces \ {h, ReleaseDelay} : ring'[r][k] = ring[r][k]
  BY <1>1, <1>3 DEF TypeInv, TypeOK, RingPlaces, RefPlaces
<1>5. \A q \in Readers, k \in RefPlaces :
        RefersTo(q, k, s)' <=>
          \/ q = r /\ k = h /\ s = idx[r]
          \/ ~(q = r /\ k \in {h, ReleaseDelay}) /\ RefersTo(q, k, s)
  <2> TAKE q \in Readers, k \in RefPlaces
  <2>1. CASE q # r
    BY <2>1, <1>2 DEF RefersTo
  <2>2. CASE q = r /\ k = h
    BY <2>2, <1>1, <1>4, <1>2 DEF RefersTo
  <2>3. CASE q = r /\ k = ReleaseDelay
    BY <2>3, <1>1, <1>2 DEF RefersTo
  <2>4. CASE q = r /\ k \notin {h, ReleaseDelay}
    BY <2>4, <1>4 DEF RefersTo
  <2> QED BY <2>1, <2>2, <2>3, <2>4
<1>6. /\ RefersTo(r, h, s) <=> s = old
      /\ RefersTo(r, ReleaseDelay, s) <=> s = idx[r]
  BY <1>1, <1>2 DEF RefersTo
<1>7. Holds(s)' = {g \in Readers \X RefPlaces :
                     \/ g = <<r, h>> /\ s = idx[r]
                     \/ g \notin {<<r, h>>, <<r, ReleaseDelay>>} /\ g \in Holds(s)}
  BY <1>1, <1>5 DEF Holds
<1>8. /\ Holds(s) \subseteq Readers \X RefPlaces
      /\ <<r, h>> \in Readers \X RefPlaces
      /\ <<r, h>> # <<r, ReleaseDelay>>
      /\ <<r, h>> \in Holds(s) <=> s = old
      /\ <<r, ReleaseDelay>> \in Holds(s) <=> s = idx[r]
  BY <1>1, <1>6 DEF Holds
<1> QED
  BY <1>7, <1>8

LEMMA SwapOther ==
  ASSUME TypeInv, NEW r \in Readers, SwapRing(r), NEW s \in Slots,
         s # idx[r], s # ring[r][ringHead[r]]
  PROVE  Holds(s)' = Holds(s)
<1>1. PICK h, old : h = ringHead[r] /\ old = ring[r][h]
  OBVIOUS
<1>2. {s} \intersect {idx[r], old} = {}
  BY <1>1
<1> QED
  BY <1>1, <1>2, SwapHolds

(* stop() removes one ring entry.                                          *)
Clears(r, k) ==
  /\ readerPc[r] = "stopping" /\ UNCHANGED <<readerPc, idx>>
  /\ ring[r][k] # NoSlot /\ ring' = [ring EXCEPT ![r] = [@ EXCEPT ![k] = NoSlot]]

LEMMA StopHolds ==
  ASSUME TypeInv, NEW r \in Readers, NEW k \in RingPlaces, NEW s \in Slots, Clears(r, k)
  PROVE  /\ s = ring[r][k] => <<r, k>> \in Holds(s) /\ Holds(s)' = Holds(s) \ {<<r, k>>}
         /\ s # ring[r][k] => Holds(s)' = Holds(s)
<1>1. k \in RefPlaces /\ k # ReleaseDelay
  BY DEF RingPlaces, RefPlaces
<1>2. \A q \in Readers, j \in RefPlaces :
        RefersTo(q, j, s)' <=> ~(q = r /\ j = k) /\ RefersTo(q, j, s)
  <2> TAKE q \in Readers, j \in RefPlaces
  <2>1. CASE q # r
    BY <2>1 DEF Clears, RefersTo, TypeInv, TypeOK
  <2>2. CASE q = r /\ j = k
    BY <2>2, <1>1, ConstantTypes DEF Clears, RefersTo, TypeInv, TypeOK
  <2>3. CASE q = r /\ j # k
    BY <2>3 DEF Clears, RefersTo, TypeInv, TypeOK, RingPlaces, RefPlaces
  <2> QED BY <2>1, <2>2, <2>3
<1>3. RefersTo(r, k, s) <=> s = ring[r][k]
  BY <1>1 DEF Clears, RefersTo
<1> QED
  BY <1>1, <1>2, <1>3 DEF Holds

(* The other steps of a consumer leave the references alone.               *)
QuietStep(r) ==
  \/ Start(r) \/ Poll(r) \/ WaitTimeout(r) \/ LoadIndex(r) \/ Busy(r) \/ GiveUp(r)
  \/ ReadTimestamp(r) \/ ReadMeta(r) \/ ReadLast(r) \/ BeginStop(r) \/ StopDone(r)

LEMMA QuietHolds ==
  ASSUME TypeInv, NEW r \in Readers, QuietStep(r), NEW s \in Slots
  PROVE  Holds(s)' = Holds(s) /\ UNCHANGED <<refCounts, pixels, ring, ringFrame>>
<1>1. /\ UNCHANGED <<refCounts, pixels, ring, ringFrame>>
      /\ readerPc[r] # "swap" /\ readerPc'[r] # "swap"
      /\ \A q \in Readers \ {r} : readerPc'[q] = readerPc[q] /\ idx'[q] = idx[q]
  BY DEF QuietStep, Start, Poll, WaitTimeout, LoadIndex, Busy, GiveUp,
         ReadTimestamp, ReadMeta, ReadLast, BeginStop, StopDone, Goto, Return, TypeInv,
         TypeOK, ringVars
<1>2. \A q \in Readers, k \in RefPlaces : RefersTo(q, k, s)' <=> RefersTo(q, k, s)
  BY <1>1 DEF RefersTo
<1> QED
  BY <1>1, <1>2 DEF Holds

-----------------------------------------------------------------------------
(* How the count of references on s moves with ref_counts[s]: they change  *)
(* together, and only on a slot the producer is not writing.               *)
Together(s) ==
  /\ refCounts'[s] - refCounts[s] = Cardinality(Holds(s)') - Cardinality(Holds(s))
  /\ refCounts'[s] # refCounts[s] => ~WritesSlot(s)
  /\ WritesSlot(s) => Holds(s)' = {}

LEMMA ReaderTogether ==
  ASSUME TypeInv, RefInv, NEW r \in Readers, ReaderNext(r), NEW s \in Slots
  PROVE  Together(s)
<1> USE DEF RefInv
<1>1. /\ IsFiniteSet(Holds(s)) /\ Cardinality(Holds(s)) \in Nat
      /\ Cardinality(Holds(s)) = 0 <=> Holds(s) = {}
  BY HoldsFinite
<1>2. refCounts[s] \in Int /\ refCounts \in [Slots -> Int] /\ idx[r] \in Slots
  BY DEF TypeInv, TypeOK
<1>3. WritesSlot(s) => Holds(s) = {}
  BY DEF WriterExclusive
<1>4. ASSUME Holds(s)' = Holds(s), refCounts'[s] = refCounts[s] PROVE Together(s)
  BY <1>1, <1>2, <1>3, <1>4 DEF Together
<1>5. CASE QuietStep(r)
  <2>1. Holds(s)' = Holds(s) /\ refCounts' = refCounts
    BY <1>5, QuietHolds
  <2> QED BY <2>1, <1>4
<1>6. CASE Acquire(r)
  <2>1. refCounts' = [refCounts EXCEPT ![idx[r]] = @ + 1] /\ refCounts[idx[r]] >= 0
    BY <1>6 DEF Acquire
  <2>2. CASE s = idx[r]
    <3>1. ~WritesSlot(s)
      BY <2>1, <2>2, CountMeans
    <3>2. /\ Holds(s)' = Holds(s) \union {<<r, ReleaseDelay>>}
          /\ <<r, ReleaseDelay>> \notin Holds(s)
      BY <1>6, <2>2, AcquireHolds
    <3>3. Cardinality(Holds(s)') = Cardinality(Holds(s)) + 1
      BY <1>1, <3>2, FS_AddElement
    <3> QED BY <3>1, <3>3, <2>1, <2>2, <1>1, <1>2 DEF Together
  <2>3. CASE s # idx[r]
    <3>1. Holds(s)' = Holds(s)
      BY <1>6, <2>3, AcquireHolds
    <3> QED BY <3>1, <2>1, <2>3, <1>1, <1>2, <1>3 DEF Together
  <2> QED BY <2>2, <2>3
<1>7. CASE SwapRing(r)
  <2>1. PICK h, old : h = ringHead[r] /\ old = ring[r][h]
    OBVIOUS
  <2>2. refCounts' = Released(refCounts, old)
    BY <1>7, <2>1 DEF SwapRing
  <2>3. refCounts'[s] = IF s = old THEN refCounts[s] - 1 ELSE refCounts[s]
    BY <2>2, <1>2, ConstantTypes DEF Released
  <2>4. CASE s = idx[r] /\ s # old
    <3>1. /\ <<r, ReleaseDelay>> \in Holds(s) /\ <<r, h>> \notin Holds(s)
          /\ Holds(s)' = (Holds(s) \ {<<r, ReleaseDelay>>}) \union {<<r, h>>}
      BY <1>7, <2>1, <2>4, SwapHolds
    <3> DEFINE T == Holds(s) \ {<<r, ReleaseDelay>>}
    <3>2. IsFiniteSet(T) /\ Cardinality(T) = Cardinality(Holds(s)) - 1
      BY <1>1, <3>1, FS_RemoveElement
    <3>3. Cardinality(T \union {<<r, h>>}) = Cardinality(T) + 1
      BY <3>1, <3>2, FS_AddElement
    <3> QED BY <3>1, <3>2, <3>3, <2>3, <2>4, <1>1, <1>2, <1>3 DEF Together
  <2>5. CASE s = idx[r] /\ s = old
    <3>1. <<r, ReleaseDelay>> \in Holds(s) /\ Holds(s)' = Holds(s) \ {<<r, ReleaseDelay>>}
      BY <1>7, <2>1, <2>5, SwapHolds
    <3>2. IsFiniteSet(Holds(s)) /\ <<r, ReleaseDelay>> \in Holds(s)
      BY <1>1, <3>1
    <3>3. Cardinality(Holds(s) \ {<<r, ReleaseDelay>>}) = Cardinality(Holds(s)) - 1
      BY <3>2, FS_RemoveElement, Zenon
    <3>4. Cardinality(Holds(s)') = Cardinality(Holds(s)) - 1
      BY <3>1, <3>3
    <3> QED BY <3>1, <3>4, <2>3, <2>5, <1>1, <1>2, <1>3 DEF Together
  <2>6. CASE s # idx[r] /\ s = old
    <3>1. <<r, h>> \in Holds(s) /\ Holds(s)' = Holds(s) \ {<<r, h>>}
      BY <1>7, <2>1, <2>6, SwapHolds
    <3>2. IsFiniteSet(Holds(s)) /\ <<r, h>> \in Holds(s)
      BY <1>1, <3>1
    <3>3. Cardinality(Holds(s) \ {<<r, h>>}) = Cardinality(Holds(s)) - 1
      BY <3>2, FS_RemoveElement, Zenon
    <3>4. Cardinality(Holds(s)') = Cardinality(Holds(s)) - 1
      BY <3>1, <3>3
    <3> QED BY <3>1, <3>4, <2>3, <2>6, <1>1, <1>2, <1>3 DEF Together
  <2>7. CASE s # idx[r] /\ s # old
    <3>1. Holds(s)' = Holds(s)
      BY <1>7, <2>1, <2>7, SwapOther
    <3>2. refCounts'[s] = refCounts[s]
      BY <2>3, <2>7
    <3> QED BY <3>1, <3>2, <1>4
  <2> QED BY <2>4, <2>5, <2>6, <2>7
<1>8. CASE StopRelease(r)
  <2>1. PICK k \in RingPlaces :
          /\ readerPc[r] = "stopping" /\ UNCHANGED <<readerPc, idx>>
          /\ ring[r][k] # NoSlot
          /\ ring' = [ring EXCEPT ![r] = [@ EXCEPT ![k] = NoSlot]]
          /\ refCounts' = Released(refCounts, ring[r][k])
    BY <1>8 DEF StopRelease
  <2>11. Clears(r, k)
    BY <2>1, Zenon DEF Clears
  <2>2. refCounts'[s] = IF s = ring[r][k] THEN refCounts[s] - 1 ELSE refCounts[s]
    BY <2>1, <1>2 DEF Released
  <2>3. CASE s = ring[r][k]
    <3>1. <<r, k>> \in Holds(s) /\ Holds(s)' = Holds(s) \ {<<r, k>>}
      BY <2>3, <2>11, StopHolds
    <3>2. IsFiniteSet(Holds(s)) /\ <<r, k>> \in Holds(s)
      BY <1>1, <3>1
    <3>3. Cardinality(Holds(s) \ {<<r, k>>}) = Cardinality(Holds(s)) - 1
      BY <3>2, FS_RemoveElement, Zenon
    <3>4. Cardinality(Holds(s)') = Cardinality(Holds(s)) - 1
      BY <3>1, <3>3
    <3> QED BY <3>1, <3>4, <2>2, <2>3, <1>1, <1>2, <1>3 DEF Together
  <2>4. CASE s # ring[r][k]
    <3>1. Holds(s)' = Holds(s)
      BY <2>4, <2>11, StopHolds
    <3> QED BY <3>1, <2>2, <2>4, <1>1, <1>2, <1>3 DEF Together
  <2> QED BY <2>3, <2>4
<1> QED
  BY <1>5, <1>6, <1>7, <1>8 DEF ReaderNext, CreateStep, QuietStep

LEMMA RefReader ==
  ASSUME TypeInv, RefInv, NEW r \in Readers, ReaderNext(r)
  PROVE  RefInv'
<1>1. \A s \in Slots : WritesSlot(s)' <=> WritesSlot(s)
  BY ReaderKeepsWriter
<1>2. \A s \in Slots : Together(s)
  BY ReaderTogether
<1>3. TypeInv'
  BY TypeReader
<1>4. ASSUME NEW s \in Slots
      PROVE  /\ refCounts'[s] = IF WritesSlot(s)' THEN -1 ELSE Cardinality(Holds(s)')
             /\ WritesSlot(s)' => Holds(s)' = {}
  <2>1. /\ refCounts[s] = IF WritesSlot(s) THEN -1 ELSE Cardinality(Holds(s))
        /\ refCounts[s] \in Int /\ refCounts'[s] \in Int
        /\ WritesSlot(s) => Holds(s) = {}
    BY <1>3 DEF RefInv, RefCountsExact, WriterExclusive, TypeInv, TypeOK
  <2>2. Cardinality(Holds(s)) \in Nat
    BY HoldsFinite
  <2>3. Cardinality(Holds(s)') \in Nat
    BY HoldsFinite
  <2> QED BY <1>1, <1>2, <2>1, <2>2, <2>3 DEF Together
<1> QED
  BY <1>4 DEF RefInv, RefCountsExact, WriterExclusive

-----------------------------------------------------------------------------
(* The window of a consumer: nobody writes to a slot its ring refers to.   *)

LEMMA WindowSink == TypeInv /\ RefInv /\ WindowStable /\ SinkNext => WindowStable'
<1> SUFFICES ASSUME TypeInv, RefInv, WindowStable, SinkNext,
                    NEW r \in Readers, NEW k \in RingPlaces, ring'[r][k] # NoSlot
             PROVE  pixels'[ring'[r][k]] = ringFrame'[r][k]
  BY DEF WindowStable
<1>1. UNCHANGED <<ring, ringFrame>>
  BY DEF SinkNext, SinkWorks, BeginRender, LockSlot, SkipSlot, DropFrame,
         BeginTransform, TransformFails, UnlockFailed, EndTransform, UnlockSlot,
         BeginMeta, EndMeta, StoreIndex, StoreTimestamp, StoreFrameNumber, StoreReady,
         readerVars, ringVars
<1>2. ring[r][k] \in Slots /\ pixels[ring[r][k]] = ringFrame[r][k]
  BY <1>1 DEF TypeInv, TypeOK, WindowStable
<1>3. CASE BeginTransform \/ TransformFails \/ EndTransform
  <2>1. target \in Slots /\ WritesSlot(target)
    BY <1>3 DEF BeginTransform, TransformFails, EndTransform, TypeInv, SinkOK,
                WritesSlot
  <2>2. Holds(target) = {}
    BY <2>1 DEF RefInv, WriterExclusive
  <2>3. <<r, k>> \in Readers \X RefPlaces /\ RefersTo(r, k, ring[r][k])
    BY DEF RefersTo, RefPlaces, RingPlaces
  <2>4. ring[r][k] # target
    BY <2>2, <2>3 DEF Holds
  <2> QED
    BY <1>1, <1>2, <1>3, <2>4 DEF BeginTransform, TransformFails, EndTransform,
       TypeInv, TypeOK
<1>4. CASE UNCHANGED pixels
  BY <1>1, <1>2, <1>4
<1> QED
  BY <1>3, <1>4 DEF SinkNext, SinkWorks, BeginRender, LockSlot, SkipSlot,
     DropFrame, UnlockFailed, UnlockSlot, BeginMeta, EndMeta, StoreIndex,
     StoreTimestamp, StoreFrameNumber, StoreReady

LEMMA WindowReader ==
  ASSUME TypeInv, WindowStable, NEW r \in Readers, ReaderNext(r)
  PROVE  WindowStable'
<1>1. CASE QuietStep(r)
  <2>1. UNCHANGED <<pixels, ring, ringFrame>>
    BY <1>1, QuietHolds, ConstantTypes
  <2> QED BY <2>1 DEF WindowStable
<1>2. CASE Acquire(r)
  BY <1>2 DEF Acquire, ringVars, WindowStable
<1>3. CASE SwapRing(r)
  BY <1>3 DEF SwapRing, WindowStable, TypeInv, TypeOK
<1>4. CASE StopRelease(r)
  BY <1>4 DEF StopRelease, WindowStable, TypeInv, TypeOK
<1> QED
  BY <1>1, <1>2, <1>3, <1>4 DEF ReaderNext, CreateStep, QuietStep

-----------------------------------------------------------------------------
LEMMA IInvInit == Init => IInv
<1>1. Init => WindowStable
  BY DEF Init, WindowStable
<1> QED
  BY <1>1, TypeInit, RefInit DEF IInv, RefInv

LEMMA IInvNext == IInv /\ [Next]_vars => IInv'
<1> SUFFICES ASSUME IInv, [Next]_vars PROVE IInv'
  OBVIOUS
<1> USE DEF IInv, RefInv
<1>1. CASE SinkNext
  BY <1>1, TypeSink, RefSink, WindowSink
<1>2. CASE \E r \in Readers : ReaderNext(r)
  BY <1>2, TypeReader, RefReader, WindowReader
<1>3. CASE UNCHANGED vars
  <2>1. \A s : Holds(s)' = Holds(s) /\ (WritesSlot(s)' <=> WritesSlot(s))
    BY <1>3 DEF vars, sinkVars, readerVars, ringVars, Holds, RefersTo, WritesSlot
  <2>2. TypeInv' /\ WindowStable'
    BY <1>3 DEF vars, TypeInv, TypeOK, SinkOK, headerVars, sinkVars, readerVars,
                ringVars, WindowStable
  <2> QED BY <1>3, <2>1, <2>2 DEF vars, RefCountsExact, WriterExclusive
<1> QED
  BY <1>1, <1>2, <1>3 DEF Next

LEMMA IInvAlways == Spec => []IInv
  BY IInvInit, IInvNext, PTL DEF Spec

(***************************************************************************)
(* ref_counts never lies: -1 exactly while the producer overwrites the     *)
(* slot, else the number of references consumers have on it, for every     *)
(* interleaving of render(), create() and stop().                          *)
(***************************************************************************)
THEOREM RefCountsAreExact == Spec => []RefCountsExact
<1>1. IInv => RefCountsExact
  BY DEF IInv
<1> QED
  BY <1>1, IInvAlways, PTL

(***************************************************************************)
(* The producer never overwrites a slot some consumer holds.               *)
(***************************************************************************)
THEOREM WriterIsExclusive == Spec => []WriterExclusive
<1>1. IInv => WriterExclusive
  BY DEF IInv
<1> QED
  BY <1>1, IInvAlways, PTL

(***************************************************************************)
(* A consumer's last ReleaseDelay buffers keep the frame they were given   *)
(* with.                                                                   *)
(***************************************************************************)
THEOREM WindowIsStable == Spec => []WindowStable
<1>1. IInv => WindowStable
  BY DEF IInv
<1> QED
  BY <1>1, IInvAlways, PTL

-----------------------------------------------------------------------------
(***************************************************************************)
(* With more than ReleaseDelay slots per consumer that keeps a buffer the  *)
(* producer finds one that is free, whenever no create() is between taking *)
(* a reference and releasing its oldest: the slots in use are the image of *)
(* the ring places of these consumers, and there are more slots.           *)
(***************************************************************************)
THEOREM SlotIsAvailable == Spec => []SlotAvailable
<1>1. IInv => SlotAvailable
  <2> SUFFICES ASSUME IInv, PoolCoversReaders, NoneSwapping,
                      \A s \in Slots : refCounts[s] # 0 /\ ~WritesSlot(s)
               PROVE  FALSE
    BY DEF SlotAvailable
  <2> DEFINE places == Keepers \X RingPlaces
             slotOf == [p \in {q \in places : ring[q[1]][q[2]] \in Slots} |-> ring[p[1]][p[2]]]
  <2>1. \A s \in Slots : \E p \in places : ring[p[1]][p[2]] = s
    <3> TAKE s \in Slots
    <3>1. Cardinality(Holds(s)) # 0
      BY DEF IInv, RefCountsExact
    <3>2. PICK h \in Holds(s) : TRUE
      BY <3>1, HoldsFinite
    <3>3. h \in Readers \X RefPlaces /\ RefersTo(h[1], h[2], s)
      BY <3>2 DEF Holds
    <3>4. h[2] # ReleaseDelay /\ ring[h[1]][h[2]] = s
      BY <3>3 DEF RefersTo, NoneSwapping
    <3>5. h[2] \in RingPlaces /\ s # NoSlot
      BY <3>3, <3>4 DEF RefPlaces, RingPlaces, Slots, NoSlot
    <3>6. h \in places
      BY <3>3, <3>4, <3>5 DEF Keepers
    <3> QED BY <3>4, <3>6
  <2>2. IsFiniteSet(RingPlaces)
    BY FS_Interval DEF RingPlaces
  <2>3. IsFiniteSet(places)
    <3>1. IsFiniteSet(Keepers)
      BY ReadersAssumption, FS_Subset DEF Keepers
    <3> QED BY <3>1, <2>2, FS_Product
  <2>4. IsFiniteSet(DOMAIN slotOf) /\ Cardinality(DOMAIN slotOf) <= Cardinality(places)
    BY <2>3, FS_Subset
  <2>5. slotOf \in Surjection(DOMAIN slotOf, Slots)
    BY <2>1 DEF Surjection
  <2>6. Cardinality(Slots) <= Cardinality(DOMAIN slotOf)
    BY <2>4, <2>5, FS_Surjection
  <2>7. Cardinality(Slots) = PoolSize
    BY FS_Interval DEF Slots
  <2>8. Cardinality(DOMAIN slotOf) \in Nat /\ Cardinality(places) \in Nat
    BY <2>3, <2>4, FS_CardinalityType
  <2> HIDE DEF places, slotOf
  <2> QED
    BY <2>3, <2>4, <2>6, <2>7, <2>8 DEF PoolCoversReaders, places
<1> QED
  BY <1>1, IInvAlways, PTL

-----------------------------------------------------------------------------
(* Refinement.  The references a slot has, as SlotPool counts them.        *)
Refs == [s \in Slots |-> Cardinality(Holds(s))]
Writing == {s \in Slots : WritesSlot(s)}

LEMMA PoolSink ==
  ASSUME IInv, SinkNext
  PROVE  [Pool!PoolNext]_(Pool!poolVars)
<1> USE DEF IInv, TypeInv
<1>1. UNCHANGED readerVars
  BY DEF SinkNext, SinkWorks, BeginRender, LockSlot, SkipSlot, DropFrame,
         BeginTransform, TransformFails, UnlockFailed, EndTransform, UnlockSlot,
         BeginMeta, EndMeta, StoreIndex, StoreTimestamp, StoreFrameNumber, StoreReady
<1>2. Refs' = Refs
  BY <1>1, SinkKeepsHolds DEF Refs
<1>3. CASE LockSlot
  <2> DEFINE t == ScanSlot(scan)
  <2>1. t \in Slots
    BY <1>3, ScanSlotType DEF LockSlot, TypeOK
  <2>2. Refs[t] = 0
    BY <1>3, <2>1, CountMeans, HoldsFinite DEF LockSlot, Refs
  <2>3. Writing = {}
    BY <1>3 DEF LockSlot, WritesSlot, Writing
  <2>4. Writing' = {t}
    BY <1>3, <2>1 DEF LockSlot, WritesSlot, Writing
  <2>5. UNCHANGED pixels
    BY <1>3 DEF LockSlot
  <2> HIDE DEF t
  <2>6. Pool!Lock(t)
    BY <1>2, <2>2, <2>3, <2>4, <2>5 DEF Pool!Lock, Refs, Writing
  <2> QED BY <2>1, <2>6 DEF Pool!PoolNext
<1>4. CASE UnlockFailed \/ UnlockSlot
  <2>1. target \in Slots /\ WritesSlot(target) /\ UNCHANGED <<target, pixels>>
        /\ (sinkPc' = "idle" \/ sinkPc' = "meta")
    BY <1>4 DEF UnlockFailed, UnlockSlot, SinkOK, WritesSlot
  <2>2. target \in Writing /\ Writing' = Writing \ {target}
    BY <2>1 DEF WritesSlot, Writing
  <2>3. Pool!Unlock(target)
    BY <1>2, <2>1, <2>2 DEF Pool!Unlock, Refs, Writing
  <2> QED BY <2>1, <2>3 DEF Pool!PoolNext
<1>5. CASE BeginTransform \/ TransformFails \/ EndTransform
  <2>1. target \in Slots /\ target \in Writing /\ Writing' = Writing
    BY <1>5 DEF BeginTransform, TransformFails, EndTransform, SinkOK, WritesSlot,
                Writing
  <2>2. PICK c \in Contents : pixels' = [pixels EXCEPT ![target] = c]
    BY <1>5, ConstantTypes DEF BeginTransform, TransformFails, EndTransform, TypeOK
  <2>3. Pool!Write(target, c)
    BY <1>2, <2>1, <2>2 DEF Pool!Write, Refs, Writing
  <2> QED BY <2>1, <2>3 DEF Pool!PoolNext
<1>6. ASSUME UNCHANGED pixels, Writing' = Writing PROVE UNCHANGED Pool!poolVars
  BY <1>2, <1>6 DEF Pool!poolVars, Refs, Writing
<1>7. CASE BeginRender \/ SkipSlot \/ DropFrame
  BY <1>6, <1>7 DEF BeginRender, SkipSlot, DropFrame, WritesSlot, Writing
<1>8. CASE BeginMeta \/ EndMeta
  BY <1>6, <1>8 DEF BeginMeta, EndMeta, WritesSlot, Writing
<1>9. CASE StoreIndex \/ StoreTimestamp \/ StoreFrameNumber \/ StoreReady
  BY <1>6, <1>9 DEF StoreIndex, StoreTimestamp, StoreFrameNumber, StoreReady,
                    WritesSlot, Writing
<1> QED
  BY <1>3, <1>4, <1>5, <1>7, <1>8, <1>9 DEF SinkNext, SinkWorks

(* A consumer's step moves one reference, or none.                         *)
LEMMA PoolDrop ==
  ASSUME IInv, UNCHANGED pixels, Writing' = Writing, NEW t \in Slots,
         NEW g \in Holds(t), Cardinality(Holds(t)') = Cardinality(Holds(t)) - 1,
         \A s \in Slots \ {t} : Cardinality(Holds(s)') = Cardinality(Holds(s))
  PROVE  Pool!PoolNext
<1>1. Refs[t] \in Nat /\ Refs[t] > 0
  BY HoldsFinite DEF Refs
<1>2. Refs' = [Refs EXCEPT ![t] = @ - 1]
  BY DEF Refs
<1>3. Pool!Drop(t)
  BY <1>1, <1>2 DEF Pool!Drop, Refs, Writing
<1> QED BY <1>3 DEF Pool!PoolNext

LEMMA PoolReader ==
  ASSUME IInv, NEW r \in Readers, ReaderNext(r)
  PROVE  [Pool!PoolNext]_(Pool!poolVars)
<1> USE DEF IInv, RefInv
<1>1. Writing' = Writing
  BY ReaderKeepsWriter DEF Writing
<1>2. UNCHANGED pixels
  BY DEF ReaderNext, CreateStep, Start, Poll, WaitTimeout, LoadIndex, Acquire,
         Busy, GiveUp, SwapRing, ReadTimestamp, ReadMeta, ReadLast, BeginStop,
         StopRelease, StopDone
<1>3. ASSUME \A s \in Slots : Cardinality(Holds(s)') = Cardinality(Holds(s))
      PROVE  UNCHANGED Pool!poolVars
  BY <1>1, <1>2, <1>3 DEF Pool!poolVars, Refs, Writing
<1>4. \A s \in Slots : IsFiniteSet(Holds(s)) /\ Cardinality(Holds(s)) \in Nat
  BY HoldsFinite
<1>5. \A s \in Slots : refCounts[s] \in Int
  BY DEF TypeInv, TypeOK
<1>6. CASE QuietStep(r)
  BY <1>3, <1>6, QuietHolds
<1>7. CASE Acquire(r)
  <2>1. idx[r] \in Slots /\ idx[r] \notin Writing
    BY <1>7, CountMeans DEF Acquire, TypeInv, TypeOK, Writing
  <2>2. PICK t \in Slots : t = idx[r]
    BY <2>1
  <2>3. Holds(t)' = Holds(t) \union {<<r, ReleaseDelay>>} /\ <<r, ReleaseDelay>> \notin Holds(t)
    BY <1>7, <2>2, AcquireHolds
  <2>4. Cardinality(Holds(t)') = Cardinality(Holds(t)) + 1
    BY <1>4, <2>3, FS_AddElement
  <2>5. \A s \in Slots \ {t} : Holds(s)' = Holds(s)
    BY <1>7, <2>2, AcquireHolds
  <2>6. Refs' = [Refs EXCEPT ![t] = @ + 1]
    BY <2>4, <2>5 DEF Refs
  <2>7. Pool!Hold(t)
    BY <1>1, <1>2, <2>1, <2>2, <2>6 DEF Pool!Hold, Refs, Writing
  <2> QED BY <2>7 DEF Pool!PoolNext
<1>8. CASE SwapRing(r)
  <2>1. PICK h, old : h = ringHead[r] /\ old = ring[r][h]
    OBVIOUS
  <2>2. \A s \in Slots : Together(s)
    BY ReaderTogether
  <2>3. refCounts' = Released(refCounts, old)
    BY <1>8, <2>1 DEF SwapRing
  <2>4. CASE old = NoSlot
    <3>1. \A s \in Slots : refCounts'[s] = refCounts[s]
      BY <2>3, <2>4 DEF Released
    <3>2. \A s \in Slots : Cardinality(Holds(s)') \in Nat
      BY HoldsFinite
    <3>3. \A s \in Slots : Cardinality(Holds(s)') = Cardinality(Holds(s))
      BY <1>4, <1>5, <2>2, <3>1, <3>2 DEF Together
    <3> QED BY <1>3, <3>3
  <2>5. CASE old # NoSlot
    <3>1. old \in Slots /\ h # ReleaseDelay
      BY <1>8, <2>1, <2>5 DEF TypeInv, TypeOK, RingPlaces
    <3>2. <<r, h>> \in Holds(old)
      BY <1>8, <2>1, <3>1 DEF Holds, RefersTo, TypeInv, TypeOK, RingPlaces, RefPlaces
    <3>3. \A s \in Slots : refCounts'[s] = IF s = old THEN refCounts[s] - 1 ELSE refCounts[s]
      BY <2>3, <2>5, <3>1 DEF Released, TypeInv, TypeOK
    <3>4. \A s \in Slots : Cardinality(Holds(s)') \in Nat
      BY HoldsFinite
    <3>5. \A s \in Slots : Cardinality(Holds(s)') =
            IF s = old THEN Cardinality(Holds(s)) - 1 ELSE Cardinality(Holds(s))
      BY <1>4, <1>5, <2>2, <3>3, <3>4 DEF Together
    <3>6. PICK t \in Slots : t = old
      BY <3>1
    <3> QED BY <1>1, <1>2, <3>2, <3>5, <3>6, PoolDrop
  <2> QED BY <2>4, <2>5
<1>9. CASE StopRelease(r)
  <2>1. PICK k \in RingPlaces :
          /\ readerPc[r] = "stopping" /\ UNCHANGED <<readerPc, idx>>
          /\ ring[r][k] # NoSlot
          /\ ring' = [ring EXCEPT ![r] = [@ EXCEPT ![k] = NoSlot]]
    BY <1>9 DEF StopRelease
  <2>11. Clears(r, k)
    BY <2>1, Zenon DEF Clears
  <2>2. PICK t \in Slots : t = ring[r][k]
    BY <2>1 DEF TypeInv, TypeOK
  <2>3. <<r, k>> \in Holds(t) /\ Holds(t)' = Holds(t) \ {<<r, k>>}
    BY <2>2, <2>11, StopHolds
  <2>4. Cardinality(Holds(t)') = Cardinality(Holds(t)) - 1
    <3>1. IsFiniteSet(Holds(t))
      BY <1>4
    <3>2. Cardinality(Holds(t) \ {<<r, k>>}) = Cardinality(Holds(t)) - 1
      BY <2>3, <3>1, FS_RemoveElement
    <3> QED BY <2>3, <3>2
  <2>5. ASSUME NEW s \in Slots \ {t}
        PROVE  Cardinality(Holds(s)') = Cardinality(Holds(s))
    <3>1. s \in Slots /\ ~(s = ring[r][k])
      BY <2>2
    <3>2. Holds(s)' = Holds(s)
      BY <2>11, <3>1, StopHolds
    <3> QED BY <3>1, <3>2
  <2> QED BY <1>1, <1>2, <2>3, <2>4, <2>5, PoolDrop
<1> QED
  BY <1>6, <1>7, <1>8, <1>9 DEF ReaderNext, CreateStep, QuietStep

(***************************************************************************)
(* The protocol implements the pool of counted references: whatever a user *)
(* of SlotPool may rely on, the pixels of nvmmsink's pool provide.         *)
(***************************************************************************)
THEOREM NvmmIpcImplementsPool == Spec => ImplementsPool
<1>1. Init => Pool!PoolInit
  <2> SUFFICES ASSUME Init PROVE Pool!PoolInit
    OBVIOUS
  <2>1. ASSUME NEW s \in Slots PROVE ~WritesSlot(s)
    BY DEF Init, WritesSlot
  <2>2. ASSUME NEW s \in Slots PROVE Cardinality(Holds(s)) = 0
    <3>1. Holds(s) = {}
      BY ConstantTypes DEF Init, Holds, RefersTo, RefPlaces, RingPlaces
    <3> QED BY <3>1, HoldsFinite
  <2> QED BY <2>1, <2>2 DEF Init, Pool!PoolInit
<1>2. IInv /\ [Next]_vars => [Pool!PoolNext]_(Pool!poolVars)
  <2>1. ASSUME UNCHANGED vars PROVE UNCHANGED Pool!poolVars
    <3>1. UNCHANGED <<pixels, readerPc, idx, ring, sinkPc, target>>
      BY <2>1 DEF vars, sinkVars, readerVars, ringVars
    <3>2. \A s : Holds(s)' = Holds(s) /\ (WritesSlot(s)' <=> WritesSlot(s))
      BY <3>1 DEF Holds, RefersTo, WritesSlot
    <3> QED BY <3>1, <3>2 DEF Pool!poolVars
  <2>2. CASE SinkNext
    BY <2>2, PoolSink
  <2>3. CASE \E r \in Readers : ReaderNext(r)
    BY <2>3, PoolReader
  <2> QED BY <2>1, <2>2, <2>3 DEF Next
<1> QED
  BY <1>1, <1>2, IInvAlways, PTL DEF Spec, ImplementsPool, Pool!PoolSpec

-----------------------------------------------------------------------------
(***************************************************************************)
(* What a consumer of NvmmIpc is given, for every pool size, release       *)
(* delay, finite set of consumers and number of frames: never something    *)
(* older than what it waited for, and never a step back in time.           *)
(*                                                                         *)
(* A slot may be overwritten between the load of write_idx and the         *)
(* compare-and-swap on its counter, and spoilt by a transform that failed, *)
(* but what else is written into a slot is always newer than any number    *)
(* published by then.  So a slot that was up to date with a number stays   *)
(* so (UpToDate).  That frames do not go back needs in addition that a     *)
(* consumer is never more than one frame ahead of frame_number: what was   *)
(* unlocked is published next, whatever else fails.  And a picture in the  *)
(* making is delivered to nobody: a slot is torn only while the producer   *)
(* writes it, and what create() works on is held (HeldInv).                *)
(***************************************************************************)

(* Nothing in slot s is older than frame n.                                *)
UpToDate(s, n) ==
  /\ pixels[s] \in {Torn, Spoilt} \/ pixels[s] >= n
  /\ metaRec[s] = Torn \/ metaRec[s] >= n

(* How far the producer has got with the frame under way.                  *)
Publication ==
  /\ nextFrame = 0 => frameNumber = 0 /\ ~ready
  /\ nextFrame # 0 => frameNumber = nextFrame - 1 /\ UpToDate(writeIdx, frameNumber)
  /\ timestamp >= frameNumber
  /\ \A s \in Slots : pixels[s] <= nextFrame
  /\ sinkPc \in {"unlock", "meta", "metaEnd", "index", "stamp", "number"} =>
       pixels[target] = nextFrame
  /\ sinkPc \in {"index", "stamp", "number"} => metaRec[target] = nextFrame
  /\ sinkPc \in {"stamp", "number"} => writeIdx = target
  /\ sinkPc = "number" => timestamp = nextFrame
  /\ sinkPc = "ready" => nextFrame # 0

(* What a consumer has seen.                                               *)
Creating(r) == readerPc[r] \in {"load", "acquire", "swap", "pts", "meta", "last"}

Seen(r) ==
  /\ polled[r] <= frameNumber /\ lastFrame[r] <= frameNumber
  /\ newest[r] <= nextFrame
  /\ Creating(r) => ready
  /\ readerPc[r] = "wait" => newest[r] <= lastFrame[r] + 1
  /\ readerPc[r] \in {"load", "acquire"} => newest[r] <= polled[r]
  /\ Creating(r) /\ readerPc[r] # "load" => UpToDate(idx[r], polled[r])
  /\ readerPc[r] \in {"meta", "last"} => got[r].pts >= polled[r]
  /\ readerPc[r] = "last" => got[r].meta = Torn \/ got[r].meta >= polled[r]

DeliveryInv == TypeInv /\ Publication /\ \A r \in Readers : Seen(r)

-----------------------------------------------------------------------------
LEMMA DeliveryInit == Init => DeliveryInv
<1> SUFFICES ASSUME Init PROVE Publication /\ \A r \in Readers : Seen(r)
  BY TypeInit DEF DeliveryInv
<1>1. Publication
  BY DEF Init, Publication, Blank
<1>2. \A r \in Readers : Seen(r)
  BY DEF Init, Seen, Creating, Blank
<1> QED
  BY <1>1, <1>2

(* Numbers are numbers.                                                    *)
LEMMA NumberTypes ==
  ASSUME TypeOK
  PROVE  /\ frameNumber \in Nat /\ nextFrame \in Nat /\ timestamp \in Nat
         /\ \A s \in Slots : pixels[s] \in Int /\ metaRec[s] \in Int
         /\ \A r \in Readers :
              /\ polled[r] \in Nat /\ lastFrame[r] \in Nat /\ newest[r] \in Int
              /\ got[r].pts \in Int /\ got[r].meta \in Int /\ idx[r] \in Slots
<1>1. Frames \subseteq Nat /\ Contents \subseteq Int
  BY DEF Frames, Contents, Blank, Torn, Spoilt
<1>2. \A r \in Readers : got[r] \in [pts : Contents, meta : Contents]
  BY DEF TypeOK
<1>3. \A r \in Readers : got[r].pts \in Contents /\ got[r].meta \in Contents
  BY <1>2
<1> QED
  BY <1>1, <1>3 DEF TypeOK

(* The producer makes a slot torn or puts in what is newer than anything   *)
(* that is published, and publishes in order.                              *)
LEMMA SinkAdvances ==
  ASSUME TypeInv, Publication, SinkNext
  PROVE  /\ Publication'
         /\ frameNumber' >= frameNumber /\ nextFrame' >= nextFrame
         /\ ready => ready'
         /\ \A s \in Slots : \A n \in Nat :
              n <= frameNumber /\ UpToDate(s, n) => UpToDate(s, n)'
         /\ UNCHANGED readerVars
<1> USE DEF TypeInv, TypeOK, SinkOK, Publication, UpToDate, headerVars
<1>1. frameNumber <= nextFrame /\ frameNumber \in Nat /\ nextFrame \in Nat
  BY NumberTypes
<1>2. CASE BeginRender
  BY <1>1, <1>2 DEF BeginRender
<1>12. CASE LockSlot
  BY <1>1, <1>12 DEF LockSlot
<1>13. CASE SkipSlot
  BY <1>1, <1>13 DEF SkipSlot
<1>14. CASE DropFrame
  BY <1>1, <1>14 DEF DropFrame
<1>3. CASE BeginTransform
  BY <1>1, <1>3, NumberTypes DEF BeginTransform, Torn
<1>15. CASE TransformFails
  BY <1>1, <1>15, NumberTypes DEF TransformFails, Spoilt
<1>4. CASE UnlockSlot
  BY <1>1, <1>4 DEF UnlockSlot
<1>16. CASE UnlockFailed
  BY <1>1, <1>16 DEF UnlockFailed
<1>5. CASE EndTransform
  BY <1>1, <1>5, NumberTypes DEF EndTransform
<1>6. CASE BeginMeta
  BY <1>1, <1>6, NumberTypes DEF BeginMeta
<1>7. CASE EndMeta
  BY <1>1, <1>7, NumberTypes DEF EndMeta
<1>8. CASE StoreIndex
  BY <1>1, <1>8, NumberTypes DEF StoreIndex
<1>9. CASE StoreTimestamp
  BY <1>1, <1>9 DEF StoreTimestamp
<1>10. CASE StoreFrameNumber
  BY <1>1, <1>10, NumberTypes DEF StoreFrameNumber
<1>11. CASE StoreReady
  BY <1>1, <1>11 DEF StoreReady
<1> QED
  BY <1>2, <1>3, <1>4, <1>5, <1>6, <1>7, <1>8, <1>9, <1>10, <1>11, <1>12,
     <1>13, <1>14, <1>15, <1>16 DEF SinkNext, SinkWorks

LEMMA DeliverySink == DeliveryInv /\ SinkNext => DeliveryInv'
<1> SUFFICES ASSUME DeliveryInv, SinkNext PROVE DeliveryInv'
  OBVIOUS
<1>1. TypeInv' /\ Publication'
  BY TypeSink, SinkAdvances DEF DeliveryInv
<1>2. ASSUME NEW r \in Readers PROVE Seen(r)'
  <2>1. Seen(r) /\ UNCHANGED readerVars
    BY SinkAdvances DEF DeliveryInv
  <2>2. UpToDate(idx[r], polled[r]) => UpToDate(idx[r], polled[r])'
    BY <2>1, SinkAdvances, NumberTypes DEF DeliveryInv, TypeInv, Seen, UpToDate,
       readerVars
  <2>3. /\ frameNumber' >= frameNumber /\ nextFrame' >= nextFrame
        /\ frameNumber' \in Nat /\ nextFrame' \in Nat
        /\ ready => ready'
    BY <1>1, SinkAdvances, NumberTypes DEF DeliveryInv, TypeInv, TypeOK, Frames
  <2>4. /\ UNCHANGED <<readerPc[r], idx[r], lastFrame[r]>>
        /\ UNCHANGED <<got[r], polled[r], newest[r]>>
        /\ polled[r] \in Nat /\ lastFrame[r] \in Nat /\ newest[r] \in Int
        /\ frameNumber \in Nat /\ nextFrame \in Nat
    BY <2>1, NumberTypes DEF readerVars, DeliveryInv, TypeInv
  <2>5. /\ Creating(r)' <=> Creating(r)
        /\ Creating(r) => ready'
    BY <2>1, <2>3, <2>4 DEF Seen, Creating
  <2> QED
    BY <2>1, <2>2, <2>3, <2>4, <2>5 DEF Seen
<1> QED
  BY <1>1, <1>2 DEF DeliveryInv

-----------------------------------------------------------------------------
(* A consumer writes nothing the others or the producer look at here.      *)
LEMMA ReaderApart ==
  ASSUME NEW r \in Readers, ReaderNext(r), TypeInv
  PROVE  /\ UNCHANGED <<headerVars, pixels, metaRec, sinkVars>>
         /\ \A q \in Readers \ {r} :
              /\ UNCHANGED <<readerPc[q], idx[q], lastFrame[q]>>
              /\ UNCHANGED <<got[q], polled[q], newest[q]>>
<1> USE DEF TypeInv, TypeOK, Goto
<1>1. CASE Start(r) \/ Poll(r) \/ WaitTimeout(r) \/ GiveUp(r) \/ BeginStop(r)
  BY <1>1, ReturnType DEF Start, Poll, WaitTimeout, GiveUp, BeginStop
<1>2. CASE StopRelease(r) \/ StopDone(r)
  BY <1>2 DEF StopRelease, StopDone, ringVars
<1>3. CASE LoadIndex(r) \/ Acquire(r) \/ Busy(r) \/ SwapRing(r)
  BY <1>3 DEF LoadIndex, Acquire, Busy, SwapRing
<1>4. CASE ReadTimestamp(r) \/ ReadMeta(r) \/ ReadLast(r)
  BY <1>4, ReturnType DEF ReadTimestamp, ReadMeta, ReadLast
<1> QED
  BY <1>1, <1>2, <1>3, <1>4 DEF ReaderNext, CreateStep

(* What the consumer itself sees stays right.                              *)
LEMMA SeesOn ==
  ASSUME DeliveryInv, NEW r \in Readers, ReaderNext(r)
  PROVE  Seen(r)'
<1> USE NumberTypes DEF DeliveryInv, TypeInv, Seen, Creating, Goto, ringVars
<1>0. /\ UNCHANGED <<writeIdx, timestamp, frameNumber, ready>>
      /\ UNCHANGED <<pixels, metaRec, nextFrame>>
  BY ReaderApart DEF headerVars, sinkVars
<1>t. /\ readerPc \in [Readers -> ReaderStates] /\ idx \in [Readers -> Slots]
      /\ lastFrame \in [Readers -> Frames] /\ polled \in [Readers -> Frames]
      /\ newest \in [Readers -> Contents] /\ writeIdx \in Slots
      /\ got \in [Readers -> [pts : Contents, meta : Contents]]
  BY DEF TypeOK
<1>1. CASE Start(r)
  BY <1>0, <1>1, <1>t DEF Start, Blank
<1>2. CASE Poll(r)
  <2>1. /\ readerPc[r] = "wait" /\ readerPc'[r] = "load" /\ polled'[r] = frameNumber
        /\ ready /\ frameNumber # lastFrame[r]
        /\ UNCHANGED <<idx, lastFrame, got, newest>>
    BY <1>2, <1>t DEF Poll, NewFrame
  <2>2. newest[r] <= lastFrame[r] + 1 /\ lastFrame[r] <= frameNumber
    BY <2>1
  <2> QED BY <1>0, <2>1, <2>2
<1>3. CASE WaitTimeout(r) \/ BeginStop(r) \/ StopDone(r)
  BY <1>0, <1>3, <1>t DEF WaitTimeout, BeginStop, StopDone
<1>11. CASE GiveUp(r)
  <2>1. /\ readerPc'[r] = "ended" /\ polled'[r] = 0
        /\ UNCHANGED <<lastFrame, newest>>
    BY <1>11, <1>t DEF GiveUp, Return
  <2>2. 0 <= frameNumber
    BY DEF TypeOK
  <2> QED BY <1>0, <2>1, <2>2
<1>4. CASE StopRelease(r)
  BY <1>0, <1>4, <1>t DEF StopRelease
<1>5. CASE LoadIndex(r)
  <2>1. UpToDate(writeIdx, polled[r])
    BY <1>5 DEF LoadIndex, Publication, UpToDate, TypeOK
  <2> QED BY <1>0, <1>5, <1>t, <2>1 DEF LoadIndex, UpToDate
<1>6. CASE Acquire(r)
  <2>1. /\ readerPc[r] = "acquire" /\ readerPc'[r] = "swap"
        /\ newest'[r] = NewestWith(r, idx[r])
        /\ UNCHANGED <<idx, lastFrame, got, polled>>
    BY <1>6, <1>t DEF Acquire
  <2>2. newest'[r] <= nextFrame
    BY <2>1 DEF NewestWith, Publication
  <2> QED BY <1>0, <2>1, <2>2 DEF UpToDate
<1>7. CASE Busy(r) \/ SwapRing(r)
  BY <1>0, <1>7, <1>t DEF Busy, SwapRing, UpToDate
<1>8. CASE ReadTimestamp(r)
  BY <1>0, <1>8, <1>t DEF ReadTimestamp, UpToDate, Publication
<1>9. CASE ReadMeta(r)
  BY <1>0, <1>9, <1>t DEF ReadMeta, UpToDate
<1>10. CASE ReadLast(r)
  <2>1. /\ readerPc[r] = "last" /\ readerPc'[r] = "wait" /\ polled'[r] = 0
        /\ lastFrame'[r] = frameNumber /\ UNCHANGED newest
    BY <1>10, <1>t DEF ReadLast, Return
  <2>2. 0 <= frameNumber /\ frameNumber <= frameNumber
    BY DEF TypeOK
  <2>3. newest[r] <= frameNumber + 1
    BY <2>1 DEF Publication, TypeOK
  <2> QED BY <1>0, <2>1, <2>2, <2>3
<1> QED
  BY <1>1, <1>2, <1>3, <1>4, <1>5, <1>6, <1>7, <1>8, <1>9, <1>10, <1>11
     DEF ReaderNext, CreateStep

LEMMA DeliveryReader ==
  ASSUME DeliveryInv, NEW r \in Readers, ReaderNext(r)
  PROVE  DeliveryInv'
<1>1. TypeInv' /\ TypeInv
  BY TypeReader DEF DeliveryInv
<1>2. Publication'
  BY ReaderApart, <1>1 DEF DeliveryInv, Publication, UpToDate, headerVars, sinkVars
<1>3. ASSUME NEW q \in Readers \ {r} PROVE Seen(q)'
  <2>1. /\ UNCHANGED <<readerPc[q], idx[q], lastFrame[q]>>
        /\ UNCHANGED <<got[q], polled[q], newest[q]>>
        /\ UNCHANGED <<headerVars, pixels, metaRec, sinkVars>>
    BY ReaderApart, <1>1
  <2> QED
    BY <2>1 DEF DeliveryInv, Seen, Creating, UpToDate, headerVars, sinkVars
<1> QED
  BY <1>1, <1>2, <1>3, SeesOn DEF DeliveryInv

LEMMA DeliveryStutter == DeliveryInv /\ UNCHANGED vars => DeliveryInv'
<1> SUFFICES ASSUME DeliveryInv, UNCHANGED vars PROVE DeliveryInv'
  OBVIOUS
<1> USE DEF vars, headerVars, sinkVars, readerVars, ringVars
<1>1. TypeInv'
  BY DEF DeliveryInv, TypeInv, TypeOK, SinkOK
<1>2. Publication'
  BY DEF DeliveryInv, Publication, UpToDate
<1>3. \A r \in Readers : Seen(r)'
  BY DEF DeliveryInv, Seen, Creating, UpToDate
<1> QED
  BY <1>1, <1>2, <1>3 DEF DeliveryInv

LEMMA DeliveryStep == DeliveryInv /\ [Next]_vars => DeliveryInv'
  BY DeliverySink, DeliveryReader, DeliveryStutter DEF Next

-----------------------------------------------------------------------------
(* A slot is torn only while it is written, and what create() delivers is  *)
(* in the ring of the consumer by then.                                    *)
HeldInv ==
  /\ \A s \in Slots : pixels[s] = Torn => sinkPc = "transforming" /\ target = s
  /\ \A r \in Readers :
       readerPc[r] \in {"pts", "meta", "last"} =>
         \E k \in RingPlaces : ring[r][k] = idx[r]

LEMMA HeldInit == Init => HeldInv
  BY DEF Init, HeldInv, Blank, Torn

LEMMA HeldSink ==
  ASSUME TypeInv, HeldInv, SinkNext
  PROVE  HeldInv'
<1> USE DEF TypeInv, TypeOK, SinkOK, HeldInv
<1>1. UNCHANGED <<readerPc, idx, ring>>
  BY DEF SinkNext, SinkWorks, BeginRender, LockSlot, SkipSlot, DropFrame,
         BeginTransform, TransformFails, UnlockFailed, EndTransform, UnlockSlot,
         BeginMeta, EndMeta, StoreIndex, StoreTimestamp, StoreFrameNumber,
         StoreReady, readerVars, ringVars
<1>2. CASE BeginTransform
  BY <1>1, <1>2 DEF BeginTransform
<1>3. CASE TransformFails \/ EndTransform
  <2>1. /\ target \in Slots /\ sinkPc = "transforming"
        /\ \E c \in Contents \ {Torn} : pixels' = [pixels EXCEPT ![target] = c]
    BY <1>3 DEF TransformFails, EndTransform, Contents, Torn, Spoilt, Frames
  <2>2. \A s \in Slots : pixels'[s] # Torn
    BY <2>1
  <2> QED BY <1>1, <2>2
<1>4. CASE UNCHANGED pixels /\ sinkPc # "transforming"
  BY <1>1, <1>4
<1> QED
  BY <1>2, <1>3, <1>4 DEF SinkNext, SinkWorks, BeginRender, LockSlot, SkipSlot,
     DropFrame, UnlockFailed, UnlockSlot, BeginMeta, EndMeta, StoreIndex,
     StoreTimestamp, StoreFrameNumber, StoreReady

LEMMA HeldReader ==
  ASSUME TypeInv, HeldInv, NEW r \in Readers, ReaderNext(r)
  PROVE  HeldInv'
<1> USE DEF TypeInv, TypeOK, HeldInv, Goto
<1>1. \A s \in Slots : pixels'[s] = Torn => sinkPc' = "transforming" /\ target' = s
  BY ReaderApart DEF sinkVars
<1>2. ASSUME NEW q \in Readers, q # r, readerPc'[q] \in {"pts", "meta", "last"}
      PROVE  \E k \in RingPlaces : ring'[q][k] = idx'[q]
  <2>1. UNCHANGED <<readerPc[q], idx[q]>>
    BY <1>2, ReaderApart
  <2>2. UNCHANGED ring[q]
    BY <1>2 DEF ReaderNext, CreateStep, Start, Poll, WaitTimeout, LoadIndex, Acquire,
       Busy, GiveUp, SwapRing, ReadTimestamp, ReadMeta, ReadLast, BeginStop,
       StopRelease, StopDone, ringVars
  <2> QED BY <1>2, <2>1, <2>2
<1>3. ASSUME readerPc'[r] \in {"pts", "meta", "last"}
      PROVE  \E k \in RingPlaces : ring'[r][k] = idx'[r]
  <2>1. CASE SwapRing(r)
    <3>1. ringHead[r] \in RingPlaces /\ ring'[r][ringHead[r]] = idx[r] /\ UNCHANGED idx
      BY <2>1 DEF SwapRing
    <3> QED BY <3>1
  <2>2. CASE ReadTimestamp(r) \/ ReadMeta(r)
    BY <1>3, <2>2 DEF ReadTimestamp, ReadMeta, ringVars
  <2> QED
    BY <1>3, <2>1, <2>2 DEF ReaderNext, CreateStep, Start, Poll, WaitTimeout,
       LoadIndex, Acquire, Busy, GiveUp, ReadLast, BeginStop, StopRelease, StopDone
<1> QED
  BY <1>1, <1>2, <1>3

(* So what a consumer delivers is not being written.                       *)
LEMMA NotInTheMaking ==
  ASSUME IInv, HeldInv, NEW r \in Readers, Delivering(r)
  PROVE  pixels[idx[r]] # Torn
<1>1. idx[r] \in Slots
  BY DEF IInv, TypeInv, TypeOK
<1>2. PICK k \in RefPlaces : RefersTo(r, k, idx[r])
  <2>1. CASE readerPc[r] = "swap"
    BY <2>1 DEF RefersTo, RefPlaces
  <2>2. CASE readerPc[r] # "swap"
    BY <2>2 DEF Delivering, HeldInv, RefersTo, RefPlaces, RingPlaces
  <2> QED BY <2>1, <2>2
<1>3. <<r, k>> \in Holds(idx[r])
  BY <1>2 DEF Holds
<1>4. ~WritesSlot(idx[r])
  BY <1>1, <1>3 DEF IInv, WriterExclusive
<1> QED
  BY <1>1, <1>4 DEF HeldInv, WritesSlot

(***************************************************************************)
(* The pixels of a delivered buffer are those of the frame whose number    *)
(* ended the wait or of a later one, or spoilt by a transform that failed, *)
(* and never in the making; PTS and metadata are of that frame or a later  *)
(* one, but for a record copied while it was written.                      *)
(***************************************************************************)
THEOREM DeliveryIsFresh == Spec => []FreshDelivery
<1>1. IInv /\ HeldInv /\ DeliveryInv => FreshDelivery
  <2> SUFFICES ASSUME IInv, HeldInv, DeliveryInv, NEW r \in Readers
               PROVE  /\ Delivering(r) =>
                           pixels[idx[r]] = Spoilt \/ pixels[idx[r]] >= polled[r]
                      /\ readerPc[r] \in {"meta", "last"} => got[r].pts >= polled[r]
                      /\ readerPc[r] = "last" =>
                           got[r].meta = Torn \/ got[r].meta >= polled[r]
    BY DEF FreshDelivery
  <2>1. Seen(r)
    BY DEF DeliveryInv
  <2>2. Delivering(r) => pixels[idx[r]] # Torn
    BY NotInTheMaking
  <2> QED BY <2>1, <2>2 DEF Seen, Creating, Delivering, UpToDate
<1>2. HeldInv /\ UNCHANGED vars => HeldInv'
  BY DEF HeldInv, vars, sinkVars, readerVars, ringVars
<1>3. DeliveryInv /\ HeldInv /\ [Next]_vars => HeldInv'
  BY <1>2, HeldSink, HeldReader DEF Next, DeliveryInv
<1> QED
  BY DeliveryInit, DeliveryStep, HeldInit, IInvAlways, <1>1, <1>3, PTL DEF Spec

(* Between two steps no consumer is given an older frame.                  *)
LEMMA NewestGrows ==
  ASSUME DeliveryInv, Next
  PROVE  \A r \in Readers : readerPc[r] # "off" => newest'[r] >= newest[r]
<1> SUFFICES ASSUME NEW r \in Readers, readerPc[r] # "off"
             PROVE  newest'[r] >= newest[r]
  OBVIOUS
<1>1. newest[r] \in Int /\ TypeInv
  BY NumberTypes DEF DeliveryInv, TypeInv
<1>2. CASE SinkNext
  BY <1>1, <1>2, SinkAdvances DEF DeliveryInv, readerVars
<1>3. ASSUME NEW q \in Readers, ReaderNext(q) PROVE newest'[r] >= newest[r]
  <2>1. CASE q # r
    BY <1>1, <1>3, <2>1, ReaderApart
  <2>2. CASE q = r /\ Acquire(q)
    <3>1. Seen(r) /\ readerPc[r] = "acquire" /\ polled[r] \in Nat
      BY <2>2, NumberTypes DEF DeliveryInv, TypeInv, Acquire, Goto
    <3>2. /\ pixels[idx[r]] \in {Torn, Spoilt} \/ pixels[idx[r]] >= polled[r]
          /\ newest[r] <= polled[r] /\ pixels[idx[r]] \in Int
      BY <3>1, NumberTypes DEF Seen, Creating, UpToDate, DeliveryInv, TypeInv
    <3>3. newest'[r] = IF pixels[idx[r]] \in Frames THEN pixels[idx[r]] ELSE newest[r]
      BY <1>1, <2>2 DEF Acquire, NewestWith, TypeInv, TypeOK
    <3>4. Torn \notin Frames /\ Spoilt \notin Frames
      BY DEF Torn, Spoilt, Frames
    <3> QED BY <1>1, <3>1, <3>2, <3>3, <3>4
  <2>3. CASE q = r /\ ~Acquire(q)
    <3>1. UNCHANGED newest
      BY <1>3, <2>3 DEF ReaderNext, CreateStep, Start, Goto, Poll, WaitTimeout, LoadIndex,
         Busy, GiveUp, SwapRing, ReadTimestamp, ReadMeta, ReadLast, BeginStop,
         StopRelease, StopDone
    <3> QED BY <1>1, <3>1
  <2> QED BY <2>1, <2>2, <2>3
<1> QED
  BY <1>2, <1>3 DEF Next

(***************************************************************************)
(* From start() to stop() the frames a consumer is given never go back in  *)
(* time.                                                                   *)
(***************************************************************************)
THEOREM DeliveryIsMonotone == Spec => MonotoneDelivery
<1>1. DeliveryInv /\ [Next]_vars =>
        [\A r \in Readers : readerPc[r] # "off" => newest'[r] >= newest[r]]_vars
  BY NewestGrows
<1> QED
  BY DeliveryInit, DeliveryStep, <1>1, PTL DEF Spec, MonotoneDelivery
=============================================================================
