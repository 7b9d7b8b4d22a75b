------------------------------ MODULE NvmmIpc ------------------------------
(***************************************************************************)
(* The shared-memory frame protocol between one nvmmsink and its           *)
(* nvmmappsrc consumers: render() of gst/nvmmsink/gstnvmmsink.cpp against  *)
(* start()/create()/stop() of gst/nvmmappsrc/gstnvmmappsrc.cpp, over the   *)
(* header of gst/common/shm_protocol.h.                                    *)
(*                                                                         *)
(* Every access of one process to memory the other can see is a step of    *)
(* its own; accesses to private memory ride along with the shared access   *)
(* next to them.  Memory is sequentially consistent.                       *)
(*                                                                         *)
(* A frame is named by the frame_number it is (or will be) published       *)
(* under; its PTS and its metadata record carry the same name, so that a   *)
(* consumer that mixes two frames can be told from one that does not.      *)
(***************************************************************************)
EXTENDS Integers, FiniteSets

CONSTANTS
  PoolSize,      (* header->pool_size, 13..16 in the code.                 *)
  ReleaseDelay,  (* RELEASE_DELAY, 12 in the code.                         *)
  Readers,       (* The consumer processes.                                *)
  MaxFrames      (* Bound: frames published by the producer.               *)

ASSUME PoolAssumption == PoolSize \in Nat \ {0}
ASSUME DelayAssumption == ReleaseDelay \in Nat \ {0}
ASSUME ReadersAssumption == IsFiniteSet(Readers)
ASSUME FramesAssumption == MaxFrames \in Nat

Slots == 0 .. PoolSize - 1
RingPlaces == 0 .. ReleaseDelay - 1
Frames == 0 .. MaxFrames

NoSlot == -1           (* target = -1, an inactive RefSlot.                *)
Blank == -1            (* A slot or record never written.                  *)
Torn == -2             (* Being written at this moment.                     *)
Spoilt == -3           (* Whatever a transform that failed has left there.  *)
Contents == Frames \union {Blank, Torn, Spoilt}

VARIABLES
  (* NvmmShmHeader and what it describes, shared. *)
  refCounts, writeIdx, timestamp, frameNumber, ready, pixels, metaRec,
  (* GstNvmmSinkPrivate and the locals of render(). *)
  sinkPc, scan, target, nextFrame,
  (* GstNvmmAppSrcPrivate and the locals of create(), per consumer. *)
  readerPc, idx, ring, ringHead, lastFrame, got,
  (* History: the frame number that ended the wait, the newest frame       *)
  (* acquired since start(), and the frame of each ring entry.             *)
  polled, newest, ringFrame

headerVars == <<writeIdx, timestamp, frameNumber, ready>>
sinkVars == <<sinkPc, scan, target, nextFrame>>
ringVars == <<ring, ringHead, ringFrame>>
readerVars == <<readerPc, idx, ringVars, lastFrame, got, polled, newest>>
vars == <<refCounts, headerVars, pixels, metaRec, sinkVars, readerVars>>

SinkStates == {"idle", "scan", "transform", "transforming", "failed", "unlock",
               "meta", "metaEnd", "index", "stamp", "number", "ready"}
ReaderStates == {"off", "wait", "load", "acquire", "swap", "pts", "meta",
                 "last", "ended", "stopping"}

TypeOK ==
  /\ refCounts \in [Slots -> Int]
  /\ writeIdx \in Slots
  /\ timestamp \in Frames
  /\ frameNumber \in Frames
  /\ ready \in BOOLEAN
  /\ pixels \in [Slots -> Contents]
  /\ metaRec \in [Slots -> Contents]
  /\ sinkPc \in SinkStates
  /\ scan \in 0 .. PoolSize
  /\ target \in Slots \union {NoSlot}
  /\ nextFrame \in Frames
  /\ readerPc \in [Readers -> ReaderStates]
  /\ idx \in [Readers -> Slots]
  /\ ring \in [Readers -> [RingPlaces -> Slots \union {NoSlot}]]
  /\ ringHead \in [Readers -> RingPlaces]
  /\ lastFrame \in [Readers -> Frames]
  /\ got \in [Readers -> [pts : Contents, meta : Contents]]
  /\ polled \in [Readers -> Frames]
  /\ newest \in [Readers -> Contents]
  /\ ringFrame \in [Readers -> [RingPlaces -> Contents]]

-----------------------------------------------------------------------------
(* The segment as start() of the sink leaves it, the pool allocated by     *)
(* set_caps, and no consumer attached.                                     *)
Init ==
  /\ refCounts = [s \in Slots |-> 0]
  /\ writeIdx = 0
  /\ timestamp = 0
  /\ frameNumber = 0
  /\ ready = FALSE
  /\ pixels = [s \in Slots |-> Blank]
  /\ metaRec = [s \in Slots |-> Blank]
  /\ sinkPc = "idle"
  /\ scan = 0
  /\ target = NoSlot
  /\ nextFrame = 0
  /\ readerPc = [r \in Readers |-> "off"]
  /\ idx = [r \in Readers |-> 0]
  /\ ring = [r \in Readers |-> [k \in RingPlaces |-> NoSlot]]
  /\ ringHead = [r \in Readers |-> 0]
  /\ lastFrame = [r \in Readers |-> 0]
  /\ got = [r \in Readers |-> [pts |-> Blank, meta |-> Blank]]
  /\ polled = [r \in Readers |-> 0]
  /\ newest = [r \in Readers |-> Blank]
  /\ ringFrame = [r \in Readers |-> [k \in RingPlaces |-> Blank]]

-----------------------------------------------------------------------------
(* Producer: gst_nvmm_sink_render.                                         *)

(* priv->write_idx is set by start() and by nothing else: every scan       *)
(* begins at slot 1 and comes to slot 0 last.                              *)
PrivWriteIdx == 0
ScanSlot(i) == (PrivWriteIdx + 1 + i) % PoolSize

(* A buffer arrives on the sink pad.                                       *)
BeginRender ==
  /\ sinkPc = "idle"
  /\ nextFrame < MaxFrames
  /\ sinkPc' = "scan"
  /\ scan' = 0
  /\ target' = NoSlot
  /\ UNCHANGED <<refCounts, headerVars, pixels, metaRec, nextFrame, readerVars>>

(* Mutant: the slot is taken without looking at its count.                 *)
LockSlotBlindly ==
  /\ sinkPc = "scan"
  /\ scan < PoolSize
  /\ refCounts' = [refCounts EXCEPT ![ScanSlot(scan)] = -1]
  /\ target' = ScanSlot(scan)
  /\ sinkPc' = "transform"
  /\ UNCHANGED <<headerVars, pixels, metaRec, scan, nextFrame, readerVars>>

(* The compare-and-swap 0 -> -1 on the slot under the cursor succeeds ...  *)
LockSlot ==
  /\ sinkPc = "scan"
  /\ scan < PoolSize
  /\ refCounts[ScanSlot(scan)] = 0
  /\ refCounts' = [refCounts EXCEPT ![ScanSlot(scan)] = -1]
  /\ target' = ScanSlot(scan)
  /\ sinkPc' = "transform"
  /\ UNCHANGED <<headerVars, pixels, metaRec, scan, nextFrame, readerVars>>

(* ... or fails: the next slot is tried.                                   *)
SkipSlot ==
  /\ sinkPc = "scan"
  /\ scan < PoolSize
  /\ refCounts[ScanSlot(scan)] # 0
  /\ scan' = scan + 1
  /\ UNCHANGED <<refCounts, headerVars, pixels, metaRec, sinkPc, target,
                 nextFrame, readerVars>>

(* All pool buffers busy: the frame is dropped and GST_FLOW_OK returned.   *)
DropFrame ==
  /\ sinkPc = "scan"
  /\ scan = PoolSize
  /\ sinkPc' = "idle"
  /\ UNCHANGED <<refCounts, headerVars, pixels, metaRec, scan, target,
                 nextFrame, readerVars>>

(* NvBufSurfTransform starts to overwrite the slot ...                     *)
BeginTransform ==
  /\ sinkPc = "transform"
  /\ pixels' = [pixels EXCEPT ![target] = Torn]
  /\ sinkPc' = "transforming"
  /\ UNCHANGED <<refCounts, headerVars, metaRec, scan, target, nextFrame,
                 readerVars>>

(* ... and fails, which leaves something in the slot that is no frame:     *)
TransformFails ==
  /\ sinkPc = "transforming"
  /\ pixels' = [pixels EXCEPT ![target] = Spoilt]
  /\ sinkPc' = "failed"
  /\ UNCHANGED <<refCounts, headerVars, metaRec, scan, target, nextFrame,
                 readerVars>>

(* Mutant: the error path of the transform forgets the lock.               *)
UnlockForgotten ==
  /\ sinkPc = "failed"
  /\ sinkPc' = "idle"
  /\ UNCHANGED <<refCounts, headerVars, pixels, metaRec, scan, target,
                 nextFrame, readerVars>>

(* the slot is unlocked as it is, nothing is published, and render returns *)
(* GST_FLOW_ERROR.  write_idx may name this very slot: the last published  *)
(* frame is gone, and whoever acquires it next is given what is left.      *)
UnlockFailed ==
  /\ sinkPc = "failed"
  /\ refCounts' = [refCounts EXCEPT ![target] = 0]
  /\ sinkPc' = "idle"
  /\ UNCHANGED <<headerVars, pixels, metaRec, scan, target, nextFrame,
                 readerVars>>

(* ... or succeeds, and the lock is dropped at once, before the metadata   *)
(* is written and before the frame is published.                           *)
EndTransform ==
  /\ sinkPc = "transforming"
  /\ pixels' = [pixels EXCEPT ![target] = nextFrame]
  /\ sinkPc' = "unlock"
  /\ UNCHANGED <<refCounts, headerVars, metaRec, scan, target, nextFrame,
                 readerVars>>

UnlockSlot ==
  /\ sinkPc = "unlock"
  /\ refCounts' = [refCounts EXCEPT ![target] = 0]
  /\ sinkPc' = "meta"
  /\ UNCHANGED <<headerVars, pixels, metaRec, scan, target, nextFrame,
                 readerVars>>

(* nvmm_frame_meta_from_nvds fills the record of the slot; a reader that   *)
(* copies it meanwhile gets a mixture.                                     *)
BeginMeta ==
  /\ sinkPc = "meta"
  /\ metaRec' = [metaRec EXCEPT ![target] = Torn]
  /\ sinkPc' = "metaEnd"
  /\ UNCHANGED <<refCounts, headerVars, pixels, scan, target, nextFrame,
                 readerVars>>

EndMeta ==
  /\ sinkPc = "metaEnd"
  /\ metaRec' = [metaRec EXCEPT ![target] = nextFrame]
  /\ sinkPc' = "index"
  /\ UNCHANGED <<refCounts, headerVars, pixels, scan, target, nextFrame,
                 readerVars>>

(* Mutant: the loop counter is published in place of the slot.             *)
StoreScan ==
  /\ sinkPc = "index"
  /\ writeIdx' = scan
  /\ sinkPc' = "stamp"
  /\ UNCHANGED <<refCounts, timestamp, frameNumber, ready, pixels, metaRec,
                 scan, target, nextFrame, readerVars>>

StoreIndex ==
  /\ sinkPc = "index"
  /\ writeIdx' = target
  /\ sinkPc' = "stamp"
  /\ UNCHANGED <<refCounts, timestamp, frameNumber, ready, pixels, metaRec,
                 scan, target, nextFrame, readerVars>>

StoreTimestamp ==
  /\ sinkPc = "stamp"
  /\ timestamp' = nextFrame
  /\ sinkPc' = "number"
  /\ UNCHANGED <<refCounts, writeIdx, frameNumber, ready, pixels, metaRec,
                 scan, target, nextFrame, readerVars>>

(* header->frame_number = priv->frame_number.fetch_add(1): the old value.  *)
StoreFrameNumber ==
  /\ sinkPc = "number"
  /\ frameNumber' = nextFrame
  /\ nextFrame' = nextFrame + 1
  /\ sinkPc' = "ready"
  /\ UNCHANGED <<refCounts, writeIdx, timestamp, ready, pixels, metaRec,
                 scan, target, readerVars>>

StoreReady ==
  /\ sinkPc = "ready"
  /\ ready' = TRUE
  /\ sinkPc' = "idle"
  /\ UNCHANGED <<refCounts, writeIdx, timestamp, frameNumber, pixels, metaRec,
                 scan, target, nextFrame, readerVars>>

SinkWorks ==
  \/ BeginRender \/ LockSlot \/ SkipSlot \/ DropFrame
  \/ BeginTransform \/ EndTransform \/ UnlockSlot
  \/ BeginMeta \/ EndMeta
  \/ StoreIndex \/ StoreTimestamp \/ StoreFrameNumber \/ StoreReady

SinkNext == SinkWorks \/ TransformFails \/ UnlockFailed

-----------------------------------------------------------------------------
(* Consumer: gst_nvmm_app_src_start / create / stop.                       *)

Goto(r, from, to) ==
  /\ readerPc[r] = from
  /\ readerPc' = [readerPc EXCEPT ![r] = to]

(* start(): last_frame_number is reset, ring_head is not.                  *)
Start(r) ==
  /\ Goto(r, "off", "wait")
  /\ lastFrame' = [lastFrame EXCEPT ![r] = 0]
  /\ newest' = [newest EXCEPT ![r] = Blank]
  /\ UNCHANGED <<refCounts, headerVars, pixels, metaRec, sinkVars, idx,
                 ringVars, got, polled>>

NewFrame(r) == ready /\ frameNumber # lastFrame[r]

(* The wait loop of create() ends on a frame number other than the last.   *)
Poll(r) ==
  /\ Goto(r, "wait", "load")
  /\ NewFrame(r)
  /\ polled' = [polled EXCEPT ![r] = frameNumber]
  /\ UNCHANGED <<refCounts, headerVars, pixels, metaRec, sinkVars, idx,
                 ringVars, lastFrame, got, newest>>

(* Two seconds without one: GST_FLOW_EOS.                                  *)
WaitTimeout(r) ==
  /\ Goto(r, "wait", "ended")
  /\ ~NewFrame(r)
  /\ UNCHANGED <<refCounts, headerVars, pixels, metaRec, sinkVars, idx,
                 ringVars, lastFrame, got, polled, newest>>

(* Mutant: the slot is guessed from the frame number.                      *)
LoadFrameModulo(r) ==
  /\ Goto(r, "load", "acquire")
  /\ idx' = [idx EXCEPT ![r] = frameNumber % PoolSize]
  /\ UNCHANGED <<refCounts, headerVars, pixels, metaRec, sinkVars, ringVars,
                 lastFrame, got, polled, newest>>

LoadIndex(r) ==
  /\ Goto(r, "load", "acquire")
  /\ idx' = [idx EXCEPT ![r] = writeIdx]
  /\ UNCHANGED <<refCounts, headerVars, pixels, metaRec, sinkVars, ringVars,
                 lastFrame, got, polled, newest>>

(* The newest frame r has seen once it has slot s: a spoilt one is none.   *)
NewestWith(r, s) == IF pixels[s] \in Frames THEN pixels[s] ELSE newest[r]

(* Mutant: a fetch-and-add in place of the compare-and-swap loop.          *)
AcquireBlindly(r) ==
  LET s == idx[r] IN
  /\ Goto(r, "acquire", "swap")
  /\ refCounts' = [refCounts EXCEPT ![s] = @ + 1]
  /\ newest' = [newest EXCEPT ![r] = NewestWith(r, s)]
  /\ UNCHANGED <<headerVars, pixels, metaRec, sinkVars, idx, ringVars,
                 lastFrame, got, polled>>

(* The compare-and-swap n -> n + 1, n >= 0: the step that takes the ref.   *)
Acquire(r) ==
  LET s == idx[r] IN
  /\ Goto(r, "acquire", "swap")
  /\ refCounts[s] >= 0
  /\ refCounts' = [refCounts EXCEPT ![s] = @ + 1]
  /\ newest' = [newest EXCEPT ![r] = NewestWith(r, s)]
  /\ UNCHANGED <<headerVars, pixels, metaRec, sinkVars, idx, ringVars,
                 lastFrame, got, polled>>

(* The producer has the slot: sleep, then read write_idx again ...         *)
Busy(r) ==
  /\ Goto(r, "acquire", "load")
  /\ refCounts[idx[r]] < 0
  /\ UNCHANGED <<refCounts, headerVars, pixels, metaRec, sinkVars, idx,
                 ringVars, lastFrame, got, polled, newest>>

(* create() returns, and its locals go.                                    *)
Return(r) ==
  /\ idx' = [idx EXCEPT ![r] = 0]
  /\ got' = [got EXCEPT ![r] = [pts |-> Blank, meta |-> Blank]]
  /\ polled' = [polled EXCEPT ![r] = 0]

(* ... and after 1000 of those return GST_FLOW_ERROR.                      *)
GiveUp(r) ==
  /\ Goto(r, "acquire", "ended")
  /\ refCounts[idx[r]] < 0
  /\ Return(r)
  /\ UNCHANGED <<refCounts, headerVars, pixels, metaRec, sinkVars, ringVars,
                 lastFrame, newest>>

Released(counts, s) ==
  IF s = NoSlot THEN counts ELSE [counts EXCEPT ![s] = @ - 1]

(* The oldest ring entry is released and the new reference takes its       *)
(* place: for a moment the consumer holds RELEASE_DELAY + 1.               *)
SwapRing(r) ==
  LET h == ringHead[r] IN
  /\ Goto(r, "swap", "pts")
  /\ refCounts' = Released(refCounts, ring[r][h])
  /\ ring' = [ring EXCEPT ![r] = [@ EXCEPT ![h] = idx[r]]]
  /\ ringFrame' = [ringFrame EXCEPT ![r] = [@ EXCEPT ![h] = pixels[idx[r]]]]
  /\ ringHead' = [ringHead EXCEPT ![r] = (@ + 1) % ReleaseDelay]
  /\ UNCHANGED <<headerVars, pixels, metaRec, sinkVars, idx, lastFrame, got,
                 polled, newest>>

(* GST_BUFFER_PTS is whatever the header says now.                         *)
ReadTimestamp(r) ==
  /\ Goto(r, "pts", "meta")
  /\ got' = [got EXCEPT ![r] = [@ EXCEPT !.pts = timestamp]]
  /\ UNCHANGED <<refCounts, headerVars, pixels, metaRec, sinkVars, idx,
                 ringVars, lastFrame, polled, newest>>

(* gst_buffer_add_nvmm_det_meta copies the record of the slot.             *)
ReadMeta(r) ==
  /\ Goto(r, "meta", "last")
  /\ got' = [got EXCEPT ![r] = [@ EXCEPT !.meta = metaRec[idx[r]]]]
  /\ UNCHANGED <<refCounts, headerVars, pixels, metaRec, sinkVars, idx,
                 ringVars, lastFrame, polled, newest>>

(* last_frame_number is read again from the header, and the buffer goes    *)
(* downstream.                                                             *)
ReadLast(r) ==
  /\ Goto(r, "last", "wait")
  /\ lastFrame' = [lastFrame EXCEPT ![r] = frameNumber]
  /\ Return(r)
  /\ UNCHANGED <<refCounts, headerVars, pixels, metaRec, sinkVars, ringVars,
                 newest>>

(* stop(), which the base class calls when create() is not running.        *)
BeginStop(r) ==
  /\ Goto(r, "wait", "stopping") \/ Goto(r, "ended", "stopping")
  /\ UNCHANGED <<refCounts, headerVars, pixels, metaRec, sinkVars, idx,
                 ringVars, lastFrame, got, polled, newest>>

(* Mutant: stop() clears the ring and forgets the references.              *)
StopForgets(r) ==
  \E k \in RingPlaces :
    /\ readerPc[r] = "stopping"
    /\ ring[r][k] # NoSlot
    /\ \A j \in RingPlaces : j < k => ring[r][j] = NoSlot
    /\ ring' = [ring EXCEPT ![r] = [@ EXCEPT ![k] = NoSlot]]
    /\ ringFrame' = [ringFrame EXCEPT ![r] = [@ EXCEPT ![k] = Blank]]
    /\ UNCHANGED <<refCounts, headerVars, pixels, metaRec, sinkVars, readerPc,
                   idx, ringHead, lastFrame, got, polled, newest>>

(* stop() releases the active entries of the ring in index order.          *)
StopRelease(r) ==
  \E k \in RingPlaces :
    /\ readerPc[r] = "stopping"
    /\ ring[r][k] # NoSlot
    /\ \A j \in RingPlaces : j < k => ring[r][j] = NoSlot
    /\ refCounts' = Released(refCounts, ring[r][k])
    /\ ring' = [ring EXCEPT ![r] = [@ EXCEPT ![k] = NoSlot]]
    /\ ringFrame' = [ringFrame EXCEPT ![r] = [@ EXCEPT ![k] = Blank]]
    /\ UNCHANGED <<headerVars, pixels, metaRec, sinkVars, readerPc, idx,
                   ringHead, lastFrame, got, polled, newest>>

StopDone(r) ==
  /\ Goto(r, "stopping", "off")
  /\ \A k \in RingPlaces : ring[r][k] = NoSlot
  /\ UNCHANGED <<refCounts, headerVars, pixels, metaRec, sinkVars, idx,
                 ringVars, lastFrame, got, polled, newest>>

CreateStep(r) ==
  \/ LoadIndex(r) \/ Acquire(r) \/ Busy(r) \/ SwapRing(r)
  \/ ReadTimestamp(r) \/ ReadMeta(r) \/ ReadLast(r)

ReaderNext(r) ==
  \/ Poll(r) \/ CreateStep(r) \/ WaitTimeout(r) \/ GiveUp(r)
  \/ Start(r) \/ BeginStop(r) \/ StopRelease(r) \/ StopDone(r)

Next == SinkNext \/ \E r \in Readers : ReaderNext(r)

Spec == Init /\ [][Next]_vars

(***************************************************************************)
(* The streaming threads keep running: upstream keeps pushing buffers, a   *)
(* create() that saw a new frame and a started stop() go on, and the       *)
(* transform does not fail for ever.  No consumer is obliged to start, to  *)
(* ask for another buffer, to time out or to stop.                         *)
(***************************************************************************)
Fairness ==
  /\ WF_vars(SinkNext)
  /\ SF_vars(EndTransform)
  /\ \A r \in Readers : WF_vars(CreateStep(r) \/ StopRelease(r) \/ StopDone(r))

FairSpec == Spec /\ Fairness

-----------------------------------------------------------------------------
(* References.                                                             *)

WritesSlot(s) ==
  sinkPc \in {"transform", "transforming", "failed", "unlock"} /\ target = s

(* The references on slot s: one per ring entry, and one, under the place  *)
(* ReleaseDelay, that create() has taken and not yet put into the ring.    *)
RefPlaces == 0 .. ReleaseDelay
RefersTo(r, k, s) ==
  \/ k # ReleaseDelay /\ ring[r][k] = s
  \/ k = ReleaseDelay /\ readerPc[r] = "swap" /\ idx[r] = s
Holds(s) == {h \in Readers \X RefPlaces : RefersTo(h[1], h[2], s)}

(***************************************************************************)
(* ref_counts[s] is -1 while the producer overwrites the slot and else the *)
(* number of references the consumers have on it: no increment is lost, no *)
(* slot is released twice, whatever the interleaving of render, create and *)
(* stop (sink 436 and 458, appsrc 382-396 and 297-303).                    *)
(***************************************************************************)
RefCountsExact ==
  \A s \in Slots :
    refCounts[s] = IF WritesSlot(s) THEN -1 ELSE Cardinality(Holds(s))

(***************************************************************************)
(* The producer never overwrites the pixels of a slot some consumer holds  *)
(* (shm_protocol.h:41-42).                                                 *)
(***************************************************************************)
WriterExclusive == \A s \in Slots : WritesSlot(s) => Holds(s) = {}

(***************************************************************************)
(* The last RELEASE_DELAY buffers a consumer was given still show the      *)
(* frame they were acquired with, however far the producer has got: the    *)
(* guarantee the delay exists for (appsrc 107-109).                        *)
(***************************************************************************)
WindowStable ==
  \A r \in Readers, k \in RingPlaces :
    ring[r][k] # NoSlot => pixels[ring[r][k]] = ringFrame[r][k]

(***************************************************************************)
(* What a consumer delivers is never a picture in the making and never an  *)
(* older one than the frame whose number ended its wait (the publication   *)
(* order of sink 458-478).  Its pixels are those of that frame, of a later *)
(* one, or what a transform that failed has left in the slot: sink 451-455 *)
(* unlocks such a slot although write_idx may still name it, so a spoilt   *)
(* picture is delivered, and nothing tells the consumer.  The PTS is that  *)
(* of the frame or of a later one.  So is the metadata, unless the record  *)
(* was copied while it was written, as the slot is unlocked before that    *)
(* (MetaPinned).                                                           *)
(***************************************************************************)
Delivering(r) == readerPc[r] \in {"swap", "pts", "meta", "last"}
FreshDelivery ==
  \A r \in Readers :
    /\ Delivering(r) => pixels[idx[r]] = Spoilt \/ pixels[idx[r]] >= polled[r]
    /\ readerPc[r] \in {"meta", "last"} => got[r].pts >= polled[r]
    /\ readerPc[r] = "last" => got[r].meta = Torn \/ got[r].meta >= polled[r]

(***************************************************************************)
(* From start() to stop() the frames one consumer is given never go back   *)
(* in time, although create takes whatever frame the slot of a write_idx   *)
(* read earlier holds by then, published or not, and re-reads frame_number *)
(* at its end.  (Across a restart they can go back: a frame acquired       *)
(* before its publication is followed by the one published last.)          *)
(***************************************************************************)
MonotoneDelivery ==
  [][\A r \in Readers : readerPc[r] # "off" => newest'[r] >= newest[r]]_vars

(***************************************************************************)
(* A pool of more than RELEASE_DELAY slots per consumer that keeps a       *)
(* buffer has a slot for the producer, unless a create() is between taking *)
(* its reference and releasing its oldest one (shm_protocol.h:16-18): what *)
(* a consumer that stops had held is there again at once.                  *)
(***************************************************************************)
NoneSwapping == \A r \in Readers : readerPc[r] # "swap"
Keepers == {r \in Readers : \E k \in RingPlaces : ring[r][k] # NoSlot}
PoolCoversReaders == PoolSize > Cardinality(Keepers \X RingPlaces)
SlotAvailable ==
  PoolCoversReaders /\ NoneSwapping =>
    \E s \in Slots : refCounts[s] = 0 \/ WritesSlot(s)

(***************************************************************************)
(* The producer is not starved by consumers that stay away, go on or hang: *)
(* once the pool covers those that keep buffers, frame after frame gets    *)
(* published.                                                              *)
(***************************************************************************)
SinkProgress == <>[]PoolCoversReaders => <>(nextFrame = MaxFrames)

(***************************************************************************)
(* docs/metadata-ipc.md:37-38: the metadata record of a slot is protected  *)
(* by the same ref-count as the pixels, "so the producer never overwrites  *)
(* metadata a consumer is still reading".                                  *)
(***************************************************************************)
MetaPinned ==
  [][\A s \in Slots : Holds(s) # {} /\ Holds(s)' # {} => metaRec'[s] = metaRec[s]]_vars

(***************************************************************************)
(* Seen from the pixels, the protocol is a pool of slots with one careful  *)
(* writer and counted references.                                          *)
(***************************************************************************)
Pool == INSTANCE SlotPool WITH
  content <- pixels,
  writing <- {s \in Slots : WritesSlot(s)},
  refs    <- [s \in Slots |-> Cardinality(Holds(s))]

ImplementsPool == Pool!PoolSpec
=============================================================================
