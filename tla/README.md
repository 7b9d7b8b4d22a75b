# gst-nvmm-cpp: a TLA+ development

gst-nvmm-cpp is a set of GStreamer elements for NVIDIA Jetson that keep video
frames in NVMM (GPU) memory: a cross-process frame transport (`nvmmsink`,
`nvmmappsrc`), inference and tracking elements (`nvmminfer`, `nvmmtracker`,
`nvmmdetgate`, `nvmmsamurai`, `nvmmfusekf`, `nvmmsecondaryinfer`), joins
(`nvmmfusion`, `nvmmcompositor`), converters and the memory they share. This
directory holds TLA+ models of the parts whose correctness depends on state
kept over several steps, the TLC configurations that check them, and TLAPS
proofs about them.

Source paths below are relative to the repository. `PROJECT.json` maps every
definition that models code to its lines, and lists the components, the runs,
one mutation of the model per checked property that makes TLC report it, the
hazards, and the theorems.

    tlc -workers 2 -config MCNvmmIpc_run.cfg MCNvmmIpc     # a run
    tlapm NvmmIpc_proofs.tla                               # the proofs

Contents: [the system](#the-system), [the modules](#the-modules),
[runs and bounds](#runs-and-bounds), [fairness](#fairness),
[proofs](#proofs), [what the models show of the code](#what-the-models-show-of-the-code),
[not modelled](#not-modelled), [plan](#plan).

## The system

### Components

| component | state it keeps | operations | what is hard about it | module |
|---|---|---|---|---|
| frame transport: `nvmmsink`, `nvmmappsrc`, `shm_protocol.h` | in shared memory: `ref_counts`, `write_idx`, `timestamp_ns`, `frame_number`, `ready`, a metadata record per slot; producer: scan position; consumer: the release ring of the last 12 buffers, `last_frame_number` | `render`; `start`, `create`, `stop` of each consumer | several processes, no lock but a CAS on a counter; a consumer may lag by any number of frames | `NvmmIpc`, `SlotPool` |
| pool hand-over: same elements, `fd_ipc.h` | the named segment, its magic and socket path, the socket, who has which segment mapped and which pool imported | producer start, `set_caps`, accept loop, stop; consumer start (map, wait, connect, receive), stop | restarts and crashes at any step; `recv` without a timeout; names that outlive processes; a start that fails half-way | `IpcSession`, `Setup` |
| `nvmminfer` | `seen_frames`, `acq_run`; engine, stream, buffers | `transform_ip`, start, stop | two counters that decide together which frames are passed by; failures during set-up | `InferInterval`, `Setup` |
| `yolo_parser` | none | one frame | order, suppression and the limit of objects at once | `YoloParser` |
| `nvmmtracker` | tracks with id, box, class, age; `next_id_` | `Tracker::update`, start, stop | greedy association in list order; identity over gaps | `Tracker`, `Pipeline` |
| `nvmmsecondaryinfer` | a cache from tracker id to label, `last_infer`, `last_seen`; `frame_no` | `transform_ip`, start, stop | unsigned frame-number arithmetic; five ways out of the loop body | `SecondaryInfer`, `LabelMemory`, `Pipeline` |
| `nvmmdetgate` | tracks with age, lost and support; the lock; `fcount_`, `synth_valid_` | `update`, `update_locked`, `reset`, stop | tracks that meet and part; an index into one frame's list kept with the track | `DetGate` |
| `analytics/`: `persistence_gate`, `detection_motion_gate` | tracks and lock, as `nvmmdetgate` | `update`, `reset` | as `nvmmdetgate` | `PersistenceGate` |
| `nvmmsamurai` | seeded or not, last box, Kalman filter, `kf_count`, `roi_armed`, `reseed_pending`, `reseed_box` | `transform_ip`, the `nvmm-reseed` event, start | three ways to be seeded, failures half-way, an event from another thread | `TrackLoop` |
| the memory of `nvmmsamurai` | the conditioning frame, a ring of device buffers, the list of those in use, object pointers; the last box, the Kalman filter and the patch of the last picture seen | seed, track | pointers into buffers that are written round and round; failures of every engine; camera motion owed to a box and to a filter of different pictures | `SamuraiMemory`, `SamuraiBox` |
| `nvmmfusekf` | fused filter, `lost`, cooldown, `ever_valid` | `transform_ip`, start, stop; sends `nvmm-reseed` | a feedback loop through a queue: what it sees is older than what it acts on | `TrackLoop` |
| `nvmmfusion` | the heads of two aggregator pads | `aggregate` | join by PTS of two lossy branches of a tee with bounded queues | `Fusion` |
| `nvmmcompositor` | pads and their heads | `aggregate` | pads that end, lag or send what cannot be composed | `Compositor` |
| `nvmmconvert` | passthrough flag, pool, crop and flip properties | `set_caps`, `transform`, `decide_allocation`, `prepare_output_buffer` | a pool whose buffers others keep; decisions taken from properties that change | `FlowPath`, `SharedMemory` |
| `nvmmofa`, `nvmmflowstats` | the previous frame and the buffer that keeps it alive, the engine's objects | `transform_ip`, `set_caps`, stop | lifetime of the previous frame; partial failure of configuration | `FlowPath`, `Setup` |
| `nvmmalloc` allocator and pool, `NvmmBuffer`, `NvmmTransform` | owner of each shared surface, planes mapped | allocate, share, free, map, unmap, transform | shares and owner use one surface | `SharedMemory` |
| engines and preprocessing: `trt_engine`, `preprocess`, `roi_preprocess`, `gmc_vpi_*`, `xfeat_matcher` | streams, device buffers, payloads | configure, release | whichever step fails, the rest is to be given back | `Setup` |
| metas of a buffer | lists that refer to each other by index | attach, transform, read | elements that change one list and not the others | `FrameMetas` |
| `nvmmdrawdet`, `nvmmdetlog` | a surface to draw on; none | `transform_ip` | which entries belong to a detection | `FrameMetas`, `Setup` |
| `kalman_box`, kernels, image analytics | floating-point state | functions of one frame | arithmetic | none |
| examples, probes, benchmarks, tools | none | | | none |

### How they interact

A frame travels down a pipeline as a `GstBuffer`; each element attaches metas
or takes them off. Beyond that:

* *Shared memory between processes.* `nvmmsink` writes a surface of its pool
  and publishes the slot in the header; each `nvmmappsrc` maps the same header,
  takes a reference on the slot and gives it back `RELEASE_DELAY` frames later.
  The pool's file descriptors go over a Unix socket once, at start.
* *Upstream events.* `nvmmfusekf` finds the track lost and sends `nvmm-reseed`
  against the stream; `nvmmsamurai` handles it on the sender's thread and acts
  on it when its next frame comes. `nvmm-reset` un-latches `nvmmdetgate` the
  same way.
* *Metas that refer to each other.* The class and motion metas name detections
  by their index in the det meta of the same buffer; whoever changes the one
  changes what the others mean.
* *Surfaces with several holders.* A share of a memory uses its owner's
  surface, and `nvmmofa` holds the buffer of the picture before while
  `nvmmconvert` needs one of the same pool for the next.

`nvmmfusion` sits behind a `tee` whose branches are threads with bounded
queues, so a join that waits can stop the source of what it waits for.

### What makes each part correct

* Transport: a slot is never overwritten while a consumer holds it; the
  counters are the references held; what a consumer delivers is never older
  than what it waited for, nor goes back in time; the producer is not starved.
* Hand-over: no restart or stop loses count of a reference; a consumer whose
  producer went away ends; `start()` returns.
* Interval: never more than `infer-interval - 1` frames are passed by, and only
  while detections flow.
* Parser: the objects are the best of the frame, one of each group of
  duplicates, and the frame says that it was truncated exactly when it was.
* Tracker: ids stay with their object while frames are unambiguous; no track
  dies early.
* Secondary inference: labels are never older than their interval but for
  frames that had no answer, are forgotten only out of sight, and behind the
  tracker never move from one thing to another that kept its distance.
* Gates: no lock without the support it must cost; only the locked detection
  is passed on; a lone moving target is locked on in time.
* Track loop: no outdated or doubled reseed, none starved, inferences not put
  off, the waiting region not overwritten.
* Tracker memory: what is shown to the network are the newest remembered frames
  in order, each in a buffer that still holds it; box and filter have been moved
  by each motion of the camera once.
* Joins: only frames that belong together are joined, none that could be is
  left out, in order, and the pipeline does not lock up.
* Flow: always from the picture before, whose surface was not reused; the
  converter does not wait for a buffer that only it could release.
* Memory: every memory reaches a surface and every surface has a memory,
  whoever is freed first; holders that take turns see what was written last.
* Set-up: a stopped element holds nothing, whichever step failed, and where it does
  leave something, that is all it leaves.
* Metas: an entry is for the detection at its index.

## The modules

| module | models | abstraction |
|---|---|---|
| `SlotPool` | what the pool promises: slots with one writer and counted references | abstract specification |
| `NvmmIpc` | `render`, `create`, `start`, `stop` of the consumers | one action per access of shared memory; a frame is its number, which its PTS and metadata carry too |
| `IpcSession` | starts, stops, crashes and restarts of both sides | taking a frame is one step, publishing two; the time limits are nondeterministic |
| `InferInterval` | the decision in `nvmminfer` which frames are inferred | what is on a frame and whether it fails is the environment's |
| `YoloParser` | `yolo_parse` | spans of one direction for boxes, small integers for scores and coordinates |
| `Tracker` | `Tracker::update` and its element | boxes of one width on a line: IOU becomes overlap |
| `LabelMemory` | a memory of labels with gap counters | abstract specification |
| `SecondaryInfer` | the element and `SecondaryCache` | a frame is a function from ids to what the classifier would say |
| `Pipeline` | `Tracker` with `SecondaryInfer` behind it | what is on a frame is a list of things, each seen once |
| `DetGate` | `DetGate` and the element | detections on a line; that one moved, and where the motion blob is, come with the frame |
| `PersistenceGate` | `PersistenceGate` and `MovingObjectGate` | detections on a line with a support bit |
| `TrackLoop` | `nvmmsamurai`, a queue, `nvmmfusekf` and the reseed event | a box is what it is on and whether it is flat; engines may answer anything or fail |
| `SamuraiMemory` | what `SamuraiTracker` remembers between calls | a memory or a pointer is the number of the call it comes from |
| `SamuraiBox` | the box, the Kalman filter and the camera motion of the same calls | box and filter are the measurements they rest on, each with the picture it was made on and how often every motion has moved it since |
| `Fusion` | `nvmmfusion` between the branches of a tee | a queue of frames is a set of numbers whose head is its least |
| `Compositor` | `nvmmcompositor` on a `GstAggregator` | the frames of a pad are numbered; each has any PTS later than the last one of its pad, or none |
| `FlowPath` | `nvmmconvert` feeding `nvmmofa` feeding a sink | a picture is a number, a buffer an index into the pool |
| `SharedMemory` | allocator, pool, handles, mapping, conversion | whether surface and copy of a plane hold what was written last |
| `Setup` | what eight users of accelerators and the two ends of the transport take and give back | a resource is its name; a step takes a set of them |
| `FrameMetas` | the metas of one buffer through the elements | a detection is a number, a meta the list of those its entries are for |

`X_proofs` holds the theorems about `X`, and `Pipeline_proofs` those about
`SecondaryInfer` and `Tracker` as well; `MCX` the instances for TLC. `MCElements`
composes ten modules that share no state, and `Elements_proofs` has the theorems
about nine of them. `Folding` proves what a fold over a sequence is, for the
loops of the code that the models write as folds.

### NvmmIpc and SlotPool

The producer's program counter (`sinkPc`) follows `render` from the scan for a
free slot (`LockSlot`, `SkipSlot`, `DropFrame`) over the transform, which may
fail, to the unlock, the metadata record and the four stores that publish the
frame. A consumer's (`readerPc`) follows `create`: `Poll` ends the wait,
`LoadIndex` reads `write_idx`, `Acquire` or `Busy` is the CAS, `SwapRing` gives
back the oldest buffer, `ReadTimestamp`, `ReadMeta` and `ReadLast` read what is
in the header by then. `WaitTimeout` and `GiveUp` are its two ways to end the
stream, `Start` and `BeginStop` .. `StopDone` its life.

`NvmmIpc` implements `SlotPool` with `content` the pixels, `writing` the slot
under the writer lock and `refs` the places that refer to a slot, not the
counter itself, so that a counter that went wrong cannot hide in the mapping.

The loop that re-reads `write_idx` when it is out of range has no transition
here: no step stores such an index (`TypeOK`, proved).

### IpcSession

A segment and a pool are called by the producer start that made them; the name
may stay with an old segment after a crash (`Open` finds it, `Reset` clears
it), and a consumer keeps the segment it mapped whatever the name does.
`ServerListen`, `SendFds`, `ClientConnect` and `RecvFds` are the four calls of
`fd_ipc.h`. The counters of a segment whose producer crashed are cleared under
its consumers, so `RefsAccounted` says nothing of it any more (`orphan`).

### InferInterval, Tracker, SecondaryInfer, Pipeline

The first three are sequential; what is hard is the order of steps inside one
frame and what is left over from earlier ones. `SecondaryInfer` assumes of its
input that the ids of a frame are distinct; `Pipeline` gets them from
`Tracker`. `seen_frames` is kept modulo the interval, `acq_run` up to the gate.

`Pipeline` is the product of the two: a frame goes through the tracker and then,
in the same step as in one streaming thread, through the classifier, which may
fail on any of its objects. Objects that the tracker left unnamed do not reach
it: the tracker names all of a frame. A frame passed by `nvmminfer` is one
without detections. The histories say whose detection each one was and whether
the things ever came within reach of where another had just been.

### DetGate, PersistenceGate

`Associate` is one round of the loop over the detections in any order of
confidence. `tracks` holds what survives an update: `src_index` and `matched`
are set anew by each update that reads them, and nothing reads the tracks
while the gate is locked. The condition `lost = 0` in `Confirmable` never
decides anything beyond `age`, `sup` and place, since a missed track keeps its
old values; it is kept because the code has it. A frame brings the whole list of
its det meta; objects below `min-conf` or of another class (`Other`) never reach
`update`, but the index it answers with is one into that list (`Wanted`).
`PassThrough` is the exits before the gate is asked, which leave the list alone
(`emitted = Everything`), `Ungated` those that empty it.

`PersistenceGate` is the library's cousin of it, with a support bit per box in
place of a fitted transform. Each track carries as history what every frame was
for it (`past`), from which `GateEarned` says anew when a lock is due.

### TrackLoop, SamuraiMemory and SamuraiBox

`Track` is `transform_ip` of `nvmmsamurai`: the pending reseed, then the
region, then a detection may seed the tracker, each seed failing early, failing
half-way or succeeding with or without a mask; then nothing, a Kalman step or a
full inference. `Fuse` is `transform_ip` of `nvmmfusekf` with the handler of
the event it sends, which runs in its thread. The queue between them is what
makes `nvmmfusekf` act on outdated boxes.

`SamuraiMemory` is the inside of the same `seed` and `track`: the two actions
that take a frame into the memory (`SeedsGood`, `Remember`), and those that fail
before (`SeedFails`), half-way (`SeedsHalf`), take nothing (`TrackForgets`) or do
not run the network (`TrackLight`). `bufs` are the device buffers, `ringWrite` the
one written next, `ringDev` the list of pointers into them; `MemoriesShown` and
`PointersShown` are what `memory_attention` is given. `remembered`, the frames
remembered since the seed, is history.

`SamuraiBox` is what the same calls do to `last`, `kf` and `gmc_prev`. `ApplyGmc`
comes first in each and ends in one of three ways: no patch of the new picture
(`blind`, nothing changes), a patch and no motion that is large and sure enough
(`still`, only the patch changes), or a motion, by which box and filter are moved
(`moves`). Then the call places the box, keeps it, or puts the filter's own in its
place (`KalmanStep`), and initiates, updates or leaves the filter. Its numbers are
not modelled, nor whose motion the filter predicts; `MotionsApplied` compares how
often every measurement in the two has been moved with what its picture owes it.
The prompt of a seed that finds no mask is the measurement of no picture the
tracker knows (`box = {}`): a box that comes with `nvmm-reseed` is from some frame
further down the stream and is not moved by what the camera did since.

### Fusion and Compositor

`TeePush` pushes a frame to one branch after the other and waits for room,
`Deliver` and `Lose` are the branches, `End`, `DropOlder` and `Fuse` the three
outcomes of `aggregate`. The tee, the queues and the pads are GStreamer's, taken
from how the element uses them.

`Compositor!Round` is one call of `aggregate` with a frame or an end on every
pad, `ShortRound` one that a live pipeline's deadline began; both take the head
of every pad that has one. The transform may fail for any of the frames taken:
their tiles keep what the memory held (0 in `output.tiles`), there is a warning
in the log, and the output is sent with its PTS all the same, even when it failed
for all. A frame's PTS is open within its pad, so the pads may have different
rates, start times and gaps; the output takes the first there is in the order of
the pads (`Clock`).

### FlowPath

`Caps` decides on passthrough and makes the pool from what downstream proposes;
`Convert` takes a buffer that nobody holds; `Compare` computes the flow from the
picture in `prev` and then keeps the new one. What may hold a buffer is the frame
in hand, the picture before and the one a sink still shows. `wrapped` is
history: the picture that the next flow is due to start from.

### SharedMemory

`Alloc`, `Share` and `Unref` are the life of memories; a share keeps its owner
alive. `MapPlane` and `UnmapPlane` are those of the allocator over a handle that
borrows the surface. `surface[o].data` and `.copy` say of each plane whether the
surface and the mapped copy are up to date, `clashed` the surfaces whose holders
did not take turns. The surfaces are those of the driver's stand-in in
`nvbufsurface_mock.h`, with which the repository's tests are built.

### Setup

`Starting` and `AtFrames` list for each `Owner` the steps of start and of the
first frames and what each takes, `Frees` what its stop gives back. `StepFails`
fails with any part of what the step takes. Names are resources too: nvmmsink makes
the segment's name with `shm_open(O_CREAT)` and the socket's path with `bind`, and
takes both away in `stop()` only. A pool is two surfaces, and the descriptors of
the clients that are served, or of the pool that was received, are one resource.

`NothingElseLeft` is exact about the leaks. `Spared` names what an owner may leave
whatever happens, `SinkLeaves` and `AppSrcLeaves` what a start of either end of
the transport leaves at the step at which it fails; `setup.left` is history and
collects these, with the surfaces of a pool that was made anew over them. The
element holds them until a stop or until the next start writes over them
(`broken`). Nothing is in these tables that the code does not leave: TLC finds
the property violated when any one entry is taken out.

### FrameMetas and YoloParser

One buffer passes the elements in any order, each once; an entry is for the
detection it was made for, wherever that is by then. `YoloParser` parses one
tensor; `SetToSeqs` stands for `std::sort`, which leaves equals in any order.

## Runs and bounds

| run | instance | shows |
|---|---|---|
| `ipc` | 2 consumers, pool 2, delay 1, 4 frames | `RefCountsExact`, `WindowStable`, `FreshDelivery`, `SlotAvailable`, `MonotoneDelivery`, `SinkProgress`, `ImplementsPool`, no deadlock |
| `ipc_meta` | 1 consumer, pool 3, delay 2, 3 frames | violates `MetaPinned` |
| `session` | 2 consumers, pool 2, delay 1, 2 starts, frames 0 .. 2, 1 crash of anybody | `RefsAccounted`, `EosOnStop`, `StartEnds` |
| `pipeline` | 3 places, 2 things of one detector class (symmetric), interval 2, max-age 1 in both elements, 3 ids, 4 frames | `AgesOrdered`, `FreshEnough`, `LabelsFollow`, `ImplementsMemory`, `IdentityKept`, `NoEarlyExpiry` |
| `detgate_run` | 3 places, one at the border, 2 objects per frame, one of them a detection, and a blob, amin 2, ksup 1, maxlost 1 | `LockOnTime`, `LockEarned`, `EmitsTheLock` |
| `detgate_nearest` | 4 places, 2 detections per frame | violates `NearestToLock` |
| `trackloop_run` | 2 targets, queue 2, max-kf 1, max-lost 1, cooldown 3 | `RoiIntact`, `CadenceBounded`, `NoStaleReseed`, `LossAnswered` |
| `trackloop_noticed` | the same without a region | violates `LossNoticed` |
| `fusion` | 6 frames, one without PTS, queue 2, pad 2, 2 losses in a row | `JoinComplete`, `FusedExact`, `StreamEnds` |
| `shared_readonly` | 3 memories, 2 planes | violates `SharesReadOnly` |
| `metas_aligned` | 3 objects | violates `EntriesBelong` |
| `elements` | ten modules, below | `SkipsBounded`, `HoldEarned`; `MemoryExact`; `MotionsApplied`; `SurfacesReachable`, `TurnsKeepWrites`; `FlowExact`, `NeverStarved`; `PadsInStep`, `OutputsAdvance`; `NothingElseLeft`; `NoOrphans`; `GateEarned`; `ParsedExact` |

`elements` checks the modules that share no state with another one in one run.
`part` is chosen at the start and never changes; the other modules' variables
stay in an initial state, so the run is the sum of ten state spaces and not
their product. Its instances:

| part | instance |
|---|---|
| `InferInterval` | interval 6, gate 4 |
| `SamuraiMemory` | ring of 2, 3 pointers, 7 calls |
| `SamuraiBox` | 4 calls |
| `SharedMemory` | 3 memories and 2 planes, both symmetric; 2 planes mapped at a time (`FewMapped`) |
| `FlowPath` | 6 pictures; downstream proposes no limit, or min and max of 1 to 8 |
| `Compositor` | 2 pads, 2 frames each with a PTS of 1, 2 or none, 2 queued, 2 rounds begun by the deadline |
| `Setup` | each of 10 owners, 2 starts |
| `FrameMetas` | 2 objects in a meta, 3 in a frame |
| `PersistenceGate` | 3 points, distance 2, min-age 3, min-support 2, max-lost 1, 2 boxes, 4 frames |
| `YoloParser` | 3 proposals of 3 spans, 2 classes, 3 scores; 2 objects |

Why these bounds are enough:

* *Transport.* The code's pool is 13 to 16 slots and its delay 12, so it covers
  the window of one consumer and not of two; so does the instance (2 and 1).
  Two consumers can therefore hold every slot and frames are dropped;
  `SlotAvailable` and `SinkProgress` speak of the states in which the pool
  covers the consumers that keep a buffer (`PoolCoversReaders`), which come and
  go. Four frames let the producer go round the pool twice while a consumer stays
  in the middle of `create`. The exact counters, the exclusion, the delivery and
  the availability of a slot are proved for every size.
* *Session.* Two starts make one predecessor and one successor; a second crash
  adds no situation that two actors at different segments do not have already.
* *Interval.* A gate that is neither 0 nor a multiple of the interval.
* *Pipeline, gates.* Places are enough for tracks that overlap, touch and do not
  meet; two detections (or a detection and a blob) are what it takes to compete
  for a track. Four frames go once past interval and age after a gap. Support
  stops counting above ksup, ages at amin.
* *Track loop.* A queue of two has a frame that is old and one that is not. The
  cooldown is the shortest for which the properties hold: `NoStaleReseed` needs
  `Cooldown >= QueueSize`, `CadenceBounded` needs `Cooldown >= QueueSize +
  MaxKf`; with these assumptions both are proved for every size. A `queue`
  element of default size (200 buffers) with the default cooldown of 15 frames
  is outside that range.
* *Tracker memory.* A ring of two with seven calls is written round three times,
  and once again after a reseed; the proof is for every ring and any number of
  calls. For the box, four calls are a measurement, a picture that is not seen,
  one whose motion is not applied and one whose motion is, in any order.
* *Join.* `StreamEnds` needs `MaxLost < QueueSize + PadSize`; a frame without
  PTS that is paired with another counts as one more lost, and the instance is
  exactly at that limit.
* *Compositor.* Two pads are what being in step is about; with two frames one
  lags by one, and the times of one pad are ahead of the other's, behind, the
  same or missing.
* *Memory.* An owner with two shares, or two owners and a share, and a plane
  besides the one that is mapped.
* *Flow.* The most buffers held at once are three (in hand, before, shown); the
  proposals lie on both sides of that. Six pictures use every buffer again.
* *Set-up.* The second start is the one that finds what the first left.
* *Metas, parser.* One object more than there is room for.

`CHECK_DEADLOCK FALSE` stands where the system stops: `session` has no more
starts and crashes to take after the last ones; `fusion` ends with its
stream; the buffer of `metas_aligned` has passed every element; the parts of
`elements` end at their bounds. Elsewhere deadlock is checked.

## Fairness

* `NvmmIpc!FairSpec`: weak fairness of the producer's steps (upstream keeps
  pushing), strong fairness of the transform succeeding (it does not fail for
  ever), weak fairness of a `create` that saw a frame and of a `stop` that
  began. No consumer is obliged to start, to ask for a buffer, to time out or
  to stop.
* `IpcSession!FairSpec`: the producer's accept thread runs, and so do a consumer's
  streaming thread and its timeouts (five seconds for the header, two for a
  frame). Nothing obliges anybody to start, stop or crash, and nothing brings caps
  to the producer: that is upstream's affair, and `StartEnds` says what becomes of
  a consumer when they never come.
* `Fusion!FairSpec`: the tee, each branch and the aggregator are threads that
  run when they can. Nothing forces a loss.
* `TrackLoop!LossAnswered` assumes in its own formula what it needs: that frames
  with a detection keep reaching `nvmmfusekf`.

## Proofs

| theorem | for every |
|---|---|
| `NvmmIpc_proofs!TypeCorrect`, `RefCountsAreExact`, `WriterIsExclusive`, `WindowIsStable` | pool, delay, finite set of consumers, number of frames |
| `NvmmIpc_proofs!SlotIsAvailable` | the same: more than delay slots per consumer that keeps a buffer always leave one |
| `NvmmIpc_proofs!NvmmIpcImplementsPool` | the same: `NvmmIpc` implements `SlotPool` |
| `NvmmIpc_proofs!DeliveryIsFresh`, `DeliveryIsMonotone` | the same: nothing older than what was waited for, but for what a failed transform spoilt; nothing back in time |
| `IpcSession_proofs!TypeCorrect`, `CountersAreExact`, `WriterIsAlone` | pool, delay, finite set of consumers, number of starts, frames and crashes, whoever may crash |
| `IpcSession_proofs!RecvReturns`, `NothingNewWithoutName` | the same: who waits has a producer that is up, with a pool to send or no caps yet; a segment without a name runs dry |
| `Pipeline_proofs!Safety`, `AnswersAreFresh`, `Implements` | ids, classes, interval, age: the cache's ordering and staleness bounds, and that it implements `LabelMemory` |
| `Pipeline_proofs!IdentityIsKept`, `IdsAreDistinct`, `TracksOutlive` | places, detector classes, width, threshold, max-age, objects in a frame |
| `Pipeline_proofs!PipelineRefines`, `LabelsStay` | the same, with any finite number of things, interval and max-track-age |
| `Fusion_proofs!TypeCorrect`, `JoinCorrect`, `FusedRight`, `WorkRunsOut` | stream, queues, pads and losses |
| `Fusion_proofs!StreamNeverStuck` | streams with PTS, `MaxLost < QueueSize + PadSize` |
| `TrackLoop_proofs!TypeCorrect`, `RoiSafe`, `CooldownRunsOut` | settings and targets |
| `TrackLoop_proofs!ReseedsFresh` | settings with `Cooldown >= QueueSize` |
| `TrackLoop_proofs!CadenceKept` | settings with `Cooldown >= QueueSize + MaxKf` |
| `DetGate_proofs!TypeCorrect`, `TargetIsLockedOn`, `LocksAreEarned`, `OnlyTheLockIsEmitted` | settings, places and detections in a frame |
| `Elements_proofs!IntervalTypeCorrect`, `SkipsAreBounded`, `HoldIsEarned` | interval and gate |
| `Elements_proofs!MetasFollow` | objects of a frame and room in a meta |
| `Elements_proofs!FlowFromPrevious`, `ConverterNeverStarves` | pool that downstream may propose, number of pictures |
| `Elements_proofs!MemoriesReachSurfaces`, `TakingTurnsIsSafe` | memories and planes |
| `Elements_proofs!TilesInStep`, `OutputsGoForward` | pads, frames, queues and rounds begun by the deadline |
| `Elements_proofs!MemoryTypeCorrect`, `MemoryIsExact` | ring, number of pointers, number of calls |
| `Elements_proofs!MotionsAreApplied` | number of calls |
| `Elements_proofs!ParseIsExact` | tensor, thresholds and room for objects |
| `Elements_proofs!GateLocksAreEarned` | settings, points and detections in a frame |
| `Elements_proofs!NothingElseIsLeft` | number of starts, wherever they fail |

The assumptions are those on the constants (`...Assumption`), which TLC
evaluates on every run, and for `ReseedsFresh`, `CadenceKept` and
`StreamNeverStuck` the ones named in the statement. Every safety invariant and action property of a run is stated
by one of the theorems.

### The transport

* *Counters.* `RefCountsExact` alone is not inductive: the CAS of the producer
  needs that a counter of 0 means nobody holds the slot, and the increment of a
  consumer that the slot is not locked. `IInv` joins it with `WriterExclusive`
  and the types, among them that the producer's target is a slot whenever its
  program counter says so (`SinkOK`). The step that takes work is `SwapRing`:
  it moves the reference from the place outside the ring into it while another
  leaves, so `Holds(new)` stays in number and `Holds(old)` loses one
  (`SwapHolds`).
* *Window.* A ring entry is a reference, so by `WriterExclusive` its slot is not
  written, so its pixels stay.
* *Availability.* With nobody in the middle of a swap, the references are the
  image of the ring places of the consumers that keep a buffer; if every slot
  had one, there would be at least as many places as slots.
* *Refinement.* Each action maps to `Lock`, `Write`, `Unlock`, `Hold`, `Drop` or
  a stutter; `Holds` being counted, not stored, is what the lemmas of the first
  argument are for.
* *Delivery.* A slot that holds nothing older than frame n (`UpToDate`) stays
  so, for the producer only writes newer frames. The index is stored before the
  number that ends a wait, so what a consumer loads after it is a slot with
  nothing older. For the order, what a consumer delivers is at most one frame
  ahead of the header, so the number it waits for next is of a newer one. What a
  failed transform spoilt is the exception the property names. No picture is
  caught in the making: pixels are so only in the slot that is being transformed,
  which by `WriterExclusive` nobody holds, and what `create` works on is held
  (`HeldInv`).
* *Restarts.* `RefsAccounted` is not inductive: what the counter of a slot is
  once it was written depends on nobody holding it (`WrittenFree`), and what it
  is once a producer clears it on nobody holding any. A producer finds a segment
  under its name only after a crash, which excuses the segment, or when another
  start failed before it stored its socket path in the header, and then no
  consumer has got past waiting for that path (`ProducerInv`, `ConsumerInv`).
* *Waiting.* Only the producer that is up has a socket, and it is its last start's
  (`ListenerUp`). A consumer that is not hung up on is connected to that one, which
  has a pool to send, so that `Serve` can run, or no caps yet (`AwaitsCaps`), and
  then nothing but `SetCaps`, a stop or a crash ends the wait. What was made and
  has lost its name is not found by a producer again, so its header stays as it is
  and only one number in it can be new to a consumer (`NamelessKept`).

### Identities and labels

* *Association.* A frame is a fold over its detections. `Working` says of the
  tracks after the first `i` of them: the old tracks come first and are as they
  were until one is taken, those made since are matched and have ids from
  `next_id_` on, each of the `i` detections has the one matched track that is
  now where it is, and none with `OnlyMatch` went elsewhere. For the last:
  an old track that only this detection overlaps was not taken before, since
  whoever takes a track overlaps it, so it is the one candidate.
* *Age.* The age of a track never exceeds the number of frames it was unseen,
  which also counts those the tracker is not told of (`TrackerInv`).
* *Cache.* The conjunction of the invariants is inductive as it stands. For the
  refinement of `LabelMemory`, `gap` is `frameNo - 1 - seen`, and `expire` at
  the head of a frame is `Forgotten`.
* *Pipeline.* A step of the pipeline is a step of each element, so what is
  proved of the classifier holds behind the tracker. `LabelsFollow` says only
  what is on one frame; `Kin` is what makes it inductive: where the track of a
  kept label stands, the thing of that label was seen, in a frame that the trail
  still has because it is not older than the cache's `last_seen`. A detection
  that continues the track overlaps that place, so it is of the same thing as
  long as things keep their distance, and no id that a label is kept under is
  given out again (`i < nextId`).
* *Decimation.* `SkipsBounded` is not inductive, for it does not say where the
  interval is: `PhaseBound` bounds the skipped frames by `seen_frames`, which
  stands still, and so skips nothing, while the gate is shut. `HoldEarned`
  needs `RunRecorded`, that `acq_run` counts detections at the end of the
  history, across failures and restarts.
* *Parser.* `LoopInv` of the suppression loop: what is removed are the duplicates
  of a better candidate that was kept, each candidate looked at so far is kept or
  removed unless there was no room, and `over` says that this happened.

### Gates and the reseed loop

* *`nvmmdetgate`.* An update is a fold over its detections too, and another over
  the tracks that are left. `LockOnTime` needs `TargetTracked`: the first track
  at the place of a lone target has all the age and support the target can have
  given it; whichever track a detection takes, it is one within reach, and of
  those at the target's place the first. `LockEarned` needs `TracksEarned`: no
  age and no support exceeds the updates that could have given it.
  `EmitsTheLock` follows the index from the object that was matched last to
  the track and from the track to the lock.
* *The library's gate.* Age, support and misses of every track are what its
  history says, in the middle of an update too: there each track is one of the
  old ones, followed by this frame's detection or aged, or a new one. So the
  locks that the code takes are those that the history has earned.
* *Region.* While the region waits nothing the tracker pushed counts as a
  measurement, so `nvmmfusekf` has never had a track, and without one it sends no
  event (`NothingSeen`).
* *Reseeds.* `Outlasted`: the cooldown is longer than the place in the queue of
  every frame tracked before the last reseed was taken up, so it has not run out
  when such a frame is looked at, and no event is sent because of it.
  `OneReseedAhead`: a reseed sets `kf_count` to zero, and as long as the steps
  before it are not made up for by an inference, what is left of the cooldown
  outlasts the frames on their way and the steps still to come; so between two
  inferences there is one reseed at most.
* *Cooldown.* A frame with a detection that does not end the loss either sends the
  event or is one for which the cooldown has not run out, and counts it down.
* *Tracker memory.* `RingContents` says where the frame at each place of the list
  lies: `SlotOf` counts back from the buffer written next, round the ring. The
  list is as long as the ring at most, so no two of its entries share a buffer,
  and when it is full the one written next is that of the oldest entry, which
  leaves the list in the same step.
* *Camera motion.* `Settled` adds to `MotionsApplied` that a measurement on a
  picture that was seen is not newer than the patch; so the motions of the next
  comparison, all newer, are owed to every such measurement and had by none.

### Joins, frames and surfaces

* *Join.* `JoinComplete` needs `Order`: what was delivered to a pad lies behind
  what is queued, what was taken behind what was not, and everything behind the
  tee. Then the older of two unequal heads cannot be delivered at the other pad
  any more unless it was already, and dropping it loses nothing.
* *End of the stream.* Nobody can run only if the join waits for a pad that is
  empty while tee and branch wait for the other, both full (`NeverStuck`). With
  PTS the join takes the older head first, so the frames that wait in the full
  branch are newer than any it took from the empty one (`TakenBefore`). The tee
  has pushed them all there too: that branch has lost them in a row, which is
  counted exactly (`GoneCounted`), and they are as many as both queues hold.
  `WorkLeft` weighs what is to be pushed, queued and on the pads, and the ends
  still to come; every step makes it smaller.
* *Compositor.* `RoundsInv`: no pad has taken more frames than there were rounds,
  and one that may still send has taken fewer by no more than rounds were begun
  without it. The frames queued on a pad are numbered without a gap and their
  times grow (`QueuesInOrder`, `TimesInOrder`), so what the next round draws of a
  pad bears the round's number, and a pad that gives the PTS twice gives a later one.
* *Flow.* The buffer before is held, so the converter does not write it
  (`PrevUnmodified`); what is held at once are the picture in hand, the one
  before and the one shown, and every way `decide_allocation` may go makes the
  pool as large (`PoolSuffices`).
* *Surfaces.* A share keeps its owner alive (`OwnersOwn`, `MappedHeld`). For
  turns, `Turns` says of a surface whose holders took turns that at most one
  handle has it mapped, that a plane nobody mapped is up to date, and that one
  that is mapped has a copy that is.
* *Metas.* The entries of both metas follow the list of detections through every
  element that changes it, or are gone with it.
* *Starts and stops.* The steps of an element's start have no resource in common
  with one another, and what its clean-up frees or may spare is all of them
  together. So what is held after any steps are those that were made, in order
  (`HeldInOrder`, `StepsLeft`), and a clean-up leaves only what it may spare. At
  the ends of the transport what is held where a start fails, less what that
  failure frees, is what the tables name for that step (`Excused`).

### Induction

The library's induction theorems take an operator as a parameter, which these
provers cannot instantiate. `Folding` therefore proves induction over numbers for
a set (`Climb`, from the least element outside it), that the recursive function
inside `FoldLeft` exists, and that the fold is the end of a run of its operator
(`FoldRuns`); an `INSTANCE` of it says so of the operators of a model.

Only model-checked: what holds under fairness (`SinkProgress`, `EosOnStop`,
`StartEnds`, `StreamEnds`, `LossAnswered`), because liveness and `ENABLED` are
beyond the prover. The safety half of each is proved: for `SinkProgress` that a
slot is left (`SlotIsAvailable`), for `EosOnStop` that nothing new comes
(`NothingNewWithoutName`), for `StartEnds` that who waits has a
producer that is up, with a pool to send or no caps yet (`RecvReturns`), for `StreamEnds` that somebody can run and that steps run out
(`StreamNeverStuck`, `WorkRunsOut`), for `LossAnswered` that the cooldown runs out
(`CooldownRunsOut`). What TLC adds is that the fairness makes these steps happen.

## What the models show of the code

Five statements of the repository that its code does not keep are runs of
their own (`PROJECT.json`, findings):

* `MetaPinned`: the sink unlocks a slot before it writes the slot's metadata
  record (`gstnvmmsink.cpp:458`, `466`), so a consumer can copy a record that is
  being written. `docs/metadata-ipc.md:37` promises otherwise.
* `NearestToLock`: the scan of a locked gate measures each detection from the
  previous candidate, not from the lock (`detgate.hpp:157-160`), so the one it
  passes on depends on list order. `persistence_gate.hpp` scans the same way.
* `LossNoticed`: a tracker that finds no mask shows its last box again as valid
  (`samurai_tracker.cpp:466`), and `nvmmfusekf` counts it as a measurement; a
  target that is gone is never lost.
* `SharesReadOnly`: a share can be mapped for writing like its owner
  (`gstnvmmallocator.cpp:108`), though line 53 of that file calls it read-only.
* `EntriesBelong`: `nvmmdetgate` moves the detection it keeps to index 0 and
  leaves the class and motion entries where they are
  (`gstnvmmdetgate.cpp:167`), so entry 0 is then that of another.

Other behaviours that a reader of the documents may not expect. The transport
and its hand-over:

* Two steady consumers of a pool of `RELEASE_DELAY + 1` slots can hold all of
  them between them; the producer then drops every frame while both wait for
  the next. `SlotAvailable` gives the size that excludes it.
* A transform that fails after it began to write leaves the slot with neither the
  old picture nor the new one, and unlocks it (`gstnvmmsink.cpp:454`). If
  `write_idx` names that slot, or a consumer had read it out of `write_idx` and
  not yet acquired it, spoilt pixels are delivered, with the PTS and metadata of
  another frame, and nothing tells the consumer.
  `FreshDelivery` says that this is the only way to be handed anything but a whole
  frame as new as was waited for; it does not say that it cannot happen.
* Across `start()` of a consumer, frame number 0 does not end the wait, so the
  first frame of a stream is delivered only if another follows before the
  timeout. The PTS of a delivered buffer is that of the newest frame, not
  necessarily of its pixels.
* A producer that crashed clears, when it returns, the counters of a segment
  its consumers still hold slots in; a slot given back then goes to -1, which
  reads as locked. A consumer that connects across a restart plays the old
  header on the new pool until its stream ends. The slots of a crashed consumer
  stay referenced until the producer starts anew.
* `start()` of a consumer can wait for ever. It goes on from a header with a path
  in it; when that header is of a producer that is gone and a successor listens
  under the same path, it connects to the successor and waits for the pool in a
  `recv` without a timeout (`gstnvmmappsrc.cpp:246`), and a successor that is up
  and never gets caps sends none. `StartEnds` names this as the only exception;
  TLC finds the behaviour when it is left out of the property.
* A `start()` of `nvmmappsrc` that fails after the segment is mapped (no producer
  within five seconds, a wrong version, a refused connection, a surface that
  cannot be imported) leaves mapping and descriptor in members that the next
  `start()` overwrites, so an application that tries until the producer is there
  loses one mapping each time; when a surface cannot be imported the socket and
  the surfaces before it go the same way. The descriptors received with the pool
  are in no member, and `stop()` destroys the surfaces and closes none of them
  (whether the driver takes them over is outside the repository).
* A `start()` of `nvmmsink` that fails leaves the name of the segment behind from
  `shm_open` on, and when it cannot listen, mapping and descriptor, which the next
  start overwrites; only `stop()` takes the name away, after a start that worked.
  The surfaces of a pool that failed half-way are lost when caps come again. The
  model takes it that `shm-name` is not set between a start and its stop, which
  takes away the name that is set then.

Detection, tracking and labels:

* `nvmmtracker` is not told of frames without detections, so a track outlives
  any number of them and may be continued by another thing that turns up there.
  No label goes over with it (`LabelsFollow`), because the cache of
  `nvmmsecondaryinfer` counts every frame and has forgotten it.
* `nvmmsecondaryinfer` expires before it looks up: a track that was away for
  exactly max-track-age frames comes back without its label, while
  `nvmmtracker` still knows it.
* `acq_run` survives a restart of `nvmminfer`, so a new stream may be decimated
  before anything has been detected on it.
* `nvmmdetgate`: supported frames need not follow each other, `motion-silent`
  counts all frames and not the silent ones, and a motion seed confirmed in a
  buffer without a det meta is passed on in no buffer. "Emits no dets until a
  target is confirmed" (`gstnvmmdetgate.cpp:80`) holds of the frames it looks at:
  while it is disabled, a buffer has no surface, `engine-dir` is not set or the
  matcher cannot be set up, all detections pass, lock or no lock.
* `persistence_gate.hpp`: a frame that misses a track does not reset its
  support, so "consecutive" supported frames may have gaps, and min-support is
  reached together with min-age and not after it.
* A reseed without a mask leaves the Kalman filter on the old target, and a
  Kalman step in the same frame moves the box back there.
* The camera-motion shift: one below the smallest shift is discarded with its
  patch replaced, so a slow pan is never compensated (`forgone` in `SamuraiBox`,
  which `MotionsApplied` excepts); a picture that no patch could be taken of leaves
  the older patch, and a box placed on that picture is then moved by the motion
  before it as well (`unseen`, excepted too).
  `gmc_backend.hpp:19-21` lets auto end at ncc and no request degrade to another
  algorithm; auto never reaches ncc, and pva degrades to fft-cpu.
* A seed whose memory encoder fails has replaced box and pointer already, while
  the memory is still the old target's.

Memory, flow and composition:

* Share and owner are mapped through one surface: the unmap of one is the unmap
  of both, and a handle that mapped two planes unmaps only the last. A plane
  that the surface does not have can be mapped "successfully".
* The pool of `nvmmconvert` turns a maximum of 0 into 8 even when the minimum
  is larger. Passthrough is fixed when caps are set: a crop or flip set
  later waits for the next caps, and the properties of a crop are read one by one.
* `nvmmcompositor`: the PTS of the outputs can go back or come twice when another
  pad begins to give it, because the first has ended or its frame has no surface
  or no PTS, and after a round begun by the deadline. A frame without a surface is
  dropped without a word; a failed transform leaves its tile unwritten with a
  warning, and the output is sent even if all failed; each round drops the head of
  every pad whatever its PTS, so pads of different rates drift apart.
* Leaks of the accelerators' users that `Setup` spares: the events of `nvmminfer`
  when its engine does not load or measuring is switched off, and the outputs of
  the encoder of `nvmmsamurai` when binding fails (`samurai_tracker.cpp:640`).
* `Preprocessor::configured()` asks for the first of its buffers only, so a
  `configure` that failed half-way counts as done. `nvmmdrawdet` and the
  letterbox of `nvmminfer` keep the size of the first caps.

## Not modelled

* Memory is sequentially consistent; the header's plain stores on ARM are not
  (`gstnvmmsink.cpp:459` to `478` have barriers around the group only).
* Data races inside one process (an event handler against `transform_ip`, the
  accept thread's flag) are taken between frames.
* In `IpcSession` a start of the transport fails as a whole (`ListenFails`,
  `Fails`); the single calls in it are steps of `Setup`, where no other process is.
* Properties are constants, but for those of `nvmmconvert` and the measuring of
  `nvmminfer`: no other setting changes while frames flow.
* The real driver: mapping in `SharedMemory` is that of the repository's
  stand-in, which copies a plane; on hardware a mapping shows the surface.
* Pixels, floating-point geometry, networks and Kalman arithmetic are the
  environment's choice. So `kalman_box`, the image analytics, the kernels, and
  the fused box of `nvmmfusekf` have no model: a finite one could only repeat
  their expressions.
* Programs around the elements (examples, probes, benchmarks, tools): nothing
  runs over several steps there that the elements do not do.

## Plan

Done, in this order: the transport with its abstract pool and proofs; the
tracking and labelling elements; the join; the gate and the reseed loop; the
life of a transport; the memory of `nvmmsamurai` with its proof; tracker and
classifier composed; memory, flow, composition, set-up, metas, the library's
gate and the parser; the proofs of delivery and of the reseed loop, of the
counters across restarts, of both gates and the parser, of memory, flow,
composition and metas, and of the tracker with the classifier behind it. Left,
by importance:

1. Proof: the hand-over of the transport as a refinement, with the segment and
   pool of each consumer in place of the messages.
2. An event that arrives while `nvmmsamurai` or `nvmmdetgate` is in the middle
   of a frame, as interleaved reads and writes of `reseed_box`.
3. The order of the header's plain stores under a weak memory model.
4. The fused box of `nvmmfusekf` over integers, if its gate for detections ever
   takes more state than it has.
