----------------------------- MODULE IpcSession -----------------------------
(***************************************************************************)
(* The life of a frame transport: a producer and its consumers start, find *)
(* each other by the name of a shared segment and the socket path written  *)
(* in it, stop, crash and start again (gst/nvmmsink/gstnvmmsink.cpp,       *)
(* gst/nvmmappsrc/gstnvmmappsrc.cpp, gst/common/fd_ipc.h).                 *)
(*                                                                         *)
(* The producer's starts are numbered.  A segment and a pool are called by *)
(* the start that made them; a segment outlives its name, and its name a   *)
(* producer that crashed.  Module NvmmIpc has the steps of a frame one by  *)
(* one; here taking a frame is one step and publishing one is two.         *)
(***************************************************************************)
EXTENDS Integers, Sequences, FiniteSets

CONSTANTS
  Consumers,
  PoolSize,      (* pool-size.                                             *)
  ReleaseDelay,  (* RELEASE_DELAY.                                         *)
  Crashing,      (* Who may crash: a subset of Consumers and {Producer}.   *)
  Producer,
  MaxStarts,     (* Bound: starts of the producer, ...                     *)
  MaxFrames,     (* ... frames it publishes in each, ...                   *)
  MaxCrashes     (* ... and crashes.                                       *)

ASSUME IpcSessionAssumption ==
  /\ PoolSize \in Nat \ {0} /\ ReleaseDelay \in Nat \ {0}
  /\ IsFiniteSet(Consumers)
  /\ Producer \notin Consumers /\ Crashing \subseteq Consumers \union {Producer}
  /\ MaxStarts \in Nat /\ MaxFrames \in Nat /\ MaxCrashes \in Nat

Slots == 0 .. PoolSize - 1
NoSlot == -1
Starts == 1 .. MaxStarts
None == 0                      (* No start: no segment, socket or pool.    *)

VARIABLES
  named,     (* The segment that has the name, or None.                    *)
  segment,   (* The segments.                                              *)
  socket,    (* The start whose socket is bound at the path and listens.   *)
  phase,     (* How far the producer has come, ...                         *)
  start,     (* ... its last start, ...                                    *)
  mapped,    (* ... the segment it has mapped, ...                         *)
  pooled,    (* ... pool_allocated, ...                                    *)
  locked,    (* ... and the slot it writes to.                             *)
  consumer,  (* The consumers.                                             *)
  crashes    (* History: the crashes so far.                               *)

producerVars == <<phase, start, mapped, pooled, locked>>
vars == <<named, segment, socket, producerVars, consumer, crashes>>

(* A segment: its size is set, magic and socket_path are, the header of    *)
(* the last frame; history: its producer crashed, and the references that  *)
(* consumers left in it when they crashed.                                 *)
Segment ==
  [sized : BOOLEAN, magic : BOOLEAN, path : BOOLEAN, ready : BOOLEAN,
   writeIdx : Slots, frame : 0 .. MaxFrames, refs : [Slots -> Int],
   orphan : BOOLEAN, leaked : [Slots -> Nat]]

(* A consumer: its mapping, the producer it is connected to, the pool that *)
(* is on its way or imported, the slots it holds, last_frame_number.       *)
Consumer ==
  [phase : {"idle", "waiting", "receiving", "running", "ended"},
   seg : Starts \union {None}, server : Starts \union {None},
   pool : Starts \union {None}, holds : Seq(Slots), last : 0 .. MaxFrames]

TypeOK ==
  /\ named \in Starts \union {None}
  /\ segment \in [Starts -> Segment]
  /\ socket \in Starts \union {None}
  /\ phase \in {"down", "opened", "reset", "up", "closing"}
  /\ start \in 0 .. MaxStarts
  /\ mapped \in Starts \union {None}
  /\ pooled \in BOOLEAN
  /\ locked \in Slots \union {NoSlot}
  /\ consumer \in [Consumers -> Consumer]
  /\ \A c \in Consumers : Len(consumer[c].holds) <= ReleaseDelay
  /\ crashes \in 0 .. MaxCrashes

NoRefs == [s \in Slots |-> 0]
Fresh == [sized |-> FALSE, magic |-> FALSE, path |-> FALSE, ready |-> FALSE,
          writeIdx |-> 0, frame |-> 0, refs |-> NoRefs,
          orphan |-> FALSE, leaked |-> NoRefs]
Idle == [phase |-> "idle", seg |-> None, server |-> None, pool |-> None,
         holds |-> <<>>, last |-> 0]

Init ==
  /\ named = None
  /\ segment = [g \in Starts |-> Fresh]
  /\ socket = None
  /\ phase = "down" /\ start = 0 /\ mapped = None /\ pooled = FALSE
  /\ locked = NoSlot
  /\ consumer = [c \in Consumers |-> Idle]
  /\ crashes = 0

-----------------------------------------------------------------------------
(* The producer.                                                           *)

(* shm_open with O_CREAT: the segment that has the name, or a new one.     *)
Open ==
  /\ phase = "down" /\ start < MaxStarts
  /\ start' = start + 1
  /\ named' = IF named = None THEN start' ELSE named
  /\ mapped' = named'
  /\ phase' = "opened"
  /\ UNCHANGED <<segment, socket, pooled, locked, consumer, crashes>>

(* ftruncate, and the header cleared and begun.                            *)
Reset ==
  /\ phase = "opened"
  /\ segment' = [segment EXCEPT ![mapped] =
       [Fresh EXCEPT !.sized = TRUE, !.magic = TRUE, !.orphan = segment[mapped].orphan]]
  /\ phase' = "reset"
  /\ UNCHANGED <<named, socket, start, mapped, pooled, locked, consumer, crashes>>

(* nvmm_server_listen: what was bound at the path is unlinked.             *)
ServerListen == socket' = start

Listen ==
  /\ phase = "reset"
  /\ ServerListen
  /\ phase' = "up"
  /\ UNCHANGED <<named, segment, start, mapped, pooled, locked, consumer, crashes>>

(* start() fails, and leaves the segment, its name and the mapping.        *)
ListenFails ==
  /\ phase = "reset"
  /\ phase' = "down" /\ mapped' = None
  /\ UNCHANGED <<named, segment, socket, start, pooled, locked, consumer, crashes>>

(* set_caps for the first time.                                            *)
SetCaps ==
  /\ phase = "up" /\ ~pooled
  /\ pooled' = TRUE
  /\ segment' = [segment EXCEPT ![mapped].path = TRUE]
  /\ UNCHANGED <<named, socket, phase, start, mapped, locked, consumer, crashes>>

(* nvmm_send_fds: the pool is on its way on the consumer's connection.     *)
SendFds(c) == consumer' = [consumer EXCEPT ![c].pool = start]

(* accept_loop: a consumer that is connected is sent the pool.             *)
Serve(c) ==
  /\ phase = "up" /\ pooled
  /\ consumer[c].phase = "receiving"
  /\ consumer[c].server = start /\ consumer[c].pool = None
  /\ SendFds(c)
  /\ UNCHANGED <<named, segment, socket, producerVars, crashes>>

(* render: the first free slot of the scan is locked, ...                  *)
Free(slot) == segment[mapped].refs[slot] = 0
Nth(n) == (1 + n) % PoolSize

(* Frames are counted within a start.                                      *)
FrameNo == IF segment[mapped].ready THEN segment[mapped].frame + 1 ELSE 0

Lock ==
  /\ phase = "up" /\ pooled /\ locked = NoSlot /\ FrameNo <= MaxFrames
  /\ \E n \in Slots :
       /\ Free(Nth(n)) /\ \A m \in 0 .. n - 1 : ~Free(Nth(m))
       /\ locked' = Nth(n)
       /\ segment' = [segment EXCEPT ![mapped].refs[Nth(n)] = -1]
  /\ UNCHANGED <<named, socket, phase, start, mapped, pooled, consumer, crashes>>

(* ... filled, unlocked and published.                                     *)
Publish ==
  /\ phase = "up" /\ locked # NoSlot
  /\ segment' = [segment EXCEPT ![mapped] =
       [@ EXCEPT !.refs[locked] = 0, !.writeIdx = locked, !.frame = FrameNo,
                 !.ready = TRUE]]
  /\ locked' = NoSlot
  /\ UNCHANGED <<named, socket, phase, start, mapped, pooled, consumer, crashes>>

(* Mutant: the sockets are forgotten and not closed.                       *)
CloseNothing ==
  /\ phase = "up" /\ locked = NoSlot
  /\ phase' = "closing"
  /\ UNCHANGED <<named, segment, socket, start, mapped, pooled, locked, consumer, crashes>>

(* stop(): the accept thread is joined, the sockets are closed, ...        *)
CloseSockets ==
  /\ phase = "up" /\ locked = NoSlot
  /\ socket' = None
  /\ phase' = "closing"
  /\ UNCHANGED <<named, segment, start, mapped, pooled, locked, consumer, crashes>>

(* ... the pool is destroyed and the segment unmapped and unlinked.        *)
Unlink ==
  /\ phase = "closing"
  /\ named' = None
  /\ phase' = "down" /\ mapped' = None /\ pooled' = FALSE
  /\ UNCHANGED <<segment, socket, start, locked, consumer, crashes>>

Crash ==
  /\ Producer \in Crashing /\ phase # "down" /\ crashes < MaxCrashes
  /\ crashes' = crashes + 1
  /\ segment' = [segment EXCEPT ![mapped].orphan = TRUE]
  /\ socket' = None
  /\ phase' = "down" /\ mapped' = None /\ pooled' = FALSE /\ locked' = NoSlot
  /\ UNCHANGED <<named, start, consumer>>

-----------------------------------------------------------------------------
(* A consumer.  Fails: start() returns FALSE.                              *)
Become(c, next) == consumer' = [consumer EXCEPT ![c] = next]
Fails(c) == Become(c, Idle)
External == UNCHANGED <<named, socket, producerVars, crashes>>

(* shm_open, fstat and mmap.                                               *)
Attach(c) ==
  /\ consumer[c].phase = "idle"
  /\ named # None /\ segment[named].sized
  /\ Become(c, [Idle EXCEPT !.phase = "waiting", !.seg = named])
  /\ UNCHANGED segment /\ External

(* The header is complete: the consumer connects to the path in it.        *)
Complete(g) == segment[g].magic /\ segment[g].path

(* nvmm_client_connect: the connection is to whoever listens, if anybody.  *)
ClientConnect(c) ==
  IF socket = None THEN Fails(c)
  ELSE Become(c, [consumer[c] EXCEPT !.phase = "receiving", !.server = socket])

Connect(c) ==
  /\ consumer[c].phase = "waiting" /\ Complete(consumer[c].seg)
  /\ ClientConnect(c)
  /\ UNCHANGED segment /\ External

(* ... or it is not for five seconds.                                      *)
ConnectTimeout(c) ==
  /\ consumer[c].phase = "waiting" /\ ~Complete(consumer[c].seg)
  /\ Fails(c)
  /\ UNCHANGED segment /\ External

(* nvmm_recv_fds: the pool, or nothing on a connection that was closed.    *)
RecvFds(c) == consumer[c].pool

Receive(c) ==
  /\ consumer[c].phase = "receiving" /\ RecvFds(c) # None
  /\ Become(c, [consumer[c] EXCEPT !.phase = "running", !.last = 0])
  /\ UNCHANGED segment /\ External

(* The connection was closed before the pool was sent.                     *)
Hangup(c) ==
  /\ consumer[c].phase = "receiving" /\ RecvFds(c) = None
  /\ socket # consumer[c].server
  /\ Fails(c)
  /\ UNCHANGED segment /\ External

NewFrame(c) ==
  /\ segment[consumer[c].seg].ready
  /\ segment[consumer[c].seg].frame # consumer[c].last

(* create(): a reference is taken on the newest slot and the one taken     *)
(* ReleaseDelay frames ago is given back.                                  *)
Times(slot, holds) == Cardinality({i \in DOMAIN holds : holds[i] = slot})
Plus(refs, holds) == [s \in Slots |-> refs[s] + Times(s, holds)]
Minus(refs, holds) == [s \in Slots |-> refs[s] - Times(s, holds)]

Take(c) ==
  LET seg == segment[consumer[c].seg]
      slot == seg.writeIdx
      full == Len(consumer[c].holds) = ReleaseDelay
      oldest == IF full THEN <<Head(consumer[c].holds)>> ELSE <<>>
      kept == IF full THEN Tail(consumer[c].holds) ELSE consumer[c].holds
  IN /\ consumer[c].phase = "running" /\ NewFrame(c) /\ seg.refs[slot] >= 0
     /\ segment' = [segment EXCEPT ![consumer[c].seg].refs =
                      Minus(Plus(@, <<slot>>), oldest)]
     /\ Become(c, [consumer[c] EXCEPT !.holds = Append(kept, slot), !.last = seg.frame])
     /\ External

(* Mutant: create() waits for a frame as long as it takes.                 *)
EndIfLocked(c) ==
  /\ consumer[c].phase = "running"
  /\ NewFrame(c) /\ segment[consumer[c].seg].refs[segment[consumer[c].seg].writeIdx] < 0
  /\ Become(c, [consumer[c] EXCEPT !.phase = "ended"])
  /\ UNCHANGED segment /\ External

(* No new frame for two seconds, or a slot locked for too long.            *)
End(c) ==
  /\ consumer[c].phase = "running"
  /\ ~NewFrame(c) \/ segment[consumer[c].seg].refs[segment[consumer[c].seg].writeIdx] < 0
  /\ Become(c, [consumer[c] EXCEPT !.phase = "ended"])
  /\ UNCHANGED segment /\ External

(* Mutant: the references are given back to the segment that has the name. *)
StopByName(c) ==
  /\ consumer[c].phase \in {"running", "ended"}
  /\ segment' = IF named = None THEN segment
                ELSE [segment EXCEPT ![named].refs = Minus(@, consumer[c].holds)]
  /\ Become(c, Idle)
  /\ External

(* stop(), after the stream has ended or while it runs.                    *)
Stop(c) ==
  /\ consumer[c].phase \in {"running", "ended"}
  /\ segment' = [segment EXCEPT ![consumer[c].seg].refs = Minus(@, consumer[c].holds)]
  /\ Become(c, Idle)
  /\ External

ConsumerCrash(c) ==
  /\ c \in Crashing /\ consumer[c].phase # "idle" /\ crashes < MaxCrashes
  /\ Become(c, Idle)
  /\ crashes' = crashes + 1
  /\ segment' = IF consumer[c].seg = None THEN segment
                ELSE [segment EXCEPT ![consumer[c].seg].leaked = Plus(@, consumer[c].holds)]
  /\ UNCHANGED <<named, socket, producerVars>>

-----------------------------------------------------------------------------
ProducerNext ==
  \/ Open \/ Reset \/ Listen \/ ListenFails \/ SetCaps \/ Lock \/ Publish
  \/ CloseSockets \/ Unlink \/ Crash

Starting(c) == Attach(c) \/ Connect(c) \/ ConnectTimeout(c) \/ Receive(c) \/ Hangup(c)
Running(c) == Take(c) \/ End(c) \/ Stop(c) \/ ConsumerCrash(c)

Next ==
  \/ ProducerNext
  \/ \E c \in Consumers : Serve(c) \/ Starting(c) \/ Running(c)

Spec == Init /\ [][Next]_vars

(* The accept thread runs, and a consumer's streaming thread and timeouts  *)
(* do; whether caps ever reach the producer is not known.                  *)
Fairness ==
  \A c \in Consumers :
    /\ WF_vars(Serve(c))
    /\ WF_vars(Connect(c) \/ ConnectTimeout(c))
    /\ WF_vars(Receive(c) \/ Hangup(c))
    /\ WF_vars(Take(c) \/ End(c))

FairSpec == Spec /\ Fairness

-----------------------------------------------------------------------------
(* Properties.                                                             *)

Writing(g, s) == mapped = g /\ locked = s
(* The places <<consumer, index>> that hold slot s of segment g.           *)
Holding(g, s) ==
  {h \in Consumers \X (1 .. ReleaseDelay) :
     /\ consumer[h[1]].seg = g
     /\ h[2] <= Len(consumer[h[1]].holds) /\ consumer[h[1]].holds[h[2]] = s}
References(g, s) == Cardinality(Holding(g, s))

(* The counters of every segment, those that lost their name included, are *)
(* the references its consumers hold and those that consumers who crashed  *)
(* have left, through any stops and starts (gstnvmmappsrc.cpp:291-303): a  *)
(* consumer that leaves leaks nothing, and one that crashes takes nothing  *)
(* from the others.  A producer that crashes and comes back to its segment *)
(* clears the counters under the consumers' hands, and nothing is promised *)
(* of that segment any more.                                               *)
RefsAccounted ==
  \A g \in Starts, s \in Slots : ~segment[g].orphan =>
    segment[g].refs[s] = IF Writing(g, s) THEN -1
                         ELSE References(g, s) + segment[g].leaked[s]

(* docs/PRODUCTION_PLAN.md:224, "Producer stops while consumers are        *)
(* reading - graceful EOS": a consumer whose segment has lost its name     *)
(* ends, even when a new producer has taken the name meanwhile.            *)
EosOnStop ==
  \A c \in Consumers :
    consumer[c].phase = "running" /\ named # consumer[c].seg
      ~> consumer[c].phase # "running"

(* A consumer that is connected to a producer without caps.                *)
AwaitsCaps(c) ==
  /\ consumer[c].phase = "receiving" /\ consumer[c].pool = None
  /\ phase = "up" /\ ~pooled /\ consumer[c].server = start

(* The recv of start() has no timeout (gstnvmmappsrc.cpp:246), and there   *)
(* is one way to be caught in it for ever: a consumer that found a header  *)
(* with a path, of a producer that is gone since, and connected to its     *)
(* successor, which is up and is never given caps.  Otherwise start()      *)
(* returns, whatever stops, crashes or fails.                              *)
StartEnds ==
  \A c \in Consumers :
    \/ []<>(consumer[c].phase \notin {"waiting", "receiving"})
    \/ <>[]AwaitsCaps(c)
=============================================================================
