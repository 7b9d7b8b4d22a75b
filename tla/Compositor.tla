----------------------------- MODULE Compositor -----------------------------
(***************************************************************************)
(* nvmmcompositor (gst/nvmmcompositor/gstnvmmcompositor.cpp): each round   *)
(* takes the head of the queue of every pad and puts them into one output. *)
(* The queues, and when a round begins, are those of GstAggregator: when   *)
(* every pad has a frame or has ended, or at the deadline of a live        *)
(* pipeline.                                                               *)
(***************************************************************************)
EXTENDS Integers, Sequences, FiniteSets

CONSTANTS
  Pads,        (* The sink pads; in their order: 1, 2, ...                 *)
  MaxArrivals, (* Bound: frames on one pad.                                *)
  MaxTime,     (* Bound: presentation times.                               *)
  MaxQueued,   (* Frames the aggregator queues on a pad.                   *)
  MaxShort     (* Bound: rounds begun by the deadline.                     *)

ASSUME CompositorAssumption ==
  Pads \subseteq Nat \ {0} /\ {MaxArrivals, MaxTime, MaxQueued, MaxShort} \subseteq Nat

VARIABLES
  queue,       (* The frames queued on each pad: their number, their PTS   *)
               (* (0 is none) and whether they have a surface.             *)
  padEos,      (* The pads that were told the end of their stream.         *)
  arrived,     (* Frames that have arrived on each pad, ...                *)
  latest,      (* ... and the last PTS.                                    *)
  ended,       (* The end was sent on, ...                                 *)
  failed,      (* ... or an error.                                         *)
  output,      (* The last output: the frame drawn in each tile, 0 for     *)
               (* none, the pad that gave the PTS, and the PTS.            *)
  (* History: *)
  rounds,      (* Rounds.                                                  *)
  shortRounds, (* Those that went without a pad that had not ended.        *)
  refused,     (* Frames without a surface.                                *)
  undrawn      (* Frames that the transform failed for.                    *)

padVars == <<queue, padEos, arrived, latest, ended, failed, output, rounds,
             shortRounds, refused, undrawn>>

Blank == [tiles |-> [p \in Pads |-> 0], clock |-> 0, pts |-> 0]

CompositorInit ==
  /\ queue = [p \in Pads |-> <<>>]
  /\ padEos = {}
  /\ arrived = [p \in Pads |-> 0] /\ latest = [p \in Pads |-> 0]
  /\ ended = FALSE /\ failed = FALSE
  /\ output = Blank
  /\ rounds = 0 /\ shortRounds = 0 /\ refused = {} /\ undrawn = {}

(* The frames of a pad come in the order of their PTS, where they have     *)
(* one; how those of two pads compare is open.                             *)
ArriveOn(p, hasSurface, pts) ==
  /\ p \notin padEos /\ Len(queue[p]) < MaxQueued /\ arrived[p] < MaxArrivals
  /\ pts = 0 \/ pts > latest[p]
  /\ arrived' = [arrived EXCEPT ![p] = @ + 1]
  /\ latest' = [latest EXCEPT ![p] = IF pts = 0 THEN @ ELSE pts]
  /\ queue' = [queue EXCEPT ![p] =
                 Append(@, [n |-> arrived[p] + 1, pts |-> pts, surf |-> hasSurface])]
  /\ refused' = IF hasSurface THEN refused ELSE refused \union {<<p, arrived[p] + 1>>}
  /\ UNCHANGED <<padEos, ended, failed, output, rounds, shortRounds, undrawn>>

EndOn(p) ==
  /\ p \notin padEos
  /\ padEos' = padEos \union {p}
  /\ UNCHANGED <<queue, arrived, latest, ended, failed, output, rounds, shortRounds,
                 refused, undrawn>>

Queued == {p \in Pads : queue[p] # <<>>}

(* The pads whose frame goes into the output.                              *)
Composed == {p \in Queued : Head(queue[p]).surf}

(* Mutant: a frame without a surface is left where it is.                  *)
DropsComposed == Composed
(* The pads whose head is dropped: all that had one.                       *)
Drops == Queued

(* Mutant: the end is reached as soon as one pad has ended.                *)
SomeEos == Queued = {} /\ padEos # {}
AllEos == Queued = {} /\ Pads \subseteq padEos

(* The first of them whose frame has a PTS gives it to the output.         *)
Timed == {p \in Composed : Head(queue[p]).pts # 0}
Clock == IF Timed = {} THEN 0 ELSE CHOOSE p \in Timed : \A q \in Timed : p <= q

(* aggregate: the frames drawn are those the transform does not fail for;  *)
(* the others leave their tile as the memory has it, with a warning only.  *)
(* When no pad has a surface the output is thrown away.                    *)
Aggregate(drawn) ==
  /\ queue' = [p \in Pads |-> IF p \in Drops THEN Tail(queue[p]) ELSE queue[p]]
  /\ ended' = AllEos
  /\ output' =
       IF Composed = {} THEN output
       ELSE [tiles |-> [p \in Pads |-> IF p \in drawn THEN Head(queue[p]).n ELSE 0],
             clock |-> Clock,
             pts |-> IF Clock = 0 THEN 0 ELSE Head(queue[Clock]).pts]
  /\ rounds' = rounds + 1
  /\ undrawn' = undrawn \union {<<p, Head(queue[p]).n>> : p \in Composed \ drawn}
  /\ UNCHANGED <<padEos, arrived, latest, failed, refused>>

Round ==
  /\ ~ended /\ Pads \subseteq Queued \union padEos
  /\ \E drawn \in SUBSET Composed : Aggregate(drawn)
  /\ UNCHANGED shortRounds

(* A round at the deadline, with what has come until then.                 *)
ShortRound ==
  /\ ~ended /\ ~(Pads \subseteq Queued \union padEos) /\ shortRounds < MaxShort
  /\ \E drawn \in SUBSET Composed : Aggregate(drawn)
  /\ shortRounds' = shortRounds + 1

(* No output buffer: an error, which takes no frame and ends the stream.   *)
AllocationFails ==
  /\ ~ended
  /\ ended' = TRUE /\ failed' = TRUE
  /\ UNCHANGED <<queue, padEos, arrived, latest, output, rounds, shortRounds, refused, undrawn>>

(* The element is stopped, and starts anew.                                *)
StopCompositor ==
  /\ ended
  /\ queue' = [p \in Pads |-> <<>>]
  /\ padEos' = {}
  /\ arrived' = [p \in Pads |-> 0] /\ latest' = [p \in Pads |-> 0]
  /\ ended' = FALSE /\ failed' = FALSE
  /\ output' = Blank
  /\ rounds' = 0 /\ shortRounds' = 0 /\ refused' = {} /\ undrawn' = {}

CompositorNext ==
  \/ \E p \in Pads :
       EndOn(p) \/ \E hasSurface \in BOOLEAN, pts \in 0 .. MaxTime : ArriveOn(p, hasSurface, pts)
  \/ Round \/ ShortRound \/ AllocationFails \/ StopCompositor

CompositorSpec == CompositorInit /\ [][CompositorNext]_padVars

-----------------------------------------------------------------------------
(***************************************************************************)
(* The frames of one output are no further apart than rounds were begun    *)
(* without a frame that had not come yet: as long as every round waited,   *)
(* they have one number, though some could not be composed and some pads   *)
(* have ended.  The end is sent on when every pad has ended and every      *)
(* frame was taken (gstnvmmcompositor.cpp:157-186).                        *)
(***************************************************************************)
PadsInStep ==
  /\ \A p, q \in Pads : output.tiles[p] > 0 /\ output.tiles[q] > 0 =>
       output.tiles[p] - output.tiles[q] <= shortRounds
  /\ ended /\ ~failed => padEos = Pads /\ \A p \in Pads : queue[p] = <<>>

(***************************************************************************)
(* While every round waits, the n-th round draws the n-th frame of every   *)
(* pad that has one, but those without a surface and those the transform   *)
(* fails for: no frame is left out, drawn twice or put beside one of       *)
(* another round, whatever failed and whichever pads ended before.  The    *)
(* PTS of the outputs goes forward as long as one pad gives it; where      *)
(* another does, because the pad has ended or its frame has no surface or  *)
(* no PTS, it may go back (gstnvmmcompositor.cpp:179-186).                 *)
(***************************************************************************)
OutputsAdvance ==
  [][rounds' > rounds /\ shortRounds' = 0 =>
       /\ \A p \in Pads :
            output'.tiles[p] = rounds' <=>
              rounds' <= arrived[p] /\ <<p, rounds'>> \notin refused \union undrawn'
       /\ output' # output /\ output'.clock = output.clock /\ output.clock # 0 =>
            output'.pts > output.pts]_padVars
=============================================================================
