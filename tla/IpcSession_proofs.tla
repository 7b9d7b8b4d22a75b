-------------------------- MODULE IpcSession_proofs --------------------------
(***************************************************************************)
(* The reference counters of a frame transport, through every stop, crash  *)
(* and start of its producer and its consumers: for every pool size,       *)
(* release delay and finite set of consumers, for any number of starts,    *)
(* frames and crashes, and whoever may crash.                              *)
(*                                                                         *)
(* RefsAccounted alone is not inductive.  What a slot's counter is when    *)
(* the producer has written it depends on nobody holding it (WrittenFree), *)
(* and what it is when a producer clears it on nobody holding any: a       *)
(* segment is found again under its name only after a crash, or when its   *)
(* first producer failed before it wrote its path into the header, and     *)
(* then no consumer has got past waiting for the path (ProducerInv,        *)
(* ConsumerInv).                                                           *)
(*                                                                         *)
(* From the same invariants: no consumer is caught in a recv that nobody   *)
(* answers, and none takes frame after frame from a segment that has lost  *)
(* its name.                                                               *)
(***************************************************************************)
EXTENDS IpcSession, FiniteSetTheorems, TLAPS

USE IpcSessionAssumption

(* The producer has mapped what has the name, and writes to it only when   *)
(* it is up; what it did not make yet was never touched, and what it finds *)
(* under the name without a crash never had a path.                        *)
ProducerInv ==
  /\ mapped = IF phase = "down" THEN None ELSE named
  /\ phase # "down" => mapped # None
  /\ named <= start
  /\ pooled => phase \in {"up", "closing"}
  /\ locked # NoSlot => phase = "up" /\ pooled /\ FrameNo <= MaxFrames
  /\ \A g \in Starts : g > start => segment[g] = Fresh
  /\ named # None /\ phase \in {"down", "opened", "reset"} =>
       segment[named].orphan \/ ~segment[named].path

(* A consumer that is not idle has mapped a segment; one that holds slots  *)
(* has had the pool, and so it has seen the path.                          *)
ConsumerInv ==
  \A c \in Consumers :
    /\ consumer[c].seg = None <=> consumer[c].phase = "idle"
    /\ consumer[c].seg <= start
    /\ consumer[c].holds # <<>> => consumer[c].phase \in {"running", "ended"}
    /\ consumer[c].phase \in {"receiving", "running", "ended"} =>
         segment[consumer[c].seg].orphan \/ segment[consumer[c].seg].path

(* Nobody holds what is being written.                                     *)
WrittenFree ==
  \A g \in Starts, s \in Slots : ~segment[g].orphan /\ Writing(g, s) =>
    References(g, s) = 0 /\ segment[g].leaked[s] = 0

StructInv == TypeOK /\ ProducerInv /\ ConsumerInv
CountInv == RefsAccounted /\ WrittenFree
IInv == StructInv /\ CountInv

-----------------------------------------------------------------------------
(* Counting what a consumer holds.                                         *)

Uses(holds, s) == {i \in DOMAIN holds : holds[i] = s}

LEMMA UsesFinite ==
  ASSUME NEW holds \in Seq(Slots), NEW s
  PROVE  /\ IsFiniteSet(Uses(holds, s)) /\ Times(s, holds) = Cardinality(Uses(holds, s))
         /\ Times(s, holds) \in Nat
         /\ holds = <<>> => Times(s, holds) = 0
<1>1. Len(holds) \in Nat /\ DOMAIN holds = 1 .. Len(holds)
  OBVIOUS
<1>2. IsFiniteSet(1 .. Len(holds))
  BY <1>1, FS_Interval
<1>3. Uses(holds, s) \in SUBSET (1 .. Len(holds))
  BY <1>1 DEF Uses
<1>4. IsFiniteSet(Uses(holds, s))
  BY <1>2, <1>3, FS_Subset
<1>5. holds = <<>> => Uses(holds, s) = {}
  BY <1>1 DEF Uses
<1> QED
  BY <1>4, <1>5, FS_CardinalityType, FS_EmptySet DEF Uses, Times

LEMMA TimesAppend ==
  ASSUME NEW holds \in Seq(Slots), NEW x \in Slots, NEW s
  PROVE  Times(s, Append(holds, x)) = Times(s, holds) + IF x = s THEN 1 ELSE 0
<1> DEFINE n == Len(holds) + 1
           more == Append(holds, x)
<1>1. more \in Seq(Slots) /\ DOMAIN more = (DOMAIN holds) \union {n} /\ more[n] = x
      /\ \A i \in DOMAIN holds : more[i] = holds[i]
  OBVIOUS
<1>2. n \notin DOMAIN holds
  OBVIOUS
<1>3. Uses(more, s) = IF x = s THEN Uses(holds, s) \union {n} ELSE Uses(holds, s)
  BY <1>1, <1>2 DEF Uses
<1>4. n \notin Uses(holds, s)
  BY <1>2 DEF Uses
<1> HIDE DEF more, n
<1>5. IsFiniteSet(Uses(holds, s)) /\ Times(s, holds) = Cardinality(Uses(holds, s))
  BY UsesFinite
<1>6. Times(s, more) = Cardinality(Uses(more, s))
  BY <1>1, UsesFinite
<1>7. Cardinality(Uses(holds, s) \union {n}) = Times(s, holds) + 1
  BY <1>4, <1>5, FS_AddElement
<1>8. Times(s, holds) \in Nat
  BY UsesFinite
<1>9. Times(s, more) = Times(s, holds) + IF x = s THEN 1 ELSE 0
  BY <1>3, <1>5, <1>6, <1>7, <1>8
<1> QED
  BY <1>9 DEF more

LEMMA TimesOne ==
  ASSUME NEW x \in Slots, NEW s
  PROVE  <<x>> \in Seq(Slots) /\ Times(s, <<x>>) = IF x = s THEN 1 ELSE 0
<1>1. <<x>> = Append(<<>>, x) /\ <<>> \in Seq(Slots)
  OBVIOUS
<1>2. Times(s, <<>>) = 0
  BY <1>1, UsesFinite
<1>3. Times(s, Append(<<>>, x)) = Times(s, <<>>) + IF x = s THEN 1 ELSE 0
  BY <1>1, TimesAppend
<1>4. <<x>> \in Seq(Slots)
  OBVIOUS
<1> QED
  BY <1>1, <1>2, <1>3, <1>4

LEMMA TimesTail ==
  ASSUME NEW holds \in Seq(Slots), holds # <<>>, NEW s
  PROVE  /\ Head(holds) \in Slots /\ Tail(holds) \in Seq(Slots)
         /\ Times(s, holds) = Times(s, Tail(holds)) + Times(s, <<Head(holds)>>)
<1> DEFINE rest == Tail(holds)
           later == Uses(holds, s) \ {1}
<1>1. /\ Head(holds) \in Slots /\ rest \in Seq(Slots) /\ Len(holds) \in Nat \ {0}
      /\ Head(holds) = holds[1] /\ Len(rest) = Len(holds) - 1
      /\ \A i \in 1 .. Len(holds) - 1 : rest[i] = holds[i + 1]
  OBVIOUS
<1>2. Uses(rest, s) = {i \in 1 .. Len(holds) - 1 : holds[i + 1] = s}
  BY <1>1 DEF Uses
<1>3. later = {i \in 2 .. Len(holds) : holds[i] = s}
  BY <1>1 DEF Uses
<1>4. ExistsBijection(Uses(rest, s), later)
  <2> DEFINE f == [i \in Uses(rest, s) |-> i + 1]
  <2>1. f \in [Uses(rest, s) -> later]
    BY <1>1, <1>2, <1>3
  <2>2. \A i, j \in Uses(rest, s) : f[i] = f[j] => i = j
    BY <1>1, <1>2
  <2>3. \A j \in later : \E i \in Uses(rest, s) : f[i] = j
    <3> TAKE j \in later
    <3>1. j - 1 \in Uses(rest, s) /\ f[j - 1] = j
      BY <1>1, <1>2, <1>3
    <3> QED BY <3>1
  <2> HIDE DEF f
  <2>4. f \in Bijection(Uses(rest, s), later)
    BY <2>1, <2>2, <2>3 DEF Bijection, Injection, Surjection, IsInjective
  <2> QED BY <2>4 DEF ExistsBijection
<1>5. Cardinality(later) = Times(s, rest) /\ Times(s, rest) \in Nat
  <2>1. IsFiniteSet(Uses(rest, s)) /\ Times(s, rest) = Cardinality(Uses(rest, s))
        /\ Times(s, rest) \in Nat
    BY <1>1, UsesFinite
  <2> HIDE DEF rest, later
  <2> QED BY <1>4, <2>1, FS_Bijection
<1>6. 1 \in Uses(holds, s) <=> holds[1] = s
  BY <1>1 DEF Uses
<1>7. Times(s, holds) = Cardinality(later) + IF holds[1] = s THEN 1 ELSE 0
  <2>1. IsFiniteSet(Uses(holds, s)) /\ Times(s, holds) \in Nat
        /\ Times(s, holds) = Cardinality(Uses(holds, s))
    BY UsesFinite
  <2>2. Cardinality(later) = IF holds[1] = s THEN Times(s, holds) - 1 ELSE Times(s, holds)
    <3>1. CASE holds[1] = s
      <4>1. 1 \in Uses(holds, s)
        BY <1>6, <3>1
      <4> HIDE DEF rest
      <4>2. Cardinality(Uses(holds, s) \ {1}) = Cardinality(Uses(holds, s)) - 1
        BY <2>1, <4>1, FS_RemoveElement
      <4> QED BY <2>1, <3>1, <4>2
    <3>2. CASE holds[1] # s
      <4>1. 1 \notin Uses(holds, s)
        BY <1>6, <3>2
      <4>2. later = Uses(holds, s)
        BY <4>1
      <4> QED BY <2>1, <3>2, <4>2
    <3> QED BY <3>1, <3>2
  <2> QED BY <2>1, <2>2
<1> QED
  BY <1>1, <1>5, <1>7, TimesOne

-----------------------------------------------------------------------------
(* The references of one consumer and those of the others.                 *)

Mine(c, g, s) == IF consumer[c].seg = g THEN Times(s, consumer[c].holds) ELSE 0
Others(c, g, s) == {h \in Holding(g, s) : h[1] # c}

LEMMA HoldingFinite ==
  ASSUME NEW g, NEW s
  PROVE  /\ IsFiniteSet(Holding(g, s)) /\ References(g, s) \in Nat
         /\ \A H \in SUBSET Holding(g, s) :
              IsFiniteSet(H) /\ Cardinality(H) \in Nat /\ (H = {} => Cardinality(H) = 0)
<1>1. IsFiniteSet(1 .. ReleaseDelay)
  BY FS_Interval
<1>2. IsFiniteSet(Consumers \X (1 .. ReleaseDelay))
  BY <1>1, FS_Product
<1>3. Holding(g, s) \in SUBSET (Consumers \X (1 .. ReleaseDelay))
  BY DEF Holding
<1>4. IsFiniteSet(Holding(g, s))
  BY <1>2, <1>3, FS_Subset
<1>5. ASSUME NEW H \in SUBSET Holding(g, s)
      PROVE  IsFiniteSet(H) /\ Cardinality(H) \in Nat /\ (H = {} => Cardinality(H) = 0)
  <2>1. IsFiniteSet(H)
    BY <1>4, FS_Subset
  <2> QED BY <2>1, FS_CardinalityType, FS_EmptySet
<1> QED
  BY <1>4, <1>5, FS_CardinalityType DEF References

(* References splits into the two.                                         *)
Split(c, g, s) ==
  /\ Mine(c, g, s) \in Nat /\ Cardinality(Others(c, g, s)) \in Nat
  /\ References(g, s) = Cardinality(Others(c, g, s)) + Mine(c, g, s)

LEMMA ReferencesSplit == TypeOK => \A c \in Consumers : \A g, s : Split(c, g, s)
<1> SUFFICES ASSUME TypeOK, NEW c \in Consumers, NEW g, NEW s PROVE Split(c, g, s)
  OBVIOUS
<1> DEFINE holds == consumer[c].holds
           own == {h \in Holding(g, s) : h[1] = c}
<1>1. holds \in Seq(Slots) /\ Len(holds) \in Nat /\ Len(holds) <= ReleaseDelay
      /\ DOMAIN holds = 1 .. Len(holds)
  <2>1. consumer[c] \in Consumer
    BY DEF TypeOK
  <2>2. holds \in Seq(Slots)
    BY <2>1 DEF Consumer
  <2>3. Len(holds) <= ReleaseDelay
    BY DEF TypeOK
  <2> QED BY <2>2, <2>3
<1>2. own = IF consumer[c].seg = g THEN {c} \X Uses(holds, s) ELSE {}
  <2>1. ASSUME consumer[c].seg = g PROVE own = {c} \X Uses(holds, s)
    <3>1. ASSUME NEW h \in own PROVE h \in {c} \X Uses(holds, s)
      <4>1. h \in Consumers \X (1 .. ReleaseDelay) /\ h[1] = c
            /\ h[2] <= Len(holds) /\ holds[h[2]] = s
        BY DEF Holding
      <4>2. h[2] \in Uses(holds, s)
        BY <1>1, <4>1 DEF Uses
      <4> QED BY <4>1, <4>2
    <3>2. ASSUME NEW i \in Uses(holds, s) PROVE <<c, i>> \in own
      <4>1. i \in 1 .. ReleaseDelay /\ i <= Len(holds) /\ holds[i] = s
        BY <1>1 DEF Uses
      <4> QED BY <2>1, <4>1 DEF Holding
    <3> QED BY <3>1, <3>2
  <2>2. ASSUME consumer[c].seg # g PROVE own = {}
    BY <2>2 DEF Holding
  <2> QED BY <2>1, <2>2
<1>3. Cardinality(own) = Mine(c, g, s) /\ Mine(c, g, s) \in Nat
  <2>1. IsFiniteSet(Uses(holds, s)) /\ Times(s, holds) = Cardinality(Uses(holds, s))
        /\ Times(s, holds) \in Nat
    BY <1>1, UsesFinite
  <2>2. IsFiniteSet({c}) /\ Cardinality({c}) = 1
    BY FS_Singleton
  <2>3. Cardinality({c} \X Uses(holds, s)) = 1 * Cardinality(Uses(holds, s))
    BY <2>1, <2>2, FS_Product
  <2>4. Cardinality({}) = 0
    BY FS_EmptySet
  <2> HIDE DEF own
  <2> QED BY <1>2, <2>1, <2>3, <2>4 DEF Mine
<1>4. Holding(g, s) = Others(c, g, s) \union own /\ Others(c, g, s) \intersect own = {}
  BY DEF Others
<1>5. IsFiniteSet(own) /\ IsFiniteSet(Others(c, g, s)) /\ Cardinality(Others(c, g, s)) \in Nat
  BY HoldingFinite DEF Others
<1> HIDE DEF own
<1>6. Cardinality(Holding(g, s)) = Cardinality(Others(c, g, s)) + Cardinality(own) - 0
  BY <1>4, <1>5, FS_Union, FS_EmptySet
<1> QED
  BY <1>3, <1>5, <1>6 DEF References, Split

LEMMA ReferencesSplitNext ==
  (TypeOK => \A c \in Consumers : \A g, s : Split(c, g, s))'
  BY ReferencesSplit, PTL

(* A step of one consumer leaves the others' references alone.             *)
LEMMA OneConsumer ==
  ASSUME TypeOK, TypeOK', NEW c \in Consumers,
         \A q \in Consumers \ {c} : consumer'[q] = consumer[q],
         NEW g, NEW s
  PROVE  /\ References(g, s) \in Nat /\ References(g, s)' \in Nat
         /\ Mine(c, g, s) \in Nat /\ Mine(c, g, s)' \in Nat
         /\ Mine(c, g, s) <= References(g, s)
         /\ References(g, s)' = References(g, s) - Mine(c, g, s) + Mine(c, g, s)'
<1>1. Others(c, g, s)' = Others(c, g, s)
  BY DEF Others, Holding
<1>2. /\ Mine(c, g, s) \in Nat /\ Cardinality(Others(c, g, s)) \in Nat
      /\ References(g, s) = Cardinality(Others(c, g, s)) + Mine(c, g, s)
  BY ReferencesSplit DEF Split
<1>3. /\ Mine(c, g, s)' \in Nat /\ Cardinality(Others(c, g, s)') \in Nat
      /\ References(g, s)' = Cardinality(Others(c, g, s)') + Mine(c, g, s)'
  BY ReferencesSplitNext DEF Split
<1> QED
  BY <1>1, <1>2, <1>3

LEMMA NoConsumer ==
  ASSUME UNCHANGED consumer
  PROVE  \A g, s : References(g, s)' = References(g, s)
  BY DEF References, Holding

-----------------------------------------------------------------------------
(* Types.                                                                  *)

LEMMA ConstantTypes ==
  /\ 0 \in Slots /\ NoSlot \notin Slots /\ Slots \subseteq Int
  /\ NoRefs \in [Slots -> Nat] /\ NoRefs \in [Slots -> Int]
  /\ None \notin Starts /\ Starts \subseteq Nat
  /\ \A n \in Slots : Nth(n) \in Slots
  BY DEF Slots, NoSlot, NoRefs, None, Starts, Nth

LEMMA FreshType == Fresh \in Segment /\ ~Fresh.path /\ ~Fresh.orphan
<1>1. 0 \in 0 .. MaxFrames
  OBVIOUS
<1> QED
  BY <1>1, ConstantTypes DEF Fresh, Segment

LEMMA IdleType == Idle \in Consumer /\ Idle.holds = <<>> /\ Idle.phase = "idle" /\ Idle.seg = None
<1>1. 0 \in 0 .. MaxFrames /\ <<>> \in Seq(Slots)
  OBVIOUS
<1> QED
  BY <1>1 DEF Idle, Consumer

(* A field of a segment, and a field of a consumer, can be set.            *)
LEMMA SegmentSet ==
  ASSUME NEW old \in Segment
  PROVE  /\ \A refs \in [Slots -> Int] :
              /\ [old EXCEPT !.refs = refs] \in Segment
              /\ [old EXCEPT !.refs = refs].refs = refs
              /\ [old EXCEPT !.refs = refs].orphan = old.orphan
              /\ [old EXCEPT !.refs = refs].leaked = old.leaked
              /\ [old EXCEPT !.refs = refs].path = old.path
              /\ [old EXCEPT !.refs = refs].ready = old.ready
              /\ [old EXCEPT !.refs = refs].frame = old.frame
         /\ \A leaked \in [Slots -> Nat] :
              /\ [old EXCEPT !.leaked = leaked] \in Segment
              /\ [old EXCEPT !.leaked = leaked].refs = old.refs
              /\ [old EXCEPT !.leaked = leaked].orphan = old.orphan
              /\ [old EXCEPT !.leaked = leaked].leaked = leaked
              /\ [old EXCEPT !.leaked = leaked].path = old.path
              /\ [old EXCEPT !.leaked = leaked].ready = old.ready
              /\ [old EXCEPT !.leaked = leaked].frame = old.frame
  BY DEF Segment

LEMMA TypeInit == Init => StructInv
<1> SUFFICES ASSUME Init PROVE StructInv
  OBVIOUS
<1>1. TypeOK
  <2>1. segment \in [Starts -> Segment] /\ consumer \in [Consumers -> Consumer]
    BY FreshType, IdleType DEF Init
  <2>2. \A c \in Consumers : Len(consumer[c].holds) <= ReleaseDelay
    BY IdleType DEF Init
  <2>3. start \in 0 .. MaxStarts /\ crashes \in 0 .. MaxCrashes
    BY DEF Init
  <2>4. pooled \in BOOLEAN
    BY Zenon DEF Init
  <2> QED BY <2>1, <2>2, <2>3, <2>4 DEF Init, TypeOK
<1>2. ProducerInv
  <2>1. \A g \in Starts : g > start => segment[g] = Fresh
    BY DEF Init
  <2>2. named <= start
    BY DEF Init, None
  <2>3. pooled => phase \in {"up", "closing"}
    BY Zenon DEF Init
  <2> QED BY <2>1, <2>2, <2>3 DEF Init, ProducerInv
<1>3. ConsumerInv
  BY IdleType DEF Init, ConsumerInv, None
<1> QED
  BY <1>1, <1>2, <1>3 DEF StructInv

(* The segments after a step that changes one of them.                     *)
OneSegment(g, new) ==
  /\ new \in Segment
  /\ segment'[g] = new
  /\ \A h \in Starts \ {g} : segment'[h] = segment[h]

LEMMA OneSegmentType ==
  ASSUME TypeOK, NEW g \in Starts, NEW new \in Segment,
         segment' = [segment EXCEPT ![g] = new]
  PROVE  segment' \in [Starts -> Segment] /\ OneSegment(g, new)
  BY DEF TypeOK, OneSegment

(* What the producer's steps make of the segment it has mapped.            *)
LEMMA MappedType ==
  ASSUME StructInv, phase # "down"
  PROVE  mapped \in Starts /\ mapped = named /\ mapped <= start /\ segment[mapped] \in Segment
  BY ConstantTypes DEF StructInv, TypeOK, ProducerInv

LEMMA ResetSegment ==
  ASSUME StructInv, Reset
  PROVE  /\ segment' \in [Starts -> Segment]
         /\ \E new : /\ OneSegment(mapped, new)
                     /\ new.refs = NoRefs /\ new.leaked = NoRefs /\ ~new.path
                     /\ new.orphan = segment[mapped].orphan
<1> DEFINE o == segment[mapped].orphan
           new == [Fresh EXCEPT !.sized = TRUE, !.magic = TRUE, !.orphan = o]
<1>1. mapped \in Starts /\ o \in BOOLEAN
  BY MappedType DEF Reset, Segment
<1>2. /\ new \in Segment /\ new.refs = NoRefs /\ new.leaked = NoRefs /\ ~new.path
      /\ new.orphan = o
  <2> HIDE DEF o
  <2> QED BY <1>1, FreshType DEF Segment, Fresh
<1>3. segment' = [segment EXCEPT ![mapped] = new]
  BY DEF Reset
<1> HIDE DEF new
<1> QED
  BY <1>1, <1>2, <1>3, OneSegmentType DEF StructInv

LEMMA SetCapsSegment ==
  ASSUME StructInv, SetCaps
  PROVE  /\ segment' \in [Starts -> Segment]
         /\ \E new : /\ OneSegment(mapped, new) /\ new.path
                     /\ new.refs = segment[mapped].refs
                     /\ new.leaked = segment[mapped].leaked
                     /\ new.orphan = segment[mapped].orphan
<1> DEFINE old == segment[mapped]
           new == [old EXCEPT !.path = TRUE]
<1>1. mapped \in Starts /\ old \in Segment
  BY MappedType DEF SetCaps
<1>2. /\ new \in Segment /\ new.refs = old.refs /\ new.leaked = old.leaked /\ new.path
      /\ new.orphan = old.orphan
  <2> HIDE DEF old
  <2> QED BY <1>1 DEF Segment
<1>3. segment' = [segment EXCEPT ![mapped] = new]
  BY DEF SetCaps
<1> HIDE DEF new
<1> QED
  BY <1>1, <1>2, <1>3, OneSegmentType DEF StructInv

LEMMA LockSegment ==
  ASSUME StructInv, Lock
  PROVE  /\ segment' \in [Starts -> Segment] /\ locked' \in Slots
         /\ segment[mapped].refs[locked'] = 0
         /\ \E new : /\ OneSegment(mapped, new)
                     /\ new.refs = [segment[mapped].refs EXCEPT ![locked'] = -1]
                     /\ new.leaked = segment[mapped].leaked
                     /\ new.orphan = segment[mapped].orphan
                     /\ new.path = segment[mapped].path
                     /\ new.ready = segment[mapped].ready
                     /\ new.frame = segment[mapped].frame
<1> DEFINE old == segment[mapped]
           refs == [old.refs EXCEPT ![locked'] = -1]
           new == [old EXCEPT !.refs = refs]
<1>1. mapped \in Starts /\ old \in Segment
  BY MappedType DEF Lock
<1>2. locked' \in Slots /\ old.refs[locked'] = 0
  BY ConstantTypes DEF Lock, Free
<1>3. refs \in [Slots -> Int]
  BY <1>1, <1>2 DEF Segment
<1>4. segment' = [segment EXCEPT ![mapped] = new]
  BY DEF Lock
<1>5. /\ new \in Segment /\ new.refs = refs /\ new.leaked = old.leaked
      /\ new.orphan = old.orphan /\ new.path = old.path /\ new.ready = old.ready
      /\ new.frame = old.frame
  <2> HIDE DEF old, refs
  <2> QED BY <1>1, <1>3, SegmentSet
<1> HIDE DEF new
<1>6. segment' \in [Starts -> Segment] /\ OneSegment(mapped, new)
  BY <1>1, <1>4, <1>5, OneSegmentType DEF StructInv
<1> QED
  BY <1>2, <1>5, <1>6

LEMMA PublishSegment ==
  ASSUME StructInv, Publish
  PROVE  /\ segment' \in [Starts -> Segment]
         /\ \E new : /\ OneSegment(mapped, new)
                     /\ new.refs = [segment[mapped].refs EXCEPT ![locked] = 0]
                     /\ new.leaked = segment[mapped].leaked
                     /\ new.orphan = segment[mapped].orphan
                     /\ new.path = segment[mapped].path
<1> DEFINE old == segment[mapped]
           refs == [old.refs EXCEPT ![locked] = 0]
           n == FrameNo
           new == [old EXCEPT !.refs = refs, !.writeIdx = locked, !.frame = n, !.ready = TRUE]
<1>1. mapped \in Starts /\ old \in Segment /\ locked \in Slots
  BY MappedType DEF Publish, StructInv, TypeOK
<1>2. refs \in [Slots -> Int]
  BY <1>1 DEF Segment
<1>3. n \in 0 .. MaxFrames
  <2>1. n <= MaxFrames
    BY DEF StructInv, ProducerInv, Publish
  <2>2. old.frame \in Nat
    BY <1>1 DEF Segment
  <2> QED BY <2>1, <2>2 DEF FrameNo
<1>4. segment' = [segment EXCEPT ![mapped] = new]
  BY DEF Publish
<1>5. /\ new \in Segment /\ new.refs = refs /\ new.leaked = old.leaked
      /\ new.orphan = old.orphan /\ new.path = old.path
  <2> HIDE DEF old, refs, n
  <2> QED BY <1>1, <1>2, <1>3 DEF Segment
<1> HIDE DEF new
<1>6. segment' \in [Starts -> Segment] /\ OneSegment(mapped, new)
  BY <1>1, <1>4, <1>5, OneSegmentType DEF StructInv
<1> QED
  BY <1>5, <1>6

LEMMA CrashSegment ==
  ASSUME StructInv, Crash
  PROVE  /\ segment' \in [Starts -> Segment]
         /\ \E new : OneSegment(mapped, new) /\ new.orphan
<1> DEFINE old == segment[mapped]
           new == [old EXCEPT !.orphan = TRUE]
<1>1. mapped \in Starts /\ old \in Segment
  BY MappedType DEF Crash
<1>2. new \in Segment /\ new.orphan
  <2> HIDE DEF old
  <2> QED BY <1>1 DEF Segment
<1>3. segment' = [segment EXCEPT ![mapped] = new]
  BY DEF Crash
<1> HIDE DEF new
<1> QED
  BY <1>1, <1>2, <1>3, OneSegmentType DEF StructInv

(* What a consumer's steps make of the segment it has mapped.              *)
LEMMA HeldType ==
  ASSUME StructInv, NEW c \in Consumers
  PROVE  /\ consumer[c] \in Consumer /\ consumer[c].holds \in Seq(Slots)
         /\ Len(consumer[c].holds) <= ReleaseDelay
         /\ consumer[c].seg \in Starts \union {None}
         /\ consumer[c].phase # "idle" =>
              consumer[c].seg \in Starts /\ segment[consumer[c].seg] \in Segment
         /\ \A s : Times(s, consumer[c].holds) \in Nat
<1>1. consumer[c] \in Consumer /\ Len(consumer[c].holds) <= ReleaseDelay
  BY DEF StructInv, TypeOK
<1>2. consumer[c].holds \in Seq(Slots) /\ consumer[c].seg \in Starts \union {None}
  BY <1>1 DEF Consumer
<1>3. consumer[c].phase # "idle" =>
        consumer[c].seg \in Starts /\ segment[consumer[c].seg] \in Segment
  BY <1>2 DEF StructInv, TypeOK, ConsumerInv
<1> QED
  BY <1>1, <1>2, <1>3, UsesFinite

(* All but its counters, or what crashes left in it.                       *)
SameHeader(old, new) ==
  /\ new.orphan = old.orphan /\ new.path = old.path
  /\ new.ready = old.ready /\ new.frame = old.frame

Oldest(c) ==
  IF Len(consumer[c].holds) = ReleaseDelay THEN <<Head(consumer[c].holds)>> ELSE <<>>
Kept(c) ==
  IF Len(consumer[c].holds) = ReleaseDelay THEN Tail(consumer[c].holds) ELSE consumer[c].holds

LEMMA OldestKept ==
  ASSUME StructInv, NEW c \in Consumers
  PROVE  /\ Oldest(c) \in Seq(Slots) /\ Kept(c) \in Seq(Slots)
         /\ Len(Kept(c)) < ReleaseDelay
         /\ \A s : /\ Times(s, Oldest(c)) \in Nat /\ Times(s, Kept(c)) \in Nat
                   /\ Times(s, consumer[c].holds) = Times(s, Kept(c)) + Times(s, Oldest(c))
<1> DEFINE holds == consumer[c].holds
<1>1. holds \in Seq(Slots) /\ Len(holds) \in Nat /\ Len(holds) <= ReleaseDelay
  BY HeldType
<1>2. CASE Len(holds) = ReleaseDelay
  <2>1. holds # <<>> /\ Len(Tail(holds)) = Len(holds) - 1
    BY <1>1, <1>2
  <2>2. Oldest(c) = <<Head(holds)>> /\ Kept(c) = Tail(holds)
    BY <1>2 DEF Oldest, Kept
  <2>3. Head(holds) \in Slots /\ Tail(holds) \in Seq(Slots)
        /\ \A s : Times(s, holds) = Times(s, Tail(holds)) + Times(s, <<Head(holds)>>)
    BY <1>1, <2>1, TimesTail
  <2>4. <<Head(holds)>> \in Seq(Slots)
    BY <2>3, TimesOne
  <2>5. \A s : Times(s, Tail(holds)) \in Nat /\ Times(s, <<Head(holds)>>) \in Nat
    BY <2>3, <2>4, UsesFinite
  <2> QED BY <1>2, <2>1, <2>2, <2>3, <2>4, <2>5
<1>3. CASE Len(holds) # ReleaseDelay
  <2>1. Oldest(c) = <<>> /\ Kept(c) = holds /\ <<>> \in Seq(Slots)
    BY <1>3 DEF Oldest, Kept
  <2>2. \A s : Times(s, <<>>) = 0 /\ Times(s, holds) \in Nat
    BY <1>1, <2>1, UsesFinite
  <2> QED BY <1>1, <1>3, <2>1, <2>2
<1> QED
  BY <1>2, <1>3

LEMMA TakeSegment ==
  ASSUME StructInv, NEW c \in Consumers, Take(c),
         NEW g, g = consumer[c].seg, NEW slot, slot = segment[g].writeIdx
  PROVE  /\ g \in Starts /\ slot \in Slots /\ segment[g].refs[slot] >= 0
         /\ segment' \in [Starts -> Segment]
         /\ \E new :
              /\ OneSegment(g, new) /\ SameHeader(segment[g], new)
              /\ new.leaked = segment[g].leaked
              /\ \A s \in Slots : new.refs[s] =
                   segment[g].refs[s] + (IF s = slot THEN 1 ELSE 0) - Times(s, Oldest(c))
<1> DEFINE old == segment[g]
           refs == Minus(Plus(old.refs, <<slot>>), Oldest(c))
           new == [old EXCEPT !.refs = refs]
<1>1. g \in Starts /\ old \in Segment /\ slot \in Slots /\ old.refs[slot] >= 0
      /\ old.refs \in [Slots -> Int]
  BY HeldType DEF Take, Segment
<1>2. \A s \in Slots : Times(s, Oldest(c)) \in Nat
  BY OldestKept
<1>3. refs \in [Slots -> Int]
      /\ \A s \in Slots :
           refs[s] = old.refs[s] + (IF s = slot THEN 1 ELSE 0) - Times(s, Oldest(c))
  <2>1. \A s \in Slots : Times(s, <<slot>>) = IF slot = s THEN 1 ELSE 0
    BY <1>1, TimesOne
  <2> HIDE DEF old
  <2> QED BY <1>1, <1>2, <2>1 DEF Minus, Plus
<1>4. segment' = [segment EXCEPT ![g] = new]
  BY DEF Take, Oldest
<1>5. new \in Segment /\ new.refs = refs /\ new.leaked = old.leaked /\ SameHeader(old, new)
  <2> HIDE DEF old, refs
  <2> QED BY <1>1, <1>3, SegmentSet DEF SameHeader
<1> HIDE DEF new, refs
<1>6. segment' \in [Starts -> Segment] /\ OneSegment(g, new)
  BY <1>1, <1>4, <1>5, OneSegmentType DEF StructInv
<1> QED
  BY <1>1, <1>3, <1>5, <1>6

LEMMA StopSegment ==
  ASSUME StructInv, NEW c \in Consumers, Stop(c), NEW g, g = consumer[c].seg
  PROVE  /\ g \in Starts /\ segment' \in [Starts -> Segment]
         /\ \E new :
              /\ OneSegment(g, new) /\ SameHeader(segment[g], new)
              /\ new.leaked = segment[g].leaked
              /\ \A s \in Slots :
                   new.refs[s] = segment[g].refs[s] - Times(s, consumer[c].holds)
<1> DEFINE old == segment[g]
           refs == Minus(old.refs, consumer[c].holds)
           new == [old EXCEPT !.refs = refs]
<1>1. g \in Starts /\ old \in Segment /\ old.refs \in [Slots -> Int]
      /\ \A s : Times(s, consumer[c].holds) \in Nat
  BY HeldType DEF Stop, Segment
<1>2. refs \in [Slots -> Int]
      /\ \A s \in Slots : refs[s] = old.refs[s] - Times(s, consumer[c].holds)
  <2> HIDE DEF old
  <2> QED BY <1>1 DEF Minus
<1>3. segment' = [segment EXCEPT ![g] = new]
  BY DEF Stop
<1>4. new \in Segment /\ new.refs = refs /\ new.leaked = old.leaked /\ SameHeader(old, new)
  <2> HIDE DEF old, refs
  <2> QED BY <1>1, <1>2, SegmentSet DEF SameHeader
<1> HIDE DEF new, refs
<1>5. segment' \in [Starts -> Segment] /\ OneSegment(g, new)
  BY <1>1, <1>3, <1>4, OneSegmentType DEF StructInv
<1> QED
  BY <1>1, <1>2, <1>4, <1>5

LEMMA ConsumerCrashSegment ==
  ASSUME StructInv, NEW c \in Consumers, ConsumerCrash(c), NEW g, g = consumer[c].seg
  PROVE  /\ g \in Starts /\ segment' \in [Starts -> Segment]
         /\ \E new :
              /\ OneSegment(g, new) /\ SameHeader(segment[g], new)
              /\ new.refs = segment[g].refs
              /\ \A s \in Slots :
                   new.leaked[s] = segment[g].leaked[s] + Times(s, consumer[c].holds)
<1> DEFINE old == segment[g]
           leaked == Plus(old.leaked, consumer[c].holds)
           new == [old EXCEPT !.leaked = leaked]
<1>1. g \in Starts /\ old \in Segment /\ old.leaked \in [Slots -> Nat]
      /\ \A s : Times(s, consumer[c].holds) \in Nat
  BY HeldType DEF ConsumerCrash, Segment
<1>2. leaked \in [Slots -> Nat]
      /\ \A s \in Slots : leaked[s] = old.leaked[s] + Times(s, consumer[c].holds)
  <2> HIDE DEF old
  <2> QED BY <1>1 DEF Plus
<1>3. segment' = [segment EXCEPT ![g] = new]
  BY <1>1, ConstantTypes DEF ConsumerCrash
<1>4. new \in Segment /\ new.leaked = leaked /\ new.refs = old.refs /\ SameHeader(old, new)
  <2> HIDE DEF old, leaked
  <2> QED BY <1>1, <1>2, SegmentSet DEF SameHeader
<1> HIDE DEF new, leaked
<1>5. segment' \in [Starts -> Segment] /\ OneSegment(g, new)
  BY <1>1, <1>3, <1>4, OneSegmentType DEF StructInv
<1> QED
  BY <1>1, <1>2, <1>4, <1>5

-----------------------------------------------------------------------------
(* Types and whereabouts are kept.                                         *)

(* A step that leaves a segment its path, or the mark of a crash, takes    *)
(* nothing from a consumer that does not move.                             *)
LEMMA ConsumerInvKept ==
  ASSUME StructInv, UNCHANGED consumer, start' \in Nat, start <= start',
         \A g \in Starts : segment[g].orphan \/ segment[g].path =>
           segment'[g].orphan \/ segment'[g].path
  PROVE  ConsumerInv'
<1> SUFFICES ASSUME NEW c \in Consumers
             PROVE  /\ consumer[c].seg = None <=> consumer[c].phase = "idle"
                    /\ consumer[c].seg <= start'
                    /\ consumer[c].holds # <<>> => consumer[c].phase \in {"running", "ended"}
                    /\ consumer[c].phase \in {"receiving", "running", "ended"} =>
                         segment'[consumer[c].seg].orphan \/ segment'[consumer[c].seg].path
  BY DEF ConsumerInv
<1>1. consumer[c].seg \in Nat /\ start \in Nat
      /\ (consumer[c].phase # "idle" => consumer[c].seg \in Starts)
  <2>1. start \in Nat
    BY DEF StructInv, TypeOK
  <2>2. Starts \union {None} \subseteq Nat
    BY DEF Starts, None
  <2> QED BY <2>1, <2>2, HeldType
<1>2. /\ consumer[c].seg = None <=> consumer[c].phase = "idle"
      /\ consumer[c].seg <= start
      /\ consumer[c].holds # <<>> => consumer[c].phase \in {"running", "ended"}
      /\ consumer[c].phase \in {"receiving", "running", "ended"} =>
           segment[consumer[c].seg].orphan \/ segment[consumer[c].seg].path
  BY DEF StructInv, ConsumerInv
<1> QED
  BY <1>1, <1>2

LEMMA OpenStruct == StructInv /\ Open => StructInv'
<1> SUFFICES ASSUME StructInv, Open PROVE StructInv'
  OBVIOUS
<1>1. start' = start + 1 /\ start \in Nat /\ start' \in Starts
  BY DEF Open, StructInv, TypeOK, Starts
<1>2. named \in Starts \union {None} /\ named <= start /\ named \in Nat
  BY ConstantTypes DEF StructInv, TypeOK, ProducerInv, None
<1>3. named' \in Starts /\ named' <= start' /\ mapped' = named'
      /\ (named # None => named' = named) /\ (named = None => named' = start')
  BY <1>1, <1>2 DEF Open
<1>4. TypeOK'
  <2>1. start' \in 0 .. MaxStarts
    BY <1>1 DEF Starts
  <2> QED BY <1>3, <2>1 DEF Open, StructInv, TypeOK
<1>5. segment'[named'].orphan \/ ~segment'[named'].path
  <2>1. CASE named = None
    <3>1. segment[start'] = Fresh
      BY <1>1 DEF StructInv, ProducerInv
    <3> QED BY <1>3, <2>1, <3>1, FreshType DEF Open
  <2>2. CASE named # None
    BY <1>3, <2>2 DEF Open, StructInv, ProducerInv
  <2> QED BY <2>1, <2>2
<1>6. ProducerInv'
  <2>1. \A g \in Starts : g > start' => segment'[g] = Fresh
    BY <1>1 DEF Open, StructInv, ProducerInv, Starts
  <2>2. locked = NoSlot /\ ~pooled
    BY DEF Open, StructInv, ProducerInv
  <2>3. /\ phase' = "opened" /\ mapped' # None /\ locked' = NoSlot /\ ~pooled'
    BY <1>3, <2>2, ConstantTypes DEF Open
  <2> QED BY <1>3, <1>5, <2>1, <2>3 DEF ProducerInv
<1>7. ConsumerInv'
  BY <1>1, ConsumerInvKept DEF Open
<1> QED
  BY <1>4, <1>6, <1>7 DEF StructInv

LEMMA ResetStruct == StructInv /\ Reset => StructInv'
<1> SUFFICES ASSUME StructInv, Reset PROVE StructInv'
  OBVIOUS
<1>1. PICK new : /\ OneSegment(mapped, new) /\ ~new.path
                 /\ new.orphan = segment[mapped].orphan
  BY ResetSegment
<1>2. segment' \in [Starts -> Segment] /\ mapped \in Starts /\ mapped = named
      /\ mapped <= start /\ start \in Nat
  BY ResetSegment, MappedType DEF Reset, StructInv, TypeOK
<1>3. TypeOK'
  BY <1>2 DEF Reset, StructInv, TypeOK
<1>4. ProducerInv'
  <2>1. \A g \in Starts : g > start' => segment'[g] = Fresh
    BY <1>1, <1>2 DEF Reset, StructInv, ProducerInv, OneSegment, Starts
  <2>2. segment'[named].orphan \/ ~segment'[named].path
    BY <1>1, <1>2 DEF OneSegment
  <2>3. locked = NoSlot /\ ~pooled
    BY DEF Reset, StructInv, ProducerInv
  <2>4. mapped # None
    BY <1>2, ConstantTypes
  <2> QED BY <1>2, <2>1, <2>2, <2>3, <2>4 DEF Reset, ProducerInv
<1>5. ConsumerInv'
  <2>1. segment[mapped].orphan \/ ~segment[mapped].path
    BY <1>2, ConstantTypes DEF Reset, StructInv, ProducerInv
  <2> SUFFICES ASSUME NEW c \in Consumers
               PROVE  /\ consumer[c].seg = None <=> consumer[c].phase = "idle"
                      /\ consumer[c].seg <= start
                      /\ consumer[c].holds # <<>> => consumer[c].phase \in {"running", "ended"}
                      /\ consumer[c].phase \in {"receiving", "running", "ended"} =>
                           segment'[consumer[c].seg].orphan \/ segment'[consumer[c].seg].path
    BY DEF Reset, ConsumerInv
  <2>2. consumer[c].phase # "idle" => consumer[c].seg \in Starts
    BY HeldType
  <2>3. /\ consumer[c].seg = None <=> consumer[c].phase = "idle"
        /\ consumer[c].seg <= start
        /\ consumer[c].holds # <<>> => consumer[c].phase \in {"running", "ended"}
        /\ consumer[c].phase \in {"receiving", "running", "ended"} =>
             segment[consumer[c].seg].orphan \/ segment[consumer[c].seg].path
    BY DEF StructInv, ConsumerInv
  <2> QED BY <1>1, <2>1, <2>2, <2>3 DEF OneSegment
<1> QED
  BY <1>3, <1>4, <1>5 DEF StructInv

LEMMA SetCapsStruct == StructInv /\ SetCaps => StructInv'
<1> SUFFICES ASSUME StructInv, SetCaps PROVE StructInv'
  OBVIOUS
<1>1. PICK new : OneSegment(mapped, new) /\ new.path
  BY SetCapsSegment
<1>2. segment' \in [Starts -> Segment] /\ mapped \in Starts /\ mapped <= start /\ start \in Nat
  BY SetCapsSegment, MappedType DEF SetCaps, StructInv, TypeOK
<1>3. TypeOK'
  <2>1. pooled' \in BOOLEAN
    BY Zenon DEF SetCaps
  <2> QED BY <1>2, <2>1 DEF SetCaps, StructInv, TypeOK
<1>4. ProducerInv'
  <2>1. \A g \in Starts : g > start => segment'[g] = Fresh
    BY <1>1, <1>2 DEF StructInv, ProducerInv, OneSegment, Starts
  <2>2. locked = NoSlot
    BY DEF SetCaps, StructInv, ProducerInv
  <2> QED BY <2>1, <2>2 DEF SetCaps, StructInv, ProducerInv
<1>5. ConsumerInv'
  BY <1>1, <1>2, ConsumerInvKept DEF SetCaps, OneSegment
<1> QED
  BY <1>3, <1>4, <1>5 DEF StructInv

(* Steps that touch no segment.                                            *)
LEMMA SocketStruct ==
  StructInv /\ (Listen \/ ListenFails \/ CloseSockets \/ Unlink) => StructInv'
<1> SUFFICES ASSUME StructInv, Listen \/ ListenFails \/ CloseSockets \/ Unlink
             PROVE  StructInv'
  OBVIOUS
<1>1. /\ UNCHANGED <<segment, start, consumer, crashes, locked>> /\ locked = NoSlot
      /\ phase # "down" /\ start \in Nat /\ start \in 1 .. MaxStarts
  <2>1. phase # "down" /\ locked = NoSlot
        /\ UNCHANGED <<segment, start, consumer, crashes, locked>>
    BY DEF Listen, ListenFails, CloseSockets, Unlink, StructInv, ProducerInv
  <2>2. mapped \in Starts /\ mapped <= start
    BY <2>1, MappedType
  <2> QED BY <2>1, <2>2 DEF Starts, StructInv, TypeOK
<1>2. TypeOK'
  BY <1>1 DEF Listen, ListenFails, CloseSockets, Unlink, ServerListen, StructInv, TypeOK,
              Starts
<1>3. ProducerInv'
  <2>1. \A g \in Starts : g > start' => segment'[g] = Fresh
    BY <1>1 DEF StructInv, ProducerInv
  <2>2. CASE Listen \/ CloseSockets
    BY <1>1, <2>1, <2>2 DEF Listen, CloseSockets, StructInv, ProducerInv
  <2>3. CASE ListenFails
    BY <1>1, <2>1, <2>3 DEF ListenFails, StructInv, ProducerInv
  <2>4. CASE Unlink
    <3>1. ~pooled'
      BY <2>4 DEF Unlink
    <3> QED BY <1>1, <2>1, <2>4, <3>1 DEF Unlink, ProducerInv, None
  <2> QED BY <2>2, <2>3, <2>4
<1>4. ConsumerInv'
  BY <1>1, ConsumerInvKept
<1> QED
  BY <1>2, <1>3, <1>4 DEF StructInv

LEMMA LockStruct == StructInv /\ Lock => StructInv'
<1> SUFFICES ASSUME StructInv, Lock PROVE StructInv'
  OBVIOUS
<1>1. PICK new : /\ OneSegment(mapped, new)
                 /\ new.orphan = segment[mapped].orphan /\ new.path = segment[mapped].path
                 /\ new.ready = segment[mapped].ready /\ new.frame = segment[mapped].frame
  BY LockSegment
<1>2. segment' \in [Starts -> Segment] /\ mapped \in Starts /\ mapped <= start
      /\ start \in Nat /\ locked' \in Slots
  <2>1. phase # "down" /\ start \in Nat
    BY DEF Lock, StructInv, TypeOK
  <2> QED BY <2>1, LockSegment, MappedType
<1>3. TypeOK'
  BY <1>2 DEF Lock, StructInv, TypeOK
<1>4. ProducerInv'
  <2>1. \A g \in Starts : g > start => segment'[g] = Fresh
    BY <1>1, <1>2 DEF StructInv, ProducerInv, OneSegment, Starts
  <2>2. FrameNo' = FrameNo /\ FrameNo <= MaxFrames
    BY <1>1, <1>2 DEF Lock, FrameNo, OneSegment
  <2> QED BY <2>1, <2>2 DEF Lock, StructInv, ProducerInv
<1>5. ConsumerInv'
  BY <1>1, <1>2, ConsumerInvKept DEF Lock, OneSegment
<1> QED
  BY <1>3, <1>4, <1>5 DEF StructInv

LEMMA PublishStruct == StructInv /\ Publish => StructInv'
<1> SUFFICES ASSUME StructInv, Publish PROVE StructInv'
  OBVIOUS
<1>1. PICK new : /\ OneSegment(mapped, new)
                 /\ new.orphan = segment[mapped].orphan /\ new.path = segment[mapped].path
  BY PublishSegment
<1>2. segment' \in [Starts -> Segment] /\ mapped \in Starts /\ mapped <= start
      /\ start \in Nat
  BY PublishSegment, MappedType DEF Publish, StructInv, TypeOK
<1>3. TypeOK'
  BY <1>2 DEF Publish, StructInv, TypeOK
<1>4. ProducerInv'
  <2>1. \A g \in Starts : g > start => segment'[g] = Fresh
    BY <1>1, <1>2 DEF StructInv, ProducerInv, OneSegment, Starts
  <2> QED BY <2>1 DEF Publish, StructInv, ProducerInv
<1>5. ConsumerInv'
  BY <1>1, <1>2, ConsumerInvKept DEF Publish, OneSegment
<1> QED
  BY <1>3, <1>4, <1>5 DEF StructInv

LEMMA CrashStruct == StructInv /\ Crash => StructInv'
<1> SUFFICES ASSUME StructInv, Crash PROVE StructInv'
  OBVIOUS
<1>1. PICK new : OneSegment(mapped, new) /\ new.orphan
  BY CrashSegment
<1>2. segment' \in [Starts -> Segment] /\ mapped \in Starts /\ mapped <= start
      /\ start \in Nat /\ mapped = named
  <2>1. phase # "down" /\ start \in Nat
    BY DEF Crash, StructInv, TypeOK
  <2> QED BY <2>1, CrashSegment, MappedType
<1>3. TypeOK'
  <2>1. crashes' \in 0 .. MaxCrashes
    BY DEF Crash, StructInv, TypeOK
  <2>2. pooled' \in BOOLEAN
    BY Zenon DEF Crash
  <2> QED BY <1>2, <2>1, <2>2 DEF Crash, StructInv, TypeOK
<1>4. ProducerInv'
  <2>1. \A g \in Starts : g > start => segment'[g] = Fresh
    BY <1>1, <1>2 DEF StructInv, ProducerInv, OneSegment, Starts
  <2>2. segment'[named].orphan
    BY <1>1, <1>2 DEF OneSegment
  <2>3. ~pooled'
    BY DEF Crash
  <2> QED BY <2>1, <2>2, <2>3 DEF Crash, StructInv, ProducerInv
<1>5. ConsumerInv'
  BY <1>1, <1>2, ConsumerInvKept DEF Crash, OneSegment
<1> QED
  BY <1>3, <1>4, <1>5 DEF StructInv

(* A consumer that becomes next is where it may be.                        *)
Placed(next) ==
  /\ next \in Consumer /\ Len(next.holds) <= ReleaseDelay
  /\ next.seg = None <=> next.phase = "idle"
  /\ next.seg <= start
  /\ next.holds # <<>> => next.phase \in {"running", "ended"}
  /\ next.phase \in {"receiving", "running", "ended"} =>
       segment[next.seg].orphan \/ segment[next.seg].path

(* A consumer's step changes no header, and no segment to come.            *)
HeadersKept ==
  /\ segment' \in [Starts -> Segment]
  /\ \A g \in Starts : SameHeader(segment[g], segment'[g])
  /\ \A g \in Starts : g > start => segment'[g] = segment[g]

LEMMA IdlePlaced == StructInv => Placed(Idle)
<1> SUFFICES ASSUME StructInv PROVE Placed(Idle)
  OBVIOUS
<1>1. Len(Idle.holds) = 0 /\ start \in Nat
  BY IdleType DEF StructInv, TypeOK
<1> QED
  BY <1>1, IdleType DEF Placed, None

LEMMA HeldPlaced ==
  ASSUME StructInv, NEW c \in Consumers
  PROVE  Placed(consumer[c])
  BY HeldType DEF StructInv, ConsumerInv, Placed

LEMMA PlacedStruct ==
  ASSUME StructInv, NEW c \in Consumers, NEW next, Placed(next), Become(c, next),
         UNCHANGED <<named, socket, producerVars>>, crashes' \in 0 .. MaxCrashes,
         HeadersKept
  PROVE  StructInv'
<1>1. /\ consumer'[c] = next /\ consumer' \in [Consumers -> Consumer]
      /\ \A q \in Consumers \ {c} : consumer'[q] = consumer[q]
  BY DEF Become, StructInv, TypeOK, Placed
<1>2. \A q \in Consumers : Placed(consumer'[q])
  BY <1>1, HeldPlaced
<1>3. TypeOK'
  <2>1. \A q \in Consumers : Len(consumer'[q].holds) <= ReleaseDelay
    BY <1>2 DEF Placed
  <2>2. UNCHANGED <<named, socket, phase, start, mapped, pooled, locked>>
    BY DEF producerVars
  <2>3. segment' \in [Starts -> Segment]
    BY DEF HeadersKept
  <2>4. /\ named' \in Starts \union {None} /\ socket' \in Starts \union {None}
        /\ phase' \in {"down", "opened", "reset", "up", "closing"}
        /\ start' \in 0 .. MaxStarts /\ mapped' \in Starts \union {None}
        /\ pooled' \in BOOLEAN /\ locked' \in Slots \union {NoSlot}
    BY <2>2 DEF StructInv, TypeOK
  <2> QED BY <1>1, <2>1, <2>3, <2>4 DEF TypeOK
<1>4. ProducerInv'
  <2>1. \A g \in Starts : g > start => segment'[g] = Fresh
    BY DEF StructInv, ProducerInv, HeadersKept
  <2>2. named # None /\ phase \in {"down", "opened", "reset"} =>
          segment'[named].orphan \/ ~segment'[named].path
    BY DEF StructInv, TypeOK, ProducerInv, HeadersKept, SameHeader
  <2>3. locked # NoSlot => FrameNo' = FrameNo
    <3>1. locked # NoSlot => mapped \in Starts
      BY MappedType DEF StructInv, ProducerInv
    <3> QED BY <3>1 DEF FrameNo, HeadersKept, SameHeader, producerVars
  <2> QED BY <2>1, <2>2, <2>3 DEF StructInv, ProducerInv, producerVars
<1>5. ConsumerInv'
  <2> SUFFICES ASSUME NEW q \in Consumers
               PROVE  /\ consumer'[q].seg = None <=> consumer'[q].phase = "idle"
                      /\ consumer'[q].seg <= start
                      /\ consumer'[q].holds # <<>> => consumer'[q].phase \in {"running", "ended"}
                      /\ consumer'[q].phase \in {"receiving", "running", "ended"} =>
                           segment'[consumer'[q].seg].orphan \/ segment'[consumer'[q].seg].path
    BY DEF ConsumerInv, producerVars
  <2>1. Placed(consumer'[q])
    BY <1>2
  <2>2. consumer'[q].phase # "idle" => consumer'[q].seg \in Starts
    BY <2>1 DEF Placed, Consumer
  <2> QED BY <2>1, <2>2 DEF Placed, HeadersKept, SameHeader
<1> QED
  BY <1>3, <1>4, <1>5 DEF StructInv

LEMMA OneSegmentHeaders ==
  ASSUME StructInv, NEW c \in Consumers, NEW g \in Starts, g = consumer[c].seg, NEW new,
         segment' \in [Starts -> Segment], OneSegment(g, new), SameHeader(segment[g], new)
  PROVE  HeadersKept
<1>1. g <= start /\ start \in Nat /\ Starts \subseteq Nat
  BY ConstantTypes DEF StructInv, TypeOK, ConsumerInv
<1> QED
  BY <1>1 DEF OneSegment, HeadersKept, SameHeader

LEMMA SameSegments == StructInv /\ UNCHANGED segment => HeadersKept
  BY DEF StructInv, TypeOK, HeadersKept, SameHeader

(* What the steps of a consumer that hold no slot yet make of it.          *)
LEMMA ServeStruct == ASSUME StructInv, NEW c \in Consumers, Serve(c) PROVE StructInv'
<1> DEFINE old == consumer[c]
           next == [old EXCEPT !.pool = start]
<1>1. old \in Consumer /\ Placed(old) /\ start \in Starts
  <2>1. start \in 0 .. MaxStarts /\ mapped \in Starts /\ mapped <= start
    BY MappedType DEF Serve, StructInv, TypeOK
  <2> QED BY <2>1, HeldType, HeldPlaced DEF Starts
<1>2. Placed(next)
  <2> HIDE DEF old
  <2>1. next \in Consumer /\ next.seg = old.seg /\ next.phase = old.phase /\ next.holds = old.holds
    BY <1>1 DEF Consumer
  <2> QED BY <1>1, <2>1 DEF Placed
<1>3. Become(c, next)
  BY DEF Serve, SendFds, Become
<1> HIDE DEF next
<1>4. HeadersKept /\ crashes' \in 0 .. MaxCrashes
  BY SameSegments DEF Serve, StructInv, TypeOK
<1> QED
  BY <1>2, <1>3, <1>4, PlacedStruct DEF Serve

LEMMA StartingStruct == ASSUME StructInv, NEW c \in Consumers, Starting(c) PROVE StructInv'
<1> DEFINE old == consumer[c]
<1>1. old \in Consumer /\ Placed(old) /\ Placed(Idle)
  BY HeldType, HeldPlaced, IdlePlaced
<1>2. ASSUME NEW next, Placed(next), Become(c, next), UNCHANGED segment, External
      PROVE  StructInv'
  <2>1. crashes' \in 0 .. MaxCrashes /\ HeadersKept
    BY <1>2, SameSegments DEF External, StructInv, TypeOK
  <2> QED BY <1>2, <2>1, PlacedStruct DEF External
<1>3. CASE Attach(c)
  <2> DEFINE next == [Idle EXCEPT !.phase = "waiting", !.seg = named]
  <2>1. named \in Starts /\ named <= start
    BY <1>3 DEF Attach, StructInv, TypeOK, ProducerInv
  <2>2. next \in Consumer /\ next.seg = named /\ next.phase = "waiting" /\ next.holds = <<>>
    BY <2>1, IdleType DEF Consumer
  <2> HIDE DEF next
  <2>3. Placed(next)
    BY <2>1, <2>2, ConstantTypes DEF Placed
  <2>4. Become(c, next)
    BY <1>3 DEF Attach, next
  <2> QED BY <1>2, <1>3, <2>3, <2>4 DEF Attach
<1>4. CASE Connect(c)
  <2>1. CASE socket = None
    BY <1>1, <1>2, <1>4, <2>1 DEF Connect, ClientConnect, Fails
  <2>2. CASE socket # None
    <3> DEFINE next == [old EXCEPT !.phase = "receiving", !.server = socket]
    <3>1. socket \in Starts \union {None}
      BY DEF StructInv, TypeOK
    <3>2. /\ next \in Consumer /\ next.seg = old.seg /\ next.phase = "receiving"
          /\ next.holds = old.holds
      <4> HIDE DEF old
      <4> QED BY <1>1, <3>1 DEF Consumer
    <3>3. Become(c, next)
      BY <1>4, <2>2 DEF Connect, ClientConnect
    <3> HIDE DEF next
    <3>4. Placed(next)
      BY <1>1, <1>4, <3>2 DEF Placed, Connect, Complete
    <3> QED BY <1>2, <1>4, <3>3, <3>4 DEF Connect
  <2> QED BY <2>1, <2>2
<1>5. CASE ConnectTimeout(c) \/ Hangup(c)
  BY <1>1, <1>2, <1>5 DEF ConnectTimeout, Hangup, Fails
<1>6. CASE Receive(c)
  <2> DEFINE next == [old EXCEPT !.phase = "running", !.last = 0]
  <2>1. 0 \in 0 .. MaxFrames
    OBVIOUS
  <2>2. /\ next \in Consumer /\ next.seg = old.seg /\ next.phase = "running"
        /\ next.holds = old.holds
    <3> HIDE DEF old
    <3> QED BY <1>1, <2>1 DEF Consumer
  <2>3. Become(c, next)
    BY <1>6 DEF Receive
  <2> HIDE DEF next
  <2>4. Placed(next)
    BY <1>1, <1>6, <2>2 DEF Placed, Receive
  <2> QED BY <1>2, <1>6, <2>3, <2>4 DEF Receive
<1> QED
  BY <1>3, <1>4, <1>5, <1>6 DEF Starting

(* And of one that may.                                                    *)
LEMMA TakeNext ==
  ASSUME StructInv, NEW c \in Consumers, Take(c), NEW g, g = consumer[c].seg,
         NEW slot, slot = segment[g].writeIdx
  PROVE  \E next : /\ Placed(next) /\ Become(c, next)
                   /\ next.seg = g /\ next.holds = Append(Kept(c), slot)
<1> DEFINE old == consumer[c]
           holds == Append(Kept(c), slot)
           n == segment[g].frame
           next == [old EXCEPT !.holds = holds, !.last = n]
<1>1. old \in Consumer /\ Placed(old) /\ slot \in Slots /\ n \in 0 .. MaxFrames
      /\ old.phase = "running"
  BY HeldType, HeldPlaced, TakeSegment DEF Take, Segment
<1>2. holds \in Seq(Slots) /\ Len(holds) <= ReleaseDelay
  BY <1>1, OldestKept
<1>3. next \in Consumer /\ next.seg = old.seg /\ next.phase = "running" /\ next.holds = holds
  <2> HIDE DEF old, holds, n
  <2> QED BY <1>1, <1>2 DEF Consumer
<1>4. Become(c, next)
  BY DEF Take, Kept
<1> HIDE DEF next, holds
<1>5. Placed(next)
  BY <1>1, <1>2, <1>3 DEF Placed
<1> QED
  BY <1>3, <1>4, <1>5 DEF holds

LEMMA RunningStruct == ASSUME StructInv, NEW c \in Consumers, Running(c) PROVE StructInv'
<1> DEFINE g == consumer[c].seg
<1>1. Placed(consumer[c]) /\ Placed(Idle) /\ consumer[c] \in Consumer
  BY HeldType, HeldPlaced, IdlePlaced
<1>2. CASE Take(c)
  <2>1. HeadersKept
    BY <1>2, TakeSegment, OneSegmentHeaders
  <2>2. PICK next : Placed(next) /\ Become(c, next)
    BY <1>2, TakeNext
  <2>3. crashes' \in 0 .. MaxCrashes /\ UNCHANGED <<named, socket, producerVars>>
    BY <1>2 DEF Take, External, StructInv, TypeOK
  <2> QED BY <2>1, <2>2, <2>3, PlacedStruct
<1>3. CASE End(c)
  <2> DEFINE old == consumer[c]
             next == [old EXCEPT !.phase = "ended"]
  <2>1. /\ next \in Consumer /\ next.seg = old.seg /\ next.phase = "ended"
        /\ next.holds = old.holds
    <3>1. old \in Consumer
      BY <1>1
    <3> HIDE DEF old
    <3> QED BY <3>1 DEF Consumer
  <2>2. Become(c, next)
    BY <1>3 DEF End
  <2> HIDE DEF next
  <2>3. Placed(next)
    BY <1>1, <1>3, <2>1 DEF Placed, End
  <2>4. crashes' \in 0 .. MaxCrashes /\ UNCHANGED <<named, socket, producerVars>> /\ HeadersKept
    BY <1>3, SameSegments DEF End, External, StructInv, TypeOK
  <2> QED BY <2>2, <2>3, <2>4, PlacedStruct
<1>4. CASE Stop(c)
  <2>1. HeadersKept
    BY <1>4, StopSegment, OneSegmentHeaders
  <2>2. crashes' \in 0 .. MaxCrashes /\ UNCHANGED <<named, socket, producerVars>>
        /\ Become(c, Idle)
    BY <1>4 DEF Stop, External, StructInv, TypeOK
  <2> QED BY <1>1, <2>1, <2>2, PlacedStruct
<1>5. CASE ConsumerCrash(c)
  <2>1. HeadersKept
    BY <1>5, ConsumerCrashSegment, OneSegmentHeaders
  <2>2. crashes' \in 0 .. MaxCrashes /\ UNCHANGED <<named, socket, producerVars>>
        /\ Become(c, Idle)
    BY <1>5 DEF ConsumerCrash, StructInv, TypeOK
  <2> QED BY <1>1, <2>1, <2>2, PlacedStruct
<1> QED
  BY <1>2, <1>3, <1>4, <1>5 DEF Running

LEMMA StructStep == StructInv /\ [Next]_vars => StructInv'
<1> SUFFICES ASSUME StructInv, [Next]_vars PROVE StructInv'
  OBVIOUS
<1>1. CASE ProducerNext
  BY <1>1, OpenStruct, ResetStruct, SocketStruct, SetCapsStruct, LockStruct, PublishStruct,
     CrashStruct DEF ProducerNext
<1>2. ASSUME NEW c \in Consumers, Serve(c) \/ Starting(c) \/ Running(c) PROVE StructInv'
  BY <1>2, ServeStruct, StartingStruct, RunningStruct
<1>3. CASE UNCHANGED vars
  <2>1. UNCHANGED <<named, segment, socket, phase, start, mapped, pooled, locked, consumer,
                    crashes>>
    BY <1>3 DEF vars, producerVars
  <2>2. TypeOK' /\ ProducerInv' /\ ConsumerInv'
    BY <2>1 DEF StructInv, TypeOK, ProducerInv, ConsumerInv, FrameNo
  <2> QED BY <2>2 DEF StructInv
<1> QED
  BY <1>1, <1>2, <1>3 DEF Next

(***************************************************************************)
(* Type correctness: through any stops, crashes and starts of both sides   *)
(* every slot index in a header and in a consumer's window is one of the   *)
(* pool's, frames are counted within their bound, and no window is longer  *)
(* than RELEASE_DELAY.                                                     *)
(***************************************************************************)
THEOREM TypeCorrect == Spec => []TypeOK
<1>1. StructInv => TypeOK
  BY DEF StructInv
<1> QED
  BY TypeInit, StructStep, <1>1, PTL DEF Spec

-----------------------------------------------------------------------------
(* The counters.                                                           *)

(* What CountInv says of one slot of one segment.                          *)
Accounted(g, s) ==
  ~segment[g].orphan =>
    /\ segment[g].refs[s] =
         IF Writing(g, s) THEN -1 ELSE References(g, s) + segment[g].leaked[s]
    /\ Writing(g, s) => References(g, s) = 0 /\ segment[g].leaked[s] = 0

LEMMA CountsAll == CountInv <=> \A g \in Starts, s \in Slots : Accounted(g, s)
  BY DEF CountInv, RefsAccounted, WrittenFree, Accounted

LEMMA CountTypes ==
  ASSUME StructInv, NEW g \in Starts, NEW s \in Slots
  PROVE  /\ segment[g].refs[s] \in Int /\ segment[g].leaked[s] \in Nat
         /\ References(g, s) \in Nat
<1>1. segment[g] \in Segment
  BY DEF StructInv, TypeOK
<1>2. segment[g].refs \in [Slots -> Int] /\ segment[g].leaked \in [Slots -> Nat]
  BY <1>1 DEF Segment
<1> QED
  BY <1>2, HoldingFinite

(* Nobody holds slots of a segment without a crash and without a path.     *)
LEMMA NoHolder ==
  ASSUME StructInv, NEW g \in Starts, NEW s, ~segment[g].orphan, ~segment[g].path
  PROVE  References(g, s) = 0
<1>1. ASSUME NEW h \in Holding(g, s) PROVE FALSE
  <2>1. h[1] \in Consumers /\ h[2] \in Nat \ {0} /\ consumer[h[1]].seg = g
        /\ h[2] <= Len(consumer[h[1]].holds)
    BY DEF Holding
  <2>2. consumer[h[1]].holds # <<>>
    BY <2>1
  <2>3. segment[g].orphan \/ segment[g].path
    BY <2>1, <2>2 DEF StructInv, ConsumerInv
  <2> QED BY <2>3
<1> QED
  BY <1>1, FS_EmptySet DEF References

LEMMA CountInit == Init => CountInv
<1> SUFFICES ASSUME Init, NEW g \in Starts, NEW s \in Slots PROVE Accounted(g, s)
  BY CountsAll
<1>1. segment[g] = Fresh /\ ~Writing(g, s)
  BY ConstantTypes DEF Init, Writing
<1>2. segment[g].refs[s] = 0 /\ segment[g].leaked[s] = 0 /\ ~segment[g].path
      /\ ~segment[g].orphan
  BY <1>1, FreshType DEF Fresh, NoRefs
<1>3. References(g, s) = 0
  BY <1>2, NoHolder, TypeInit
<1> QED
  BY <1>1, <1>2, <1>3 DEF Accounted

(* A step that leaves everything about a slot alone.                       *)
SlotKept(g, s) ==
  /\ segment'[g].refs[s] = segment[g].refs[s]
  /\ segment'[g].leaked[s] = segment[g].leaked[s]
  /\ segment'[g].orphan = segment[g].orphan
  /\ References(g, s)' = References(g, s)
  /\ Writing(g, s)' <=> Writing(g, s)

LEMMA AccountedKept ==
  ASSUME NEW g \in Starts, NEW s \in Slots, Accounted(g, s), SlotKept(g, s)
  PROVE  Accounted(g, s)'
  BY DEF Accounted, SlotKept

(* The producer's steps.                                                   *)
LEMMA ProducerCounts ==
  ASSUME StructInv, CountInv, ProducerNext, NEW g \in Starts, NEW s \in Slots
  PROVE  Accounted(g, s)'
<1>1. UNCHANGED consumer
  BY DEF ProducerNext, Open, Reset, Listen, ListenFails, SetCaps, Lock, Publish,
         CloseSockets, Unlink, Crash
<1>2. References(g, s)' = References(g, s)
  BY <1>1, NoConsumer
<1>3. Accounted(g, s) /\ s # NoSlot
  BY CountsAll, ConstantTypes
<1>4. /\ segment[g].refs[s] \in Int /\ segment[g].leaked[s] \in Nat
      /\ References(g, s) \in Nat
  BY CountTypes
<1>5. CASE Open \/ Listen \/ ListenFails \/ CloseSockets \/ Unlink
  <2>1. UNCHANGED segment
    BY <1>5 DEF Open, Listen, ListenFails, CloseSockets, Unlink
  <2>2. locked = NoSlot /\ locked' = NoSlot
    BY <1>5 DEF Open, Listen, ListenFails, CloseSockets, Unlink, StructInv, ProducerInv
  <2>3. SlotKept(g, s)
    BY <1>2, <1>3, <2>1, <2>2 DEF SlotKept, Writing
  <2> QED BY <1>3, <2>3, AccountedKept
<1>6. CASE Reset
  <2>1. PICK new : /\ OneSegment(mapped, new) /\ new.refs = NoRefs /\ new.leaked = NoRefs
                   /\ new.orphan = segment[mapped].orphan
    BY <1>6, ResetSegment
  <2>2. locked = NoSlot /\ UNCHANGED <<locked, mapped>>
    BY <1>6 DEF Reset, StructInv, ProducerInv
  <2>3. mapped \in Starts /\ (segment[mapped].orphan \/ ~segment[mapped].path)
    BY <1>6, MappedType, ConstantTypes DEF Reset, StructInv, ProducerInv
  <2>4. CASE g = mapped
    <3>1. ~segment[g].orphan => References(g, s) = 0
      BY <2>3, <2>4, NoHolder
    <3>2. segment'[g].refs[s] = 0 /\ segment'[g].leaked[s] = 0
          /\ segment'[g].orphan = segment[g].orphan
      BY <2>1, <2>4 DEF OneSegment, NoRefs
    <3> QED BY <1>2, <1>3, <2>2, <3>1, <3>2 DEF Accounted, Writing
  <2>5. CASE g # mapped
    BY <1>2, <1>3, <2>1, <2>2, <2>5, AccountedKept DEF SlotKept, OneSegment, Writing
  <2> QED BY <2>4, <2>5
<1>7. CASE SetCaps
  <2>1. PICK new : /\ OneSegment(mapped, new) /\ new.refs = segment[mapped].refs
                   /\ new.leaked = segment[mapped].leaked
                   /\ new.orphan = segment[mapped].orphan
    BY <1>7, SetCapsSegment
  <2>2. UNCHANGED <<locked, mapped>>
    BY <1>7 DEF SetCaps
  <2>3. SlotKept(g, s)
    BY <1>2, <2>1, <2>2 DEF SlotKept, OneSegment, Writing
  <2> QED BY <1>3, <2>3, AccountedKept
<1>8. CASE Lock
  <2>1. PICK new : /\ OneSegment(mapped, new)
                   /\ new.refs = [segment[mapped].refs EXCEPT ![locked'] = -1]
                   /\ new.leaked = segment[mapped].leaked
                   /\ new.orphan = segment[mapped].orphan
    BY <1>8, LockSegment
  <2>2. locked' \in Slots /\ segment[mapped].refs[locked'] = 0
    BY <1>8, LockSegment
  <2>3. locked = NoSlot /\ mapped' = mapped
    BY <1>8 DEF Lock
  <2>4. mapped \in Starts /\ segment[mapped].refs \in [Slots -> Int]
    BY <1>8, MappedType DEF Lock, Segment
  <2>5. CASE g = mapped /\ s = locked'
    <3>1. segment'[g].refs[s] = -1 /\ segment'[g].leaked[s] = segment[g].leaked[s]
          /\ segment'[g].orphan = segment[g].orphan
      BY <2>1, <2>4, <2>5 DEF OneSegment
    <3>2. ~segment[g].orphan => References(g, s) = 0 /\ segment[g].leaked[s] = 0
      BY <1>3, <1>4, <2>2, <2>3, <2>5 DEF Accounted, Writing
    <3>3. Writing(g, s)'
      BY <2>3, <2>5 DEF Writing
    <3> QED BY <1>2, <3>1, <3>2, <3>3 DEF Accounted
  <2>6. CASE ~(g = mapped /\ s = locked')
    <3>1. SlotKept(g, s)
      BY <1>2, <1>3, <2>1, <2>2, <2>3, <2>4, <2>6 DEF SlotKept, OneSegment, Writing
    <3> QED BY <1>3, <3>1, AccountedKept
  <2> QED BY <2>5, <2>6
<1>9. CASE Publish
  <2>1. PICK new : /\ OneSegment(mapped, new)
                   /\ new.refs = [segment[mapped].refs EXCEPT ![locked] = 0]
                   /\ new.leaked = segment[mapped].leaked
                   /\ new.orphan = segment[mapped].orphan
    BY <1>9, PublishSegment
  <2>2. locked' = NoSlot /\ mapped' = mapped
    BY <1>9 DEF Publish
  <2>3. mapped \in Starts /\ segment[mapped].refs \in [Slots -> Int]
    BY <1>9, MappedType DEF Publish, Segment
  <2>4. CASE g = mapped /\ s = locked
    <3>1. segment'[g].refs[s] = 0 /\ segment'[g].leaked[s] = segment[g].leaked[s]
          /\ segment'[g].orphan = segment[g].orphan
      BY <2>1, <2>3, <2>4 DEF OneSegment
    <3>2. ~segment[g].orphan => References(g, s) = 0 /\ segment[g].leaked[s] = 0
      BY <1>3, <2>4 DEF Accounted, Writing
    <3>3. ~Writing(g, s)'
      BY <1>3, <2>2 DEF Writing
    <3> QED BY <1>2, <3>1, <3>2, <3>3 DEF Accounted
  <2>5. CASE ~(g = mapped /\ s = locked)
    <3>1. SlotKept(g, s)
      BY <1>2, <1>3, <2>1, <2>2, <2>3, <2>5 DEF SlotKept, OneSegment, Writing
    <3> QED BY <1>3, <3>1, AccountedKept
  <2> QED BY <2>4, <2>5
<1>10. CASE Crash
  <2>1. PICK new : OneSegment(mapped, new) /\ new.orphan
    BY <1>10, CrashSegment
  <2>2. locked' = NoSlot
    BY <1>10 DEF Crash
  <2>3. CASE g = mapped
    BY <2>1, <2>3 DEF Accounted, OneSegment
  <2>4. CASE g # mapped
    <3>1. SlotKept(g, s)
      BY <1>2, <1>3, <2>1, <2>2, <2>4 DEF SlotKept, OneSegment, Writing
    <3> QED BY <1>3, <3>1, AccountedKept
  <2> QED BY <2>3, <2>4
<1> QED
  BY <1>5, <1>6, <1>7, <1>8, <1>9, <1>10 DEF ProducerNext

(* A step of consumer c that makes it next.                                *)
LEMMA BecomeCounts ==
  ASSUME StructInv, StructInv', NEW c \in Consumers, NEW next, Become(c, next),
         NEW g \in Starts, NEW s \in Slots
  PROVE  /\ References(g, s) \in Nat /\ Mine(c, g, s) \in Nat
         /\ Mine(c, g, s) <= References(g, s)
         /\ References(g, s)' = References(g, s) - Mine(c, g, s)
              + (IF next.seg = g THEN Times(s, next.holds) ELSE 0)
<1>1. /\ consumer'[c] = next
      /\ \A q \in Consumers \ {c} : consumer'[q] = consumer[q]
  BY DEF Become, StructInv, TypeOK
<1>2. TypeOK /\ TypeOK'
  BY DEF StructInv
<1>3. /\ References(g, s) \in Nat
      /\ Mine(c, g, s) \in Nat /\ Mine(c, g, s)' \in Nat
      /\ Mine(c, g, s) <= References(g, s)
      /\ References(g, s)' = References(g, s) - Mine(c, g, s) + Mine(c, g, s)'
  BY <1>1, <1>2, OneConsumer
<1>4. Mine(c, g, s)' = IF next.seg = g THEN Times(s, next.holds) ELSE 0
  BY <1>1 DEF Mine, Times
<1> QED
  BY <1>3, <1>4

(* Steps of a consumer that neither take nor give back a slot.             *)
LEMMA StillCounts ==
  ASSUME StructInv, StructInv', CountInv, NEW c \in Consumers, NEW next, Become(c, next),
         \/ next.seg = consumer[c].seg /\ next.holds = consumer[c].holds
         \/ consumer[c].holds = <<>> /\ next.holds = <<>>,
         UNCHANGED <<segment, producerVars>>,
         NEW g \in Starts, NEW s \in Slots
  PROVE  Accounted(g, s)'
<1>1. References(g, s)' = References(g, s) - Mine(c, g, s)
              + (IF next.seg = g THEN Times(s, next.holds) ELSE 0)
      /\ References(g, s) \in Nat /\ Mine(c, g, s) \in Nat
  BY BecomeCounts
<1>2. consumer[c].holds = <<>> => Times(s, consumer[c].holds) = 0
  BY HeldType, UsesFinite
<1>3. (IF next.seg = g THEN Times(s, next.holds) ELSE 0) = Mine(c, g, s)
  BY <1>2 DEF Mine
<1>4. References(g, s)' = References(g, s)
  BY <1>1, <1>3
<1>5. SlotKept(g, s)
  BY <1>4 DEF SlotKept, Writing, producerVars
<1> QED
  BY <1>5, CountsAll, AccountedKept

LEMMA StartingCounts ==
  ASSUME StructInv, StructInv', CountInv, NEW c \in Consumers, Serve(c) \/ Starting(c) \/ End(c),
         NEW g \in Starts, NEW s \in Slots
  PROVE  Accounted(g, s)'
<1> DEFINE old == consumer[c]
<1>1. old \in Consumer /\ Idle.holds = <<>>
      /\ (old.holds # <<>> => old.phase \in {"running", "ended"})
  BY HeldType, IdleType DEF StructInv, ConsumerInv
<1>2. UNCHANGED <<segment, producerVars>>
  BY DEF Serve, Starting, Attach, Connect, ConnectTimeout, Receive, Hangup, End, External
<1>3. ASSUME NEW next, Become(c, next),
             \/ next.seg = old.seg /\ next.holds = old.holds
             \/ old.holds = <<>> /\ next.holds = <<>>
      PROVE  Accounted(g, s)'
  BY <1>2, <1>3, StillCounts
<1>4. CASE Serve(c)
  <2> DEFINE next == [old EXCEPT !.pool = start]
  <2>1. next.seg = old.seg /\ next.holds = old.holds
    BY <1>1 DEF Consumer
  <2>2. Become(c, next)
    BY <1>4 DEF Serve, SendFds, Become
  <2> HIDE DEF next
  <2> QED BY <1>3, <2>1, <2>2
<1>5. CASE Attach(c)
  <2> DEFINE next == [Idle EXCEPT !.phase = "waiting", !.seg = named]
  <2>1. next.holds = <<>>
    BY DEF Idle
  <2>2. Become(c, next) /\ old.holds = <<>>
    BY <1>1, <1>5 DEF Attach
  <2> HIDE DEF next
  <2> QED BY <1>3, <2>1, <2>2
<1>6. ASSUME Fails(c), old.phase \in {"waiting", "receiving"}
      PROVE  Accounted(g, s)'
  BY <1>1, <1>3, <1>6 DEF Fails
<1>7. CASE Connect(c)
  <2>1. CASE socket = None
    BY <1>6, <1>7, <2>1 DEF Connect, ClientConnect
  <2>2. CASE socket # None
    <3> DEFINE next == [old EXCEPT !.phase = "receiving", !.server = socket]
    <3>1. next.seg = old.seg /\ next.holds = old.holds
      BY <1>1 DEF Consumer
    <3>2. Become(c, next)
      BY <1>7, <2>2 DEF Connect, ClientConnect
    <3> HIDE DEF next
    <3> QED BY <1>3, <3>1, <3>2
  <2> QED BY <2>1, <2>2
<1>8. CASE ConnectTimeout(c) \/ Hangup(c)
  BY <1>6, <1>8 DEF ConnectTimeout, Hangup
<1>9. CASE Receive(c)
  <2> DEFINE next == [old EXCEPT !.phase = "running", !.last = 0]
  <2>1. next.seg = old.seg /\ next.holds = old.holds
    BY <1>1 DEF Consumer
  <2>2. Become(c, next)
    BY <1>9 DEF Receive
  <2> HIDE DEF next
  <2> QED BY <1>3, <2>1, <2>2
<1>10. CASE End(c)
  <2> DEFINE next == [old EXCEPT !.phase = "ended"]
  <2>1. next.seg = old.seg /\ next.holds = old.holds
    BY <1>1 DEF Consumer
  <2>2. Become(c, next)
    BY <1>10 DEF End
  <2> HIDE DEF next
  <2> QED BY <1>3, <2>1, <2>2
<1> QED
  BY <1>4, <1>5, <1>7, <1>8, <1>9, <1>10 DEF Starting

(* A slot that is taken is not being written, so it counts on.             *)
LEMMA TakeCounts ==
  ASSUME StructInv, StructInv', CountInv, NEW c \in Consumers, Take(c),
         NEW g \in Starts, NEW s \in Slots
  PROVE  Accounted(g, s)'
<1>1. PICK own : own = consumer[c].seg
  OBVIOUS
<1>2. PICK slot : slot = segment[own].writeIdx
  OBVIOUS
<1>3. own \in Starts /\ slot \in Slots /\ segment[own].refs[slot] >= 0
  BY <1>1, <1>2, TakeSegment
<1>4. PICK new :
        /\ OneSegment(own, new) /\ SameHeader(segment[own], new)
        /\ new.leaked = segment[own].leaked
        /\ \A q \in Slots : new.refs[q] =
             segment[own].refs[q] + (IF q = slot THEN 1 ELSE 0) - Times(q, Oldest(c))
  BY <1>1, <1>2, TakeSegment
<1>5. PICK next : Become(c, next) /\ next.seg = own /\ next.holds = Append(Kept(c), slot)
  BY <1>1, <1>2, TakeNext
<1>6. /\ References(g, s) \in Nat /\ Mine(c, g, s) \in Nat
      /\ Mine(c, g, s) <= References(g, s)
      /\ References(g, s)' = References(g, s) - Mine(c, g, s)
           + (IF own = g THEN Times(s, next.holds) ELSE 0)
  BY <1>5, BecomeCounts
<1>7. /\ Times(s, Oldest(c)) \in Nat /\ Times(s, Kept(c)) \in Nat
      /\ Times(s, consumer[c].holds) = Times(s, Kept(c)) + Times(s, Oldest(c))
  BY OldestKept
<1>8. Times(s, next.holds) = Times(s, Kept(c)) + IF slot = s THEN 1 ELSE 0
  BY <1>3, <1>5, OldestKept, TimesAppend
<1>9. Accounted(g, s) /\ UNCHANGED <<locked, mapped>>
  BY CountsAll DEF Take, External, producerVars
<1>10. segment[g].refs[s] \in Int /\ segment[g].leaked[s] \in Nat
  BY CountTypes
<1>11. CASE g = own
  <2>1. Mine(c, g, s) = Times(s, Kept(c)) + Times(s, Oldest(c))
    BY <1>1, <1>7, <1>11 DEF Mine
  <2>2. References(g, s)' =
          References(g, s) - Times(s, Oldest(c)) + IF slot = s THEN 1 ELSE 0
    BY <1>6, <1>7, <1>8, <1>11, <2>1
  <2>3. segment'[g].refs[s] =
          segment[g].refs[s] + (IF s = slot THEN 1 ELSE 0) - Times(s, Oldest(c))
        /\ segment'[g].leaked[s] = segment[g].leaked[s]
        /\ segment'[g].orphan = segment[g].orphan
    BY <1>4, <1>11 DEF OneSegment, SameHeader
  <2>4. Writing(g, s)' <=> Writing(g, s)
    BY <1>9 DEF Writing
  <2>5. CASE Writing(g, s) /\ ~segment[g].orphan
    <3>1. References(g, s) = 0 /\ segment[g].leaked[s] = 0 /\ segment[g].refs[s] = -1
      BY <1>9, <2>5 DEF Accounted
    <3>2. s # slot /\ Times(s, Oldest(c)) = 0
      BY <1>3, <1>6, <1>7, <1>11, <2>1, <3>1
    <3> QED BY <2>2, <2>3, <2>4, <2>5, <3>1, <3>2 DEF Accounted
  <2>6. CASE ~Writing(g, s) /\ ~segment[g].orphan
    <3>1. segment[g].refs[s] = References(g, s) + segment[g].leaked[s]
      BY <1>9, <2>6 DEF Accounted
    <3> QED BY <1>6, <1>7, <1>10, <2>2, <2>3, <2>4, <2>6, <3>1 DEF Accounted
  <2>7. CASE segment[g].orphan
    BY <2>3, <2>7 DEF Accounted
  <2> QED BY <2>5, <2>6, <2>7
<1>12. CASE g # own
  <2>1. Mine(c, g, s) = 0
    BY <1>1, <1>12 DEF Mine
  <2>2. SlotKept(g, s)
    BY <1>4, <1>6, <1>9, <1>12, <2>1 DEF SlotKept, OneSegment, Writing
  <2> QED BY <1>9, <2>2, AccountedKept
<1> QED
  BY <1>11, <1>12

(* Giving back what is held, or leaving it behind.                         *)
LEMMA LeaveCounts ==
  ASSUME StructInv, StructInv', CountInv, NEW c \in Consumers, Stop(c) \/ ConsumerCrash(c),
         NEW g \in Starts, NEW s \in Slots
  PROVE  Accounted(g, s)'
<1>1. PICK own : own = consumer[c].seg
  OBVIOUS
<1>2. Become(c, Idle) /\ UNCHANGED <<locked, mapped>>
  BY DEF Stop, ConsumerCrash, External, producerVars
<1>3. Accounted(g, s)
  BY CountsAll
<1>4. segment[g].refs[s] \in Int /\ segment[g].leaked[s] \in Nat
  BY CountTypes
<1>5. /\ References(g, s) \in Nat /\ Mine(c, g, s) \in Nat
      /\ Mine(c, g, s) <= References(g, s)
      /\ References(g, s)' = References(g, s) - Mine(c, g, s)
  <2>1. Idle.seg # g
    BY IdleType, ConstantTypes
  <2> QED BY <1>2, <2>1, BecomeCounts
<1>6. PICK new :
        /\ OneSegment(own, new) /\ SameHeader(segment[own], new)
        /\ \A q \in Slots :
             \/ /\ new.refs[q] = segment[own].refs[q] - Times(q, consumer[c].holds)
                /\ new.leaked[q] = segment[own].leaked[q]
             \/ /\ new.refs[q] = segment[own].refs[q]
                /\ new.leaked[q] = segment[own].leaked[q] + Times(q, consumer[c].holds)
  <2>1. CASE Stop(c)
    <3>1. PICK new :
            /\ OneSegment(own, new) /\ SameHeader(segment[own], new)
            /\ new.leaked = segment[own].leaked
            /\ \A q \in Slots :
                 new.refs[q] = segment[own].refs[q] - Times(q, consumer[c].holds)
      BY <1>1, <2>1, StopSegment
    <3> QED BY <3>1
  <2>2. CASE ConsumerCrash(c)
    <3>1. PICK new :
            /\ OneSegment(own, new) /\ SameHeader(segment[own], new)
            /\ new.refs = segment[own].refs
            /\ \A q \in Slots :
                 new.leaked[q] = segment[own].leaked[q] + Times(q, consumer[c].holds)
      BY <1>1, <2>2, ConsumerCrashSegment
    <3> QED BY <3>1
  <2> QED BY <2>1, <2>2
<1>7. CASE g = own
  <2>1. Mine(c, g, s) = Times(s, consumer[c].holds)
    BY <1>1, <1>7 DEF Mine
  <2>2. /\ segment'[g].orphan = segment[g].orphan
        /\ \/ /\ segment'[g].refs[s] = segment[g].refs[s] - Mine(c, g, s)
              /\ segment'[g].leaked[s] = segment[g].leaked[s]
           \/ /\ segment'[g].refs[s] = segment[g].refs[s]
              /\ segment'[g].leaked[s] = segment[g].leaked[s] + Mine(c, g, s)
    BY <1>6, <1>7, <2>1 DEF OneSegment, SameHeader
  <2>3. Writing(g, s)' <=> Writing(g, s)
    BY <1>2 DEF Writing
  <2>4. CASE Writing(g, s) /\ ~segment[g].orphan
    <3>1. /\ References(g, s) = 0 /\ segment[g].leaked[s] = 0 /\ segment[g].refs[s] = -1
          /\ Mine(c, g, s) = 0
      BY <1>3, <1>5, <2>4 DEF Accounted
    <3> QED BY <1>5, <2>2, <2>3, <2>4, <3>1 DEF Accounted
  <2>5. CASE ~Writing(g, s) /\ ~segment[g].orphan
    <3>1. segment[g].refs[s] = References(g, s) + segment[g].leaked[s]
      BY <1>3, <2>5 DEF Accounted
    <3> QED BY <1>4, <1>5, <2>2, <2>3, <2>5, <3>1 DEF Accounted
  <2>6. CASE segment[g].orphan
    BY <2>2, <2>6 DEF Accounted
  <2> QED BY <2>4, <2>5, <2>6
<1>8. CASE g # own
  <2>1. Mine(c, g, s) = 0
    BY <1>1, <1>8 DEF Mine
  <2>2. SlotKept(g, s)
    BY <1>2, <1>5, <1>6, <1>8, <2>1 DEF SlotKept, OneSegment, Writing
  <2> QED BY <1>3, <2>2, AccountedKept
<1> QED
  BY <1>7, <1>8

LEMMA IInvStep == IInv /\ [Next]_vars => IInv'
<1> SUFFICES ASSUME IInv, [Next]_vars PROVE IInv'
  OBVIOUS
<1>1. StructInv /\ CountInv /\ StructInv'
  BY StructStep DEF IInv
<1>2. ASSUME NEW g \in Starts, NEW s \in Slots PROVE Accounted(g, s)'
  <2>1. CASE ProducerNext
    BY <1>1, <2>1, ProducerCounts
  <2>2. ASSUME NEW c \in Consumers, Serve(c) \/ Starting(c) \/ Running(c)
        PROVE  Accounted(g, s)'
    BY <1>1, <2>2, StartingCounts, TakeCounts, LeaveCounts DEF Running
  <2>3. CASE UNCHANGED vars
    <3>1. UNCHANGED <<segment, mapped, locked, consumer>> /\ Accounted(g, s)
      BY <1>1, <2>3, CountsAll DEF vars, producerVars
    <3>2. SlotKept(g, s)
      BY <3>1, NoConsumer DEF SlotKept, Writing
    <3> QED BY <3>1, <3>2, AccountedKept
  <2> QED BY <2>1, <2>2, <2>3 DEF Next
<1>3. CountInv'
  BY <1>2 DEF CountInv, RefsAccounted, WrittenFree, Accounted
<1> QED
  BY <1>1, <1>3 DEF IInv

LEMMA IInvAlways == Spec => []IInv
<1>1. Init => IInv
  BY TypeInit, CountInit DEF IInv
<1> QED
  BY <1>1, IInvStep, PTL DEF Spec

(***************************************************************************)
(* Through any stops, crashes and starts of both sides, the counters of    *)
(* every segment whose producer did not crash are the references held and  *)
(* left behind (gstnvmmappsrc.cpp:291-303, 385-406): a consumer that       *)
(* leaves gives back exactly what it took, to the segment it took it from, *)
(* whether or not that has kept its name.                                  *)
(***************************************************************************)
THEOREM CountersAreExact == Spec => []RefsAccounted
<1>1. IInv => RefsAccounted
  BY DEF IInv, CountInv
<1> QED
  BY IInvAlways, <1>1, PTL

(***************************************************************************)
(* The slot a producer fills is held by no consumer of its segment, those  *)
(* that attached to it before the producer's start failed and those that   *)
(* were killed with slots in their window included (gstnvmmsink.cpp:       *)
(* 434-446).                                                               *)
(***************************************************************************)
THEOREM WriterIsAlone == Spec => []WrittenFree
<1>1. IInv => WrittenFree
  BY DEF IInv, CountInv
<1> QED
  BY IInvAlways, <1>1, PTL

-----------------------------------------------------------------------------
(* What keeps a consumer from waiting for ever, in start() and on a        *)
(* segment that nobody writes to any more.                                 *)

(* A socket is its last start's, and that is up.                           *)
ListenerUp == socket # None => phase = "up" /\ socket = start

LEMMA ConsumerStep ==
  ASSUME StructInv, NEW c \in Consumers, Serve(c) \/ Starting(c) \/ Running(c)
  PROVE  /\ UNCHANGED <<named, socket, phase, start, mapped, locked>>
         /\ HeadersKept
<1>1. CASE Serve(c)
  BY <1>1, SameSegments DEF Serve, producerVars
<1>2. CASE Starting(c)
  BY <1>2, SameSegments
     DEF Starting, Attach, Connect, ConnectTimeout, Receive, Hangup, External, producerVars
<1>3. CASE Take(c)
  <2>1. HeadersKept
    BY <1>3, TakeSegment, OneSegmentHeaders
  <2> QED BY <1>3, <2>1 DEF Take, External, producerVars
<1>4. CASE End(c)
  BY <1>4, SameSegments DEF End, External, producerVars
<1>5. CASE Stop(c)
  <2>1. HeadersKept
    BY <1>5, StopSegment, OneSegmentHeaders
  <2> QED BY <1>5, <2>1 DEF Stop, External, producerVars
<1>6. CASE ConsumerCrash(c)
  <2>1. HeadersKept
    BY <1>6, ConsumerCrashSegment, OneSegmentHeaders
  <2> QED BY <1>6, <2>1 DEF ConsumerCrash, producerVars
<1> QED
  BY <1>1, <1>2, <1>3, <1>4, <1>5, <1>6 DEF Running

LEMMA ListenerStep == ASSUME StructInv, ListenerUp, [Next]_vars PROVE ListenerUp'
<1>1. CASE Open
  BY <1>1 DEF Open, ListenerUp
<1>2. CASE Reset \/ SetCaps \/ Lock \/ Publish
  BY <1>2 DEF Reset, SetCaps, Lock, Publish, ListenerUp
<1>3. CASE Listen
  BY <1>3 DEF Listen, ServerListen, ListenerUp
<1>4. CASE ListenFails
  BY <1>4 DEF ListenFails, ListenerUp
<1>5. CASE CloseSockets \/ Crash
  BY <1>5 DEF CloseSockets, Crash, ListenerUp
<1>6. CASE Unlink
  BY <1>6 DEF Unlink, ListenerUp
<1>7. ASSUME NEW c \in Consumers, Serve(c) \/ Starting(c) \/ Running(c)
      PROVE  ListenerUp'
  BY <1>7, ConsumerStep DEF ListenerUp
<1>8. CASE UNCHANGED vars
  BY <1>8 DEF vars, producerVars, ListenerUp
<1> QED
  BY <1>1, <1>2, <1>3, <1>4, <1>5, <1>6, <1>7, <1>8 DEF Next, ProducerNext

(* A consumer whose recv has nothing to return, on a connection that is    *)
(* open.                                                                   *)
Blocked(c) ==
  /\ consumer[c].phase = "receiving" /\ RecvFds(c) = None
  /\ socket = consumer[c].server

(* It is connected to somebody.                                            *)
Connected == \A c \in Consumers : consumer[c].phase = "receiving" => consumer[c].server # None

(* Take, seen from its consumer.                                           *)
LEMMA TakeTakes ==
  ASSUME StructInv, NEW c \in Consumers, Take(c)
  PROVE  /\ consumer'[c].phase = "running" /\ consumer'[c].seg = consumer[c].seg
         /\ consumer'[c].last = segment[consumer[c].seg].frame
<1> DEFINE old == consumer[c]
           holds == Append(Kept(c), segment[old.seg].writeIdx)
           n == segment[old.seg].frame
           next == [old EXCEPT !.holds = holds, !.last = n]
<1>1. consumer \in [Consumers -> Consumer] /\ old \in Consumer /\ old.phase = "running"
  BY DEF Take, StructInv, TypeOK
<1>2. Become(c, next)
  BY DEF Take, Kept
<1>3. next.phase = old.phase /\ next.seg = old.seg /\ next.last = n
  <2> HIDE DEF old, holds, n
  <2> QED BY <1>1 DEF Consumer
<1>4. consumer'[c] = next
  <2> HIDE DEF next
  <2> QED BY <1>1, <1>2 DEF Become
<1> QED
  BY <1>1, <1>3, <1>4

LEMMA ConnectedStep == ASSUME StructInv, Connected, [Next]_vars PROVE Connected'
<1>1. CASE UNCHANGED consumer
  BY <1>1 DEF Connected
<1>2. ASSUME NEW q \in Consumers, Serve(q) \/ Starting(q) \/ Running(q) PROVE Connected'
  <2> DEFINE old == consumer[q]
  <2> SUFFICES ASSUME NEW c \in Consumers, consumer'[c].phase = "receiving"
               PROVE  consumer'[c].server # None
    BY DEF Connected
  <2>1. consumer \in [Consumers -> Consumer] /\ old \in Consumer
    BY DEF StructInv, TypeOK
  <2>2. PICK next : Become(q, next)
    BY <1>2 DEF Serve, SendFds, Starting, Attach, Connect, ClientConnect, ConnectTimeout,
                Receive, Hangup, Running, Take, End, Stop, ConsumerCrash, Fails, Become
  <2>3. consumer'[q] = next /\ \A r \in Consumers \ {q} : consumer'[r] = consumer[r]
    BY <2>1, <2>2 DEF Become
  <2>4. CASE c # q
    BY <2>3, <2>4 DEF Connected
  <2>5. CASE c = q /\ Serve(q)
    <3>1. consumer'[q] = [old EXCEPT !.pool = start]
      BY <2>1, <2>5 DEF Serve, SendFds
    <3>2. consumer'[q].server = old.server /\ old.phase = "receiving"
      <4> HIDE DEF old
      <4> QED BY <2>1, <2>5, <3>1 DEF Consumer, Serve, old
    <3> QED BY <2>5, <3>2 DEF Connected
  <2>6. CASE c = q /\ Connect(q)
    <3>1. CASE socket = None
      BY <2>1, <2>6, <3>1, IdleType DEF Connect, ClientConnect, Fails, Become
    <3>2. CASE socket # None
      <4>1. consumer'[q] = [old EXCEPT !.phase = "receiving", !.server = socket]
        BY <2>1, <2>6, <3>2 DEF Connect, ClientConnect, Become
      <4> HIDE DEF old
      <4>2. consumer'[q].server = socket
        BY <2>1, <4>1 DEF Consumer
      <4> QED BY <2>6, <3>2, <4>2
    <3> QED BY <3>1, <3>2
  <2>7. CASE c = q /\ ~Serve(q) /\ ~Connect(q)
    <3>1. consumer'[q].phase # "receiving"
      <4>1. CASE Attach(q)
        <5>1. consumer'[q] = [Idle EXCEPT !.phase = "waiting", !.seg = named]
          BY <2>1, <4>1 DEF Attach, Become
        <5> QED BY <5>1 DEF Idle
      <4>2. CASE Receive(q)
        <5>1. consumer'[q] = [old EXCEPT !.phase = "running", !.last = 0]
          BY <2>1, <4>2 DEF Receive, Become
        <5> HIDE DEF old
        <5> QED BY <2>1, <5>1 DEF Consumer
      <4>3. CASE ConnectTimeout(q) \/ Hangup(q) \/ Stop(q) \/ ConsumerCrash(q)
        <5>1. consumer'[q] = Idle
          BY <2>1, <4>3 DEF ConnectTimeout, Hangup, Stop, ConsumerCrash, Fails, Become
        <5> QED BY <5>1, IdleType
      <4>4. CASE Take(q)
        BY <4>4, TakeTakes
      <4>5. CASE End(q)
        <5>1. consumer'[q] = [old EXCEPT !.phase = "ended"]
          BY <2>1, <4>5 DEF End, Become
        <5> HIDE DEF old
        <5> QED BY <2>1, <5>1 DEF Consumer
      <4> QED BY <1>2, <2>7, <4>1, <4>2, <4>3, <4>4, <4>5 DEF Starting, Running
    <3> QED BY <2>7, <3>1
  <2> QED BY <2>4, <2>5, <2>6, <2>7
<1>3. CASE ProducerNext \/ UNCHANGED vars
  BY <1>1, <1>3 DEF ProducerNext, Open, Reset, Listen, ListenFails, SetCaps, Lock, Publish,
                    CloseSockets, Unlink, Crash, vars
<1> QED
  BY <1>2, <1>3 DEF Next

(* The guard of Serve(c).                                                  *)
ServeDue(c) ==
  /\ phase = "up" /\ pooled
  /\ consumer[c].phase = "receiving"
  /\ consumer[c].server = start /\ consumer[c].pool = None

NobodyCaught == \A c \in Consumers : Blocked(c) => AwaitsCaps(c) \/ ServeDue(c)

(***************************************************************************)
(* The recv without a timeout (gstnvmmappsrc.cpp:246): who waits in it on  *)
(* an open connection is connected to the producer that is up, which       *)
(* either has no caps yet, and the wait lasts until it has, or has the     *)
(* pool to send; the connection to one that failed, stopped or crashed is  *)
(* closed, even when it was made from the header of yet another.           *)
(***************************************************************************)
THEOREM RecvReturns == Spec => []NobodyCaught
<1> DEFINE Inv == StructInv /\ ListenerUp /\ Connected
<1>1. Init => Inv
  <2>1. Init => ListenerUp /\ Connected
    BY IdleType DEF Init, ListenerUp, Connected
  <2> QED BY <2>1, TypeInit
<1>2. Inv /\ [Next]_vars => Inv'
  BY StructStep, ListenerStep, ConnectedStep
<1>3. Inv => NobodyCaught
  <2> SUFFICES ASSUME Inv, NEW c \in Consumers, Blocked(c) PROVE AwaitsCaps(c) \/ ServeDue(c)
    BY DEF NobodyCaught
  <2>1. phase = "up" /\ socket = start
    BY DEF Blocked, Connected, ListenerUp
  <2> QED BY <2>1 DEF Blocked, RecvFds, AwaitsCaps, ServeDue
<1> QED
  BY <1>1, <1>2, <1>3, PTL DEF Spec

-----------------------------------------------------------------------------
(* A segment that was made and has lost its name never has it again, and   *)
(* no producer publishes to it.                                            *)
LEMMA NamelessKept ==
  ASSUME StructInv, [Next]_vars, NEW g \in Starts, g <= start, named # g
  PROVE  /\ named' # g
         /\ segment'[g].ready = segment[g].ready /\ segment'[g].frame = segment[g].frame
<1> DEFINE Same == segment'[g].ready = segment[g].ready /\ segment'[g].frame = segment[g].frame
<1>1. CASE Open
  <2>1. start \in Nat /\ g \in Nat /\ start' = start + 1
    BY <1>1, ConstantTypes DEF Open, StructInv, TypeOK
  <2> QED BY <1>1, <2>1 DEF Open
<1>2. CASE Reset \/ SetCaps \/ Lock \/ Publish \/ Crash
  <2>1. phase # "down"
    <3>1. Lock => phase # "down"
      BY DEF Lock
    <3> QED BY <1>2, <3>1 DEF Reset, SetCaps, Publish, Crash
  <2>2. mapped # g
    BY <2>1, MappedType
  <2>3. segment'[g] = segment[g]
    BY <1>2, <2>2, ResetSegment, SetCapsSegment, LockSegment, PublishSegment, CrashSegment
       DEF OneSegment
  <2>4. named' = named
    BY <1>2 DEF Reset, SetCaps, Lock, Publish, Crash
  <2> QED BY <2>3, <2>4
<1>3. CASE Listen \/ ListenFails \/ CloseSockets
  BY <1>3 DEF Listen, ListenFails, CloseSockets
<1>4. CASE Unlink
  <2>1. g # None
    BY ConstantTypes
  <2> QED BY <1>4, <2>1 DEF Unlink
<1>5. ASSUME NEW c \in Consumers, Serve(c) \/ Starting(c) \/ Running(c)
      PROVE  named' # g /\ Same
  BY <1>5, ConsumerStep DEF HeadersKept, SameHeader
<1>6. CASE UNCHANGED vars
  BY <1>6 DEF vars
<1> QED
  BY <1>1, <1>2, <1>3, <1>4, <1>5, <1>6 DEF Next, ProducerNext

(* What a consumer that goes on running has done.                          *)
LEMMA RunsOn ==
  ASSUME StructInv, [Next]_vars, NEW c \in Consumers,
         consumer[c].phase = "running", consumer'[c].phase = "running",
         NEW g, g = consumer[c].seg
  PROVE  /\ consumer'[c].seg = g
         /\ Take(c) => consumer'[c].last = segment[g].frame
         /\ Take(c) \/ consumer'[c].last = consumer[c].last
<1> DEFINE old == consumer[c]
           Claim == /\ consumer'[c].seg = g
                    /\ Take(c) => consumer'[c].last = segment[g].frame
                    /\ Take(c) \/ consumer'[c].last = old.last
<1>1. consumer \in [Consumers -> Consumer] /\ old \in Consumer
  BY DEF StructInv, TypeOK
<1>2. Take(c) => Claim
  BY TakeTakes
<1>3. ~Take(c) => consumer'[c] = consumer[c]
  <2> SUFFICES ASSUME ~Take(c) PROVE consumer'[c] = consumer[c]
    OBVIOUS
  <2>1. CASE UNCHANGED consumer
    BY <2>1
  <2>2. ASSUME NEW q \in Consumers, q # c, Serve(q) \/ Starting(q) \/ Running(q)
        PROVE  consumer'[c] = consumer[c]
    <3>1. PICK next : Become(q, next)
      BY <2>2 DEF Serve, SendFds, Starting, Attach, Connect, ClientConnect, ConnectTimeout,
                  Receive, Hangup, Running, Take, End, Stop, ConsumerCrash, Fails, Become
    <3> QED BY <1>1, <2>2, <3>1 DEF Become
  <2>3. ~Serve(c) /\ ~Starting(c)
    BY DEF Serve, Starting, Attach, Connect, ConnectTimeout, Receive, Hangup
  <2>4. ~Stop(c) /\ ~ConsumerCrash(c)
    <3>1. Stop(c) \/ ConsumerCrash(c) => consumer'[c].phase = "idle"
      BY <1>1, IdleType DEF Stop, ConsumerCrash, Become
    <3> QED BY <3>1
  <2>5. ~End(c)
    <3>1. End(c) => consumer'[c] = [old EXCEPT !.phase = "ended"]
      BY <1>1 DEF End, Become
    <3>2. End(c) => consumer'[c].phase = "ended"
      <4> HIDE DEF old
      <4> QED BY <1>1, <3>1 DEF Consumer
    <3> QED BY <3>2
  <2>6. ProducerNext \/ UNCHANGED vars => UNCHANGED consumer
    BY DEF ProducerNext, Open, Reset, Listen, ListenFails, SetCaps, Lock, Publish,
           CloseSockets, Unlink, Crash, vars
  <2> QED BY <2>1, <2>2, <2>3, <2>4, <2>5, <2>6 DEF Next, Running
<1> QED
  BY <1>2, <1>3

(* From a segment without a name a running consumer takes one frame more   *)
(* at most.                                                                *)
RunsDry ==
  \A c \in Consumers :
    consumer[c].phase = "running" /\ consumer'[c].phase = "running"
        /\ named # consumer[c].seg =>
      /\ named' # consumer'[c].seg
      /\ Take(c) \/ ~NewFrame(c) => ~NewFrame(c)'

(***************************************************************************)
(* When the producer stops, its consumers do not go on (gstnvmmappsrc.cpp: *)
(* 344-380): a consumer whose segment has lost its name takes one frame    *)
(* more at most, whatever producers come afterwards and whatever becomes   *)
(* of the other consumers, and all it can do then is to end.               *)
(***************************************************************************)
THEOREM NothingNewWithoutName == Spec => [][RunsDry]_vars
<1>1. StructInv /\ [Next]_vars => [RunsDry]_vars
  <2> SUFFICES ASSUME StructInv, [Next]_vars, NEW c \in Consumers,
                      consumer[c].phase = "running", consumer'[c].phase = "running",
                      named # consumer[c].seg
               PROVE  /\ named' # consumer'[c].seg
                      /\ Take(c) \/ ~NewFrame(c) => ~NewFrame(c)'
    BY DEF RunsDry
  <2>1. PICK g : g = consumer[c].seg
    OBVIOUS
  <2>2. g \in Starts /\ g <= start
    BY <2>1, HeldType DEF StructInv, ConsumerInv
  <2>3. /\ named' # g
        /\ segment'[g].ready = segment[g].ready /\ segment'[g].frame = segment[g].frame
    BY <2>1, <2>2, NamelessKept
  <2>4. /\ consumer'[c].seg = g
        /\ Take(c) => consumer'[c].last = segment[g].frame
        /\ Take(c) \/ consumer'[c].last = consumer[c].last
    BY <2>1, RunsOn
  <2>5. NewFrame(c)' <=> segment'[g].ready /\ segment'[g].frame # consumer'[c].last
    BY <2>4 DEF NewFrame
  <2>6. NewFrame(c) <=> segment[g].ready /\ segment[g].frame # consumer[c].last
    BY <2>1 DEF NewFrame
  <2> QED BY <2>3, <2>4, <2>5, <2>6
<1>2. IInv => StructInv
  BY DEF IInv
<1> QED
  BY <1>1, <1>2, IInvAlways, PTL DEF Spec
=============================================================================
