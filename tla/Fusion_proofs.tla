--------------------------- MODULE Fusion_proofs ---------------------------
(***************************************************************************)
(* Proofs about Fusion, for streams, queues and pads of any size, any set  *)
(* of frames with a PTS and any number of lost frames: what is joined is   *)
(* right, and as long as the branches lose less than the queues hold the   *)
(* stream is never stuck and every step brings its end nearer.             *)
(***************************************************************************)
EXTENDS Fusion, FiniteSetTheorems, TLAPS

Types ==
  /\ next \in 1 .. MaxFrames + 1
  /\ target \in Branches
  /\ teeEos \in BOOLEAN
  /\ branch \in [Branches -> SUBSET Frames]
  /\ lost \in [Branches -> 0 .. MaxLost]
  /\ pad \in [Branches -> SUBSET Frames]
  /\ padEos \in [Branches -> BOOLEAN]
  /\ fused \subseteq [detection : Frames, flow : Frames]
  /\ ended \in BOOLEAN
  /\ delivered \in [Branches -> SUBSET Frames]

(* The frames the join has taken from pad b, fused or dropped.             *)
Taken(b) == delivered[b] \ pad[b]

(* Frames go through a branch in stream order.                             *)
BranchInOrder ==
  \A b \in Branches :
    /\ \A x \in delivered[b], y \in branch[b] : x < y
    /\ \A x \in delivered[b] \union branch[b] :
         x < next \/ (x = next /\ target = "flow" /\ b = "detection")

(* ... and are taken from the pad in that order.                           *)
PadInOrder ==
  \A b \in Branches : /\ pad[b] \subseteq delivered[b]
                      /\ \A x \in Taken(b), y \in pad[b] : x < y

(* What is fused has been taken.                                           *)
FusedTaken ==
  \A p \in fused : /\ p.detection \in Taken("detection")
                   /\ p.flow \in Taken("flow")

(* A frame is taken from a pad only when the other branch has delivered it *)
(* or has already passed it: it cannot come any more.                      *)
Passed ==
  \A b \in Branches : \A x \in Taken(b) :
    StampedUpTo(x) => \E y \in delivered[Other(b)] : x <= y

Order == BranchInOrder /\ PadInOrder /\ FusedTaken /\ Passed
Join == PairsOneFrame /\ JoinComplete /\ FusedInOrder
IInv == Types /\ Order /\ Join

LEMMA OtherBranch ==
  \A b \in Branches : /\ Other(b) \in Branches /\ Other(b) # b
                      /\ \A c \in Branches : c = b \/ c = Other(b)
BY DEF Branches, Other

LEMMA FrameNumbers == Frames \subseteq Nat
BY FusionAssumption DEF Frames

-----------------------------------------------------------------------------
LEMMA InitIInv == Init => IInv
<1> SUFFICES ASSUME Init PROVE IInv
  OBVIOUS
<1>1. Types
  <2>1. teeEos \in BOOLEAN /\ padEos \in [Branches -> BOOLEAN] /\ ended \in BOOLEAN
    BY DEF Init
  <2>2. next \in 1 .. MaxFrames + 1 /\ lost \in [Branches -> 0 .. MaxLost]
    BY FusionAssumption DEF Init
  <2> QED BY <2>1, <2>2 DEF Init, Types, Branches
<1>2. Order
  BY DEF Init, Order, BranchInOrder, PadInOrder, FusedTaken, Passed, Taken
<1>3. Join
  BY DEF Init, Join, PairsOneFrame, JoinComplete, FusedInOrder, Branches
<1> QED BY <1>1, <1>2, <1>3 DEF IInv

(* What an action that leaves the pads, their history and the pairs alone  *)
(* has to show.                                                            *)
LEMMA UntouchedJoin ==
  ASSUME IInv, UNCHANGED <<pad, delivered, fused, ended>>
  PROVE  Join' /\ PadInOrder' /\ FusedTaken' /\ Passed'
BY DEF IInv, Join, PairsOneFrame, JoinComplete, FusedInOrder, Order, PadInOrder,
       FusedTaken, Passed, Taken

LEMMA TeePushIInv == IInv /\ TeePush => IInv'
<1> SUFFICES ASSUME IInv, TeePush PROVE IInv'
  OBVIOUS
<1>1. next \in Frames /\ target \in Branches
  BY FusionAssumption DEF IInv, Types, TeePush, Frames
<1>2. Types'
  BY <1>1, OtherBranch, FusionAssumption DEF IInv, Types, TeePush, Frames
<1>3. BranchInOrder'
  <2> SUFFICES ASSUME NEW b \in Branches
               PROVE  /\ \A x \in delivered[b], y \in branch'[b] : x < y
                      /\ \A x \in delivered[b] \union branch'[b] :
                           x < next' \/ (x = next' /\ target' = "flow" /\ b = "detection")
    BY DEF BranchInOrder, TeePush
  <2>1. delivered[b] \subseteq Nat /\ branch[b] \subseteq Nat /\ next \in Nat
    BY <1>1, FrameNumbers DEF IInv, Types
  <2>2. /\ \A x \in delivered[b], y \in branch[b] : x < y
        /\ \A x \in delivered[b] \union branch[b] :
             x < next \/ (x = next /\ target = "flow" /\ b = "detection")
    BY DEF IInv, Order, BranchInOrder
  <2>3. CASE target = "detection"
    <3>1. target' = "flow" /\ next' = next
      BY <2>3 DEF TeePush, Other
    <3>2. CASE b = "detection"
      <4>1. branch'[b] = branch[b] \union {next}
        BY <2>3, <3>2 DEF TeePush, IInv, Types
      <4> QED BY <2>1, <2>2, <2>3, <3>1, <3>2, <4>1
    <3>3. CASE b = "flow"
      <4>1. branch'[b] = branch[b]
        BY <2>3, <3>3 DEF TeePush, IInv, Types
      <4> QED BY <2>1, <2>2, <2>3, <3>1, <3>3, <4>1
    <3> QED BY <3>2, <3>3 DEF Branches
  <2>4. CASE target = "flow"
    <3>1. target' = "detection" /\ next' = next + 1
      BY <2>4 DEF TeePush, Other
    <3>2. CASE b = "detection"
      <4>1. branch'[b] = branch[b]
        BY <2>4, <3>2 DEF TeePush, IInv, Types
      <4> QED BY <2>1, <2>2, <2>4, <3>1, <3>2, <4>1
    <3>3. CASE b = "flow"
      <4>1. branch'[b] = branch[b] \union {next}
        BY <2>4, <3>3 DEF TeePush, IInv, Types
      <4> QED BY <2>1, <2>2, <2>4, <3>1, <3>3, <4>1
    <3> QED BY <3>2, <3>3 DEF Branches
  <2> QED BY <1>1, <2>3, <2>4 DEF Branches
<1> QED BY <1>2, <1>3, UntouchedJoin DEF IInv, Order, TeePush

LEMMA TeeEndsIInv == IInv /\ TeeEnds => IInv'
<1> SUFFICES ASSUME IInv, TeeEnds PROVE IInv'
  OBVIOUS
<1>1. Types'
  BY DEF IInv, Types, TeeEnds
<1>2. BranchInOrder'
  BY DEF IInv, Order, BranchInOrder, TeeEnds
<1> QED BY <1>1, <1>2, UntouchedJoin DEF IInv, Order, TeeEnds

LEMMA DeliverEosIInv == ASSUME IInv, NEW b \in Branches, DeliverEos(b) PROVE IInv'
<1>1. Types'
  BY DEF IInv, Types, DeliverEos, teeVars
<1>2. BranchInOrder'
  BY DEF IInv, Order, BranchInOrder, DeliverEos, teeVars
<1> QED BY <1>1, <1>2, UntouchedJoin DEF IInv, Order, DeliverEos

LEMMA LoseIInv == ASSUME IInv, NEW b \in Branches, Lose(b) PROVE IInv'
<1>1. Types'
  <2>1. lost' \in [Branches -> 0 .. MaxLost]
    BY FusionAssumption DEF IInv, Types, Lose
  <2>2. branch' \in [Branches -> SUBSET Frames]
    BY DEF IInv, Types, Lose
  <2> QED BY <2>1, <2>2 DEF IInv, Types, Lose, teeVars
<1>2. BranchInOrder'
  <2>1. \A c \in Branches : branch'[c] \subseteq branch[c]
    BY DEF IInv, Types, Lose
  <2> QED BY <2>1 DEF IInv, Order, BranchInOrder, Lose, teeVars
<1> QED BY <1>1, <1>2, UntouchedJoin DEF IInv, Order, Lose

LEMMA DeliverIInv == ASSUME IInv, NEW b \in Branches, Deliver(b) PROVE IInv'
<1>1. PICK z \in branch[b] :
        /\ IsHead(z, branch[b])
        /\ branch' = [branch EXCEPT ![b] = @ \ {z}]
        /\ pad' = [pad EXCEPT ![b] = @ \union {z}]
        /\ delivered' = [delivered EXCEPT ![b] = @ \union {z}]
  BY DEF Deliver
<1>2. z \in Frames /\ \A y \in branch[b] : z <= y
  BY <1>1 DEF IInv, Types, IsHead
<1>3. /\ branch'[b] = branch[b] \ {z}
      /\ pad'[b] = pad[b] \union {z}
      /\ delivered'[b] = delivered[b] \union {z}
      /\ \A c \in Branches \ {b} :
           branch'[c] = branch[c] /\ pad'[c] = pad[c] /\ delivered'[c] = delivered[c]
  BY <1>1 DEF IInv, Types
<1>4. UNCHANGED <<next, target, teeEos, padEos, fused, ended>>
  BY DEF Deliver, teeVars
<1>5. \A c \in Branches : delivered[c] \subseteq Nat /\ branch[c] \subseteq Nat /\ pad[c] \subseteq Nat
  BY FrameNumbers DEF IInv, Types
(* The frame is new at the pad, so nothing that was taken is put back.     *)
<1>6. \A x \in delivered[b] : x < z
  BY DEF IInv, Order, BranchInOrder
<1>7. z \notin delivered[b]
  BY <1>2, <1>5, <1>6
<1>8. \A c \in Branches : Taken(c)' = Taken(c)
  BY <1>3, <1>7 DEF Taken
<1>9. Types'
  <2>1. /\ branch' \in [Branches -> SUBSET Frames]
        /\ pad' \in [Branches -> SUBSET Frames]
        /\ delivered' \in [Branches -> SUBSET Frames]
    BY <1>1, <1>2 DEF IInv, Types
  <2>2. lost' \in [Branches -> 0 .. MaxLost]
    BY FusionAssumption DEF IInv, Types, Deliver
  <2> QED BY <1>4, <2>1, <2>2 DEF IInv, Types
<1>10. BranchInOrder'
  <2> SUFFICES ASSUME NEW c \in Branches
               PROVE  /\ \A x \in delivered'[c], y \in branch'[c] : x < y
                      /\ \A x \in delivered'[c] \union branch'[c] :
                           x < next \/ (x = next /\ target = "flow" /\ c = "detection")
    BY <1>4 DEF BranchInOrder
  <2>1. /\ \A x \in delivered[c], y \in branch[c] : x < y
        /\ \A x \in delivered[c] \union branch[c] :
             x < next \/ (x = next /\ target = "flow" /\ c = "detection")
    BY DEF IInv, Order, BranchInOrder
  <2>2. CASE c = b
    BY <1>2, <1>3, <1>5, <2>1, <2>2
  <2>3. CASE c # b
    BY <1>3, <2>1, <2>3
  <2> QED BY <2>2, <2>3
<1>11. PadInOrder'
  <2> SUFFICES ASSUME NEW c \in Branches
               PROVE  /\ pad'[c] \subseteq delivered'[c]
                      /\ \A x \in Taken(c), y \in pad'[c] : x < y
    BY <1>8 DEF PadInOrder
  <2>1. pad[c] \subseteq delivered[c] /\ \A x \in Taken(c), y \in pad[c] : x < y
    BY DEF IInv, Order, PadInOrder
  <2>2. CASE c = b
    BY <1>3, <1>6, <2>1, <2>2 DEF Taken
  <2>3. CASE c # b
    BY <1>3, <2>1, <2>3
  <2> QED BY <2>2, <2>3
<1>12. FusedTaken'
  BY <1>4, <1>8 DEF IInv, Order, FusedTaken, Branches
<1>13. Passed'
  <2>1. \A c \in Branches : delivered[c] \subseteq delivered'[c]
    BY <1>3
  <2> QED BY <1>8, <2>1, OtherBranch DEF IInv, Order, Passed
<1>14. JoinComplete'
  <2> SUFFICES ASSUME NEW x \in delivered'["detection"] \intersect delivered'["flow"],
                      StampedUpTo(x)
               PROVE  \/ [detection |-> x, flow |-> x] \in fused
                      \/ ~ended /\ x \in pad'["detection"] /\ x \in pad'["flow"]
    BY <1>4 DEF JoinComplete, StampedUpTo
  <2>1. CASE x # z
    <3>1. x \in delivered["detection"] \intersect delivered["flow"]
      BY <1>3, <2>1 DEF Branches
    <3>2. \A c \in Branches : x \in pad[c] => x \in pad'[c]
      BY <1>3
    <3> QED BY <3>1, <3>2 DEF IInv, Join, JoinComplete, Branches
  (* Were z taken from the other pad, branch b would already have passed it. *)
  <2>2. CASE x = z
    <3>1. z \in delivered[Other(b)]
      BY <1>3, <2>2, OtherBranch DEF Branches, Other
    <3>2. z \notin Taken(Other(b))
      <4> SUFFICES ASSUME z \in Taken(Other(b)) PROVE FALSE
        OBVIOUS
      <4>1. Other(Other(b)) = b
        BY DEF Branches, Other
      <4>2. PICK y \in delivered[b] : z <= y
        BY <2>2, <4>1, OtherBranch DEF IInv, Order, Passed
      <4> QED BY <1>2, <1>5, <1>6, <4>2
    <3>3. z \in pad'["detection"] /\ z \in pad'["flow"]
      BY <1>3, <3>1, <3>2, OtherBranch DEF Taken, Branches
    <3>4. ~ended
      BY DEF Deliver
    <3> QED BY <2>2, <3>3, <3>4
  <2> QED BY <2>1, <2>2
<1>15. PairsOneFrame' /\ FusedInOrder'
  BY <1>4 DEF IInv, Join, PairsOneFrame, FusedInOrder
<1> QED BY <1>9, <1>10, <1>11, <1>12, <1>13, <1>14, <1>15 DEF IInv, Order, Join

(* After the end of pad b nothing waits at both pads.                      *)
LEMMA EndIInv == ASSUME IInv, NEW b \in Branches, End(b) PROVE IInv'
<1>1. Types'
  BY DEF IInv, Types, End, teeVars
<1>2. Order'
  BY DEF IInv, Order, BranchInOrder, PadInOrder, FusedTaken, Passed, Taken, End, teeVars
<1>3. JoinComplete'
  <2>1. ~(\E x : x \in pad["detection"] /\ x \in pad["flow"])
    BY DEF End, Branches
  <2> QED BY <2>1 DEF IInv, Join, JoinComplete, End
<1>4. PairsOneFrame' /\ FusedInOrder'
  BY DEF IInv, Join, PairsOneFrame, FusedInOrder, End
<1> QED BY <1>1, <1>2, <1>3, <1>4 DEF IInv, Join

LEMMA DropOlderIInv == ASSUME IInv, NEW b \in Branches, DropOlder(b) PROVE IInv'
<1>1. PICK x \in pad[b], y \in pad[Other(b)] :
        /\ IsHead(x, pad[b]) /\ IsHead(y, pad[Other(b)])
        /\ x < y
        /\ pad' = [pad EXCEPT ![b] = @ \ {x}]
  BY DEF DropOlder
<1>2. UNCHANGED <<next, target, teeEos, branch, lost, padEos, fused, ended, delivered>>
  BY DEF DropOlder, teeVars
<1>3. /\ pad'[b] = pad[b] \ {x}
      /\ \A c \in Branches \ {b} : pad'[c] = pad[c]
  BY <1>1 DEF IInv, Types
<1>4. \A c \in Branches : /\ delivered[c] \subseteq Nat
                          /\ pad[c] \subseteq delivered[c]
                          /\ \A w \in Taken(c), z \in pad[c] : w < z
  BY FrameNumbers DEF IInv, Types, Order, PadInOrder
<1>5. /\ Taken(b)' = Taken(b) \union {x}
      /\ \A c \in Branches \ {b} : Taken(c)' = Taken(c)
  BY <1>2, <1>3, <1>4 DEF Taken
<1>6. \A z \in pad[b] \ {x} : x < z
  BY <1>1, <1>4 DEF IsHead
<1>7. Types'
  BY <1>1, <1>2 DEF IInv, Types
<1>8. BranchInOrder'
  BY <1>2 DEF IInv, Order, BranchInOrder
<1>9. PadInOrder'
  <2> SUFFICES ASSUME NEW c \in Branches
               PROVE  /\ pad'[c] \subseteq delivered[c]
                      /\ \A w \in Taken(c)', z \in pad'[c] : w < z
    BY <1>2 DEF PadInOrder
  <2>1. CASE c = b
    BY <1>3, <1>4, <1>5, <1>6, <2>1
  <2>2. CASE c # b
    BY <1>3, <1>4, <1>5, <2>2
  <2> QED BY <2>1, <2>2
<1>10. FusedTaken'
  <2>1. \A c \in Branches : Taken(c) \subseteq Taken(c)'
    BY <1>5
  <2> QED BY <1>2, <2>1 DEF IInv, Order, FusedTaken, Branches
<1>11. Passed'
  <2> SUFFICES ASSUME NEW c \in Branches, NEW w \in Taken(c)', StampedUpTo(w)
               PROVE  \E z \in delivered[Other(c)] : w <= z
    BY <1>2 DEF Passed, StampedUpTo
  <2>1. CASE c = b /\ w = x
    BY <1>1, <1>4, <2>1, OtherBranch
  <2>2. CASE ~(c = b /\ w = x)
    BY <1>5, <2>2 DEF IInv, Order, Passed
  <2> QED BY <2>1, <2>2
(* x is older than everything at the other pad, so it does not wait there. *)
<1>12. x \notin pad[Other(b)]
  BY <1>1, <1>4, OtherBranch DEF IsHead
<1>13. JoinComplete'
  <2>1. \A w : w \in pad["detection"] /\ w \in pad["flow"] =>
               w \in pad'["detection"] /\ w \in pad'["flow"]
    BY <1>3, <1>12 DEF Branches, Other
  <2> QED BY <1>2, <2>1 DEF IInv, Join, JoinComplete
<1>14. PairsOneFrame' /\ FusedInOrder'
  BY <1>2 DEF IInv, Join, PairsOneFrame, FusedInOrder
<1> QED BY <1>7, <1>8, <1>9, <1>10, <1>11, <1>13, <1>14 DEF IInv, Order, Join

LEMMA FuseIInv == IInv /\ Fuse => IInv'
<1> SUFFICES ASSUME IInv, Fuse PROVE IInv'
  OBVIOUS
<1>1. PICK d \in pad["detection"], f \in pad["flow"] :
        /\ IsHead(d, pad["detection"]) /\ IsHead(f, pad["flow"])
        /\ Pair(d, f)
        /\ pad' = [detection |-> pad["detection"] \ {d}, flow |-> pad["flow"] \ {f}]
        /\ fused' = fused \union {[detection |-> d, flow |-> f]}
  BY DEF Fuse
<1> DEFINE head(c) == IF c = "detection" THEN d ELSE f
           pair == [detection |-> d, flow |-> f]
<1>2. UNCHANGED <<next, target, teeEos, branch, lost, padEos, ended, delivered>>
  BY DEF Fuse, teeVars
<1>3. d \in Frames /\ f \in Frames
  BY DEF IInv, Types, Branches
<1>4. \A c \in Branches : /\ pad'[c] = pad[c] \ {head(c)}
                          /\ head(c) \in pad[c]
                          /\ IsHead(head(c), pad[c])
  BY <1>1 DEF Branches
<1>5. \A c \in Branches : /\ delivered[c] \subseteq Nat
                          /\ pad[c] \subseteq delivered[c]
                          /\ \A w \in Taken(c), z \in pad[c] : w < z
  BY FrameNumbers DEF IInv, Types, Order, PadInOrder
<1>6. \A c \in Branches : Taken(c)' = Taken(c) \union {head(c)}
  BY <1>2, <1>4, <1>5 DEF Taken
<1>7. \A c \in Branches : \A z \in pad'[c] : head(c) < z
  BY <1>4, <1>5 DEF IsHead
<1>8. Types'
  <2>1. pad' \in [Branches -> SUBSET Frames]
    BY <1>1 DEF IInv, Types, Branches
  <2>2. fused' \subseteq [detection : Frames, flow : Frames]
    BY <1>1, <1>3 DEF IInv, Types
  <2> QED BY <1>2, <2>1, <2>2 DEF IInv, Types
<1>9. BranchInOrder'
  BY <1>2 DEF IInv, Order, BranchInOrder
<1>10. PadInOrder'
  <2> SUFFICES ASSUME NEW c \in Branches
               PROVE  /\ pad'[c] \subseteq delivered[c]
                      /\ \A w \in Taken(c)', z \in pad'[c] : w < z
    BY <1>2 DEF PadInOrder
  <2> QED BY <1>4, <1>5, <1>6, <1>7
<1>11. FusedTaken'
  <2>1. pair.detection \in Taken("detection")' /\ pair.flow \in Taken("flow")'
    BY <1>6 DEF Branches
  <2>2. \A p \in fused : p.detection \in Taken("detection")' /\ p.flow \in Taken("flow")'
    BY <1>6 DEF IInv, Order, FusedTaken, Branches
  <2> QED BY <1>1, <2>1, <2>2 DEF FusedTaken
<1>12. /\ StampedUpTo(d) => d <= f
       /\ StampedUpTo(f) => f <= d
  BY <1>1, <1>3, FrameNumbers DEF Pair, StampedUpTo
<1>13. Passed'
  <2> SUFFICES ASSUME NEW c \in Branches, NEW w \in Taken(c)', StampedUpTo(w)
               PROVE  \E z \in delivered[Other(c)] : w <= z
    BY <1>2 DEF Passed, StampedUpTo
  <2>1. CASE w \in Taken(c)
    BY <2>1 DEF IInv, Order, Passed
  <2>2. CASE w = head(c)
    <3>1. head(c) <= head(Other(c))
      BY <1>12, <2>2 DEF Branches, Other
    <3>2. head(Other(c)) \in delivered[Other(c)]
      BY <1>4, <1>5, OtherBranch
    <3> QED BY <2>2, <3>1, <3>2
  <2> QED BY <1>6, <2>1, <2>2
<1>14. PairsOneFrame'
  BY <1>1 DEF IInv, Join, PairsOneFrame, Pair
<1>15. JoinComplete'
  <2> SUFFICES ASSUME NEW x \in delivered["detection"] \intersect delivered["flow"],
                      StampedUpTo(x),
                      [detection |-> x, flow |-> x] \notin fused
               PROVE  \/ x = d /\ x = f
                      \/ ~ended /\ x \in pad'["detection"] /\ x \in pad'["flow"]
    BY <1>1, <1>2 DEF JoinComplete, StampedUpTo
  <2>1. ~ended /\ x \in pad["detection"] /\ x \in pad["flow"]
    BY DEF IInv, Join, JoinComplete
  (* The head of one pad is the head of the other, both with a PTS.        *)
  <2>2. x = d \/ x = f => d = f
    <3>1. d <= x /\ f <= x
      BY <1>1, <2>1 DEF IsHead
    <3>2. d \in Stamped /\ f \in Stamped
      BY <1>3, <3>1 DEF StampedUpTo
    <3> QED BY <1>1, <3>2 DEF Pair
  <2> QED BY <1>4, <2>1, <2>2 DEF Branches
(* What was fused before was taken before, and is older than both heads.   *)
<1>16. FusedInOrder'
  <2>1. \A p \in fused : p.detection < d /\ p.flow < f
    BY <1>5 DEF IInv, Order, FusedTaken, Branches
  <2>2. pair.detection = d /\ pair.flow = f
    OBVIOUS
  <2>3. FusedInOrder
    BY DEF IInv, Join
  <2> QED BY <1>1, <2>1, <2>2, <2>3 DEF FusedInOrder
<1> QED BY <1>8, <1>9, <1>10, <1>11, <1>13, <1>14, <1>15, <1>16 DEF IInv, Order, Join

LEMMA NextIInv == IInv /\ [Next]_vars => IInv'
<1> SUFFICES ASSUME IInv, [Next]_vars PROVE IInv'
  OBVIOUS
<1>1. CASE TeePush
  BY <1>1, TeePushIInv
<1>2. CASE TeeEnds
  BY <1>2, TeeEndsIInv
<1>3. CASE Fuse
  BY <1>3, FuseIInv
<1>4. ASSUME NEW b \in Branches, Deliver(b) \/ Lose(b) \/ DeliverEos(b) \/ End(b) \/ DropOlder(b)
      PROVE  IInv'
  BY <1>4, DeliverIInv, LoseIInv, DeliverEosIInv, EndIInv, DropOlderIInv
<1>5. CASE UNCHANGED vars
  <2>1. Types'
    BY <1>5 DEF vars, IInv, Types
  <2>2. BranchInOrder'
    BY <1>5 DEF vars, IInv, Order, BranchInOrder
  <2> QED BY <1>5, <2>1, <2>2, UntouchedJoin DEF vars, IInv, Order
<1> QED BY <1>1, <1>2, <1>3, <1>4, <1>5 DEF Next

-----------------------------------------------------------------------------
(* The queues.                                                             *)
LEMMA FrameSets == \A S \in SUBSET Frames : IsFiniteSet(S)
<1>1. MaxFrames \in Int /\ 1 \in Int
  BY FusionAssumption
<1>2. IsFiniteSet(Frames)
  BY <1>1, FS_Interval DEF Frames
<1> QED BY <1>2, FS_Subset

LEMMA Grow ==
  ASSUME NEW S \in SUBSET Frames, NEW x, NEW size \in Nat, ~Full(S, size)
  PROVE  Cardinality(S \union {x}) <= size
<1>1. IsFiniteSet(S)
  BY FrameSets
<1>2. Cardinality(S) \in Nat
  BY <1>1, FS_CardinalityType
<1>3. Cardinality(S \union {x}) = IF x \in S THEN Cardinality(S) ELSE Cardinality(S) + 1
  BY <1>1, FS_AddElement
<1> QED BY <1>2, <1>3 DEF Full

LEMMA Shrink ==
  ASSUME NEW S \in SUBSET Frames, NEW x, NEW size \in Nat, Cardinality(S) <= size
  PROVE  Cardinality(S \ {x}) <= size
<1>1. IsFiniteSet(S)
  BY FrameSets
<1>2. Cardinality(S \ {x}) <= Cardinality(S) /\ Cardinality(S \ {x}) \in Nat
  BY <1>1, FS_Subset, FS_CardinalityType
<1> QED BY <1>1, <1>2, FS_CardinalityType

LEMMA NextSizes == Types /\ WithinSizes /\ [Next]_vars => WithinSizes'
<1> SUFFICES ASSUME Types, WithinSizes, [Next]_vars PROVE WithinSizes'
  OBVIOUS
<1>1. QueueSize \in Nat /\ PadSize \in Nat
  BY FusionAssumption
<1>2. CASE TeePush
  <2>1. \A c \in Branches : branch'[c] = IF c = target THEN branch[c] \union {next} ELSE branch[c]
    BY <1>2 DEF TeePush, Types
  <2>2. Cardinality(branch[target] \union {next}) <= QueueSize
    BY <1>1, <1>2, Grow DEF TeePush, Types
  <2> QED BY <1>2, <2>1, <2>2 DEF TeePush, WithinSizes
<1>3. ASSUME NEW b \in Branches, Deliver(b) PROVE WithinSizes'
  <2>1. PICK x \in branch[b] :
          /\ branch' = [branch EXCEPT ![b] = @ \ {x}]
          /\ pad' = [pad EXCEPT ![b] = @ \union {x}]
    BY <1>3 DEF Deliver
  <2>2. Cardinality(branch[b] \ {x}) <= QueueSize
    BY <1>1, Shrink DEF Types, WithinSizes
  <2>3. Cardinality(pad[b] \union {x}) <= PadSize
    BY <1>1, <1>3, Grow DEF Types, Deliver
  <2> QED BY <2>1, <2>2, <2>3 DEF Types, WithinSizes
<1>4. ASSUME NEW b \in Branches, Lose(b) PROVE WithinSizes'
  <2>1. PICK x \in branch[b] : branch' = [branch EXCEPT ![b] = @ \ {x}]
    BY <1>4 DEF Lose
  <2>2. Cardinality(branch[b] \ {x}) <= QueueSize
    BY <1>1, Shrink DEF Types, WithinSizes
  <2> QED BY <1>4, <2>1, <2>2 DEF Types, WithinSizes, Lose
<1>5. ASSUME NEW b \in Branches, DropOlder(b) PROVE WithinSizes'
  <2>1. PICK x \in pad[b] : pad' = [pad EXCEPT ![b] = @ \ {x}]
    BY <1>5 DEF DropOlder
  <2>2. Cardinality(pad[b] \ {x}) <= PadSize
    BY <1>1, Shrink DEF Types, WithinSizes
  <2> QED BY <1>5, <2>1, <2>2 DEF Types, WithinSizes, DropOlder
<1>6. CASE Fuse
  <2>1. PICK d, f : pad' = [detection |-> pad["detection"] \ {d}, flow |-> pad["flow"] \ {f}]
    BY <1>6 DEF Fuse
  <2>2. /\ Cardinality(pad["detection"] \ {d}) <= PadSize
        /\ Cardinality(pad["flow"] \ {f}) <= PadSize
    BY <1>1, Shrink DEF Types, WithinSizes, Branches
  <2>3. \A b \in Branches : Cardinality(branch[b]) <= QueueSize /\ branch' = branch
    BY <1>6 DEF Fuse, WithinSizes
  <2>4. \A b \in Branches : Cardinality(pad'[b]) <= PadSize
    <3> TAKE b \in Branches
    <3>1. b = "detection" \/ b = "flow"
      BY DEF Branches
    <3>2. /\ pad'["detection"] = pad["detection"] \ {d}
          /\ pad'["flow"] = pad["flow"] \ {f}
      BY <2>1
    <3> QED BY <2>2, <3>1, <3>2
  <2> QED BY <2>3, <2>4, Zenon DEF WithinSizes
<1>7. ASSUME NEW b \in Branches, TeeEnds \/ DeliverEos(b) \/ End(b) \/ UNCHANGED vars
      PROVE  WithinSizes'
  BY <1>7 DEF TeeEnds, DeliverEos, End, vars, WithinSizes
<1>8. Branches # {}
  BY DEF Branches
<1> QED BY <1>2, <1>3, <1>4, <1>5, <1>6, <1>7, <1>8 DEF Next

(* The variables keep their types and no queue overfills.                  *)
THEOREM TypeCorrect == Spec => []TypeOK
<1>1. Init => WithinSizes
  BY FS_EmptySet, FusionAssumption DEF Init, WithinSizes
<1>2. IInv => Types
  BY DEF IInv
<1>3. Types /\ WithinSizes => TypeOK
  BY DEF Types, TypeOK
<1> QED BY InitIInv, NextIInv, NextSizes, <1>1, <1>2, <1>3, PTL DEF Spec

(* No pair is left out that could have been fused.                         *)
THEOREM JoinCorrect == Spec => []JoinComplete
<1>1. IInv => JoinComplete
  BY DEF IInv, Join
<1> QED BY InitIInv, NextIInv, <1>1, PTL DEF Spec

(* Stamped frames are fused with their own only, and in the order of the   *)
(* stream.                                                                 *)
THEOREM FusedRight == Spec => []FusedExact
<1>1. IInv => FusedExact
  BY DEF IInv, Join, FusedExact
<1> QED BY InitIInv, NextIInv, <1>1, PTL DEF Spec

-----------------------------------------------------------------------------
(***************************************************************************)
(* The stream is never stuck.  StreamEnds rests on two facts that no       *)
(* fairness enters into: until the join has ended one of the threads that  *)
(* Fairness speaks of can run, and there are only so many steps to make.   *)
(***************************************************************************)

(* The frames branch b was given, ...                                      *)
Pushed(b) ==
  {x \in Frames : x < next \/ (x = next /\ target = "flow" /\ b = "detection")}

(* ... those it lost since it last delivered one, and those that wait in   *)
(* it or at its pad.                                                       *)
Gone(b) == {x \in Pushed(b) \ branch[b] : \A y \in delivered[b] : y < x}
Waiting(b) == pad[b] \union branch[b]

TeeState ==
  /\ target = "flow" => next <= MaxFrames /\ ~teeEos
  /\ \A b \in Branches : padEos[b] => teeEos /\ branch[b] = {}

(* A branch loses and delivers its oldest frame only.                      *)
OldestFirst ==
  \A b \in Branches : \A x \in branch[b], y \in Pushed(b) : x < y => y \in branch[b]

GoneCounted == \A b \in Branches : Cardinality(Gone(b)) = lost[b]

(* What was taken from one pad is older than all that waits for the other. *)
StampedSoFar == StampedUpTo(next)
TakenBefore ==
  StampedSoFar =>
    \A b \in Branches : \A x \in Waiting(b), y \in Taken(Other(b)) : y < x

FlowInv == TeeState /\ OldestFirst /\ GoneCounted /\ TakenBefore

(* The guards of the actions that Fairness makes the threads take.         *)
TeeRuns == ~teeEos /\ (next > MaxFrames \/ ~Full(branch[target], QueueSize))
BranchRuns(b) ==
  \/ ~Full(pad[b], PadSize) /\ branch[b] # {}
  \/ teeEos /\ branch[b] = {} /\ ~padEos[b]
AggregatorRuns ==
  \/ \E d \in pad["detection"], f \in pad["flow"] :
       IsHead(d, pad["detection"]) /\ IsHead(f, pad["flow"]) /\ Pair(d, f)
  \/ \E b \in Branches : \E x \in pad[b], y \in pad[Other(b)] :
       IsHead(x, pad[b]) /\ IsHead(y, pad[Other(b)]) /\ ~Pair(x, y) /\ x < y
  \/ \E b \in Branches :
       pad[b] = {} /\ padEos[b] /\ (pad[Other(b)] # {} \/ padEos[Other(b)])

(* Nothing is stuck as long as every frame has a PTS and a branch loses    *)
(* fewer frames in a row than it and its pad hold.                         *)
NeverStuck ==
  StampedSoFar /\ MaxLost < QueueSize + PadSize /\ ~ended =>
    TeeRuns \/ AggregatorRuns \/ \E b \in Branches : BranchRuns(b)

LEMMA FlowInitial == Init => FlowInv
<1> SUFFICES ASSUME Init PROVE FlowInv
  OBVIOUS
<1>1. /\ next = 1 /\ target = "detection" /\ teeEos = FALSE
      /\ \A b \in Branches : /\ branch[b] = {} /\ lost[b] = 0 /\ pad[b] = {}
                             /\ padEos[b] = FALSE /\ delivered[b] = {}
  BY DEF Init
<1>2. \A b \in Branches : Pushed(b) = {}
  BY <1>1, FusionAssumption DEF Pushed, Frames
<1>3. \A b \in Branches : Gone(b) = {}
  BY <1>2 DEF Gone
<1>4. GoneCounted
  BY <1>1, <1>3, FS_EmptySet DEF GoneCounted
<1>5. TeeState /\ OldestFirst
  BY <1>1 DEF TeeState, OldestFirst
<1>6. TakenBefore
  BY <1>1 DEF TakenBefore, Waiting
<1> QED
  BY <1>4, <1>5, <1>6 DEF FlowInv

(* What the tee pushes, and when it is behind.                             *)
LEMMA TeePushed ==
  ASSUME IInv, TeePush
  PROVE  /\ next \in Frames /\ target \in Branches
         /\ \A b \in Branches :
              /\ Pushed(b)' = IF b = target THEN Pushed(b) \union {next} ELSE Pushed(b)
              /\ branch'[b] = IF b = target THEN branch[b] \union {next} ELSE branch[b]
         /\ \A x \in Pushed(target) : x < next
<1>1. next \in Frames /\ target \in Branches
  BY FusionAssumption DEF IInv, Types, TeePush, Frames
<1>2. \A b \in Branches : branch'[b] = IF b = target THEN branch[b] \union {next} ELSE branch[b]
  BY DEF TeePush, IInv, Types
<1>3. /\ next' = IF target = "flow" THEN next + 1 ELSE next
      /\ target' = IF target = "detection" THEN "flow" ELSE "detection"
  BY DEF TeePush, Other
<1>4. ASSUME NEW b \in Branches
      PROVE  Pushed(b)' = IF b = target THEN Pushed(b) \union {next} ELSE Pushed(b)
  <2>1. \A x \in Frames : x \in Nat
    BY FrameNumbers
  <2>2. Pushed(b)' = {x \in Frames : \/ x < next'
                                     \/ x = next' /\ target' = "flow" /\ b = "detection"}
    BY DEF Pushed
  <2>3. CASE target = "detection"
    BY <1>1, <1>3, <2>1, <2>2, <2>3 DEF Pushed, Branches
  <2>4. CASE target = "flow"
    BY <1>1, <1>3, <2>1, <2>2, <2>4 DEF Pushed, Branches
  <2> QED BY <1>1, <2>3, <2>4 DEF Branches
<1>5. \A x \in Pushed(target) : x < next
  BY DEF Pushed
<1> QED
  BY <1>1, <1>2, <1>4, <1>5

(* All that a branch has or had was pushed to it.                          *)
LEMMA HadPushed ==
  ASSUME IInv, NEW b \in Branches
  PROVE  /\ delivered[b] \subseteq Pushed(b) /\ branch[b] \subseteq Pushed(b)
         /\ pad[b] \subseteq delivered[b] /\ Pushed(b) \subseteq Nat
         /\ \A x \in delivered[b], y \in branch[b] : x < y
<1>1. delivered[b] \subseteq Frames /\ branch[b] \subseteq Frames
  BY DEF IInv, Types
<1>2. \A x \in delivered[b] \union branch[b] :
        x < next \/ (x = next /\ target = "flow" /\ b = "detection")
  BY DEF IInv, Order, BranchInOrder
<1>3. Pushed(b) \subseteq Nat
  BY FrameNumbers DEF Pushed
<1>4. /\ pad[b] \subseteq delivered[b]
      /\ \A x \in delivered[b], y \in branch[b] : x < y
  BY DEF IInv, Order, BranchInOrder, PadInOrder
<1> QED
  BY <1>1, <1>2, <1>3, <1>4 DEF Pushed

LEMMA TeePushFlow == ASSUME IInv, FlowInv, TeePush PROVE FlowInv'
<1>1. /\ next \in Frames /\ target \in Branches
      /\ \A b \in Branches :
           /\ Pushed(b)' = IF b = target THEN Pushed(b) \union {next} ELSE Pushed(b)
           /\ branch'[b] = IF b = target THEN branch[b] \union {next} ELSE branch[b]
      /\ \A x \in Pushed(target) : x < next
  BY TeePushed
<1>2. UNCHANGED <<teeEos, lost, pad, padEos, delivered>>
  BY DEF TeePush
<1>3. next \in Nat /\ next <= MaxFrames /\ ~teeEos
  BY <1>1, FrameNumbers DEF Frames, TeePush
<1>4. TeeState'
  <2>1. target' = "flow" => next' = next
    BY DEF TeePush, Other, Branches
  <2>2. \A b \in Branches : ~padEos[b]
    BY <1>3 DEF FlowInv, TeeState
  <2> QED BY <1>2, <1>3, <2>1, <2>2 DEF TeeState
<1>5. ASSUME NEW b \in Branches, NEW x \in branch'[b], NEW y \in Pushed(b)', x < y
      PROVE  y \in branch'[b]
  <2>1. /\ branch[b] \subseteq Pushed(b) /\ Pushed(b) \subseteq Nat
        /\ \A v \in branch[b], w \in Pushed(b) : v < w => w \in branch[b]
    BY HadPushed DEF FlowInv, OldestFirst
  <2>2. CASE b = target
    <3>1. CASE y = next
      BY <1>1, <2>2, <3>1
    <3>2. CASE y # next
      <4>0. /\ Pushed(b)' = Pushed(b) \union {next}
            /\ branch'[b] = branch[b] \union {next}
            /\ \A w \in Pushed(b) : w < next
        BY <1>1, <2>2
      <4>1. y \in Pushed(b) /\ y < next /\ y \in Nat
        BY <2>1, <3>2, <4>0
      <4>2. x \in branch[b]
        <5>1. x # next
          BY <1>3, <1>5, <4>1
        <5> QED BY <4>0, <5>1
      <4> QED BY <1>1, <1>5, <2>1, <2>2, <4>1, <4>2
    <3> QED BY <3>1, <3>2
  <2>3. CASE b # target
    BY <1>1, <1>5, <2>1, <2>3
  <2> QED BY <2>2, <2>3
<1>6. ASSUME NEW b \in Branches PROVE Gone(b)' = Gone(b)
  <2>1. CASE b = target
    <3>1. next \notin Pushed(b)
      BY <1>1, <1>3, <2>1
    <3>2. Pushed(b)' \ branch'[b] = Pushed(b) \ branch[b]
      BY <1>1, <2>1, <3>1
    <3> QED BY <1>2, <3>2 DEF Gone
  <2>2. CASE b # target
    <3>1. Pushed(b)' = Pushed(b) /\ branch'[b] = branch[b]
      BY <1>1, <2>2
    <3> QED BY <1>2, <3>1 DEF Gone
  <2> QED BY <2>1, <2>2
<1>7. TakenBefore'
  <2>1. Taken("detection")' = Taken("detection") /\ Taken("flow")' = Taken("flow")
    BY <1>2 DEF Taken
  <2>2. SUFFICES ASSUME StampedSoFar', NEW b \in Branches,
                        NEW x \in pad[b] \union branch'[b], NEW y \in Taken(Other(b))
                 PROVE  y < x
    BY <1>2, <2>1, OtherBranch DEF TakenBefore, Waiting, Branches
  <2>3. StampedSoFar
    <3>1. next' \in {next, next + 1}
      BY DEF TeePush
    <3>2. \A z \in Frames : z <= next => z <= next'
      <4>1. next \in Nat /\ next' \in Nat /\ next <= next'
        BY <1>3, <3>1
      <4>2. ASSUME NEW z \in Frames, z <= next PROVE z <= next'
        <5>1. z \in Nat
          BY FrameNumbers
        <5> QED BY <4>1, <4>2, <5>1
      <4> QED BY <4>2
    <3> QED BY <2>2, <3>2 DEF StampedSoFar, StampedUpTo
  <2>4. CASE x \in Waiting(b)
    BY <2>2, <2>3, <2>4 DEF FlowInv, TakenBefore
  <2>5. CASE x \notin Waiting(b)
    <3>1. b = target /\ x = next
      BY <1>1, <2>2, <2>5 DEF Waiting
    <3>2. Other(b) \in Branches /\ y \in delivered[Other(b)]
      BY <2>2, OtherBranch DEF Taken
    <3>3. y \in Pushed(Other(b)) /\ y \in Frames /\ y \in Nat
      BY <3>2, HadPushed DEF Pushed
    <3>4. y < next \/ (y = next /\ target = "flow" /\ Other(b) = "detection")
      BY <3>3 DEF Pushed
    <3>5. CASE y = next
      <4>1. StampedUpTo(y)
        BY <2>3, <3>5 DEF StampedSoFar
      <4>2. Other(Other(b)) = b
        BY DEF Other, Branches
      <4>3. PICK z \in delivered[b] : y <= z
        BY <2>2, <3>2, <4>1, <4>2 DEF IInv, Order, Passed
      <4>4. z \in Pushed(b) /\ z \in Nat
        BY <4>3, HadPushed
      <4>5. z < next
        BY <1>1, <3>1, <4>4
      <4> QED BY <1>3, <3>5, <4>3, <4>4, <4>5
    <3> QED BY <3>1, <3>4, <3>5
  <2> QED BY <2>4, <2>5
<1> QED
  BY <1>2, <1>4, <1>5, <1>6, <1>7 DEF FlowInv, OldestFirst, GoneCounted

LEMMA DeliverFlow ==
  ASSUME IInv, FlowInv, NEW b \in Branches, Deliver(b) PROVE FlowInv'
<1>1. PICK z \in branch[b] :
        /\ IsHead(z, branch[b])
        /\ branch' = [branch EXCEPT ![b] = @ \ {z}]
        /\ pad' = [pad EXCEPT ![b] = @ \union {z}]
        /\ delivered' = [delivered EXCEPT ![b] = @ \union {z}]
  BY DEF Deliver
<1>2. UNCHANGED <<next, target, teeEos, padEos>> /\ lost' = [lost EXCEPT ![b] = 0]
  BY DEF Deliver, teeVars
<1>3. /\ branch'[b] = branch[b] \ {z} /\ pad'[b] = pad[b] \union {z}
      /\ delivered'[b] = delivered[b] \union {z} /\ lost'[b] = 0
      /\ \A c \in Branches \ {b} : /\ branch'[c] = branch[c] /\ pad'[c] = pad[c]
                                   /\ delivered'[c] = delivered[c] /\ lost'[c] = lost[c]
  BY <1>1, <1>2 DEF IInv, Types
<1>4. \A c \in Branches : Pushed(c)' = Pushed(c)
  BY <1>2 DEF Pushed
<1>5. /\ branch[b] \subseteq Pushed(b) /\ pad[b] \subseteq delivered[b]
      /\ Pushed(b) \subseteq Nat /\ delivered[b] \subseteq Nat
      /\ \A x \in delivered[b], y \in branch[b] : x < y
  BY HadPushed
<1>6. \A y \in branch[b] : z <= y
  BY <1>1 DEF IsHead
<1>7. TeeState'
  BY <1>2, <1>3 DEF FlowInv, TeeState
<1>8. OldestFirst'
  <2> SUFFICES ASSUME NEW c \in Branches, NEW x \in branch'[c], NEW y \in Pushed(c), x < y
               PROVE  y \in branch'[c]
    BY <1>4 DEF OldestFirst
  <2>1. x \in branch[c] /\ y \in branch[c]
    BY <1>3 DEF FlowInv, OldestFirst
  <2>2. CASE c = b
    <3>1. z <= x /\ x \in Nat /\ y \in Nat /\ z \in Nat
      BY <1>5, <1>6, <2>1, <2>2
    <3> QED BY <1>3, <2>1, <2>2, <3>1
  <2> QED BY <1>3, <2>1, <2>2
<1>9. GoneCounted'
  <2> SUFFICES ASSUME NEW c \in Branches PROVE Cardinality(Gone(c)') = lost'[c]
    BY DEF GoneCounted
  <2>1. CASE c = b
    <3>1. ASSUME NEW x \in Gone(b)' PROVE FALSE
      <4>1. x \in Pushed(b) /\ x \notin branch'[b] /\ z < x
        BY <1>3, <1>4, <3>1 DEF Gone
      <4>2. x \in branch[b]
        BY <1>1, <4>1 DEF FlowInv, OldestFirst
      <4> QED BY <1>3, <1>5, <4>1, <4>2
    <3>2. Gone(b)' = {}
      BY <3>1
    <3> QED BY <1>3, <2>1, <3>2, FS_EmptySet
  <2>2. CASE c # b
    <3>1. Gone(c)' = Gone(c)
      BY <1>3, <1>4, <2>2 DEF Gone
    <3> QED BY <1>3, <2>2, <3>1 DEF FlowInv, GoneCounted
  <2> QED BY <2>1, <2>2
<1>10. TakenBefore'
  <2>1. z \notin delivered[b]
    BY <1>5
  <2>2. \A c \in Branches : Taken(c)' = Taken(c)
    BY <1>3, <2>1 DEF Taken
  <2>3. \A c \in Branches : Waiting(c)' = Waiting(c)
    BY <1>3 DEF Waiting
  <2>4. StampedSoFar' = StampedSoFar
    BY <1>2 DEF StampedSoFar, StampedUpTo
  <2> QED BY <2>2, <2>3, <2>4, OtherBranch DEF FlowInv, TakenBefore
<1> QED
  BY <1>7, <1>8, <1>9, <1>10 DEF FlowInv

LEMMA LoseFlow ==
  ASSUME IInv, FlowInv, NEW b \in Branches, Lose(b) PROVE FlowInv'
<1>1. PICK z \in branch[b] :
        IsHead(z, branch[b]) /\ branch' = [branch EXCEPT ![b] = @ \ {z}]
  BY DEF Lose
<1>2. /\ UNCHANGED <<next, target, teeEos, pad, padEos, delivered>>
      /\ lost' = [lost EXCEPT ![b] = @ + 1]
  BY DEF Lose, teeVars
<1>3. /\ branch'[b] = branch[b] \ {z} /\ lost'[b] = lost[b] + 1
      /\ \A c \in Branches \ {b} : branch'[c] = branch[c] /\ lost'[c] = lost[c]
  BY <1>1, <1>2 DEF IInv, Types
<1>4. \A c \in Branches : Pushed(c)' = Pushed(c)
  BY <1>2 DEF Pushed
<1>5. /\ branch[b] \subseteq Pushed(b) /\ Pushed(b) \subseteq Nat
      /\ \A x \in delivered[b], y \in branch[b] : x < y
  BY HadPushed
<1>6. \A y \in branch[b] : z <= y
  BY <1>1 DEF IsHead
<1>7. TeeState'
  BY <1>2, <1>3 DEF FlowInv, TeeState
<1>8. OldestFirst'
  <2> SUFFICES ASSUME NEW c \in Branches, NEW x \in branch'[c], NEW y \in Pushed(c), x < y
               PROVE  y \in branch'[c]
    BY <1>4 DEF OldestFirst
  <2>1. x \in branch[c] /\ y \in branch[c]
    BY <1>3 DEF FlowInv, OldestFirst
  <2>2. CASE c = b
    <3>1. z <= x /\ x \in Nat /\ y \in Nat /\ z \in Nat
      BY <1>5, <1>6, <2>1, <2>2
    <3> QED BY <1>3, <2>1, <2>2, <3>1
  <2> QED BY <1>3, <2>1, <2>2
<1>9. GoneCounted'
  <2> SUFFICES ASSUME NEW c \in Branches PROVE Cardinality(Gone(c)') = lost'[c]
    BY DEF GoneCounted
  <2>1. CASE c = b
    <3>1. Gone(b)' = Gone(b) \union {z}
      BY <1>2, <1>3, <1>4, <1>5 DEF Gone
    <3>2. z \notin Gone(b)
      BY DEF Gone
    <3>3. Gone(b) \in SUBSET Frames
      BY DEF Gone, Pushed
    <3>4. IsFiniteSet(Gone(b))
      BY <3>3, FrameSets
    <3>5. Cardinality(Gone(b) \union {z}) = Cardinality(Gone(b)) + 1
      BY <3>2, <3>4, FS_AddElement
    <3>6. Cardinality(Gone(b)) = lost[b]
      BY DEF FlowInv, GoneCounted
    <3> QED BY <1>3, <2>1, <3>1, <3>5, <3>6
  <2>2. CASE c # b
    <3>1. Gone(c)' = Gone(c)
      BY <1>2, <1>3, <1>4, <2>2 DEF Gone
    <3> QED BY <1>3, <2>2, <3>1 DEF FlowInv, GoneCounted
  <2> QED BY <2>1, <2>2
<1>10. TakenBefore'
  <2>1. \A c \in Branches : Taken(c)' = Taken(c)
    BY <1>2 DEF Taken
  <2>2. \A c \in Branches : Waiting(c)' \subseteq Waiting(c)
    BY <1>2, <1>3 DEF Waiting
  <2>3. StampedSoFar' = StampedSoFar
    BY <1>2 DEF StampedSoFar, StampedUpTo
  <2> QED BY <2>1, <2>2, <2>3, OtherBranch DEF FlowInv, TakenBefore
<1> QED
  BY <1>7, <1>8, <1>9, <1>10 DEF FlowInv

(* What an action that leaves the branches alone has to show.              *)
LEMMA QuietFlow ==
  ASSUME FlowInv, UNCHANGED <<next, target, branch, lost, delivered>>
  PROVE  OldestFirst' /\ GoneCounted' /\ StampedSoFar' = StampedSoFar
<1>1. \A b \in Branches : Pushed(b)' = Pushed(b)
  BY DEF Pushed
<1>2. \A b \in Branches : Gone(b)' = Gone(b)
  BY <1>1 DEF Gone
<1> QED
  BY <1>1, <1>2 DEF FlowInv, OldestFirst, GoneCounted, StampedSoFar, StampedUpTo

LEMMA EndsFlow ==
  ASSUME FlowInv, NEW b \in Branches, padEos \in [Branches -> BOOLEAN],
         TeeEnds \/ DeliverEos(b) \/ End(b) \/ UNCHANGED vars
  PROVE  FlowInv'
<1>1. UNCHANGED <<next, target, branch, lost, pad, delivered>>
  BY DEF TeeEnds, DeliverEos, End, vars, teeVars
<1>2. OldestFirst' /\ GoneCounted' /\ StampedSoFar' = StampedSoFar
  BY <1>1, QuietFlow
<1>3. TakenBefore'
  BY <1>1, <1>2 DEF FlowInv, TakenBefore, Waiting, Taken
<1>4. TeeState'
  <2>1. CASE TeeEnds
    BY <1>1, <2>1 DEF FlowInv, TeeState, TeeEnds
  <2>2. CASE DeliverEos(b)
    <3>1. /\ \A c \in Branches \ {b} : padEos'[c] = padEos[c]
          /\ teeEos /\ teeEos' = teeEos /\ branch[b] = {}
      BY <2>2 DEF DeliverEos, teeVars
    <3> QED BY <1>1, <3>1 DEF FlowInv, TeeState
  <2>3. CASE End(b) \/ UNCHANGED vars
    BY <1>1, <2>3 DEF FlowInv, TeeState, End, vars, teeVars
  <2> QED BY <2>1, <2>2, <2>3
<1> QED
  BY <1>2, <1>3, <1>4 DEF FlowInv

(* A head that goes is older than all that waits for the other pad.        *)
LEMMA HeadIsOldest ==
  ASSUME IInv, NEW b \in Branches, NEW y \in pad[b], IsHead(y, pad[b])
  PROVE  \A x \in Waiting(b) : y <= x
<1>1. /\ pad[b] \subseteq delivered[b] /\ delivered[b] \subseteq Pushed(b)
      /\ branch[b] \subseteq Pushed(b) /\ Pushed(b) \subseteq Nat
      /\ \A v \in delivered[b], w \in branch[b] : v < w
  BY HadPushed
<1>2. \A x \in pad[b] : y <= x
  BY DEF IsHead
<1>3. \A x \in branch[b] : y <= x
  <2> TAKE x \in branch[b]
  <2>1. y < x /\ y \in Nat /\ x \in Nat
    BY <1>1
  <2> QED BY <2>1
<1> QED
  BY <1>2, <1>3 DEF Waiting

LEMMA DropOlderFlow ==
  ASSUME IInv, FlowInv, NEW b \in Branches, DropOlder(b) PROVE FlowInv'
<1>1. PICK x \in pad[b], y \in pad[Other(b)] :
        /\ IsHead(y, pad[Other(b)]) /\ x < y
        /\ pad' = [pad EXCEPT ![b] = @ \ {x}]
  BY DEF DropOlder
<1>2. UNCHANGED <<next, target, teeEos, branch, lost, padEos, delivered>>
  BY DEF DropOlder, teeVars
<1>3. OldestFirst' /\ GoneCounted' /\ StampedSoFar' = StampedSoFar /\ TeeState'
  BY <1>2, QuietFlow DEF FlowInv, TeeState
<1>4. \A c \in Branches : /\ Waiting(c)' \subseteq Waiting(c)
                          /\ c # b => Taken(c)' = Taken(c)
                          /\ Taken(b)' \subseteq Taken(b) \union {x}
  BY <1>1, <1>2 DEF IInv, Types, Waiting, Taken
<1>5. TakenBefore'
  <2> SUFFICES ASSUME StampedSoFar, NEW c \in Branches, NEW v \in Waiting(c),
                      NEW w \in Taken(Other(c))'
               PROVE  w < v
    BY <1>3, <1>4 DEF TakenBefore
  <2>1. CASE w \in Taken(Other(c))
    BY <2>1 DEF FlowInv, TakenBefore
  <2>2. CASE w \notin Taken(Other(c))
    <3>1. Other(c) = b /\ w = x /\ c = Other(b)
      BY <1>4, <2>2, OtherBranch DEF Other, Branches
    <3>2. y <= v
      BY <1>1, <3>1, HeadIsOldest
    <3>3. x \in Nat /\ y \in Nat /\ v \in Nat
      <4>1. /\ pad[b] \subseteq Frames /\ pad[c] \subseteq Frames
            /\ branch[c] \subseteq Frames
        BY DEF IInv, Types
      <4> QED BY <1>1, <3>1, <4>1, FrameNumbers DEF Waiting
    <3> QED BY <1>1, <3>1, <3>2, <3>3
  <2> QED BY <2>1, <2>2
<1> QED
  BY <1>3, <1>5 DEF FlowInv

LEMMA FuseFlow == ASSUME IInv, FlowInv, Fuse PROVE FlowInv'
<1>1. PICK d \in pad["detection"], f \in pad["flow"] :
        /\ IsHead(d, pad["detection"]) /\ IsHead(f, pad["flow"]) /\ Pair(d, f)
        /\ pad' = [detection |-> pad["detection"] \ {d}, flow |-> pad["flow"] \ {f}]
  BY DEF Fuse
<1>2. UNCHANGED <<next, target, teeEos, branch, lost, padEos, delivered>>
  BY DEF Fuse, teeVars
<1>3. OldestFirst' /\ GoneCounted' /\ StampedSoFar' = StampedSoFar /\ TeeState'
  BY <1>2, QuietFlow DEF FlowInv, TeeState
<1> DEFINE head(c) == IF c = "detection" THEN d ELSE f
<1>4. \A c \in Branches : pad'[c] = pad[c] \ {head(c)}
  BY <1>1 DEF Branches
<1>5. \A c \in Branches : head(c) \in pad[c] /\ IsHead(head(c), pad[c])
  BY <1>1 DEF Branches
<1> HIDE DEF head
<1>6. StampedSoFar => \A c \in Branches : head(c) = head(Other(c))
  <2> SUFFICES ASSUME StampedSoFar PROVE d = f
    BY DEF head, Other, Branches
  <2>1. \A c \in Branches : head(c) \in Pushed(c) /\ head(c) \in Frames /\ head(c) \in Nat
    BY <1>5, HadPushed DEF Pushed
  <2>2. \A c \in Branches : head(c) <= next
    <3>1. next \in Nat
      BY FusionAssumption DEF IInv, Types
    <3> QED BY <2>1, <3>1 DEF Pushed
  <2>3. \A c \in Branches : head(c) \in Stamped
    BY <2>1, <2>2 DEF StampedSoFar, StampedUpTo
  <2>4. d \in Stamped /\ f \in Stamped
    BY <2>3 DEF head, Branches
  <2> QED BY <1>1, <2>4 DEF Pair
<1>7. TakenBefore'
  <2> SUFFICES ASSUME StampedSoFar, NEW c \in Branches, NEW v \in Waiting(c)',
                      NEW w \in Taken(Other(c))'
               PROVE  w < v
    BY <1>3 DEF TakenBefore
  <2>1. /\ v \in Waiting(c) /\ v # head(c)
    <3>1. head(c) \in delivered[c] /\ \A u \in branch[c] : head(c) < u /\ u \in Nat
      BY <1>5, HadPushed
    <3>2. head(c) \notin branch[c]
      BY <3>1
    <3> QED BY <1>2, <1>4, <3>2 DEF Waiting
  <2>2. w \in Taken(Other(c)) \/ w = head(Other(c))
    BY <1>2, <1>4, OtherBranch DEF Taken
  <2>3. CASE w \in Taken(Other(c))
    BY <2>1, <2>3 DEF FlowInv, TakenBefore
  <2>4. CASE w = head(Other(c))
    <3>1. w = head(c) /\ head(c) <= v
      BY <1>5, <1>6, <2>1, <2>4, HeadIsOldest
    <3>2. head(c) \in Nat /\ v \in Nat
      <4>1. pad[c] \subseteq Frames /\ branch[c] \subseteq Frames
        BY DEF IInv, Types
      <4> QED BY <1>5, <2>1, <4>1, FrameNumbers DEF Waiting
    <3> QED BY <2>1, <3>1, <3>2
  <2> QED BY <2>2, <2>3, <2>4
<1> QED
  BY <1>3, <1>7 DEF FlowInv

LEMMA NextFlow == IInv /\ FlowInv /\ [Next]_vars => FlowInv'
<1> SUFFICES ASSUME IInv, FlowInv, [Next]_vars PROVE FlowInv'
  OBVIOUS
<1>1. CASE TeePush
  BY <1>1, TeePushFlow
<1>2. CASE Fuse
  BY <1>2, FuseFlow
<1>3. padEos \in [Branches -> BOOLEAN] /\ Branches # {}
  BY DEF IInv, Types, Branches
<1>4. ASSUME NEW b \in Branches, Deliver(b) \/ Lose(b) \/ DropOlder(b)
      PROVE  FlowInv'
  BY <1>4, DeliverFlow, LoseFlow, DropOlderFlow
<1>5. ASSUME NEW b \in Branches, TeeEnds \/ DeliverEos(b) \/ End(b) \/ UNCHANGED vars
      PROVE  FlowInv'
  BY <1>3, <1>5, EndsFlow
<1> QED BY <1>1, <1>2, <1>3, <1>4, <1>5 DEF Next

(* Frames that wait have a first one.                                      *)
LEMMA SomeHead ==
  ASSUME NEW S \in SUBSET Frames, S # {}
  PROVE  \E x \in S : IsHead(x, S)
<1> DEFINE R == {p \in Nat \X Nat : p[1] < p[2]}
<1>1. R = OpToRel(<, Nat)
  BY DEF OpToRel
<1>2. IsWellFoundedOn(R, Nat)
  BY <1>1, NatLessThanWellFounded, Zenon
<1>3. \A T : T \subseteq Nat /\ T # {} => \E x \in T : \A y \in T : ~(<<y, x>> \in R)
  <2> HIDE DEF R
  <2> QED BY <1>2, WFMin
<1>4. S \subseteq Nat
  BY FrameNumbers
<1>5. PICK x \in S : \A y \in S : ~(<<y, x>> \in R)
  BY <1>3, <1>4, Zenon
<1>6. \A y \in S : x <= y
  <2> TAKE y \in S
  <2>1. y \in Nat /\ x \in Nat /\ <<y, x>> \in Nat \X Nat
    BY <1>4
  <2>2. ~(y < x)
    BY <1>5, <2>1
  <2> QED BY <2>1, <2>2
<1> QED
  BY <1>6 DEF IsHead

LEMMA AggregatorReady ==
  ASSUME Types, \A b \in Branches : pad[b] # {} \/ padEos[b]
  PROVE  AggregatorRuns
<1>1. CASE \E b \in Branches : pad[b] = {}
  BY <1>1, OtherBranch DEF AggregatorRuns
<1>2. CASE pad["detection"] # {} /\ pad["flow"] # {}
  <2>1. pad["detection"] \in SUBSET Frames /\ pad["flow"] \in SUBSET Frames
    BY DEF Types, Branches
  <2>2. PICK d \in pad["detection"] : IsHead(d, pad["detection"])
    BY <1>2, <2>1, SomeHead
  <2>3. PICK f \in pad["flow"] : IsHead(f, pad["flow"])
    BY <1>2, <2>1, SomeHead
  <2>4. CASE Pair(d, f)
    BY <2>2, <2>3, <2>4 DEF AggregatorRuns
  <2>5. CASE ~Pair(d, f)
    <3>1. ~Pair(f, d) /\ (d < f \/ f < d)
      BY <2>1, <2>5, FrameNumbers DEF Pair
    <3>2. /\ "detection" \in Branches /\ "flow" \in Branches
          /\ Other("detection") = "flow" /\ Other("flow") = "detection"
      BY DEF Branches, Other
    <3>3. CASE d < f
      <4>1. \E b \in Branches : \E x \in pad[b], y \in pad[Other(b)] :
              IsHead(x, pad[b]) /\ IsHead(y, pad[Other(b)]) /\ ~Pair(x, y) /\ x < y
        BY <2>2, <2>3, <2>5, <3>2, <3>3
      <4> QED BY <4>1 DEF AggregatorRuns
    <3>4. CASE f < d
      <4>1. \E b \in Branches : \E x \in pad[b], y \in pad[Other(b)] :
              IsHead(x, pad[b]) /\ IsHead(y, pad[Other(b)]) /\ ~Pair(x, y) /\ x < y
        BY <2>2, <2>3, <3>1, <3>2, <3>4
      <4> QED BY <4>1 DEF AggregatorRuns
    <3> QED BY <3>1, <3>3, <3>4
  <2> QED BY <2>4, <2>5
<1> QED
  BY <1>1, <1>2 DEF Branches

(* A branch that is full as far as its pad while the other is empty: the   *)
(* other has lost all that waits.                                          *)
LEMMA AllLost ==
  ASSUME IInv, FlowInv, StampedSoFar,
         NEW b \in Branches, b = target,
         Full(branch[b], QueueSize), Full(pad[b], PadSize),
         branch[Other(b)] = {}, pad[Other(b)] = {}
  PROVE  QueueSize + PadSize <= MaxLost
<1>1. Other(b) \in Branches
  BY OtherBranch
<1>2. Waiting(b) \subseteq Gone(Other(b))
  <2> SUFFICES ASSUME NEW x \in Waiting(b) PROVE x \in Gone(Other(b))
    OBVIOUS
  <2>1. x \in Pushed(b)
    BY HadPushed DEF Waiting
  <2>2. x \in Frames /\ x < next
    BY <2>1 DEF Pushed
  <2>3. x \in Pushed(Other(b)) \ branch[Other(b)]
    BY <2>2 DEF Pushed
  <2>4. \A y \in delivered[Other(b)] : y < x
    BY DEF FlowInv, TakenBefore, Taken
  <2> QED BY <2>3, <2>4 DEF Gone
<1>3. Cardinality(Waiting(b)) <= lost[Other(b)]
  <2>1. Gone(Other(b)) \in SUBSET Frames
    BY DEF Gone, Pushed
  <2>2. IsFiniteSet(Gone(Other(b)))
    BY <2>1, FrameSets
  <2>3. Cardinality(Waiting(b)) <= Cardinality(Gone(Other(b)))
    BY <1>2, <2>2, FS_Subset
  <2> QED BY <1>1, <2>3 DEF FlowInv, GoneCounted
<1>4. Cardinality(Waiting(b)) = Cardinality(pad[b]) + Cardinality(branch[b])
  <2>1. pad[b] \in SUBSET Frames /\ branch[b] \in SUBSET Frames
    BY DEF IInv, Types
  <2>2. IsFiniteSet(pad[b]) /\ IsFiniteSet(branch[b])
    BY <2>1, FrameSets
  <2>3. pad[b] \intersect branch[b] = {}
    <3>1. \A x \in pad[b], y \in branch[b] : x < y /\ x \in Nat
      BY HadPushed
    <3> QED BY <3>1
  <2>4. Cardinality(pad[b] \intersect branch[b]) = 0
    BY <2>3, FS_EmptySet
  <2>5. Cardinality(pad[b]) \in Nat /\ Cardinality(branch[b]) \in Nat
    BY <2>2, FS_CardinalityType
  <2>6. Cardinality(pad[b] \union branch[b])
          = Cardinality(pad[b]) + Cardinality(branch[b]) - Cardinality(pad[b] \intersect branch[b])
    BY <2>2, FS_Union
  <2> QED BY <2>4, <2>5, <2>6 DEF Waiting
<1>5. lost[Other(b)] \in 0 .. MaxLost
  BY <1>1 DEF IInv, Types
<1>6. Cardinality(pad[b]) \in Nat /\ Cardinality(branch[b]) \in Nat
  <2>1. pad[b] \in SUBSET Frames /\ branch[b] \in SUBSET Frames
    BY DEF IInv, Types
  <2>2. IsFiniteSet(pad[b]) /\ IsFiniteSet(branch[b])
    BY <2>1, FrameSets
  <2> QED BY <2>2, FS_CardinalityType
<1> QED
  BY <1>3, <1>4, <1>5, <1>6, FusionAssumption DEF Full

LEMMA FullNotEmpty ==
  ASSUME NEW S, NEW size \in Nat \ {0}, Full(S, size)
  PROVE  S # {}
<1> SUFFICES ASSUME S = {} PROVE FALSE
  OBVIOUS
<1>1. Cardinality(S) = 0
  BY FS_EmptySet
<1> QED
  BY <1>1 DEF Full

LEMMA InvNeverStuck == IInv /\ FlowInv => NeverStuck
<1> SUFFICES ASSUME IInv, FlowInv, StampedSoFar, MaxLost < QueueSize + PadSize,
                    ~TeeRuns, ~AggregatorRuns, \A b \in Branches : ~BranchRuns(b)
             PROVE  FALSE
  BY DEF NeverStuck
<1>1. Types /\ target \in Branches /\ next \in Nat
  BY FusionAssumption DEF IInv, Types
<1>2. QueueSize \in Nat \ {0} /\ PadSize \in Nat \ {0} /\ MaxLost \in Nat /\ MaxFrames \in Nat
  BY FusionAssumption
<1>3. PICK b \in Branches : pad[b] = {} /\ ~padEos[b]
  BY <1>1, AggregatorReady
<1>4. ~Full(pad[b], PadSize)
  BY <1>2, <1>3, FullNotEmpty
<1>5. branch[b] = {} /\ ~teeEos
  BY <1>3, <1>4 DEF BranchRuns
<1>6. next <= MaxFrames /\ Full(branch[target], QueueSize)
  BY <1>1, <1>2, <1>5 DEF TeeRuns
<1>7. branch[target] # {}
  BY <1>2, <1>6, FullNotEmpty
<1>8. Full(pad[target], PadSize)
  BY <1>1, <1>7 DEF BranchRuns
<1>9. b = Other(target)
  BY <1>1, <1>5, <1>7, OtherBranch
<1>10. QueueSize + PadSize <= MaxLost
  BY <1>1, <1>3, <1>5, <1>6, <1>8, <1>9, AllLost
<1> QED
  BY <1>2, <1>10

(***************************************************************************)
(* Until the join has ended some thread can run, for any stream with PTS   *)
(* and any sizes that hold more than a branch loses in a row: "a lost      *)
(* frame self-heals" (gstnvmmfusion.cpp:62).                               *)
(***************************************************************************)
THEOREM StreamNeverStuck == Spec => []NeverStuck
<1> QED BY InitIInv, NextIInv, FlowInitial, NextFlow, InvNeverStuck, PTL DEF Spec

(* How much is left to do: the frames the tee has still to push go through *)
(* three hands, those in a branch through two, those at a pad through one. *)
Flag(p) == IF p THEN 1 ELSE 0
PushesLeft == 2 * (MaxFrames + 1 - next) - Flag(target = "flow")
WorkOf(b) == 2 * Cardinality(branch[b]) + Cardinality(pad[b]) + Flag(~padEos[b])
WorkLeft ==
  3 * PushesLeft + Flag(~teeEos) + WorkOf("detection") + WorkOf("flow") + Flag(~ended)

WorkCounts == WorkLeft \in Nat
EveryStepWorks == [][WorkLeft' < WorkLeft]_vars

LEMMA WorkTypes ==
  ASSUME Types, TeeState
  PROVE  /\ PushesLeft \in Nat /\ WorkLeft \in Nat
         /\ \A p : Flag(p) \in {0, 1}
         /\ \A b \in Branches : /\ Cardinality(branch[b]) \in Nat
                                /\ Cardinality(pad[b]) \in Nat /\ WorkOf(b) \in Nat
<1>1. \A p : Flag(p) \in {0, 1}
  BY DEF Flag
<1>2. \A b \in Branches : /\ Cardinality(branch[b]) \in Nat /\ Cardinality(pad[b]) \in Nat
  <2> TAKE b \in Branches
  <2>1. branch[b] \in SUBSET Frames /\ pad[b] \in SUBSET Frames
    BY DEF Types
  <2>2. IsFiniteSet(branch[b]) /\ IsFiniteSet(pad[b])
    BY <2>1, FrameSets
  <2> QED BY <2>2, FS_CardinalityType
<1>3. PushesLeft \in Nat
  <2>1. MaxFrames \in Nat /\ next \in 1 .. MaxFrames + 1
    BY FusionAssumption DEF Types
  <2>2. CASE target = "flow"
    <3>1. next <= MaxFrames /\ Flag(target = "flow") = 1
      BY <2>2 DEF TeeState, Flag
    <3> QED BY <2>1, <3>1 DEF PushesLeft
  <2>3. CASE target # "flow"
    <3>1. Flag(target = "flow") = 0
      BY <2>3 DEF Flag
    <3> QED BY <2>1, <3>1 DEF PushesLeft
  <2> QED BY <2>2, <2>3
<1>4. \A b \in Branches : WorkOf(b) \in Nat
  <2> TAKE b \in Branches
  <2>1. Flag(~padEos[b]) \in {0, 1}
    BY <1>1
  <2> QED BY <1>2, <2>1 DEF WorkOf
<1>5. WorkLeft \in Nat
  <2>1. WorkOf("detection") \in Nat /\ WorkOf("flow") \in Nat
    BY <1>4 DEF Branches
  <2>2. Flag(~teeEos) \in {0, 1} /\ Flag(~ended) \in {0, 1}
    BY <1>1
  <2> QED BY <1>3, <2>1, <2>2 DEF WorkLeft
<1> QED
  BY <1>1, <1>2, <1>3, <1>4, <1>5

(* A step in one branch that makes it less work makes it less in all.      *)
LEMMA LessInOne ==
  ASSUME Types, TeeState, NEW b \in Branches, UNCHANGED <<teeVars, ended>>,
         WorkOf(b)' \in Nat, WorkOf(b)' < WorkOf(b),
         WorkOf(Other(b))' = WorkOf(Other(b))
  PROVE  WorkLeft' < WorkLeft
<1>1. /\ PushesLeft \in Nat /\ Flag(~teeEos) \in {0, 1} /\ Flag(~ended) \in {0, 1}
      /\ \A c \in Branches : WorkOf(c) \in Nat
  BY WorkTypes
<1>3. PushesLeft' = PushesLeft /\ Flag(~teeEos)' = Flag(~teeEos) /\ Flag(~ended)' = Flag(~ended)
  BY DEF PushesLeft, Flag, teeVars
<1>4. WorkLeft' = 3 * PushesLeft' + Flag(~teeEos)' + WorkOf("detection")' + WorkOf("flow")'
                    + Flag(~ended)'
  BY DEF WorkLeft
<1>5. CASE b = "detection"
  <2>1. Other(b) = "flow"
    BY <1>5 DEF Other
  <2>2. "detection" \in Branches /\ "flow" \in Branches
    BY DEF Branches
  <2> QED BY <1>1, <1>3, <1>4, <1>5, <2>1, <2>2 DEF WorkLeft
<1>6. CASE b = "flow"
  <2>1. Other(b) = "detection"
    BY <1>6 DEF Other
  <2>2. "detection" \in Branches /\ "flow" \in Branches
    BY DEF Branches
  <2> QED BY <1>1, <1>3, <1>4, <1>6, <2>1, <2>2 DEF WorkLeft
<1> QED
  BY <1>5, <1>6 DEF Branches

LEMMA TeePushWorks ==
  ASSUME IInv, FlowInv, TeePush PROVE WorkLeft' < WorkLeft
<1>1. /\ next \in Frames /\ target \in Branches
      /\ \A b \in Branches :
           branch'[b] = IF b = target THEN branch[b] \union {next} ELSE branch[b]
  BY TeePushed
<1>2. /\ UNCHANGED <<teeEos, pad, padEos, ended>>
      /\ target' = Other(target)
      /\ next' = IF target = "flow" THEN next + 1 ELSE next
  BY DEF TeePush
<1>3. /\ PushesLeft \in Nat /\ Flag(~teeEos) \in {0, 1} /\ Flag(~ended) \in {0, 1}
      /\ \A c \in Branches : WorkOf(c) \in Nat /\ Cardinality(branch[c]) \in Nat
                             /\ Cardinality(pad[c]) \in Nat /\ Flag(~padEos[c]) \in {0, 1}
  BY WorkTypes DEF IInv, FlowInv
<1>4. PushesLeft' = PushesLeft - 1
  <2>1. next \in Nat /\ MaxFrames \in Nat
    BY <1>1, FrameNumbers, FusionAssumption
  <2>2. CASE target = "flow"
    <3>1. next' = next + 1 /\ Flag(target = "flow") = 1 /\ Flag(target = "flow")' = 0
      BY <1>2, <2>2 DEF Flag, Other
    <3> QED BY <2>1, <3>1 DEF PushesLeft
  <2>3. CASE target = "detection"
    <3>1. next' = next /\ Flag(target = "flow") = 0 /\ Flag(target = "flow")' = 1
      BY <1>2, <2>3 DEF Flag, Other
    <3> QED BY <2>1, <3>1 DEF PushesLeft
  <2> QED BY <1>1, <2>2, <2>3 DEF Branches
<1>5. Flag(~teeEos)' = Flag(~teeEos) /\ Flag(~ended)' = Flag(~ended)
  BY <1>2 DEF Flag
<1>6. PICK t \in Branches : t = target
  BY <1>1
<1>7. WorkOf(t)' \in Nat /\ WorkOf(t)' <= WorkOf(t) + 2
  <2>1. branch[t] \in SUBSET Frames /\ IsFiniteSet(branch[t])
    BY <1>1, FrameSets DEF IInv, Types
  <2>2. Cardinality(branch[t] \union {next}) =
          IF next \in branch[t] THEN Cardinality(branch[t]) ELSE Cardinality(branch[t]) + 1
    BY <2>1, FS_AddElement
  <2>3. WorkOf(t)' = 2 * Cardinality(branch[t] \union {next})
                      + Cardinality(pad[t]) + Flag(~padEos[t])
    BY <1>1, <1>2, <1>6 DEF WorkOf, Flag
  <2> QED BY <1>3, <2>2, <2>3 DEF WorkOf
<1>8. /\ WorkOf("detection")' + WorkOf("flow")' < WorkOf("detection") + WorkOf("flow") + 3
      /\ WorkOf("detection")' \in Nat /\ WorkOf("flow")' \in Nat
  <2>1. WorkOf("detection") \in Nat /\ WorkOf("flow") \in Nat
    BY <1>3 DEF Branches
  <2>2. \A c \in Branches \ {t} : WorkOf(c)' = WorkOf(c)
    BY <1>1, <1>2, <1>6 DEF WorkOf, Flag
  <2>3. CASE t = "detection"
    <3>1. WorkOf("flow")' = WorkOf("flow")
      BY <2>2, <2>3 DEF Branches
    <3> QED BY <1>7, <2>1, <2>3, <3>1
  <2>4. CASE t = "flow"
    <3>1. WorkOf("detection")' = WorkOf("detection")
      BY <2>2, <2>4 DEF Branches
    <3> QED BY <1>7, <2>1, <2>4, <3>1
  <2> QED BY <2>3, <2>4 DEF Branches
<1>9. WorkLeft' = 3 * PushesLeft' + Flag(~teeEos)' + WorkOf("detection")' + WorkOf("flow")'
                    + Flag(~ended)'
  BY DEF WorkLeft
<1>10. WorkOf("detection") \in Nat /\ WorkOf("flow") \in Nat
  BY <1>3 DEF Branches
<1> QED
  BY <1>3, <1>4, <1>5, <1>8, <1>9, <1>10 DEF WorkLeft

(* The steps that take one frame out of a branch, or out of a pad.         *)
LEMMA OutOfBranch ==
  ASSUME IInv, FlowInv, NEW b \in Branches, Deliver(b) \/ Lose(b)
  PROVE  WorkLeft' < WorkLeft
<1>1. PICK z \in branch[b] :
        /\ branch' = [branch EXCEPT ![b] = @ \ {z}]
        /\ pad' = pad \/ pad' = [pad EXCEPT ![b] = @ \union {z}]
        /\ UNCHANGED <<teeVars, padEos, ended>>
  BY DEF Deliver, Lose
<1>2. /\ \A c \in Branches \ {b} : branch'[c] = branch[c] /\ pad'[c] = pad[c]
      /\ branch'[b] = branch[b] \ {z}
      /\ pad'[b] = pad[b] \/ pad'[b] = pad[b] \union {z}
  BY <1>1 DEF IInv, Types
<1>3. /\ Cardinality(branch[b]) \in Nat /\ Cardinality(pad[b]) \in Nat
      /\ Flag(~padEos[b]) \in {0, 1}
  BY WorkTypes DEF IInv, FlowInv
<1>4. /\ branch[b] \in SUBSET Frames /\ IsFiniteSet(branch[b])
      /\ pad[b] \in SUBSET Frames /\ IsFiniteSet(pad[b])
  BY FrameSets DEF IInv, Types
<1>5. Cardinality(branch[b] \ {z}) = Cardinality(branch[b]) - 1
      /\ Cardinality(branch[b] \ {z}) \in Nat
  <2>1. IsFiniteSet(branch[b] \ {z}) /\ Cardinality(branch[b] \ {z}) = Cardinality(branch[b]) - 1
    BY <1>4, FS_RemoveElement
  <2> QED BY <2>1, FS_CardinalityType
<1>6. /\ Cardinality(pad'[b]) \in Nat
      /\ Cardinality(pad'[b]) <= Cardinality(pad[b]) + 1
  <2>1. Cardinality(pad[b] \union {z}) =
          IF z \in pad[b] THEN Cardinality(pad[b]) ELSE Cardinality(pad[b]) + 1
    BY <1>4, FS_AddElement
  <2>2. Cardinality(pad'[b]) \in {Cardinality(pad[b]), Cardinality(pad[b]) + 1}
    BY <1>2, <2>1
  <2> QED BY <1>3, <2>2
<1>7. WorkOf(b)' = 2 * Cardinality(branch[b] \ {z}) + Cardinality(pad'[b]) + Flag(~padEos[b])
  BY <1>1, <1>2 DEF WorkOf, Flag
<1>8. WorkOf(b)' \in Nat /\ WorkOf(b)' < WorkOf(b)
  BY <1>3, <1>5, <1>6, <1>7 DEF WorkOf
<1>9. WorkOf(Other(b))' = WorkOf(Other(b))
  BY <1>1, <1>2, OtherBranch DEF WorkOf, Flag
<1> QED
  BY <1>1, <1>8, <1>9, LessInOne DEF IInv, FlowInv

(* A pad that gives up one frame has less work.                            *)
LEMMA LessAtPad ==
  ASSUME IInv, FlowInv, NEW b \in Branches, NEW x \in pad[b],
         pad'[b] = pad[b] \ {x}, UNCHANGED <<branch, padEos>>
  PROVE  WorkOf(b)' \in Nat /\ WorkOf(b)' < WorkOf(b)
<1>1. /\ Cardinality(branch[b]) \in Nat /\ Cardinality(pad[b]) \in Nat
      /\ Flag(~padEos[b]) \in {0, 1}
  BY WorkTypes DEF IInv, FlowInv
<1>2. pad[b] \in SUBSET Frames /\ IsFiniteSet(pad[b])
  BY FrameSets DEF IInv, Types
<1>3. /\ Cardinality(pad[b] \ {x}) = Cardinality(pad[b]) - 1
      /\ Cardinality(pad[b] \ {x}) \in Nat
  <2>1. IsFiniteSet(pad[b] \ {x}) /\ Cardinality(pad[b] \ {x}) = Cardinality(pad[b]) - 1
    BY <1>2, FS_RemoveElement
  <2> QED BY <2>1, FS_CardinalityType
<1>4. WorkOf(b)' = 2 * Cardinality(branch[b]) + Cardinality(pad[b] \ {x}) + Flag(~padEos[b])
  BY DEF WorkOf, Flag
<1> QED
  BY <1>1, <1>3, <1>4 DEF WorkOf

LEMMA DropOlderWorks ==
  ASSUME IInv, FlowInv, NEW b \in Branches, DropOlder(b)
  PROVE  WorkLeft' < WorkLeft
<1>1. PICK x \in pad[b] : pad' = [pad EXCEPT ![b] = @ \ {x}]
  BY DEF DropOlder
<1>2. UNCHANGED <<teeVars, branch, padEos, ended>>
  BY DEF DropOlder
<1>3. pad'[b] = pad[b] \ {x} /\ \A c \in Branches \ {b} : pad'[c] = pad[c]
  BY <1>1 DEF IInv, Types
<1>4. WorkOf(b)' \in Nat /\ WorkOf(b)' < WorkOf(b)
  BY <1>2, <1>3, LessAtPad
<1>5. WorkOf(Other(b))' = WorkOf(Other(b))
  BY <1>2, <1>3, OtherBranch DEF WorkOf, Flag
<1> QED
  BY <1>2, <1>4, <1>5, LessInOne DEF IInv, FlowInv

LEMMA FuseWorks ==
  ASSUME IInv, FlowInv, Fuse PROVE WorkLeft' < WorkLeft
<1>1. PICK d \in pad["detection"], f \in pad["flow"] :
        pad' = [detection |-> pad["detection"] \ {d}, flow |-> pad["flow"] \ {f}]
  BY DEF Fuse
<1>2. UNCHANGED <<teeVars, branch, padEos, ended>>
  BY DEF Fuse
<1>3. pad'["detection"] = pad["detection"] \ {d} /\ pad'["flow"] = pad["flow"] \ {f}
  BY <1>1
<1>4. "detection" \in Branches /\ "flow" \in Branches
  BY DEF Branches
<1>5. WorkOf("detection")' \in Nat /\ WorkOf("detection")' < WorkOf("detection")
  BY <1>2, <1>3, <1>4, LessAtPad
<1>6. WorkOf("flow")' \in Nat /\ WorkOf("flow")' < WorkOf("flow")
  BY <1>2, <1>3, <1>4, LessAtPad
<1>7. /\ PushesLeft \in Nat /\ Flag(~teeEos) \in {0, 1} /\ Flag(~ended) \in {0, 1}
      /\ WorkOf("detection") \in Nat /\ WorkOf("flow") \in Nat
  BY <1>4, WorkTypes DEF IInv, FlowInv
<1>8. PushesLeft' = PushesLeft /\ Flag(~teeEos)' = Flag(~teeEos) /\ Flag(~ended)' = Flag(~ended)
  BY <1>2 DEF PushesLeft, Flag, teeVars
<1>9. WorkLeft' = 3 * PushesLeft' + Flag(~teeEos)' + WorkOf("detection")' + WorkOf("flow")'
                    + Flag(~ended)'
  BY DEF WorkLeft
<1> QED
  BY <1>5, <1>6, <1>7, <1>8, <1>9 DEF WorkLeft

(* The ends come once each.                                                *)
LEMMA EndsWork ==
  ASSUME IInv, FlowInv, NEW b \in Branches, TeeEnds \/ DeliverEos(b) \/ End(b)
  PROVE  WorkLeft' < WorkLeft
<1>1. UNCHANGED <<next, target, branch, pad>>
  BY DEF TeeEnds, DeliverEos, End, teeVars
<1>2. PushesLeft' = PushesLeft
  BY <1>1 DEF PushesLeft, Flag
<1>3. /\ PushesLeft \in Nat /\ Flag(~teeEos) \in {0, 1} /\ Flag(~ended) \in {0, 1}
      /\ \A c \in Branches : WorkOf(c) \in Nat /\ Cardinality(branch[c]) \in Nat
                             /\ Cardinality(pad[c]) \in Nat /\ Flag(~padEos[c]) \in {0, 1}
  BY WorkTypes DEF IInv, FlowInv
<1>4. WorkOf("detection") \in Nat /\ WorkOf("flow") \in Nat
  BY <1>3 DEF Branches
<1>5. WorkLeft' = 3 * PushesLeft' + Flag(~teeEos)' + WorkOf("detection")' + WorkOf("flow")'
                    + Flag(~ended)'
  BY DEF WorkLeft
<1>6. CASE TeeEnds
  <2>1. /\ Flag(~teeEos) = 1 /\ Flag(~teeEos)' = 0 /\ Flag(~ended)' = Flag(~ended)
    BY <1>6 DEF TeeEnds, Flag
  <2>2. \A c \in Branches : WorkOf(c)' = WorkOf(c)
    BY <1>6 DEF TeeEnds, WorkOf, Flag
  <2>3. WorkOf("detection")' = WorkOf("detection") /\ WorkOf("flow")' = WorkOf("flow")
    BY <2>2 DEF Branches
  <2> QED BY <1>2, <1>3, <1>4, <1>5, <2>1, <2>3 DEF WorkLeft
<1>7. CASE DeliverEos(b)
  <2>1. padEos'[b] = TRUE /\ ~padEos[b] /\ \A c \in Branches \ {b} : padEos'[c] = padEos[c]
    BY <1>7 DEF DeliverEos, IInv, Types
  <2>2. WorkOf(b) = 2 * Cardinality(branch[b]) + Cardinality(pad[b]) + 1
    BY <2>1 DEF WorkOf, Flag
  <2>3. WorkOf(b)' = 2 * Cardinality(branch[b]) + Cardinality(pad[b]) + 0
    BY <1>1, <2>1 DEF WorkOf, Flag
  <2>4. WorkOf(b)' \in Nat /\ WorkOf(b)' < WorkOf(b)
    BY <1>3, <2>2, <2>3
  <2>5. WorkOf(Other(b))' = WorkOf(Other(b))
    BY <1>1, <2>1, OtherBranch DEF WorkOf, Flag
  <2>6. UNCHANGED <<teeVars, ended>>
    BY <1>7 DEF DeliverEos
  <2> QED BY <2>4, <2>5, <2>6, LessInOne DEF IInv, FlowInv
<1>8. CASE End(b)
  <2>1. /\ Flag(~ended) = 1 /\ Flag(~ended)' = 0 /\ Flag(~teeEos)' = Flag(~teeEos)
    BY <1>8 DEF End, Flag, teeVars
  <2>2. \A c \in Branches : WorkOf(c)' = WorkOf(c)
    BY <1>8 DEF End, WorkOf, Flag
  <2>3. WorkOf("detection")' = WorkOf("detection") /\ WorkOf("flow")' = WorkOf("flow")
    BY <2>2 DEF Branches
  <2> QED BY <1>2, <1>3, <1>4, <1>5, <2>1, <2>3 DEF WorkLeft
<1> QED
  BY <1>6, <1>7, <1>8

(***************************************************************************)
(* Every step of the tee, the branches and the join leaves less to do, so  *)
(* only so many follow one another; with StreamNeverStuck, threads that    *)
(* run when they can bring the stream to its end.                          *)
(***************************************************************************)
THEOREM WorkRunsOut == Spec => []WorkCounts /\ EveryStepWorks
<1>1. IInv /\ FlowInv => WorkCounts
  BY WorkTypes DEF IInv, FlowInv, WorkCounts
<1>2. IInv /\ FlowInv /\ [Next]_vars => [WorkLeft' < WorkLeft]_vars
  <2> SUFFICES ASSUME IInv, FlowInv, Next PROVE WorkLeft' < WorkLeft
    OBVIOUS
  <2>1. Branches # {}
    BY DEF Branches
  <2>2. CASE TeePush
    BY <2>2, TeePushWorks
  <2>3. CASE Fuse
    BY <2>3, FuseWorks
  <2>4. ASSUME NEW b \in Branches, Deliver(b) \/ Lose(b) PROVE WorkLeft' < WorkLeft
    BY <2>4, OutOfBranch
  <2>5. ASSUME NEW b \in Branches, DropOlder(b) PROVE WorkLeft' < WorkLeft
    BY <2>5, DropOlderWorks
  <2>6. ASSUME NEW b \in Branches, TeeEnds \/ DeliverEos(b) \/ End(b)
        PROVE  WorkLeft' < WorkLeft
    BY <2>6, EndsWork
  <2> QED BY <2>1, <2>2, <2>3, <2>4, <2>5, <2>6 DEF Next
<1> QED
  BY InitIInv, NextIInv, FlowInitial, NextFlow, <1>1, <1>2, PTL DEF Spec, EveryStepWorks
=============================================================================
