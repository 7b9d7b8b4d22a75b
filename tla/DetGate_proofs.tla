--------------------------- MODULE DetGate_proofs ---------------------------
(***************************************************************************)
(* What holds of nvmmdetgate for every setting of the gate, with any       *)
(* number of detections in a frame.  An update takes the detections of a   *)
(* frame one after the other, and so what it does is a fold: the proofs    *)
(* follow its run (module Folding).                                        *)
(***************************************************************************)
EXTENDS DetGate, FiniteSetTheorems, TLAPS

Associating == INSTANCE Folding WITH Op <- Associate
Reaping == INSTANCE Folding WITH Op <- StillThere
Scanning == INSTANCE Folding WITH Op <- Scan

HistoryOK ==
  /\ since \in 0 .. Amin
  /\ moving \in 0 .. Ksup
  /\ steady \in [n : 0 .. HistoryBound, place : Places \union {Nowhere}]

(* No track is older than the gate has had tracks for, and none has the    *)
(* support of more updates than there was something that moved.            *)
TracksEarned ==
  \A k \in DOMAIN tracks :
    tracks[k].age <= since /\ Capped(tracks[k].sup, Ksup) <= moving

LockedBlank == locked => tracks = <<>> /\ steady = NotSteady

(* A lone target has a track: the first at its place, with all the age and *)
(* the support the target can have given it.                               *)
TrackOf(trks, target, k) ==
  /\ trks[k].place = target.place /\ trks[k].lost = 0
  /\ trks[k].age >= Capped(target.n, Amin)
  /\ trks[k].sup >= Capped(target.n, Ksup)
  /\ \A j \in 1 .. k - 1 : trks[j].place # target.place

TargetTracked ==
  steady.n > 0 =>
    /\ InActive(steady.place)
    /\ \E k \in DOMAIN tracks : TrackOf(tracks, steady, k)

GateInv ==
  TypeOK /\ HistoryOK /\ TracksEarned /\ LockedBlank /\ TargetTracked /\ LockOnTime

-----------------------------------------------------------------------------
(* Settings.                                                               *)
LEMMA Settings ==
  /\ Amin \in Nat \ {0} /\ Ksup \in Nat \ {0} /\ Dist \in Nat \ {0}
  /\ MotionSilent \in Nat \ {0}
  /\ MaxLost \in Nat /\ MaxObjects \in Nat /\ MaxSup \in Nat /\ MaxSup > Ksup
  /\ Places \subseteq Nat
  /\ HistoryBound \in Nat \ {0} /\ HistoryBound >= Amin /\ HistoryBound >= Ksup
BY DetGateAssumption DEF HistoryBound

LEMMA Caps ==
  ASSUME NEW n \in Nat, NEW bound \in Nat
  PROVE  /\ Capped(n, bound) \in 0 .. bound /\ Capped(n, bound) <= n
         /\ n >= bound => Capped(n, bound) = bound
         /\ n <= bound => Capped(n, bound) = n
BY DEF Capped

(* A counter that has reached a bound of another one still has after both  *)
(* have counted once more.                                                 *)
LEMMA CountsOn ==
  ASSUME NEW n \in Nat, NEW a \in Nat, NEW bound \in Nat, NEW high \in Nat, NEW far \in Nat,
         a >= Capped(n, bound), bound <= high, bound <= far
  PROVE  Capped(a + 1, far) >= Capped(Capped(n + 1, high), bound)
<1>1. Capped(Capped(n + 1, high), bound) = Capped(n + 1, bound)
  BY DEF Capped
<1>2. a + 1 >= Capped(n + 1, bound)
  BY DEF Capped
<1>3. Capped(n + 1, bound) <= bound
  BY DEF Capped
<1>4. Capped(n + 1, bound) \in Nat
  BY DEF Capped
<1>5. CASE a + 1 < far
  <2>1. Capped(a + 1, far) = a + 1
    BY <1>5 DEF Capped
  <2> QED BY <1>1, <1>2, <2>1
<1>6. CASE ~(a + 1 < far)
  <2>1. Capped(a + 1, far) = far
    BY <1>6 DEF Capped
  <2> QED BY <1>1, <1>3, <1>4, <2>1
<1> QED
  BY <1>5, <1>6

(* What an update works on: the tracks, with what it did to each.          *)
Met == [place : Places, age : 1 .. Amin, lost : 0 .. MaxLost + 1, sup : 0 .. MaxSup,
        src : Int, matched : BOOLEAN]

Given == [place : Places, moved : BOOLEAN, src : Int]

-----------------------------------------------------------------------------
(* The folds are runs.                                                     *)
LEMMA AssociateRuns ==
  ASSUME NEW Q, NEW b, NEW s \in Seq(Q)
  PROVE  \E run : /\ Associating!IsRun(run, b, s, Len(s))
                  /\ FoldLeft(Associate, b, s) = run[Len(s)]
<1>1. DOMAIN s = 1 .. Len(s) /\ Len(s) \in Nat
  OBVIOUS
<1>2. FoldLeft(Associate, b, s) = Associating!Folded(b, s, DOMAIN s)
  BY Zenon DEF FoldLeft, MapThenFoldSet, Max, Associating!Folded,
               Associating!Unrolled, Associating!Largest
<1> QED
  BY <1>1, <1>2, Associating!FoldRuns, Zenon

LEMMA ReapRuns ==
  ASSUME NEW Q, NEW b, NEW s \in Seq(Q)
  PROVE  \E run : /\ Reaping!IsRun(run, b, s, Len(s))
                  /\ FoldLeft(StillThere, b, s) = run[Len(s)]
<1>1. DOMAIN s = 1 .. Len(s) /\ Len(s) \in Nat
  OBVIOUS
<1>2. FoldLeft(StillThere, b, s) = Reaping!Folded(b, s, DOMAIN s)
  BY Zenon DEF FoldLeft, MapThenFoldSet, Max, Reaping!Folded,
               Reaping!Unrolled, Reaping!Largest
<1> QED
  BY <1>1, <1>2, Reaping!FoldRuns, Zenon

LEMMA ScanRuns ==
  ASSUME NEW Q, NEW b, NEW s \in Seq(Q)
  PROVE  \E run : /\ Scanning!IsRun(run, b, s, Len(s))
                  /\ FoldLeft(Scan, b, s) = run[Len(s)]
<1>1. DOMAIN s = 1 .. Len(s) /\ Len(s) \in Nat
  OBVIOUS
<1>2. FoldLeft(Scan, b, s) = Scanning!Folded(b, s, DOMAIN s)
  BY Zenon DEF FoldLeft, MapThenFoldSet, Max, Scanning!Folded,
               Scanning!Unrolled, Scanning!Largest
<1> QED
  BY <1>1, <1>2, Scanning!FoldRuns, Zenon

-----------------------------------------------------------------------------
(* Reaping: what stays is what was not lost for too long, in its order.    *)
Stays(s, k) == s[k].lost <= MaxLost

Selects(r, s, n, h) ==
  /\ h \in [1 .. Len(r) -> 1 .. n]
  /\ \A i \in 1 .. Len(r) : r[i] = s[h[i]] /\ Stays(s, h[i])
  /\ \A i, j \in 1 .. Len(r) : i < j => h[i] < h[j]
  /\ \A k \in 1 .. n : Stays(s, k) => \E i \in 1 .. Len(r) : h[i] = k

LEMMA SelectsMore ==
  ASSUME NEW r \in Seq(Met), NEW s \in Seq(Met), NEW n \in 1 .. Len(s), NEW h,
         Selects(r, s, n - 1, h)
  PROVE  /\ StillThere(r, s[n]) \in Seq(Met)
         /\ \E g : Selects(StillThere(r, s[n]), s, n, g)
<1>1. s[n] \in Met /\ Len(r) \in Nat /\ n \in Nat /\ n - 1 \in Nat
  OBVIOUS
<1>2. CASE Stays(s, n)
  <2> DEFINE q == Append(r, s[n])
             g == [i \in 1 .. Len(r) + 1 |-> IF i = Len(r) + 1 THEN n ELSE h[i]]
  <2>1. StillThere(r, s[n]) = q
    BY <1>2, Zenon DEF StillThere, Stays
  <2>2. /\ q \in Seq(Met) /\ Len(q) = Len(r) + 1
        /\ \A i \in 1 .. Len(r) : q[i] = r[i]
        /\ q[Len(r) + 1] = s[n]
    BY <1>1
  <2> HIDE DEF q
  <2>3. g \in [1 .. Len(q) -> 1 .. n]
    BY <1>1, <2>2 DEF Selects
  <2>4. /\ g[Len(r) + 1] = n
        /\ \A i \in 1 .. Len(r) : g[i] = h[i] /\ h[i] \in 1 .. n - 1
    BY <1>1, <2>2 DEF Selects
  <2> HIDE DEF g
  <2>5. ASSUME NEW i \in 1 .. Len(q) PROVE q[i] = s[g[i]] /\ Stays(s, g[i])
    <3>1. CASE i = Len(r) + 1
      BY <1>2, <2>2, <2>4, <3>1, Zenon
    <3>2. CASE i # Len(r) + 1
      <4>1. i \in 1 .. Len(r)
        BY <1>1, <2>2, <3>2
      <4>2. r[i] = s[h[i]] /\ Stays(s, h[i])
        BY <4>1, Zenon DEF Selects
      <4> QED BY <2>2, <2>4, <4>1, <4>2, Zenon
    <3> QED BY <3>1, <3>2
  <2>6. ASSUME NEW i \in 1 .. Len(q), NEW j \in 1 .. Len(q), i < j PROVE g[i] < g[j]
    <3>1. i \in 1 .. Len(r) /\ g[i] = h[i]
      BY <2>2, <2>4, <2>6
    <3>2. CASE j = Len(r) + 1
      <4>1. g[j] = n
        BY <2>4, <3>2
      <4>2. h[i] \in 1 .. n - 1
        BY <1>1, <3>1 DEF Selects
      <4> QED BY <1>1, <3>1, <4>1, <4>2
    <3>3. CASE j # Len(r) + 1
      <4>1. j \in 1 .. Len(r) /\ g[j] = h[j]
        BY <2>2, <2>4, <3>3
      <4>2. h[i] < h[j]
        BY <1>1, <2>6, <3>1, <4>1 DEF Selects
      <4> QED BY <3>1, <4>1, <4>2
    <3> QED BY <3>2, <3>3
  <2>7. ASSUME NEW k \in 1 .. n, Stays(s, k) PROVE \E i \in 1 .. Len(q) : g[i] = k
    <3>1. CASE k = n
      BY <1>1, <2>2, <2>4, <3>1
    <3>2. CASE k # n
      <4>1. k \in 1 .. n - 1
        BY <1>1, <3>2
      <4>2. PICK i \in 1 .. Len(r) : h[i] = k
        BY <2>7, <4>1 DEF Selects
      <4> QED BY <1>1, <2>2, <2>4, <4>2
    <3> QED BY <3>1, <3>2
  <2>8. Selects(q, s, n, g)
    BY <2>3, <2>5, <2>6, <2>7 DEF Selects
  <2> QED BY <2>1, <2>2, <2>8
<1>3. CASE ~Stays(s, n)
  <2>1. StillThere(r, s[n]) = r
    BY <1>3, Zenon DEF StillThere, Stays
  <2>2. Selects(r, s, n, h)
    <3>1. h \in [1 .. Len(r) -> 1 .. n]
      BY <1>1 DEF Selects
    <3>2. \A k \in 1 .. n : Stays(s, k) => k \in 1 .. n - 1
      BY <1>1, <1>3
    <3> QED BY <3>1, <3>2 DEF Selects
  <2> QED BY <2>1, <2>2
<1> QED
  BY <1>2, <1>3

LEMMA ReapedSelects ==
  ASSUME NEW s \in Seq(Met)
  PROVE  Reaped(s) \in Seq(Met) /\ \E h : Selects(Reaped(s), s, Len(s), h)
<1>1. PICK run : /\ Reaping!IsRun(run, <<>>, s, Len(s))
                 /\ Reaped(s) = run[Len(s)]
  BY ReapRuns, Zenon DEF Reaped
<1> DEFINE S == {k \in 0 .. Len(s) :
                   run[k] \in Seq(Met) /\ \E h : Selects(run[k], s, k, h)}
<1>2. 0 \in S
  <2>1. run[0] = <<>>
    BY <1>1 DEF Reaping!IsRun
  <2>2. Selects(<<>>, s, 0, <<>>)
    BY DEF Selects
  <2>3. run[0] \in Seq(Met) /\ 0 \in 0 .. Len(s)
    BY <2>1
  <2>4. \E h : Selects(run[0], s, 0, h)
    BY <2>1, <2>2, Zenon
  <2> QED BY <2>3, <2>4
<1>3. ASSUME NEW k \in 1 .. Len(s), k - 1 \in S PROVE k \in S
  <2>1. run[k] = StillThere(run[k - 1], s[k])
    BY <1>1 DEF Reaping!IsRun
  <2>2. PICK h : Selects(run[k - 1], s, k - 1, h)
    BY <1>3
  <2>3. run[k - 1] \in Seq(Met)
    BY <1>3
  <2>4. run[k] \in Seq(Met) /\ \E g : Selects(run[k], s, k, g)
    BY <2>1, <2>2, <2>3, SelectsMore
  <2> QED BY <2>4
<1>4. \A k \in 0 .. Len(s) : k \in S
  <2> HIDE DEF S
  <2>1. Len(s) \in Nat
    OBVIOUS
  <2> QED BY <1>2, <1>3, <2>1, Reaping!ClimbTo
<1> QED
  BY <1>1, <1>4

-----------------------------------------------------------------------------
(* Associating one detection.                                              *)
Begun(d) == [place |-> d.place, age |-> 1, lost |-> 0,
             sup |-> IF d.moved THEN 1 ELSE 0, src |-> d.src, matched |-> TRUE]

Taking(t, d) == [place |-> d.place, age |-> Capped(t.age + 1, Amin), lost |-> 0,
                 sup |-> Support(t.sup, d.moved), src |-> d.src, matched |-> TRUE]

Takes(trks, d, k, r) ==
  /\ k \in Nearest(d, trks)
  /\ Len(r) = Len(trks)
  /\ r[k] = Taking(trks[k], d)
  /\ \A j \in 1 .. Len(trks) : j # k => r[j] = trks[j]

Begins(trks, d, r) ==
  /\ Nearest(d, trks) = {}
  /\ Len(r) = Len(trks) + 1
  /\ r[Len(r)] = Begun(d)
  /\ \A j \in 1 .. Len(trks) : r[j] = trks[j]

LEMMA TakingIs ==
  ASSUME NEW t \in Met, NEW d \in Given
  PROVE  Continued(t, d) = Taking(t, d) /\ Taking(t, d) \in Met /\ Begun(d) \in Met
<1>1. Continued(t, d) = Taking(t, d)
  <2> DEFINE c == Continued(t, d)
  <2>1. DOMAIN c = {"place", "age", "lost", "sup", "src", "matched"}
    BY DEF Continued, Met
  <2>2. c = [i \in {"place", "age", "lost", "sup", "src", "matched"} |-> c[i]]
    BY <2>1 DEF Continued, Met
  <2>3. c.place = d.place /\ c.src = d.src /\ c.lost = 0
    BY DEF Continued, Met
  <2>4. c.age = Capped(t.age + 1, Amin)
    BY DEF Continued, Met
  <2>5. c.sup = Support(t.sup, d.moved)
    BY DEF Continued, Met
  <2>6. c.matched = TRUE
    BY DEF Continued, Met
  <2> QED BY <2>1, <2>2, <2>3, <2>4, <2>5, <2>6 DEF Taking
<1>2. Capped(t.age + 1, Amin) \in 1 .. Amin
  BY Settings DEF Met, Capped
<1>3. Support(t.sup, d.moved) \in 0 .. MaxSup
  BY Settings DEF Met, Support, Capped
<1>4. Taking(t, d) \in Met
  BY <1>2, <1>3, Settings DEF Taking, Met, Given
<1>5. (IF d.moved THEN 1 ELSE 0) \in 0 .. MaxSup
  BY Settings
<1>6. Begun(d) \in Met
  BY <1>5, Settings DEF Begun, Met, Given
<1> QED
  BY <1>1, <1>4, <1>6

LEMMA DistanceIs ==
  ASSUME NEW p \in Nat, NEW q \in Nat
  PROVE  Distance(p, q) \in Nat /\ (Distance(p, q) = 0 <=> p = q)
BY DEF Distance

LEMMA NearestIs ==
  ASSUME NEW trks \in Seq(Met), NEW d \in Given, NEW k \in Nearest(d, trks)
  PROVE  /\ k \in 1 .. Len(trks) /\ ~trks[k].matched
         /\ \A j \in Nearest(d, trks) : j = k
<1>1. \A j \in 1 .. Len(trks) : Distance(trks[j].place, d.place) \in Nat
  <2> TAKE j \in 1 .. Len(trks)
  <2>1. trks[j] \in Met
    OBVIOUS
  <2>2. trks[j].place \in Nat /\ d.place \in Nat
    BY <2>1, Settings DEF Met, Given
  <2> QED BY <2>2, DistanceIs
<1>2. k \in 1 .. Len(trks) /\ ~trks[k].matched
  BY DEF Nearest
<1>3. ASSUME NEW j \in Nearest(d, trks), j # k PROVE FALSE
  <2> DEFINE dk == Distance(trks[k].place, d.place)
             dj == Distance(trks[j].place, d.place)
  <2>1. dk < dj \/ (dk = dj /\ k < j)
    BY <1>3 DEF Nearest
  <2>2. dj < dk \/ (dj = dk /\ j < k)
    BY <1>3 DEF Nearest
  <2>3. dk \in Nat /\ dj \in Nat /\ k \in Int /\ j \in Int
    BY <1>1, <1>2 DEF Nearest
  <2> HIDE DEF dk, dj
  <2> QED BY <2>1, <2>2, <2>3
<1> QED
  BY <1>2, <1>3

LEMMA AssociateIs ==
  ASSUME NEW trks \in Seq(Met), NEW d \in Given
  PROVE  /\ Associate(trks, d) \in Seq(Met)
         /\ \/ Begins(trks, d, Associate(trks, d))
            \/ \E k \in 1 .. Len(trks) : Takes(trks, d, k, Associate(trks, d))
<1>1. CASE Nearest(d, trks) = {}
  <2>1. Associate(trks, d) = Append(trks, Begun(d))
    BY <1>1 DEF Associate, Begun
  <2>2. Begun(d) \in Met
    <3>1. PICK t \in Met : TRUE
      <4> DEFINE t == [place |-> d.place, age |-> 1, lost |-> 0, sup |-> 0, src |-> d.src,
                       matched |-> TRUE]
      <4>1. t \in Met
        BY Settings DEF Met, Given
      <4> QED BY <4>1
    <3> QED BY <3>1, TakingIs
  <2> QED BY <1>1, <2>1, <2>2 DEF Begins
<1>2. CASE Nearest(d, trks) # {}
  <2>1. PICK k \in Nearest(d, trks) : TRUE
    BY <1>2
  <2>2. k \in 1 .. Len(trks) /\ \A j \in Nearest(d, trks) : j = k
    BY NearestIs
  <2> DEFINE r == [j \in DOMAIN trks |->
                     IF j \in Nearest(d, trks) THEN Continued(trks[j], d) ELSE trks[j]]
  <2>3. Associate(trks, d) = r
    BY <1>2, Zenon DEF Associate
  <2>4. \A j \in 1 .. Len(trks) : Continued(trks[j], d) = Taking(trks[j], d)
                                 /\ Taking(trks[j], d) \in Met /\ trks[j] \in Met
    BY TakingIs
  <2>5. DOMAIN trks = 1 .. Len(trks) /\ Len(trks) \in Nat
    OBVIOUS
  <2>6. \A j \in 1 .. Len(trks) : r[j] = IF j = k THEN Taking(trks[j], d) ELSE trks[j]
    BY <2>1, <2>2, <2>4, <2>5, Zenon
  <2>7. r \in [1 .. Len(trks) -> Met]
    BY <2>4, <2>5
  <2>8. r \in Seq(Met) /\ Len(r) = Len(trks)
    BY <2>5, <2>7
  <2> HIDE DEF r
  <2>9. r[k] = Taking(trks[k], d) /\ \A j \in 1 .. Len(trks) : j # k => r[j] = trks[j]
    BY <2>2, <2>6
  <2>10. Takes(trks, d, k, r)
    BY <2>8, <2>9 DEF Takes
  <2> QED BY <2>2, <2>3, <2>8, <2>10
<1> QED
  BY <1>1, <1>2

-----------------------------------------------------------------------------
(* What a track has after the detections of a frame so far.                *)
AgeThen == Capped(since + 1, Amin)
MovingThen(frame) == IF Moved(frame) THEN Capped(moving + 1, Ksup) ELSE moving

Earning(t, frame) ==
  /\ ~t.matched => t.lost > 0 /\ t.age <= since /\ Capped(t.sup, Ksup) <= moving
  /\ t.matched =>
       /\ t.lost = 0
       /\ t.age <= AgeThen /\ Capped(t.sup, Ksup) <= MovingThen(frame)
       /\ \E d \in Augmented(frame) : d.place = t.place /\ d.src = t.src

LEMMA TakingEarns ==
  ASSUME HistoryOK, NEW frame, NEW d \in Augmented(frame), d \in Given,
         NEW t \in Met, ~t.matched, Earning(t, frame)
  PROVE  Earning(Taking(t, d), frame)
<1>1. t.age \in Nat /\ t.sup \in 0 .. MaxSup /\ since \in 0 .. Amin /\ moving \in 0 .. Ksup
  BY Settings DEF HistoryOK, Met
<1>2. t.age <= since /\ Capped(t.sup, Ksup) <= moving
  BY DEF Earning
<1>3. Capped(t.age + 1, Amin) <= AgeThen
  BY <1>1, <1>2, Settings DEF Capped, AgeThen
<1>4. Capped(Support(t.sup, d.moved), Ksup) <= MovingThen(frame)
  <2>1. CASE d.moved
    <3>1. Moved(frame)
      BY <2>1 DEF Moved
    <3>2. MovingThen(frame) = Capped(moving + 1, Ksup)
      BY <3>1 DEF MovingThen
    <3>3. Support(t.sup, d.moved) = Capped(t.sup + 1, MaxSup)
      BY <2>1 DEF Support
    <3> QED BY <1>1, <1>2, <3>2, <3>3, Settings DEF Capped
  <2>2. CASE ~d.moved
    <3>1. Capped(Support(t.sup, d.moved), Ksup) = 0
      BY <2>2, Settings DEF Support, Capped
    <3> QED BY <1>1, <3>1, Settings DEF MovingThen, Capped
  <2> QED BY <2>1, <2>2
<1>5. /\ Taking(t, d).matched = TRUE /\ Taking(t, d).lost = 0
      /\ Taking(t, d).age = Capped(t.age + 1, Amin)
      /\ Taking(t, d).sup = Support(t.sup, d.moved)
      /\ Taking(t, d).place = d.place /\ Taking(t, d).src = d.src
  BY DEF Taking
<1> QED
  BY <1>3, <1>4, <1>5 DEF Earning

LEMMA BegunEarns ==
  ASSUME HistoryOK, NEW frame, NEW d \in Augmented(frame), d \in Given
  PROVE  Earning(Begun(d), frame)
<1>1. since \in 0 .. Amin /\ moving \in 0 .. Ksup
  BY DEF HistoryOK
<1>2. 1 <= AgeThen
  BY <1>1, Settings DEF Capped, AgeThen
<1>3. Capped(IF d.moved THEN 1 ELSE 0, Ksup) <= MovingThen(frame)
  <2>1. CASE d.moved
    <3>1. Moved(frame)
      BY <2>1 DEF Moved
    <3> QED BY <1>1, <2>1, <3>1, Settings DEF MovingThen, Capped
  <2>2. CASE ~d.moved
    BY <1>1, <2>2, Settings DEF MovingThen, Capped
  <2> QED BY <2>1, <2>2
<1>4. /\ Begun(d).matched = TRUE /\ Begun(d).lost = 0 /\ Begun(d).age = 1
      /\ Begun(d).sup = (IF d.moved THEN 1 ELSE 0)
      /\ Begun(d).place = d.place /\ Begun(d).src = d.src
  BY DEF Begun
<1> QED
  BY <1>2, <1>3, <1>4 DEF Earning

LEMMA AssociateEarns ==
  ASSUME HistoryOK, NEW frame, NEW d \in Augmented(frame), d \in Given,
         NEW trks \in Seq(Met), \A k \in 1 .. Len(trks) : Earning(trks[k], frame)
  PROVE  /\ Associate(trks, d) \in Seq(Met)
         /\ \A k \in 1 .. Len(Associate(trks, d)) : Earning(Associate(trks, d)[k], frame)
<1> DEFINE r == Associate(trks, d)
<1>1. r \in Seq(Met) /\ (Begins(trks, d, r) \/ \E k \in 1 .. Len(trks) : Takes(trks, d, k, r))
  BY AssociateIs
<1> HIDE DEF r
<1>2. CASE Begins(trks, d, r)
  <2>1. Earning(Begun(d), frame)
    BY BegunEarns
  <2>2. \A k \in 1 .. Len(r) : k = Len(r) \/ k \in 1 .. Len(trks)
    BY <1>2 DEF Begins
  <2> QED BY <1>1, <1>2, <2>1, <2>2 DEF Begins, r
<1>3. CASE \E k \in 1 .. Len(trks) : Takes(trks, d, k, r)
  <2>1. PICK k \in 1 .. Len(trks) : Takes(trks, d, k, r)
    BY <1>3
  <2>2. k \in Nearest(d, trks) /\ ~trks[k].matched /\ trks[k] \in Met
    BY <2>1, NearestIs DEF Takes
  <2>3. Earning(Taking(trks[k], d), frame)
    BY <2>2, TakingEarns
  <2> QED BY <1>1, <2>1, <2>3 DEF Takes, r
<1> QED
  BY <1>1, <1>2, <1>3

-----------------------------------------------------------------------------
(* The frames.                                                             *)
LEMMA FramesAre ==
  ASSUME NEW frame \in Frames
  PROVE  /\ frame.meta \in BOOLEAN
         /\ frame.objects \in Seq(Seen \union {Other})
         /\ Len(frame.objects) \in 0 .. MaxObjects
         /\ frame.blob \in Seen \union {NoBlob}
         /\ ~frame.meta => frame.objects = <<>>
<1>1. /\ frame.meta \in BOOLEAN /\ frame.objects \in ObjectLists /\ frame.blob \in Blobs
      /\ ~frame.meta => frame.objects = <<>>
  BY DEF Frames
<1>2. PICK n \in 0 .. MaxObjects : frame.objects \in [1 .. n -> Seen \union {Other}]
  BY <1>1 DEF ObjectLists
<1>3. frame.objects \in Seq(Seen \union {Other}) /\ Len(frame.objects) = n
  BY <1>2
<1>4. frame.blob \in Seen \union {NoBlob}
  BY <1>1, Zenon DEF Blobs
<1> QED
  BY <1>1, <1>2, <1>3, <1>4

LEMMA WantedIs ==
  ASSUME NEW frame \in Frames, NEW i \in Wanted(frame)
  PROVE  i \in 1 .. Len(frame.objects) /\ frame.objects[i] \in Seen
<1>1. frame.objects \in Seq(Seen \union {Other})
  BY FramesAre
<1>2. i \in 1 .. Len(frame.objects) /\ frame.objects[i] # Other
  BY <1>1 DEF Wanted
<1>3. frame.objects[i] \in Seen \union {Other}
  BY <1>1, <1>2
<1> QED
  BY <1>2, <1>3

FromDets(frame) ==
  {[place |-> frame.objects[i].place, moved |-> frame.objects[i].moved, src |-> i] :
     i \in Wanted(frame)}

FromBlob(frame) ==
  IF SeedOnMotion /\ fcount + 1 >= MotionSilent /\ frame.blob # NoBlob
  THEN {[place |-> frame.blob.place, moved |-> frame.blob.moved, src |-> Motion]}
  ELSE {}

LEMMA GivenIs ==
  ASSUME NEW frame \in Frames, NEW d \in Augmented(frame)
  PROVE  /\ d \in Given
         /\ \/ d.src = Motion
            \/ /\ d.src \in 1 .. Len(frame.objects)
               /\ frame.objects[d.src].place = d.place
<1>1. d \in FromDets(frame) \/ d \in FromBlob(frame)
  BY Zenon DEF Augmented, FromDets, FromBlob
<1>2. CASE d \in FromDets(frame)
  <2>1. PICK i \in Wanted(frame) :
          d = [place |-> frame.objects[i].place, moved |-> frame.objects[i].moved,
               src |-> i]
    BY <1>2 DEF FromDets
  <2>2. i \in 1 .. Len(frame.objects) /\ frame.objects[i] \in Seen
    BY WantedIs
  <2> QED BY <2>1, <2>2 DEF Given, Seen
<1>3. CASE d \in FromBlob(frame)
  <2>1. /\ frame.blob # NoBlob
        /\ d = [place |-> frame.blob.place, moved |-> frame.blob.moved, src |-> Motion]
    BY <1>3 DEF FromBlob
  <2>2. frame.blob \in Seen
    BY <2>1, FramesAre
  <2> QED BY <2>1, <2>2 DEF Given, Seen, Motion
<1> QED
  BY <1>1, <1>2, <1>3

LEMMA AugmentedFinite ==
  ASSUME NEW frame \in Frames
  PROVE  IsFiniteSet(Augmented(frame)) /\ Cardinality(Augmented(frame)) \in Nat
<1>1. IsFiniteSet(FromDets(frame))
  <2> DEFINE f == [i \in Wanted(frame) |->
                     [place |-> frame.objects[i].place, moved |-> frame.objects[i].moved,
                      src |-> i]]
  <2>1. Wanted(frame) \subseteq 1 .. Len(frame.objects) /\ Len(frame.objects) \in Int
    BY FramesAre, WantedIs
  <2>2. IsFiniteSet(Wanted(frame))
    <3>1. IsFiniteSet(1 .. Len(frame.objects))
      BY <2>1, FS_Interval
    <3> QED BY <2>1, <3>1, FS_Subset
  <2>3. f \in [Wanted(frame) -> FromDets(frame)]
    BY DEF FromDets
  <2>4. \A d \in FromDets(frame) : \E i \in Wanted(frame) : f[i] = d
    BY DEF FromDets
  <2> HIDE DEF f
  <2>5. f \in Surjection(Wanted(frame), FromDets(frame))
    BY <2>3, <2>4 DEF Surjection
  <2> QED BY <2>2, <2>5, FS_Surjection
<1>2. IsFiniteSet(FromBlob(frame))
  BY FS_EmptySet, FS_Singleton DEF FromBlob
<1>3. Augmented(frame) = FromDets(frame) \union FromBlob(frame)
  BY Zenon DEF Augmented, FromDets, FromBlob
<1>4. IsFiniteSet(Augmented(frame))
  BY <1>1, <1>2, <1>3, FS_Union
<1> QED
  BY <1>4, FS_CardinalityType

LEMMA OrderIs ==
  ASSUME NEW frame \in Frames, NEW order \in SetToSeqs(Augmented(frame))
  PROVE  /\ order \in Seq(Augmented(frame)) /\ Len(order) = Cardinality(Augmented(frame))
         /\ \A i \in 1 .. Len(order) : order[i] \in Augmented(frame) /\ order[i] \in Given
<1>1. Cardinality(Augmented(frame)) \in Nat
  BY AugmentedFinite
<1>2. order \in [1 .. Cardinality(Augmented(frame)) -> Augmented(frame)]
  BY DEF SetToSeqs
<1>3. order \in Seq(Augmented(frame)) /\ Len(order) = Cardinality(Augmented(frame))
  BY <1>1, <1>2
<1> QED
  BY <1>3, GivenIs

LEMMA AgedIs ==
  ASSUME GateInv, NEW frame
  PROVE  /\ Aged \in Seq(Met) /\ Len(Aged) = Len(tracks)
         /\ \A k \in 1 .. Len(tracks) :
              /\ Earning(Aged[k], frame) /\ ~Aged[k].matched
              /\ Aged[k].place = tracks[k].place
              /\ Aged[k].age = tracks[k].age /\ Aged[k].sup = tracks[k].sup
<1>1. tracks \in Seq(Track) /\ Len(tracks) \in Nat /\ DOMAIN tracks = 1 .. Len(tracks)
  BY DEF GateInv, TypeOK
<1>2. ASSUME NEW k \in 1 .. Len(tracks)
      PROVE  /\ Aged[k] = [place |-> tracks[k].place, age |-> tracks[k].age,
                           lost |-> tracks[k].lost + 1, sup |-> tracks[k].sup,
                           src |-> NoIndex, matched |-> FALSE]
             /\ Aged[k] \in Met
  <2>1. tracks[k] \in Track
    BY <1>1
  <2>2. Aged[k] = [place |-> tracks[k].place, age |-> tracks[k].age,
                   lost |-> tracks[k].lost + 1, sup |-> tracks[k].sup,
                   src |-> NoIndex, matched |-> FALSE]
    BY <1>1 DEF Aged
  <2>3. tracks[k].lost + 1 \in 0 .. MaxLost + 1
    BY <2>1, Settings DEF Track
  <2> QED BY <2>1, <2>2, <2>3 DEF Met, Track, NoIndex
<1>3. Aged \in [1 .. Len(tracks) -> Met]
  BY <1>1, <1>2 DEF Aged
<1>4. Aged \in Seq(Met) /\ Len(Aged) = Len(tracks)
  BY <1>1, <1>3
<1>5. ASSUME NEW k \in 1 .. Len(tracks)
      PROVE  /\ Aged[k].matched = FALSE
             /\ Aged[k].place = tracks[k].place /\ Aged[k].lost = tracks[k].lost + 1
             /\ Aged[k].age = tracks[k].age /\ Aged[k].sup = tracks[k].sup
  <2>1. Aged[k] = [place |-> tracks[k].place, age |-> tracks[k].age,
                   lost |-> tracks[k].lost + 1, sup |-> tracks[k].sup,
                   src |-> NoIndex, matched |-> FALSE]
    BY <1>2
  <2>2. Aged[k].matched = FALSE
    BY <2>1
  <2>3. /\ Aged[k].place = tracks[k].place /\ Aged[k].lost = tracks[k].lost + 1
        /\ Aged[k].age = tracks[k].age /\ Aged[k].sup = tracks[k].sup
    BY <2>1
  <2> QED BY <2>2, <2>3
<1>6. ASSUME NEW k \in 1 .. Len(tracks) PROVE Earning(Aged[k], frame)
  <2>1. tracks[k].age <= since /\ Capped(tracks[k].sup, Ksup) <= moving
    BY <1>1 DEF GateInv, TracksEarned
  <2>2. tracks[k] \in Track
    BY <1>1
  <2>3. tracks[k].lost + 1 > 0
    BY <2>2, Settings DEF Track
  <2> QED BY <1>5, <2>1, <2>3 DEF Earning
<1> QED
  BY <1>4, <1>5, <1>6

(* All of a frame.                                                         *)
LEMMA FrameEarns ==
  ASSUME GateInv, NEW frame \in Frames, NEW order \in SetToSeqs(Augmented(frame))
  PROVE  /\ FoldLeft(Associate, Aged, order) \in Seq(Met)
         /\ \A k \in 1 .. Len(FoldLeft(Associate, Aged, order)) :
              Earning(FoldLeft(Associate, Aged, order)[k], frame)
<1>1. /\ order \in Seq(Augmented(frame)) /\ Len(order) \in Nat
      /\ \A i \in 1 .. Len(order) : order[i] \in Augmented(frame) /\ order[i] \in Given
  BY OrderIs, AugmentedFinite
<1>2. PICK run : /\ Associating!IsRun(run, Aged, order, Len(order))
                 /\ FoldLeft(Associate, Aged, order) = run[Len(order)]
  BY <1>1, AssociateRuns
<1> DEFINE S == {k \in 0 .. Len(order) :
                   /\ run[k] \in Seq(Met)
                   /\ \A j \in 1 .. Len(run[k]) : Earning(run[k][j], frame)}
<1>3. 0 \in S
  <2>1. run[0] = Aged
    BY <1>2 DEF Associating!IsRun
  <2>2. /\ Aged \in Seq(Met) /\ Len(Aged) = Len(tracks)
        /\ \A k \in 1 .. Len(tracks) : Earning(Aged[k], frame)
    BY AgedIs
  <2>3. 0 \in 0 .. Len(order)
    BY <1>1
  <2> QED BY <2>1, <2>2, <2>3
<1>4. ASSUME NEW k \in 1 .. Len(order), k - 1 \in S PROVE k \in S
  <2>1. run[k] = Associate(run[k - 1], order[k])
    BY <1>2 DEF Associating!IsRun
  <2>2. run[k - 1] \in Seq(Met) /\ \A j \in 1 .. Len(run[k - 1]) : Earning(run[k - 1][j], frame)
    BY <1>4
  <2>3. HistoryOK
    BY DEF GateInv
  <2>4. /\ run[k] \in Seq(Met)
        /\ \A j \in 1 .. Len(run[k]) : Earning(run[k][j], frame)
    BY <1>1, <2>1, <2>2, <2>3, AssociateEarns
  <2> QED BY <1>1, <2>4
<1>5. \A k \in 0 .. Len(order) : k \in S
  <2> HIDE DEF S
  <2> QED BY <1>1, <1>3, <1>4, Associating!ClimbTo
<1> QED
  BY <1>1, <1>2, <1>5

-----------------------------------------------------------------------------
(* The tracks an unlocked update is left with.                             *)
Left(order) == Reaped(FoldLeft(Associate, Aged, order))

LEMMA LeftEarns ==
  ASSUME GateInv, NEW frame \in Frames, NEW order \in SetToSeqs(Augmented(frame))
  PROVE  /\ Left(order) \in Seq(Met)
         /\ \A k \in 1 .. Len(Left(order)) :
              Earning(Left(order)[k], frame) /\ Left(order)[k].lost <= MaxLost
<1> DEFINE s == FoldLeft(Associate, Aged, order)
<1>1. s \in Seq(Met) /\ \A k \in 1 .. Len(s) : Earning(s[k], frame)
  BY FrameEarns
<1> HIDE DEF s
<1>2. Reaped(s) \in Seq(Met)
  BY <1>1, ReapedSelects
<1>3. PICK h : Selects(Reaped(s), s, Len(s), h)
  BY <1>1, ReapedSelects
<1>4. \A k \in 1 .. Len(Reaped(s)) : h[k] \in 1 .. Len(s) /\ Reaped(s)[k] = s[h[k]]
                                     /\ s[h[k]].lost <= MaxLost
  BY <1>3 DEF Selects, Stays
<1>5. \A k \in 1 .. Len(Reaped(s)) :
        Earning(Reaped(s)[k], frame) /\ Reaped(s)[k].lost <= MaxLost
  <2> TAKE k \in 1 .. Len(Reaped(s))
  <2>1. Reaped(s)[k] = s[h[k]]
    BY <1>4
  <2>2. Earning(s[h[k]], frame) /\ s[h[k]].lost <= MaxLost
    BY <1>1, <1>4
  <2> QED BY <2>1, <2>2
<1> QED
  BY <1>2, <1>5 DEF Left, s

(* What they are when nothing of the frame is asked any more.              *)
LEMMA KeptIs ==
  ASSUME NEW trks \in Seq(Met), \A k \in 1 .. Len(trks) : trks[k].lost <= MaxLost
  PROVE  /\ Kept(trks) \in Seq(Track) /\ Len(Kept(trks)) = Len(trks)
         /\ \A k \in 1 .. Len(trks) :
              /\ Kept(trks)[k].place = trks[k].place /\ Kept(trks)[k].lost = trks[k].lost
              /\ Kept(trks)[k].age = trks[k].age /\ Kept(trks)[k].sup = trks[k].sup
<1>1. DOMAIN trks = 1 .. Len(trks) /\ Len(trks) \in Nat
  OBVIOUS
<1>2. ASSUME NEW k \in 1 .. Len(trks)
      PROVE  /\ Kept(trks)[k] = [place |-> trks[k].place, age |-> trks[k].age,
                                 lost |-> trks[k].lost, sup |-> trks[k].sup]
             /\ Kept(trks)[k] \in Track
  <2>1. trks[k] \in Met /\ trks[k].lost <= MaxLost
    OBVIOUS
  <2>2. Kept(trks)[k] = [place |-> trks[k].place, age |-> trks[k].age,
                         lost |-> trks[k].lost, sup |-> trks[k].sup]
    BY <1>1 DEF Kept
  <2>3. trks[k].lost \in 0 .. MaxLost
    <3>1. trks[k].lost \in 0 .. MaxLost + 1
      BY <2>1 DEF Met
    <3>2. trks[k].lost <= MaxLost
      BY <2>1
    <3> QED BY <3>1, <3>2, Settings
  <2>4. trks[k].place \in Places /\ trks[k].age \in 1 .. Amin /\ trks[k].sup \in 0 .. MaxSup
    BY <2>1 DEF Met
  <2>5. Kept(trks)[k] \in Track
    BY <2>2, <2>3, <2>4 DEF Track
  <2> QED BY <2>2, <2>5
<1>3. Kept(trks) \in [1 .. Len(trks) -> Track]
  BY <1>1, <1>2 DEF Kept
<1>4. Kept(trks) \in Seq(Track) /\ Len(Kept(trks)) = Len(trks)
  BY <1>1, <1>3
<1>5. ASSUME NEW k \in 1 .. Len(trks)
      PROVE  /\ Kept(trks)[k].place = trks[k].place /\ Kept(trks)[k].lost = trks[k].lost
             /\ Kept(trks)[k].age = trks[k].age /\ Kept(trks)[k].sup = trks[k].sup
  <2>1. Kept(trks)[k] = [place |-> trks[k].place, age |-> trks[k].age,
                         lost |-> trks[k].lost, sup |-> trks[k].sup]
    BY <1>2
  <2> QED BY <2>1
<1> QED
  BY <1>4, <1>5

(* The best of those that are confirmed.                                   *)
LEMMA LeadersExist ==
  ASSUME NEW trks \in Seq(Met), NEW k \in Confirmable(trks)
  PROVE  Leaders(trks) # {}
<1> DEFINE Short == {n \in Nat : \E j \in Confirmable(trks) : n = MaxSup - trks[j].sup}
<1>1. \A j \in Confirmable(trks) : trks[j].sup \in 0 .. MaxSup
  <2> TAKE j \in Confirmable(trks)
  <2>1. trks[j] \in Met
    BY DEF Confirmable
  <2> QED BY <2>1 DEF Met
<1>2. \A j \in Confirmable(trks) : MaxSup - trks[j].sup \in Short
  BY <1>1, Settings
<1>3. PICK m \in Short : \A n \in Short : m <= n
  BY <1>2, Associating!LeastOf
<1>4. PICK j \in Confirmable(trks) : m = MaxSup - trks[j].sup
  BY <1>3
<1>5. \A i \in Confirmable(trks) : trks[i].sup <= trks[j].sup
  <2> TAKE i \in Confirmable(trks)
  <2>1. MaxSup - trks[j].sup <= MaxSup - trks[i].sup
    BY <1>2, <1>3, <1>4
  <2> QED BY <1>1, <2>1, Settings
<1> QED
  BY <1>4, <1>5 DEF Leaders

-----------------------------------------------------------------------------
(* A lone target.                                                          *)
LEMMA FirstAtPlace ==
  ASSUME NEW trks \in Seq(Met), NEW d \in Given, NEW k \in 1 .. Len(trks),
         ~trks[k].matched, trks[k].place = d.place,
         \A j \in 1 .. k - 1 : trks[j].place # d.place
  PROVE  k \in Nearest(d, trks)
<1>1. \A j \in 1 .. Len(trks) :
        /\ Distance(trks[j].place, d.place) \in Nat
        /\ Distance(trks[j].place, d.place) = 0 <=> trks[j].place = d.place
  <2> TAKE j \in 1 .. Len(trks)
  <2>1. trks[j] \in Met
    OBVIOUS
  <2>2. trks[j].place \in Nat /\ d.place \in Nat
    BY <2>1, Settings DEF Met, Given
  <2> QED BY <2>2, DistanceIs
<1>2. Distance(trks[k].place, d.place) = 0
  BY <1>1
<1>3. ASSUME NEW j \in DOMAIN trks \ {k}
      PROVE  \/ Distance(trks[k].place, d.place) < Distance(trks[j].place, d.place)
             \/ /\ Distance(trks[k].place, d.place) = Distance(trks[j].place, d.place)
                /\ k < j
  <2>1. j \in 1 .. Len(trks) /\ j # k
    OBVIOUS
  <2>2. CASE trks[j].place = d.place
    <3>1. ~(j \in 1 .. k - 1)
      BY <2>2
    <3> QED BY <1>1, <1>2, <2>1, <2>2, <3>1
  <2>3. CASE trks[j].place # d.place
    BY <1>1, <1>2, <2>1, <2>3
  <2> QED BY <2>2, <2>3
<1>4. 0 < Dist
  BY Settings
<1> QED
  BY <1>2, <1>3, <1>4 DEF Nearest

LEMMA NoneBefore ==
  ASSUME NEW trks \in Seq(Met), NEW d \in Given, NEW k \in 1 .. Len(trks) + 1,
         \A j \in 1 .. Len(trks) : ~trks[j].matched,
         (Nearest(d, trks) = {} /\ k = Len(trks) + 1) \/ k \in Nearest(d, trks)
  PROVE  \A j \in 1 .. k - 1 : trks[j].place # d.place
<1> SUFFICES ASSUME NEW i \in 1 .. k - 1, trks[i].place = d.place PROVE FALSE
  OBVIOUS
<1>0. Len(trks) \in Nat /\ k \in Nat
  OBVIOUS
<1> DEFINE There == {j \in Nat : j \in 1 .. Len(trks) /\ trks[j].place = d.place}
<1>1. i \in There
  BY <1>0
<1>2. PICK j \in There : \A n \in There : j <= n
  BY <1>1, Associating!LeastOf
<1>3. j \in 1 .. Len(trks) /\ trks[j].place = d.place /\ j <= i /\ j < k
  BY <1>0, <1>1, <1>2
<1>4. \A n \in 1 .. j - 1 : trks[n].place # d.place
  <2> SUFFICES ASSUME NEW n \in 1 .. j - 1, trks[n].place = d.place PROVE FALSE
    OBVIOUS
  <2>1. n \in There /\ n < j
    BY <1>0, <1>3
  <2> QED BY <1>2, <1>3, <2>1
<1>5. j \in Nearest(d, trks)
  BY <1>3, <1>4, FirstAtPlace
<1>6. k \in Nearest(d, trks)
  BY <1>5
<1>7. j = k
  BY <1>5, <1>6, NearestIs
<1> QED
  BY <1>3, <1>7

LEMMA LoneIs ==
  ASSUME NEW frame \in Frames, NEW order \in SetToSeqs(Augmented(frame)),
         Steady(frame).n > 0
  PROVE  \E d \in Augmented(frame) :
           /\ d \in Given /\ d.moved = TRUE /\ InActive(d.place)
           /\ FoldLeft(Associate, Aged, order) = Associate(Aged, d)
           /\ Steady(frame) = [n |-> IF steady.place = d.place
                                     THEN Capped(steady.n + 1, HistoryBound) ELSE 1,
                               place |-> d.place]
<1> DEFINE d == CHOOSE x \in Lone(frame) : TRUE
<1>1. /\ Lone(frame) # {}
      /\ Steady(frame) = [n |-> IF steady.place = d.place
                                THEN Capped(steady.n + 1, HistoryBound) ELSE 1,
                          place |-> d.place]
  <2>1. NotSteady.n = 0
    BY DEF NotSteady
  <2> QED BY <2>1 DEF Steady
<1>2. d \in Lone(frame)
  BY <1>1, Zenon
<1> HIDE DEF d
<1>3. d \in Augmented(frame) /\ Augmented(frame) = {d} /\ d.moved /\ InActive(d.place)
  BY <1>2 DEF Lone
<1>4. d \in Given
  BY <1>3, GivenIs
<1>5. d.moved = TRUE
  BY <1>3, <1>4 DEF Given
<1>6. order[1] = d /\ Len(order) = 1
  <2>1. Cardinality(Augmented(frame)) = 1
    BY <1>3, FS_Singleton
  <2>2. Len(order) = 1 /\ order[1] \in Augmented(frame)
    <3>1. Len(order) = Cardinality(Augmented(frame))
      BY OrderIs
    <3>2. Len(order) = 1
      BY <2>1, <3>1
    <3>3. \A i \in 1 .. Len(order) : order[i] \in Augmented(frame)
      BY OrderIs
    <3> QED BY <3>2, <3>3
  <2> QED BY <1>3, <2>2
<1>7. FoldLeft(Associate, Aged, order) = Associate(Aged, d)
  <2>1. order \in Seq(Augmented(frame))
    BY OrderIs
  <2>2. PICK run : /\ Associating!IsRun(run, Aged, order, Len(order))
                   /\ FoldLeft(Associate, Aged, order) = run[Len(order)]
    BY <2>1, AssociateRuns
  <2>3. run[0] = Aged /\ \A k \in 1 .. 1 : run[k] = Associate(run[k - 1], order[k])
    BY <1>6, <2>2 DEF Associating!IsRun
  <2>4. 1 \in 1 .. 1 /\ 1 - 1 = 0
    OBVIOUS
  <2>5. run[1] = Associate(run[0], order[1])
    BY <2>3, <2>4
  <2> QED BY <1>6, <2>2, <2>3, <2>5
<1> QED
  BY <1>1, <1>3, <1>4, <1>5, <1>7

LEMMA LoneAssociated ==
  ASSUME GateInv, NEW frame, NEW d \in Given, d.moved = TRUE, NEW n \in Nat,
         n = IF steady.place = d.place THEN Capped(steady.n + 1, HistoryBound) ELSE 1
  PROVE  \E k \in 1 .. Len(Associate(Aged, d)) :
           TrackOf(Associate(Aged, d), [n |-> n, place |-> d.place], k)
<1> DEFINE r == Associate(Aged, d)
           target == [n |-> n, place |-> d.place]
<1>0. target.n = n /\ target.place = d.place
  OBVIOUS
<1>1. /\ Aged \in Seq(Met) /\ Len(Aged) = Len(tracks)
      /\ \A k \in 1 .. Len(tracks) : Earning(Aged[k], frame)
  BY AgedIs
<1>2. \A k \in 1 .. Len(tracks) : ~Aged[k].matched
  BY AgedIs
<1>3. \A k \in 1 .. Len(tracks) :
        /\ Aged[k].place = tracks[k].place
        /\ Aged[k].age = tracks[k].age /\ Aged[k].sup = tracks[k].sup
  BY AgedIs
<1>4. \A k \in 1 .. Len(tracks) : Aged[k].age \in 1 .. Amin /\ Aged[k].sup \in 0 .. MaxSup
  <2> TAKE k \in 1 .. Len(tracks)
  <2>1. Aged[k] \in Met
    BY <1>1
  <2> QED BY <2>1 DEF Met
<1>5. r \in Seq(Met) /\ (Begins(Aged, d, r) \/ \E k \in 1 .. Len(Aged) : Takes(Aged, d, k, r))
  BY <1>1, AssociateIs
<1>6. steady.n \in Nat
  BY Settings DEF GateInv, HistoryOK
<1> HIDE DEF r, target
<1>7. ASSUME NEW k \in 1 .. Len(Aged), Takes(Aged, d, k, r)
      PROVE  /\ r[k].place = d.place /\ r[k].lost = 0
             /\ r[k].age = Capped(Aged[k].age + 1, Amin)
             /\ r[k].sup = Capped(Aged[k].sup + 1, MaxSup)
             /\ k \in 1 .. Len(r)
             /\ \A j \in 1 .. k - 1 : r[j] = Aged[j]
  BY <1>1, <1>7 DEF Takes, Taking, Support
<1>8. CASE steady.place = d.place /\ steady.n > 0
  <2>1. PICK k \in DOMAIN tracks : TrackOf(tracks, steady, k)
    BY <1>8 DEF GateInv, TargetTracked
  <2>2. k \in 1 .. Len(tracks) /\ Len(tracks) \in Nat
    BY <1>1, <2>1 DEF GateInv, TypeOK
  <2>3. Aged[k].place = d.place
    BY <1>3, <1>8, <2>1, <2>2 DEF TrackOf
  <2>4. \A j \in 1 .. k - 1 : Aged[j].place # d.place
    BY <1>3, <1>8, <2>1, <2>2 DEF TrackOf
  <2>5. k \in Nearest(d, Aged)
    BY <1>1, <1>2, <2>2, <2>3, <2>4, FirstAtPlace
  <2>6. Takes(Aged, d, k, r)
    <3>1. ~Begins(Aged, d, r)
      BY <2>5 DEF Begins
    <3>2. PICK j \in 1 .. Len(Aged) : Takes(Aged, d, j, r)
      BY <1>5, <3>1
    <3>3. j = k
      BY <1>1, <2>5, <3>2, NearestIs DEF Takes
    <3> QED BY <3>2, <3>3
  <2>7. Aged[k].age >= Capped(steady.n, Amin) /\ Aged[k].sup >= Capped(steady.n, Ksup)
    BY <1>3, <2>1, <2>2 DEF TrackOf
  <2>8. n = Capped(steady.n + 1, HistoryBound)
    BY <1>8
  <2>80. Aged[k].age \in Nat /\ Aged[k].sup \in Nat
    BY <1>4, <2>2
  <2>81. HistoryBound \in Nat /\ Amin <= HistoryBound /\ Ksup <= HistoryBound
         /\ Amin \in Nat /\ Ksup \in Nat /\ MaxSup \in Nat /\ Amin <= Amin /\ Ksup <= MaxSup
    BY Settings
  <2>9. Capped(Aged[k].age + 1, Amin) >= Capped(n, Amin)
    BY <1>6, <2>7, <2>8, <2>80, <2>81, CountsOn
  <2>10. Capped(Aged[k].sup + 1, MaxSup) >= Capped(n, Ksup)
    BY <1>6, <2>7, <2>8, <2>80, <2>81, CountsOn
  <2>11. TrackOf(r, target, k)
    <3>1. k \in 1 .. Len(Aged)
      BY <1>1, <2>2
    <3>2. \A j \in 1 .. k - 1 : r[j].place # d.place
      BY <1>7, <2>4, <2>6, <3>1
    <3>3. /\ r[k].place = d.place /\ r[k].lost = 0
          /\ r[k].age = Capped(Aged[k].age + 1, Amin)
          /\ r[k].sup = Capped(Aged[k].sup + 1, MaxSup)
      BY <1>7, <2>6, <3>1
    <3> QED BY <1>0, <2>9, <2>10, <3>2, <3>3 DEF TrackOf
  <2>12. k \in 1 .. Len(r)
    BY <1>1, <1>7, <2>2, <2>6
  <2> QED BY <2>11, <2>12 DEF r, target
<1>9. CASE ~(steady.place = d.place /\ steady.n > 0)
  <2>1. n = 1
    <3>1. CASE steady.place # d.place
      BY <3>1
    <3>2. CASE steady.place = d.place
      <4>1. steady.n = 0
        BY <1>6, <1>9, <3>2
      <4>2. n = Capped(0 + 1, HistoryBound)
        BY <3>2, <4>1
      <4> QED BY <4>2, Settings DEF Capped
    <3> QED BY <3>1, <3>2
  <2>2. Capped(n, Amin) = 1 /\ Capped(n, Ksup) = 1
    BY <2>1, Settings DEF Capped
  <2>3. CASE Begins(Aged, d, r)
    <3>1. /\ Len(r) = Len(Aged) + 1 /\ r[Len(r)] = Begun(d) /\ Nearest(d, Aged) = {}
          /\ \A j \in 1 .. Len(Aged) : r[j] = Aged[j]
      BY <2>3 DEF Begins
    <3>2. Begun(d).place = d.place /\ Begun(d).lost = 0 /\ Begun(d).age = 1 /\ Begun(d).sup = 1
      BY DEF Begun
    <3>3. Len(Aged) \in Nat /\ Len(Aged) + 1 \in 1 .. Len(Aged) + 1
      BY <1>1
    <3>4. \A j \in 1 .. (Len(Aged) + 1) - 1 : Aged[j].place # d.place
      BY <1>1, <1>2, <3>1, <3>3, NoneBefore
    <3>5. \A j \in 1 .. Len(r) - 1 : r[j].place # d.place
      BY <3>1, <3>3, <3>4
    <3>6. TrackOf(r, target, Len(r))
      BY <1>0, <2>2, <3>1, <3>2, <3>5 DEF TrackOf
    <3>7. Len(r) \in 1 .. Len(r)
      BY <3>1, <3>3
    <3> QED BY <3>6, <3>7 DEF r, target
  <2>4. CASE \E k \in 1 .. Len(Aged) : Takes(Aged, d, k, r)
    <3>1. PICK k \in 1 .. Len(Aged) : Takes(Aged, d, k, r)
      BY <2>4
    <3>2. /\ r[k].place = d.place /\ r[k].lost = 0
          /\ r[k].age = Capped(Aged[k].age + 1, Amin)
          /\ r[k].sup = Capped(Aged[k].sup + 1, MaxSup)
          /\ k \in 1 .. Len(r)
          /\ \A j \in 1 .. k - 1 : r[j] = Aged[j]
      BY <1>7, <3>1
    <3>3. k \in Nearest(d, Aged) /\ k \in 1 .. Len(Aged) + 1
      BY <1>1, <3>1 DEF Takes
    <3>4. \A j \in 1 .. k - 1 : Aged[j].place # d.place
      BY <1>1, <1>2, <3>3, NoneBefore
    <3>5. Aged[k].age \in 1 .. Amin /\ Aged[k].sup \in 0 .. MaxSup
      BY <1>1, <1>4, <3>1
    <3>50. Amin \in Nat /\ Amin >= 1 /\ MaxSup \in Nat /\ MaxSup >= 1
      BY Settings
    <3>51. Aged[k].age + 1 >= 1 /\ Aged[k].sup + 1 >= 1
      BY <3>5, <3>50
    <3>6. r[k].age >= 1 /\ r[k].sup >= 1
      BY <3>2, <3>50, <3>51 DEF Capped
    <3>7. TrackOf(r, target, k)
      BY <1>0, <2>2, <3>2, <3>4, <3>6 DEF TrackOf
    <3> QED BY <3>2, <3>7 DEF r, target
  <2> QED BY <1>5, <2>3, <2>4
<1> QED
  BY <1>8, <1>9

(* Reaping leaves it.                                                      *)
LEMMA LoneStays ==
  ASSUME NEW s \in Seq(Met), NEW target, NEW k \in 1 .. Len(s), TrackOf(s, target, k)
  PROVE  \E i \in 1 .. Len(Reaped(s)) : TrackOf(Reaped(s), target, i)
<1>1. PICK h : Selects(Reaped(s), s, Len(s), h)
  BY ReapedSelects
<1>2. Reaped(s) \in Seq(Met) /\ Len(Reaped(s)) \in Nat /\ Len(s) \in Nat
  BY ReapedSelects
<1>3. Stays(s, k)
  BY Settings DEF Stays, TrackOf
<1>4. PICK i \in 1 .. Len(Reaped(s)) : h[i] = k
  BY <1>1, <1>3 DEF Selects
<1>5. Reaped(s)[i] = s[k]
  BY <1>1, <1>4 DEF Selects
<1>6. ASSUME NEW j \in 1 .. i - 1 PROVE Reaped(s)[j].place # target.place
  <2>1. j \in 1 .. Len(Reaped(s)) /\ j < i
    BY <1>2, <1>4
  <2>2. h[j] < h[i] /\ h[j] \in 1 .. Len(s) /\ Reaped(s)[j] = s[h[j]]
    BY <1>1, <2>1 DEF Selects
  <2>3. h[j] \in 1 .. k - 1
    BY <1>2, <1>4, <2>2
  <2> QED BY <2>2, <2>3 DEF TrackOf
<1> QED
  BY <1>4, <1>5, <1>6 DEF TrackOf

-----------------------------------------------------------------------------
(* The scan of the locked gate: the lock goes where the detection is that  *)
(* it returns, or stays.                                                   *)
Spots == [index : Nat, place : Places \union {Elsewhere}]
Looks == [within : Int, best : Int, place : Places \union {Nowhere}]

Found(st, objects, place) ==
  \/ st.best = NoIndex /\ st.place = place
  \/ /\ st.best \in 1 .. Len(objects) /\ st.place = objects[st.best].place
     /\ st.place \in Places

LEMMA ScanFinds ==
  ASSUME NEW objects \in Seq(Seen \union {Other})
  PROVE  Found(Scanned(objects), objects, lockPlace)
<1> DEFINE base == [within |-> Dist, best |-> NoIndex, place |-> lockPlace]
           s == Indexed(objects)
<1>1. s \in Seq(Spots) /\ Len(s) = Len(objects) /\ Len(s) \in Nat
      /\ \A i \in 1 .. Len(objects) : s[i].index = i /\ s[i].place = objects[i].place
  <2>1. DOMAIN objects = 1 .. Len(objects) /\ Len(objects) \in Nat
    OBVIOUS
  <2>2. \A i \in 1 .. Len(objects) : objects[i].place \in Places \union {Elsewhere}
    <3> TAKE i \in 1 .. Len(objects)
    <3>1. objects[i] \in Seen \union {Other}
      OBVIOUS
    <3> QED BY <3>1 DEF Seen, Other
  <2>3. \A i \in 1 .. Len(objects) : s[i] = [index |-> i, place |-> objects[i].place]
                                 /\ s[i] \in Spots
    BY <2>1, <2>2 DEF Indexed, Spots
  <2>4. s \in [1 .. Len(objects) -> Spots]
    BY <2>1, <2>3 DEF Indexed
  <2>5. \A i \in 1 .. Len(objects) : s[i].index = i /\ s[i].place = objects[i].place
    <3> TAKE i \in 1 .. Len(objects)
    <3>1. s[i] = [index |-> i, place |-> objects[i].place]
      BY <2>3
    <3> HIDE DEF s
    <3> QED BY <3>1
  <2> HIDE DEF s
  <2>6. s \in Seq(Spots) /\ Len(s) = Len(objects)
    BY <2>1, <2>4
  <2> QED BY <2>1, <2>5, <2>6
<1>2. base.best = NoIndex /\ base.place = lockPlace
  OBVIOUS
<1>3. Scanned(objects) = FoldLeft(Scan, base, s)
  BY DEF Scanned
<1> HIDE DEF base, s
<1>4. PICK run : Scanning!IsRun(run, base, s, Len(s)) /\ Scanned(objects) = run[Len(s)]
  BY <1>1, <1>3, ScanRuns
<1> DEFINE S == {k \in 0 .. Len(s) : Found(run[k], objects, lockPlace)}
<1>5. 0 \in S
  <2>1. run[0] = base
    BY <1>4 DEF Scanning!IsRun
  <2> QED BY <1>1, <1>2, <2>1 DEF Found
<1>6. ASSUME NEW k \in 1 .. Len(s), k - 1 \in S PROVE k \in S
  <2>1. run[k] = Scan(run[k - 1], s[k])
    BY <1>4 DEF Scanning!IsRun
  <2>2. Found(run[k - 1], objects, lockPlace)
    BY <1>6
  <2>3. s[k].index = k /\ s[k].place = objects[k].place /\ k \in 1 .. Len(objects)
    BY <1>1
  <2>4. \/ run[k] = run[k - 1]
        \/ /\ run[k].best = s[k].index /\ run[k].place = s[k].place
           /\ s[k].place # Elsewhere
    BY <2>1 DEF Scan
  <2>5. s[k].place \in Places \union {Elsewhere}
    <3>1. s[k] \in Spots
      BY <1>1
    <3> QED BY <3>1 DEF Spots
  <2> QED BY <2>2, <2>3, <2>4, <2>5 DEF Found
<1>7. \A k \in 0 .. Len(s) : k \in S
  <2> HIDE DEF S
  <2> QED BY <1>1, <1>5, <1>6, Scanning!ClimbTo
<1> QED
  BY <1>1, <1>4, <1>7

-----------------------------------------------------------------------------
(* The steps.                                                              *)
EarnedStep == Locks => since' >= Amin /\ moving' >= Ksup /\ InActive(lockPlace')
EmitStep ==
  emitted' \notin {Nowhere, Everything} =>
    /\ locked' /\ emitted' = lockPlace'
    /\ locked => InActive(lockPlace)

(* What is left of an unlocked update that locked nothing.                 *)
LEMMA UnlockedKeeps ==
  ASSUME GateInv, ~locked, NEW frame \in Frames, NEW order \in SetToSeqs(Augmented(frame)),
         Leaders(Left(order)) = {}, tracks' = Kept(Left(order)), ~locked',
         since' = (IF Left(order) = <<>> THEN 0 ELSE AgeThen),
         moving' = (IF Left(order) = <<>> THEN 0 ELSE MovingThen(frame)),
         steady' = Steady(frame)
  PROVE  /\ tracks' \in Seq(Track)
         /\ TracksEarned' /\ TargetTracked' /\ LockOnTime'
         /\ steady' \in [n : 0 .. HistoryBound, place : Places \union {Nowhere}]
<1> DEFINE trks == Left(order)
<1>1. /\ trks \in Seq(Met) /\ Len(trks) \in Nat
      /\ \A k \in 1 .. Len(trks) : Earning(trks[k], frame) /\ trks[k].lost <= MaxLost
  BY LeftEarns
<1>2. tracks' = Kept(trks) /\ Leaders(trks) = {}
  OBVIOUS
<1>3. trks # <<>> => since' = AgeThen /\ moving' = MovingThen(frame)
  OBVIOUS
<1>4. /\ tracks' \in Seq(Track) /\ Len(tracks') = Len(trks)
      /\ \A k \in 1 .. Len(trks) :
           /\ tracks'[k].place = trks[k].place /\ tracks'[k].lost = trks[k].lost
           /\ tracks'[k].age = trks[k].age /\ tracks'[k].sup = trks[k].sup
  <2>1. \A k \in 1 .. Len(trks) : trks[k].lost <= MaxLost
    BY <1>1
  <2> HIDE DEF trks
  <2> QED BY <1>1, <1>2, <2>1, KeptIs
<1>5. since \in 0 .. Amin /\ moving \in 0 .. Ksup
      /\ steady \in [n : 0 .. HistoryBound, place : Places \union {Nowhere}]
  BY DEF GateInv, HistoryOK
<1>6. TracksEarned'
  <2> SUFFICES ASSUME NEW k \in DOMAIN tracks'
               PROVE  tracks'[k].age <= since' /\ Capped(tracks'[k].sup, Ksup) <= moving'
    BY DEF TracksEarned
  <2>1. k \in 1 .. Len(trks) /\ trks # <<>>
    BY <1>1, <1>4
  <2>2. Earning(trks[k], frame) /\ trks[k] \in Met
    BY <1>1, <2>1
  <2>3. since <= AgeThen /\ moving <= MovingThen(frame)
    BY <1>5, Settings DEF AgeThen, MovingThen, Capped
  <2>4. AgeThen \in Nat /\ MovingThen(frame) \in Nat
    BY <1>5, Settings DEF AgeThen, MovingThen, Capped
  <2>5. trks[k].age \in Nat /\ Capped(trks[k].sup, Ksup) \in Nat
    BY <2>2, Settings DEF Met, Capped
  <2>6. trks[k].age <= AgeThen /\ Capped(trks[k].sup, Ksup) <= MovingThen(frame)
    <3>1. CASE trks[k].matched
      BY <2>2, <3>1 DEF Earning
    <3>2. CASE ~trks[k].matched
      <4>1. trks[k].age <= since /\ Capped(trks[k].sup, Ksup) <= moving
        BY <2>2, <3>2 DEF Earning
      <4> QED BY <1>5, <2>3, <2>4, <2>5, <4>1
    <3> QED BY <3>1, <3>2
  <2> QED BY <1>3, <1>4, <2>1, <2>6
<1>7. CASE Steady(frame).n > 0
  <2>1. PICK d \in Augmented(frame) :
          /\ d \in Given /\ d.moved = TRUE /\ InActive(d.place)
          /\ FoldLeft(Associate, Aged, order) = Associate(Aged, d)
          /\ Steady(frame) = [n |-> IF steady.place = d.place
                                    THEN Capped(steady.n + 1, HistoryBound) ELSE 1,
                              place |-> d.place]
    BY <1>7, LoneIs
  <2> DEFINE n == IF steady.place = d.place THEN Capped(steady.n + 1, HistoryBound) ELSE 1
  <2>2. n \in 0 .. HistoryBound
    BY <1>5, Settings DEF Capped
  <2>3. steady' = [n |-> n, place |-> d.place]
    BY <2>1
  <2>4. n = IF steady.place = d.place THEN Capped(steady.n + 1, HistoryBound) ELSE 1
    OBVIOUS
  <2> HIDE DEF n
  <2>5. PICK j \in 1 .. Len(Associate(Aged, d)) : TrackOf(Associate(Aged, d), steady', j)
    <3>1. n \in Nat /\ d \in Given /\ d.moved = TRUE
      BY <2>1, <2>2, Settings
    <3>2. \E j \in 1 .. Len(Associate(Aged, d)) :
            TrackOf(Associate(Aged, d), [n |-> n, place |-> d.place], j)
      BY <2>4, <3>1, LoneAssociated
    <3> QED BY <2>3, <3>2
  <2>6. Associate(Aged, d) \in Seq(Met)
    BY <2>1, FrameEarns
  <2>7. trks = Reaped(Associate(Aged, d))
    BY <2>1 DEF Left
  <2>8. PICK k \in 1 .. Len(trks) : TrackOf(trks, steady', k)
    BY <2>5, <2>6, <2>7, LoneStays
  <2> HIDE DEF trks
  <2>9. TrackOf(tracks', steady', k)
    <3>1. \A i \in 1 .. k - 1 : i \in 1 .. Len(trks)
      BY <1>1
    <3> QED BY <1>4, <2>8, <3>1 DEF TrackOf
  <2>10. k \in DOMAIN tracks'
    BY <1>4
  <2>11. steady'.place = d.place /\ steady'.n = n
    BY <2>3
  <2>12. TargetTracked'
    BY <2>1, <2>9, <2>10, <2>11 DEF TargetTracked, TrackOf
  <2>13. LockOnTime'
    <3> SUFFICES ASSUME n >= Amin, n >= Ksup PROVE FALSE
      BY <2>2, <2>11, Settings DEF LockOnTime
    <3>1. trks[k].place = d.place /\ trks[k].lost = 0 /\ trks[k].age >= Amin
          /\ trks[k].sup >= Ksup
      <4>1. Capped(n, Amin) = Amin /\ Capped(n, Ksup) = Ksup
        BY <2>2, Settings DEF Capped
      <4> QED BY <2>8, <2>11, <4>1 DEF TrackOf
    <3>2. k \in Confirmable(trks)
      BY <1>1, <2>1, <3>1 DEF Confirmable
    <3> QED BY <1>1, <1>2, <3>2, LeadersExist
  <2>14. d.place \in Places
    BY <2>1 DEF Given
  <2> QED BY <1>4, <1>6, <2>2, <2>3, <2>12, <2>13, <2>14
<1>8. CASE ~(Steady(frame).n > 0)
  <2>1. steady' = NotSteady
    <3> DEFINE target == CHOOSE x \in Lone(frame) : TRUE
               m == IF steady.place = target.place
                    THEN Capped(steady.n + 1, HistoryBound) ELSE 1
    <3>1. m > 0
      BY <1>5, Settings DEF Capped
    <3>2. Steady(frame) = NotSteady \/ Steady(frame) = [n |-> m, place |-> target.place]
      BY DEF Steady
    <3> HIDE DEF m, target
    <3> QED BY <1>8, <3>1, <3>2
  <2>2. steady'.n = 0
    BY <2>1 DEF NotSteady
  <2>3. TargetTracked' /\ LockOnTime'
    BY <2>2, Settings DEF TargetTracked, LockOnTime
  <2>4. steady' \in [n : 0 .. HistoryBound, place : Places \union {Nowhere}]
    BY <2>1, Settings DEF NotSteady
  <2> QED BY <1>4, <1>6, <2>3, <2>4
<1> QED
  BY <1>7, <1>8

LEMMA EmitIs ==
  ASSUME GateInv, NEW frame \in Frames, Emit(frame),
         keep' \in {NoIndex, SynthConfirm} \union 1 .. Len(frame.objects),
         lockPlace' \in Places \union {Nowhere},
         keep' # NoIndex => locked',
         keep' \in 1 .. Len(frame.objects) => frame.objects[keep'].place = lockPlace'
  PROVE  /\ emitted' \in Places \union {Nowhere}
         /\ synth' \in BOOLEAN
         /\ keep' \in {NoIndex, SynthConfirm} \union 1 .. MaxObjects
         /\ emitted' # Nowhere => keep' # NoIndex /\ locked' /\ emitted' = lockPlace'
<1>1. frame.objects \in Seq(Seen \union {Other}) /\ Len(frame.objects) \in 0 .. MaxObjects
  BY FramesAre
<1>2. DOMAIN frame.objects = 1 .. Len(frame.objects)
  BY <1>1
<1>3. keep' \in {NoIndex, SynthConfirm} \union 1 .. MaxObjects
  BY <1>1, Settings
<1>4. emitted' # Nowhere => keep' # NoIndex /\ emitted' = lockPlace'
  <2>1. NoIndex \notin 1 .. Len(frame.objects) /\ NoIndex # SynthConfirm
    BY <1>1 DEF NoIndex, SynthConfirm
  <2> QED BY <1>2, <2>1 DEF Emit
<1>5. emitted' \in Places \union {Nowhere}
  BY <1>4
<1>6. synth' \in BOOLEAN
  <2>1. synth \in BOOLEAN /\ (~frame.meta) \in BOOLEAN
    BY Zenon DEF GateInv, TypeOK
  <2>2. synth' = IF keep' = SynthConfirm THEN ~frame.meta ELSE synth
    BY Zenon DEF Emit
  <2> QED BY <2>1, <2>2, Zenon
<1> QED
  BY <1>3, <1>4, <1>5, <1>6

LEMMA CountIs ==
  ASSUME GateInv, fcount' = Capped(fcount + 1, MotionSilent)
  PROVE  fcount' \in 0 .. MotionSilent
BY Settings DEF GateInv, TypeOK, Capped

LEMMA HistoryIs ==
  ASSUME HistoryOK, NEW frame
  PROVE  AgeThen \in 0 .. Amin /\ MovingThen(frame) \in 0 .. Ksup
BY Settings DEF HistoryOK, AgeThen, MovingThen, Capped

LEMMA UnlockedStep ==
  ASSUME GateInv, NEW frame \in Frames, NEW order \in SetToSeqs(Augmented(frame)),
         UpdateUnlocked(frame, Left(order))
  PROVE  GateInv' /\ EarnedStep /\ EmitStep
<1> DEFINE trks == Left(order)
<1>1. /\ trks \in Seq(Met) /\ Len(trks) \in Nat
      /\ \A k \in 1 .. Len(trks) : Earning(trks[k], frame) /\ trks[k].lost <= MaxLost
  BY LeftEarns
<1>2. /\ ~locked
      /\ fcount' = Capped(fcount + 1, MotionSilent)
      /\ \/ /\ Leaders(trks) = {} /\ keep' = NoIndex /\ tracks' = Kept(trks)
            /\ UNCHANGED lock
         \/ \E k \in Leaders(trks) :
              /\ locked' = TRUE /\ tracks' = <<>> /\ lockLost' = 0
              /\ lockPlace' = trks[k].place
              /\ keep' = IF trks[k].src = Motion THEN SynthConfirm ELSE trks[k].src
      /\ Emit(frame)
      /\ steady' = IF locked' THEN NotSteady ELSE Steady(frame)
  BY Zenon DEF UpdateUnlocked
<1>3. since' = IF trks = <<>> THEN 0 ELSE AgeThen
  BY DEF UpdateUnlocked, AgeThen
<1>4. moving' = IF trks = <<>> THEN 0 ELSE MovingThen(frame)
  <2>1. moving' = CASE trks = <<>> -> 0
                    [] trks # <<>> /\ Moved(frame) -> Capped(moving + 1, Ksup)
                    [] OTHER -> moving
    BY DEF UpdateUnlocked
  <2> HIDE DEF trks
  <2> QED BY <2>1 DEF MovingThen
<1>5. since' \in 0 .. Amin /\ moving' \in 0 .. Ksup
  BY <1>3, <1>4, HistoryIs, Settings DEF GateInv
<1>6. fcount' \in 0 .. MotionSilent
  BY <1>2, CountIs
<1>7. lockPlace \in Places \union {Nowhere} /\ lockLost \in 0 .. MaxLost
  BY DEF GateInv, TypeOK
<1>8. CASE Leaders(trks) = {} /\ keep' = NoIndex /\ tracks' = Kept(trks) /\ UNCHANGED lock
  <2>1. ~locked' /\ locked' \in BOOLEAN
    <3>1. locked' = locked
      BY <1>8 DEF lock
    <3>2. locked \in BOOLEAN
      BY DEF GateInv, TypeOK
    <3> QED BY <1>2, <3>1, <3>2, Zenon
  <2>2. lockPlace' \in Places \union {Nowhere} /\ lockLost' \in 0 .. MaxLost
    BY <1>7, <1>8 DEF lock
  <2>3. /\ tracks' \in Seq(Track)
        /\ TracksEarned' /\ TargetTracked' /\ LockOnTime'
        /\ steady' \in [n : 0 .. HistoryBound, place : Places \union {Nowhere}]
    BY <1>2, <1>3, <1>4, <1>8, <2>1, UnlockedKeeps
  <2>4. NoIndex \notin 1 .. Len(frame.objects)
    BY FramesAre DEF NoIndex
  <2>5. /\ emitted' \in Places \union {Nowhere} /\ synth' \in BOOLEAN
        /\ keep' \in {NoIndex, SynthConfirm} \union 1 .. MaxObjects
        /\ emitted' # Nowhere => keep' # NoIndex /\ locked' /\ emitted' = lockPlace'
    BY <1>2, <1>8, <2>2, <2>4, EmitIs
  <2>6. TypeOK' /\ HistoryOK' /\ LockedBlank'
    BY <1>5, <1>6, <2>1, <2>2, <2>3, <2>5 DEF TypeOK, HistoryOK, LockedBlank
  <2> QED BY <1>8, <2>1, <2>3, <2>5, <2>6 DEF GateInv, EarnedStep, Locks, EmitStep
<1>9. CASE \E k \in Leaders(trks) :
             /\ locked' = TRUE /\ tracks' = <<>> /\ lockLost' = 0
             /\ lockPlace' = trks[k].place
             /\ keep' = IF trks[k].src = Motion THEN SynthConfirm ELSE trks[k].src
  <2>1. PICK k \in Leaders(trks) :
             /\ locked' = TRUE /\ tracks' = <<>> /\ lockLost' = 0
             /\ lockPlace' = trks[k].place
             /\ keep' = IF trks[k].src = Motion THEN SynthConfirm ELSE trks[k].src
    BY <1>9
  <2>2. /\ k \in 1 .. Len(trks) /\ trks[k].lost = 0 /\ trks[k].age >= Amin
        /\ trks[k].sup >= Ksup /\ InActive(trks[k].place)
    BY <1>1 DEF Leaders, Confirmable
  <2>3. trks[k] \in Met /\ Earning(trks[k], frame) /\ trks # <<>>
    BY <1>1, <2>2
  <2>4. trks[k].matched
    BY <2>2, <2>3 DEF Earning
  <2>5. PICK d \in Augmented(frame) : d.place = trks[k].place /\ d.src = trks[k].src
    BY <2>3, <2>4 DEF Earning
  <2>6. trks[k].age <= AgeThen /\ Capped(trks[k].sup, Ksup) <= MovingThen(frame)
    BY <2>3, <2>4 DEF Earning
  <2> HIDE DEF trks
  <2>7. keep' \in {NoIndex, SynthConfirm} \union 1 .. Len(frame.objects)
        /\ (keep' \in 1 .. Len(frame.objects) => frame.objects[keep'].place = lockPlace')
    <3>1. CASE trks[k].src = Motion
      <4>1. keep' = SynthConfirm /\ SynthConfirm \notin 1 .. Len(frame.objects)
        BY <2>1, <3>1, FramesAre DEF SynthConfirm
      <4> QED BY <4>1
    <3>2. CASE trks[k].src # Motion
      <4>1. keep' = d.src /\ d.src # Motion
        BY <2>1, <2>5, <3>2
      <4>2. d.src \in 1 .. Len(frame.objects) /\ frame.objects[d.src].place = d.place
        BY <4>1, GivenIs
      <4> QED BY <2>1, <2>5, <4>1, <4>2
    <3> QED BY <3>1, <3>2
  <2>8. lockPlace' \in Places
    BY <2>1, <2>3 DEF Met
  <2>9. locked' /\ locked' \in BOOLEAN
    BY <2>1, Zenon
  <2>10. /\ emitted' \in Places \union {Nowhere} /\ synth' \in BOOLEAN
         /\ keep' \in {NoIndex, SynthConfirm} \union 1 .. MaxObjects
         /\ emitted' # Nowhere => keep' # NoIndex /\ locked' /\ emitted' = lockPlace'
    BY <1>2, <2>7, <2>8, <2>9, EmitIs
  <2>11. steady' = NotSteady
    BY <1>2, <2>9, Zenon
  <2>12. lockLost' \in 0 .. MaxLost /\ tracks' = <<>> /\ tracks' \in Seq(Track)
    BY <2>1, Settings
  <2>13. steady'.n = 0
         /\ steady' \in [n : 0 .. HistoryBound, place : Places \union {Nowhere}]
    BY <2>11, Settings DEF NotSteady
  <2>14. TypeOK' /\ HistoryOK' /\ LockedBlank'
    BY <1>5, <1>6, <2>8, <2>9, <2>10, <2>11, <2>12, <2>13 DEF TypeOK, HistoryOK, LockedBlank
  <2>15. TracksEarned' /\ TargetTracked' /\ LockOnTime'
    BY <2>12, <2>13, Settings DEF TracksEarned, TargetTracked, LockOnTime
  <2>16. since' >= Amin /\ moving' >= Ksup
    <3>1. trks[k].age \in Nat /\ trks[k].sup \in Nat
      BY <2>3, Settings DEF Met
    <3>2. Capped(trks[k].sup, Ksup) = Ksup
      BY <2>2, <3>1, Settings, Caps
    <3>3. since' = AgeThen /\ moving' = MovingThen(frame)
      BY <1>3, <1>4, <2>3
    <3> QED BY <1>5, <2>2, <2>6, <3>1, <3>2, <3>3, Settings
  <2>17. InActive(lockPlace')
    BY <2>1, <2>2
  <2> QED BY <1>2, <2>9, <2>10, <2>14, <2>15, <2>16, <2>17
          DEF GateInv, EarnedStep, Locks, EmitStep
<1> QED
  BY <1>2, <1>8, <1>9

(* Whatever it is that unlocks, nothing is left to hold.                   *)
LEMMA BlankIs ==
  ASSUME tracks' = <<>>, steady' = NotSteady, since' \in 0 .. Amin, moving' \in 0 .. Ksup
  PROVE  /\ tracks' \in Seq(Track)
         /\ HistoryOK' /\ TracksEarned' /\ LockedBlank' /\ TargetTracked' /\ LockOnTime'
<1>1. steady'.n = 0
      /\ steady' \in [n : 0 .. HistoryBound, place : Places \union {Nowhere}]
  BY Settings DEF NotSteady
<1> QED
  BY <1>1, Settings
     DEF HistoryOK, TracksEarned, LockedBlank, TargetTracked, LockOnTime

LEMMA LockedStep ==
  ASSUME GateInv, NEW frame \in Frames, UpdateLocked(frame)
  PROVE  GateInv' /\ EarnedStep /\ EmitStep
<1> DEFINE found == Scanned(frame.objects)
<1>1. /\ locked /\ fcount' = Capped(fcount + 1, MotionSilent)
      /\ \/ ~InActive(lockPlace) /\ keep' = NoIndex /\ Unlock
         \/ /\ InActive(lockPlace) /\ found.best # NoIndex /\ keep' = found.best
            /\ KeepLock(found.place, 0)
         \/ /\ InActive(lockPlace) /\ keep' = NoIndex
            /\ \/ Unlock
               \/ lockLost + 1 <= MaxLost /\ KeepLock(lockPlace, lockLost + 1)
      /\ Emit(frame)
      /\ steady' = steady
  BY DEF UpdateLocked
<1>2. frame.objects \in Seq(Seen \union {Other}) /\ Len(frame.objects) \in 0 .. MaxObjects
  BY FramesAre
<1>3. Found(found, frame.objects, lockPlace)
  BY <1>2, ScanFinds
<1> HIDE DEF found
<1>4. /\ lockPlace \in Places \union {Nowhere} /\ lockLost \in 0 .. MaxLost
      /\ tracks = <<>> /\ steady = NotSteady
  BY <1>1 DEF GateInv, TypeOK, LockedBlank
<1>5. fcount' \in 0 .. MotionSilent
  BY <1>1, CountIs
<1>6. NoIndex \notin 1 .. Len(frame.objects) /\ NoIndex # SynthConfirm
  BY <1>2 DEF NoIndex, SynthConfirm
<1>7. /\ locked' \in BOOLEAN /\ lockPlace' \in Places \union {Nowhere}
      /\ lockLost' \in 0 .. MaxLost /\ tracks' = <<>> /\ since' = 0 /\ moving' = 0
      /\ keep' = NoIndex \/ /\ keep' \in 1 .. Len(frame.objects)
                            /\ frame.objects[keep'].place = lockPlace' /\ locked'
                            /\ InActive(lockPlace)
  <2>1. CASE Unlock /\ keep' = NoIndex
    <3>1. locked' = FALSE
      BY <2>1, Zenon DEF Unlock
    <3>2. locked' \in BOOLEAN
      BY <3>1, Zenon
    <3> QED BY <2>1, <3>2, Settings DEF Unlock
  <2>2. CASE /\ InActive(lockPlace) /\ found.best # NoIndex /\ keep' = found.best
             /\ KeepLock(found.place, 0)
    <3>1. locked' = TRUE
      BY <2>2, Zenon DEF KeepLock
    <3>2. locked' \in BOOLEAN /\ locked'
      BY <3>1, Zenon
    <3>3. /\ found.best \in 1 .. Len(frame.objects)
          /\ found.place = frame.objects[found.best].place
      BY <1>3, <2>2 DEF Found
    <3>5. found.place \in Places
      BY <1>3, <2>2 DEF Found
    <3>6. /\ lockPlace' = found.place /\ lockLost' = 0 /\ tracks' = tracks
          /\ since' = 0 /\ moving' = 0
      BY <2>2 DEF KeepLock
    <3> QED BY <1>4, <2>2, <3>2, <3>3, <3>5, <3>6, Settings
  <2>3. CASE /\ keep' = NoIndex /\ lockLost + 1 <= MaxLost
             /\ KeepLock(lockPlace, lockLost + 1)
    <3>1. locked' = TRUE
      BY <2>3, Zenon DEF KeepLock
    <3>2. locked' \in BOOLEAN
      BY <3>1, Zenon
    <3>3. /\ lockPlace' = lockPlace /\ lockLost' = lockLost + 1 /\ tracks' = tracks
          /\ since' = 0 /\ moving' = 0
      BY <2>3 DEF KeepLock
    <3> QED BY <1>4, <2>3, <3>2, <3>3, Settings
  <2> QED BY <1>1, <2>1, <2>2, <2>3
<1>8. /\ emitted' \in Places \union {Nowhere} /\ synth' \in BOOLEAN
      /\ keep' \in {NoIndex, SynthConfirm} \union 1 .. MaxObjects
      /\ emitted' # Nowhere => keep' # NoIndex /\ locked' /\ emitted' = lockPlace'
  <2>1. keep' \in {NoIndex, SynthConfirm} \union 1 .. Len(frame.objects)
    BY <1>7
  <2>2. keep' # NoIndex => locked'
    BY <1>7
  <2>3. keep' \in 1 .. Len(frame.objects) => frame.objects[keep'].place = lockPlace'
    BY <1>6, <1>7
  <2> QED BY <1>1, <1>7, <2>1, <2>2, <2>3, EmitIs
<1>9. /\ tracks' \in Seq(Track)
      /\ HistoryOK' /\ TracksEarned' /\ LockedBlank' /\ TargetTracked' /\ LockOnTime'
  <2>1. steady' = NotSteady /\ since' \in 0 .. Amin /\ moving' \in 0 .. Ksup
    BY <1>1, <1>4, <1>7, Settings
  <2> QED BY <1>7, <2>1, BlankIs
<1>10. TypeOK'
  BY <1>5, <1>7, <1>8, <1>9 DEF TypeOK
<1>11. EmitStep
  BY <1>7, <1>8 DEF EmitStep
<1> QED
  BY <1>1, <1>9, <1>10, <1>11 DEF GateInv, EarnedStep, Locks

(* nvmm-reset and stop().                                                  *)
LEMMA ResetStep ==
  ASSUME GateInv, Reset \/ Stop
  PROVE  GateInv' /\ EarnedStep /\ EmitStep
<1>1. /\ Unlock /\ keep' = NoIndex /\ emitted' = Nowhere /\ steady' = NotSteady
  BY DEF Reset, Stop
<1>2. fcount' \in 0 .. MotionSilent
  <2>1. fcount' = fcount \/ fcount' = 0
    BY DEF Reset, Stop
  <2> QED BY <2>1, Settings DEF GateInv, TypeOK
<1>3. synth' \in BOOLEAN
  <2>1. synth \in BOOLEAN
    BY DEF GateInv, TypeOK
  <2>2. synth' = synth \/ synth' = FALSE
    BY DEF Reset, Stop
  <2> QED BY <2>1, <2>2, Zenon
<1>4. locked' = FALSE
  BY <1>1, Zenon DEF Unlock
<1>5. locked' \in BOOLEAN /\ ~locked'
  BY <1>4, Zenon
<1>6. /\ tracks' \in Seq(Track)
      /\ HistoryOK' /\ TracksEarned' /\ LockedBlank' /\ TargetTracked' /\ LockOnTime'
  BY <1>1, BlankIs, Settings DEF Unlock
<1>7. TypeOK'
  BY <1>1, <1>2, <1>3, <1>5, <1>6, Settings DEF TypeOK, Unlock
<1> QED
  BY <1>1, <1>5, <1>6, <1>7 DEF GateInv, EarnedStep, Locks, EmitStep

(* A frame the gate does not hear of.                                      *)
LEMMA PassedStep ==
  ASSUME GateInv, keep' = NoIndex, emitted' \in {Nowhere, Everything},
         UNCHANGED <<tracks, lock, fcount, synth, history>>
  PROVE  GateInv' /\ EarnedStep /\ EmitStep
<1>1. /\ tracks' = tracks /\ locked' = locked /\ lockPlace' = lockPlace
      /\ lockLost' = lockLost /\ fcount' = fcount /\ synth' = synth
      /\ since' = since /\ moving' = moving /\ steady' = steady
  BY DEF lock, history
<1>2. TypeOK'
  BY <1>1 DEF GateInv, TypeOK
<1>3. HistoryOK' /\ TracksEarned' /\ LockedBlank' /\ LockOnTime'
  BY <1>1 DEF GateInv, HistoryOK, TracksEarned, LockedBlank, LockOnTime
<1>4. TargetTracked'
  BY <1>1 DEF GateInv, TargetTracked, TrackOf
<1> QED
  BY <1>1, <1>2, <1>3, <1>4 DEF GateInv, EarnedStep, Locks, EmitStep

LEMMA GateInitial == DetGateInit => GateInv
<1> SUFFICES ASSUME DetGateInit PROVE GateInv
  OBVIOUS
<1> USE DEF DetGateInit
<1>1. tracks = <<>> /\ tracks \in Seq(Track)
  OBVIOUS
<1>2. locked \in BOOLEAN /\ synth \in BOOLEAN
  OBVIOUS
<1>3. steady.n = 0 /\ steady \in [n : 0 .. HistoryBound, place : Places \union {Nowhere}]
  BY Settings DEF NotSteady
<1>4. TypeOK
  BY <1>1, <1>2, Settings DEF TypeOK
<1> QED
  BY <1>1, <1>3, <1>4, Settings
     DEF GateInv, HistoryOK, TracksEarned, LockedBlank, TargetTracked, LockOnTime

LEMMA GateStep ==
  ASSUME GateInv, [DetGateNext]_detGateVars
  PROVE  GateInv' /\ (UNCHANGED detGateVars \/ (EarnedStep /\ EmitStep))
<1>1. CASE Reset \/ Stop
  BY <1>1, ResetStep
<1>2. CASE Ungated \/ \E meta \in BOOLEAN : PassThrough(meta)
  <2>1. /\ keep' = NoIndex /\ emitted' \in {Nowhere, Everything}
        /\ UNCHANGED <<tracks, lock, fcount, synth, history>>
    BY <1>2, Zenon DEF Ungated, PassThrough
  <2> QED BY <2>1, PassedStep
<1>3. ASSUME NEW frame \in Frames, NEW trks \in Outcomes(frame),
             UpdateUnlocked(frame, trks)
      PROVE  GateInv' /\ EarnedStep /\ EmitStep
  <2>1. PICK order \in SetToSeqs(Augmented(frame)) : trks = Left(order)
    BY Zenon DEF Outcomes, Left
  <2> QED BY <1>3, <2>1, UnlockedStep
<1>4. ASSUME NEW frame \in Frames, UpdateLocked(frame)
      PROVE  GateInv' /\ EarnedStep /\ EmitStep
  BY <1>4, LockedStep
<1>5. CASE UNCHANGED detGateVars
  <2>1. TypeOK'
    BY <1>5 DEF GateInv, TypeOK, detGateVars
  <2>2. HistoryOK' /\ TracksEarned' /\ LockedBlank' /\ LockOnTime'
    BY <1>5 DEF GateInv, HistoryOK, TracksEarned, LockedBlank, LockOnTime, detGateVars
  <2>3. TargetTracked'
    BY <1>5 DEF GateInv, TargetTracked, TrackOf, detGateVars
  <2> QED BY <1>5, <2>1, <2>2, <2>3 DEF GateInv
<1>6. CASE DetGateNext
  BY <1>1, <1>2, <1>3, <1>4, <1>6, Zenon DEF DetGateNext
<1> QED
  BY <1>5, <1>6, Zenon

LEMMA GateAlways == DetGateSpec => []GateInv
<1>1. GateInv /\ [DetGateNext]_detGateVars => GateInv'
  BY GateStep
<1> QED
  BY <1>1, GateInitial, PTL DEF DetGateSpec

-----------------------------------------------------------------------------
(***************************************************************************)
(* The variables of the gate keep their ranges: in particular update()     *)
(* returns one of its two signs or the index of a detection.               *)
(***************************************************************************)
THEOREM TypeCorrect == DetGateSpec => []TypeOK
<1>1. GateInv => TypeOK
  BY DEF GateInv
<1> QED
  BY <1>1, GateAlways, PTL

(***************************************************************************)
(* A lone target that moves in the active area is locked on within         *)
(* max(amin, ksup) updates, whatever tracks there were before.             *)
(***************************************************************************)
THEOREM TargetIsLockedOn == DetGateSpec => []LockOnTime
<1>1. GateInv => LockOnTime
  BY DEF GateInv
<1> QED
  BY <1>1, GateAlways, PTL

(***************************************************************************)
(* No lock without amin updates that had tracks and ksup of them with      *)
(* something that moved, and none at the border.                           *)
(***************************************************************************)
THEOREM LocksAreEarned == DetGateSpec => LockEarned
<1>1. GateInv /\ [DetGateNext]_detGateVars => [EarnedStep]_detGateVars
  BY GateStep, Zenon
<1>2. DetGateSpec => [][EarnedStep]_detGateVars
  BY <1>1, GateAlways, PTL DEF DetGateSpec
<1> QED
  BY <1>2, PTL DEF LockEarned, EarnedStep

(***************************************************************************)
(* A detection picked to be passed on is the one the lock is on now; only  *)
(* a frame that is not looked at leaves with more.                         *)
(***************************************************************************)
THEOREM OnlyTheLockIsEmitted == DetGateSpec => EmitsTheLock
<1>1. GateInv /\ [DetGateNext]_detGateVars => [EmitStep]_detGateVars
  BY GateStep, Zenon
<1>2. DetGateSpec => [][EmitStep]_detGateVars
  BY <1>1, GateAlways, PTL DEF DetGateSpec
<1> QED
  BY <1>2, PTL DEF EmitsTheLock, EmitStep
=============================================================================
