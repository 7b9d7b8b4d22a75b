------------------------------ MODULE Folding ------------------------------
(***************************************************************************)
(* What the fold of a sequence is, step by step.  The loops of the code    *)
(* that go over a list and change a result as they go are folds in the     *)
(* models (SequencesExt!FoldLeft), and FoldLeft is a recursive function on *)
(* the sets of indices: here is the proof that there is one, and that it   *)
(* applies its operator to one element after the other.  Op is a constant, *)
(* and so the instances of this module say it of the operators of a model. *)
(***************************************************************************)
EXTENDS Integers, WellFoundedInduction, TLAPS

CONSTANT Op(_, _)

Largest(t) == CHOOSE x \in t : \A y \in t : x >= y

Unrolled(f, b, s, D) ==
  f = [t \in SUBSET D |->
         IF t = {} THEN b ELSE Op(f[t \ {Largest(t)}], s[Largest(t)])]

Folded(b, s, D) ==
  LET f == CHOOSE f : Unrolled(f, b, s, D)
  IN  f[D]

IsRun(run, b, s, n) ==
  run[0] = b /\ \A k \in 1 .. n : run[k] = Op(run[k - 1], s[k])

-----------------------------------------------------------------------------
(* Of some numbers one is the least.                                       *)
LEMMA LeastOf ==
  ASSUME NEW S \in SUBSET Nat, S # {}
  PROVE  \E m \in S : \A k \in S : m <= k
<1> DEFINE R == {ss \in Nat \X Nat : ss[1] < ss[2]}
<1>1. R = OpToRel(<, Nat)
  BY DEF OpToRel
<1>2. IsWellFoundedOn(R, Nat)
  BY <1>1, NatLessThanWellFounded, Zenon
<1>3. \A T : T \subseteq Nat /\ T # {} => \E x \in T : \A y \in T : ~(<<y, x>> \in R)
  <2> HIDE DEF R
  <2> QED BY <1>2, WFMin
<1>4. PICK m \in S : \A y \in S : ~(<<y, m>> \in R)
  BY <1>3, Zenon
<1>5. \A y \in S : <<y, m>> \in Nat \X Nat
  OBVIOUS
<1>6. ASSUME NEW y \in S PROVE m <= y
  <2>1. ~(y < m)
    BY <1>4, <1>5
  <2> QED BY <2>1
<1> QED
  BY <1>6

(* Induction: what holds of 0 and goes from each number to the next one.   *)
LEMMA Climb ==
  ASSUME NEW S, 0 \in S, \A k \in Nat : k \in S => k + 1 \in S
  PROVE  \A n \in Nat : n \in S
<1> SUFFICES ASSUME NEW n \in Nat, n \notin S PROVE FALSE
  OBVIOUS
<1> DEFINE T == {k \in Nat : k \notin S}
<1>1. PICK m \in T : \A k \in T : m <= k
  BY LeastOf
<1>2. m # 0 /\ m \in Nat
  BY <1>1
<1>3. m - 1 \in Nat /\ m - 1 \notin T
  BY <1>1, <1>2
<1>4. (m - 1) + 1 \in S
  BY <1>3
<1> QED
  BY <1>1, <1>2, <1>4

(* The same up to a number.                                                *)
LEMMA ClimbTo ==
  ASSUME NEW n \in Nat, NEW S, 0 \in S, \A k \in 1 .. n : k - 1 \in S => k \in S
  PROVE  \A k \in 0 .. n : k \in S
<1> DEFINE T == {k \in Nat : k <= n => k \in S}
<1>1. 0 \in T
  OBVIOUS
<1>2. \A k \in Nat : k \in T => k + 1 \in T
  <2> SUFFICES ASSUME NEW k \in Nat, k \in T, k + 1 <= n PROVE k + 1 \in S
    OBVIOUS
  <2>1. k \in S /\ k + 1 \in 1 .. n /\ (k + 1) - 1 = k
    OBVIOUS
  <2> QED BY <2>1
<1>3. \A k \in Nat : k \in T
  <2> HIDE DEF T
  <2> QED BY <1>1, <1>2, Climb
<1> QED
  BY <1>3

(* There is the function that FoldLeft is defined by.                      *)
LEMMA Unrolls ==
  ASSUME NEW b, NEW s, NEW n \in Nat
  PROVE  \E f : Unrolled(f, b, s, 1 .. n)
<1> DEFINE S == {k \in Nat : \E f : Unrolled(f, b, s, 1 .. k)}
<1>1. 0 \in S
  <2> DEFINE f == [t \in SUBSET (1 .. 0) |-> b]
  <2>1. Unrolled(f, b, s, 1 .. 0)
    BY DEF Unrolled
  <2> QED BY <2>1
<1>2. ASSUME NEW k \in Nat, k \in S PROVE k + 1 \in S
  <2>1. PICK g : Unrolled(g, b, s, 1 .. k)
    BY <1>2
  <2> DEFINE h == [t \in SUBSET (1 .. k + 1) |->
                     IF k + 1 \in t THEN Op(g[t \ {k + 1}], s[k + 1]) ELSE g[t]]
             body(t) == IF t = {} THEN b ELSE Op(h[t \ {Largest(t)}], s[Largest(t)])
  <2>2. ASSUME NEW t \in SUBSET (1 .. k + 1), k + 1 \in t PROVE h[t] = body(t)
    <3>1. Largest(t) = k + 1
      <4>1. \E x \in t : \A y \in t : x >= y
        BY <2>2
      <4>2. Largest(t) \in t /\ \A y \in t : Largest(t) >= y
        BY <4>1 DEF Largest
      <4>3. Largest(t) \in 1 .. k + 1 /\ Largest(t) >= k + 1
        BY <2>2, <4>2
      <4> QED BY <4>3
    <3>2. t \ {k + 1} \in SUBSET (1 .. k + 1) /\ k + 1 \notin t \ {k + 1}
      OBVIOUS
    <3>3. h[t \ {k + 1}] = g[t \ {k + 1}]
      BY <3>2
    <3>4. h[t] = Op(g[t \ {k + 1}], s[k + 1])
      BY <2>2
    <3> QED BY <2>2, <3>1, <3>3, <3>4, Zenon
  <2>3. ASSUME NEW t \in SUBSET (1 .. k + 1), k + 1 \notin t PROVE h[t] = body(t)
    <3>1. t \in SUBSET (1 .. k)
      BY <2>3
    <3>2. h[t] = g[t]
      BY <2>3
    <3>3. g[t] = IF t = {} THEN b ELSE Op(g[t \ {Largest(t)}], s[Largest(t)])
      BY <2>1, <3>1 DEF Unrolled
    <3>4. h[t \ {Largest(t)}] = g[t \ {Largest(t)}]
      BY <2>3
    <3> QED BY <3>2, <3>3, <3>4, Zenon
  <2>4. \A t \in SUBSET (1 .. k + 1) : h[t] = body(t)
    <3> HIDE DEF h, body
    <3> QED BY <2>2, <2>3
  <2>5. DOMAIN h = SUBSET (1 .. k + 1)
    OBVIOUS
  <2>6. h = [t \in SUBSET (1 .. k + 1) |-> h[t]]
    OBVIOUS
  <2>7. h = [t \in SUBSET (1 .. k + 1) |-> body(t)]
    <3> HIDE DEF h, body
    <3> QED BY <2>4, <2>6, Zenon
  <2>8. Unrolled(h, b, s, 1 .. k + 1)
    <3> HIDE DEF h
    <3> QED BY <2>7 DEF Unrolled
  <2> QED BY <2>8
<1>3. \A k \in Nat : k \in S
  <2> HIDE DEF S
  <2> QED BY <1>1, <1>2, Climb
<1> QED
  BY <1>3

(***************************************************************************)
(* A fold is a run: it starts from the base, and each step applies Op to   *)
(* the result so far and the next element.                                 *)
(***************************************************************************)
LEMMA FoldRuns ==
  \A b, s : \A n \in Nat :
    \E run : IsRun(run, b, s, n) /\ Folded(b, s, 1 .. n) = run[n]
<1> SUFFICES ASSUME NEW b, NEW s, NEW n \in Nat
             PROVE  \E run : IsRun(run, b, s, n) /\ Folded(b, s, 1 .. n) = run[n]
  OBVIOUS
<1> DEFINE f == CHOOSE f : Unrolled(f, b, s, 1 .. n)
           run == [k \in 0 .. n |-> f[1 .. k]]
<1>1. Unrolled(f, b, s, 1 .. n)
  BY Unrolls
<1>2. \A t \in SUBSET (1 .. n) :
        f[t] = IF t = {} THEN b ELSE Op(f[t \ {Largest(t)}], s[Largest(t)])
  <2> HIDE DEF f
  <2> QED BY <1>1 DEF Unrolled
<1>3. Folded(b, s, 1 .. n) = f[1 .. n]
  BY DEF Folded
<1> HIDE DEF f
<1>4. run[0] = b
  <2>1. 1 .. 0 = {} /\ 1 .. 0 \in SUBSET (1 .. n) /\ 0 \in 0 .. n
    OBVIOUS
  <2> QED BY <1>2, <2>1
<1>5. ASSUME NEW k \in 1 .. n PROVE run[k] = Op(run[k - 1], s[k])
  <2>1. 1 .. k \in SUBSET (1 .. n) /\ 1 .. k # {} /\ k \in 0 .. n /\ k - 1 \in 0 .. n
    OBVIOUS
  <2>2. Largest(1 .. k) = k
    BY DEF Largest
  <2>3. (1 .. k) \ {k} = 1 .. (k - 1)
    OBVIOUS
  <2>4. f[1 .. k] = Op(f[1 .. (k - 1)], s[k])
    BY <1>2, <2>1, <2>2, <2>3, Zenon
  <2> QED BY <2>1, <2>4, Zenon
<1>6. Folded(b, s, 1 .. n) = run[n]
  BY <1>3
<1> HIDE DEF run
<1>7. IsRun(run, b, s, n)
  BY <1>4, <1>5, Zenon DEF IsRun
<1> QED
  BY <1>6, <1>7, Zenon
=============================================================================
