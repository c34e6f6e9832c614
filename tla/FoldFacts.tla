----------------------------- MODULE FoldFacts -----------------------------
(***************************************************************************)
(* What a left fold over a sequence computes, for every operator Op. The   *)
(* community modules define FoldLeft by a function on the subsets of the   *)
(* sequence's domain: Table is the equation of that function, and a module *)
(* that folds with an operator of its own instantiates this one with it.   *)
(*                                                                         *)
(* Nothing is proved by a theorem with an operator for a parameter: the    *)
(* induction is on a set of numbers, from the least element of what is not *)
(* in it.                                                                  *)
(***************************************************************************)
EXTENDS Integers, FiniteSetTheorems, WellFoundedInduction, TLAPS

CONSTANT Op(_, _)

-----------------------------------------------------------------------------
(* Numbers *)

LEMMA LessOnNat == OpToRel(<, Nat) = {ss \in Nat \X Nat : ss[1] < ss[2]}
BY DEF OpToRel

\* A set of numbers that is not empty has a least element.
LEMMA LeastNat ==
  ASSUME NEW T, T \subseteq Nat, T # {}
  PROVE  \E x \in T : \A y \in T : x <= y
<1> DEFINE R == {ss \in Nat \X Nat : ss[1] < ss[2]}
<1>1. IsWellFoundedOn(R, Nat)
  BY NatLessThanWellFounded, LessOnNat
<1>2. \E x \in T : \A y \in T : ~ (<<y, x>> \in R)
  <2> HIDE DEF R
  <2> QED BY <1>1, WFMin
<1>3. \A x, y \in Nat : y < x => <<y, x>> \in R
  OBVIOUS
<1>4. PICK x \in T : \A y \in T : ~ (<<y, x>> \in R)
  BY <1>2
<1>5. \A y \in T : ~ (y < x)
  <2> HIDE DEF R
  <2> QED BY <1>3, <1>4, Zenon
<1>6. QED
  BY <1>5, SMT

\* Induction, for a set in place of a predicate.
LEMMA SetInduction ==
  ASSUME NEW S, 0 \in S, \A n \in Nat : n \in S => n + 1 \in S
  PROVE  Nat \subseteq S
<1> SUFFICES ASSUME Nat \ S # {} PROVE FALSE
  OBVIOUS
<1>1. PICK x \in Nat \ S : \A y \in Nat \ S : x <= y
  BY LeastNat
<1>2. x # 0 /\ x - 1 \in Nat
  BY <1>1
<1>3. x - 1 \in S
  BY <1>1, <1>2
<1>4. QED
  BY <1>1, <1>2, <1>3

-----------------------------------------------------------------------------
(* The folding function *)

Top(s) == CHOOSE x \in s : \A y \in s : x >= y

Table(g, base, seq, D) ==
  g = [s \in SUBSET D |-> IF s = {} THEN base ELSE Op(g[s \ {Top(s)}], seq[Top(s)])]

\* Top of a set of indexes is its largest one.
LEMMA MaxTop ==
  ASSUME NEW n \in Nat, NEW s \in SUBSET (1 .. n + 1), n + 1 \in s
  PROVE  Top(s) = n + 1
<1>1. n + 1 \in s /\ \A y \in s : n + 1 >= y
  OBVIOUS
<1>2. \A x \in s : (\A y \in s : x >= y) => x = n + 1
  BY <1>1
<1>3. QED
  BY <1>1, <1>2 DEF Top

LEMMA MaxBelow ==
  ASSUME NEW n \in Nat, NEW s \in SUBSET (1 .. n), s # {}
  PROVE  Top(s) \in s /\ \A y \in s : Top(s) >= y
<1> DEFINE T == {n - x : x \in s}
<1>0. \A x \in s : x \in Int /\ n - x \in Nat
  OBVIOUS
<1>1. T \subseteq Nat /\ T # {}
  BY <1>0
<1>2. \E x \in s : \A y \in s : x >= y
  <2>1. PICK t \in T : \A y \in T : t <= y
    <3> HIDE DEF T
    <3> QED BY <1>1, LeastNat
  <2>2. PICK x \in s : t = n - x
    BY <2>1
  <2>3. ASSUME NEW y \in s PROVE x >= y
    <3>1. t <= n - y
      BY <2>1
    <3>2. QED
      BY <1>0, <2>2, <3>1
  <2>4. QED
    BY <2>3
<1>3. QED
  BY <1>2 DEF Top

Run(h, base, seq, n) == h[0] = base /\ \A k \in 1 .. n : h[k] = Op(h[k - 1], seq[k])

\* The equation has a solution, so CHOOSE finds one.
LEMMA TableExists ==
  ASSUME NEW base, NEW seq, NEW n \in Nat
  PROVE  \E g : Table(g, base, seq, 1 .. n)
<1> DEFINE S == {k \in Nat : \E g : Table(g, base, seq, 1 .. k)}
<1>1. 0 \in S
  <2> DEFINE g == [s \in SUBSET (1 .. 0) |-> base]
  <2>1. Table(g, base, seq, 1 .. 0)
    BY DEF Table
  <2>2. QED
    BY <2>1
<1>2. ASSUME NEW k \in Nat, k \in S PROVE k + 1 \in S
  <2>1. PICK g : Table(g, base, seq, 1 .. k)
    BY <1>2
  <2> DEFINE h == [s \in SUBSET (1 .. k + 1) |->
                     IF k + 1 \in s THEN Op(g[s \ {k + 1}], seq[k + 1]) ELSE g[s]]
  <2>2. ASSUME NEW s \in SUBSET (1 .. k + 1)
        PROVE  h[s] = IF s = {} THEN base ELSE Op(h[s \ {Top(s)}], seq[Top(s)])
    <3>1. CASE k + 1 \in s
      <4>1. Top(s) = k + 1
        BY <3>1, MaxTop
      <4>2. h[s \ {k + 1}] = g[s \ {k + 1}]
        OBVIOUS
      <4>3. QED
        BY <3>1, <4>1, <4>2
    <3>2. CASE k + 1 \notin s
      <4>1. s \in SUBSET (1 .. k)
        BY <3>2
      <4>2. g[s] = IF s = {} THEN base ELSE Op(g[s \ {Top(s)}], seq[Top(s)])
        BY <2>1, <4>1 DEF Table
      <4>3. s # {} => h[s \ {Top(s)}] = g[s \ {Top(s)}]
        BY <3>2, <4>1, MaxBelow
      <4>4. QED
        BY <3>2, <4>2, <4>3
    <3>3. QED
      BY <3>1, <3>2
  <2>3. Table(h, base, seq, 1 .. k + 1)
    BY <2>2 DEF Table
  <2>4. QED
    BY <2>3
<1>3. Nat \subseteq S
  <2> HIDE DEF S
  <2> QED BY <1>1, <1>2, SetInduction
<1>4. QED
  BY <1>3

\* A fold is a run: it starts at the base and applies Op to one element after the other.
LEMMA FoldRun ==
  ASSUME NEW base, NEW seq, NEW n \in Nat, NEW f, Table(f, base, seq, 1 .. n)
  PROVE  \E h : Run(h, base, seq, n) /\ h[n] = f[1 .. n]
<1> DEFINE h == [k \in 0 .. n |-> f[1 .. k]]
<1>3. h[0] = base
  BY DEF Table
<1>4. ASSUME NEW k \in 1 .. n PROVE h[k] = Op(h[k - 1], seq[k])
  <2>1. Top(1 .. k) = k
    <3>1. k - 1 \in Nat /\ 1 .. k \in SUBSET (1 .. (k - 1) + 1) /\ (k - 1) + 1 \in 1 .. k
      OBVIOUS
    <3>2. Top(1 .. k) = (k - 1) + 1
      BY <3>1, MaxTop
    <3>3. QED
      BY <3>2
  <2>2. (1 .. k) \ {k} = 1 .. k - 1
    OBVIOUS
  <2>3. f[1 .. k] = Op(f[1 .. k - 1], seq[k])
    <3>1. 1 .. k \in SUBSET (1 .. n) /\ 1 .. k # {}
      <4>1. k \in 1 .. k /\ \A j \in 1 .. k : j \in 1 .. n
        OBVIOUS
      <4>2. QED
        BY <4>1
    <3>2. f[1 .. k] = Op(f[(1 .. k) \ {Top(1 .. k)}], seq[Top(1 .. k)])
      BY <3>1 DEF Table
    <3>3. QED
      BY <3>2, <2>1, <2>2
  <2>4. QED
    BY <2>3
<1>5. h[n] = f[1 .. n]
  OBVIOUS
<1>6. QED
  <2>1. Run(h, base, seq, n)
    <3> HIDE DEF h
    <3> QED BY <1>3, <1>4, Zenon DEF Run
  <2>2. QED
    BY <2>1, <1>5, Zenon

\* What holds of the base and is kept by Op holds of the result.
LEMMA FoldIn ==
  ASSUME NEW base, NEW seq, NEW n \in Nat, NEW f, Table(f, base, seq, 1 .. n),
         NEW Good, base \in Good, \A a \in Good : \A k \in 1 .. n : Op(a, seq[k]) \in Good
  PROVE  f[1 .. n] \in Good
<1>1. PICK h : Run(h, base, seq, n) /\ h[n] = f[1 .. n]
  BY FoldRun
<1> DEFINE S == {k \in Nat : k <= n => h[k] \in Good}
<1>2. 0 \in S
  BY <1>1 DEF Run
<1>3. ASSUME NEW k \in Nat, k \in S PROVE k + 1 \in S
  <2>1. CASE k + 1 <= n
    <3>1. k + 1 \in 1 .. n /\ h[k] \in Good /\ (k + 1) - 1 = k
      BY <1>3, <2>1
    <3>2. h[k + 1] = Op(h[k], seq[k + 1])
      BY <1>1, <3>1 DEF Run
    <3>3. QED
      BY <3>1, <3>2
  <2>2. CASE ~(k + 1 <= n)
    BY <2>2
  <2>3. QED
    BY <2>1, <2>2
<1>4. n \in S
  <2> HIDE DEF S
  <2> QED BY <1>2, <1>3, SetInduction
<1>5. QED
  BY <1>1, <1>4

=============================================================================
