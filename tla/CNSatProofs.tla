---------------------------- MODULE CNSatProofs ----------------------------
(***************************************************************************)
(* Theorems about CNSat without a theory, for every formula and every      *)
(* order of decisions: what it learns follows, what it watches suffices,   *)
(* what it answers is right, and no analysis runs off the trail. The       *)
(* invariant, SatInv, allows for the clauses of a theory as well: it is    *)
(* the base of CNSMTGSolverProofs.                                         *)
(***************************************************************************)
EXTENDS CNSat, FiniteSetTheorems, SequenceTheorems, TLAPS

\* Of FoldFacts only the facts about numbers are used here.
Numbers == INSTANCE FoldFacts WITH Op <- Only

-----------------------------------------------------------------------------
(* Sequences *)

Distinct(s) == \A m, n \in DOMAIN s : VarOf(s[m]) = VarOf(s[n]) => m = n

\* What is in a sequence over T.
LEMMA ToSetIs ==
  ASSUME NEW T, NEW s \in Seq(T)
  PROVE  /\ DOMAIN s = 1 .. Len(s) /\ Len(s) \in Nat
         /\ \A i \in DOMAIN s : s[i] \in T /\ s[i] \in ToSet(s)
         /\ ToSet(s) \subseteq T
BY DEF ToSet

\* The definition of Only, run from the left.
Part(h, s, S) ==
  /\ h[0] = <<>>
  /\ \A k \in 1 .. Len(s) : h[k] = IF s[k] \in S THEN Append(h[k - 1], s[k]) ELSE h[k - 1]

\* The recursive function of Only has a value at every place.
LEMMA OnlyRun ==
  ASSUME NEW T, NEW s \in Seq(T), NEW S
  PROVE  \E h : Part(h, s, S) /\ Only(s, S) = h[Len(s)]
<1> DEFINE Value(f, k) == IF k = 0 THEN <<>>
                          ELSE IF s[k] \in S THEN Append(f[k - 1], s[k]) ELSE f[k - 1]
           Shape(n, f) == f = [k \in 0 .. n |-> f[k]] /\ \A k \in 0 .. n : f[k] = Value(f, k)
           All == {n \in Nat : \E f : Shape(n, f)}
<1>1. 0 \in All
  <2>1. Shape(0, [k \in 0 .. 0 |-> <<>>])
    OBVIOUS
  <2>2. QED
    BY <2>1
<1>2. ASSUME NEW n \in Nat, n \in All PROVE n + 1 \in All
  <2>1. PICK f : Shape(n, f)
    BY <1>2
  <2> DEFINE g == [k \in 0 .. n + 1 |-> IF k <= n THEN f[k] ELSE Value(f, k)]
  <2>2. ASSUME NEW k \in 0 .. n + 1 PROVE g[k] = Value(g, k)
    <3>1. k \in 1 .. n + 1 => g[k - 1] = f[k - 1]
      OBVIOUS
    <3>2. k <= n => f[k] = Value(f, k)
      <4>1. \A i \in 0 .. n : f[i] = Value(f, i)
        BY <2>1
      <4>2. k <= n => k \in 0 .. n
        OBVIOUS
      <4>3. QED
        BY <4>1, <4>2
    <3>3. QED
      BY <3>1, <3>2
  <2>3. g = [k \in 0 .. n + 1 |-> g[k]]
    OBVIOUS
  <2>4. Shape(n + 1, g)
    <3> HIDE DEF g, Value
    <3> QED BY <2>2, <2>3
  <2>5. QED
    <3> HIDE DEF Shape
    <3> QED BY <2>4
<1>3. Nat \subseteq All
  <2> HIDE DEF All
  <2> QED BY <1>1, <1>2, Numbers!SetInduction
<1>4. PICK e : Shape(Len(s), e)
  BY <1>3
<1>5. e = [k \in 0 .. Len(s) |-> Value(e, k)]
  <2> HIDE DEF Value
  <2> QED BY <1>4
<1> DEFINE f == CHOOSE f : f = [k \in 0 .. Len(s) |-> Value(f, k)]
<1>6. f = [k \in 0 .. Len(s) |-> Value(f, k)]
  <2> HIDE DEF Value
  <2> QED BY <1>5
<1>7. Only(s, S) = f[Len(s)]
  BY DEF Only
<1> HIDE DEF f
<1>8. \A k \in 0 .. Len(s) : f[k] = Value(f, k)
  <2> HIDE DEF Value
  <2> QED BY <1>6
<1>9. Part(f, s, S)
  BY <1>8 DEF Part
<1>10. QED
  BY <1>7, <1>9

\* A sequence and one element more.
LEMMA OneMore ==
  ASSUME NEW T, NEW s \in Seq(T), NEW x \in T
  PROVE  /\ Append(s, x) \in Seq(T) /\ Len(Append(s, x)) = Len(s) + 1
         /\ \A i \in 1 .. Len(s) : Append(s, x)[i] = s[i]
         /\ Append(s, x)[Len(s) + 1] = x
         /\ ToSet(Append(s, x)) = ToSet(s) \cup {x}
<1>1. Append(s, x) \in Seq(T) /\ Len(Append(s, x)) = Len(s) + 1
  OBVIOUS
<1>2. \A i \in 1 .. Len(s) : Append(s, x)[i] = s[i]
  OBVIOUS
<1>3. Append(s, x)[Len(s) + 1] = x
  OBVIOUS
<1>4. DOMAIN Append(s, x) = 1 .. Len(s) + 1 /\ DOMAIN s = 1 .. Len(s) /\ Len(s) \in Nat
  OBVIOUS
<1> DEFINE a == Append(s, x)
<1> HIDE DEF a
<1>5. ToSet(a) = ToSet(s) \cup {x}
  BY <1>2, <1>3, <1>4 DEF ToSet, a
<1>6. QED
  BY <1>1, <1>2, <1>3, <1>5 DEF a

\* Only keeps the elements of S, and no variable comes to be named twice.
LEMMA OnlyIs ==
  ASSUME NEW T, NEW s \in Seq(T), NEW S
  PROVE  /\ Only(s, S) \in Seq(T) /\ ToSet(Only(s, S)) = ToSet(s) \cap S
         /\ Distinct(s) => Distinct(Only(s, S))
<1>1. PICK h : Part(h, s, S) /\ Only(s, S) = h[Len(s)]
  BY OnlyRun
<1> DEFINE Good(k) ==
      /\ h[k] \in Seq(T)
      /\ \A x : x \in ToSet(h[k]) <=> \E i \in 1 .. k : x = s[i] /\ s[i] \in S
      /\ Distinct(s) => Distinct(h[k])
    All == {k \in Nat : k <= Len(s) => Good(k)}
<1>s. Len(s) \in Nat /\ DOMAIN s = 1 .. Len(s) /\ \A i \in 1 .. Len(s) : s[i] \in T
  OBVIOUS
<1>2. 0 \in All
  <2>1. h[0] = <<>>
    BY <1>1 DEF Part
  <2>2. <<>> \in Seq(T) /\ ToSet(<<>>) = {} /\ Distinct(<<>>)
    BY DEF ToSet, Distinct
  <2>3. Good(0)
    BY <2>1, <2>2
  <2>4. QED
    <3> HIDE DEF Good
    <3> QED BY <2>3
<1>3. ASSUME NEW k \in Nat, k \in All PROVE k + 1 \in All
  <2> SUFFICES ASSUME k + 1 <= Len(s) PROVE Good(k + 1)
    OBVIOUS
  <2>1. Good(k) /\ k + 1 \in 1 .. Len(s)
    <3> HIDE DEF Good
    <3> QED BY <1>3, <1>s
  <2>2. h[k + 1] = IF s[k + 1] \in S THEN Append(h[k], s[k + 1]) ELSE h[k]
    <3>1. (k + 1) - 1 = k
      OBVIOUS
    <3>2. QED
      BY <1>1, <2>1, <3>1 DEF Part
  <2>3. CASE s[k + 1] \notin S
    <3>1. \A i \in 1 .. k + 1 : s[i] \in S => i \in 1 .. k
      BY <2>3
    <3>2. 1 .. k \subseteq 1 .. k + 1
      OBVIOUS
    <3>3. QED
      BY <2>1, <2>2, <2>3, <3>1, <3>2, Zenon
  <2>4. CASE s[k + 1] \in S
    <3> DEFINE a == h[k]
               x == s[k + 1]
    <3>1. h[k + 1] = Append(a, x) /\ a \in Seq(T) /\ x \in T
      BY <2>1, <2>2, <2>4, <1>s, Zenon
    <3> HIDE DEF a, x
    <3>2. Append(a, x) \in Seq(T) /\ ToSet(Append(a, x)) = ToSet(a) \cup {x}
      BY <3>1, OneMore
    <3>3. \A y : y \in ToSet(h[k + 1]) <=> \E i \in 1 .. k + 1 : y = s[i] /\ s[i] \in S
      <4>1. \A i : i \in 1 .. k + 1 <=> i \in 1 .. k \/ i = k + 1
        OBVIOUS
      <4>2. \A y : y \in ToSet(a) <=> \E i \in 1 .. k : y = s[i] /\ s[i] \in S
        BY <2>1, Zenon DEF a
      <4>3. s[k + 1] = x /\ x \in S
        BY <2>4, Zenon DEF x
      <4>4. QED
        BY <4>1, <4>2, <4>3, <3>1, <3>2, Zenon
    <3>4. ASSUME Distinct(s) PROVE Distinct(h[k + 1])
      <4>1. \A m \in 1 .. Len(a) : VarOf(a[m]) # VarOf(x)
        <5> SUFFICES ASSUME NEW m \in 1 .. Len(a) PROVE VarOf(a[m]) # VarOf(x)
          OBVIOUS
        <5>1. a[m] \in ToSet(a)
          BY <3>1, ToSetIs
        <5>2. PICK i \in 1 .. k : a[m] = s[i]
          BY <2>1, <5>1, Zenon DEF a
        <5>3. i \in DOMAIN s /\ k + 1 \in DOMAIN s /\ i # k + 1
          BY <1>s
        <5>4. QED
          BY <3>4, <5>2, <5>3, Zenon DEF Distinct, x
      <4>2. Distinct(a)
        BY <2>1, <3>4, Zenon DEF a
      <4>3. DOMAIN a = 1 .. Len(a) /\ Len(a) \in Nat
        BY <3>1
      <4>4. DOMAIN Append(a, x) = 1 .. Len(a) + 1
        BY <3>1
      <4>5. Append(a, x)[Len(a) + 1] = x /\ \A m \in 1 .. Len(a) : Append(a, x)[m] = a[m]
        BY <3>1, OneMore
      <4>6. \A m \in 1 .. Len(a) + 1 : m \in 1 .. Len(a) \/ m = Len(a) + 1
        BY <4>3
      <4> DEFINE b == Append(a, x)
      <4> HIDE DEF b
      <4>7. \A m, n \in DOMAIN b : VarOf(b[m]) = VarOf(b[n]) => m = n
        BY <4>1, <4>2, <4>3, <4>4, <4>5, <4>6, Zenon DEF Distinct, b
      <4>8. QED
        BY <3>1, <4>7 DEF Distinct, b
    <3>5. h[k + 1] \in Seq(T)
      BY <3>1, <3>2
    <3>6. QED
      BY <3>3, <3>4, <3>5, Zenon
  <2>5. QED
    <3> HIDE DEF Good
    <3> QED BY <2>3, <2>4
<1>4. Nat \subseteq All
  <2> HIDE DEF All
  <2> QED BY <1>2, <1>3, Numbers!SetInduction
<1>5. Good(Len(s))
  <2> HIDE DEF Good
  <2> QED BY <1>4, <1>s
<1>6. \A x : x \in ToSet(s) <=> \E i \in 1 .. Len(s) : x = s[i]
  BY <1>s DEF ToSet
<1>8. ASSUME NEW x PROVE x \in ToSet(Only(s, S)) <=> x \in ToSet(s) /\ x \in S
  <2>1. x \in ToSet(Only(s, S)) <=> \E i \in 1 .. Len(s) : x = s[i] /\ s[i] \in S
    BY <1>1, <1>5, Zenon
  <2>2. x \in ToSet(s) <=> \E i \in 1 .. Len(s) : x = s[i]
    BY <1>6
  <2>3. QED
    BY <2>1, <2>2
<1>7. QED
  BY <1>1, <1>5, <1>8

\* Sequences without a variable twice have as many elements as variables.
LEMMA CountedVars ==
  ASSUME NEW T, NEW s \in Seq(T), Distinct(s)
  PROVE  IsFiniteSet(VarsOf(s)) /\ Cardinality(VarsOf(s)) = Len(s)
<1> DEFINE f == [i \in 1 .. Len(s) |-> VarOf(s[i])]
<1>s. Len(s) \in Nat /\ DOMAIN s = 1 .. Len(s)
  OBVIOUS
<1>1. VarsOf(s) = {VarOf(s[i]) : i \in 1 .. Len(s)}
  BY <1>s DEF VarsOf, ToSet
<1> DEFINE S == {VarOf(s[i]) : i \in 1 .. Len(s)}
<1>2. f \in [1 .. Len(s) -> S]
  OBVIOUS
<1>3. \A m, n \in 1 .. Len(s) : f[m] = f[n] => m = n
  BY <1>s DEF Distinct
<1>4. \A y \in S : \E i \in 1 .. Len(s) : f[i] = y
  OBVIOUS
<1> HIDE DEF f, S
<1>5. f \in Bijection(1 .. Len(s), S)
  BY <1>2, <1>3, <1>4 DEF Bijection, Injection, Surjection, IsInjective
<1>6. ExistsBijection(1 .. Len(s), S)
  BY <1>5 DEF ExistsBijection
<1>7. QED
  BY <1>1, <1>6, <1>s, FS_CountingElements, FS_NatBijection DEF S

-----------------------------------------------------------------------------
(* Literals *)

Values == {"TRUE", "FALSE", "UNASSIGNED"}
TrueIn(val, l) == val[VarOf(l)] = SignOf(l)
FalseIn(val, l) == val[VarOf(l)] # "UNASSIGNED" /\ val[VarOf(l)] # SignOf(l)
\* The trail and the assignment a disagree about the variable v.
Differ(val, a, v) == val[v] # "UNASSIGNED" /\ a[v] # (val[v] = "TRUE")

\* A literal has a variable and a sign.
LEMMA LitFacts ==
  ASSUME NEW l \in Lits
  PROVE  /\ VarOf(l) \in Vars /\ VarOf(l) # 0 /\ SignOf(l) \in Values /\ SignOf(l) # "UNASSIGNED"
         /\ VarOf(-l) = VarOf(l) /\ -l \in Lits
BY SatAssumption DEF Lits, VarOf, SignOf, Vars, Values

\* What the value of a variable on the trail says of its literals in an assignment a.
LEMMA LitValue ==
  ASSUME NEW l \in Lits, NEW val \in [Vars -> Values], NEW a \in Assignments
  PROVE  /\ TrueIn(val, l) /\ Holds(l, a) => ~Differ(val, a, VarOf(l))
         /\ FalseIn(val, l) /\ Holds(l, a) => Differ(val, a, VarOf(l))
         /\ FalseIn(val, l) /\ Differ(val, a, VarOf(l)) => Holds(l, a)
         /\ TrueIn(val, l) /\ ~Holds(l, a) => Differ(val, a, VarOf(l))
<1>1. VarOf(l) \in Vars /\ a[VarOf(l)] \in BOOLEAN
  BY LitFacts DEF Assignments
<1>2. (l > 0) <=> SignOf(l) = "TRUE"
  BY SatAssumption DEF Lits, SignOf
<1>3. SignOf(l) = "TRUE" \/ SignOf(l) = "FALSE"
  BY DEF SignOf
<1>4. val[VarOf(l)] \in {"TRUE", "FALSE", "UNASSIGNED"}
  BY <1>1 DEF Values
<1> DEFINE v == VarOf(l)
           x == val[v]
           b == a[v]
           sg == SignOf(l)
<1>5. Holds(l, a) <=> (b <=> sg = "TRUE")
  BY <1>1, <1>2 DEF Holds
<1>6. Differ(val, a, v) <=> x # "UNASSIGNED" /\ ~(b <=> x = "TRUE")
  BY <1>1 DEF Differ
<1>7. (TrueIn(val, l) <=> x = sg) /\ (FalseIn(val, l) <=> x # "UNASSIGNED" /\ x # sg)
  BY DEF TrueIn, FalseIn
<1> HIDE DEF x, b, sg
<1>8. x \in {"TRUE", "FALSE", "UNASSIGNED"} /\ (sg = "TRUE" \/ sg = "FALSE")
  BY <1>3, <1>4 DEF x, sg
<1>9. QED
  BY <1>5, <1>6, <1>7, <1>8

-----------------------------------------------------------------------------
(* The inductive invariant *)

\* A trail: D holds the variables that are set, in levels that begin at the places LS.
TrailOf(D, LS, val, lev) ==
  /\ D \in Seq(Vars) /\ LS \in Seq(Nat) /\ Len(LS) >= 1
  /\ val \in [Vars -> Values] /\ lev \in [Vars -> Nat]
  /\ \A v \in Vars : val[v] # "UNASSIGNED" <=> \E n \in 1 .. Len(D) : D[n] = v
  /\ \A m, n \in 1 .. Len(D) : m < n /\ D[m] = D[n] => lev[D[n]] = 1
  /\ \A m, n \in 1 .. Len(LS) : m < n => LS[m] <= LS[n] /\ (m >= 2 => LS[m] < LS[n])
  /\ LS[Len(LS)] <= Len(D)
  /\ \A n \in 1 .. Len(D) :
       /\ lev[D[n]] \in 1 .. Len(LS)
       /\ lev[D[n]] >= 2 => LS[lev[D[n]]] < n
       /\ lev[D[n]] < Len(LS) => n <= LS[lev[D[n]] + 1]

\* The reason rs[v] of the variable at place n of the trail, a clause of base.
Because(D, val, lev, rs, base, n) ==
  rs[D[n]] # 0 =>
    \A l \in ToSet(base[rs[D[n]]].lits) :
      IF VarOf(l) = D[n] THEN TrueIn(val, l)
      ELSE FalseIn(val, l) /\ \E m \in 1 .. n - 1 : D[m] = VarOf(l) /\ lev[VarOf(l)] <= lev[D[n]]

\* Only the first variable of a level has no reason.
ReasonsOf(D, LS, val, lev, rs, base) ==
  \A n \in 1 .. Len(D) :
    /\ rs[D[n]] \in {0} \cup DOMAIN base
    /\ Because(D, val, lev, rs, base, n)
    /\ rs[D[n]] = 0 /\ lev[D[n]] >= 2 => n = LS[lev[D[n]]] + 1

\* The assignments that what is learnt has to hold in: none is left once an analysis began with a
\* mark it had not set, for then all may be learnt.
Sure == IF clean THEN Models ELSE {}

\* What is set at level 1 holds in every one of the assignments.
FactsOf(models, val, lev) ==
  \A v \in Vars : val[v] # "UNASSIGNED" /\ lev[v] = 1 => \A a \in models : ~Differ(val, a, v)

TheoryLists == {"iClauses", "iFacts", "tClauses", "tFacts"}
ClauseRecords == [lits : Seq(Lits), list : {"clauses", "satClauses", "facts", "dropped"} \cup TheoryLists]
Watchers == (Nat \ {0}) \X {1, 2}

\* The types of all that is no part of the trail.
SatTypeOK ==
  /\ withTheory \in BOOLEAN
  /\ toAdd \in Seq(Seq(Lits)) /\ \A i \in 1 .. Len(toAdd) : toAdd[i] # <<>> /\ Distinct(toAdd[i])
  /\ db \in Seq(ClauseRecords)
  /\ watch \in Seq(Seq(Lits)) /\ Len(watch) = Len(db)
  /\ satisfied \subseteq 1 .. Len(db)
  /\ watchList \in [Vars -> Seq(Watchers)]
  /\ reason \in [Vars -> Nat] /\ locked \subseteq Vars
  /\ pc \in {"adding", "propagating", "deciding", "theory", "probing", "analysing", "learning", "done", "crashed"}
  /\ visit \in [i : Nat, j : Nat \ {0}, list : Seq(Watchers)]
  /\ seen \subseteq Vars
  /\ analysis \in [confl : Nat, p : Nat, learnt : Seq(Lits), index : Nat, pathC : Int]
  /\ decisionCount \in Nat /\ answer \in {"none", "TRUE", "FALSE", "TIMEOUT"}

Long(c) == Len(db[c].lits) > 1
Live == {c \in 1 .. Len(db) : Long(c) /\ db[c].list # "dropped"}

\* A clause names no variable twice and watches two of its literals.
ClauseInv ==
  \A c \in 1 .. Len(db) :
    /\ db[c].lits # <<>> /\ Distinct(db[c].lits)
    /\ Long(c) => /\ Len(watch[c]) = 2
                  /\ watch[c][1] \in ToSet(db[c].lits) /\ watch[c][2] \in ToSet(db[c].lits)
                  /\ VarOf(watch[c][1]) # VarOf(watch[c][2])

\* Watch lists hold the watchers of the live clauses, each at least where it watches.
WatchInv ==
  /\ \A v \in Vars : ToSet(watchList[v]) \subseteq Live \X {1, 2}
  /\ ToSet(visit.list) \subseteq Live \X {1, 2}
  /\ \A c \in Live : \A k \in {1, 2} : <<c, k>> \in ToSet(watchList[VarOf(watch[c][k])])

\* A watch list holds only watchers of its variable, so what propagation has yet to visit in the
\* list it took was not false before the newest level.
ListInv ==
  /\ \A v \in Vars : \A w \in ToSet(watchList[v]) : VarOf(watch[w[1]][w[2]]) = v
  /\ \A j \in 1 .. Len(visit.list) : j >= visit.j =>
       LET l == watch[visit.list[j][1]][visit.list[j][2]]
       IN FalseIn(value, l) => level[VarOf(l)] = Len(levelStart)

\* A flagged clause has a true literal among those it watches.
FlagInv == \A c \in Live \cap satisfied : TrueIn(value, watch[c][1]) \/ TrueIn(value, watch[c][2])

TrailInv == TrailOf(decisions, levelStart, value, level)
ReasonInv == ReasonsOf(decisions, levelStart, value, level, reason, db)

\* Propagation is at a place of the newest level, which begins with a decision.
VisitInv ==
  /\ visit.i <= Len(decisions)
  /\ Len(levelStart) > 1 => /\ Last(levelStart) < Len(decisions)
                             /\ visit.i >= Last(levelStart) /\ (visit.i = Last(levelStart) => visit.list = <<>>)
  /\ pc \in {"deciding", "theory", "probing"} => visit.i = Len(decisions) /\ visit.j > Len(visit.list)

\* Propagation has yet to visit this watcher.
Ahead(w, n) == n > visit.i \/ (n = visit.i /\ \E j \in 1 .. Len(visit.list) : j >= visit.j /\ visit.list[j] = w)
Pending(w) == \E n \in 1 .. Len(decisions) : decisions[n] = VarOf(watch[w[1]][w[2]]) /\ Ahead(w, n)

\* The other watched literal is true, and stays so as long as this one is set.
Backed(c, k) ==
  LET other == watch[c][3 - k]
  IN TrueIn(value, other) /\ level[VarOf(other)] <= level[VarOf(watch[c][k])]

\* What the theory adds is false at once, and watches where it need not.
WatchersInv ==
  pc # "adding" =>
    \A c \in Live : \A k \in {1, 2} :
      db[c].list \notin TheoryLists /\ FalseIn(value, watch[c][k]) => Backed(c, k) \/ Pending(<<c, k>>)

UnitInv ==
  \A c \in 1 .. Len(db) : Len(db[c].lits) = 1 /\ db[c].list # "dropped" =>
    TrueIn(value, db[c].lits[1]) /\ level[VarOf(db[c].lits[1])] = 1

\* Every clause that is in use follows from the given ones.
InUse(c) == db[c].list # "dropped" \/ \E v \in Vars : value[v] # "UNASSIGNED" /\ reason[v] = c
Sound == \A a \in Sure : \A c \in 1 .. Len(db) : InUse(c) => Satisfies(a, db[c].lits)
FactsInv == FactsOf(Sure, value, level)

AddingInv ==
  pc = "adding" =>
    /\ levelStart = <<0>> /\ satisfied = {} /\ visit.i = 0 /\ visit.list = <<>>
    /\ \A v \in Vars : level[v] = 1 /\ reason[v] = 0
    /\ \A c \in 1 .. Len(db) : db[c].list = "clauses"

\* A fact was locked when it was set, and it stays.
LockedInv == \A v \in locked : value[v] # "UNASSIGNED" /\ level[v] = 1

AtRest ==
  pc \in {"adding", "propagating", "deciding", "theory", "probing"} \/ (pc = "done" /\ answer = "FALSE") =>
    analysis = NoAnalysis

\* The analysis has found a conflict of the newest level, and no variable yet.
Found ==
  /\ pc = "analysing" /\ analysis.learnt = <<>> /\ analysis.pathC = 0
  /\ analysis.index = Len(decisions) /\ analysis.confl \in Live
  /\ \A l \in ToSet(db[analysis.confl].lits) : FalseIn(value, l)
  /\ \E l \in ToSet(db[analysis.confl].lits) : level[VarOf(l)] = Len(levelStart)

\* The variables of the newest level that the walk down the trail has yet to come to.
ToCome == {v \in seen : level[v] = Len(levelStart) /\ \E k \in 1 .. analysis.index : decisions[k] = v}

\* The analysis has come down to analysis.p. It counts no more variables than there are to come.
OnTheWay ==
  /\ analysis.index + 1 <= Len(decisions) /\ decisions[analysis.index + 1] = analysis.p
  /\ level[analysis.p] = Len(levelStart) /\ analysis.p \notin seen
  /\ analysis.confl = reason[analysis.p]
  /\ Distinct(analysis.learnt)
  /\ \A l \in ToSet(analysis.learnt) :
       FalseIn(value, l) /\ VarOf(l) \in seen /\ level[VarOf(l)] # 1 /\ level[VarOf(l)] # Len(levelStart)
  /\ analysis.pathC <= Cardinality(ToCome)
  /\ pc = "analysing" <=> analysis.pathC > 0

\* Without marks of old, what is seen is either to come or in the learnt clause, and it and
\* analysis.p cannot all be as they are.
Exact ==
  clean =>
    IF analysis.p = 0 THEN seen = {}
    ELSE /\ \A v \in seen : v \in ToCome \/ v \in VarsOf(analysis.learnt)
         /\ analysis.pathC = Cardinality(ToCome)
         /\ \A a \in Models : \E v \in seen \cup {analysis.p} : Differ(value, a, v)

AnalysisInv ==
  pc \in {"analysing", "learning"} =>
    Len(levelStart) > 1 /\ Exact /\ IF analysis.p = 0 THEN Found ELSE OnTheWay

AnswerInv ==
  pc = "done" => /\ answer = "TRUE" => \A c \in Accepted : \E l \in ToSet(db[c].lits) : IsTrue(l)
                 /\ answer = "FALSE" => Sure = {}

\* No theory takes part.
Alone ==
  /\ pc \notin {"probing", "crashed"} /\ (pc = "deciding" => ~withTheory)
  /\ \A c \in 1 .. Len(db) : db[c].list \notin TheoryLists

SatInv ==
  /\ SatTypeOK /\ ClauseInv /\ WatchInv /\ ListInv /\ FlagInv /\ TrailInv /\ ReasonInv /\ VisitInv
  /\ WatchersInv /\ UnitInv /\ LockedInv /\ Sound /\ FactsInv /\ AddingInv /\ AtRest /\ AnalysisInv /\ AnswerInv

\* The marks of an analysis are gone after it: between two of them, only memory has left any.
MarksInv == clean /\ pc \notin {"analysing", "learning"} => seen \subseteq FreshSeen

-----------------------------------------------------------------------------
(* Trails that grow *)

\* The types of a trail and of its levels.
LEMMA TrailShape ==
  ASSUME NEW D, NEW LS, NEW val, NEW lev, TrailOf(D, LS, val, lev)
  PROVE  /\ D \in Seq(Vars) /\ LS \in Seq(Nat) /\ Len(D) \in Nat /\ Len(LS) \in Nat /\ Len(LS) >= 1
         /\ DOMAIN D = 1 .. Len(D) /\ DOMAIN LS = 1 .. Len(LS)
         /\ \A n \in 1 .. Len(D) : D[n] \in Vars /\ lev[D[n]] \in 1 .. Len(LS) /\ val[D[n]] # "UNASSIGNED"
         /\ \A k \in 1 .. Len(LS) : LS[k] \in Nat /\ LS[k] <= Len(D)
         /\ val \in [Vars -> Values] /\ lev \in [Vars -> Nat]
<1>1. D \in Seq(Vars) /\ LS \in Seq(Nat) /\ Len(LS) >= 1
      /\ val \in [Vars -> Values] /\ lev \in [Vars -> Nat]
  BY DEF TrailOf
<1>2. Len(D) \in Nat /\ Len(LS) \in Nat /\ DOMAIN D = 1 .. Len(D) /\ DOMAIN LS = 1 .. Len(LS)
      /\ (\A n \in 1 .. Len(D) : D[n] \in Vars) /\ \A k \in 1 .. Len(LS) : LS[k] \in Nat
  BY <1>1
<1>3. \A n \in 1 .. Len(D) : lev[D[n]] \in 1 .. Len(LS) /\ val[D[n]] # "UNASSIGNED"
  BY <1>2, Zenon DEF TrailOf
<1>4. ASSUME NEW k \in 1 .. Len(LS) PROVE LS[k] <= Len(D)
  <2>1. \A m, n \in 1 .. Len(LS) : m < n => LS[m] <= LS[n]
    BY Zenon DEF TrailOf
  <2>2. LS[Len(LS)] <= Len(D)
    BY Zenon DEF TrailOf
  <2>3. CASE k = Len(LS)
    BY <2>2, <2>3
  <2>4. CASE k < Len(LS)
    <3>1. LS[k] <= LS[Len(LS)]
      BY <1>1, <1>2, <2>1, <2>4
    <3>2. Len(LS) \in 1 .. Len(LS)
      BY <1>1, <1>2
    <3>3. QED
      BY <1>2, <2>2, <3>1, <3>2
  <2>5. Len(LS) \in Nat
    BY <1>2
  <2>6. k = Len(LS) \/ k < Len(LS)
    BY <2>5
  <2>7. QED
    BY <2>3, <2>4, <2>6
<1>5. QED
  BY <1>1, <1>2, <1>3, <1>4

\* Where the levels are: the newest level is the trail from the last start on.
LEMMA TrailLevels ==
  ASSUME NEW D, NEW LS, NEW val, NEW lev, TrailOf(D, LS, val, lev),
         NEW n \in 1 .. Len(D), NEW k \in 2 .. Len(LS)
  PROVE  (lev[D[n]] >= k) <=> (n > LS[k])
<1>1. Len(D) \in Nat /\ Len(LS) \in Nat /\ lev[D[n]] \in 1 .. Len(LS) /\ \A i \in 1 .. Len(LS) : LS[i] \in Nat
  BY TrailShape
<1> DEFINE j == lev[D[n]]
<1>2. \A a, b \in 1 .. Len(LS) : a < b => LS[a] <= LS[b] /\ (a >= 2 => LS[a] < LS[b])
  BY Zenon DEF TrailOf
<1>3. (j >= 2 => LS[j] < n) /\ (j < Len(LS) => n <= LS[j + 1])
  BY Zenon DEF TrailOf
<1> HIDE DEF j
<1>4. j \in 1 .. Len(LS)
  BY <1>1 DEF j
<1>5. CASE j >= k
  <2>1. LS[k] <= LS[j]
    BY <1>1, <1>2, <1>4, <1>5
  <2>2. QED
    BY <1>1, <1>3, <1>4, <1>5, <2>1 DEF j
<1>6. CASE j < k
  <2>1. LS[j + 1] <= LS[k] /\ j + 1 \in 1 .. Len(LS)
    BY <1>1, <1>2, <1>4, <1>6
  <2>2. QED
    BY <1>1, <1>3, <1>4, <1>6, <2>1 DEF j
<1>7. QED
  BY <1>1, <1>4, <1>5, <1>6

\* The trail is what is set.
LEMMA TrailHas ==
  ASSUME NEW D, NEW LS, NEW val, NEW lev, TrailOf(D, LS, val, lev), NEW v \in Vars
  PROVE  val[v] # "UNASSIGNED" <=> \E n \in 1 .. Len(D) : D[n] = v
BY Zenon DEF TrailOf

\* A free variable is set at the end of the trail, at the newest level.
LEMMA TrailExtended ==
  ASSUME NEW D, NEW LS, NEW val, NEW lev, TrailOf(D, LS, val, lev),
         NEW v \in Vars, val[v] = "UNASSIGNED", NEW x \in Values, x # "UNASSIGNED"
  PROVE  TrailOf(Append(D, v), LS, [val EXCEPT ![v] = x], [lev EXCEPT ![v] = Len(LS)])
<1> DEFINE E == Append(D, v)
           val1 == [val EXCEPT ![v] = x]
           lev1 == [lev EXCEPT ![v] = Len(LS)]
<1>1. /\ D \in Seq(Vars) /\ LS \in Seq(Nat) /\ Len(LS) \in Nat /\ Len(LS) >= 1 /\ Len(D) \in Nat
      /\ val \in [Vars -> Values] /\ lev \in [Vars -> Nat]
      /\ \A n \in 1 .. Len(D) : D[n] \in Vars
      /\ \A k \in 1 .. Len(LS) : LS[k] \in Nat
  BY TrailShape
<1>2. E \in Seq(Vars) /\ Len(E) = Len(D) + 1 /\ E[Len(D) + 1] = v /\ \A n \in 1 .. Len(D) : E[n] = D[n]
  BY <1>1
<1>3. val1 \in [Vars -> Values] /\ val1[v] = x /\ \A u \in Vars : u # v => val1[u] = val[u]
  BY <1>1, Zenon
<1>4. lev1 \in [Vars -> Nat] /\ lev1[v] = Len(LS) /\ \A u \in Vars : u # v => lev1[u] = lev[u]
  BY <1>1, Zenon
<1>5. \A n \in 1 .. Len(D) : D[n] # v
  BY TrailHas
<1>6. \A n \in 1 .. Len(D) + 1 : n \in 1 .. Len(D) \/ n = Len(D) + 1
  BY <1>1
<1>7. \A n \in 1 .. Len(D) : n \in 1 .. Len(D) + 1
  BY <1>1
<1>8. Len(D) + 1 \in 1 .. Len(D) + 1
  BY <1>1
<1> HIDE DEF E, val1, lev1
<1>9. ASSUME NEW u \in Vars PROVE val1[u] # "UNASSIGNED" <=> \E n \in 1 .. Len(E) : E[n] = u
  <2>1. CASE u = v
    BY <1>2, <1>3, <1>8, <2>1
  <2>2. CASE u # v
    BY <1>2, <1>3, <1>6, <1>7, <2>2, TrailHas
  <2>3. QED
    BY <2>1, <2>2
<1>10. ASSUME NEW m \in 1 .. Len(E), NEW n \in 1 .. Len(E), m < n, E[m] = E[n] PROVE lev1[E[n]] = 1
  <2>1. m \in 1 .. Len(D)
    BY <1>1, <1>2, <1>10
  <2>2. n \in 1 .. Len(D)
    BY <1>2, <1>5, <1>6, <1>10, <2>1
  <2>3. D[m] = D[n]
    BY <1>2, <1>10, <2>1, <2>2
  <2>4. lev[D[n]] = 1
    BY <1>10, <2>1, <2>2, <2>3, Zenon DEF TrailOf
  <2>5. QED
    BY <1>1, <1>2, <1>4, <1>5, <2>2, <2>4
<1>11. LS[Len(LS)] <= Len(E)
  <2>1. LS[Len(LS)] <= Len(D)
    BY Zenon DEF TrailOf
  <2>2. LS[Len(LS)] \in Nat
    BY <1>1
  <2>3. QED
    BY <1>1, <1>2, <2>1, <2>2
<1>12. ASSUME NEW n \in 1 .. Len(E)
       PROVE  /\ lev1[E[n]] \in 1 .. Len(LS)
              /\ lev1[E[n]] >= 2 => LS[lev1[E[n]]] < n
              /\ lev1[E[n]] < Len(LS) => n <= LS[lev1[E[n]] + 1]
  <2>1. CASE n \in 1 .. Len(D)
    <3>1. E[n] = D[n] /\ lev1[E[n]] = lev[D[n]]
      BY <1>1, <1>2, <1>4, <1>5, <2>1
    <3>2. QED
      BY <2>1, <3>1, Zenon DEF TrailOf
  <2>2. CASE n = Len(D) + 1
    <3>1. lev1[E[n]] = Len(LS)
      BY <1>2, <1>4, <2>2
    <3>2. LS[Len(LS)] <= Len(D) /\ LS[Len(LS)] \in Nat
      <4>1. LS[Len(LS)] <= Len(D)
        BY Zenon DEF TrailOf
      <4>2. QED
        BY <4>1, <1>1
    <3>3. QED
      BY <1>1, <2>2, <3>1, <3>2
  <2>3. QED
    BY <1>2, <1>6, <2>1, <2>2
<1>13. \A m, n \in 1 .. Len(LS) : m < n => LS[m] <= LS[n] /\ (m >= 2 => LS[m] < LS[n])
  BY Zenon DEF TrailOf
<1>14. TrailOf(E, LS, val1, lev1)
  BY <1>1, <1>2, <1>3, <1>4, <1>9, <1>10, <1>11, <1>12, <1>13, Zenon DEF TrailOf
<1>15. QED
  BY <1>14 DEF E, val1, lev1

\* A new level begins at the end of the trail.
LEMMA TrailDeepened ==
  ASSUME NEW D, NEW LS, NEW val, NEW lev, TrailOf(D, LS, val, lev), Len(LS) = 1 \/ LS[Len(LS)] < Len(D)
  PROVE  TrailOf(D, Append(LS, Len(D)), val, lev)
<1> DEFINE B == Append(LS, Len(D))
<1>1. /\ D \in Seq(Vars) /\ LS \in Seq(Nat) /\ Len(LS) \in Nat /\ Len(LS) >= 1 /\ Len(D) \in Nat
      /\ val \in [Vars -> Values] /\ lev \in [Vars -> Nat]
      /\ \A n \in 1 .. Len(D) : lev[D[n]] \in 1 .. Len(LS)
      /\ \A k \in 1 .. Len(LS) : LS[k] \in Nat /\ LS[k] <= Len(D)
  BY TrailShape
<1>2. B \in Seq(Nat) /\ Len(B) = Len(LS) + 1 /\ B[Len(LS) + 1] = Len(D) /\ \A n \in 1 .. Len(LS) : B[n] = LS[n]
  BY <1>1
<1> HIDE DEF B
<1>3. ASSUME NEW m \in 1 .. Len(B), NEW n \in 1 .. Len(B), m < n
      PROVE  B[m] <= B[n] /\ (m >= 2 => B[m] < B[n])
  <2>1. m \in 1 .. Len(LS) /\ B[m] = LS[m] /\ LS[m] <= Len(D) /\ LS[m] \in Nat
    BY <1>1, <1>2, <1>3
  <2>2. CASE n = Len(B)
    <3>1. B[n] = Len(D)
      BY <1>2, <2>2
    <3>2. m >= 2 => LS[m] < Len(D)
      <4>1. CASE m = Len(LS)
        BY <1>1, <4>1
      <4>2. CASE m < Len(LS)
        <5>1. m >= 2 => LS[m] < LS[Len(LS)]
          <6>1. Len(LS) \in 1 .. Len(LS)
            BY <1>1
          <6>2. QED
            BY <2>1, <4>2, <6>1, Zenon DEF TrailOf
        <5>2. LS[Len(LS)] <= Len(D) /\ LS[Len(LS)] \in Nat
          BY <1>1
        <5>3. QED
          BY <1>1, <2>1, <5>1, <5>2
      <4>3. QED
        BY <1>1, <2>1, <4>1, <4>2
    <3>3. QED
      BY <2>1, <3>1, <3>2
  <2>3. CASE n < Len(B)
    <3>1. n \in 1 .. Len(LS) /\ B[n] = LS[n]
      BY <1>1, <1>2, <2>3
    <3>2. LS[m] <= LS[n] /\ (m >= 2 => LS[m] < LS[n])
      BY <2>1, <3>1, <1>3, Zenon DEF TrailOf
    <3>3. QED
      BY <2>1, <3>1, <3>2
  <2>4. QED
    BY <1>1, <1>2, <2>2, <2>3
<1>4. ASSUME NEW n \in 1 .. Len(D)
      PROVE  /\ lev[D[n]] \in 1 .. Len(B)
             /\ lev[D[n]] >= 2 => B[lev[D[n]]] < n
             /\ lev[D[n]] < Len(B) => n <= B[lev[D[n]] + 1]
  <2>1. /\ lev[D[n]] \in 1 .. Len(LS)
        /\ lev[D[n]] >= 2 => LS[lev[D[n]]] < n
        /\ lev[D[n]] < Len(LS) => n <= LS[lev[D[n]] + 1]
    BY Zenon DEF TrailOf
  <2> DEFINE j == lev[D[n]]
  <2> HIDE DEF j
  <2>2. j \in 1 .. Len(LS) /\ (j >= 2 => LS[j] < n) /\ (j < Len(LS) => n <= LS[j + 1])
    BY <2>1 DEF j
  <2>3. CASE j = Len(LS)
    BY <1>1, <1>2, <2>2, <2>3 DEF j
  <2>4. CASE j < Len(LS)
    <3>1. j + 1 \in 1 .. Len(LS)
      BY <1>1, <2>2, <2>4
    <3>2. Len(LS) \in Nat /\ Len(B) = Len(LS) + 1
      BY <1>1, <1>2
    <3>3. B[j] = LS[j] /\ B[j + 1] = LS[j + 1]
      BY <1>2, <2>2, <3>1
    <3>4. j \in 1 .. Len(B) /\ (j >= 2 => B[j] < n) /\ n <= B[j + 1]
      BY <2>2, <2>4, <3>2, <3>3
    <3>5. QED
      BY <3>4 DEF j
  <2>5. QED
    BY <1>1, <2>2, <2>3, <2>4
<1>5. Len(B) >= 1 /\ B[Len(B)] <= Len(D)
  BY <1>1, <1>2
<1>6. /\ \A v \in Vars : val[v] # "UNASSIGNED" <=> \E n \in 1 .. Len(D) : D[n] = v
      /\ \A m, n \in 1 .. Len(D) : m < n /\ D[m] = D[n] => lev[D[n]] = 1
  BY Zenon DEF TrailOf
<1>7. TrailOf(D, B, val, lev)
  BY <1>1, <1>2, <1>3, <1>4, <1>5, <1>6, Zenon DEF TrailOf
<1>8. QED
  BY <1>7 DEF B

-----------------------------------------------------------------------------
(* Trails that are cut, and facts that join them *)

\* Two sequences, one after the other.
LEMMA Glued ==
  ASSUME NEW T, NEW s \in Seq(T), NEW t \in Seq(T)
  PROVE  /\ s \o t \in Seq(T) /\ Len(s \o t) = Len(s) + Len(t)
         /\ \A i \in 1 .. Len(s) : (s \o t)[i] = s[i]
         /\ \A i \in 1 .. Len(t) : (s \o t)[Len(s) + i] = t[i]
         /\ ToSet(s \o t) = ToSet(s) \cup ToSet(t)
<1> DEFINE a == s \o t
<1>1. /\ a \in Seq(T) /\ Len(a) = Len(s) + Len(t)
      /\ \A i \in 1 .. Len(s) + Len(t) : a[i] = IF i <= Len(s) THEN s[i] ELSE t[i - Len(s)]
  BY ConcatProperties
<1>2. Len(s) \in Nat /\ Len(t) \in Nat /\ DOMAIN s = 1 .. Len(s) /\ DOMAIN t = 1 .. Len(t)
  OBVIOUS
<1>3. DOMAIN a = 1 .. Len(s) + Len(t)
  BY <1>1
<1> HIDE DEF a
<1>4. \A i \in 1 .. Len(s) : a[i] = s[i] /\ i \in DOMAIN a
  BY <1>1, <1>2, <1>3
<1>5. ASSUME NEW i \in 1 .. Len(t) PROVE a[Len(s) + i] = t[i] /\ Len(s) + i \in DOMAIN a
  <2>1. Len(s) + i \in 1 .. Len(s) + Len(t) /\ ~(Len(s) + i <= Len(s)) /\ (Len(s) + i) - Len(s) = i
    BY <1>2
  <2>2. QED
    BY <1>1, <1>3, <2>1
<1>6. \A i \in DOMAIN a : i \in 1 .. Len(s) \/ (i - Len(s) \in 1 .. Len(t) /\ a[i] = t[i - Len(s)])
  BY <1>1, <1>2, <1>3
<1>7. ToSet(a) = ToSet(s) \cup ToSet(t)
  BY <1>2, <1>4, <1>5, <1>6 DEF ToSet
<1>8. QED
  BY <1>1, <1>4, <1>5, <1>7 DEF a

\* backTrack to level k takes back what was set at newer levels, and that is the trail from
\* the start of level k + 1 on.
LEMMA Gone ==
  ASSUME NEW D, NEW LS, NEW val, NEW lev, TrailOf(D, LS, val, lev), NEW k \in Nat, k \in 1 .. Len(LS), k < Len(LS)
  PROVE  \A v \in Vars : v \in {D[n] : n \in (LS[k + 1] + 1) .. Len(D)} <=> val[v] # "UNASSIGNED" /\ lev[v] > k
<1>1. Len(D) \in Nat /\ Len(LS) \in Nat /\ k + 1 \in 2 .. Len(LS) /\ LS[k + 1] \in Nat
      /\ \A n \in 1 .. Len(D) : lev[D[n]] \in 1 .. Len(LS)
  BY TrailShape
<1>2. \A n \in 1 .. Len(D) : lev[D[n]] >= k + 1 <=> n > LS[k + 1]
  BY <1>1, TrailLevels
<1>3. \A n \in 1 .. Len(D) : lev[D[n]] > k <=> n > LS[k + 1]
  BY <1>1, <1>2
<1> SUFFICES ASSUME NEW v \in Vars
             PROVE  v \in {D[n] : n \in (LS[k + 1] + 1) .. Len(D)} <=> val[v] # "UNASSIGNED" /\ lev[v] > k
  OBVIOUS
<1>4. \A n : n \in (LS[k + 1] + 1) .. Len(D) <=> n \in 1 .. Len(D) /\ n > LS[k + 1]
  BY <1>1
<1>5. val[v] # "UNASSIGNED" <=> \E n \in 1 .. Len(D) : D[n] = v
  BY TrailHas
<1>6. QED
  BY <1>3, <1>4, <1>5

\* The values, and the reasons, that backTrack to level k leaves.
CutValues(val1, val, lev, k) ==
  \A v \in Vars : val1[v] = IF val[v] # "UNASSIGNED" /\ lev[v] > k THEN "UNASSIGNED" ELSE val[v]
CutReasons(rs1, rs, val, lev, k) ==
  \A v \in Vars : rs1[v] = IF val[v] # "UNASSIGNED" /\ lev[v] > k THEN 0 ELSE rs[v]

\* What backTrack leaves is a trail.
LEMMA TrailCut ==
  ASSUME NEW D, NEW LS, NEW val, NEW lev, TrailOf(D, LS, val, lev), NEW k \in Nat, k \in 1 .. Len(LS), k < Len(LS),
         NEW val1, val1 \in [Vars -> Values], CutValues(val1, val, lev, k)
  PROVE  /\ TrailOf(SubSeq(D, 1, LS[k + 1]), SubSeq(LS, 1, k), val1, lev)
         /\ LS[k + 1] \in Nat /\ LS[k + 1] <= Len(D)
         /\ Len(SubSeq(D, 1, LS[k + 1])) = LS[k + 1] /\ Len(SubSeq(LS, 1, k)) = k
         /\ \A n \in 1 .. LS[k + 1] : SubSeq(D, 1, LS[k + 1])[n] = D[n]
         /\ \A n \in 1 .. k : SubSeq(LS, 1, k)[n] = LS[n]
         /\ k >= 2 => LS[k] < LS[k + 1]
<1> DEFINE L == LS[k + 1]
           E == SubSeq(D, 1, L)
           B == SubSeq(LS, 1, k)
<1>1. /\ D \in Seq(Vars) /\ LS \in Seq(Nat) /\ Len(LS) \in Nat /\ Len(D) \in Nat
      /\ val \in [Vars -> Values] /\ lev \in [Vars -> Nat]
      /\ \A n \in 1 .. Len(D) : D[n] \in Vars /\ lev[D[n]] \in 1 .. Len(LS)
      /\ \A j \in 1 .. Len(LS) : LS[j] \in Nat /\ LS[j] <= Len(D)
  BY TrailShape
<1>2. k + 1 \in 1 .. Len(LS) /\ k + 1 \in 2 .. Len(LS)
  BY <1>1
<1>3. L \in Nat /\ L <= Len(D)
  BY <1>1, <1>2
<1>4. E \in Seq(Vars) /\ Len(E) = L /\ \A n \in 1 .. L : E[n] = D[n]
  BY <1>1, <1>3
<1>5. B \in Seq(Nat) /\ Len(B) = k /\ \A n \in 1 .. k : B[n] = LS[n]
  BY <1>1
<1>6. \A m, n \in 1 .. Len(LS) : m < n => LS[m] <= LS[n] /\ (m >= 2 => LS[m] < LS[n])
  BY Zenon DEF TrailOf
<1>7. \A n \in 1 .. Len(D) : lev[D[n]] > k <=> n > L
  <2>1. \A n \in 1 .. Len(D) : lev[D[n]] >= k + 1 <=> n > LS[k + 1]
    BY <1>2, TrailLevels
  <2>2. QED
    BY <1>1, <2>1
<1> HIDE DEF E, B, L
<1>8. 1 .. L \subseteq 1 .. Len(D) /\ 1 .. k \subseteq 1 .. Len(LS)
  BY <1>1, <1>3
<1>9. ASSUME NEW v \in Vars PROVE val1[v] # "UNASSIGNED" <=> \E n \in 1 .. Len(E) : E[n] = v
  <2>1. val1[v] # "UNASSIGNED" <=> val[v] # "UNASSIGNED" /\ ~(lev[v] > k)
    BY DEF CutValues
  <2>2. val[v] # "UNASSIGNED" <=> \E n \in 1 .. Len(D) : D[n] = v
    BY TrailHas
  <2>3. \A n : n \in 1 .. L <=> n \in 1 .. Len(D) /\ ~(n > L)
    BY <1>1, <1>3
  <2>4. (\E n \in 1 .. Len(E) : E[n] = v) <=> \E n \in 1 .. Len(D) : D[n] = v /\ ~(n > L)
    BY <1>4, <2>3
  <2>5. QED
    BY <1>7, <2>1, <2>2, <2>4
<1>10. ASSUME NEW m \in 1 .. Len(E), NEW n \in 1 .. Len(E), m < n, E[m] = E[n] PROVE lev[E[n]] = 1
  <2>1. m \in 1 .. Len(D) /\ n \in 1 .. Len(D) /\ D[m] = D[n] /\ E[n] = D[n]
    BY <1>4, <1>8, <1>10
  <2>2. QED
    BY <1>10, <2>1, Zenon DEF TrailOf
<1>11. \A m, n \in 1 .. Len(B) : m < n => B[m] <= B[n] /\ (m >= 2 => B[m] < B[n])
  BY <1>5, <1>6, <1>8
<1>12. B[Len(B)] <= Len(E)
  <2>1. LS[k] <= LS[k + 1]
    BY <1>1, <1>2, <1>6
  <2>2. QED
    BY <1>4, <1>5, <2>1 DEF L
<1>13. ASSUME NEW n \in 1 .. Len(E)
       PROVE  /\ lev[E[n]] \in 1 .. Len(B)
              /\ lev[E[n]] >= 2 => B[lev[E[n]]] < n
              /\ lev[E[n]] < Len(B) => n <= B[lev[E[n]] + 1]
  <2> DEFINE j == lev[D[n]]
  <2>1. E[n] = D[n] /\ n \in 1 .. Len(D) /\ n \in Nat
    BY <1>4, <1>8
  <2>2. (j >= 2 => LS[j] < n) /\ (j < Len(LS) => n <= LS[j + 1])
    BY <2>1, Zenon DEF TrailOf
  <2>3. j \in 1 .. k
    <3>1. ~(lev[D[n]] > k) /\ lev[D[n]] \in 1 .. Len(LS)
      BY <1>1, <1>3, <1>4, <1>7, <2>1
    <3>2. QED
      BY <1>1, <3>1
  <2> HIDE DEF j
  <2>4. j < k => B[j + 1] = LS[j + 1]
    BY <1>5, <2>3
  <2>5. B[j] = LS[j]
    BY <1>5, <2>3
  <2>6. j \in 1 .. Len(B) /\ (j >= 2 => B[j] < n) /\ (j < Len(B) => n <= B[j + 1])
    BY <1>1, <1>5, <2>2, <2>3, <2>4, <2>5
  <2>7. QED
    BY <2>1, <2>6 DEF j
<1>14. Len(B) >= 1
  BY <1>5
<1>15. TrailOf(E, B, val1, lev)
  BY <1>1, <1>4, <1>5, <1>9, <1>10, <1>11, <1>12, <1>13, <1>14, Zenon DEF TrailOf
<1>16. k >= 2 => LS[k] < LS[k + 1]
  BY <1>1, <1>2, <1>6
<1>17. QED
  BY <1>3, <1>4, <1>5, <1>15, <1>16 DEF E, B, L

\* InsertAt moves the later elements up by one place.
LEMMA Inserted ==
  ASSUME NEW D \in Seq(Vars), NEW v \in Vars, NEW L \in Nat, L <= Len(D)
  PROVE  /\ InsertAt(D, L + 1, v) \in Seq(Vars) /\ Len(InsertAt(D, L + 1, v)) = Len(D) + 1
         /\ \A n \in 1 .. L : InsertAt(D, L + 1, v)[n] = D[n]
         /\ InsertAt(D, L + 1, v)[L + 1] = v
         /\ \A n \in (L + 1) .. Len(D) : InsertAt(D, L + 1, v)[n + 1] = D[n]
<1>1. Len(D) \in Nat /\ DOMAIN D = 1 .. Len(D) /\ \A n \in 1 .. Len(D) : D[n] \in Vars
  OBVIOUS
<1> DEFINE E == InsertAt(D, L + 1, v)
<1>2. E = SubSeq(D, 1, L) \o <<v>> \o SubSeq(D, L + 1, Len(D))
  <2>1. (L + 1) - 1 = L
    BY <1>1
  <2>2. QED
    BY <2>1 DEF InsertAt
<1> DEFINE F == SubSeq(D, 1, L)
           G == SubSeq(D, L + 1, Len(D))
<1>3. F \in Seq(Vars) /\ Len(F) = L /\ \A n \in 1 .. L : F[n] = D[n]
  BY <1>1
<1>4. G \in Seq(Vars) /\ Len(G) = Len(D) - L /\ \A n \in 1 .. Len(D) - L : G[n] = D[n + L]
  <2>1. \A i \in (L + 1) .. Len(D) : D[i] \in Vars
    BY <1>1
  <2>2. /\ G \in Seq(Vars) /\ Len(G) = IF L + 1 <= Len(D) THEN Len(D) - (L + 1) + 1 ELSE 0
        /\ \A i \in 1 .. Len(D) - (L + 1) + 1 : G[i] = D[(L + 1) + i - 1]
    BY <1>1, <2>1, SubSeqProperties
  <2>0. Len(D) \in Nat /\ L \in Nat /\ L <= Len(D)
    BY <1>1
  <2> DEFINE g == Len(G)
  <2>6. g = IF L + 1 <= Len(D) THEN Len(D) - (L + 1) + 1 ELSE 0
    BY <2>2
  <2> HIDE DEF g
  <2>7. g = Len(D) - L /\ Len(D) - (L + 1) + 1 = Len(D) - L
    BY <2>0, <2>6, SMTT(30)
  <2>3. Len(G) = Len(D) - L /\ Len(D) - (L + 1) + 1 = Len(D) - L
    BY <2>7 DEF g
  <2>4. \A i \in 1 .. Len(D) - L : (L + 1) + i - 1 = i + L
    BY <1>1
  <2>5. QED
    BY <2>2, <2>3, <2>4
<1> HIDE DEF F, G
<1>5. E = F \o <<v>> \o G
  BY <1>2 DEF F, G
<1> DEFINE H == F \o <<v>>
<1>a. <<v>> \in Seq(Vars) /\ Len(<<v>>) = 1 /\ <<v>>[1] = v
  OBVIOUS
<1>b. H \in Seq(Vars) /\ Len(H) = L + 1 /\ (\A n \in 1 .. L : H[n] = F[n]) /\ H[L + 1] = v
  <2>1. 1 \in 1 .. Len(<<v>>)
    OBVIOUS
  <2>2. QED
    BY <1>1, <1>3, <1>a, <2>1, Glued
<1>d. E = H \o G
  BY <1>5
<1> HIDE DEF H, E
<1>c. /\ E \in Seq(Vars) /\ Len(E) = Len(H) + Len(G)
      /\ \A n \in 1 .. Len(H) : E[n] = H[n]
      /\ \A n \in 1 .. Len(G) : E[Len(H) + n] = G[n]
  <2>1. H \in Seq(Vars) /\ G \in Seq(Vars)
    BY <1>4, <1>b
  <2>2. /\ H \o G \in Seq(Vars) /\ Len(H \o G) = Len(H) + Len(G)
        /\ \A n \in 1 .. Len(H) : (H \o G)[n] = H[n]
        /\ \A n \in 1 .. Len(G) : (H \o G)[Len(H) + n] = G[n]
    BY <2>1, Glued
  <2>3. QED
    BY <1>d, <2>2
<1>6. E \in Seq(Vars) /\ Len(E) = Len(D) + 1
  BY <1>1, <1>4, <1>b, <1>c
<1>7. \A n \in 1 .. L : E[n] = D[n]
  <2>1. 1 .. L \subseteq 1 .. L + 1
    BY <1>1
  <2>2. QED
    BY <1>3, <1>b, <1>c, <2>1
<1>8. E[L + 1] = v
  <2>1. L + 1 \in 1 .. L + 1
    BY <1>1
  <2>2. QED
    BY <1>b, <1>c, <2>1
<1>9. ASSUME NEW n \in (L + 1) .. Len(D) PROVE E[n + 1] = D[n]
  <2> DEFINE i == n - L
  <2>0. L \in Nat /\ Len(D) \in Nat
    BY <1>1
  <2>1. i \in 1 .. Len(D) - L /\ i + L = n /\ (L + 1) + i = n + 1
    BY <2>0
  <2> HIDE DEF i
  <2>2. E[(L + 1) + i] = G[i]
    BY <1>4, <1>b, <1>c, <2>1
  <2>3. QED
    BY <1>4, <2>1, <2>2
<1>10. QED
  BY <1>6, <1>7, <1>8, <1>9 DEF E

\* A fact joins level 1, when that is the only level.
LEMMA TrailInserted ==
  ASSUME NEW D, NEW LS, NEW val, NEW lev, TrailOf(D, LS, val, lev), Len(LS) = 1,
         NEW v \in Vars, val[v] = "UNASSIGNED", NEW x \in Values, x # "UNASSIGNED",
         NEW L \in Nat, L <= Len(D)
  PROVE  TrailOf(InsertAt(D, L + 1, v), [k \in DOMAIN LS |-> LS[k] + 1],
                 [val EXCEPT ![v] = x], [lev EXCEPT ![v] = 1])
<1> DEFINE E == InsertAt(D, L + 1, v)
           B == [k \in DOMAIN LS |-> LS[k] + 1]
           val1 == [val EXCEPT ![v] = x]
           lev1 == [lev EXCEPT ![v] = 1]
<1>1. /\ D \in Seq(Vars) /\ LS \in Seq(Nat) /\ Len(D) \in Nat /\ LS[1] \in Nat /\ LS[1] <= Len(D)
      /\ val \in [Vars -> Values] /\ lev \in [Vars -> Nat]
      /\ \A n \in 1 .. Len(D) : D[n] \in Vars /\ lev[D[n]] \in 1 .. 1
  <2>1. 1 \in 1 .. Len(LS)
    OBVIOUS
  <2>2. LS[1] \in Nat /\ LS[1] <= Len(D)
    BY <2>1, TrailShape
  <2>3. QED
    BY <2>2, TrailShape
<1>5. /\ InsertAt(D, L + 1, v) \in Seq(Vars) /\ Len(InsertAt(D, L + 1, v)) = Len(D) + 1
      /\ \A n \in 1 .. L : InsertAt(D, L + 1, v)[n] = D[n]
      /\ InsertAt(D, L + 1, v)[L + 1] = v
      /\ \A n \in (L + 1) .. Len(D) : InsertAt(D, L + 1, v)[n + 1] = D[n]
  <2>1. D \in Seq(Vars) /\ L \in Nat /\ L <= Len(D)
    BY <1>1
  <2>2. QED
    <3>1. InsertAt(D, L + 1, v) \in Seq(Vars)
      BY <2>1, Inserted, Zenon
    <3>2. /\ Len(InsertAt(D, L + 1, v)) = Len(D) + 1
          /\ \A n \in 1 .. L : InsertAt(D, L + 1, v)[n] = D[n]
          /\ InsertAt(D, L + 1, v)[L + 1] = v
          /\ \A n \in (L + 1) .. Len(D) : InsertAt(D, L + 1, v)[n + 1] = D[n]
      BY <2>1, Inserted
    <3>3. QED
      BY <3>1, <3>2
<1>6. E \in Seq(Vars) /\ Len(E) = Len(D) + 1
  BY <1>5
<1>7. \A n \in 1 .. L : E[n] = D[n]
  BY <1>5
<1>8. E[L + 1] = v
  BY <1>5
<1>9. \A n \in (L + 1) .. Len(D) : E[n + 1] = D[n]
  BY <1>5
<1>10. B \in Seq(Nat) /\ Len(B) = 1 /\ B[1] = LS[1] + 1
  <2>1. DOMAIN LS = 1 .. 1 /\ \A k \in 1 .. 1 : LS[k] + 1 \in Nat
    BY <1>1, TrailShape
  <2>2. B \in [1 .. 1 -> Nat]
    BY <2>1
  <2>3. QED
    BY <2>1, <2>2
<1>11. val1 \in [Vars -> Values] /\ val1[v] = x /\ \A u \in Vars : u # v => val1[u] = val[u]
  BY <1>1, Zenon
<1>12. lev1 \in [Vars -> Nat] /\ lev1[v] = 1 /\ \A u \in Vars : u # v => lev1[u] = lev[u]
  BY <1>1
<1> HIDE DEF val1, lev1, E, B
<1>13. \A n \in 1 .. Len(D) + 1 : n \in 1 .. L \/ n = L + 1 \/ (n - 1 \in (L + 1) .. Len(D) /\ E[n] = D[n - 1])
  <2>1. \A n \in 1 .. Len(D) + 1 : n \in 1 .. L \/ n = L + 1 \/ (n - 1 \in (L + 1) .. Len(D) /\ (n - 1) + 1 = n)
    BY <1>1
  <2>2. QED
    BY <1>9, <2>1
<1>14. \A n \in 1 .. Len(D) : n \in 1 .. L \/ n \in (L + 1) .. Len(D)
  BY <1>1
<1>15. 1 .. L \subseteq 1 .. Len(D) + 1 /\ L + 1 \in 1 .. Len(D) + 1 /\ (\A n \in (L + 1) .. Len(D) : n + 1 \in 1 .. Len(D) + 1)
       /\ 1 .. L \subseteq 1 .. Len(D) /\ (L + 1) .. Len(D) \subseteq 1 .. Len(D)
  BY <1>1
<1>16. ASSUME NEW u \in Vars PROVE val1[u] # "UNASSIGNED" <=> \E n \in 1 .. Len(E) : E[n] = u
  <2>1. CASE u = v
    BY <1>6, <1>8, <1>11, <1>15, <2>1
  <2>2. CASE u # v
    <3>1. val1[u] # "UNASSIGNED" <=> \E n \in 1 .. Len(D) : D[n] = u
      BY <1>11, <2>2, TrailHas
    <3>2. ASSUME NEW n \in 1 .. Len(D), D[n] = u PROVE \E m \in 1 .. Len(E) : E[m] = u
      BY <1>6, <1>7, <1>9, <1>14, <1>15, <3>2
    <3>3. ASSUME NEW n \in 1 .. Len(E), E[n] = u PROVE \E m \in 1 .. Len(D) : D[m] = u
      BY <1>6, <1>7, <1>8, <1>13, <1>15, <2>2, <3>3
    <3>4. QED
      BY <3>1, <3>2, <3>3
  <2>3. QED
    BY <2>1, <2>2
<1>17. ASSUME NEW n \in 1 .. Len(E) PROVE lev1[E[n]] = 1 /\ E[n] \in Vars
  <2>1. E[n] = v \/ \E m \in 1 .. Len(D) : E[n] = D[m]
    BY <1>6, <1>7, <1>8, <1>13, <1>15
  <2>2. \A m \in 1 .. Len(D) : D[m] \in Vars /\ lev[D[m]] = 1
    BY <1>1
  <2>3. QED
    BY <1>12, <2>1, <2>2
<1>18. TrailOf(E, B, val1, lev1)
  <2>1. \A n \in 1 .. Len(E) : /\ lev1[E[n]] \in 1 .. Len(B)
                               /\ lev1[E[n]] >= 2 => B[lev1[E[n]]] < n
                               /\ lev1[E[n]] < Len(B) => n <= B[lev1[E[n]] + 1]
    BY <1>10, <1>17
  <2>2. \A m, n \in 1 .. Len(B) : m < n => B[m] <= B[n] /\ (m >= 2 => B[m] < B[n])
    BY <1>10
  <2>3. Len(B) >= 1 /\ B[Len(B)] <= Len(E)
    BY <1>1, <1>6, <1>10
  <2>4. \A m, n \in 1 .. Len(E) : m < n /\ E[m] = E[n] => lev1[E[n]] = 1
    BY <1>17
  <2>5. QED
    BY <1>6, <1>10, <1>11, <1>12, <1>16, <2>1, <2>2, <2>3, <2>4, Zenon DEF TrailOf
<1>19. QED
  BY <1>18 DEF val1, lev1, E, B

-----------------------------------------------------------------------------
(* Reasons *)

\* The reason of one variable of the trail.
LEMMA ReasonAt ==
  ASSUME NEW D, NEW LS, NEW val, NEW lev, NEW rs, NEW base, ReasonsOf(D, LS, val, lev, rs, base), NEW n \in 1 .. Len(D)
  PROVE  /\ rs[D[n]] \in {0} \cup DOMAIN base
         /\ Because(D, val, lev, rs, base, n)
         /\ rs[D[n]] = 0 /\ lev[D[n]] >= 2 => n = LS[lev[D[n]]] + 1
BY DEF ReasonsOf

\* A clause consists of literals.
LEMMA Literals ==
  ASSUME NEW base \in Seq(ClauseRecords), NEW c \in DOMAIN base
  PROVE  base[c].lits \in Seq(Lits) /\ \A l \in ToSet(base[c].lits) : l \in Lits /\ VarOf(l) \in Vars
<1>1. base[c] \in ClauseRecords
  OBVIOUS
<1>2. base[c].lits \in Seq(Lits)
  BY <1>1 DEF ClauseRecords
<1>3. QED
  BY <1>2, ToSetIs, LitFacts

\* Only the literals of the clauses matter.
LEMMA ReasonsMoreClauses ==
  ASSUME NEW D, NEW LS, NEW val, NEW lev, NEW rs, NEW base, ReasonsOf(D, LS, val, lev, rs, base),
         NEW more, \A c \in DOMAIN base : c \in DOMAIN more /\ more[c].lits = base[c].lits
  PROVE  ReasonsOf(D, LS, val, lev, rs, more)
<1> SUFFICES ASSUME NEW n \in 1 .. Len(D)
             PROVE  /\ rs[D[n]] \in {0} \cup DOMAIN more
                    /\ Because(D, val, lev, rs, more, n)
                    /\ rs[D[n]] = 0 /\ lev[D[n]] >= 2 => n = LS[lev[D[n]]] + 1
  BY DEF ReasonsOf
<1>1. /\ rs[D[n]] \in {0} \cup DOMAIN base
      /\ Because(D, val, lev, rs, base, n)
      /\ rs[D[n]] = 0 /\ lev[D[n]] >= 2 => n = LS[lev[D[n]]] + 1
  BY ReasonAt
<1>2. rs[D[n]] # 0 => more[rs[D[n]]].lits = base[rs[D[n]]].lits
  BY <1>1
<1>3. Because(D, val, lev, rs, more, n)
  BY <1>1, <1>2, Zenon DEF Because
<1>4. QED
  BY <1>1, <1>3

\* A variable is set at the end of the trail, with a clause that implies it or, where a level begins, without.
LEMMA ReasonsExtended ==
  ASSUME NEW D, NEW LS, NEW val, NEW lev, NEW rs, NEW base,
         TrailOf(D, LS, val, lev), ReasonsOf(D, LS, val, lev, rs, base),
         base \in Seq(ClauseRecords), rs \in [Vars -> Nat],
         NEW v \in Vars, val[v] = "UNASSIGNED", NEW x \in Values, x # "UNASSIGNED",
         NEW c \in {0} \cup DOMAIN base,
         c # 0 => \A l \in ToSet(base[c].lits) : IF VarOf(l) = v THEN SignOf(l) = x ELSE FalseIn(val, l),
         c = 0 => Len(LS) = 1 \/ LS[Len(LS)] = Len(D)
  PROVE  ReasonsOf(Append(D, v), LS, [val EXCEPT ![v] = x], [lev EXCEPT ![v] = Len(LS)], [rs EXCEPT ![v] = c], base)
<1> DEFINE E == Append(D, v)
           val1 == [val EXCEPT ![v] = x]
           lev1 == [lev EXCEPT ![v] = Len(LS)]
           rs1 == [rs EXCEPT ![v] = c]
<1>1. /\ D \in Seq(Vars) /\ LS \in Seq(Nat) /\ Len(LS) \in Nat /\ Len(LS) >= 1 /\ Len(D) \in Nat
      /\ val \in [Vars -> Values] /\ lev \in [Vars -> Nat]
      /\ \A n \in 1 .. Len(D) : D[n] \in Vars /\ lev[D[n]] \in 1 .. Len(LS) /\ val[D[n]] # "UNASSIGNED"
  BY TrailShape
<1>2. E \in Seq(Vars) /\ Len(E) = Len(D) + 1 /\ E[Len(D) + 1] = v /\ \A n \in 1 .. Len(D) : E[n] = D[n]
  BY <1>1
<1>3. val1 \in [Vars -> Values] /\ val1[v] = x /\ \A u \in Vars : u # v => val1[u] = val[u]
  BY <1>1, Zenon
<1>4. lev1 \in [Vars -> Nat] /\ lev1[v] = Len(LS) /\ \A u \in Vars : u # v => lev1[u] = lev[u]
  BY <1>1, Zenon
<1>5. rs1[v] = c /\ \A u \in Vars : u # v => rs1[u] = rs[u]
  BY Zenon
<1>6. \A n \in 1 .. Len(D) : D[n] # v
  BY <1>1
<1> HIDE DEF E, val1, lev1, rs1
<1>7. ASSUME NEW n \in 1 .. Len(E)
      PROVE  /\ rs1[E[n]] \in {0} \cup DOMAIN base
             /\ Because(E, val1, lev1, rs1, base, n)
             /\ rs1[E[n]] = 0 /\ lev1[E[n]] >= 2 => n = LS[lev1[E[n]]] + 1
  <2>1. CASE n \in 1 .. Len(D)
    <3>1. /\ E[n] = D[n] /\ D[n] \in Vars /\ D[n] # v
          /\ rs1[E[n]] = rs[D[n]] /\ lev1[E[n]] = lev[D[n]] /\ val1[E[n]] = val[D[n]]
      BY <1>1, <1>2, <1>3, <1>4, <1>5, <1>6, <2>1
    <3>2. /\ rs[D[n]] \in {0} \cup DOMAIN base
          /\ Because(D, val, lev, rs, base, n)
          /\ rs[D[n]] = 0 /\ lev[D[n]] >= 2 => n = LS[lev[D[n]]] + 1
      BY <2>1, ReasonAt
    <3>3. ASSUME NEW m \in 1 .. n - 1 PROVE E[m] = D[m] /\ D[m] \in Vars /\ D[m] # v
      <4>1. m \in 1 .. Len(D)
        BY <1>1, <2>1
      <4>2. QED
        BY <1>1, <1>2, <1>6, <4>1
    <3>4. ASSUME rs[D[n]] # 0, NEW l \in ToSet(base[rs[D[n]]].lits)
          PROVE IF VarOf(l) = D[n] THEN TrueIn(val1, l)
                ELSE FalseIn(val1, l) /\ \E m \in 1 .. n - 1 : E[m] = VarOf(l) /\ lev1[VarOf(l)] <= lev1[D[n]]
      <4>1. IF VarOf(l) = D[n] THEN TrueIn(val, l)
            ELSE FalseIn(val, l) /\ \E m \in 1 .. n - 1 : D[m] = VarOf(l) /\ lev[VarOf(l)] <= lev[D[n]]
        BY <3>2, <3>4, Zenon DEF Because
      <4>2. CASE VarOf(l) = D[n]
        BY <4>1, <4>2, <3>1, <1>3 DEF TrueIn
      <4>3. CASE VarOf(l) # D[n]
        <5>1. PICK m \in 1 .. n - 1 : D[m] = VarOf(l) /\ lev[VarOf(l)] <= lev[D[n]]
          BY <4>1, <4>3
        <5>2. VarOf(l) \in Vars /\ VarOf(l) # v /\ E[m] = VarOf(l)
          BY <3>3, <5>1
        <5>3. FalseIn(val1, l)
          BY <4>1, <4>3, <5>2, <1>3 DEF FalseIn
        <5>4. lev1[VarOf(l)] <= lev1[D[n]]
          BY <5>1, <5>2, <3>1, <1>4
        <5>5. QED
          BY <4>3, <5>2, <5>3, <5>4
      <4>4. QED
        BY <4>2, <4>3
    <3>5. Because(E, val1, lev1, rs1, base, n)
      BY <3>1, <3>4, Zenon DEF Because
    <3>6. QED
      BY <3>1, <3>2, <3>5
  <2>2. CASE n = Len(D) + 1
    <3>1. E[n] = v /\ rs1[v] = c /\ lev1[v] = Len(LS)
      BY <1>2, <1>4, <1>5, <2>2
    <3>2. ASSUME c # 0, NEW l \in ToSet(base[c].lits)
          PROVE IF VarOf(l) = v THEN TrueIn(val1, l)
                ELSE FalseIn(val1, l) /\ \E m \in 1 .. n - 1 : E[m] = VarOf(l) /\ lev1[VarOf(l)] <= lev1[v]
      <4>1. c \in DOMAIN base
        BY <3>2
      <4>2. VarOf(l) \in Vars
        BY <4>1, <3>2, Literals
      <4>3. CASE VarOf(l) = v
        BY <3>2, <4>3, <1>3 DEF TrueIn
      <4>4. CASE VarOf(l) # v
        <5>1. FalseIn(val, l)
          BY <3>2, <4>4
        <5>2. FalseIn(val1, l)
          BY <5>1, <4>2, <4>4, <1>3 DEF FalseIn
        <5>3. val[VarOf(l)] # "UNASSIGNED"
          BY <5>1 DEF FalseIn
        <5>4. PICK m \in 1 .. Len(D) : D[m] = VarOf(l)
          BY <4>2, <5>3, TrailHas
        <5>5. m \in 1 .. n - 1
          BY <1>1, <2>2
        <5>6. E[m] = VarOf(l) /\ lev1[VarOf(l)] <= lev1[v]
          <6>1. lev[VarOf(l)] <= Len(LS) /\ lev1[VarOf(l)] = lev[VarOf(l)]
            <7>1. lev1[VarOf(l)] = lev[VarOf(l)]
              BY <1>4, <4>2, <4>4
            <7>2. lev[D[m]] \in 1 .. Len(LS)
              BY <1>1
            <7>3. QED
              BY <1>1, <5>4, <7>1, <7>2
          <6>2. QED
            BY <1>2, <3>1, <5>4, <6>1
        <5>7. QED
          BY <4>4, <5>2, <5>5, <5>6
      <4>5. QED
        BY <4>3, <4>4
    <3>3. Because(E, val1, lev1, rs1, base, n)
      BY <3>1, <3>2, Zenon DEF Because
    <3>4. c = 0 /\ Len(LS) >= 2 => n = LS[Len(LS)] + 1
      BY <1>1, <2>2
    <3>5. QED
      BY <3>1, <3>3, <3>4
  <2>3. QED
    BY <1>1, <1>2, <2>1, <2>2
<1>8. ReasonsOf(E, LS, val1, lev1, rs1, base)
  BY <1>7 DEF ReasonsOf
<1>9. QED
  BY <1>8 DEF E, val1, lev1, rs1

\* A new level changes no reason.
LEMMA ReasonsDeepened ==
  ASSUME NEW D, NEW LS, NEW val, NEW lev, NEW rs, NEW base,
         TrailOf(D, LS, val, lev), ReasonsOf(D, LS, val, lev, rs, base)
  PROVE  ReasonsOf(D, Append(LS, Len(D)), val, lev, rs, base)
<1>1. LS \in Seq(Nat) /\ Len(D) \in Nat /\ \A n \in 1 .. Len(D) : lev[D[n]] \in 1 .. Len(LS)
  BY TrailShape
<1>2. \A k \in 1 .. Len(LS) : Append(LS, Len(D))[k] = LS[k]
  BY <1>1
<1>3. QED
  BY <1>1, <1>2 DEF ReasonsOf

\* backTrack takes reasons back with their variables.
LEMMA ReasonsCut ==
  ASSUME NEW D, NEW LS, NEW val, NEW lev, NEW rs, NEW base,
         TrailOf(D, LS, val, lev), ReasonsOf(D, LS, val, lev, rs, base),
         NEW k \in Nat, k \in 1 .. Len(LS), k < Len(LS),
         NEW val1, NEW rs1, val1 \in [Vars -> Values],
         CutValues(val1, val, lev, k), CutReasons(rs1, rs, val, lev, k)
  PROVE  ReasonsOf(SubSeq(D, 1, LS[k + 1]), SubSeq(LS, 1, k), val1, lev, rs1, base)
<1> DEFINE L == LS[k + 1]
           E == SubSeq(D, 1, L)
           B == SubSeq(LS, 1, k)
<1>1. /\ Len(LS) \in Nat /\ Len(D) \in Nat
      /\ \A n \in 1 .. Len(D) : D[n] \in Vars /\ lev[D[n]] \in 1 .. Len(LS)
      /\ \A j \in 1 .. Len(LS) : LS[j] \in Nat /\ LS[j] <= Len(D)
  BY TrailShape
<1>2. /\ L \in Nat /\ L <= Len(D) /\ Len(E) = L /\ Len(B) = k
      /\ \A n \in 1 .. L : E[n] = D[n]
      /\ \A n \in 1 .. k : B[n] = LS[n]
  BY TrailCut
<1>3. \A n \in 1 .. Len(D) : lev[D[n]] > k <=> n > L
  <2>1. \A n \in 1 .. Len(D) : lev[D[n]] >= k + 1 <=> n > LS[k + 1]
    BY <1>1, TrailLevels
  <2>2. QED
    BY <1>1, <2>1
<1> HIDE DEF E, B, L
<1>4. ASSUME NEW n \in 1 .. L
      PROVE  n \in 1 .. Len(D) /\ E[n] = D[n] /\ D[n] \in Vars /\ val1[D[n]] = val[D[n]] /\ rs1[D[n]] = rs[D[n]]
             /\ lev[D[n]] \in 1 .. k
  <2>1. n \in 1 .. Len(D) /\ ~(n > L)
    BY <1>1, <1>2
  <2>2. ~(lev[D[n]] > k) /\ D[n] \in Vars /\ lev[D[n]] \in 1 .. Len(LS)
    BY <1>1, <1>3, <2>1
  <2>3. lev[D[n]] \in 1 .. k
    BY <1>1, <2>2
  <2>4. val1[D[n]] = val[D[n]] /\ rs1[D[n]] = rs[D[n]]
    BY <2>2 DEF CutValues, CutReasons
  <2>5. QED
    BY <1>2, <2>1, <2>2, <2>3, <2>4
<1>5. ASSUME NEW n \in 1 .. L
      PROVE  /\ rs1[E[n]] \in {0} \cup DOMAIN base
             /\ Because(E, val1, lev, rs1, base, n)
             /\ rs1[E[n]] = 0 /\ lev[E[n]] >= 2 => n = B[lev[E[n]]] + 1
  <2>1. n \in 1 .. Len(D) /\ E[n] = D[n] /\ D[n] \in Vars /\ val1[D[n]] = val[D[n]] /\ rs1[D[n]] = rs[D[n]]
        /\ lev[D[n]] \in 1 .. k
    BY <1>4
  <2>2. /\ rs[D[n]] \in {0} \cup DOMAIN base
        /\ Because(D, val, lev, rs, base, n)
        /\ rs[D[n]] = 0 /\ lev[D[n]] >= 2 => n = LS[lev[D[n]]] + 1
    BY <2>1, ReasonAt
  <2>3. ASSUME NEW m \in 1 .. n - 1 PROVE E[m] = D[m] /\ D[m] \in Vars /\ val1[D[m]] = val[D[m]]
    <3>1. m \in 1 .. L
      BY <1>2
    <3>2. QED
      BY <1>4, <3>1
  <2>4. ASSUME rs[D[n]] # 0, NEW l \in ToSet(base[rs[D[n]]].lits)
        PROVE IF VarOf(l) = D[n] THEN TrueIn(val1, l)
              ELSE FalseIn(val1, l) /\ \E m \in 1 .. n - 1 : E[m] = VarOf(l) /\ lev[VarOf(l)] <= lev[D[n]]
    <3>1. IF VarOf(l) = D[n] THEN TrueIn(val, l)
          ELSE FalseIn(val, l) /\ \E m \in 1 .. n - 1 : D[m] = VarOf(l) /\ lev[VarOf(l)] <= lev[D[n]]
      BY <2>2, <2>4, Zenon DEF Because
    <3>2. CASE VarOf(l) = D[n]
      BY <3>1, <3>2, <2>1 DEF TrueIn
    <3>3. CASE VarOf(l) # D[n]
      <4>1. PICK m \in 1 .. n - 1 : D[m] = VarOf(l) /\ lev[VarOf(l)] <= lev[D[n]]
        BY <3>1, <3>3
      <4>2. E[m] = VarOf(l) /\ val1[VarOf(l)] = val[VarOf(l)]
        BY <2>3, <4>1
      <4>3. FalseIn(val1, l)
        BY <3>1, <3>3, <4>2 DEF FalseIn
      <4>4. QED
        BY <3>3, <4>1, <4>2, <4>3
    <3>4. QED
      BY <3>2, <3>3
  <2>5. Because(E, val1, lev, rs1, base, n)
    BY <2>1, <2>4, Zenon DEF Because
  <2>6. QED
    BY <1>2, <2>1, <2>2, <2>5
<1>6. ReasonsOf(E, B, val1, lev, rs1, base)
  BY <1>2, <1>5 DEF ReasonsOf
<1>7. QED
  BY <1>6 DEF E, B, L

\* A fact that joins level 1 needs no reason and disturbs none.
LEMMA ReasonsInserted ==
  ASSUME NEW D, NEW LS, NEW val, NEW lev, NEW rs, NEW base,
         TrailOf(D, LS, val, lev), ReasonsOf(D, LS, val, lev, rs, base), Len(LS) = 1, rs \in [Vars -> Nat],
         NEW v \in Vars, val[v] = "UNASSIGNED", NEW x \in Values, x # "UNASSIGNED",
         NEW L \in Nat, L <= Len(D)
  PROVE  ReasonsOf(InsertAt(D, L + 1, v), [k \in DOMAIN LS |-> LS[k] + 1],
                   [val EXCEPT ![v] = x], [lev EXCEPT ![v] = 1], [rs EXCEPT ![v] = 0], base)
<1> DEFINE E == InsertAt(D, L + 1, v)
           B == [k \in DOMAIN LS |-> LS[k] + 1]
           val1 == [val EXCEPT ![v] = x]
           lev1 == [lev EXCEPT ![v] = 1]
           rs1 == [rs EXCEPT ![v] = 0]
<1>1. /\ Len(D) \in Nat /\ val \in [Vars -> Values] /\ lev \in [Vars -> Nat]
      /\ \A n \in 1 .. Len(D) : D[n] \in Vars /\ lev[D[n]] \in 1 .. 1 /\ val[D[n]] # "UNASSIGNED"
  BY TrailShape
<1>2. /\ L \in Nat /\ L <= Len(D) /\ Len(E) = Len(D) + 1 /\ Len(B) = 1
      /\ \A n \in 1 .. L : E[n] = D[n]
      /\ E[L + 1] = v
      /\ \A n \in (L + 1) .. Len(D) : E[n + 1] = D[n]
  <2>1. D \in Seq(Vars) /\ LS \in Seq(Nat) /\ L \in Nat /\ L <= Len(D)
    BY TrailShape
  <2>2. Len(B) = 1
    <3>1. DOMAIN LS = 1 .. 1
      BY <2>1
    <3>2. QED
      BY <3>1
  <2>3. /\ Len(InsertAt(D, L + 1, v)) = Len(D) + 1
        /\ \A n \in 1 .. L : InsertAt(D, L + 1, v)[n] = D[n]
        /\ InsertAt(D, L + 1, v)[L + 1] = v
        /\ \A n \in (L + 1) .. Len(D) : InsertAt(D, L + 1, v)[n + 1] = D[n]
    BY <2>1, Inserted
  <2>4. QED
    BY <2>1, <2>2, <2>3
<1>3. val1[v] = x /\ \A u \in Vars : u # v => val1[u] = val[u]
  BY <1>1
<1>4. lev1[v] = 1 /\ \A u \in Vars : u # v => lev1[u] = lev[u]
  BY <1>1
<1>5. rs1[v] = 0 /\ \A u \in Vars : u # v => rs1[u] = rs[u]
  OBVIOUS
<1>6. \A n \in 1 .. Len(D) : D[n] # v
  BY <1>1
<1> HIDE DEF val1, lev1, rs1, E, B
\* Where place m of the old trail is now.
<1> DEFINE At(m) == IF m <= L THEN m ELSE m + 1
<1>7. ASSUME NEW m \in 1 .. Len(D) PROVE E[At(m)] = D[m] /\ At(m) \in 1 .. Len(D) + 1
  <2>1. CASE m <= L
    BY <1>1, <1>2, <2>1
  <2>2. CASE m > L
    <3>1. m \in (L + 1) .. Len(D) /\ At(m) = m + 1
      BY <1>1, <1>2, <2>2
    <3>2. QED
      BY <1>1, <1>2, <3>1
  <2>3. QED
    BY <1>2, <2>1, <2>2
<1>8. ASSUME NEW n \in 1 .. Len(E), n # L + 1 PROVE \E m \in 1 .. Len(D) : At(m) = n
  <2>1. CASE n <= L
    <3>1. n \in 1 .. Len(D) /\ At(n) = n
      BY <1>1, <1>2, <2>1
    <3>2. QED
      BY <3>1
  <2>2. CASE n > L
    <3>1. n - 1 \in 1 .. Len(D) /\ At(n - 1) = n
      BY <1>1, <1>2, <1>8, <2>2
    <3>2. QED
      BY <3>1
  <2>3. QED
    BY <1>2, <2>1, <2>2
<1>9. \A m \in 1 .. Len(D) : \A i \in 1 .. m - 1 : At(i) \in 1 .. At(m) - 1
  BY <1>1, <1>2
<1>10. ASSUME NEW n \in 1 .. Len(E)
      PROVE  /\ rs1[E[n]] \in {0} \cup DOMAIN base
             /\ Because(E, val1, lev1, rs1, base, n)
             /\ rs1[E[n]] = 0 /\ lev1[E[n]] >= 2 => n = B[lev1[E[n]]] + 1
  <2>1. CASE n = L + 1
    <3>1. E[n] = v /\ rs1[E[n]] = 0 /\ lev1[E[n]] = 1
      BY <1>2, <1>4, <1>5, <2>1
    <3>2. Because(E, val1, lev1, rs1, base, n)
      BY <3>1 DEF Because
    <3>3. QED
      BY <3>1, <3>2
  <2>2. CASE n # L + 1
    <3>1. PICK o \in 1 .. Len(D) : At(o) = n
      BY <1>8, <2>2
    <3>2. E[n] = D[o] /\ D[o] \in Vars /\ D[o] # v /\ val1[D[o]] = val[D[o]] /\ rs1[D[o]] = rs[D[o]] /\ lev1[D[o]] = 1
      <4>1. E[n] = D[o] /\ D[o] \in Vars /\ D[o] # v
        BY <1>1, <1>6, <1>7, <3>1
      <4>2. lev[D[o]] = 1
        BY <1>1
      <4>3. QED
        BY <4>1, <4>2, <1>3, <1>4, <1>5
    <3>3. rs[D[o]] \in {0} \cup DOMAIN base /\ Because(D, val, lev, rs, base, o)
      BY ReasonAt
    <3>4. ASSUME rs[D[o]] # 0, NEW l \in ToSet(base[rs[D[o]]].lits)
          PROVE IF VarOf(l) = D[o] THEN TrueIn(val1, l)
                ELSE FalseIn(val1, l) /\ \E m \in 1 .. n - 1 : E[m] = VarOf(l) /\ lev1[VarOf(l)] <= lev1[D[o]]
      <4>1. IF VarOf(l) = D[o] THEN TrueIn(val, l)
            ELSE FalseIn(val, l) /\ \E m \in 1 .. o - 1 : D[m] = VarOf(l) /\ lev[VarOf(l)] <= lev[D[o]]
        BY <3>3, <3>4, Zenon DEF Because
      <4>2. CASE VarOf(l) = D[o]
        BY <4>1, <4>2, <3>2 DEF TrueIn
      <4>3. CASE VarOf(l) # D[o]
        <5>1. PICK m \in 1 .. o - 1 : D[m] = VarOf(l) /\ lev[VarOf(l)] <= lev[D[o]]
          BY <4>1, <4>3
        <5>2. m \in 1 .. Len(D)
          BY <1>1
        <5>3. At(m) \in 1 .. n - 1 /\ E[At(m)] = VarOf(l)
          BY <1>7, <1>9, <3>1, <5>1, <5>2
        <5>4. VarOf(l) \in Vars /\ VarOf(l) # v /\ lev[VarOf(l)] = 1
          BY <1>1, <1>6, <5>1, <5>2
        <5>5. FalseIn(val1, l)
          BY <4>1, <4>3, <5>4, <1>3 DEF FalseIn
        <5>6. lev1[VarOf(l)] <= lev1[D[o]]
          BY <5>4, <3>2, <1>4
        <5>7. QED
          BY <4>3, <5>3, <5>5, <5>6
      <4>4. QED
        BY <4>2, <4>3
    <3>5. Because(E, val1, lev1, rs1, base, n)
      BY <3>2, <3>4, Zenon DEF Because
    <3>6. QED
      BY <3>2, <3>3, <3>5
  <2>3. QED
    BY <2>1, <2>2
<1>11. ReasonsOf(E, B, val1, lev1, rs1, base)
  BY <1>10 DEF ReasonsOf
<1>12. QED
  BY <1>11 DEF val1, lev1, rs1, E, B

-----------------------------------------------------------------------------
(* What an invariant says of one clause *)

\* The types of the clauses and the lists.
LEMMA SeenTypes ==
  ASSUME SatTypeOK
  PROVE  /\ db \in Seq(ClauseRecords) /\ Len(db) \in Nat /\ DOMAIN db = 1 .. Len(db)
         /\ watch \in Seq(Seq(Lits)) /\ DOMAIN watch = 1 .. Len(db)
         /\ \A c \in 1 .. Len(db) : /\ db[c] \in ClauseRecords /\ db[c].lits \in Seq(Lits)
                                    /\ \A l \in ToSet(db[c].lits) : l \in Lits
         /\ \A v \in Vars : watchList[v] \in Seq(Watchers)
<1>1. db \in Seq(ClauseRecords) /\ watch \in Seq(Seq(Lits)) /\ Len(watch) = Len(db) /\ watchList \in [Vars -> Seq(Watchers)]
  BY DEF SatTypeOK
<1>2. Len(db) \in Nat /\ DOMAIN db = 1 .. Len(db) /\ DOMAIN watch = 1 .. Len(db)
  BY <1>1
<1>3. \A c \in 1 .. Len(db) : db[c] \in ClauseRecords
  BY <1>1
<1>4. \A c \in 1 .. Len(db) : db[c].lits \in Seq(Lits)
  BY <1>3 DEF ClauseRecords
<1>5. \A c \in 1 .. Len(db) : \A l \in ToSet(db[c].lits) : l \in Lits
  BY <1>4, ToSetIs
<1>6. \A v \in Vars : watchList[v] \in Seq(Watchers)
  BY <1>1
<1>7. QED
  BY <1>1, <1>2, <1>3, <1>4, <1>5, <1>6

\* The two watched literals of a live clause.
LEMMA WatchedLits ==
  ASSUME SatTypeOK, ClauseInv, NEW c \in Live, NEW k \in {1, 2}
  PROVE  /\ c \in 1 .. Len(db) /\ watch[c][k] \in Lits /\ VarOf(watch[c][k]) \in Vars
         /\ watch[c][k] \in ToSet(db[c].lits)
         /\ 3 - k \in {1, 2} /\ VarOf(watch[c][3 - k]) # VarOf(watch[c][k])
         /\ watch[c] = <<watch[c][1], watch[c][2]>>
<1>1. c \in 1 .. Len(db) /\ Long(c)
  BY DEF Live
<1>2. /\ Len(watch[c]) = 2
      /\ watch[c][1] \in ToSet(db[c].lits) /\ watch[c][2] \in ToSet(db[c].lits)
      /\ VarOf(watch[c][1]) # VarOf(watch[c][2])
  BY <1>1 DEF ClauseInv
<1>3. watch[c][k] \in ToSet(db[c].lits)
  BY <1>2
<1>4. watch[c][k] \in Lits
  BY <1>1, <1>3, SeenTypes
<1>5. 3 - k \in {1, 2} /\ VarOf(watch[c][3 - k]) # VarOf(watch[c][k])
  BY <1>2
<1>6. watch[c] \in Seq(Lits)
  BY <1>1, SeenTypes
<1>7. watch[c] = <<watch[c][1], watch[c][2]>>
  BY <1>2, <1>6
<1>8. QED
  BY <1>1, <1>3, <1>4, <1>5, <1>7, LitFacts

\* The tests of the model, in the words of the trail.
LEMMA Tests ==
  ASSUME NEW l
  PROVE  (IsTrue(l) <=> TrueIn(value, l)) /\ (IsFalse(l) <=> FalseIn(value, l))
         /\ (IsFree(l) <=> value[VarOf(l)] = "UNASSIGNED")
BY DEF IsTrue, IsFalse, IsFree, TrueIn, FalseIn

\* The history only ever makes less sure.
LEMMA Unsure == ASSUME Remember \/ UNCHANGED clean, Models' \subseteq Models PROVE Sure' \subseteq Sure
<1>1. CASE Remember
  BY <1>1 DEF Remember, Sure
<1>2. CASE UNCHANGED clean
  BY <1>2 DEF Sure
<1>3. QED
  BY <1>1, <1>2

\* What has no part in the trail and the clauses leaves their invariants alone.
LEMMA SameTrailAndClauses ==
  ASSUME SatInv, UNCHANGED <<trailVars, db, watch>>, Remember \/ UNCHANGED clean
  PROVE  ClauseInv' /\ TrailInv' /\ ReasonInv' /\ UnitInv' /\ LockedInv' /\ Sound' /\ FactsInv'
         /\ Models' = Models /\ Sure' \subseteq Sure /\ Live' = Live
<1>1. UNCHANGED <<value, level, reason, locked, decisions, levelStart, db, watch>>
  BY DEF trailVars
<1>2. ClauseInv'
  BY <1>1 DEF SatInv, ClauseInv, Long
<1>3. TrailInv'
  BY <1>1 DEF SatInv, TrailInv
<1>4. ReasonInv'
  BY <1>1 DEF SatInv, ReasonInv
<1>5. UnitInv'
  BY <1>1 DEF SatInv, UnitInv
<1>6. Models' = Models
  BY <1>1 DEF Models, Given
<1>s. Sure' \subseteq Sure
  BY <1>6, Unsure
<1>7. Sound'
  BY <1>1, <1>s DEF SatInv, Sound, InUse
<1>8. FactsInv'
  BY <1>1, <1>s DEF SatInv, FactsInv, FactsOf, Differ
<1>9. Live' = Live
  BY <1>1 DEF Live, Long
<1>k. LockedInv'
  BY <1>1 DEF SatInv, LockedInv
<1>10. QED
  BY <1>2, <1>3, <1>4, <1>5, <1>6, <1>s, <1>7, <1>8, <1>9, <1>k

\* The lists stay as they are while the trail stays and propagation goes on in the list it took.
LEMMA SameLists ==
  ASSUME ListInv, UNCHANGED <<value, level, levelStart, watch, watchList>>, visit'.list = visit.list,
         visit'.j = visit.j \/ (visit.j \in Nat /\ visit'.j = visit.j + 1),
         visit.list \in Seq(Watchers)
  PROVE  ListInv'
<1>1. \A j \in 1 .. Len(visit.list) : j >= visit'.j => j >= visit.j
  BY SMT
<1>2. QED
  BY <1>1 DEF ListInv, FalseIn

\* No list is under inspection.
LEMMA NoList ==
  ASSUME \A v \in Vars : \A w \in ToSet(watchList'[v]) : VarOf(watch'[w[1]][w[2]]) = v,
         visit'.list = <<>>
  PROVE  ListInv'
BY DEF ListInv

\* A fact is not free to be set.
LEMMA LockedStay ==
  ASSUME LockedInv, locked \subseteq Vars, locked' = locked, NEW v \in Vars, value[v] = "UNASSIGNED",
         \A u \in Vars : u # v => value'[u] = value[u] /\ level'[u] = level[u]
  PROVE  LockedInv'
BY DEF LockedInv

\* What is in use was in use before, or follows.
LEMMA StillSound ==
  ASSUME Sound, Sure' \subseteq Sure,
         \A c \in 1 .. Len(db') :
           \/ InUse(c)' => c \in 1 .. Len(db) /\ InUse(c) /\ db'[c].lits = db[c].lits
           \/ \A a \in Sure' : Satisfies(a, db'[c].lits)
  PROVE  Sound'
<1> SUFFICES ASSUME NEW a \in Sure', NEW c \in 1 .. Len(db'), InUse(c)' PROVE Satisfies(a, db'[c].lits)
  BY DEF Sound
<1>1. QED
  BY DEF Sound

\* When the watchers and the trail stay and the propagation does not move, all watchers are as well off.
LEMMA NextDecisionKeeps == SatInv /\ NextDecision /\ Remember => SatInv'
<1> SUFFICES ASSUME SatInv, NextDecision, Remember PROVE SatInv'
  OBVIOUS
<1>0. /\ pc = "propagating" /\ visit.j > Len(visit.list)
      /\ UNCHANGED <<withTheory, problem, toAdd, db, watch, satisfied, watchList, value, level, reason, locked, decisions,
                     levelStart, seen, analysis, decisionCount, answer>>
      /\ UNCHANGED <<trailVars, db, watch>>
  BY DEF NextDecision, formulaVars, clauseVars, trailVars
<1>1. ClauseInv' /\ TrailInv' /\ ReasonInv' /\ UnitInv' /\ LockedInv' /\ Sound' /\ FactsInv'
      /\ Models' = Models /\ Sure' \subseteq Sure /\ Live' = Live
  BY <1>0, SameTrailAndClauses
<1>2. TrailInv /\ SatTypeOK /\ VisitInv /\ WatchInv /\ ListInv /\ FlagInv /\ WatchersInv /\ ClauseInv /\ AtRest
  BY DEF SatInv
<1>t. Len(decisions) \in Nat /\ visit.i \in Nat /\ visit.j \in Nat \ {0} /\ visit.list \in Seq(Watchers) /\ Len(visit.list) \in Nat
      /\ \A n \in 1 .. Len(decisions) : decisions[n] \in Vars
  <2>1. visit \in [i : Nat, j : Nat \ {0}, list : Seq(Watchers)]
    BY <1>2 DEF SatTypeOK
  <2>2. Len(decisions) \in Nat /\ \A n \in 1 .. Len(decisions) : decisions[n] \in Vars
    BY <1>2, TrailShape DEF TrailInv
  <2>3. QED
    BY <2>1, <2>2
<1>3. CASE visit.i < Len(decisions)
  <2>1. visit' = [i |-> visit.i + 1, j |-> 1, list |-> watchList[decisions[visit.i + 1]]] /\ pc' = pc
    BY <1>3 DEF NextDecision
  <2>2. visit.i + 1 \in 1 .. Len(decisions) /\ decisions[visit.i + 1] \in Vars
    BY <1>3, <1>t
  <2>3. SatTypeOK'
    <3>1. watchList[decisions[visit.i + 1]] \in Seq(Watchers)
      BY <1>2, <2>2, SeenTypes
    <3>2. visit' \in [i : Nat, j : Nat \ {0}, list : Seq(Watchers)]
      BY <1>t, <2>1, <3>1
    <3>3. QED
      BY <1>0, <1>2, <2>1, <3>2 DEF SatTypeOK
  <2>4. WatchInv'
    BY <1>0, <1>1, <1>2, <2>1, <2>2 DEF WatchInv
  <2>5. FlagInv'
    BY <1>0, <1>1, <1>2 DEF FlagInv
  <2>6. VisitInv'
    <3>1. Last(levelStart) \in Nat /\ (Len(levelStart) > 1 => visit.i >= Last(levelStart))
      <4>1. Len(levelStart) \in 1 .. Len(levelStart)
        BY <1>2, TrailShape DEF TrailInv
      <4>2. QED
        BY <1>2, <4>1, TrailShape DEF TrailInv, VisitInv, Last
    <3>2. visit'.i = visit.i + 1
      BY <2>1
    <3>3. QED
      BY <1>0, <1>3, <1>t, <2>1, <3>1, <3>2 DEF VisitInv
  <2>7. WatchersInv'
    <3> SUFFICES ASSUME NEW c \in Live, NEW k \in {1, 2}, db[c].list \notin TheoryLists, FalseIn(value, watch[c][k])
                 PROVE  Backed(c, k)' \/ Pending(<<c, k>>)'
      BY <1>0, <1>1 DEF WatchersInv
    <3>1. Backed(c, k) \/ Pending(<<c, k>>)
      BY <1>0, <1>2 DEF WatchersInv
    <3>2. CASE Backed(c, k)
      BY <3>2, <1>0 DEF Backed
    <3>3. CASE Pending(<<c, k>>)
      <4>1. PICK n \in 1 .. Len(decisions) : decisions[n] = VarOf(watch[c][k]) /\ Ahead(<<c, k>>, n)
        BY <3>3 DEF Pending
      <4>2. n > visit.i
        BY <1>0, <1>t, <4>1 DEF Ahead
      <4>3. Ahead(<<c, k>>, n)'
        <5>1. CASE n > visit.i + 1
          BY <2>1, <5>1 DEF Ahead
        <5>2. CASE n = visit.i + 1
          <6>1. <<c, k>> \in ToSet(watchList[decisions[n]])
            BY <1>2, <4>1 DEF WatchInv
          <6>2. watchList[decisions[n]] \in Seq(Watchers)
            BY <1>2, <1>t, SeenTypes
          <6>3. PICK j \in 1 .. Len(watchList[decisions[n]]) : watchList[decisions[n]][j] = <<c, k>>
            BY <6>1, <6>2 DEF ToSet
          <6>4. visit'.list = watchList[decisions[n]] /\ visit'.j = 1 /\ visit'.i = n
            BY <2>1, <5>2
          <6>5. j >= 1
            BY <6>2
          <6>6. QED
            BY <6>3, <6>4, <6>5 DEF Ahead
        <5>3. QED
          BY <1>t, <4>2, <5>1, <5>2
      <4>4. QED
        BY <1>0, <4>1, <4>3 DEF Pending
    <3>4. QED
      BY <3>1, <3>2, <3>3
  <2>8. AddingInv' /\ AtRest' /\ AnalysisInv' /\ AnswerInv'
    BY <1>0, <1>2, <2>1 DEF AddingInv, AtRest, AnalysisInv, AnswerInv
  <2>10. ListInv'
    <3> DEFINE d == decisions[visit.i + 1]
    <3>1. level[d] = Len(levelStart)
      <4>1. TrailOf(decisions, levelStart, value, level)
        BY <1>2 DEF TrailInv
      <4>2. Len(levelStart) \in Nat /\ Len(levelStart) >= 1 /\ level[d] \in 1 .. Len(levelStart)
            /\ \A k \in 1 .. Len(levelStart) : levelStart[k] \in Nat
        BY <2>2, <4>1, TrailShape
      <4>3. Len(levelStart) > 1 => visit.i >= levelStart[Len(levelStart)]
        BY <1>2 DEF VisitInv, Last
      <4>4. CASE Len(levelStart) = 1
        BY <4>2, <4>4
      <4>5. CASE Len(levelStart) > 1
        <5>1. Len(levelStart) \in 2 .. Len(levelStart) /\ visit.i + 1 > levelStart[Len(levelStart)]
          <6>1. Len(levelStart) \in 2 .. Len(levelStart) /\ levelStart[Len(levelStart)] \in Nat
            BY <4>2, <4>5
          <6>2. QED
            BY <1>t, <4>3, <4>5, <6>1
        <5>2. level[d] >= Len(levelStart)
          BY <2>2, <4>1, <5>1, TrailLevels
        <5>3. QED
          BY <4>2, <5>2
      <4>6. QED
        BY <4>2, <4>4, <4>5
    <3>2. watchList[d] \in Seq(Watchers)
      BY <1>2, <2>2, SeenTypes
    <3>3. \A w \in ToSet(watchList[d]) : VarOf(watch[w[1]][w[2]]) = d
      BY <1>2, <2>2 DEF ListInv
    <3>4. visit'.list = watchList[d]
      BY <2>1
    <3>5. \A j \in 1 .. Len(visit'.list) : visit'.list[j] \in ToSet(watchList[d])
      BY <3>2, <3>4, ToSetIs
    <3>6. \A v \in Vars : \A w \in ToSet(watchList[v]) : VarOf(watch[w[1]][w[2]]) = v
      BY <1>2 DEF ListInv
    <3> HIDE DEF d
    <3>7. QED
      BY <1>0, <3>1, <3>3, <3>5, <3>6 DEF ListInv
  <2>9. QED
    BY <1>1, <2>3, <2>4, <2>5, <2>6, <2>7, <2>8, <2>10 DEF SatInv
<1>4. CASE ~(visit.i < Len(decisions))
  <2>1. visit' = visit /\ pc' = IF withTheory THEN "theory" ELSE "deciding"
    BY <1>4 DEF NextDecision
  <2>2. visit.i = Len(decisions)
    BY <1>2, <1>4, <1>t DEF VisitInv
  <2>3. SatTypeOK'
    BY <1>0, <1>2, <2>1 DEF SatTypeOK
  <2>4. WatchInv'
    BY <1>0, <1>1, <1>2, <2>1 DEF WatchInv
  <2>5. FlagInv'
    BY <1>0, <1>1, <1>2 DEF FlagInv
  <2>6. VisitInv'
    BY <1>0, <1>2, <1>t, <2>1, <2>2 DEF VisitInv
  <2>7. WatchersInv'
    <3> SUFFICES ASSUME NEW c \in Live, NEW k \in {1, 2}, db[c].list \notin TheoryLists, FalseIn(value, watch[c][k])
                 PROVE  Backed(c, k)' \/ Pending(<<c, k>>)'
      BY <1>0, <1>1 DEF WatchersInv
    <3>1. Backed(c, k) \/ Pending(<<c, k>>)
      BY <1>0, <1>2 DEF WatchersInv
    <3>2. QED
      BY <3>1, <1>0, <2>1 DEF Backed, Pending, Ahead
  <2>8. AddingInv' /\ AtRest' /\ AnalysisInv' /\ AnswerInv'
    BY <1>0, <1>2, <2>1 DEF AddingInv, AtRest, AnalysisInv, AnswerInv
  <2>10. ListInv'
    BY <1>0, <1>2, <1>t, <2>1, SameLists
  <2>9. QED
    BY <1>1, <2>3, <2>4, <2>5, <2>6, <2>7, <2>8, <2>10 DEF SatInv
<1>5. QED
  BY <1>3, <1>4

-----------------------------------------------------------------------------
(* Propagation: watchers that stay *)

\* A sequence with a first element.
LEMMA NotEmpty ==
  ASSUME NEW T, NEW s \in Seq(T), s # <<>>
  PROVE  Len(s) \in Nat /\ Len(s) >= 1 /\ Head(s) \in T /\ Tail(s) \in Seq(T)
OBVIOUS

\* A number that is neither 0 nor 1.
LEMMA MoreThanOne ==
  ASSUME NEW m \in Nat, m >= 1, m # 1
  PROVE  m > 1
OBVIOUS

\* The watcher under inspection is one of a live clause.
LEMMA VisitedLive ==
  ASSUME SatInv, Visiting
  PROVE  /\ Visited = <<Clause, Visited[2]>> /\ Clause \in Live /\ Visited[2] \in {1, 2}
         /\ visit.j \in 1 .. Len(visit.list) /\ visit.i \in Nat /\ visit.j \in Nat
         /\ visit.list # <<>> /\ visit.list \in Seq(Watchers)
<1>1. visit \in [i : Nat, j : Nat \ {0}, list : Seq(Watchers)]
  BY DEF SatInv, SatTypeOK
<1>2. visit.j \in 1 .. Len(visit.list) /\ visit.list \in Seq(Watchers) /\ visit.i \in Nat /\ visit.j \in Nat
  BY <1>1 DEF Visiting
<1>3. Visited \in ToSet(visit.list)
  BY <1>2, ToSetIs DEF Visited
<1>4. Visited \in Live \X {1, 2}
  BY <1>3 DEF SatInv, WatchInv
<1>5. Visited = <<Clause, Visited[2]>> /\ Clause \in Live /\ Visited[2] \in {1, 2}
  BY <1>4 DEF Clause
<1>6. visit.list # <<>>
  BY <1>2
<1>7. QED
  BY <1>2, <1>5, <1>6

\* A set variable has one of the levels there are.
LEMMA LevelBound ==
  ASSUME SatInv, NEW v \in Vars, value[v] # "UNASSIGNED"
  PROVE  level[v] \in 1 .. Len(levelStart) /\ level[v] \in Nat /\ Len(levelStart) \in Nat
<1>1. TrailOf(decisions, levelStart, value, level)
  BY DEF SatInv, TrailInv
<1>2. \E n \in 1 .. Len(decisions) : decisions[n] = v
  BY <1>1, TrailHas
<1>3. QED
  BY <1>1, <1>2, TrailShape

\* What is pending was set at the newest level.
LEMMA AheadIsNewest ==
  ASSUME SatInv, NEW w, NEW n \in 1 .. Len(decisions), Ahead(w, n)
  PROVE  level[decisions[n]] = Len(levelStart) /\ (Len(levelStart) > 1 => n > levelStart[Len(levelStart)])
<1>1. TrailOf(decisions, levelStart, value, level)
  BY DEF SatInv, TrailInv
<1>2. /\ Len(decisions) \in Nat /\ Len(levelStart) \in Nat /\ Len(levelStart) >= 1
      /\ level[decisions[n]] \in 1 .. Len(levelStart)
      /\ \A k \in 1 .. Len(levelStart) : levelStart[k] \in Nat
  BY <1>1, TrailShape
<1>3. CASE Len(levelStart) = 1
  BY <1>2, <1>3
<1>4. CASE Len(levelStart) > 1
  <2>1. visit.i \in Nat
    BY DEF SatInv, SatTypeOK
  <2>2. visit.i >= levelStart[Len(levelStart)]
    BY <1>4 DEF SatInv, VisitInv, Last
  <2>3. n = visit.i => visit.i # levelStart[Len(levelStart)]
    <3>1. ASSUME n = visit.i, visit.i = levelStart[Len(levelStart)] PROVE FALSE
      <4>1. visit.list = <<>>
        BY <1>4, <3>1 DEF SatInv, VisitInv, Last
      <4>2. Len(visit.list) = 0
        BY <4>1
      <4>3. QED
        BY <1>2, <3>1, <4>2 DEF Ahead
    <3>2. QED
      BY <3>1
  <2>4. n >= visit.i
    BY <1>2, <2>1 DEF Ahead
  <2>5. n > levelStart[Len(levelStart)]
    <3>1. levelStart[Len(levelStart)] \in Nat
      BY <1>2
    <3>2. QED
      BY <1>2, <2>1, <2>2, <2>3, <2>4, <3>1
  <2>6. level[decisions[n]] >= Len(levelStart)
    <3>1. Len(levelStart) \in 2 .. Len(levelStart)
      BY <1>2, <1>4
    <3>2. QED
      BY <1>1, <2>5, <3>1, TrailLevels
  <2>7. QED
    BY <1>2, <2>5, <2>6
<1>5. QED
  BY <1>2, <1>3, <1>4

\* So is a watcher that propagation has yet to visit.
LEMMA PendingIsNewest ==
  ASSUME SatInv, NEW c \in Live, NEW k \in {1, 2}, Pending(<<c, k>>)
  PROVE  level[VarOf(watch[c][k])] = Len(levelStart)
<1>1. PICK n \in 1 .. Len(decisions) : decisions[n] = VarOf(watch[c][k]) /\ Ahead(<<c, k>>, n)
  BY DEF Pending
<1>2. QED
  BY <1>1, AheadIsNewest

\* A false watcher is in order when the other watched literal is true.
LEMMA TrueBacks ==
  ASSUME SatInv, pc # "adding", NEW c \in Live, NEW k \in {1, 2}, db[c].list \notin TheoryLists,
         FalseIn(value, watch[c][k]), TrueIn(value, watch[c][3 - k])
  PROVE  Backed(c, k)
<1>1. Backed(c, k) \/ Pending(<<c, k>>)
  BY DEF SatInv, WatchersInv
<1>2. CASE Pending(<<c, k>>)
  <2>1. level[VarOf(watch[c][k])] = Len(levelStart)
    BY <1>2, PendingIsNewest
  <2>2. watch[c][3 - k] \in Lits /\ VarOf(watch[c][3 - k]) \in Vars
    <3>1. 3 - k \in {1, 2}
      OBVIOUS
    <3>2. QED
      BY <3>1, WatchedLits DEF SatInv
  <2>3. value[VarOf(watch[c][3 - k])] # "UNASSIGNED"
    BY <2>2, LitFacts DEF TrueIn
  <2>4. level[VarOf(watch[c][3 - k])] <= Len(levelStart)
    BY <2>2, <2>3, LevelBound
  <2>5. QED
    BY <2>1, <2>4 DEF Backed
<1>3. QED
  BY <1>1, <1>2

\* The propagation moves on by one entry.
Advanced == visit' = [visit EXCEPT !.j = @ + 1]

\* What was ahead stays ahead, but for the entry that is left behind.
LEMMA AdvancedVisit ==
  ASSUME SatInv, Visiting, Advanced
  PROVE  /\ visit' \in [i : Nat, j : Nat \ {0}, list : Seq(Watchers)]
         /\ visit'.i = visit.i /\ visit'.j = visit.j + 1 /\ visit'.list = visit.list
         /\ \A w, n : Ahead(w, n) /\ ~(w = Visited /\ n = visit.i) => Ahead(w, n)'
<1>1. visit \in [i : Nat, j : Nat \ {0}, list : Seq(Watchers)]
  BY DEF SatInv, SatTypeOK
<1>2. visit'.i = visit.i /\ visit'.j = visit.j + 1 /\ visit'.list = visit.list
  BY <1>1 DEF Advanced
<1>3. visit' \in [i : Nat, j : Nat \ {0}, list : Seq(Watchers)]
  BY <1>1 DEF Advanced
<1>4. ASSUME NEW w, NEW n, Ahead(w, n), ~(w = Visited /\ n = visit.i) PROVE Ahead(w, n)'
  <2>1. CASE n > visit.i
    BY <1>2, <2>1 DEF Ahead
  <2>2. CASE ~(n > visit.i)
    <3>1. n = visit.i /\ \E j \in 1 .. Len(visit.list) : j >= visit.j /\ visit.list[j] = w
      BY <1>4, <2>2 DEF Ahead
    <3>2. PICK j \in 1 .. Len(visit.list) : j >= visit.j /\ visit.list[j] = w
      BY <3>1
    <3>3. j # visit.j
      BY <1>4, <3>1, <3>2 DEF Visited
    <3>4. j >= visit.j + 1
      BY <1>1, <3>2, <3>3
    <3>5. QED
      BY <1>2, <3>1, <3>2, <3>4 DEF Ahead
  <2>3. QED
    BY <2>1, <2>2
<1>5. QED
  BY <1>2, <1>3, <1>4

\* An entry that needs nothing is left behind.
LEMMA SkipWatcherKeeps == SatInv /\ SkipWatcher /\ Remember => SatInv'
<1> SUFFICES ASSUME SatInv, SkipWatcher, Remember PROVE SatInv'
  OBVIOUS
<1>0. /\ Visiting /\ pc = "propagating" /\ Advanced
      /\ UNCHANGED <<withTheory, problem, toAdd, db, watch, watchList, value, level, reason, locked, decisions,
                     levelStart, seen, analysis, decisionCount, pc, answer>>
      /\ UNCHANGED <<trailVars, db, watch>>
  BY DEF SkipWatcher, Visiting, Advanced, formulaVars, trailVars
<1>1. ClauseInv' /\ TrailInv' /\ ReasonInv' /\ UnitInv' /\ LockedInv' /\ Sound' /\ FactsInv'
      /\ Models' = Models /\ Sure' \subseteq Sure /\ Live' = Live
  BY <1>0, SameTrailAndClauses
<1>2. TrailInv /\ SatTypeOK /\ VisitInv /\ WatchInv /\ FlagInv /\ WatchersInv /\ ClauseInv /\ AtRest
  BY DEF SatInv
<1>3. /\ visit' \in [i : Nat, j : Nat \ {0}, list : Seq(Watchers)]
      /\ visit'.i = visit.i /\ visit'.j = visit.j + 1 /\ visit'.list = visit.list
      /\ \A w, n : Ahead(w, n) /\ ~(w = Visited /\ n = visit.i) => Ahead(w, n)'
  BY <1>0, AdvancedVisit
<1>4. Visited = <<Clause, Visited[2]>> /\ Clause \in Live /\ Visited[2] \in {1, 2}
  BY <1>0, VisitedLive
<1>w. /\ Clause \in 1 .. Len(db) /\ Watched \in Lits /\ Other \in Lits
      /\ Watched = watch[Clause][Visited[2]] /\ Other = watch[Clause][3 - Visited[2]]
  <2>1. 3 - Visited[2] \in {1, 2}
    BY <1>4
  <2>2. QED
    BY <1>2, <1>4, <2>1, WatchedLits DEF Watched, Other
\* The flag is set only when a watched literal is true.
<1>5. satisfied' = satisfied \/ (satisfied' = satisfied \cup {Clause} /\ (TrueIn(value, Watched) \/ TrueIn(value, Other)))
  BY Tests DEF SkipWatcher
\* The entry that is left behind needs no more.
<1>6. FalseIn(value, Watched) => TrueIn(value, Other)
  <2>1. CASE Clause \in satisfied
    <3>1. TrueIn(value, watch[Clause][1]) \/ TrueIn(value, watch[Clause][2])
      BY <1>2, <1>4, <2>1 DEF FlagInv
    <3>2. FalseIn(value, Watched) => ~TrueIn(value, Watched)
      BY DEF TrueIn, FalseIn
    <3>3. TrueIn(value, Watched) \/ TrueIn(value, Other)
      BY <1>4, <1>w, <3>1
    <3>4. QED
      BY <3>2, <3>3
  <2>2. CASE Clause \notin satisfied
    <3>1. IsFree(Watched) \/ IsTrue(Watched) \/ IsTrue(Other)
      BY <2>2 DEF SkipWatcher
    <3>2. QED
      BY <3>1 DEF IsFree, IsTrue, FalseIn, TrueIn
  <2>3. QED
    BY <2>1, <2>2
<1>7. SatTypeOK'
  <2>1. satisfied' \subseteq 1 .. Len(db)
    BY <1>2, <1>5, <1>w DEF SatTypeOK
  <2>2. QED
    BY <1>0, <1>2, <1>3, <2>1 DEF SatTypeOK
<1>8. WatchInv'
  BY <1>0, <1>1, <1>2, <1>3 DEF WatchInv
<1>9. FlagInv'
  <2> SUFFICES ASSUME NEW c \in Live, c \in satisfied'
               PROVE  TrueIn(value, watch[c][1]) \/ TrueIn(value, watch[c][2])
    BY <1>0, <1>1 DEF FlagInv
  <2>1. CASE c \in satisfied
    BY <1>2, <2>1 DEF FlagInv
  <2>2. CASE c \notin satisfied
    <3>1. c = Clause /\ (TrueIn(value, Watched) \/ TrueIn(value, Other))
      BY <1>5, <2>2
    <3>2. QED
      BY <1>4, <1>w, <3>1
  <2>3. QED
    BY <2>1, <2>2
<1>10. VisitInv'
  BY <1>0, <1>2, <1>3 DEF VisitInv
<1>11. WatchersInv'
  <2> SUFFICES ASSUME NEW c \in Live, NEW k \in {1, 2}, db[c].list \notin TheoryLists, FalseIn(value, watch[c][k])
               PROVE  Backed(c, k)' \/ Pending(<<c, k>>)'
    BY <1>0, <1>1 DEF WatchersInv
  <2>1. Backed(c, k) \/ Pending(<<c, k>>)
    BY <1>0, <1>2 DEF WatchersInv
  <2>2. Backed(c, k) => Backed(c, k)'
    BY <1>0 DEF Backed
  <2>3. CASE <<c, k>> = Visited
    <3>1. c = Clause /\ k = Visited[2]
      BY <1>4, <2>3
    <3>2. Backed(c, k)
      BY <1>0, <1>6, <1>w, <3>1, TrueBacks
    <3>3. QED
      BY <2>2, <3>2
  <2>4. CASE <<c, k>> # Visited
    <3>1. Pending(<<c, k>>) => Pending(<<c, k>>)'
      BY <1>0, <1>3, <2>4 DEF Pending
    <3>2. QED
      BY <2>1, <2>2, <3>1
  <2>5. QED
    BY <2>3, <2>4
<1>12. AddingInv' /\ AtRest' /\ AnalysisInv' /\ AnswerInv'
  BY <1>0, <1>2 DEF AddingInv, AtRest, AnalysisInv, AnswerInv
<1>14. ListInv'
  <2>1. ListInv /\ visit.list \in Seq(Watchers) /\ visit.j \in Nat
    BY <1>0, VisitedLive DEF SatInv
  <2>2. QED
    BY <1>0, <1>3, <2>1, SameLists
<1>13. QED
  BY <1>1, <1>7, <1>8, <1>9, <1>10, <1>11, <1>12, <1>14 DEF SatInv

\* What is known when a clause needs another watcher.
LEMMA NeedsWatchIs ==
  ASSUME SatInv, NeedsWatch
  PROVE  /\ Visiting /\ Clause \in Live /\ Clause \in 1 .. Len(db) /\ Visited[2] \in {1, 2} /\ Visited = <<Clause, Visited[2]>>
         /\ Watched \in ToSet(db[Clause].lits) /\ Other \in ToSet(db[Clause].lits)
         /\ Watched \in Lits /\ Other \in Lits /\ VarOf(Watched) # VarOf(Other)
         /\ Watched = watch[Clause][Visited[2]] /\ Other = watch[Clause][3 - Visited[2]]
         /\ FalseIn(value, Watched) /\ ~TrueIn(value, Other)
         /\ level[VarOf(Watched)] = Len(levelStart)
<1>1. Visiting /\ pc = "propagating" /\ FalseIn(value, Watched) /\ ~TrueIn(value, Other)
  BY Tests DEF NeedsWatch, Visiting
<1>2. Visited = <<Clause, Visited[2]>> /\ Clause \in Live /\ Visited[2] \in {1, 2}
  BY <1>1, VisitedLive
<1> DEFINE k == Visited[2]
<1>3. k \in {1, 2} /\ 3 - k \in {1, 2}
  BY <1>2
<1>4. /\ Clause \in 1 .. Len(db) /\ watch[Clause][k] \in Lits /\ watch[Clause][3 - k] \in Lits
      /\ watch[Clause][k] \in ToSet(db[Clause].lits) /\ watch[Clause][3 - k] \in ToSet(db[Clause].lits)
      /\ VarOf(watch[Clause][3 - k]) # VarOf(watch[Clause][k])
  BY <1>2, <1>3, WatchedLits DEF SatInv
<1>5. Watched = watch[Clause][k] /\ Other = watch[Clause][3 - k]
  BY SMTT(30) DEF Watched, Other
<1>7. level[VarOf(Watched)] = Len(levelStart)
  <2>1. visit.j \in 1 .. Len(visit.list) /\ visit.j \in Nat /\ Visited = visit.list[visit.j]
    BY <1>1, VisitedLive DEF Visited
  <2> DEFINE w == visit.list[visit.j]
  <2>2. Watched = watch[w[1]][w[2]]
    BY DEF Watched, Clause, Visited
  <2>3. ListInv /\ visit.j >= visit.j
    BY <2>1, SMTT(30) DEF SatInv
  <2>4. FalseIn(value, watch[w[1]][w[2]]) => level[VarOf(watch[w[1]][w[2]])] = Len(levelStart)
    BY <2>1, <2>3 DEF ListInv
  <2>5. QED
    BY <1>1, <2>2, <2>4
<1>8. QED
  BY <1>1, <1>2, <1>4, <1>5, <1>7

\* No candidate is left: all but the other watched literal are false.
LEMMA NoCandidates ==
  ASSUME SatInv, NeedsWatch, Candidates = {}
  PROVE  \A l \in ToSet(db[Clause].lits) : IF VarOf(l) = VarOf(Other) THEN l = Other ELSE FalseIn(value, l)
<1> SUFFICES ASSUME NEW l \in ToSet(db[Clause].lits)
             PROVE  IF VarOf(l) = VarOf(Other) THEN l = Other ELSE FalseIn(value, l)
  OBVIOUS
<1>1. Clause \in 1 .. Len(db) /\ Other \in ToSet(db[Clause].lits)
  BY NeedsWatchIs
<1>2. db[Clause].lits \in Seq(Lits) /\ Distinct(db[Clause].lits)
  BY <1>1, SeenTypes DEF SatInv, ClauseInv
<1>3. PICK n \in DOMAIN db[Clause].lits : db[Clause].lits[n] = l
  BY <1>2 DEF ToSet
<1>4. PICK m \in DOMAIN db[Clause].lits : db[Clause].lits[m] = Other
  BY <1>1, <1>2 DEF ToSet
<1>5. CASE VarOf(l) = VarOf(Other)
  BY <1>2, <1>3, <1>4, <1>5, Zenon DEF Distinct
<1>6. CASE VarOf(l) # VarOf(Other)
  <2>1. IsFalse(l)
    BY <1>3, <1>6 DEF Candidates
  <2>2. QED
    BY <1>6, <2>1, Tests
<1>7. QED
  BY <1>5, <1>6

\* A clause with false literals only: the analysis can begin, or the formula is unsatisfiable.
LEMMA ConflictKeeps == SatInv /\ MarksInv /\ Conflict /\ Remember => SatInv'
<1> SUFFICES ASSUME SatInv, MarksInv, Conflict, Remember PROVE SatInv'
  OBVIOUS
<1>0. /\ NeedsWatch /\ Candidates = {} /\ FalseIn(value, Other) /\ pc = "propagating"
      /\ UNCHANGED <<withTheory, problem, toAdd, db, watch, satisfied, watchList, value, level, reason, locked, decisions,
                     levelStart, visit, seen, decisionCount>>
      /\ UNCHANGED <<trailVars, db, watch>>
  BY Tests DEF Conflict, NeedsWatch, Visiting, formulaVars, clauseVars, trailVars
<1>1. ClauseInv' /\ TrailInv' /\ ReasonInv' /\ UnitInv' /\ LockedInv' /\ Sound' /\ FactsInv'
      /\ Models' = Models /\ Sure' \subseteq Sure /\ Live' = Live
  BY <1>0, SameTrailAndClauses
<1>2. TrailInv /\ SatTypeOK /\ VisitInv /\ WatchInv /\ ListInv /\ FlagInv /\ WatchersInv /\ ClauseInv /\ AtRest /\ Sound /\ FactsInv
  BY DEF SatInv
<1>3. /\ Clause \in Live /\ db[Clause].list # "dropped" /\ Clause \in 1 .. Len(db) /\ Watched \in ToSet(db[Clause].lits)
      /\ level[VarOf(Watched)] = Len(levelStart)
  BY <1>0, NeedsWatchIs DEF Live
<1>4. \A l \in ToSet(db[Clause].lits) : FalseIn(value, l)
  BY <1>0, NoCandidates
<1>n. Len(levelStart) \in Nat /\ Len(levelStart) >= 1 /\ Len(decisions) \in Nat
  BY <1>2, TrailShape DEF TrailInv
<1>5. WatchInv' /\ FlagInv'
  BY <1>0, <1>1, <1>2 DEF WatchInv, FlagInv
<1>6. pc' # "adding" /\ pc' # "deciding" /\ pc' # "theory" /\ pc' # "probing" /\ pc' # "propagating"
  BY DEF Conflict
<1>7. VisitInv'
  BY <1>0, <1>2, <1>6 DEF VisitInv
<1>8. WatchersInv'
  <2> SUFFICES ASSUME NEW c \in Live, NEW k \in {1, 2}, db[c].list \notin TheoryLists, FalseIn(value, watch[c][k])
               PROVE  Backed(c, k)' \/ Pending(<<c, k>>)'
    BY <1>0, <1>1 DEF WatchersInv
  <2>1. Backed(c, k) \/ Pending(<<c, k>>)
    BY <1>0, <1>2 DEF WatchersInv
  <2>2. QED
    BY <2>1, <1>0 DEF Backed, Pending, Ahead
<1>l. ListInv'
  <2>1. visit.list \in Seq(Watchers)
    BY <1>0, VisitedLive DEF NeedsWatch
  <2>2. QED
    BY <1>0, <1>2, <2>1, SameLists
<1>9. AddingInv' /\ AtRest'
  <2>1. analysis = NoAnalysis
    BY <1>0, <1>2 DEF AtRest
  <2>2. pc' = "done" /\ answer' = "FALSE" => analysis' = analysis
    BY DEF Conflict
  <2>3. QED
    BY <1>0, <1>6, <2>1, <2>2 DEF AddingInv, AtRest
<1>10. CASE Len(levelStart) = 1
  <2>1. pc' = "done" /\ answer' = "FALSE" /\ analysis' = analysis
    BY <1>10 DEF Conflict
  <2>2. ASSUME NEW a \in Sure PROVE FALSE
    <3>1. a \in Assignments /\ Satisfies(a, db[Clause].lits)
      BY <1>2, <1>3 DEF Sure, Models, Sound, InUse
    <3>2. PICK l \in ToSet(db[Clause].lits) : Holds(l, a)
      BY <3>1 DEF Satisfies
    <3>3. l \in Lits /\ VarOf(l) \in Vars
      BY <1>2, <1>3, SeenTypes, LitFacts
    <3>4. FalseIn(value, l) /\ value[VarOf(l)] # "UNASSIGNED"
      BY <1>4 DEF FalseIn
    <3>5. level[VarOf(l)] = 1
      BY <1>10, <3>3, <3>4, LevelBound
    <3>6. ~Differ(value, a, VarOf(l))
      BY <1>2, <3>3, <3>4, <3>5 DEF FactsInv, FactsOf
    <3>7. value \in [Vars -> Values]
      BY <1>2, TrailShape DEF TrailInv
    <3>8. QED
      BY <3>1, <3>2, <3>3, <3>4, <3>6, <3>7, LitValue
  <2>3. SatTypeOK'
    BY <1>0, <1>2, <2>1 DEF SatTypeOK
  <2>4. AnalysisInv' /\ AnswerInv'
    BY <1>1, <2>1, <2>2 DEF AnalysisInv, AnswerInv
  <2>5. QED
    BY <1>1, <1>5, <1>7, <1>8, <1>9, <1>l, <2>3, <2>4 DEF SatInv
<1>11. CASE Len(levelStart) # 1
  <2>1. pc' = "analysing" /\ answer' = answer
        /\ analysis' = [NoAnalysis EXCEPT !.confl = Clause, !.index = Len(decisions)]
    BY <1>11 DEF Conflict
  <2>2. analysis' = [confl |-> Clause, p |-> 0, learnt |-> <<>>, index |-> Len(decisions), pathC |-> 0]
    BY <2>1 DEF NoAnalysis
  <2>3. SatTypeOK'
    <3>1. <<>> \in Seq(Lits) /\ Clause \in Nat
      BY <1>3
    <3>2. analysis' \in [confl : Nat, p : Nat, learnt : Seq(Lits), index : Nat, pathC : Int]
      BY <1>n, <2>2, <3>1
    <3>3. QED
      BY <1>0, <1>2, <2>1, <3>2 DEF SatTypeOK
  <2>4. AnalysisInv'
    <3>1. Exact'
      <4>1. clean' => seen = {}
        <5>1. clean' => clean /\ seen \cap FreshSeen = {}
          BY <1>0, <2>1 DEF Remember
        <5>2. clean => seen \subseteq FreshSeen
          BY <1>0 DEF MarksInv
        <5>3. QED
          BY <5>1, <5>2
      <4>2. analysis'.p = 0 /\ seen' = seen
        BY <1>0, <2>2
      <4>3. QED
        BY <4>1, <4>2 DEF Exact
    <3>2. /\ analysis'.p = 0 /\ analysis'.learnt = <<>> /\ analysis'.pathC = 0
          /\ analysis'.index = Len(decisions) /\ analysis'.confl = Clause
      BY <2>2
    <3>3. Found'
      BY <1>0, <1>1, <1>3, <1>4, <2>1, <3>2 DEF Found
    <3>4. Len(levelStart) > 1
      BY <1>11, <1>n, MoreThanOne, Zenon
    <3>5. Len(levelStart') > 1
      BY <1>0, <3>4
    <3>6. QED
      BY <3>1, <3>2, <3>3, <3>5 DEF AnalysisInv
  <2>5. AnswerInv'
    BY <2>1 DEF AnswerInv
  <2>6. QED
    BY <1>1, <1>5, <1>7, <1>8, <1>9, <1>l, <2>3, <2>4, <2>5 DEF SatInv
<1>12. QED
  BY <1>10, <1>11

\* Nothing is left to decide, and every clause has a true literal.
LEMMA AnswerTrueKeeps == SatInv /\ AnswerTrue /\ Remember => SatInv'
<1> SUFFICES ASSUME SatInv, AnswerTrue, Remember PROVE SatInv'
  OBVIOUS
<1>0. /\ pc = "deciding" /\ Decidable = {} /\ pc' = "done" /\ answer' = "TRUE"
      /\ UNCHANGED <<withTheory, problem, toAdd, db, watch, satisfied, watchList, value, level, reason, locked, decisions,
                     levelStart, visit, seen, analysis, decisionCount>>
      /\ UNCHANGED <<trailVars, db, watch>>
  BY DEF AnswerTrue, formulaVars, clauseVars, trailVars, searchVars
<1>1. ClauseInv' /\ TrailInv' /\ ReasonInv' /\ UnitInv' /\ LockedInv' /\ Sound' /\ FactsInv'
      /\ Models' = Models /\ Sure' \subseteq Sure /\ Live' = Live
  BY <1>0, SameTrailAndClauses
<1>2. TrailInv /\ SatTypeOK /\ VisitInv /\ WatchInv /\ ListInv /\ FlagInv /\ WatchersInv /\ ClauseInv /\ AtRest /\ UnitInv
  BY DEF SatInv
<1>l. ListInv'
  <2>1. visit.list \in Seq(Watchers)
    BY <1>2 DEF SatTypeOK
  <2>2. QED
    BY <1>0, <1>2, <2>1, SameLists
<1>3. WatchInv' /\ FlagInv' /\ VisitInv'
  BY <1>0, <1>1, <1>2 DEF WatchInv, FlagInv, VisitInv
<1>4. WatchersInv'
  <2> SUFFICES ASSUME NEW c \in Live, NEW k \in {1, 2}, db[c].list \notin TheoryLists, FalseIn(value, watch[c][k])
               PROVE  Backed(c, k)' \/ Pending(<<c, k>>)'
    BY <1>0, <1>1 DEF WatchersInv
  <2>1. Backed(c, k) \/ Pending(<<c, k>>)
    BY <1>0, <1>2 DEF WatchersInv
  <2>2. QED
    BY <2>1, <1>0 DEF Backed, Pending, Ahead
<1>5. AddingInv' /\ AtRest' /\ AnalysisInv'
  BY <1>0, <1>2 DEF AddingInv, AtRest, AnalysisInv
<1>6. SatTypeOK'
  BY <1>0, <1>2 DEF SatTypeOK
\* No literal that counts is free: none at all, or, in a theory, none that is watched.
<1>7. ASSUME NEW c \in Live, db[c].list = "clauses", NEW k \in {1, 2}, c \notin satisfied
      PROVE  value[VarOf(watch[c][k])] # "UNASSIGNED"
  <2> SUFFICES ASSUME value[VarOf(watch[c][k])] = "UNASSIGNED" PROVE FALSE
    OBVIOUS
  <2> DEFINE l == watch[c][k]
  <2>1. l \in Lits /\ c \in 1 .. Len(db)
    BY <1>2, WatchedLits
  <2>2. l \in -MaxVar .. MaxVar /\ l # 0
    BY <2>1 DEF Lits
  <2>3. l \in FreeLiterals
    BY <2>2 DEF FreeLiterals, IsFree
  <2>4. c \in Clauses("clauses")
    BY <1>2, <1>7, <2>1, SeenTypes DEF Clauses
  <2>5. k \in 1 .. 2
    OBVIOUS
  <2> HIDE DEF l
  <2>6. l \in CountedLiterals
    BY <1>7, <2>3, <2>4, <2>5 DEF CountedLiterals, l
  <2>7. QED
    BY <1>0, <2>3, <2>6 DEF Decidable
<1>8. ASSUME NEW c \in Accepted PROVE \E l \in ToSet(db[c].lits) : IsTrue(l)
  <2>1. c \in 1 .. Len(db) /\ db[c].list = "clauses"
    BY <1>2, SeenTypes DEF Accepted, Clauses
  <2>2. db[c].lits # <<>> /\ db[c].lits \in Seq(Lits)
    BY <1>2, <2>1, SeenTypes DEF ClauseInv
  <2>3. CASE Len(db[c].lits) = 1
    <3>1. TrueIn(value, db[c].lits[1])
      BY <1>2, <2>1, <2>3 DEF UnitInv
    <3>2. db[c].lits[1] \in ToSet(db[c].lits)
      BY <2>2, <2>3, ToSetIs
    <3>3. QED
      BY <3>1, <3>2, Tests
  <2>4. CASE Len(db[c].lits) # 1
    <3>1. Len(db[c].lits) > 1
      <4>1. Len(db[c].lits) \in Nat /\ Len(db[c].lits) >= 1
        BY <2>2, NotEmpty, Zenon
      <4>2. QED
        BY <2>4, <4>1, MoreThanOne, Zenon
    <3>2. c \in Live
      BY <2>1, <3>1 DEF Live, Long
    <3>3. 1 \in {1, 2} /\ 2 \in {1, 2} /\ 3 - 1 = 2
      OBVIOUS
    <3>4. watch[c][1] \in Lits /\ watch[c][1] \in ToSet(db[c].lits) /\ watch[c][2] \in ToSet(db[c].lits)
      BY <1>2, <3>2, <3>3, WatchedLits
    <3>5. CASE TrueIn(value, watch[c][1]) \/ TrueIn(value, watch[c][2])
      BY <3>4, <3>5, Tests
    <3>6. CASE ~(TrueIn(value, watch[c][1]) \/ TrueIn(value, watch[c][2]))
      <4>0. c \notin satisfied
        BY <1>2, <3>2, <3>6 DEF FlagInv
      <4>1. FalseIn(value, watch[c][1])
        BY <1>7, <2>1, <3>2, <3>3, <3>6, <4>0 DEF TrueIn, FalseIn
      <4>2. Backed(c, 1) \/ Pending(<<c, 1>>)
        BY <1>0, <1>2, <2>1, <3>2, <3>3, <4>1 DEF WatchersInv, TheoryLists
      <4>3. ~Pending(<<c, 1>>)
        <5> SUFFICES ASSUME Pending(<<c, 1>>) PROVE FALSE
          OBVIOUS
        <5>1. PICK n \in 1 .. Len(decisions) : Ahead(<<c, 1>>, n)
          BY DEF Pending
        <5>2. visit.i = Len(decisions) /\ visit.j > Len(visit.list)
          BY <1>0, <1>2 DEF VisitInv
        <5>3. visit \in [i : Nat, j : Nat \ {0}, list : Seq(Watchers)] /\ Len(decisions) \in Nat
          BY <1>2, TrailShape DEF SatTypeOK, TrailInv
        <5>4. ~(n > visit.i)
          BY <5>2, <5>3
        <5>5. PICK j \in 1 .. Len(visit.list) : j >= visit.j
          BY <5>1, <5>4 DEF Ahead
        <5>6. QED
          BY <5>2, <5>3, <5>5
      <4>4. TrueIn(value, watch[c][2])
        BY <3>3, <4>2, <4>3 DEF Backed
      <4>5. QED
        BY <3>4, <4>4, Tests
    <3>7. QED
      BY <3>5, <3>6
  <2>5. QED
    BY <2>3, <2>4
<1>9. AnswerInv'
  <2>1. Accepted' = Accepted /\ \A l : IsTrue(l)' = IsTrue(l)
    BY <1>0 DEF Accepted, Clauses, IsTrue
  <2>2. QED
    BY <1>0, <1>8, <2>1 DEF AnswerInv
<1>10. QED
  BY <1>1, <1>3, <1>4, <1>5, <1>6, <1>9, <1>l DEF SatInv

-----------------------------------------------------------------------------
(* Propagation: watchers that move *)

\* A sequence with another element at one place.
LEMMA Replaced ==
  ASSUME NEW T, NEW s \in Seq(T), NEW k \in 1 .. Len(s), NEW x \in T
  PROVE  [s EXCEPT ![k] = x] \in Seq(T) /\ Len([s EXCEPT ![k] = x]) = Len(s)
<1>1. s \in [1 .. Len(s) -> T] /\ Len(s) \in Nat
  OBVIOUS
<1>2. [s EXCEPT ![k] = x] \in [1 .. Len(s) -> T]
  BY <1>1
<1>3. QED
  BY <1>1, <1>2

\* The place of the literal the watcher moves to.
MoveTo == db[Clause].lits[CHOOSE n \in Candidates : \A m \in Candidates : n <= m]

\* A literal that is not false and is nobody's watcher takes the place of the false one.
LEMMA MoveWatcherKeeps == SatInv /\ MoveWatcher /\ Remember => SatInv'
<1> SUFFICES ASSUME SatInv, MoveWatcher, Remember PROVE SatInv'
  OBVIOUS
<1> DEFINE l == MoveTo
           v == VarOf(Watched)
           k == Visited[2]
<1>0. /\ NeedsWatch /\ Candidates # {} /\ pc = "propagating" /\ pc' = pc
      /\ UNCHANGED <<withTheory, problem, toAdd, db, value, level, reason, locked, decisions,
                     levelStart, visit, seen, analysis, decisionCount, pc, answer>>
      /\ watch' = [watch EXCEPT ![Clause][k] = l]
      /\ watchList' = [watchList EXCEPT ![v] = Only(@, ToSet(@) \ {Visited}),
                                        ![VarOf(l)] = Append(@, Visited)]
      /\ satisfied' = IF IsTrue(l) THEN satisfied \union {Clause} ELSE satisfied
  BY DEF MoveWatcher, NeedsWatch, Visiting, formulaVars, trailVars, searchVars, MoveTo
<1>2. TrailInv /\ SatTypeOK /\ VisitInv /\ WatchInv /\ FlagInv /\ WatchersInv /\ ClauseInv /\ AtRest
      /\ ReasonInv /\ UnitInv /\ LockedInv /\ Sound /\ FactsInv
  BY DEF SatInv
<1>3. /\ Clause \in Live /\ Clause \in 1 .. Len(db) /\ k \in {1, 2} /\ Visited = <<Clause, k>>
      /\ Watched \in ToSet(db[Clause].lits) /\ Other \in ToSet(db[Clause].lits)
      /\ Watched \in Lits /\ Other \in Lits /\ VarOf(Watched) # VarOf(Other)
      /\ Watched = watch[Clause][k] /\ Other = watch[Clause][3 - k]
      /\ FalseIn(value, Watched) /\ ~TrueIn(value, Other)
  BY <1>0, NeedsWatchIs
<1>4. PICK n \in DOMAIN db[Clause].lits : l = db[Clause].lits[n] /\ n \in Candidates
  <2>1. db[Clause].lits \in Seq(Lits)
    BY <1>2, <1>3, SeenTypes
  <2>2. Candidates \subseteq DOMAIN db[Clause].lits /\ DOMAIN db[Clause].lits \subseteq Nat
    BY <2>1 DEF Candidates
  <2>3. \E x \in Candidates : \A y \in Candidates : x <= y
    BY <1>0, <2>2, Numbers!LeastNat
  <2>4. (CHOOSE x \in Candidates : \A y \in Candidates : x <= y) \in Candidates
    BY <2>3
  <2>5. QED
    BY <2>2, <2>4 DEF MoveTo
<1>5. l \in ToSet(db[Clause].lits) /\ l \in Lits /\ VarOf(l) \in Vars /\ VarOf(l) # VarOf(Other) /\ ~FalseIn(value, l)
  <2>1. VarOf(l) # VarOf(Other) /\ ~IsFalse(l)
    BY <1>4 DEF Candidates
  <2>2. db[Clause].lits \in Seq(Lits)
    BY <1>2, <1>3, SeenTypes
  <2>3. l \in Lits /\ l \in ToSet(db[Clause].lits)
    BY <1>4, <2>2, ToSetIs
  <2>4. QED
    BY <2>1, <2>3, Tests, LitFacts
<1>6. v \in Vars /\ VarOf(l) # v
  <2>1. v \in Vars
    BY <1>3, LitFacts
  <2>2. ASSUME VarOf(l) = v PROVE FALSE
    <3>1. db[Clause].lits \in Seq(Lits) /\ Distinct(db[Clause].lits)
      BY <1>2, <1>3, SeenTypes DEF ClauseInv
    <3>2. PICK m \in DOMAIN db[Clause].lits : db[Clause].lits[m] = Watched
      BY <1>3, <3>1 DEF ToSet
    <3>3. m = n
      BY <1>4, <2>2, <3>1, <3>2, Zenon DEF Distinct
    <3>4. QED
      BY <1>3, <1>4, <1>5, <3>2, <3>3
  <2>3. QED
    BY <2>1, <2>2
<1> HIDE DEF l, v, k
<1>t. watch \in Seq(Seq(Lits)) /\ Len(db) \in Nat /\ Len(watch) = Len(db) /\ DOMAIN watch = 1 .. Len(db)
      /\ watchList \in [Vars -> Seq(Watchers)] /\ \A c \in 1 .. Len(db) : watch[c] \in Seq(Lits)
  BY <1>2, SeenTypes DEF SatTypeOK
<1>u. watch[Clause] = <<watch[Clause][1], watch[Clause][2]>> /\ Len(watch[Clause]) = 2 /\ Long(Clause)
  BY <1>2, <1>3, WatchedLits DEF ClauseInv, Live
\* What is watched now.
<1>7. /\ \A c \in 1 .. Len(db) : c # Clause => watch'[c] = watch[c]
      /\ watch'[Clause] \in Seq(Lits) /\ Len(watch'[Clause]) = 2
      /\ watch'[Clause][k] = l /\ watch'[Clause][3 - k] = Other
  <2> DEFINE w == watch[Clause]
  <2>1. w \in Seq(Lits) /\ Len(w) = 2 /\ w[3 - k] = Other
    BY <1>3, <1>t, <1>u
  <2>2. watch'[Clause] = [w EXCEPT ![k] = l] /\ \A c \in 1 .. Len(db) : c # Clause => watch'[c] = watch[c]
    BY <1>0, <1>3, <1>t
  <2> HIDE DEF w
  <2>3. [w EXCEPT ![k] = l] \in Seq(Lits)
    <3>1. k \in 1 .. Len(w)
      BY <1>3, <2>1
    <3>2. QED
      BY <1>5, <2>1, <3>1, Replaced
  <2>4. Len([w EXCEPT ![k] = l]) = 2 /\ [w EXCEPT ![k] = l][k] = l /\ [w EXCEPT ![k] = l][3 - k] = w[3 - k]
    BY <1>3, <1>5, <2>1
  <2>5. QED
    BY <2>1, <2>2, <2>3, <2>4
<1>8. watch' \in Seq(Seq(Lits)) /\ Len(watch') = Len(db)
  <2>1. watch' = [watch EXCEPT ![Clause] = watch'[Clause]]
    BY <1>0, <1>3, <1>t
  <2> DEFINE w == watch'[Clause]
  <2>2. w \in Seq(Lits)
    BY <1>7
  <2> HIDE DEF w
  <2>3. [watch EXCEPT ![Clause] = w] \in Seq(Seq(Lits)) /\ Len([watch EXCEPT ![Clause] = w]) = Len(watch)
    BY <1>3, <1>t, <2>2
  <2>4. QED
    BY <1>t, <2>1, <2>3 DEF w
\* The lists now.
<1>9. /\ watchList'[v] = Only(watchList[v], ToSet(watchList[v]) \ {Visited})
      /\ watchList'[VarOf(l)] = Append(watchList[VarOf(l)], Visited)
      /\ \A x \in Vars : x # v /\ x # VarOf(l) => watchList'[x] = watchList[x]
      /\ DOMAIN watchList' = Vars
      /\ watchList' = [x \in Vars |-> watchList'[x]]
  <2>1. DOMAIN watchList = Vars
    BY <1>t
  <2>2. QED
    BY <1>0, <1>5, <1>6, <2>1, Zenon
<1>10. Visited \in Watchers /\ Visited \in Live \X {1, 2}
  BY <1>3, <1>t DEF Watchers
<1>11. \A x \in Vars : /\ watchList'[x] \in Seq(Watchers)
                       /\ ToSet(watchList'[x]) \subseteq ToSet(watchList[x]) \cup {Visited}
                       /\ \A w : w \in ToSet(watchList[x]) /\ w # Visited => w \in ToSet(watchList'[x])
  <2> SUFFICES ASSUME NEW x \in Vars
               PROVE  /\ watchList'[x] \in Seq(Watchers)
                      /\ ToSet(watchList'[x]) \subseteq ToSet(watchList[x]) \cup {Visited}
                      /\ \A w : w \in ToSet(watchList[x]) /\ w # Visited => w \in ToSet(watchList'[x])
    OBVIOUS
  <2> DEFINE o == watchList[x]
  <2>1. o \in Seq(Watchers)
    BY <1>t
  <2> HIDE DEF o
  <2>2. CASE x = v
    <3>1. watchList'[x] = Only(o, ToSet(o) \ {Visited})
      BY <1>9, <2>2 DEF o
    <3>2. Only(o, ToSet(o) \ {Visited}) \in Seq(Watchers)
          /\ ToSet(Only(o, ToSet(o) \ {Visited})) = ToSet(o) \cap (ToSet(o) \ {Visited})
      BY <2>1, OnlyIs
    <3>3. QED
      BY <3>1, <3>2 DEF o
  <2>3. CASE x = VarOf(l)
    <3>1. watchList'[x] = Append(o, Visited)
      BY <1>9, <2>3 DEF o
    <3>2. Append(o, Visited) \in Seq(Watchers) /\ ToSet(Append(o, Visited)) = ToSet(o) \cup {Visited}
      BY <1>10, <2>1, OneMore
    <3>3. QED
      BY <3>1, <3>2 DEF o
  <2>4. CASE x # v /\ x # VarOf(l)
    BY <1>9, <2>1, <2>4 DEF o
  <2>5. QED
    BY <2>2, <2>3, <2>4
<1>12. Visited \in ToSet(watchList'[VarOf(l)])
  <2>1. watchList[VarOf(l)] \in Seq(Watchers)
    BY <1>5, <1>t
  <2>2. QED
    BY <1>9, <1>10, <2>1, OneMore
\* The watched literals of the other watchers stay.
<1>13. \A c \in Live : \A j \in {1, 2} : <<c, j>> # <<Clause, k>> => watch'[c][j] = watch[c][j]
  <2> SUFFICES ASSUME NEW c \in Live, NEW j \in {1, 2}, <<c, j>> # <<Clause, k>> PROVE watch'[c][j] = watch[c][j]
    OBVIOUS
  <2>1. CASE c = Clause
    <3>1. j # k /\ j = 3 - k
      BY <1>3, <2>1
    <3>2. QED
      BY <1>3, <1>7, <2>1, <3>1
  <2>2. CASE c # Clause
    BY <1>7, <2>2 DEF Live
  <2>3. QED
    BY <2>1, <2>2
<1>14. TrailInv' /\ ReasonInv' /\ UnitInv' /\ LockedInv' /\ Sound' /\ FactsInv' /\ Sure' \subseteq Sure /\ Live' = Live
  <2>1. Sure' \subseteq Sure
    <3>1. Models' = Models
      BY <1>0 DEF Models, Given
    <3>2. QED
      BY <3>1, Unsure
  <2>2. TrailInv' /\ ReasonInv' /\ LockedInv'
    BY <1>0, <1>2 DEF TrailInv, ReasonInv, LockedInv
  <2>3. UnitInv' /\ Sound'
    BY <1>0, <1>2, <2>1 DEF UnitInv, Sound, InUse
  <2>4. FactsInv'
    BY <1>0, <1>2, <2>1 DEF FactsInv, FactsOf, Differ
  <2>5. Live' = Live
    BY <1>0 DEF Live, Long
  <2>6. QED
    BY <2>1, <2>2, <2>3, <2>4, <2>5
<1>15. ClauseInv'
  <2> SUFFICES ASSUME NEW c \in 1 .. Len(db)
               PROVE  /\ db[c].lits # <<>> /\ Distinct(db[c].lits)
                      /\ Long(c) => /\ Len(watch'[c]) = 2
                                    /\ watch'[c][1] \in ToSet(db[c].lits) /\ watch'[c][2] \in ToSet(db[c].lits)
                                    /\ VarOf(watch'[c][1]) # VarOf(watch'[c][2])
    BY <1>0 DEF ClauseInv, Long
  <2>1. CASE c # Clause
    BY <1>2, <1>7, <2>1 DEF ClauseInv
  <2>2. CASE c = Clause
    <3>1. db[c].lits # <<>> /\ Distinct(db[c].lits)
      BY <1>2 DEF ClauseInv
    <3>2. k = 1 \/ k = 2
      BY <1>3
    <3>3. QED
      BY <1>3, <1>5, <1>7, <2>2, <3>1, <3>2
  <2>3. QED
    BY <2>1, <2>2
<1>16. SatTypeOK'
  <2>1. satisfied' \subseteq 1 .. Len(db)
    BY <1>0, <1>2, <1>3 DEF SatTypeOK
  <2>2. watchList' \in [Vars -> Seq(Watchers)]
    BY <1>9, <1>11
  <2>3. QED
    BY <1>0, <1>2, <1>8, <2>1, <2>2 DEF SatTypeOK
<1>17. WatchInv'
  <2>1. \A x \in Vars : ToSet(watchList'[x]) \subseteq Live \X {1, 2}
    BY <1>2, <1>10, <1>11 DEF WatchInv
  <2>2. \A c \in Live : \A j \in {1, 2} : <<c, j>> \in ToSet(watchList'[VarOf(watch'[c][j])])
    <3> SUFFICES ASSUME NEW c \in Live, NEW j \in {1, 2} PROVE <<c, j>> \in ToSet(watchList'[VarOf(watch'[c][j])])
      OBVIOUS
    <3>1. CASE <<c, j>> = <<Clause, k>>
      BY <1>3, <1>7, <1>12, <3>1
    <3>2. CASE <<c, j>> # <<Clause, k>>
      <4>1. watch'[c][j] = watch[c][j] /\ <<c, j>> \in ToSet(watchList[VarOf(watch[c][j])])
        BY <1>2, <1>13, <3>2 DEF WatchInv
      <4>2. VarOf(watch[c][j]) \in Vars /\ <<c, j>> # Visited
        BY <1>2, <1>3, <3>2, WatchedLits
      <4>3. QED
        BY <1>11, <4>1, <4>2
    <3>3. QED
      BY <3>1, <3>2
  <2>3. QED
    BY <1>0, <1>2, <1>14, <2>1, <2>2 DEF WatchInv
<1>18. FlagInv'
  <2> SUFFICES ASSUME NEW c \in Live, c \in satisfied'
               PROVE  TrueIn(value, watch'[c][1]) \/ TrueIn(value, watch'[c][2])
    BY <1>0, <1>14 DEF FlagInv
  <2>1. CASE c # Clause
    <3>1. c \in satisfied /\ watch'[c] = watch[c]
      BY <1>0, <1>7, <2>1 DEF Live
    <3>2. QED
      BY <1>2, <3>1 DEF FlagInv
  <2>2. CASE c = Clause
    <3>1. c \notin satisfied
      BY <1>0, <2>2 DEF NeedsWatch
    <3>2. TrueIn(value, l)
      BY <1>0, <3>1, Tests
    <3>3. QED
      BY <1>3, <1>7, <2>2, <3>2
  <2>3. QED
    BY <2>1, <2>2
<1>19. WatchersInv'
  <2> SUFFICES ASSUME NEW c \in Live, NEW j \in {1, 2}, db[c].list \notin TheoryLists, FalseIn(value, watch'[c][j])
               PROVE  Backed(c, j)' \/ Pending(<<c, j>>)'
    BY <1>0, <1>14 DEF WatchersInv
  <2>1. <<c, j>> # <<Clause, k>>
    BY <1>5, <1>7
  <2>2. watch'[c][j] = watch[c][j]
    BY <1>13, <2>1
  <2>3. Backed(c, j) \/ Pending(<<c, j>>)
    BY <1>0, <1>2, <2>2 DEF WatchersInv
  <2>4. Pending(<<c, j>>) => Pending(<<c, j>>)'
    BY <1>0, <2>2 DEF Pending, Ahead
  <2>5. CASE c # Clause
    BY <1>0, <1>7, <2>3, <2>4, <2>5 DEF Backed, Live
  <2>6. CASE c = Clause
    <3>1. 3 - j = k
      BY <1>3, <2>1, <2>6
    <3>2. ~TrueIn(value, Watched)
      BY <1>3 DEF TrueIn, FalseIn
    <3>3. ~Backed(c, j)
      BY <1>3, <2>6, <3>1, <3>2 DEF Backed
    <3>4. QED
      BY <2>3, <2>4, <3>3
  <2>7. QED
    BY <2>5, <2>6
<1>20. VisitInv' /\ AddingInv' /\ AtRest' /\ AnalysisInv' /\ AnswerInv'
  BY <1>0, <1>2, SMTT(30) DEF VisitInv, AddingInv, AtRest, AnalysisInv, AnswerInv
<1>l. ListInv'
  <2>1. ListInv /\ visit' = visit /\ \A x \in Vars : ToSet(watchList[x]) \subseteq Live \X {1, 2}
    BY <1>0, <1>2 DEF SatInv, WatchInv
  <2>2. ASSUME NEW x \in Vars, NEW w \in ToSet(watchList'[x]) PROVE VarOf(watch'[w[1]][w[2]]) = x
    <3>1. CASE w = Visited
      <4>1. w[1] = Clause /\ w[2] = k
        BY <1>3, <3>1
      <4>2. x # VarOf(l) => w \in ToSet(watchList[x])
        <5>1. watchList[x] \in Seq(Watchers)
          BY <1>t
        <5>2. CASE x = v
          <6>1. ToSet(Only(watchList[x], ToSet(watchList[x]) \ {Visited})) \subseteq ToSet(watchList[x])
            BY <5>1, OnlyIs
          <6>2. QED
            BY <1>9, <5>2, <6>1
        <5>3. CASE x # v /\ x # VarOf(l)
          BY <1>9, <5>3
        <5>4. QED
          BY <5>2, <5>3
      <4>3. x = v => w \notin ToSet(watchList'[x])
        <5>1. watchList[v] \in Seq(Watchers)
          BY <1>6, <1>t
        <5>2. ToSet(Only(watchList[v], ToSet(watchList[v]) \ {Visited}))
              = ToSet(watchList[v]) \cap (ToSet(watchList[v]) \ {Visited})
          BY <5>1, OnlyIs
        <5>3. QED
          BY <1>9, <3>1, <5>2
      <4>4. x # VarOf(l) => x = v
        <5>1. w \in ToSet(watchList[x]) => VarOf(watch[w[1]][w[2]]) = x
          BY <2>1 DEF ListInv
        <5>2. QED
          BY <1>3, <4>1, <4>2, <5>1 DEF v
      <4>5. x = VarOf(l)
        BY <2>2, <4>3, <4>4
      <4>6. QED
        BY <1>7, <4>1, <4>5
    <3>2. CASE w # Visited
      <4>1. w \in ToSet(watchList[x])
        BY <1>11, <2>2, <3>2
      <4>2. VarOf(watch[w[1]][w[2]]) = x /\ w \in Live \X {1, 2}
        BY <2>1, <4>1 DEF ListInv
      <4>3. watch'[w[1]][w[2]] = watch[w[1]][w[2]]
        <5>1. w = <<w[1], w[2]>> /\ w[1] \in Live /\ w[2] \in {1, 2}
          BY <4>2
        <5>2. <<w[1], w[2]>> # <<Clause, k>>
          BY <1>3, <3>2, <5>1, SMTT(30)
        <5>3. QED
          BY <1>13, <5>1, <5>2
      <4>4. QED
        BY <4>2, <4>3
    <3>3. QED
      BY <3>1, <3>2
  <2>3. ASSUME NEW j \in 1 .. Len(visit.list), j >= visit.j,
               FalseIn(value, watch'[visit.list[j][1]][visit.list[j][2]])
        PROVE  level[VarOf(watch'[visit.list[j][1]][visit.list[j][2]])] = Len(levelStart)
    <3> DEFINE w == visit.list[j]
    <3>1. w \in Live \X {1, 2}
      <4>1. visit.list \in Seq(Watchers)
        BY <1>0, VisitedLive DEF NeedsWatch
      <4>2. w \in ToSet(visit.list)
        BY <4>1, ToSetIs
      <4>3. QED
        BY <1>2, <4>2 DEF WatchInv
    <3>2. w = <<w[1], w[2]>> /\ w[1] \in Live /\ w[2] \in {1, 2}
      BY <3>1
    <3>3. <<w[1], w[2]>> # <<Clause, k>>
      BY <1>5, <1>7, <2>3
    <3>4. watch'[w[1]][w[2]] = watch[w[1]][w[2]]
      BY <1>13, <3>2, <3>3, SMTT(30)
    <3>5. FalseIn(value, watch[w[1]][w[2]]) => level[VarOf(watch[w[1]][w[2]])] = Len(levelStart)
      BY <2>1, <2>3 DEF ListInv
    <3>6. QED
      BY <2>3, <3>4, <3>5
  <2>4. QED
    BY <1>0, <2>1, <2>2, <2>3 DEF ListInv
<1>21. QED
  BY <1>14, <1>15, <1>16, <1>17, <1>18, <1>19, <1>20, <1>l DEF SatInv

-----------------------------------------------------------------------------
(* Propagation: values *)

\* A variable that was free has got the value x, and nothing else has changed.
LEMMA SetFree ==
  ASSUME NEW val \in [Vars -> Values], NEW lev \in [Vars -> Nat], NEW v \in Vars, val[v] = "UNASSIGNED",
         NEW x, NEW y
  PROVE  /\ [val EXCEPT ![v] = x][v] = x /\ [lev EXCEPT ![v] = y][v] = y
         /\ \A u \in Vars : u # v => [val EXCEPT ![v] = x][u] = val[u] /\ [lev EXCEPT ![v] = y][u] = lev[u]
         /\ \A l \in Lits : TrueIn(val, l) => VarOf(l) # v /\ TrueIn([val EXCEPT ![v] = x], l)
         /\ \A l \in Lits : FalseIn([val EXCEPT ![v] = x], l) => VarOf(l) = v \/ FalseIn(val, l)
<1> DEFINE val1 == [val EXCEPT ![v] = x]
           lev1 == [lev EXCEPT ![v] = y]
<1>1. val1[v] = x /\ lev1[v] = y /\ \A u \in Vars : u # v => val1[u] = val[u] /\ lev1[u] = lev[u]
  OBVIOUS
<1> HIDE DEF val1, lev1
<1>2. ASSUME NEW l \in Lits, TrueIn(val, l) PROVE VarOf(l) # v /\ TrueIn(val1, l)
  <2>1. VarOf(l) # v
    BY <1>2, LitFacts DEF TrueIn
  <2>2. QED
    BY <1>1, <1>2, <2>1, LitFacts DEF TrueIn
<1>3. ASSUME NEW l \in Lits, FalseIn(val1, l) PROVE VarOf(l) = v \/ FalseIn(val, l)
  BY <1>1, <1>3, LitFacts DEF FalseIn
<1>4. QED
  BY <1>1, <1>2, <1>3 DEF val1, lev1

\* A variable of the trail that propagation has not come to.
LEMMA LaterIsPending ==
  ASSUME NEW c, NEW j, NEW n \in 1 .. Len(decisions'), decisions'[n] = VarOf(watch'[c][j]), n > visit'.i
  PROVE  Pending(<<c, j>>)'
<1>1. Ahead(<<c, j>>, n)'
  BY DEF Ahead
<1>2. QED
  BY <1>1 DEF Pending

\* The last literal that can satisfy the clause is set, and its falsified watchers are ahead.
LEMMA ImplyKeeps == SatInv /\ Imply /\ Remember => SatInv'
<1> SUFFICES ASSUME SatInv, Imply, Remember PROVE SatInv'
  OBVIOUS
<1> DEFINE v == VarOf(Other)
           k == Visited[2]
<1>0. /\ NeedsWatch /\ Visiting /\ Candidates = {} /\ pc = "propagating" /\ pc' = pc /\ value[v] = "UNASSIGNED"
      /\ UNCHANGED <<withTheory, problem, toAdd, db, watch, watchList, locked, levelStart, seen, analysis,
                     decisionCount, pc, answer>>
      /\ value' = [value EXCEPT ![v] = SignOf(Other)]
      /\ level' = [level EXCEPT ![v] = Len(levelStart)]
      /\ reason' = [reason EXCEPT ![v] = Clause]
      /\ decisions' = Append(decisions, v)
      /\ satisfied' = satisfied \union {Clause}
      /\ Advanced
  BY DEF Imply, NeedsWatch, Visiting, formulaVars, IsFree, Advanced
<1>2. TrailInv /\ SatTypeOK /\ VisitInv /\ WatchInv /\ FlagInv /\ WatchersInv /\ ClauseInv /\ AtRest
      /\ ReasonInv /\ UnitInv /\ LockedInv /\ Sound /\ FactsInv
  BY DEF SatInv
<1>3. /\ Clause \in Live /\ Clause \in 1 .. Len(db) /\ k \in {1, 2} /\ Visited = <<Clause, k>>
      /\ Watched \in ToSet(db[Clause].lits) /\ Other \in ToSet(db[Clause].lits)
      /\ Watched \in Lits /\ Other \in Lits /\ VarOf(Watched) # VarOf(Other)
      /\ Watched = watch[Clause][k] /\ Other = watch[Clause][3 - k]
      /\ level[VarOf(Watched)] = Len(levelStart)
  BY <1>0, NeedsWatchIs
<1>4. v \in Vars /\ SignOf(Other) \in Values /\ SignOf(Other) # "UNASSIGNED" /\ VarOf(Watched) \in Vars
  BY <1>3, LitFacts
<1>5. \A l \in ToSet(db[Clause].lits) : IF VarOf(l) = v THEN l = Other ELSE FalseIn(value, l)
  BY <1>0, NoCandidates
<1>6. /\ visit' \in [i : Nat, j : Nat \ {0}, list : Seq(Watchers)]
      /\ visit'.i = visit.i /\ visit'.j = visit.j + 1 /\ visit'.list = visit.list
      /\ \A w, n : Ahead(w, n) /\ ~(w = Visited /\ n = visit.i) => Ahead(w, n)'
  BY <1>0, AdvancedVisit
<1>t. /\ value \in [Vars -> Values] /\ level \in [Vars -> Nat] /\ decisions \in Seq(Vars)
      /\ Len(decisions) \in Nat /\ Len(levelStart) \in Nat /\ Len(levelStart) >= 1
      /\ TrailOf(decisions, levelStart, value, level)
  BY <1>2, TrailShape DEF TrailInv
<1>7. /\ value'[v] = SignOf(Other) /\ level'[v] = Len(levelStart)
      /\ \A u \in Vars : u # v => value'[u] = value[u] /\ level'[u] = level[u]
      /\ \A l \in Lits : TrueIn(value, l) => VarOf(l) # v /\ TrueIn(value', l)
      /\ \A l \in Lits : FalseIn(value', l) => VarOf(l) = v \/ FalseIn(value, l)
  <2> DEFINE x == SignOf(Other)
             y == Len(levelStart)
             u0 == v
  <2>1. value' = [value EXCEPT ![u0] = x] /\ level' = [level EXCEPT ![u0] = y] /\ u0 \in Vars /\ value[u0] = "UNASSIGNED"
    BY <1>0, <1>4
  <2> HIDE DEF x, y, u0
  <2>2. QED
    <3>1. /\ value'[u0] = x /\ level'[u0] = y
          /\ \A u \in Vars : u # u0 => value'[u] = value[u] /\ level'[u] = level[u]
          /\ \A l \in Lits : TrueIn(value, l) => VarOf(l) # u0 /\ TrueIn(value', l)
          /\ \A l \in Lits : FalseIn(value', l) => VarOf(l) = u0 \/ FalseIn(value, l)
      BY <1>t, <2>1, SetFree
    <3>2. QED
      BY <3>1 DEF x, y, u0
<1>8. TrueIn(value', Other)
  BY <1>7 DEF TrueIn
<1>9. Len(decisions') = Len(decisions) + 1 /\ decisions'[Len(decisions) + 1] = v
      /\ \A n \in 1 .. Len(decisions) : decisions'[n] = decisions[n]
  BY <1>0, <1>4, <1>t, OneMore
<1> HIDE DEF v, k
<1>10. TrailInv'
  BY <1>0, <1>4, <1>t, TrailExtended DEF TrailInv
<1>11. ReasonInv'
  <2>1. \A l \in ToSet(db[Clause].lits) : IF VarOf(l) = v THEN SignOf(l) = SignOf(Other) ELSE FalseIn(value, l)
    BY <1>5
  <2>2. Clause \in {0} \cup DOMAIN db /\ db \in Seq(ClauseRecords) /\ reason \in [Vars -> Nat] /\ Clause # 0
    <3>1. db \in Seq(ClauseRecords) /\ DOMAIN db = 1 .. Len(db) /\ Len(db) \in Nat
      BY <1>2, SeenTypes
    <3>2. reason \in [Vars -> Nat]
      BY <1>2 DEF SatTypeOK
    <3>3. QED
      BY <1>3, <3>1, <3>2
  <2>3. ReasonsOf(decisions, levelStart, value, level, reason, db)
    BY <1>2 DEF ReasonInv
  <2> DEFINE x == SignOf(Other)
             c == Clause
  <2>4. c # 0 => \A l \in ToSet(db[c].lits) : IF VarOf(l) = v THEN SignOf(l) = x ELSE FalseIn(value, l)
    BY <2>1
  <2>5. c \in {0} \cup DOMAIN db /\ x \in Values /\ x # "UNASSIGNED" /\ v \in Vars /\ value[v] = "UNASSIGNED"
        /\ (c = 0 => Len(levelStart) = 1 \/ levelStart[Len(levelStart)] = Len(decisions))
    BY <1>0, <1>4, <2>2
  <2>6. /\ decisions' = Append(decisions, v) /\ levelStart' = levelStart /\ value' = [value EXCEPT ![v] = x]
        /\ level' = [level EXCEPT ![v] = Len(levelStart)] /\ reason' = [reason EXCEPT ![v] = c] /\ db' = db
    BY <1>0
  <2> HIDE DEF x, c
  <2>7. ReasonsOf(Append(decisions, v), levelStart, [value EXCEPT ![v] = x], [level EXCEPT ![v] = Len(levelStart)],
                  [reason EXCEPT ![v] = c], db)
    BY <1>t, <2>2, <2>3, <2>4, <2>5, ReasonsExtended
  <2>8. QED
    BY <2>6, <2>7, Zenon DEF ReasonInv
<1>12. Sure' \subseteq Sure /\ Live' = Live /\ Sound' /\ ClauseInv' /\ LockedInv'
  <2>1. Sure' \subseteq Sure
    <3>1. Models' = Models
      BY <1>0 DEF Models, Given
    <3>2. QED
      BY <3>1, Unsure
  <2>2. InUse(Clause)
    BY <1>3 DEF Live, InUse
  <2>3. \A c : InUse(c)' => InUse(c)
    <3> SUFFICES ASSUME NEW c, InUse(c)' PROVE InUse(c)
      OBVIOUS
    <3>1. CASE db[c].list # "dropped"
      BY <3>1 DEF InUse
    <3>2. CASE db[c].list = "dropped"
      <4>1. PICK u \in Vars : value'[u] # "UNASSIGNED" /\ reason'[u] = c
        BY <1>0, <3>2 DEF InUse
      <4>2. reason'[u] = (IF u = v THEN Clause ELSE reason[u]) /\ (u # v => value'[u] = value[u])
        BY <1>0, <1>2, <1>4, <1>t, TrailShape DEF SatTypeOK
      <4>3. QED
        BY <2>2, <4>1, <4>2 DEF InUse
    <3>3. QED
      BY <3>1, <3>2
  <2>4. Sound'
    BY <1>0, <1>2, <2>1, <2>3 DEF Sound
  <2>5. Live' = Live /\ ClauseInv'
    BY <1>0, <1>2 DEF Live, Long, ClauseInv
  <2>6. LockedInv'
    BY <1>0, <1>2, <1>4, <1>7, LockedStay DEF SatTypeOK
  <2>7. QED
    BY <2>1, <2>4, <2>5, <2>6
<1>13. UnitInv'
  <2> SUFFICES ASSUME NEW c \in 1 .. Len(db), Len(db[c].lits) = 1, db[c].list # "dropped"
               PROVE  TrueIn(value', db[c].lits[1]) /\ level'[VarOf(db[c].lits[1])] = 1
    BY <1>0 DEF UnitInv
  <2> DEFINE l == db[c].lits[1]
  <2>1. TrueIn(value, l) /\ level[VarOf(l)] = 1
    BY <1>2 DEF UnitInv
  <2>2. l \in Lits
    BY <1>2, SeenTypes
  <2>3. QED
    BY <1>7, <2>1, <2>2, LitFacts
\* At level 1 the clause leaves no other choice.
<1>14. FactsInv'
  <2> SUFFICES ASSUME NEW u \in Vars, value'[u] # "UNASSIGNED", level'[u] = 1, NEW a \in Sure
               PROVE  ~Differ(value', a, u)
    BY <1>12 DEF FactsInv, FactsOf
  <2>1. CASE u # v
    <3>1. ~Differ(value, a, u)
      BY <1>2, <1>7, <2>1 DEF FactsInv, FactsOf
    <3>2. QED
      BY <1>7, <2>1, <3>1 DEF Differ
  <2>2. CASE u = v
    <3>1. Len(levelStart) = 1
      BY <1>7, <2>2
    <3>2. a \in Assignments /\ Satisfies(a, db[Clause].lits)
      BY <1>2, <1>3 DEF Sure, Models, Sound, InUse, Live
    <3>3. PICK l \in ToSet(db[Clause].lits) : Holds(l, a)
      BY <3>2 DEF Satisfies
    <3>4. l \in Lits /\ VarOf(l) \in Vars
      BY <1>2, <1>3, SeenTypes, LitFacts
    <3>5. CASE VarOf(l) = v
      <4>1. l = Other /\ TrueIn(value', l)
        BY <1>5, <1>8, <3>5
      <4>2. value' \in [Vars -> Values]
        BY <1>10, TrailShape DEF TrailInv
      <4>3. QED
        BY <2>2, <3>2, <3>3, <3>4, <3>5, <4>1, <4>2, LitValue
    <3>6. CASE VarOf(l) # v
      <4>1. FalseIn(value, l) /\ value[VarOf(l)] # "UNASSIGNED"
        BY <1>5, <3>6 DEF FalseIn
      <4>2. level[VarOf(l)] = 1
        BY <3>1, <3>4, <4>1, LevelBound
      <4>3. ~Differ(value, a, VarOf(l))
        BY <1>2, <3>4, <4>1, <4>2 DEF FactsInv, FactsOf
      <4>4. QED
        BY <1>t, <3>2, <3>3, <3>4, <4>1, <4>3, LitValue
    <3>7. QED
      BY <3>5, <3>6
  <2>3. QED
    BY <2>1, <2>2
<1>15. SatTypeOK'
  <2>1. reason' \in [Vars -> Nat] /\ satisfied' \subseteq 1 .. Len(db)
    <3>1. reason \in [Vars -> Nat] /\ satisfied \subseteq 1 .. Len(db)
      BY <1>2 DEF SatTypeOK
    <3>2. Clause \in Nat
      BY <1>3
    <3>3. QED
      BY <1>0, <1>3, <1>4, <3>1, <3>2
  <2>2. QED
    BY <1>0, <1>2, <1>6, <2>1 DEF SatTypeOK
<1>16. WatchInv'
  BY <1>0, <1>2, <1>6, <1>12 DEF WatchInv
<1>17. FlagInv'
  <2> SUFFICES ASSUME NEW c \in Live, c \in satisfied'
               PROVE  TrueIn(value', watch[c][1]) \/ TrueIn(value', watch[c][2])
    BY <1>0, <1>12 DEF FlagInv
  <2>0. 1 \in {1, 2} /\ 2 \in {1, 2}
    OBVIOUS
  <2>1. watch[c][1] \in Lits /\ watch[c][2] \in Lits
    BY <1>2, <2>0, WatchedLits
  <2>2. CASE c \in satisfied
    <3>1. TrueIn(value, watch[c][1]) \/ TrueIn(value, watch[c][2])
      BY <1>2, <2>2 DEF FlagInv
    <3>2. QED
      BY <1>7, <2>1, <3>1
  <2>3. CASE c \notin satisfied
    BY <1>0, <1>3, <1>8, <2>3
  <2>4. QED
    BY <2>2, <2>3
<1>18. WatchersInv'
  <2> SUFFICES ASSUME NEW c \in Live, NEW j \in {1, 2}, db[c].list \notin TheoryLists, FalseIn(value', watch[c][j])
               PROVE  Backed(c, j)' \/ Pending(<<c, j>>)'
    BY <1>0, <1>12 DEF WatchersInv
  <2>1. /\ watch[c][j] \in Lits /\ VarOf(watch[c][j]) \in Vars /\ watch[c][3 - j] \in Lits
        /\ VarOf(watch[c][3 - j]) \in Vars
    <3>1. 3 - j \in {1, 2}
      OBVIOUS
    <3>2. QED
      BY <1>2, <3>1, WatchedLits
  <2>2. CASE VarOf(watch[c][j]) = v
    <3>1. Len(decisions) + 1 \in 1 .. Len(decisions') /\ Len(decisions) + 1 > visit'.i
      BY <1>2, <1>6, <1>9, <1>t DEF VisitInv
    <3>2. decisions'[Len(decisions) + 1] = VarOf(watch'[c][j])
      BY <1>0, <1>9, <2>2
    <3>3. QED
      BY <3>1, <3>2, LaterIsPending
  <2>3. CASE VarOf(watch[c][j]) # v
    <3>1. FalseIn(value, watch[c][j])
      BY <1>7, <2>1, <2>3
    <3>2. Backed(c, j) \/ Pending(<<c, j>>)
      BY <1>0, <1>2, <3>1 DEF WatchersInv
    <3>3. CASE Backed(c, j)
      <4>1. TrueIn(value, watch[c][3 - j]) /\ level[VarOf(watch[c][3 - j])] <= level[VarOf(watch[c][j])]
        BY <3>3 DEF Backed
      <4>2. TrueIn(value', watch[c][3 - j]) /\ VarOf(watch[c][3 - j]) # v
        BY <1>7, <2>1, <4>1
      <4>3. level'[VarOf(watch[c][3 - j])] <= level'[VarOf(watch[c][j])]
        BY <1>7, <2>1, <2>3, <4>1, <4>2
      <4>4. QED
        BY <1>0, <4>2, <4>3 DEF Backed
    <3>4. CASE Pending(<<c, j>>) /\ <<c, j>> # Visited
      <4>1. PICK n \in 1 .. Len(decisions) : decisions[n] = VarOf(watch[c][j]) /\ Ahead(<<c, j>>, n)
        BY <3>4 DEF Pending
      <4>2. n \in 1 .. Len(decisions') /\ decisions'[n] = VarOf(watch[c][j]) /\ Ahead(<<c, j>>, n)'
        BY <1>6, <1>9, <1>t, <3>4, <4>1
      <4>3. QED
        BY <1>0, <4>2 DEF Pending
    <3>5. CASE <<c, j>> = Visited
      <4>1. c = Clause /\ j = k
        BY <1>3, <3>5
      <4>2. watch[c][3 - j] = Other /\ watch[c][j] = Watched
        BY <1>3, <4>1
      <4>3. level'[VarOf(Other)] = Len(levelStart) /\ level'[VarOf(Watched)] = Len(levelStart)
        BY <1>3, <1>4, <1>7 DEF v
      <4>4. Backed(c, j)'
        BY <1>0, <1>8, <1>t, <4>2, <4>3 DEF Backed
      <4>5. QED
        BY <4>4
    <3>6. QED
      BY <3>2, <3>3, <3>4, <3>5
  <2>4. QED
    BY <2>2, <2>3
<1>19. VisitInv'
  <2> DEFINE top == Last(levelStart)
  <2>1. top \in Nat /\ top <= Len(decisions) /\ visit.i \in Nat
    <3>1. Len(levelStart) \in 1 .. Len(levelStart) /\ top = levelStart[Len(levelStart)]
      BY <1>t DEF Last
    <3>2. visit.i \in Nat
      BY <1>2 DEF SatTypeOK
    <3>3. QED
      BY <1>t, <3>1, <3>2, TrailShape
  <2>2. /\ visit.i <= Len(decisions) /\ Last(levelStart') = top /\ Len(levelStart') = Len(levelStart)
        /\ Len(levelStart) > 1 => visit.i >= top /\ (visit.i = top => visit.list = <<>>)
    BY <1>0, <1>2 DEF VisitInv
  <2> HIDE DEF top
  <2>3. visit.i <= Len(decisions') /\ top < Len(decisions')
    BY <1>9, <1>t, <2>1, <2>2
  <2>4. pc' \notin {"deciding", "theory", "probing"}
    BY <1>0
  <2>5. QED
    BY <1>6, <2>2, <2>3, <2>4 DEF VisitInv
<1>20. AddingInv' /\ AtRest' /\ AnalysisInv' /\ AnswerInv'
  BY <1>0, <1>2, SMTT(30) DEF AddingInv, AtRest, AnalysisInv, AnswerInv
<1>l. ListInv'
  <2>1. ListInv /\ \A x \in Vars : ToSet(watchList[x]) \subseteq Live \X {1, 2}
    BY <1>2 DEF SatInv, WatchInv
  <2>2. ASSUME NEW j \in 1 .. Len(visit.list), j >= visit.j + 1,
               FalseIn(value', watch[visit.list[j][1]][visit.list[j][2]])
        PROVE  level'[VarOf(watch[visit.list[j][1]][visit.list[j][2]])] = Len(levelStart)
    <3> DEFINE w == visit.list[j]
    <3>1. w \in Live \X {1, 2} /\ visit.j \in Nat /\ j >= visit.j
      <4>1. visit.list \in Seq(Watchers) /\ visit.j \in Nat
        BY <1>0, VisitedLive DEF NeedsWatch
      <4>2. w \in ToSet(visit.list)
        BY <4>1, ToSetIs
      <4>3. QED
        BY <1>2, <2>2, <4>1, <4>2 DEF WatchInv
    <3>2. w = <<w[1], w[2]>> /\ w[1] \in Live /\ w[2] \in {1, 2}
      BY <3>1
    <3> DEFINE l == watch[w[1]][w[2]]
    <3>3. l \in Lits /\ VarOf(l) \in Vars
      BY <1>2, <3>2, WatchedLits
    <3>4. CASE VarOf(l) = v
      BY <1>7, <3>4
    <3>5. CASE VarOf(l) # v
      <4>1. FalseIn(value, l)
        BY <1>7, <2>2, <3>3, <3>5, SMTT(30)
      <4>2. level[VarOf(l)] = Len(levelStart)
        BY <2>1, <3>1, <4>1 DEF ListInv
      <4>3. QED
        BY <1>7, <3>3, <3>5, <4>2
    <3>6. QED
      BY <3>4, <3>5
  <2>3. QED
    BY <1>0, <1>6, <2>1, <2>2 DEF ListInv
<1>21. QED
  BY <1>10, <1>11, <1>12, <1>13, <1>14, <1>15, <1>16, <1>17, <1>18, <1>19, <1>20, <1>l DEF SatInv

-----------------------------------------------------------------------------
(* Clauses that join the lists *)

\* One more clause, whatever it is.
LEMMA MoreClauses ==
  ASSUME SatTypeOK, NEW r \in ClauseRecords, NEW w \in Seq(Lits), db' = Append(db, r), watch' = Append(watch, w)
  PROVE  /\ db' \in Seq(ClauseRecords) /\ watch' \in Seq(Seq(Lits)) /\ Len(watch') = Len(db')
         /\ Len(db') = Len(db) + 1 /\ Len(db) \in Nat
         /\ \A c \in 1 .. Len(db) : db'[c] = db[c] /\ watch'[c] = watch[c] /\ (c \in Live' <=> c \in Live)
         /\ db'[Len(db) + 1] = r /\ watch'[Len(db) + 1] = w
         /\ \A c \in 1 .. Len(db') : c \in 1 .. Len(db) \/ c = Len(db) + 1
         /\ Models' \subseteq Models
         /\ r.list \in {"satClauses", "facts"} => Models' = Models
         /\ r.list \notin {"satClauses", "facts", "dropped"} => \A a \in Models' : Satisfies(a, r.lits)
<1>1. /\ db \in Seq(ClauseRecords) /\ watch \in Seq(Seq(Lits)) /\ Len(watch) = Len(db) /\ Len(db) \in Nat
      /\ DOMAIN db = 1 .. Len(db)
  BY SeenTypes DEF SatTypeOK
<1>2. /\ db' \in Seq(ClauseRecords) /\ Len(db') = Len(db) + 1 /\ db'[Len(db) + 1] = r
      /\ \A c \in 1 .. Len(db) : db'[c] = db[c]
  BY <1>1, OneMore
<1>3. /\ watch' \in Seq(Seq(Lits)) /\ Len(watch') = Len(db) + 1 /\ watch'[Len(db) + 1] = w
      /\ \A c \in 1 .. Len(db) : watch'[c] = watch[c]
  BY <1>1, OneMore
<1>4. \A c \in 1 .. Len(db') : c \in 1 .. Len(db) \/ c = Len(db) + 1
  BY <1>1, <1>2
<1>5. \A c \in 1 .. Len(db) : c \in 1 .. Len(db') /\ (c \in Live' <=> c \in Live)
  BY <1>1, <1>2 DEF Live, Long
<1>6. DOMAIN db' = 1 .. Len(db') /\ Len(db) + 1 \in 1 .. Len(db')
  BY <1>1, <1>2
<1>7. \A c \in Given : c \in Given' /\ db'[c] = db[c]
  BY <1>1, <1>2, <1>5, <1>6 DEF Given
<1>8. Models' \subseteq Models
  BY <1>7 DEF Models
<1>9. ASSUME r.list \in {"satClauses", "facts"} PROVE Models' = Models
  <2>1. \A c \in Given' : c \in Given /\ db'[c] = db[c]
    BY <1>1, <1>2, <1>4, <1>6, <1>9 DEF Given
  <2>2. QED
    BY <1>7, <2>1 DEF Models
<1>10. ASSUME r.list \notin {"satClauses", "facts", "dropped"}, NEW a \in Models' PROVE Satisfies(a, r.lits)
  <2>1. Len(db) + 1 \in Given'
    BY <1>2, <1>6, <1>10 DEF Given
  <2>2. QED
    BY <1>2, <1>10, <2>1 DEF Models
<1>11. QED
  BY <1>1, <1>2, <1>3, <1>4, <1>5, <1>8, <1>9, <1>10

\* A clause that joins a list, with two of its literals watched.
LEMMA Attached ==
  ASSUME SatTypeOK, ClauseInv, WatchInv,
         NEW lits \in Seq(Lits), Distinct(lits), Len(lits) > 1, NEW list \in {"clauses", "satClauses"} \cup TheoryLists,
         NEW a \in 1 .. Len(lits), NEW b \in 1 .. Len(lits), a # b, Attach(lits, list, a, b)
  PROVE  /\ db' = Append(db, [lits |-> lits, list |-> list]) /\ watch' = Append(watch, <<lits[a], lits[b]>>)
         /\ [lits |-> lits, list |-> list] \in ClauseRecords /\ <<lits[a], lits[b]>> \in Seq(Lits)
         /\ watchList' \in [Vars -> Seq(Watchers)]
         /\ Live' = Live \cup {Len(db) + 1}
         /\ ClauseInv'
         /\ \A v \in Vars : ToSet(watchList'[v]) \subseteq Live' \X {1, 2}
         /\ \A c \in Live' : \A k \in {1, 2} : <<c, k>> \in ToSet(watchList'[VarOf(watch'[c][k])])
         /\ (\A v \in Vars : \A w \in ToSet(watchList[v]) : VarOf(watch[w[1]][w[2]]) = v) =>
              \A v \in Vars : \A w \in ToSet(watchList'[v]) : VarOf(watch'[w[1]][w[2]]) = v
<1> DEFINE r == [lits |-> lits, list |-> list]
           w == <<lits[a], lits[b]>>
           d == Len(db) + 1
           Watcher(l, k, v) == IF VarOf(l) = v THEN << <<d, k>> >> ELSE <<>>
<1>1. /\ db' = Append(db, r) /\ watch' = Append(watch, w)
      /\ watchList' = [v \in Vars |-> watchList[v] \o Watcher(lits[a], 1, v) \o Watcher(lits[b], 2, v)]
  BY DEF Attach
<1>2. lits[a] \in Lits /\ lits[b] \in Lits /\ lits[a] \in ToSet(lits) /\ lits[b] \in ToSet(lits)
  BY ToSetIs
<1>3. VarOf(lits[a]) # VarOf(lits[b])
  BY DEF Distinct
<1>4. r \in ClauseRecords /\ w \in Seq(Lits) /\ Len(w) = 2 /\ w[1] = lits[a] /\ w[2] = lits[b]
      /\ r.lits = lits /\ r.list = list
  BY <1>2 DEF ClauseRecords, TheoryLists
<1> HIDE DEF r, w
<1>5. /\ Len(db') = d /\ Len(db) \in Nat
      /\ \A c \in 1 .. Len(db) : db'[c] = db[c] /\ watch'[c] = watch[c] /\ (c \in Live' <=> c \in Live)
      /\ db'[d] = r /\ watch'[d] = w
      /\ \A c \in 1 .. Len(db') : c \in 1 .. Len(db) \/ c = d
  BY <1>1, <1>4, MoreClauses
<1>6. Live' = Live \cup {d} /\ Live \subseteq 1 .. Len(db)
  <2>1. d \in Live'
    BY <1>4, <1>5 DEF Live, Long, TheoryLists
  <2>2. Live \subseteq 1 .. Len(db) /\ Live' \subseteq 1 .. Len(db')
    BY DEF Live
  <2>3. QED
    BY <1>5, <2>1, <2>2
<1>7. ClauseInv'
  <2> SUFFICES ASSUME NEW c \in 1 .. Len(db')
               PROVE  /\ db'[c].lits # <<>> /\ Distinct(db'[c].lits)
                      /\ Long(c)' => /\ Len(watch'[c]) = 2
                                     /\ watch'[c][1] \in ToSet(db'[c].lits) /\ watch'[c][2] \in ToSet(db'[c].lits)
                                     /\ VarOf(watch'[c][1]) # VarOf(watch'[c][2])
    BY DEF ClauseInv
  <2>1. CASE c \in 1 .. Len(db)
    BY <1>5, <2>1 DEF ClauseInv, Long
  <2>2. CASE c = d
    <3>1. db'[c].lits = lits /\ watch'[c][1] = lits[a] /\ watch'[c][2] = lits[b] /\ Len(watch'[c]) = 2
      BY <1>4, <1>5, <2>2
    <3>2. lits # <<>>
      OBVIOUS
    <3>3. QED
      BY <1>2, <1>3, <3>1, <3>2
  <2>3. QED
    BY <1>5, <2>1, <2>2
<1>8. <<d, 1>> \in Watchers /\ <<d, 2>> \in Watchers /\ <<d, 1>> \in Live' \X {1, 2} /\ <<d, 2>> \in Live' \X {1, 2}
  BY <1>5, <1>6 DEF Watchers
<1>9. \A v \in Vars : /\ watchList'[v] \in Seq(Watchers)
                      /\ ToSet(watchList'[v]) \subseteq ToSet(watchList[v]) \cup {<<d, 1>>, <<d, 2>>}
                      /\ ToSet(watchList[v]) \subseteq ToSet(watchList'[v])
                      /\ VarOf(lits[a]) = v => <<d, 1>> \in ToSet(watchList'[v])
                      /\ VarOf(lits[b]) = v => <<d, 2>> \in ToSet(watchList'[v])
                      /\ \A x \in ToSet(watchList'[v]) :
                           x \in ToSet(watchList[v]) \/ (x = <<d, 1>> /\ VarOf(lits[a]) = v)
                             \/ (x = <<d, 2>> /\ VarOf(lits[b]) = v)
  <2> SUFFICES ASSUME NEW v \in Vars
      PROVE  /\ watchList'[v] \in Seq(Watchers)
             /\ ToSet(watchList'[v]) \subseteq ToSet(watchList[v]) \cup {<<d, 1>>, <<d, 2>>}
             /\ ToSet(watchList[v]) \subseteq ToSet(watchList'[v])
             /\ VarOf(lits[a]) = v => <<d, 1>> \in ToSet(watchList'[v])
             /\ VarOf(lits[b]) = v => <<d, 2>> \in ToSet(watchList'[v])
             /\ \A x \in ToSet(watchList'[v]) :
                  x \in ToSet(watchList[v]) \/ (x = <<d, 1>> /\ VarOf(lits[a]) = v) \/ (x = <<d, 2>> /\ VarOf(lits[b]) = v)
    OBVIOUS
  <2> DEFINE o == watchList[v]
             p == Watcher(lits[a], 1, v)
             q == Watcher(lits[b], 2, v)
  <2>1. o \in Seq(Watchers)
    BY SeenTypes
  <2>2. /\ p \in Seq(Watchers) /\ ToSet(p) \subseteq {<<d, 1>>}
        /\ VarOf(lits[a]) = v => <<d, 1>> \in ToSet(p)
        /\ VarOf(lits[a]) # v => ToSet(p) = {}
    <3>1. CASE VarOf(lits[a]) = v
      <4>1. p = << <<d, 1>> >> /\ p \in Seq(Watchers)
        BY <1>8, <3>1
      <4>2. ToSet(<< <<d, 1>> >>) = {<<d, 1>>}
        BY DEF ToSet
      <4>3. QED
        BY <3>1, <4>1, <4>2
    <3>2. CASE VarOf(lits[a]) # v
      <4>1. p = <<>>
        BY <3>2
      <4>2. <<>> \in Seq(Watchers) /\ ToSet(<<>>) = {}
        BY DEF ToSet
      <4>3. QED
        BY <3>2, <4>1, <4>2
    <3>3. QED
      BY <3>1, <3>2
  <2>3. /\ q \in Seq(Watchers) /\ ToSet(q) \subseteq {<<d, 2>>}
        /\ VarOf(lits[b]) = v => <<d, 2>> \in ToSet(q)
        /\ VarOf(lits[b]) # v => ToSet(q) = {}
    <3>1. CASE VarOf(lits[b]) = v
      <4>1. q = << <<d, 2>> >> /\ q \in Seq(Watchers)
        BY <1>8, <3>1
      <4>2. ToSet(<< <<d, 2>> >>) = {<<d, 2>>}
        BY DEF ToSet
      <4>3. QED
        BY <3>1, <4>1, <4>2
    <3>2. CASE VarOf(lits[b]) # v
      <4>1. q = <<>>
        BY <3>2
      <4>2. <<>> \in Seq(Watchers) /\ ToSet(<<>>) = {}
        BY DEF ToSet
      <4>3. QED
        BY <3>2, <4>1, <4>2
    <3>3. QED
      BY <3>1, <3>2
  <2>4. watchList'[v] = (o \o p) \o q
    BY <1>1
  <2> HIDE DEF o, p, q
  <2>5. o \o p \in Seq(Watchers) /\ ToSet(o \o p) = ToSet(o) \cup ToSet(p)
    BY <2>1, <2>2, Glued
  <2> DEFINE op == o \o p
  <2>o. op \in Seq(Watchers)
    BY <2>5
  <2>6. op \o q \in Seq(Watchers) /\ ToSet(op \o q) = ToSet(op) \cup ToSet(q)
    <3> HIDE DEF op
    <3> QED BY <2>o, <2>3, Glued
  <2>7. QED
    BY <2>2, <2>3, <2>4, <2>5, <2>6 DEF o
<1> HIDE DEF d
<1>10. watchList' \in [Vars -> Seq(Watchers)]
  <2>1. watchList' = [v \in Vars |-> watchList'[v]]
    BY <1>1
  <2>2. QED
    BY <1>9, <2>1
<1>11. \A v \in Vars : ToSet(watchList'[v]) \subseteq Live' \X {1, 2}
  <2> SUFFICES ASSUME NEW v \in Vars, NEW x \in ToSet(watchList'[v]) PROVE x \in Live' \X {1, 2}
    OBVIOUS
  <2>1. x \in ToSet(watchList[v]) \/ x = <<d, 1>> \/ x = <<d, 2>>
    BY <1>9
  <2>2. x \in ToSet(watchList[v]) => x \in Live \X {1, 2}
    BY DEF WatchInv
  <2>3. QED
    BY <1>6, <1>8, <2>1, <2>2
<1>12. \A c \in Live' : \A k \in {1, 2} : <<c, k>> \in ToSet(watchList'[VarOf(watch'[c][k])])
  <2> SUFFICES ASSUME NEW c \in Live', NEW k \in {1, 2} PROVE <<c, k>> \in ToSet(watchList'[VarOf(watch'[c][k])])
    OBVIOUS
  <2>1. CASE c \in Live
    <3>1. watch'[c] = watch[c]
      BY <1>5, <1>6, <2>1
    <3>2. <<c, k>> \in ToSet(watchList[VarOf(watch[c][k])]) /\ VarOf(watch[c][k]) \in Vars
      BY <2>1, WatchedLits DEF WatchInv
    <3>3. QED
      BY <1>9, <3>1, <3>2
  <2>2. CASE c = d
    <3>1. watch'[c][1] = lits[a] /\ watch'[c][2] = lits[b] /\ VarOf(lits[a]) \in Vars /\ VarOf(lits[b]) \in Vars
      BY <1>2, <1>4, <1>5, <2>2, LitFacts
    <3>2. <<d, 1>> \in ToSet(watchList'[VarOf(lits[a])]) /\ <<d, 2>> \in ToSet(watchList'[VarOf(lits[b])])
      BY <1>9, <3>1
    <3>3. QED
      BY <2>2, <3>1, <3>2
  <2>3. QED
    BY <1>6, <2>1, <2>2
<1>14. ASSUME \A v \in Vars : \A x \in ToSet(watchList[v]) : VarOf(watch[x[1]][x[2]]) = v,
              NEW v \in Vars, NEW x \in ToSet(watchList'[v])
       PROVE  VarOf(watch'[x[1]][x[2]]) = v
  <2>1. CASE x \in ToSet(watchList[v])
    <3>1. x[1] \in Live
      BY <2>1 DEF WatchInv
    <3>2. watch'[x[1]] = watch[x[1]]
      BY <1>5, <1>6, <3>1
    <3>3. QED
      BY <1>14, <2>1, <3>2
  <2>2. CASE x = <<d, 1>> /\ VarOf(lits[a]) = v
    <3>1. watch'[x[1]][x[2]] = lits[a]
      BY <1>4, <1>5, <2>2
    <3>2. QED
      BY <2>2, <3>1
  <2>3. CASE x = <<d, 2>> /\ VarOf(lits[b]) = v
    <3>1. watch'[x[1]][x[2]] = lits[b]
      BY <1>4, <1>5, <2>3
    <3>2. QED
      BY <2>3, <3>1
  <2>4. QED
    BY <1>9, <2>1, <2>2, <2>3
<1>13. QED
  BY <1>1, <1>4, <1>6, <1>7, <1>10, <1>11, <1>12, <1>14 DEF r, w, d

\* A clause of one literal, which has no watchers.
LEMMA UnitAttached ==
  ASSUME SatTypeOK, ClauseInv, WatchInv,
         NEW lits \in Seq(Lits), Len(lits) = 1, NEW list \in {"clauses", "facts"} \cup TheoryLists, AttachUnit(lits, list)
  PROVE  /\ db' = Append(db, [lits |-> lits, list |-> list]) /\ watch' = Append(watch, <<>>)
         /\ watchList' = watchList
         /\ [lits |-> lits, list |-> list] \in ClauseRecords /\ <<>> \in Seq(Lits)
         /\ Live' = Live
         /\ ClauseInv'
<1> DEFINE r == [lits |-> lits, list |-> list]
           d == Len(db) + 1
<1>1. db' = Append(db, r) /\ watch' = Append(watch, <<>>) /\ watchList' = watchList
  BY DEF AttachUnit
<1>2. r \in ClauseRecords /\ <<>> \in Seq(Lits) /\ r.lits = lits /\ r.list = list
  BY DEF ClauseRecords, TheoryLists
<1> HIDE DEF r
<1>3. /\ Len(db') = d /\ Len(db) \in Nat
      /\ \A c \in 1 .. Len(db) : db'[c] = db[c] /\ watch'[c] = watch[c] /\ (c \in Live' <=> c \in Live)
      /\ db'[d] = r
      /\ \A c \in 1 .. Len(db') : c \in 1 .. Len(db) \/ c = d
  <2> DEFINE w == <<>>
  <2>1. w \in Seq(Lits) /\ watch' = Append(watch, w)
    BY <1>1, <1>2
  <2> HIDE DEF w
  <2>2. QED
    BY <1>1, <1>2, <2>1, MoreClauses
<1>4. ~(Len(db'[d].lits) > 1)
  <2>1. db'[d].lits = lits
    BY <1>2, <1>3, Zenon
  <2>2. ~(1 > 1)
    OBVIOUS
  <2>3. QED
    BY <2>1, <2>2, Zenon
<1>5. Live' = Live
  <2>1. Live \subseteq 1 .. Len(db) /\ Live' \subseteq 1 .. Len(db') /\ d \notin Live'
    BY <1>4 DEF Live, Long
  <2>2. QED
    BY <1>3, <2>1
<1>6. Distinct(lits) /\ lits # <<>>
  <2>1. DOMAIN lits = 1 .. 1
    OBVIOUS
  <2>2. QED
    BY <2>1 DEF Distinct
<1>7. ClauseInv'
  <2> SUFFICES ASSUME NEW c \in 1 .. Len(db')
               PROVE  /\ db'[c].lits # <<>> /\ Distinct(db'[c].lits)
                      /\ Long(c)' => /\ Len(watch'[c]) = 2
                                     /\ watch'[c][1] \in ToSet(db'[c].lits) /\ watch'[c][2] \in ToSet(db'[c].lits)
                                     /\ VarOf(watch'[c][1]) # VarOf(watch'[c][2])
    BY DEF ClauseInv
  <2>1. CASE c \in 1 .. Len(db)
    BY <1>3, <2>1 DEF ClauseInv, Long
  <2>2. CASE c = d
    BY <1>2, <1>3, <1>4, <1>6, <2>2 DEF Long
  <2>3. QED
    BY <1>3, <2>1, <2>2
<1>8. QED
  BY <1>1, <1>2, <1>5, <1>7 DEF r

-----------------------------------------------------------------------------
(* Adding the formula *)

\* A trail of one level.
LEMMA OneLevelTrail ==
  ASSUME NEW D \in Seq(Vars), NEW val \in [Vars -> Values], NEW lev \in [Vars -> Nat], \A v \in Vars : lev[v] = 1,
         NEW m \in Nat, m <= Len(D),
         \A v \in Vars : val[v] # "UNASSIGNED" <=> \E n \in 1 .. Len(D) : D[n] = v
  PROVE  TrailOf(D, <<m>>, val, lev)
<1> DEFINE LS == <<m>>
<1>1. LS \in Seq(Nat) /\ Len(LS) = 1 /\ LS[1] = m
  OBVIOUS
<1> HIDE DEF LS
<1>2. \A n \in 1 .. Len(D) : lev[D[n]] = 1
  OBVIOUS
<1>3. Len(LS) >= 1 /\ LS[Len(LS)] <= Len(D)
  BY <1>1
<1>4. \A i, n \in 1 .. Len(D) : i < n /\ D[i] = D[n] => lev[D[n]] = 1
  BY <1>2
<1>5. \A i, n \in 1 .. Len(LS) : i < n => LS[i] <= LS[n] /\ (i >= 2 => LS[i] < LS[n])
  BY <1>1
<1>6. \A n \in 1 .. Len(D) :
       /\ lev[D[n]] \in 1 .. Len(LS)
       /\ lev[D[n]] >= 2 => LS[lev[D[n]]] < n
       /\ lev[D[n]] < Len(LS) => n <= LS[lev[D[n]] + 1]
  BY <1>1, <1>2
<1>7. TrailOf(D, LS, val, lev)
  BY <1>1, <1>3, <1>4, <1>5, <1>6, Zenon DEF TrailOf
<1>8. QED
  BY <1>7 DEF LS

\* Without decisions there is nothing to explain.
LEMMA NoReasons ==
  ASSUME NEW D, NEW LS, NEW val, NEW lev, NEW rs, NEW base, \A n \in 1 .. Len(D) : D[n] \in Vars,
         \A v \in Vars : lev[v] = 1 /\ rs[v] = 0
  PROVE  ReasonsOf(D, LS, val, lev, rs, base)
<1>1. \A n \in 1 .. Len(D) : rs[D[n]] = 0 /\ lev[D[n]] = 1
  OBVIOUS
<1>2. QED
  BY <1>1 DEF ReasonsOf, Because

\* A clause of the formula is added, set, or refused.
LEMMA AddBasicClauseKeeps == SatInv /\ AddBasicClause /\ Remember => SatInv'
<1> SUFFICES ASSUME SatInv, AddBasicClause, Remember PROVE SatInv'
  OBVIOUS
<1> DEFINE lits == Head(toAdd)
           l == lits[1]
           v == VarOf(l)
<1>0. /\ pc = "adding" /\ toAdd # <<>> /\ toAdd' = Tail(toAdd)
      /\ UNCHANGED <<problem, withTheory, visit, seen, analysis, decisionCount, pc, answer>>
  BY DEF AddBasicClause, searchVars
<1>2. TrailInv /\ SatTypeOK /\ VisitInv /\ WatchInv /\ ListInv /\ FlagInv /\ WatchersInv /\ ClauseInv /\ AtRest
      /\ ReasonInv /\ UnitInv /\ LockedInv /\ Sound /\ FactsInv /\ AddingInv
  BY DEF SatInv
<1>3. /\ levelStart = <<0>> /\ satisfied = {} /\ visit.i = 0 /\ visit.list = <<>>
      /\ \A u \in Vars : level[u] = 1 /\ reason[u] = 0
      /\ \A c \in 1 .. Len(db) : db[c].list = "clauses"
  BY <1>0, <1>2 DEF AddingInv
<1>t. /\ value \in [Vars -> Values] /\ level \in [Vars -> Nat] /\ decisions \in Seq(Vars) /\ Len(decisions) \in Nat
      /\ \A u \in Vars : value[u] # "UNASSIGNED" <=> \E n \in 1 .. Len(decisions) : decisions[n] = u
      /\ \A n \in 1 .. Len(decisions) : decisions[n] \in Vars
  <2>1. TrailOf(decisions, levelStart, value, level)
    BY <1>2 DEF TrailInv
  <2>2. QED
    BY <2>1, TrailShape, TrailHas
<1>4. lits \in Seq(Lits) /\ lits # <<>> /\ Distinct(lits) /\ Len(lits) \in Nat /\ Len(lits) >= 1
  <2>1. toAdd \in Seq(Seq(Lits)) /\ \A i \in 1 .. Len(toAdd) : toAdd[i] # <<>> /\ Distinct(toAdd[i])
    BY <1>2 DEF SatTypeOK
  <2>2. Len(toAdd) >= 1 /\ lits = toAdd[1] /\ 1 \in 1 .. Len(toAdd)
    BY <1>0, <2>1, NotEmpty
  <2>3. lits \in Seq(Lits)
    BY <1>0, <2>1, NotEmpty, Zenon
  <2>4. QED
    BY <2>1, <2>2, <2>3, NotEmpty
<1>5. toAdd' \in Seq(Seq(Lits)) /\ \A i \in 1 .. Len(toAdd') : toAdd'[i] # <<>> /\ Distinct(toAdd'[i])
  <2>1. toAdd \in Seq(Seq(Lits)) /\ \A i \in 1 .. Len(toAdd) : toAdd[i] # <<>> /\ Distinct(toAdd[i])
    BY <1>2 DEF SatTypeOK
  <2>2. Tail(toAdd) \in Seq(Seq(Lits))
    BY <1>0, <2>1, NotEmpty, Zenon
  <2>3. \A i \in 1 .. Len(Tail(toAdd)) : Tail(toAdd)[i] = toAdd[i + 1] /\ i + 1 \in 1 .. Len(toAdd)
    BY <1>0, <2>1
  <2>4. QED
    BY <1>0, <2>1, <2>2, <2>3
<1>6. l \in Lits /\ l \in ToSet(lits) /\ v \in Vars /\ SignOf(l) \in Values /\ SignOf(l) # "UNASSIGNED"
  <2>1. 1 \in DOMAIN lits
    BY <1>4
  <2>2. l \in Lits /\ l \in ToSet(lits)
    BY <1>4, <2>1, ToSetIs
  <2>3. QED
    BY <2>2, LitFacts
<1> HIDE DEF lits, l, v
<1>8. WatchersInv' /\ AtRest' /\ AnalysisInv' /\ AnswerInv'
  BY <1>0, <1>2 DEF WatchersInv, AtRest, AnalysisInv, AnswerInv
\* A clause longer than one.
<1>9. CASE Len(lits) > 1 /\ Attach(lits, "clauses", 1, 2) /\ UNCHANGED <<trailVars, satisfied>>
  <2>1. 1 \in 1 .. Len(lits) /\ 2 \in 1 .. Len(lits) /\ 1 # 2
    BY <1>4, <1>9
  <2>0. UNCHANGED <<value, level, reason, locked, decisions, levelStart, satisfied>>
    BY <1>9 DEF trailVars
  <2> DEFINE r == [lits |-> lits, list |-> "clauses"]
             w == <<lits[1], lits[2]>>
  <2>2. /\ db' = Append(db, r) /\ watch' = Append(watch, w)
        /\ r \in ClauseRecords /\ w \in Seq(Lits)
        /\ watchList' \in [Vars -> Seq(Watchers)]
        /\ Live' = Live \cup {Len(db) + 1}
        /\ ClauseInv'
        /\ \A u \in Vars : ToSet(watchList'[u]) \subseteq Live' \X {1, 2}
        /\ \A c \in Live' : \A k \in {1, 2} : <<c, k>> \in ToSet(watchList'[VarOf(watch'[c][k])])
    BY <1>2, <1>4, <1>9, <2>1, Attached
  <2>l. ListInv'
    <3>1. \A u \in Vars : \A x \in ToSet(watchList[u]) : VarOf(watch[x[1]][x[2]]) = u
      BY <1>2 DEF ListInv
    <3>2. \A u \in Vars : \A x \in ToSet(watchList'[u]) : VarOf(watch'[x[1]][x[2]]) = u
      BY <1>2, <1>4, <1>9, <2>1, <3>1, Attached
    <3>3. QED
      BY <1>0, <1>3, <3>2, NoList
  <2>3. r.lits = lits /\ r.list = "clauses"
    OBVIOUS
  <2> HIDE DEF r, w
  <2>4. /\ db' \in Seq(ClauseRecords) /\ watch' \in Seq(Seq(Lits)) /\ Len(watch') = Len(db')
        /\ Len(db') = Len(db) + 1 /\ Len(db) \in Nat
        /\ \A c \in 1 .. Len(db) : db'[c] = db[c] /\ watch'[c] = watch[c]
        /\ db'[Len(db) + 1] = r
        /\ \A c \in 1 .. Len(db') : c \in 1 .. Len(db) \/ c = Len(db) + 1
        /\ Models' \subseteq Models
        /\ \A a \in Models' : Satisfies(a, lits)
    BY <1>2, <2>2, <2>3, MoreClauses
  <2>5. SatTypeOK'
    BY <1>0, <1>2, <1>3, <1>5, <2>0, <2>2, <2>4 DEF SatTypeOK
  <2>6. WatchInv'
    <3>1. ToSet(visit'.list) = {}
      BY <1>0, <1>3 DEF ToSet
    <3>2. QED
      BY <2>2, <3>1 DEF WatchInv
  <2>7. FlagInv' /\ TrailInv' /\ VisitInv'
    BY <1>0, <1>2, <1>3, <2>0 DEF FlagInv, TrailInv, VisitInv
  <2>8. ReasonInv'
    <3>1. \A c \in DOMAIN db : c \in DOMAIN db' /\ db'[c].lits = db[c].lits
      BY <1>2, <2>4, SeenTypes
    <3>2. ReasonsOf(decisions, levelStart, value, level, reason, db')
      BY <1>2, <3>1, ReasonsMoreClauses DEF ReasonInv
    <3>3. QED
      BY <2>0, <3>2 DEF ReasonInv
  <2>9. UnitInv'
    <3> SUFFICES ASSUME NEW c \in 1 .. Len(db'), Len(db'[c].lits) = 1, db'[c].list # "dropped"
                 PROVE  TrueIn(value, db'[c].lits[1]) /\ level[VarOf(db'[c].lits[1])] = 1
      BY <2>0 DEF UnitInv
    <3>1. c # Len(db) + 1
      <4>1. c = Len(db) + 1 => db'[c].lits = lits
        BY <2>3, <2>4, Zenon
      <4>2. ~(1 > 1)
        OBVIOUS
      <4>3. QED
        BY <1>9, <4>1, <4>2, Zenon
    <3>2. c \in 1 .. Len(db) /\ db'[c] = db[c]
      BY <2>4, <3>1
    <3>3. QED
      BY <1>2, <3>2 DEF UnitInv
  <2>s. Sure' \subseteq Sure /\ \A a \in Sure' : Satisfies(a, lits)
    BY <2>4, Unsure DEF Sure
  <2>10. Sound' /\ LockedInv'
    <3>1. \A c \in 1 .. Len(db) : InUse(c)' => InUse(c)
      BY <2>0, <2>4 DEF InUse
    <3>2. LockedInv'
      BY <1>2, <2>0 DEF LockedInv
    <3>3. QED
      BY <1>2, <2>3, <2>4, <2>s, <3>1, <3>2, StillSound
  <2>11. FactsInv'
    BY <1>2, <2>0, <2>s DEF FactsInv, FactsOf, Differ
  <2>12. AddingInv'
    BY <1>0, <1>3, <2>0, <2>3, <2>4 DEF AddingInv
  <2>13. QED
    BY <1>8, <2>2, <2>5, <2>6, <2>7, <2>8, <2>9, <2>10, <2>11, <2>12, <2>l DEF SatInv
\* A unit clause: a fact that may be known already.
<1>10. CASE /\ Len(lits) = 1 /\ ~IsFalse(l) /\ AttachUnit(lits, "clauses")
            /\ value' = [value EXCEPT ![v] = SignOf(l)]
            /\ decisions' = Append(decisions, v)
            /\ locked' = locked \union {v}
            /\ UNCHANGED <<level, reason, levelStart, satisfied>>
  <2> DEFINE r == [lits |-> lits, list |-> "clauses"]
             w == <<>>
  <2>2. /\ db' = Append(db, r) /\ watch' = Append(watch, w) /\ watchList' = watchList
        /\ r \in ClauseRecords /\ w \in Seq(Lits) /\ Live' = Live /\ ClauseInv'
    BY <1>2, <1>4, <1>10, UnitAttached
  <2>3. r.lits = lits /\ r.list = "clauses"
    OBVIOUS
  <2> HIDE DEF r, w
  <2>4. /\ db' \in Seq(ClauseRecords) /\ watch' \in Seq(Seq(Lits)) /\ Len(watch') = Len(db')
        /\ Len(db') = Len(db) + 1 /\ Len(db) \in Nat
        /\ \A c \in 1 .. Len(db) : db'[c] = db[c] /\ watch'[c] = watch[c]
        /\ db'[Len(db) + 1] = r
        /\ \A c \in 1 .. Len(db') : c \in 1 .. Len(db) \/ c = Len(db) + 1
        /\ Models' \subseteq Models
        /\ \A a \in Models' : Satisfies(a, lits)
    BY <1>2, <2>2, <2>3, MoreClauses
  <2>5. /\ value' \in [Vars -> Values] /\ value'[v] = SignOf(l)
        /\ \A u \in Vars : u # v => value'[u] = value[u]
    BY <1>6, <1>10, <1>t
  <2>6. /\ decisions' \in Seq(Vars) /\ Len(decisions') = Len(decisions) + 1 /\ decisions'[Len(decisions) + 1] = v
        /\ \A n \in 1 .. Len(decisions) : decisions'[n] = decisions[n]
    BY <1>6, <1>10, <1>t, OneMore
  <2>7. TrueIn(value, l) \/ value[v] = "UNASSIGNED"
    BY <1>10, Tests DEF FalseIn, TrueIn, v
  <2>8. \A q \in Lits : TrueIn(value, q) => TrueIn(value', q)
    <3> SUFFICES ASSUME NEW q \in Lits, TrueIn(value, q) PROVE TrueIn(value', q)
      OBVIOUS
    <3>1. VarOf(q) \in Vars /\ SignOf(q) # "UNASSIGNED"
      BY LitFacts
    <3>2. CASE VarOf(q) = v
      BY <2>5, <2>7, <3>1, <3>2 DEF TrueIn, v
    <3>3. CASE VarOf(q) # v
      BY <2>5, <3>1, <3>3 DEF TrueIn
    <3>4. QED
      BY <3>2, <3>3
  <2>9. TrueIn(value', l)
    BY <2>5 DEF TrueIn, v
  <2>10. SatTypeOK'
    <3>1. locked' \subseteq Vars
      BY <1>2, <1>6, <1>10 DEF SatTypeOK
    <3>2. QED
      BY <1>0, <1>2, <1>3, <1>5, <1>10, <2>2, <2>4, <3>1 DEF SatTypeOK
  <2>11. WatchInv'
    <3>1. \A c \in Live : watch'[c] = watch[c]
      BY <2>4 DEF Live
    <3>2. QED
      BY <1>0, <1>2, <2>2, <3>1 DEF WatchInv
  <2>12. TrailInv'
    <3>1. \A u \in Vars : value'[u] # "UNASSIGNED" <=> \E n \in 1 .. Len(decisions') : decisions'[n] = u
      <4> SUFFICES ASSUME NEW u \in Vars
                   PROVE  value'[u] # "UNASSIGNED" <=> \E n \in 1 .. Len(decisions') : decisions'[n] = u
        OBVIOUS
      <4>1. CASE u = v
        <5>1. Len(decisions) + 1 \in 1 .. Len(decisions')
          BY <1>t, <2>6
        <5>2. QED
          BY <1>6, <2>5, <2>6, <4>1, <5>1
      <4>2. CASE u # v
        <5>1. \A n \in 1 .. Len(decisions') : n \in 1 .. Len(decisions) \/ n = Len(decisions) + 1
          BY <1>t, <2>6
        <5>2. \A n \in 1 .. Len(decisions) : n \in 1 .. Len(decisions')
          BY <1>t, <2>6
        <5>3. (\E n \in 1 .. Len(decisions') : decisions'[n] = u) <=> \E n \in 1 .. Len(decisions) : decisions[n] = u
          BY <2>6, <4>2, <5>1, <5>2
        <5>4. QED
          BY <1>t, <2>5, <4>2, <5>3
      <4>3. QED
        BY <4>1, <4>2
    <3>2. \A u \in Vars : level'[u] = 1
      BY <1>3, <1>10
    <3>3. level' \in [Vars -> Nat] /\ 0 \in Nat /\ 0 <= Len(decisions')
      BY <1>t, <1>10, <2>6
    <3>4. TrailOf(decisions', <<0>>, value', level')
      <4> DEFINE D == decisions'
                 val == value'
                 lev == level'
      <4>1. /\ D \in Seq(Vars) /\ val \in [Vars -> Values] /\ lev \in [Vars -> Nat] /\ \A u \in Vars : lev[u] = 1
            /\ 0 \in Nat /\ 0 <= Len(D)
            /\ \A u \in Vars : val[u] # "UNASSIGNED" <=> \E n \in 1 .. Len(D) : D[n] = u
        BY <2>5, <2>6, <3>1, <3>2, <3>3
      <4> HIDE DEF D, val, lev
      <4>2. TrailOf(D, <<0>>, val, lev)
        BY <4>1, OneLevelTrail
      <4>3. QED
        BY <4>2 DEF D, val, lev
    <3>5. QED
      BY <1>3, <1>10, <3>4 DEF TrailInv
  <2>13. ReasonInv'
    <3>1. \A n \in 1 .. Len(decisions') : decisions'[n] \in Vars
      BY <2>6
    <3>2. \A u \in Vars : level'[u] = 1 /\ reason'[u] = 0
      BY <1>3, <1>10
    <3>3. QED
      BY <3>1, <3>2, NoReasons DEF ReasonInv
  <2>14. UnitInv'
    <3> SUFFICES ASSUME NEW c \in 1 .. Len(db'), Len(db'[c].lits) = 1, db'[c].list # "dropped"
                 PROVE  TrueIn(value', db'[c].lits[1]) /\ level'[VarOf(db'[c].lits[1])] = 1
      BY DEF UnitInv
    <3>1. CASE c = Len(db) + 1
      <4>1. db'[c].lits[1] = l
        BY <2>3, <2>4, <3>1 DEF l
      <4>2. QED
        BY <1>3, <1>6, <1>10, <2>9, <4>1 DEF v
    <3>2. CASE c \in 1 .. Len(db)
      <4>1. db'[c] = db[c] /\ TrueIn(value, db[c].lits[1]) /\ level[VarOf(db[c].lits[1])] = 1
        BY <1>2, <2>4, <3>2 DEF UnitInv
      <4>2. db[c].lits[1] \in Lits
        <5>1. db[c].lits \in Seq(Lits) /\ Len(db[c].lits) = 1
          BY <1>2, <3>2, <4>1, SeenTypes
        <5>2. QED
          BY <5>1
      <4>3. QED
        BY <1>10, <2>8, <4>1, <4>2
    <3>3. QED
      BY <2>4, <3>1, <3>2
  <2>s. Sure' \subseteq Sure /\ \A a \in Sure' : a \in Assignments /\ Satisfies(a, lits)
    BY <2>4, Unsure DEF Sure, Models
  <2>15. Sound' /\ LockedInv'
    <3>1. \A c \in 1 .. Len(db) : InUse(c)' => InUse(c)
      BY <1>3, <1>6, <1>10, <2>4, <2>5 DEF InUse
    <3>2. LockedInv'
      <4>1. locked \subseteq Vars
        BY <1>2 DEF SatTypeOK
      <4>2. QED
        BY <1>2, <1>3, <1>6, <1>10, <2>5, <4>1 DEF LockedInv
    <3>3. QED
      BY <1>2, <2>3, <2>4, <2>s, <3>1, <3>2, StillSound
  <2>l. ListInv'
    <3> SUFFICES ASSUME NEW u \in Vars, NEW x \in ToSet(watchList[u]) PROVE VarOf(watch'[x[1]][x[2]]) = u
      BY <1>0, <1>3, <2>2, NoList
    <3>1. x[1] \in 1 .. Len(db)
      BY <1>2 DEF WatchInv, Live
    <3>2. QED
      BY <1>2, <2>4, <3>1 DEF ListInv
  <2>16. FactsInv'
    <3> SUFFICES ASSUME NEW u \in Vars, value'[u] # "UNASSIGNED", NEW a \in Sure' PROVE ~Differ(value', a, u)
      BY DEF FactsInv, FactsOf
    <3>1. CASE u = v
      <4>1. a \in Assignments /\ Satisfies(a, lits)
        BY <2>s
      <4>2. PICK q \in ToSet(lits) : Holds(q, a)
        BY <4>1 DEF Satisfies
      <4>3. q = l
        <5>1. PICK n \in DOMAIN lits : lits[n] = q
          BY <1>4 DEF ToSet
        <5>2. n = 1
          BY <1>4, <1>10
        <5>3. QED
          BY <5>1, <5>2 DEF l
      <4>4. QED
        BY <1>6, <2>5, <2>9, <3>1, <4>1, <4>2, <4>3, LitValue DEF v
    <3>2. CASE u # v
      <4>1. ~Differ(value, a, u)
        BY <1>2, <1>3, <2>s, <2>5, <3>2 DEF FactsInv, FactsOf
      <4>2. QED
        BY <2>5, <3>2, <4>1 DEF Differ
    <3>3. QED
      BY <3>1, <3>2
  <2>17. FlagInv' /\ VisitInv' /\ AddingInv'
    <3>1. FlagInv'
      BY <1>3, <1>10 DEF FlagInv
    <3>2. VisitInv'
      <4>1. Len(levelStart') = 1 /\ visit'.i = 0 /\ pc' = "adding"
        BY <1>0, <1>3, <1>10
      <4>2. 0 <= Len(decisions') /\ ~(1 > 1)
        BY <1>t, <2>6
      <4>3. QED
        BY <4>1, <4>2 DEF VisitInv
    <3>3. AddingInv'
      BY <1>0, <1>3, <1>10, <2>3, <2>4 DEF AddingInv
    <3>4. QED
      BY <3>1, <3>2, <3>3
  <2>18. QED
    BY <1>8, <2>2, <2>10, <2>11, <2>12, <2>13, <2>14, <2>15, <2>16, <2>17, <2>l DEF SatInv
\* A unit clause that is refused.
<1>11. CASE UNCHANGED <<trailVars, clauseVars>>
  <2>1. UNCHANGED <<value, level, reason, locked, decisions, levelStart, db, watch, satisfied, watchList>>
        /\ UNCHANGED <<trailVars, db, watch>>
    BY <1>11 DEF trailVars, clauseVars
  <2>2. ClauseInv' /\ TrailInv' /\ ReasonInv' /\ UnitInv' /\ LockedInv' /\ Sound' /\ FactsInv'
      /\ Models' = Models /\ Sure' \subseteq Sure /\ Live' = Live
    BY <2>1, SameTrailAndClauses
  <2>3. SatTypeOK'
    BY <1>0, <1>2, <1>5, <2>1 DEF SatTypeOK
  <2>4. WatchInv' /\ FlagInv' /\ VisitInv' /\ AddingInv'
    BY <1>0, <1>2, <2>1, <2>2 DEF WatchInv, FlagInv, VisitInv, AddingInv
  <2>l. ListInv'
    BY <1>0, <1>2, <1>3, <2>1, NoList DEF ListInv
  <2>5. QED
    BY <1>8, <2>2, <2>3, <2>4, <2>l DEF SatInv
<1>12. QED
  BY <1>9, <1>10, <1>11 DEF AddBasicClause, lits, l, v

\* Every fact is ahead of the propagation when the search begins.
LEMMA FinishAddingKeeps == SatInv /\ FinishAdding /\ Remember => SatInv'
<1> SUFFICES ASSUME SatInv, FinishAdding, Remember PROVE SatInv'
  OBVIOUS
<1>0. /\ pc = "adding" /\ pc' = "propagating" /\ levelStart' = <<Len(decisions)>>
      /\ satisfied' = {c \in DOMAIN db : Len(db[c].lits) = 1}
      /\ visit' = FirstVisit(levelStart')
      /\ UNCHANGED <<withTheory, problem, toAdd, db, watch, watchList, value, level, reason, locked, decisions,
                     seen, analysis, decisionCount, answer>>
  BY DEF FinishAdding, formulaVars
<1>2. TrailInv /\ SatTypeOK /\ VisitInv /\ WatchInv /\ ListInv /\ FlagInv /\ WatchersInv /\ ClauseInv /\ AtRest
      /\ ReasonInv /\ UnitInv /\ LockedInv /\ Sound /\ FactsInv /\ AddingInv
  BY DEF SatInv
<1>3. \A u \in Vars : level[u] = 1 /\ reason[u] = 0
  BY <1>0, <1>2 DEF AddingInv
<1>t. /\ value \in [Vars -> Values] /\ level \in [Vars -> Nat] /\ decisions \in Seq(Vars) /\ Len(decisions) \in Nat
      /\ \A u \in Vars : value[u] # "UNASSIGNED" <=> \E n \in 1 .. Len(decisions) : decisions[n] = u
  <2>1. TrailOf(decisions, levelStart, value, level)
    BY <1>2 DEF TrailInv
  <2>2. QED
    BY <2>1, TrailShape, TrailHas
<1>4. visit' = [i |-> 0, j |-> 1, list |-> <<>>] /\ Len(levelStart') = 1
  <2>1. Len(levelStart') = 1 /\ ~(1 > 1)
    BY <1>0
  <2>2. ~(Len(levelStart') > 1)
    BY <2>1, Zenon
  <2>3. QED
    BY <1>0, <2>1, <2>2 DEF FirstVisit
<1>5. visit' \in [i : Nat, j : Nat \ {0}, list : Seq(Watchers)] /\ ToSet(visit'.list) = {} /\ visit'.i = 0
  <2>1. <<>> \in Seq(Watchers) /\ ToSet(<<>>) = {}
    BY DEF ToSet
  <2>2. QED
    BY <1>4, <2>1
<1>6. Sure' \subseteq Sure /\ Live' = Live /\ Sound' /\ ClauseInv' /\ UnitInv' /\ LockedInv' /\ FactsInv'
  <2>1. Sure' \subseteq Sure
    <3>1. Models' = Models
      BY <1>0, SMTT(30) DEF Models, Given
    <3>2. QED
      BY <3>1, Unsure
  <2>2. Live' = Live /\ ClauseInv' /\ UnitInv' /\ LockedInv'
    BY <1>0, <1>2 DEF Live, Long, ClauseInv, UnitInv, LockedInv
  <2>3. Sound' /\ FactsInv'
    BY <1>0, <1>2, <2>1 DEF Sound, InUse, FactsInv, FactsOf, Differ
  <2>4. QED
    BY <2>1, <2>2, <2>3
<1>l. ListInv'
  BY <1>0, <1>2, <1>4, NoList DEF ListInv
<1>7. SatTypeOK'
  <2>1. satisfied' \subseteq 1 .. Len(db)
    BY <1>0, <1>2, SeenTypes
  <2>2. QED
    BY <1>0, <1>2, <1>5, <2>1 DEF SatTypeOK
<1>8. WatchInv'
  BY <1>0, <1>2, <1>5, <1>6, SMTT(30) DEF WatchInv
<1>9. FlagInv'
  <2>1. Live \cap satisfied' = {}
    <3> SUFFICES ASSUME NEW c \in Live, c \in satisfied' PROVE FALSE
      OBVIOUS
    <3>1. Len(db[c].lits) = 1 /\ Len(db[c].lits) > 1
      BY <1>0 DEF Live, Long
    <3>2. ~(1 > 1)
      OBVIOUS
    <3>3. QED
      BY <3>1, <3>2, Zenon
  <2>2. QED
    BY <1>6, <2>1 DEF FlagInv
<1>10. TrailInv'
  <2>1. Len(decisions) <= Len(decisions)
    BY <1>t
  <2>2. TrailOf(decisions, <<Len(decisions)>>, value, level)
    BY <1>3, <1>t, <2>1, OneLevelTrail
  <2>3. QED
    BY <1>0, <2>2 DEF TrailInv
<1>11. ReasonInv'
  <2>1. \A n \in 1 .. Len(decisions) : decisions[n] \in Vars
    BY <1>t
  <2>2. ReasonsOf(decisions, levelStart', value, level, reason, db)
    BY <1>3, <2>1, NoReasons
  <2>3. QED
    BY <1>0, <2>2 DEF ReasonInv
<1>12. VisitInv'
  <2>1. 0 <= Len(decisions) /\ ~(1 > 1)
    BY <1>t
  <2>2. QED
    BY <1>0, <1>4, <1>5, <2>1 DEF VisitInv
<1>13. WatchersInv'
  <2> SUFFICES ASSUME NEW c \in Live, NEW j \in {1, 2}, db[c].list \notin TheoryLists, FalseIn(value, watch[c][j])
               PROVE  Pending(<<c, j>>)'
    BY <1>0, <1>6 DEF WatchersInv
  <2>1. VarOf(watch[c][j]) \in Vars
    BY <1>2, WatchedLits
  <2>2. PICK n \in 1 .. Len(decisions) : decisions[n] = VarOf(watch[c][j])
    BY <1>t, <2>1 DEF FalseIn
  <2>3. n \in 1 .. Len(decisions') /\ decisions'[n] = VarOf(watch'[c][j]) /\ n > visit'.i
    BY <1>0, <1>5, <2>2
  <2>4. QED
    BY <2>3, LaterIsPending
<1>14. AddingInv' /\ AtRest' /\ AnalysisInv' /\ AnswerInv'
  BY <1>0, <1>2 DEF AddingInv, AtRest, AnalysisInv, AnswerInv
<1>15. QED
  BY <1>6, <1>7, <1>8, <1>9, <1>10, <1>11, <1>12, <1>13, <1>14, <1>l DEF SatInv

-----------------------------------------------------------------------------
(* Decisions *)

\* Nothing is left to visit when the solver decides.
LEMMA NothingPending ==
  ASSUME SatTypeOK, TrailInv, VisitInv, pc = "deciding", NEW w
  PROVE  ~Pending(w)
<1> SUFFICES ASSUME Pending(w) PROVE FALSE
  OBVIOUS
<1>1. PICK n \in 1 .. Len(decisions) : Ahead(w, n)
  BY DEF Pending
<1>2. visit.i = Len(decisions) /\ visit.j > Len(visit.list)
  BY DEF VisitInv
<1>3. visit \in [i : Nat, j : Nat \ {0}, list : Seq(Watchers)] /\ Len(decisions) \in Nat
  BY TrailShape DEF SatTypeOK, TrailInv
<1>4. ~(n > visit.i)
  BY <1>2, <1>3
<1>5. PICK j \in 1 .. Len(visit.list) : j >= visit.j
  BY <1>1, <1>4 DEF Ahead
<1>6. QED
  BY <1>2, <1>3, <1>5

\* Clauses that leave their lists take their watchers along; none is changed.
LEMMA Detached ==
  ASSUME SatTypeOK, WatchInv, ClauseInv, NEW cs \in SUBSET DOMAIN db, Detach(cs)
  PROVE  /\ db' \in Seq(ClauseRecords) /\ Len(db') = Len(db)
         /\ \A c \in 1 .. Len(db) : /\ db'[c].lits = db[c].lits
                                    /\ c \in cs => db'[c].list = "dropped"
                                    /\ c \notin cs => db'[c].list = db[c].list
         /\ watchList' \in [Vars -> Seq(Watchers)]
         /\ \A v \in Vars : ToSet(watchList'[v]) \subseteq ToSet(watchList[v])
         /\ Live' = Live \ cs
         /\ \A v \in Vars : ToSet(watchList'[v]) \subseteq Live' \X {1, 2}
         /\ \A c \in Live' : \A k \in {1, 2} : <<c, k>> \in ToSet(watchList'[VarOf(watch[c][k])])
<1>t. db \in Seq(ClauseRecords) /\ DOMAIN db = 1 .. Len(db) /\ Len(db) \in Nat
      /\ \A c \in 1 .. Len(db) : db[c] \in ClauseRecords
      /\ watchList \in [Vars -> Seq(Watchers)]
  BY SeenTypes DEF SatTypeOK
<1>2. /\ db' = [c \in DOMAIN db |-> IF c \in cs THEN [db[c] EXCEPT !.list = "dropped"] ELSE db[c]]
      /\ watchList' = [v \in Vars |-> Only(watchList[v], (DOMAIN db \ cs) \X {1, 2})]
  BY DEF Detach
<1>3. /\ \A c \in 1 .. Len(db) : /\ db'[c] \in ClauseRecords /\ db'[c].lits = db[c].lits
                                 /\ c \in cs => db'[c].list = "dropped"
                                 /\ c \notin cs => db'[c].list = db[c].list
      /\ DOMAIN db' = 1 .. Len(db)
  <2>1. \A r \in ClauseRecords : /\ [r EXCEPT !.list = "dropped"] \in ClauseRecords
                                 /\ [r EXCEPT !.list = "dropped"].lits = r.lits
                                 /\ [r EXCEPT !.list = "dropped"].list = "dropped"
    BY DEF ClauseRecords
  <2>2. DOMAIN db' = 1 .. Len(db)
        /\ \A c \in 1 .. Len(db) : db'[c] = IF c \in cs THEN [db[c] EXCEPT !.list = "dropped"] ELSE db[c]
    BY <1>t, <1>2, Zenon
  <2>3. QED
    BY <1>t, <2>1, <2>2
<1>4. db' \in Seq(ClauseRecords) /\ Len(db') = Len(db)
  <2>1. db' = [c \in 1 .. Len(db) |-> db'[c]]
    BY <1>t, <1>2
  <2>2. db' \in [1 .. Len(db) -> ClauseRecords]
    BY <1>3, <2>1
  <2>3. QED
    BY <1>t, <2>2
<1>5. Live' = Live \ cs
  <2> SUFFICES ASSUME NEW c PROVE c \in Live' <=> c \in Live \ cs
    OBVIOUS
  <2>1. QED
    BY <1>3, <1>4 DEF Live, Long
<1>6. \A v \in Vars : /\ watchList'[v] \in Seq(Watchers)
                      /\ ToSet(watchList'[v]) = ToSet(watchList[v]) \cap ((DOMAIN db \ cs) \X {1, 2})
  <2> SUFFICES ASSUME NEW v \in Vars
               PROVE  /\ watchList'[v] \in Seq(Watchers)
                      /\ ToSet(watchList'[v]) = ToSet(watchList[v]) \cap ((DOMAIN db \ cs) \X {1, 2})
    OBVIOUS
  <2> DEFINE o == watchList[v]
             S == (DOMAIN db \ cs) \X {1, 2}
  <2>0. watchList'[v] = Only(watchList[v], (DOMAIN db \ cs) \X {1, 2})
    BY <1>2, Zenon
  <2>1. o \in Seq(Watchers)
    BY SeenTypes
  <2>4. watchList'[v] = Only(o, S)
    BY <2>0, Zenon
  <2> HIDE DEF o, S
  <2>2. Only(o, S) \in Seq(Watchers) /\ ToSet(Only(o, S)) = ToSet(o) \cap S
    BY <2>1, OnlyIs
  <2>3. QED
    BY <2>2, <2>4 DEF o, S
<1>7. watchList' \in [Vars -> Seq(Watchers)]
  <2>1. watchList' = [v \in Vars |-> watchList'[v]]
    BY <1>2
  <2>2. QED
    BY <1>6, <2>1
<1>8. \A v \in Vars : ToSet(watchList'[v]) \subseteq Live' \X {1, 2}
  <2> SUFFICES ASSUME NEW v \in Vars, NEW x \in ToSet(watchList'[v]) PROVE x \in Live' \X {1, 2}
    OBVIOUS
  <2>1. x \in ToSet(watchList[v]) /\ x \in (DOMAIN db \ cs) \X {1, 2}
    BY <1>6
  <2>2. x \in Live \X {1, 2}
    BY <2>1 DEF WatchInv
  <2>3. QED
    BY <1>5, <2>1, <2>2
<1>9. \A c \in Live' : \A k \in {1, 2} : <<c, k>> \in ToSet(watchList'[VarOf(watch[c][k])])
  <2> SUFFICES ASSUME NEW c \in Live', NEW k \in {1, 2} PROVE <<c, k>> \in ToSet(watchList'[VarOf(watch[c][k])])
    OBVIOUS
  <2>1. c \in Live /\ c \notin cs /\ c \in DOMAIN db
    BY <1>t, <1>5 DEF Live
  <2>2. VarOf(watch[c][k]) \in Vars /\ <<c, k>> \in ToSet(watchList[VarOf(watch[c][k])])
    BY <2>1, WatchedLits DEF WatchInv
  <2>3. QED
    BY <1>6, <2>1, <2>2
<1>10. QED
  BY <1>3, <1>4, <1>5, <1>6, <1>7, <1>8, <1>9

\* reduceDB drops learnt clauses, with their watchers, and changes none.
LEMMA Reduced ==
  ASSUME SatTypeOK, WatchInv, ClauseInv, ReduceDB \/ UNCHANGED <<db, watchList>>
  PROVE  /\ db' \in Seq(ClauseRecords) /\ Len(db') = Len(db)
         /\ \A c \in 1 .. Len(db) : db'[c].lits = db[c].lits /\ (db'[c].list # "dropped" => db'[c].list = db[c].list)
         /\ watchList' \in [Vars -> Seq(Watchers)]
         /\ \A v \in Vars : ToSet(watchList'[v]) \subseteq ToSet(watchList[v])
         /\ Live' \subseteq Live
         /\ \A v \in Vars : ToSet(watchList'[v]) \subseteq Live' \X {1, 2}
         /\ \A c \in Live' : \A k \in {1, 2} : <<c, k>> \in ToSet(watchList'[VarOf(watch[c][k])])
         /\ Models' = Models
<1>t. db \in Seq(ClauseRecords) /\ DOMAIN db = 1 .. Len(db) /\ Len(db) \in Nat
      /\ \A c \in 1 .. Len(db) : db[c] \in ClauseRecords
      /\ watchList \in [Vars -> Seq(Watchers)]
  BY SeenTypes DEF SatTypeOK
<1>1. CASE UNCHANGED <<db, watchList>>
  <2>1. Live' = Live /\ Models' = Models
    BY <1>1 DEF Live, Long, Models, Given
  <2>2. db' = db /\ watchList' = watchList
    BY <1>1
  <2>3. /\ \A v \in Vars : ToSet(watchList[v]) \subseteq Live \X {1, 2}
        /\ \A c \in Live : \A k \in {1, 2} : <<c, k>> \in ToSet(watchList[VarOf(watch[c][k])])
    BY Zenon DEF WatchInv
  <2>8. db' \in Seq(ClauseRecords)
    BY <1>t, <2>2, Zenon
  <2>9. watchList' \in [Vars -> Seq(Watchers)]
    <3>1. watchList \in [Vars -> Seq(Watchers)]
      BY DEF SatTypeOK
    <3>2. watchList' = watchList
      BY <2>2
    <3>3. QED
      BY <3>1, <3>2, Zenon
  <2>4. Len(db') = Len(db) /\ Live' \subseteq Live
    BY <2>1, <2>2, Zenon
  <2>5. \A c \in 1 .. Len(db) : db'[c].lits = db[c].lits /\ (db'[c].list # "dropped" => db'[c].list = db[c].list)
    BY <2>2
  <2>6. /\ \A v \in Vars : ToSet(watchList'[v]) \subseteq ToSet(watchList[v])
        /\ \A v \in Vars : ToSet(watchList'[v]) \subseteq Live' \X {1, 2}
        /\ \A c \in Live' : \A k \in {1, 2} : <<c, k>> \in ToSet(watchList'[VarOf(watch[c][k])])
    BY <2>1, <2>2, <2>3
  <2>7. QED
    BY <2>1, <2>4, <2>5, <2>6, <2>8, <2>9
<1>2. CASE ~UNCHANGED <<db, watchList>>
  <2>1. PICK cs : cs \subseteq Clauses("satClauses") /\ Detach(cs)
    <3>1. PICK kept \in SUBSET Clauses("satClauses") : Detach(Clauses("satClauses") \ kept)
      BY <1>2 DEF ReduceDB
    <3>2. QED
      BY <3>1
  <2>c. cs \in SUBSET DOMAIN db /\ \A c \in cs : db[c].list = "satClauses"
    BY <2>1 DEF Clauses
  <2>3. /\ db' \in Seq(ClauseRecords) /\ Len(db') = Len(db)
        /\ \A c \in 1 .. Len(db) : /\ db'[c].lits = db[c].lits
                                   /\ c \in cs => db'[c].list = "dropped"
                                   /\ c \notin cs => db'[c].list = db[c].list
        /\ watchList' \in [Vars -> Seq(Watchers)]
        /\ \A v \in Vars : ToSet(watchList'[v]) \subseteq ToSet(watchList[v])
        /\ Live' = Live \ cs
        /\ \A v \in Vars : ToSet(watchList'[v]) \subseteq Live' \X {1, 2}
        /\ \A c \in Live' : \A k \in {1, 2} : <<c, k>> \in ToSet(watchList'[VarOf(watch[c][k])])
    BY <2>1, <2>c, Detached
  <2>10. Models' = Models
    <3>1. \A c \in cs : c \in DOMAIN db /\ db[c].list = "satClauses"
      BY <2>1 DEF Clauses
    <3>2. Given' = Given
      <4> SUFFICES ASSUME NEW c PROVE c \in Given' <=> c \in Given
        OBVIOUS
      <4>1. DOMAIN db' = DOMAIN db
        BY <1>t, <2>3
      <4>2. CASE c \in cs
        BY <1>t, <2>3, <3>1, <4>2 DEF Given
      <4>3. CASE c \notin cs
        BY <1>t, <2>3, <4>1, <4>3 DEF Given
      <4>4. QED
        BY <4>2, <4>3
    <3>3. \A c \in Given : db'[c].lits = db[c].lits
      BY <1>t, <2>3 DEF Given
    <3>4. QED
      BY <3>2, <3>3 DEF Models
  <2>11. \A c \in 1 .. Len(db) : db'[c].lits = db[c].lits /\ (db'[c].list # "dropped" => db'[c].list = db[c].list)
    BY <2>3
  <2>12. QED
    BY <2>3, <2>10, <2>11
<1>3. QED
  BY <1>1, <1>2

\* A new level begins, with a variable that has no reason, and learnt clauses may be dropped.
LEMMA DecideKeeps == SatInv /\ Decide /\ Remember => SatInv'
<1> SUFFICES ASSUME SatInv, Decide, Remember PROVE SatInv'
  OBVIOUS
<1>1. PICK l \in Decidable : NewDecision(l)
  BY DEF Decide
<1> DEFINE v == VarOf(l)
           D == decisions
           LS == levelStart
<1>0. /\ pc = "deciding" /\ pc' = "propagating" /\ visit' = FirstVisit(levelStart')
      /\ UNCHANGED <<withTheory, problem, toAdd, watch, satisfied, seen, analysis, answer, locked>>
      /\ levelStart' = Append(LS, Len(D))
      /\ value' = [value EXCEPT ![v] = SignOf(l)]
      /\ decisions' = Append(D, v)
      /\ reason' = [reason EXCEPT ![v] = 0]
      /\ level' = [level EXCEPT ![v] = Len(LS) + 1]
      /\ decisionCount' = (decisionCount + 1) % ReduceEvery
      /\ ReduceDB \/ UNCHANGED <<db, watchList>>
  BY <1>1 DEF Decide, NewDecision, formulaVars
<1>2. TrailInv /\ SatTypeOK /\ VisitInv /\ WatchInv /\ ListInv /\ FlagInv /\ WatchersInv /\ ClauseInv /\ AtRest
      /\ ReasonInv /\ UnitInv /\ LockedInv /\ Sound /\ FactsInv /\ AddingInv
  BY DEF SatInv
<1>3. l \in Lits /\ value[v] = "UNASSIGNED"
  <2>1. l \in FreeLiterals
    BY DEF Decidable, CountedLiterals
  <2>2. QED
    BY <2>1 DEF FreeLiterals, IsFree, Lits
<1>4. v \in Vars /\ SignOf(l) \in Values /\ SignOf(l) # "UNASSIGNED"
  BY <1>3, LitFacts
<1>5. /\ db' \in Seq(ClauseRecords) /\ Len(db') = Len(db)
      /\ \A c \in 1 .. Len(db) : db'[c].lits = db[c].lits /\ (db'[c].list # "dropped" => db'[c].list = db[c].list)
      /\ watchList' \in [Vars -> Seq(Watchers)]
      /\ \A u \in Vars : ToSet(watchList'[u]) \subseteq ToSet(watchList[u])
      /\ Live' \subseteq Live
      /\ \A u \in Vars : ToSet(watchList'[u]) \subseteq Live' \X {1, 2}
      /\ \A c \in Live' : \A k \in {1, 2} : <<c, k>> \in ToSet(watchList'[VarOf(watch[c][k])])
      /\ Models' = Models
  BY <1>0, <1>2, Reduced
<1>t. /\ value \in [Vars -> Values] /\ level \in [Vars -> Nat] /\ D \in Seq(Vars) /\ LS \in Seq(Nat)
      /\ Len(D) \in Nat /\ Len(LS) \in Nat /\ Len(LS) >= 1
      /\ TrailOf(D, LS, value, level)
  BY <1>2, TrailShape DEF TrailInv
<1> DEFINE x == SignOf(l)
           L1 == Append(LS, Len(D))
           y == Len(LS) + 1
<1>6. L1 \in Seq(Nat) /\ Len(L1) = y /\ L1[y] = Len(D) /\ y \in Nat /\ y >= 2
  BY <1>t
<1>7. TrailOf(D, L1, value, level)
  <2>1. Len(LS) = 1 \/ LS[Len(LS)] < Len(D)
    <3>1. Len(LS) > 1 => LS[Len(LS)] < Len(D)
      BY <1>2 DEF VisitInv, Last
    <3>2. QED
      BY <1>t, <3>1, MoreThanOne
  <2> HIDE DEF D, LS
  <2>2. TrailOf(D, Append(LS, Len(D)), value, level)
    BY <1>t, <2>1, TrailDeepened
  <2>3. QED
    BY <2>2 DEF L1
<1> HIDE DEF D, LS, x, L1, y, v
<1>8. /\ levelStart' = L1 /\ value' = [value EXCEPT ![v] = x] /\ decisions' = Append(D, v)
      /\ reason' = [reason EXCEPT ![v] = 0] /\ level' = [level EXCEPT ![v] = y] /\ level' = [level EXCEPT ![v] = Len(L1)]
  BY <1>0, <1>6 DEF x, L1, y, v, D, LS
<1>9. x \in Values /\ x # "UNASSIGNED" /\ v \in Vars /\ value[v] = "UNASSIGNED"
  BY <1>3, <1>4 DEF x, v
<1>10. TrailInv'
  <2>1. TrailOf(Append(D, v), L1, [value EXCEPT ![v] = x], [level EXCEPT ![v] = Len(L1)])
    BY <1>7, <1>9, TrailExtended
  <2>2. QED
    BY <1>8, <2>1, Zenon DEF TrailInv
<1>11. ReasonInv'
  <2>1. ReasonsOf(D, LS, value, level, reason, db)
    BY <1>2 DEF ReasonInv, D, LS
  <2>2. ReasonsOf(D, L1, value, level, reason, db)
    BY <1>t, <2>1, ReasonsDeepened DEF L1
  <2>3. db \in Seq(ClauseRecords) /\ reason \in [Vars -> Nat]
    BY <1>2 DEF SatTypeOK
  <2> DEFINE c == 0
  <2>4. c \in {0} \cup DOMAIN db /\ (c = 0 => Len(L1) = 1 \/ L1[Len(L1)] = Len(D)) /\ reason' = [reason EXCEPT ![v] = c]
        /\ (c # 0 => \A q \in ToSet(db[c].lits) : IF VarOf(q) = v THEN SignOf(q) = x ELSE FalseIn(value, q))
    BY <1>6, <1>8
  <2> HIDE DEF c
  <2>5. ReasonsOf(Append(D, v), L1, [value EXCEPT ![v] = x], [level EXCEPT ![v] = Len(L1)], [reason EXCEPT ![v] = c], db)
    BY <1>7, <1>9, <2>2, <2>3, <2>4, ReasonsExtended
  <2>6. ReasonsOf(decisions', levelStart', value', level', reason', db)
    BY <1>8, <2>4, <2>5, Zenon
  <2>7. \A d \in DOMAIN db : d \in DOMAIN db' /\ db'[d].lits = db[d].lits
    BY <1>2, <1>5, SeenTypes
  <2> DEFINE D1 == decisions'
             S1 == levelStart'
             a1 == value'
             v1 == level'
             r1 == reason'
             b1 == db'
  <2>8. ReasonsOf(D1, S1, a1, v1, r1, db) /\ \A d \in DOMAIN db : d \in DOMAIN b1 /\ b1[d].lits = db[d].lits
    BY <2>6, <2>7
  <2> HIDE DEF D1, S1, a1, v1, r1, b1
  <2>9. ReasonsOf(D1, S1, a1, v1, r1, b1)
    BY <2>8, ReasonsMoreClauses
  <2>10. QED
    BY <2>9 DEF ReasonInv, D1, S1, a1, v1, r1, b1
<1>12. /\ value'[v] = x /\ level'[v] = y
       /\ \A u \in Vars : u # v => value'[u] = value[u] /\ level'[u] = level[u]
       /\ \A q \in Lits : TrueIn(value, q) => VarOf(q) # v /\ TrueIn(value', q)
       /\ \A q \in Lits : FalseIn(value', q) => VarOf(q) = v \/ FalseIn(value, q)
  <2>1. value' = [value EXCEPT ![v] = x] /\ level' = [level EXCEPT ![v] = y]
    BY <1>8, Zenon
  <2>2. value \in [Vars -> Values] /\ level \in [Vars -> Nat] /\ v \in Vars /\ value[v] = "UNASSIGNED"
    BY <1>9, <1>t, Zenon
  <2>3. QED
    BY <2>1, <2>2, SetFree
<1>13. Len(decisions') = Len(D) + 1 /\ decisions'[Len(D) + 1] = v
  BY <1>8, <1>9, <1>t, OneMore
<1>14. visit' = [i |-> Len(D), j |-> 1, list |-> <<>>]
  <2>1. Len(levelStart') > 1 /\ Last(levelStart') = Len(D)
    BY <1>6, <1>8 DEF Last
  <2>2. QED
    BY <1>0, <2>1 DEF FirstVisit
<1>s. Sure' \subseteq Sure /\ LockedInv'
  <2>1. locked \subseteq Vars
    BY <1>2 DEF SatTypeOK
  <2>2. QED
    BY <1>0, <1>2, <1>5, <1>9, <1>12, <2>1, LockedStay, Unsure
<1>15. ClauseInv' /\ Sound' /\ ListInv'
  <2>1. ClauseInv'
    BY <1>0, <1>2, <1>5 DEF ClauseInv, Long
  <2>2. \A u \in Vars, c \in 1 .. Len(db) : reason'[u] = c => u # v /\ reason[u] = c
    <3>1. reason \in [Vars -> Nat] /\ Len(db) \in Nat
      BY <1>2, SeenTypes DEF SatTypeOK
    <3>2. QED
      BY <1>8, <1>9, <3>1
  <2>3. \A c \in 1 .. Len(db) : InUse(c)' => InUse(c)
    BY <1>5, <1>12, <2>2 DEF InUse
  <2>4. Sound'
    BY <1>2, <1>5, <1>s, <2>3, StillSound
  <2>5. ListInv'
    <3> SUFFICES ASSUME NEW u \in Vars, NEW w \in ToSet(watchList'[u]) PROVE VarOf(watch'[w[1]][w[2]]) = u
      BY <1>14, NoList
    <3>1. QED
      BY <1>0, <1>2, <1>5 DEF ListInv
  <2>6. QED
    BY <2>1, <2>4, <2>5
<1>16. UnitInv'
  <2> SUFFICES ASSUME NEW c \in 1 .. Len(db), Len(db[c].lits) = 1, db[c].list # "dropped"
               PROVE  TrueIn(value', db[c].lits[1]) /\ level'[VarOf(db[c].lits[1])] = 1
    BY <1>5 DEF UnitInv
  <2> DEFINE q == db[c].lits[1]
  <2>1. TrueIn(value, q) /\ level[VarOf(q)] = 1
    BY <1>2 DEF UnitInv
  <2>2. q \in Lits
    BY <1>2, SeenTypes
  <2>3. QED
    BY <1>12, <2>1, <2>2, LitFacts
<1>17. FactsInv'
  <2> SUFFICES ASSUME NEW u \in Vars, value'[u] # "UNASSIGNED", level'[u] = 1, NEW a \in Sure
               PROVE  ~Differ(value', a, u)
    BY <1>s DEF FactsInv, FactsOf
  <2>1. u # v
    BY <1>6, <1>12
  <2>2. ~Differ(value, a, u)
    BY <1>2, <1>12, <2>1 DEF FactsInv, FactsOf
  <2>3. QED
    BY <1>12, <2>1, <2>2 DEF Differ
<1>18. SatTypeOK'
  <2>1. reason' \in [Vars -> Nat]
    BY <1>2, <1>8, <1>9 DEF SatTypeOK
  <2>2. visit' \in [i : Nat, j : Nat \ {0}, list : Seq(Watchers)]
    <3>1. <<>> \in Seq(Watchers)
      OBVIOUS
    <3>2. QED
      BY <1>14, <1>t, <3>1
  <2>3. decisionCount' \in Nat
    <3>1. decisionCount \in Nat /\ ReduceEvery \in Nat \ {0}
      BY <1>2, SatAssumption DEF SatTypeOK
    <3>2. QED
      BY <1>0, <3>1
  <2>4. QED
    BY <1>0, <1>2, <1>5, <2>1, <2>2, <2>3 DEF SatTypeOK
<1>19. WatchInv'
  <2>1. ToSet(visit'.list) = {}
    BY <1>14 DEF ToSet
  <2>2. QED
    BY <1>0, <1>5, <2>1 DEF WatchInv
<1>20. FlagInv'
  <2> SUFFICES ASSUME NEW c \in Live', c \in satisfied
               PROVE  TrueIn(value', watch[c][1]) \/ TrueIn(value', watch[c][2])
    BY <1>0 DEF FlagInv
  <2>1. c \in Live /\ 1 \in {1, 2} /\ 2 \in {1, 2}
    BY <1>5
  <2>2. watch[c][1] \in Lits /\ watch[c][2] \in Lits
    BY <1>2, <2>1, WatchedLits
  <2>3. TrueIn(value, watch[c][1]) \/ TrueIn(value, watch[c][2])
    BY <1>2, <2>1 DEF FlagInv
  <2>4. QED
    BY <1>12, <2>2, <2>3
<1>21. VisitInv'
  <2>1. visit'.i = Len(D) /\ visit'.list = <<>> /\ Len(decisions') = Len(D) + 1 /\ Last(levelStart') = Len(D)
    BY <1>6, <1>8, <1>13, <1>14 DEF Last
  <2>2. Len(D) <= Len(D) + 1 /\ Len(D) < Len(D) + 1 /\ Len(D) >= Len(D)
    BY <1>t
  <2>3. QED
    BY <1>0, <2>1, <2>2 DEF VisitInv
<1>22. WatchersInv'
  <2> SUFFICES ASSUME NEW c \in Live', NEW j \in {1, 2}, db'[c].list \notin TheoryLists, FalseIn(value', watch[c][j])
               PROVE  Backed(c, j)' \/ Pending(<<c, j>>)'
    BY <1>0 DEF WatchersInv
  <2>0. c \in Live /\ db[c].list \notin TheoryLists
    <3>1. c \in Live /\ db'[c].list # "dropped"
      BY <1>5 DEF Live
    <3>2. QED
      BY <1>5, <3>1 DEF Live
  <2>1. /\ watch[c][j] \in Lits /\ VarOf(watch[c][j]) \in Vars /\ watch[c][3 - j] \in Lits
        /\ VarOf(watch[c][3 - j]) \in Vars
    <3>1. 3 - j \in {1, 2}
      OBVIOUS
    <3>2. QED
      BY <1>2, <2>0, <3>1, WatchedLits
  <2>2. CASE VarOf(watch[c][j]) = v
    <3>1. Len(D) + 1 \in 1 .. Len(decisions') /\ Len(D) + 1 > visit'.i
      BY <1>13, <1>14, <1>t
    <3>2. decisions'[Len(D) + 1] = VarOf(watch'[c][j])
      BY <1>0, <1>13, <2>2
    <3>3. QED
      BY <3>1, <3>2, LaterIsPending
  <2>3. CASE VarOf(watch[c][j]) # v
    <3>1. FalseIn(value, watch[c][j])
      BY <1>12, <2>1, <2>3
    <3>2. Backed(c, j) \/ Pending(<<c, j>>)
      BY <1>0, <1>2, <2>0, <3>1 DEF WatchersInv
    <3>3. ~Pending(<<c, j>>)
      BY <1>0, <1>2, NothingPending
    <3>4. TrueIn(value, watch[c][3 - j]) /\ level[VarOf(watch[c][3 - j])] <= level[VarOf(watch[c][j])]
      BY <3>2, <3>3 DEF Backed
    <3>5. TrueIn(value', watch[c][3 - j]) /\ VarOf(watch[c][3 - j]) # v
      BY <1>12, <2>1, <3>4
    <3>6. level'[VarOf(watch[c][3 - j])] <= level'[VarOf(watch[c][j])]
      BY <1>12, <2>1, <2>3, <3>4, <3>5
    <3>7. QED
      BY <1>0, <3>5, <3>6 DEF Backed
  <2>4. QED
    BY <2>2, <2>3
<1>23. AddingInv' /\ AtRest' /\ AnalysisInv' /\ AnswerInv'
  BY <1>0, <1>2 DEF AddingInv, AtRest, AnalysisInv, AnswerInv
<1>24. QED
  BY <1>s, <1>10, <1>11, <1>15, <1>16, <1>17, <1>18, <1>19, <1>20, <1>21, <1>22, <1>23 DEF SatInv

-----------------------------------------------------------------------------
(* Conflict analysis: one round *)

\* The variables to come are some of finitely many.
LEMMA ToComeIs ==
  ASSUME seen \subseteq Vars
  PROVE  /\ IsFiniteSet(ToCome) /\ Cardinality(ToCome) \in Nat /\ (ToCome = {} <=> Cardinality(ToCome) = 0)
         /\ \A v : v \in ToCome <=> /\ v \in seen /\ level[v] = Len(levelStart)
                                    /\ \E k \in 1 .. analysis.index : decisions[k] = v
<1>1. IsFiniteSet(Vars)
  <2>1. 1 \in Int /\ MaxVar \in Int
    BY SatAssumption
  <2>2. QED
    BY <2>1, FS_Interval DEF Vars
<1>2. ToCome \in SUBSET Vars
  BY DEF ToCome
<1>3. IsFiniteSet(ToCome)
  BY <1>1, <1>2, FS_Subset
<1>4. \A v : v \in ToCome <=> /\ v \in seen /\ level[v] = Len(levelStart)
                              /\ \E k \in 1 .. analysis.index : decisions[k] = v
  BY DEF ToCome
<1>5. QED
  BY <1>3, <1>4, FS_CardinalityType, FS_EmptySet

\* The analysis so far: the clause it is about to inspect explains the variable it has come to, or is
\* the conflict, and there is a variable of the newest level for the walk to come to.
LEMMA Analysed ==
  ASSUME SatInv, pc = "analysing"
  PROVE  /\ analysis.confl \in 1 .. Len(db) /\ Len(levelStart) \in Nat /\ Len(levelStart) > 1
         /\ analysis.index \in Nat /\ analysis.index <= Len(decisions) /\ analysis.p \notin seen
         /\ \A l \in ToSet(db[analysis.confl].lits) : VarOf(l) # analysis.p =>
              FalseIn(value, l) /\ \E k \in 1 .. analysis.index : decisions[k] = VarOf(l)
         /\ Distinct(analysis.learnt)
         /\ \A l \in ToSet(analysis.learnt) :
              FalseIn(value, l) /\ VarOf(l) \in seen /\ level[VarOf(l)] # 1 /\ level[VarOf(l)] # Len(levelStart)
         /\ analysis.pathC <= Cardinality(ToCome)
         /\ clean => /\ analysis.pathC = Cardinality(ToCome)
                     /\ \A v \in seen : v \in ToCome \/ v \in VarsOf(analysis.learnt)
         /\ \A a \in Sure : \/ \E v \in seen : Differ(value, a, v)
                            \/ \E l \in ToSet(db[analysis.confl].lits) :
                                 VarOf(l) # analysis.p /\ Differ(value, a, VarOf(l))
         /\ \/ ToCome # {}
            \/ \E l \in ToSet(db[analysis.confl].lits) :
                 VarOf(l) # analysis.p /\ VarOf(l) \notin seen /\ level[VarOf(l)] = Len(levelStart)
<1> DEFINE N == Len(levelStart)
           cf == analysis.confl
           p == analysis.p
           ix == analysis.index
<1>1. SatTypeOK /\ ClauseInv /\ TrailInv /\ ReasonInv /\ Sound /\ FactsInv /\ AnalysisInv
  BY DEF SatInv
<1>2. TrailOf(decisions, levelStart, value, level) /\ ReasonsOf(decisions, levelStart, value, level, reason, db)
  BY <1>1 DEF TrailInv, ReasonInv
<1>3. /\ Len(decisions) \in Nat /\ N \in Nat /\ value \in [Vars -> Values]
      /\ \A n \in 1 .. Len(decisions) : decisions[n] \in Vars /\ level[decisions[n]] \in 1 .. N
      /\ N > 1 /\ levelStart[N] \in Nat
  <2>1. N > 1 /\ N \in Nat /\ N \in 1 .. N
    BY <1>1, <1>2, TrailShape DEF AnalysisInv
  <2>2. QED
    BY <1>2, <2>1, TrailShape
<1>4. analysis \in [confl : Nat, p : Nat, learnt : Seq(Lits), index : Nat, pathC : Int] /\ seen \subseteq Vars
  BY <1>1 DEF SatTypeOK
<1>5. \A c \in 1 .. Len(db) : \A l \in ToSet(db[c].lits) : l \in Lits /\ VarOf(l) \in Vars
  BY <1>1, SeenTypes, LitFacts
<1>6. ix \in Nat /\ p \in Nat /\ cf \in Nat /\ analysis.pathC \in Int
  BY <1>4
<1>f. /\ Cardinality(ToCome) \in Nat /\ (ToCome = {} <=> Cardinality(ToCome) = 0)
      /\ \A v : v \in ToCome <=> v \in seen /\ level[v] = N /\ \E k \in 1 .. ix : decisions[k] = v
  BY <1>4, ToComeIs
<1>e. Exact
  BY <1>1 DEF AnalysisInv
<1>7. CASE p = 0
  <2>1. Found
    BY <1>1, <1>7 DEF AnalysisInv
  <2>2. /\ analysis.learnt = <<>> /\ analysis.pathC = 0 /\ ix = Len(decisions)
        /\ cf \in 1 .. Len(db) /\ InUse(cf)
        /\ \A l \in ToSet(db[cf].lits) : FalseIn(value, l)
        /\ \E l \in ToSet(db[cf].lits) : level[VarOf(l)] = N
    <3>1. /\ analysis.learnt = <<>> /\ analysis.pathC = 0 /\ ix = Len(decisions) /\ cf \in Live
          /\ \A l \in ToSet(db[cf].lits) : FalseIn(value, l)
          /\ \E l \in ToSet(db[cf].lits) : level[VarOf(l)] = N
      BY <2>1 DEF Found
    <3>2. cf \in 1 .. Len(db) /\ InUse(cf)
      BY <3>1 DEF Live, InUse
    <3>3. QED
      BY <3>1, <3>2
  <2>3. \A l \in ToSet(db[cf].lits) : VarOf(l) # p /\ \E k \in 1 .. ix : decisions[k] = VarOf(l)
    <3> SUFFICES ASSUME NEW l \in ToSet(db[cf].lits)
                 PROVE  VarOf(l) # p /\ \E k \in 1 .. ix : decisions[k] = VarOf(l)
      OBVIOUS
    <3>1. l \in Lits /\ VarOf(l) \in Vars
      BY <1>5, <2>2
    <3>2. VarOf(l) # p
      BY <1>7, <3>1, LitFacts
    <3>3. value[VarOf(l)] # "UNASSIGNED"
      BY <2>2 DEF FalseIn
    <3>4. QED
      BY <1>2, <2>2, <3>1, <3>2, <3>3, TrailHas
  <2>4. Distinct(<<>>) /\ ToSet(<<>>) = {}
    BY DEF Distinct, ToSet
  <2>5. analysis.pathC <= Cardinality(ToCome)
    BY <1>f, <2>2
  <2>6. clean => seen = {} /\ analysis.pathC = Cardinality(ToCome)
    <3>1. clean => seen = {}
      BY <1>7, <1>e DEF Exact
    <3>2. seen = {} => ToCome = {}
      BY <1>f
    <3>3. QED
      BY <1>f, <2>2, <3>1, <3>2
  <2>7. \A a \in Sure : \E l \in ToSet(db[cf].lits) : Differ(value, a, VarOf(l))
    <3> SUFFICES ASSUME NEW a \in Sure PROVE \E l \in ToSet(db[cf].lits) : Differ(value, a, VarOf(l))
      OBVIOUS
    <3>1. a \in Assignments /\ Satisfies(a, db[cf].lits)
      BY <1>1, <2>2, Zenon DEF Sound, Sure, Models
    <3>2. PICK l \in ToSet(db[cf].lits) : Holds(l, a)
      BY <3>1 DEF Satisfies
    <3>3. l \in Lits
      BY <1>5, <2>2
    <3>4. Differ(value, a, VarOf(l))
      BY <1>3, <2>2, <3>1, <3>2, <3>3, LitValue
    <3>5. QED
      BY <3>4
  <2>8. p \notin seen /\ ix <= Len(decisions)
    <3>1. 0 \notin Vars
      BY SatAssumption DEF Vars
    <3>2. QED
      BY <1>3, <1>4, <1>7, <2>2, <3>1
  <2>9. \/ ToCome # {}
        \/ \E l \in ToSet(db[cf].lits) : VarOf(l) # p /\ VarOf(l) \notin seen /\ level[VarOf(l)] = N
    <3>1. PICK l \in ToSet(db[cf].lits) : level[VarOf(l)] = N
      BY <2>2
    <3>2. VarOf(l) # p /\ \E k \in 1 .. ix : decisions[k] = VarOf(l)
      BY <2>3
    <3>3. VarOf(l) \in seen => VarOf(l) \in ToCome
      BY <1>f, <3>1, <3>2
    <3>4. QED
      BY <3>1, <3>2, <3>3
  <2>10. QED
    BY <1>3, <1>6, <2>2, <2>3, <2>4, <2>5, <2>6, <2>7, <2>8, <2>9
<1>8. CASE p # 0
  <2>1. OnTheWay
    BY <1>1, <1>8 DEF AnalysisInv
  <2>2. /\ ix + 1 <= Len(decisions) /\ decisions[ix + 1] = p /\ level[p] = N /\ p \notin seen /\ cf = reason[p]
        /\ Distinct(analysis.learnt)
        /\ \A l \in ToSet(analysis.learnt) :
             FalseIn(value, l) /\ VarOf(l) \in seen /\ level[VarOf(l)] # 1 /\ level[VarOf(l)] # N
        /\ analysis.pathC <= Cardinality(ToCome)
        /\ analysis.pathC > 0
    BY <2>1 DEF OnTheWay
  <2>e. clean => /\ analysis.pathC = Cardinality(ToCome)
                 /\ \A v \in seen : v \in ToCome \/ v \in VarsOf(analysis.learnt)
                 /\ \A a \in Models : \E v \in seen \cup {p} : Differ(value, a, v)
    BY <1>8, <1>e DEF Exact
  <2>3. ix + 1 \in 1 .. Len(decisions)
    BY <1>3, <1>6, <2>2
  <2>4. PICK v \in ToCome : level[v] = N /\ \E k \in 1 .. ix : decisions[k] = v
    <3>1. ToCome # {}
      <4>1. Cardinality(ToCome) # 0
        BY <1>6, <1>f, <2>2
      <4>2. QED
        BY <1>f, <4>1, Zenon
    <3>2. QED
      BY <1>f, <3>1
  <2>5. PICK k \in 1 .. ix : decisions[k] = v
    BY <2>4
  <2>6. reason[p] # 0
    <3> SUFFICES ASSUME reason[p] = 0 PROVE FALSE
      OBVIOUS
    <3>1. reason[decisions[ix + 1]] = 0 /\ level[decisions[ix + 1]] >= 2
      BY <1>3, <2>2
    <3>2. ix + 1 = levelStart[level[decisions[ix + 1]]] + 1
      BY <1>2, <2>3, <3>1, ReasonAt
    <3>3. ix = levelStart[N]
      <4>1. ix + 1 = levelStart[N] + 1
        BY <2>2, <3>2, Zenon
      <4>2. QED
        BY <1>3, <1>6, <4>1
    <3>4. N \in 2 .. Len(levelStart) /\ k \in 1 .. Len(decisions)
      BY <1>3, <1>6, <2>2, <2>5
    <3>5. level[decisions[k]] >= N
      BY <1>3, <2>4, <2>5
    <3>6. k > levelStart[N]
      BY <1>2, <3>4, <3>5, TrailLevels
    <3>7. QED
      BY <1>3, <1>6, <2>5, <3>3, <3>6
  <2>7. cf \in 1 .. Len(db)
    <3>1. reason[decisions[ix + 1]] \in {0} \cup DOMAIN db
      BY <1>2, <2>3, ReasonAt
    <3>2. DOMAIN db = 1 .. Len(db)
      BY <1>1, SeenTypes
    <3>3. QED
      BY <2>2, <2>6, <3>1, <3>2
  <2>8. \A l \in ToSet(db[cf].lits) :
          IF VarOf(l) = p THEN TrueIn(value, l)
          ELSE FalseIn(value, l) /\ \E m \in 1 .. (ix + 1) - 1 : decisions[m] = VarOf(l)
    <3>1. Because(decisions, value, level, reason, db, ix + 1)
      BY <1>2, <2>3, ReasonAt
    <3>2. reason[decisions[ix + 1]] # 0 /\ reason[decisions[ix + 1]] = cf /\ decisions[ix + 1] = p
      BY <2>2, <2>6
    <3>3. QED
      BY <3>1, <3>2, Zenon DEF Because
  <2>9. (ix + 1) - 1 = ix /\ ix <= Len(decisions)
    BY <1>3, <1>6, <2>2
  <2>10. \A l \in ToSet(db[cf].lits) : VarOf(l) # p => FalseIn(value, l) /\ \E m \in 1 .. ix : decisions[m] = VarOf(l)
    BY <2>8, <2>9
  <2>11. \A a \in Sure : \/ \E u \in seen : Differ(value, a, u)
                         \/ \E l \in ToSet(db[cf].lits) : VarOf(l) # p /\ Differ(value, a, VarOf(l))
    <3> SUFFICES ASSUME NEW a \in Sure, ~\E u \in seen : Differ(value, a, u)
                 PROVE  \E l \in ToSet(db[cf].lits) : VarOf(l) # p /\ Differ(value, a, VarOf(l))
      OBVIOUS
    <3>1. Differ(value, a, p)
      BY <2>e DEF Sure
    <3>2. a \in Assignments /\ Satisfies(a, db[cf].lits)
      <4>1. p \in Vars /\ value[p] # "UNASSIGNED" /\ reason[p] = cf
        BY <1>2, <2>2, <2>3, TrailShape
      <4>2. InUse(cf)
        BY <4>1 DEF InUse
      <4>3. QED
        BY <1>1, <2>7, <4>2, Zenon DEF Sound, Sure, Models
    <3>3. PICK l \in ToSet(db[cf].lits) : Holds(l, a)
      BY <3>2 DEF Satisfies
    <3>4. l \in Lits
      BY <1>5, <2>7
    <3>5. VarOf(l) # p
      <4>1. VarOf(l) = p => TrueIn(value, l)
        BY <2>8
      <4>2. VarOf(l) = p => ~Differ(value, a, p)
        BY <1>3, <3>2, <3>3, <3>4, <4>1, LitValue
      <4>3. QED
        BY <3>1, <4>2
    <3>6. Differ(value, a, VarOf(l))
      BY <1>3, <2>10, <3>2, <3>3, <3>4, <3>5, LitValue
    <3>7. QED
      BY <3>5, <3>6
  <2>12. QED
    BY <1>3, <1>6, <2>2, <2>e, <2>4, <2>7, <2>9, <2>10, <2>11
<1>9. QED
  BY <1>7, <1>8

\* Two sequences about different variables.
LEMMA DistinctGlued ==
  ASSUME NEW T, NEW s \in Seq(T), NEW t \in Seq(T), Distinct(s), Distinct(t), VarsOf(s) \cap VarsOf(t) = {}
  PROVE  Distinct(s \o t) /\ VarsOf(s \o t) = VarsOf(s) \cup VarsOf(t)
<1> DEFINE g == s \o t
           a == Len(s)
           b == Len(t)
<1>1. /\ g \in Seq(T) /\ Len(g) = a + b /\ ToSet(g) = ToSet(s) \cup ToSet(t) /\ a \in Nat /\ b \in Nat
      /\ \A i \in 1 .. a : g[i] = s[i]
      /\ \A i \in 1 .. b : g[a + i] = t[i]
  BY Glued
<1>2. DOMAIN s = 1 .. a /\ DOMAIN t = 1 .. b /\ DOMAIN g = 1 .. a + b
  BY <1>1
<1> HIDE DEF g
<1>3. \A i \in 1 .. a + b : i \in 1 .. a \/ \E k \in 1 .. b : i = a + k
  <2> SUFFICES ASSUME NEW i \in 1 .. a + b, i \notin 1 .. a PROVE \E k \in 1 .. b : i = a + k
    OBVIOUS
  <2>1. i - a \in 1 .. b /\ i = a + (i - a)
    BY <1>1
  <2>2. QED
    BY <2>1
<1> HIDE DEF a, b
<1>4. \A i \in 1 .. a, k \in 1 .. b : VarOf(s[i]) # VarOf(t[k])
  <2> SUFFICES ASSUME NEW i \in 1 .. a, NEW k \in 1 .. b, VarOf(s[i]) = VarOf(t[k]) PROVE FALSE
    OBVIOUS
  <2>1. s[i] \in ToSet(s) /\ t[k] \in ToSet(t)
    BY <1>2, ToSetIs
  <2>2. VarOf(s[i]) \in VarsOf(s) /\ VarOf(t[k]) \in VarsOf(t)
    BY <2>1 DEF VarsOf
  <2>3. QED
    BY <2>2
<1>5. ASSUME NEW m \in 1 .. a + b, NEW n \in 1 .. a + b, VarOf(g[m]) = VarOf(g[n]) PROVE m = n
  <2>1. CASE m \in 1 .. a /\ n \in 1 .. a
    <3>1. VarOf(s[m]) = VarOf(s[n])
      BY <1>1, <1>5, <2>1
    <3>2. QED
      BY <1>2, <2>1, <3>1 DEF Distinct
  <2>2. CASE m \in 1 .. a /\ n \notin 1 .. a
    <3>1. PICK k \in 1 .. b : n = a + k
      BY <1>3, <2>2
    <3>2. g[m] = s[m] /\ g[n] = t[k]
      BY <1>1, <2>2, <3>1
    <3>3. QED
      BY <1>4, <1>5, <2>2, <3>2
  <2>3. CASE m \notin 1 .. a /\ n \in 1 .. a
    <3>1. PICK k \in 1 .. b : m = a + k
      BY <1>3, <2>3
    <3>2. g[n] = s[n] /\ g[m] = t[k]
      BY <1>1, <2>3, <3>1
    <3>3. QED
      BY <1>4, <1>5, <2>3, <3>2
  <2>4. CASE m \notin 1 .. a /\ n \notin 1 .. a
    <3>1. PICK k \in 1 .. b : m = a + k
      BY <1>3, <2>4
    <3>2. PICK j \in 1 .. b : n = a + j
      BY <1>3, <2>4
    <3>3. g[m] = t[k] /\ g[n] = t[j]
      BY <1>1, <3>1, <3>2
    <3>4. VarOf(t[k]) = VarOf(t[j])
      BY <1>5, <3>3
    <3>5. k = j
      BY <1>2, <3>4 DEF Distinct
    <3>6. QED
      BY <3>1, <3>2, <3>5
  <2>5. QED
    BY <2>1, <2>2, <2>3, <2>4
<1>6. Distinct(g)
  BY <1>2, <1>5 DEF Distinct
<1>7. VarsOf(g) = VarsOf(s) \cup VarsOf(t)
  BY <1>1 DEF VarsOf
<1>8. QED
  BY <1>6, <1>7 DEF g

\* Which levels are the newest one.
LEMMA NewestLevel ==
  ASSUME NEW D, NEW LS, NEW val, NEW lev, TrailOf(D, LS, val, lev), NEW m \in 2 .. Len(LS)
  PROVE  LS[m] >= LS[Len(LS)] <=> m = Len(LS)
<1>1. /\ LS \in Seq(Nat) /\ Len(LS) \in Nat /\ \A k \in 1 .. Len(LS) : LS[k] \in Nat
  BY TrailShape
<1>2. m \in 1 .. Len(LS) /\ Len(LS) \in 1 .. Len(LS) /\ m >= 2 /\ m <= Len(LS)
  BY <1>1
<1>3. m < Len(LS) => LS[m] < LS[Len(LS)]
  BY <1>2, Zenon DEF TrailOf
<1>4. LS[m] \in Nat /\ LS[Len(LS)] \in Nat
  BY <1>1, <1>2
<1>5. CASE m = Len(LS)
  BY <1>4, <1>5
<1>6. CASE m # Len(LS)
  <2>1. m < Len(LS)
    BY <1>1, <1>2, <1>6
  <2>2. QED
    BY <1>3, <1>4, <1>6, <2>1
<1>7. QED
  BY <1>5, <1>6

\* One round of the analysis resolves the clause with what has been seen.
LEMMA InspectReasonKeeps == SatInv /\ InspectReason /\ Remember => SatInv' /\ pc' # "crashed"
<1> SUFFICES ASSUME SatInv, InspectReason, Remember PROVE SatInv' /\ pc' # "crashed"
  OBVIOUS
<1> DEFINE N == Len(levelStart)
           C == db[analysis.confl].lits
           p == analysis.p
           ix == analysis.index
           flagged == seen \union VarsOf(Fresh)
           below == {k \in 1 .. ix : decisions[k] \in flagged}
           next == CHOOSE k \in below : \A m \in below : m <= k
           older == Only(Fresh, ToSet(Fresh) \ OfNewestLevel)
           newer == Only(Fresh, OfNewestLevel)
           paths == analysis.pathC + Len(newer) - 1
<1>p. pc = "analysing" /\ (clean' => clean)
  BY DEF InspectReason, Remember
<1>1. SatTypeOK /\ ClauseInv /\ TrailInv /\ ReasonInv /\ Sound /\ FactsInv /\ AnalysisInv
      /\ WatchInv /\ FlagInv /\ VisitInv /\ WatchersInv
  BY DEF SatInv
<1>2. TrailOf(decisions, levelStart, value, level)
  BY <1>1 DEF TrailInv
<1>3. /\ Len(decisions) \in Nat /\ value \in [Vars -> Values] /\ level \in [Vars -> Nat]
      /\ \A n \in 1 .. Len(decisions) : decisions[n] \in Vars /\ level[decisions[n]] \in 1 .. N
  BY <1>2, TrailShape
<1>4. /\ analysis.confl \in 1 .. Len(db) /\ N \in Nat /\ N > 1
      /\ ix \in Nat /\ ix <= Len(decisions) /\ p \notin seen
      /\ \A l \in ToSet(C) : VarOf(l) # p => FalseIn(value, l) /\ \E k \in 1 .. ix : decisions[k] = VarOf(l)
      /\ Distinct(analysis.learnt)
      /\ \A l \in ToSet(analysis.learnt) :
           FalseIn(value, l) /\ VarOf(l) \in seen /\ level[VarOf(l)] # 1 /\ level[VarOf(l)] # N
      /\ analysis.pathC <= Cardinality(ToCome)
      /\ clean => /\ analysis.pathC = Cardinality(ToCome)
                  /\ \A v \in seen : v \in ToCome \/ v \in VarsOf(analysis.learnt)
      /\ \A a \in Sure : \/ \E v \in seen : Differ(value, a, v)
                         \/ \E l \in ToSet(C) : VarOf(l) # p /\ Differ(value, a, VarOf(l))
      /\ \/ ToCome # {}
         \/ \E l \in ToSet(C) : VarOf(l) # p /\ VarOf(l) \notin seen /\ level[VarOf(l)] = N
  BY <1>p, Analysed
<1>5. analysis \in [confl : Nat, p : Nat, learnt : Seq(Lits), index : Nat, pathC : Int] /\ seen \subseteq Vars
      /\ analysis.learnt \in Seq(Lits)
  BY <1>1 DEF SatTypeOK
<1>c. /\ IsFiniteSet(ToCome) /\ Cardinality(ToCome) \in Nat
      /\ \A v : v \in ToCome <=> v \in seen /\ level[v] = N /\ \E k \in 1 .. ix : decisions[k] = v
  BY <1>5, ToComeIs
<1>6. C \in Seq(Lits) /\ Distinct(C) /\ \A l \in ToSet(C) : l \in Lits /\ VarOf(l) \in Vars
  <2>1. C \in Seq(Lits) /\ \A l \in ToSet(C) : l \in Lits
    BY <1>1, <1>4, SeenTypes
  <2>2. QED
    BY <1>1, <1>4, <2>1, LitFacts DEF ClauseInv
\* The literals that are new to the analysis.
<1>7. /\ Fresh \in Seq(Lits) /\ Distinct(Fresh)
      /\ \A q : q \in ToSet(Fresh) <=> q \in ToSet(C) /\ VarOf(q) # p /\ VarOf(q) \notin seen /\ level[VarOf(q)] # 1
  <2> DEFINE S == {q \in Lits : VarOf(q) # p /\ VarOf(q) \notin seen /\ level[VarOf(q)] # 1}
  <2>1. Fresh = Only(C, S)
    BY DEF Fresh
  <2>2. \A q \in ToSet(C) : q \in S <=> VarOf(q) # p /\ VarOf(q) \notin seen /\ level[VarOf(q)] # 1
    BY <1>6
  <2> HIDE DEF S, C
  <2>3. Only(C, S) \in Seq(Lits) /\ ToSet(Only(C, S)) = ToSet(C) \cap S /\ Distinct(Only(C, S))
    BY <1>6, OnlyIs
  <2>4. QED
    BY <2>1, <2>2, <2>3
<1>8. \A v : v \in VarsOf(Fresh) <=> \E q \in ToSet(Fresh) : v = VarOf(q)
  BY DEF VarsOf
<1>9. flagged \subseteq Vars /\ p \notin flagged
      /\ \A v \in VarsOf(Fresh) : level[v] \in 2 .. N /\ \E k \in 1 .. ix : decisions[k] = v
  <2>1. flagged \subseteq Vars /\ p \notin flagged
    BY <1>4, <1>5, <1>6, <1>7, <1>8
  <2>2. ASSUME NEW v \in VarsOf(Fresh) PROVE level[v] \in 2 .. N /\ \E k \in 1 .. ix : decisions[k] = v
    <3>1. v \in Vars /\ level[v] # 1 /\ \E k \in 1 .. ix : decisions[k] = v
      BY <1>4, <1>6, <1>7, <1>8
    <3>2. 1 .. ix \subseteq 1 .. Len(decisions)
      BY <1>3, <1>4
    <3>3. level[v] \in 1 .. N
      BY <1>3, <3>1, <3>2
    <3>4. QED
      BY <1>4, <3>1, <3>3
  <2>3. QED
    BY <2>1, <2>2
<1>11. \A q \in ToSet(Fresh) : q \in OfNewestLevel <=> level[VarOf(q)] = N
  <2> SUFFICES ASSUME NEW q \in ToSet(Fresh) PROVE q \in OfNewestLevel <=> level[VarOf(q)] = N
    OBVIOUS
  <2>1. level[VarOf(q)] \in 2 .. N
    BY <1>8, <1>9
  <2>2. levelStart[level[VarOf(q)]] >= levelStart[N] <=> level[VarOf(q)] = N
    BY <1>2, <2>1, NewestLevel
  <2>3. QED
    BY <2>2 DEF OfNewestLevel, Last
<1>12. \A a \in Sure : \E v \in flagged : Differ(value, a, v)
  <2> SUFFICES ASSUME NEW a \in Sure PROVE \E v \in flagged : Differ(value, a, v)
    OBVIOUS
  <2>1. CASE \E v \in seen : Differ(value, a, v)
    BY <2>1
  <2>2. CASE \E l \in ToSet(C) : VarOf(l) # p /\ Differ(value, a, VarOf(l))
    <3>1. PICK l \in ToSet(C) : VarOf(l) # p /\ Differ(value, a, VarOf(l))
      BY <2>2
    <3>2. VarOf(l) \in Vars /\ value[VarOf(l)] # "UNASSIGNED"
      BY <1>6, <3>1 DEF Differ
    <3>3. level[VarOf(l)] # 1
      BY <1>1, <3>1, <3>2 DEF FactsInv, FactsOf
    <3>4. VarOf(l) \in flagged
      BY <1>7, <1>8, <3>1, <3>3
    <3>5. QED
      BY <3>1, <3>4
  <2>3. QED
    BY <1>4, <2>1, <2>2
<1>13. PICK u \in flagged : level[u] = N /\ \E k \in 1 .. ix : decisions[k] = u
  <2>1. CASE ToCome # {}
    BY <1>c, <2>1
  <2>2. CASE \E l \in ToSet(C) : VarOf(l) # p /\ VarOf(l) \notin seen /\ level[VarOf(l)] = N
    <3>1. PICK l \in ToSet(C) : VarOf(l) # p /\ VarOf(l) \notin seen /\ level[VarOf(l)] = N
      BY <2>2
    <3>2. l \in ToSet(Fresh)
      BY <1>4, <1>7, <3>1
    <3>3. QED
      BY <1>8, <1>9, <3>1, <3>2
  <2>3. QED
    BY <1>4, <2>1, <2>2
<1>14. PICK k0 \in 1 .. ix : decisions[k0] = u
  BY <1>13
<1>15. below # {} /\ next \in below /\ \A m \in below : m <= next
  <2>1. k0 \in below /\ below \in SUBSET (1 .. ix)
    BY <1>14
  <2> HIDE DEF below, flagged
  <2> DEFINE top == Numbers!Top(below)
  <2>2. top \in below /\ \A m \in below : top >= m
    BY <1>4, <2>1, Numbers!MaxBelow
  <2>3. \E k \in below : \A m \in below : m <= k
    <3> HIDE DEF top
    <3>1. \A m \in below : m \in 1 .. ix
      BY <2>1
    <3>2. \A m \in below : m <= top
      BY <2>2, <3>1
    <3>3. QED
      BY <2>2, <3>2
  <2>4. QED
    BY <2>1, <2>3
<1> DEFINE w == decisions[next]
<1>16. /\ next \in 1 .. ix /\ next \in 1 .. Len(decisions) /\ w \in flagged /\ level[w] = N /\ w \in Vars /\ w # 0
       /\ next - 1 \in Nat
  <2>1. next \in 1 .. ix /\ w \in flagged /\ next \in 1 .. Len(decisions) /\ w \in Vars
    <3>1. \A k \in below : k \in 1 .. ix /\ decisions[k] \in flagged
      OBVIOUS
    <3>2. next \in 1 .. ix /\ w \in flagged
      BY <1>15, <3>1, Zenon
    <3> HIDE DEF next, below, flagged, w
    <3>3. next \in 1 .. Len(decisions)
      BY <1>3, <1>4, <3>2
    <3>4. QED
      BY <1>9, <3>2, <3>3
  <2>2. k0 <= next
    BY <1>14, <1>15
  <2>3. N \in 2 .. Len(levelStart) /\ k0 \in 1 .. Len(decisions) /\ level[decisions[k0]] >= N
    BY <1>3, <1>4, <1>13, <1>14
  <2>4. k0 > levelStart[N]
    BY <1>2, <2>3, TrailLevels
  <2>5. levelStart[N] \in Nat
    BY <1>2, <1>4, TrailShape
  <2>6. next > levelStart[N]
    BY <1>4, <2>1, <2>2, <2>3, <2>4, <2>5
  <2>7. level[w] >= N
    BY <1>2, <2>1, <2>3, <2>6, TrailLevels
  <2>8. level[w] \in 1 .. N
    BY <1>3, <2>1
  <2>9. level[w] = N /\ w # 0 /\ next - 1 \in Nat
    <3> DEFINE x == level[w]
    <3>1. x >= N /\ x \in 1 .. N /\ N \in Nat
      BY <1>4, <2>7, <2>8
    <3> HIDE DEF x, w, next
    <3>2. x = N
      BY <3>1
    <3>3. w # 0
      BY <2>1 DEF Vars
    <3>4. next - 1 \in Nat
      BY <1>4, <2>1
    <3>5. QED
      BY <3>2, <3>3, <3>4 DEF x
  <2>10. QED
    BY <2>1, <2>9
<1>17. /\ seen' = flagged \ {w}
       /\ analysis' = [confl |-> reason[w], p |-> w, learnt |-> analysis.learnt \o older, index |-> next - 1, pathC |-> paths]
       /\ pc' = IF paths > 0 THEN "analysing" ELSE "learning"
       /\ UNCHANGED <<problem, withTheory, toAdd, db, watch, satisfied, watchList, value, level, reason, locked, decisions,
                      levelStart, visit, decisionCount, answer>>
       /\ UNCHANGED <<trailVars, db, watch>>
  <2>0. analysis.confl # 0
    BY <1>4
  <2>1. analysis.confl # 0 /\ below # {}
    BY <1>15, <2>0, Zenon
  <2>2. /\ seen' = flagged \ {w}
        /\ analysis' = [confl |-> reason[w], p |-> w, learnt |-> analysis.learnt \o older, index |-> next - 1, pathC |-> paths]
        /\ pc' = IF paths > 0 THEN "analysing" ELSE "learning"
    BY <2>1 DEF InspectReason
  <2>3. QED
    BY <2>2 DEF InspectReason, formulaVars, clauseVars, trailVars
\* The literals of the older levels join the clause that is learnt.
<1>18. /\ older \in Seq(Lits) /\ Distinct(older)
       /\ \A q : q \in ToSet(older) <=> q \in ToSet(Fresh) /\ level[VarOf(q)] # N
  <2> DEFINE S == ToSet(Fresh) \ OfNewestLevel
  <2>1. Only(Fresh, S) \in Seq(Lits) /\ ToSet(Only(Fresh, S)) = ToSet(Fresh) \cap S /\ Distinct(Only(Fresh, S))
    BY <1>7, OnlyIs
  <2>2. QED
    BY <1>11, <2>1
<1>19. /\ newer \in Seq(Lits) /\ Distinct(newer)
       /\ \A q : q \in ToSet(newer) <=> q \in ToSet(Fresh) /\ level[VarOf(q)] = N
  <2>1. newer \in Seq(Lits) /\ ToSet(newer) = ToSet(Fresh) \cap OfNewestLevel /\ Distinct(newer)
    BY <1>7, OnlyIs
  <2>2. QED
    BY <1>11, <2>1 DEF OfNewestLevel
<1>20. /\ VarsOf(older) = {v \in VarsOf(Fresh) : level[v] # N}
       /\ VarsOf(newer) = {v \in VarsOf(Fresh) : level[v] = N}
       /\ VarsOf(Fresh) \cap seen = {}
  <2> HIDE DEF older, newer
  <2>1. \A v : v \in VarsOf(older) <=> v \in VarsOf(Fresh) /\ level[v] # N
    BY <1>18 DEF VarsOf
  <2>2. \A v : v \in VarsOf(newer) <=> v \in VarsOf(Fresh) /\ level[v] = N
    BY <1>19 DEF VarsOf
  <2>3. VarsOf(Fresh) \cap seen = {}
    BY <1>7, <1>8
  <2>4. QED
    BY <2>1, <2>2, <2>3
<1>21. /\ analysis.learnt \o older \in Seq(Lits)
       /\ ToSet(analysis.learnt \o older) = ToSet(analysis.learnt) \cup ToSet(older)
       /\ Distinct(analysis.learnt \o older)
       /\ VarsOf(analysis.learnt \o older) = VarsOf(analysis.learnt) \cup VarsOf(older)
  <2> DEFINE s == analysis.learnt
             t == older
  <2>1. s \in Seq(Lits) /\ t \in Seq(Lits) /\ Distinct(s) /\ Distinct(t) /\ VarsOf(s) \cap VarsOf(t) = {}
    <3>1. VarsOf(s) \subseteq seen /\ VarsOf(t) \subseteq VarsOf(Fresh)
      <4>1. VarsOf(s) \subseteq seen
        BY <1>4 DEF VarsOf
      <4>2. VarsOf(t) \subseteq VarsOf(Fresh)
        BY <1>20
      <4>3. QED
        BY <4>1, <4>2
    <3>2. VarsOf(s) \cap VarsOf(t) = {}
      BY <1>20, <3>1
    <3>3. QED
      BY <1>4, <1>5, <1>18, <3>2
  <2> HIDE DEF s, t
  <2>3. s \o t \in Seq(Lits) /\ ToSet(s \o t) = ToSet(s) \cup ToSet(t)
    BY <2>1, Glued
  <2>4. Distinct(s \o t) /\ VarsOf(s \o t) = VarsOf(s) \cup VarsOf(t)
    BY <2>1, DistinctGlued
  <2>5. QED
    BY <2>3, <2>4 DEF s, t
\* What is to come is what was to come and what is new, but for the variable it has come to.
<1>21a. w \in ToCome \cup VarsOf(newer)
  <2>1. \E k \in 1 .. ix : decisions[k] = w
    BY <1>16
  <2>2. w \in seen \/ w \in VarsOf(Fresh)
    BY <1>16
  <2>3. QED
    BY <1>c, <1>16, <1>20, <2>1, <2>2
<1>21b. \A v : v \in (ToCome \cup VarsOf(newer)) \ {w} <=>
              v \in flagged \ {w} /\ level[v] = N /\ \E k \in 1 .. next - 1 : decisions[k] = v
  <2>1. ASSUME NEW v, v # w, NEW k \in 1 .. ix, decisions[k] = v, v \in flagged PROVE k \in 1 .. next - 1
    <3>1. k \in below
      BY <2>1
    <3>2. k <= next
      BY <1>15, <3>1
    <3>3. k # next
      BY <2>1
    <3> HIDE DEF next, below, flagged, w
    <3>4. QED
      BY <1>4, <1>16, <2>1, <3>2, <3>3
  <2>2. 1 .. next - 1 \subseteq 1 .. ix
    <3> HIDE DEF next
    <3> QED BY <1>4, <1>16
  <2>3. ASSUME NEW v PROVE v \in ToCome \cup VarsOf(newer) <=>
                           v \in flagged /\ level[v] = N /\ \E k \in 1 .. ix : decisions[k] = v
    BY <1>c, <1>9, <1>20
  <2> HIDE DEF next, below, flagged, w, newer
  <2>4. QED
    BY <2>1, <2>2, <2>3
<1>22. /\ paths <= Cardinality((ToCome \cup VarsOf(newer)) \ {w}) /\ paths \in Int
       /\ analysis.pathC = Cardinality(ToCome) => paths = Cardinality((ToCome \cup VarsOf(newer)) \ {w})
  <2> DEFINE A == ToCome
             B == VarsOf(newer)
  <2>1. IsFiniteSet(B) /\ Cardinality(B) = Len(newer) /\ Len(newer) \in Nat
    BY <1>19, CountedVars
  <2>2. IsFiniteSet(A) /\ Cardinality(A) \in Nat /\ analysis.pathC \in Int /\ analysis.pathC <= Cardinality(A)
    BY <1>4, <1>5, <1>c
  <2>3. A \cap B = {}
    BY <1>c, <1>20
  <2>4. w \in A \cup B
    BY <1>21a
  <2> HIDE DEF A, B, w, newer
  <2>6. IsFiniteSet(A \cup B) /\ Cardinality(A \cup B) = Cardinality(A) + Cardinality(B) - Cardinality({})
    <3>1. IsFiniteSet(A \cup B) /\ Cardinality(A \cup B) = Cardinality(A) + Cardinality(B) - Cardinality(A \cap B)
      BY <2>1, <2>2, FS_Union
    <3>2. QED
      BY <2>3, <3>1
  <2>7. Cardinality((A \cup B) \ {w}) = Cardinality(A \cup B) - 1
    BY <2>4, <2>6, FS_RemoveElement
  <2>8. Cardinality(B) \in Nat /\ Cardinality({}) = 0
    BY <2>1, FS_EmptySet
  <2>9. Cardinality((A \cup B) \ {w}) = Cardinality(A) + Len(newer) - 1
    BY <2>1, <2>2, <2>6, <2>7, <2>8
  <2>10. paths = analysis.pathC + Len(newer) - 1
    OBVIOUS
  <2> HIDE DEF paths
  <2>11. QED
    BY <2>1, <2>2, <2>9, <2>10 DEF A, B
<1> HIDE DEF older, newer, paths, next, below, flagged, w
<1>23. /\ analysis'.confl = reason[w] /\ analysis'.p = w /\ analysis'.learnt = analysis.learnt \o older
       /\ analysis'.index = next - 1 /\ analysis'.pathC = paths
  BY <1>17
<1>24. ToCome' = (ToCome \cup VarsOf(newer)) \ {w} /\ VarsOf(analysis'.learnt) = VarsOf(analysis.learnt) \cup VarsOf(older)
  <2>1. ASSUME NEW v PROVE v \in ToCome' <=> v \in (ToCome \cup VarsOf(newer)) \ {w}
    BY <1>17, <1>21b, <1>23 DEF ToCome
  <2>2. QED
    BY <1>21, <1>23, <2>1
<1>25. OnTheWay'
  <2>1. analysis'.index + 1 = next /\ next <= Len(decisions)
    BY <1>4, <1>16, <1>23
  <2>2. analysis'.index + 1 <= Len(decisions') /\ decisions'[analysis'.index + 1] = analysis'.p
    BY <1>17, <1>23, <2>1 DEF w
  <2>3. /\ level'[analysis'.p] = Len(levelStart') /\ analysis'.p \notin seen'
        /\ analysis'.confl = reason'[analysis'.p]
    BY <1>16, <1>17, <1>23
  <2>4. Distinct(analysis'.learnt)
    BY <1>21, <1>23
  <2>5. ASSUME NEW l \in ToSet(analysis'.learnt)
        PROVE  FalseIn(value, l) /\ VarOf(l) \in seen' /\ level[VarOf(l)] # 1 /\ level[VarOf(l)] # N
    <3>1. l \in ToSet(analysis.learnt) \/ l \in ToSet(older)
      BY <1>21, <1>23
    <3>2. l \in ToSet(older) => /\ l \in ToSet(C) /\ VarOf(l) # p /\ VarOf(l) \in flagged
                              /\ level[VarOf(l)] # 1 /\ level[VarOf(l)] # N
      BY <1>7, <1>8, <1>18 DEF flagged
    <3>3. l \in ToSet(analysis.learnt) => VarOf(l) \in flagged
      BY <1>4 DEF flagged
    <3>4. level[VarOf(l)] # N => VarOf(l) # w
      BY <1>16
    <3>5. QED
      BY <1>4, <1>17, <3>1, <3>2, <3>3, <3>4
  <2>6. analysis'.pathC <= Cardinality(ToCome')
    BY <1>22, <1>23, <1>24
  <2>7. pc' = "analysing" <=> analysis'.pathC > 0
    BY <1>17, <1>23
  <2>8. QED
    BY <1>17, <2>2, <2>3, <2>4, <2>5, <2>6, <2>7 DEF OnTheWay
<1>26. AnalysisInv'
  <2>1. analysis'.p # 0 /\ Len(levelStart') > 1
    BY <1>4, <1>16, <1>17, <1>23
  <2>2. ASSUME clean'
        PROVE  /\ \A v \in seen' : v \in ToCome' \/ v \in VarsOf(analysis'.learnt)
               /\ analysis'.pathC = Cardinality(ToCome')
               /\ \A a \in Models' : \E v \in seen' \cup {analysis'.p} : Differ(value', a, v)
    <3>1. clean
      BY <1>p, <2>2
    <3>2. analysis'.pathC = Cardinality(ToCome')
      BY <1>4, <1>22, <1>23, <1>24, <3>1
    <3>3. ASSUME NEW v \in seen' PROVE v \in ToCome' \/ v \in VarsOf(analysis'.learnt)
      <4>1. v \in flagged /\ v # w
        BY <1>17
      <4>2. v \in ToCome \/ v \in VarsOf(analysis.learnt) \/ v \in VarsOf(newer) \/ v \in VarsOf(older)
        BY <1>4, <1>20, <3>1, <4>1 DEF flagged
      <4>3. QED
        BY <1>24, <4>1, <4>2
    <3>4. Models' = Models /\ seen' \cup {analysis'.p} = flagged /\ value' = value
      <4>1. Models' = Models
        BY <1>17, SameTrailAndClauses
      <4>2. QED
        BY <1>16, <1>17, <1>23, <4>1
    <3>5. \A a \in Models' : \E v \in seen' \cup {analysis'.p} : Differ(value', a, v)
      <4>1. \A a \in Models : \E v \in flagged : Differ(value, a, v)
        BY <1>12, <3>1 DEF Sure
      <4>2. QED
        BY <3>4, <4>1
    <3>6. QED
      BY <3>2, <3>3, <3>5
  <2>3. Exact'
    BY <2>1, <2>2 DEF Exact
  <2>4. QED
    BY <1>25, <2>1, <2>3 DEF AnalysisInv
<1>27. pc' \in {"analysing", "learning"}
  BY <1>17
<1>28. SatTypeOK'
  <2>1. seen' \subseteq Vars
    BY <1>9, <1>17
  <2>2. reason[w] \in Nat /\ w \in Nat
    BY <1>1, <1>16, SMTT(30) DEF SatTypeOK, Vars
  <2>3. analysis' \in [confl : Nat, p : Nat, learnt : Seq(Lits), index : Nat, pathC : Int]
    BY <1>16, <1>17, <1>21, <1>22, <2>2
  <2>4. QED
    BY <1>1, <1>17, <1>27, <2>1, <2>3 DEF SatTypeOK
<1>29. ClauseInv' /\ TrailInv' /\ ReasonInv' /\ UnitInv' /\ LockedInv' /\ Sound' /\ FactsInv'
      /\ Models' = Models /\ Sure' \subseteq Sure /\ Live' = Live
  BY <1>17, SameTrailAndClauses
<1>30. WatchInv' /\ FlagInv'
  BY <1>1, <1>17, <1>29 DEF WatchInv, FlagInv
<1>31. VisitInv'
  BY <1>1, <1>17, <1>27 DEF VisitInv
<1>32. WatchersInv'
  <2> SUFFICES ASSUME NEW c \in Live, NEW j \in {1, 2}, db[c].list \notin TheoryLists, FalseIn(value, watch[c][j])
               PROVE  Backed(c, j)' \/ Pending(<<c, j>>)'
    BY <1>17, <1>29 DEF WatchersInv
  <2>1. Backed(c, j) \/ Pending(<<c, j>>)
    BY <1>p, <1>1 DEF WatchersInv
  <2>2. QED
    BY <2>1, <1>17 DEF Backed, Pending, Ahead
<1>33. AddingInv' /\ AtRest' /\ AnswerInv'
  BY <1>27 DEF AddingInv, AtRest, AnswerInv
<1>35. ListInv'
  <2>1. ListInv /\ visit.list \in Seq(Watchers)
    BY <1>1 DEF SatInv, SatTypeOK
  <2>2. QED
    BY <1>17, <2>1, SameLists
<1>34. QED
  BY <1>35, <1>26, <1>27, <1>28, <1>29, <1>30, <1>31, <1>32, <1>33 DEF SatInv

-----------------------------------------------------------------------------
(* Conflict analysis: the clause that is learnt *)

\* Two elements change places.
LEMMA Exchanged ==
  ASSUME NEW T, NEW s \in Seq(T), NEW i \in 1 .. Len(s), Distinct(s), s # <<>>
  PROVE  LET t == [s EXCEPT ![1] = s[i], ![i] = s[1]]
         IN t \in Seq(T) /\ Len(t) = Len(s) /\ t[1] = s[i] /\ ToSet(t) = ToSet(s) /\ Distinct(t)
<1> DEFINE t == [s EXCEPT ![1] = s[i], ![i] = s[1]]
           n == Len(s)
<1>1. n \in Nat /\ n >= 1 /\ 1 \in 1 .. n /\ DOMAIN s = 1 .. n /\ s \in [1 .. n -> T]
  BY NotEmpty
<1>2. \A m \in 1 .. n : t[m] = IF m = i THEN s[1] ELSE IF m = 1 THEN s[i] ELSE s[m]
  BY <1>1
<1>3. t \in [1 .. n -> T]
  BY <1>1
<1>4. t \in Seq(T) /\ Len(t) = n /\ DOMAIN t = 1 .. n
  BY <1>1, <1>3
<1> HIDE DEF t, n
<1>5. t[1] = s[i]
  BY <1>1, <1>2
<1> DEFINE f(m) == IF m = i THEN 1 ELSE IF m = 1 THEN i ELSE m
<1>6. i \in 1 .. n /\ \A m \in 1 .. n : f(m) \in 1 .. n /\ t[m] = s[f(m)] /\ f(f(m)) = m
  BY <1>1, <1>2 DEF n
<1>7. ToSet(t) = ToSet(s)
  <2>1. ASSUME NEW x \in ToSet(t) PROVE x \in ToSet(s)
    <3>1. PICK m \in 1 .. n : x = t[m]
      BY <1>4 DEF ToSet
    <3>2. f(m) \in 1 .. n /\ x = s[f(m)]
      BY <1>6, <3>1
    <3>3. QED
      BY <1>1, <3>2, Zenon DEF ToSet
  <2>2. ASSUME NEW x \in ToSet(s) PROVE x \in ToSet(t)
    <3>1. PICK m \in 1 .. n : x = s[m]
      BY <1>1 DEF ToSet
    <3>2. f(m) \in 1 .. n /\ x = t[f(m)]
      BY <1>6, <3>1
    <3>3. QED
      BY <1>4, <3>2, Zenon DEF ToSet
  <2>3. QED
    BY <2>1, <2>2
<1>8. Distinct(t)
  <2> SUFFICES ASSUME NEW m \in 1 .. n, NEW k \in 1 .. n, VarOf(t[m]) = VarOf(t[k]) PROVE m = k
    BY <1>4 DEF Distinct
  <2>1. VarOf(s[f(m)]) = VarOf(s[f(k)]) /\ f(m) \in 1 .. n /\ f(k) \in 1 .. n
    BY <1>6
  <2>2. f(m) = f(k)
    <3> HIDE DEF f
    <3> QED BY <1>1, <2>1, Zenon DEF Distinct
  <2>3. QED
    BY <1>6, <2>2
<1>9. QED
  BY <1>4, <1>5, <1>7, <1>8 DEF t, n

\* When the analysis is over, all that this analysis has seen is in the clause that is learnt.
LEMMA Finished ==
  ASSUME SatInv, pc = "learning"
  PROVE  /\ Len(levelStart) \in Nat /\ Len(levelStart) > 1
         /\ analysis.p \in Vars /\ value[analysis.p] \in {"TRUE", "FALSE"} /\ level[analysis.p] = Len(levelStart)
         /\ analysis.p \notin seen /\ seen \subseteq Vars
         /\ analysis.learnt \in Seq(Lits) /\ Distinct(analysis.learnt)
         /\ \A l \in ToSet(analysis.learnt) :
              FalseIn(value, l) /\ VarOf(l) \in seen /\ level[VarOf(l)] \in 2 .. Len(levelStart) - 1
         /\ clean => /\ VarsOf(analysis.learnt) = seen
                     /\ \A v \in seen : \E n \in 1 .. Len(decisions) : decisions[n] = v
         /\ \A a \in Sure : \E v \in seen \cup {analysis.p} : Differ(value, a, v)
<1> DEFINE N == Len(levelStart)
           p == analysis.p
           ix == analysis.index
<1>1. SatTypeOK /\ TrailInv /\ AnalysisInv
  BY DEF SatInv
<1>2. TrailOf(decisions, levelStart, value, level)
  BY <1>1 DEF TrailInv
<1>3. /\ Len(decisions) \in Nat /\ N \in Nat /\ value \in [Vars -> Values] /\ level \in [Vars -> Nat]
      /\ \A n \in 1 .. Len(decisions) : decisions[n] \in Vars /\ level[decisions[n]] \in 1 .. N
                                        /\ value[decisions[n]] # "UNASSIGNED"
  BY <1>2, TrailShape
<1>4. OnTheWay /\ N > 1 /\ Exact /\ p # 0
  BY <1>1 DEF AnalysisInv, Found
<1>5. analysis \in [confl : Nat, p : Nat, learnt : Seq(Lits), index : Nat, pathC : Int] /\ seen \subseteq Vars
  BY <1>1 DEF SatTypeOK
<1>6. /\ ix + 1 <= Len(decisions) /\ decisions[ix + 1] = p /\ level[p] = N /\ p \notin seen
      /\ Distinct(analysis.learnt)
      /\ \A l \in ToSet(analysis.learnt) :
           FalseIn(value, l) /\ VarOf(l) \in seen /\ level[VarOf(l)] # 1 /\ level[VarOf(l)] # N
      /\ ~(analysis.pathC > 0)
  BY <1>4 DEF OnTheWay
<1>e. clean => /\ \A v \in seen : v \in ToCome \/ v \in VarsOf(analysis.learnt)
               /\ analysis.pathC = Cardinality(ToCome)
               /\ \A a \in Models : \E v \in seen \cup {p} : Differ(value, a, v)
  BY <1>4 DEF Exact
<1>7. ix \in Nat /\ ix + 1 \in 1 .. Len(decisions) /\ analysis.learnt \in Seq(Lits)
  BY <1>3, <1>5, <1>6
<1>8. p \in Vars /\ value[p] \in {"TRUE", "FALSE"}
  BY <1>3, <1>6, <1>7 DEF Values
<1>9. ASSUME NEW l \in ToSet(analysis.learnt)
      PROVE  level[VarOf(l)] \in 2 .. N - 1 /\ \E n \in 1 .. Len(decisions) : decisions[n] = VarOf(l)
  <2>1. VarOf(l) \in Vars /\ value[VarOf(l)] # "UNASSIGNED" /\ level[VarOf(l)] # 1 /\ level[VarOf(l)] # N
    BY <1>5, <1>6 DEF FalseIn
  <2>2. PICK n \in 1 .. Len(decisions) : decisions[n] = VarOf(l)
    BY <1>2, <2>1, TrailHas
  <2>3. level[VarOf(l)] \in 1 .. N
    BY <1>3, <2>2
  <2>4. QED
    BY <1>3, <2>1, <2>2, <2>3
<1>10. clean => /\ VarsOf(analysis.learnt) = seen
                /\ \A v \in seen : \E n \in 1 .. Len(decisions) : decisions[n] = v
  <2> SUFFICES ASSUME clean PROVE /\ VarsOf(analysis.learnt) = seen
                                  /\ \A v \in seen : \E n \in 1 .. Len(decisions) : decisions[n] = v
    OBVIOUS
  <2>1. ToCome = {}
    <3>1. Cardinality(ToCome) \in Nat /\ (ToCome = {} <=> Cardinality(ToCome) = 0)
      BY <1>5, ToComeIs
    <3>2. analysis.pathC = Cardinality(ToCome)
      BY <1>e
    <3>3. QED
      BY <1>6, <3>1, <3>2
  <2>2. VarsOf(analysis.learnt) \subseteq seen
    BY <1>6 DEF VarsOf
  <2>3. VarsOf(analysis.learnt) = seen
    BY <1>e, <2>1, <2>2
  <2>4. \A v \in VarsOf(analysis.learnt) : \E n \in 1 .. Len(decisions) : decisions[n] = v
    BY <1>9 DEF VarsOf
  <2>5. QED
    BY <2>3, <2>4
<1>11. \A a \in Sure : \E v \in seen \cup {p} : Differ(value, a, v)
  BY <1>e DEF Sure
<1>12. QED
  BY <1>3, <1>4, <1>5, <1>6, <1>7, <1>8, <1>9, <1>10, <1>11

\* The simplification drops nothing that is needed.
LEMMA KeptSuffices ==
  ASSUME SatInv, pc = "learning"
  PROVE  /\ Kept \in Seq(Lits) /\ Distinct(Kept) /\ ToSet(Kept) \subseteq ToSet(analysis.learnt)
         /\ \A a \in Sure : \/ Differ(value, a, analysis.p)
                            \/ \E l \in ToSet(Kept) : Differ(value, a, VarOf(l))
<1> DEFINE p == analysis.p
           L == analysis.learnt
           S == {l \in ToSet(L) : ~Redundant(l)}
<1>1. /\ p \in Vars /\ seen \subseteq Vars
      /\ L \in Seq(Lits) /\ Distinct(L)
      /\ \A l \in ToSet(L) : FalseIn(value, l)
      /\ clean => /\ VarsOf(L) = seen
                  /\ \A v \in seen : \E n \in 1 .. Len(decisions) : decisions[n] = v
      /\ \A a \in Sure : \E v \in seen \cup {p} : Differ(value, a, v)
  BY Finished
<1>2. Kept = Only(L, S)
  BY DEF Kept
<1>3. Kept \in Seq(Lits) /\ Distinct(Kept) /\ \A l : l \in ToSet(Kept) <=> l \in ToSet(L) /\ ~Redundant(l)
  <2>1. Only(L, S) \in Seq(Lits) /\ ToSet(Only(L, S)) = ToSet(L) \cap S /\ Distinct(Only(L, S))
    <3> HIDE DEF L, S
    <3> QED BY <1>1, OnlyIs
  <2>2. QED
    BY <1>2, <2>1
<1>4. SatTypeOK /\ TrailInv /\ ReasonInv /\ Sound /\ FactsInv
  BY DEF SatInv
<1>5. TrailOf(decisions, levelStart, value, level) /\ ReasonsOf(decisions, levelStart, value, level, reason, db)
  BY <1>4 DEF TrailInv, ReasonInv
<1>6. Len(decisions) \in Nat /\ value \in [Vars -> Values] /\ \A n \in 1 .. Len(decisions) : decisions[n] \in Vars
  BY <1>5, TrailShape
<1>7. ASSUME NEW a \in Sure, ~Differ(value, a, p)
      PROVE  \E l \in ToSet(Kept) : Differ(value, a, VarOf(l))
  <2>0. clean
    BY DEF Sure
  <2> DEFINE B == {n \in 1 .. Len(decisions) : decisions[n] \in seen /\ Differ(value, a, decisions[n])}
  <2>1. B # {} /\ B \subseteq Nat
    <3>1. PICK v \in seen : Differ(value, a, v)
      BY <1>1, <1>7
    <3>2. PICK n \in 1 .. Len(decisions) : decisions[n] = v
      BY <1>1, <2>0
    <3>3. n \in B
      BY <3>1, <3>2
    <3>4. QED
      BY <3>3
  <2>2. PICK n \in B : \A m \in B : n <= m
    <3> HIDE DEF B
    <3> QED BY <2>1, Numbers!LeastNat
  <2> DEFINE v == decisions[n]
  <2>3. n \in 1 .. Len(decisions) /\ v \in seen /\ Differ(value, a, v) /\ v \in Vars
    BY <1>6
  <2>4. PICK l \in ToSet(L) : VarOf(l) = v
    BY <1>1, <2>0, <2>3 DEF VarsOf
  <2>5. CASE l \in ToSet(Kept)
    BY <2>3, <2>4, <2>5
  <2>6. CASE l \notin ToSet(Kept)
    <3>1. Redundant(l)
      BY <1>3, <2>4, <2>6
    <3>2. reason[v] # 0 /\ \A r \in ToSet(db[reason[v]].lits) : VarOf(r) \in seen \/ level[VarOf(r)] = 1
      BY <2>4, <3>1 DEF Redundant
    <3>3. reason[v] \in 1 .. Len(db)
      <4>1. reason[v] \in {0} \cup DOMAIN db /\ DOMAIN db = 1 .. Len(db)
        BY <1>4, <1>5, <2>3, ReasonAt, SeenTypes
      <4>2. QED
        BY <3>2, <4>1
    <3>4. a \in Assignments /\ Satisfies(a, db[reason[v]].lits)
      <4>1. value[v] # "UNASSIGNED"
        BY <1>5, <2>3, TrailShape
      <4>2. InUse(reason[v])
        BY <2>3, <4>1 DEF InUse
      <4>3. QED
        BY <1>4, <3>3, <4>2, Zenon DEF Sound, Sure, Models
    <3>5. PICK r \in ToSet(db[reason[v]].lits) : Holds(r, a)
      BY <3>4 DEF Satisfies
    <3>6. r \in Lits /\ VarOf(r) \in Vars
      BY <1>4, <3>3, SeenTypes, LitFacts
    <3>7. IF VarOf(r) = v THEN TrueIn(value, r)
          ELSE FalseIn(value, r) /\ \E m \in 1 .. n - 1 : decisions[m] = VarOf(r)
      <4>1. Because(decisions, value, level, reason, db, n)
        BY <1>5, <2>3, ReasonAt
      <4>2. QED
        BY <3>2, <4>1, Zenon DEF Because
    <3>8. VarOf(r) # v
      <4>1. VarOf(r) = v => ~Differ(value, a, v)
        BY <1>6, <3>4, <3>5, <3>6, <3>7, LitValue
      <4>2. QED
        BY <2>3, <4>1
    <3>9. Differ(value, a, VarOf(r)) /\ value[VarOf(r)] # "UNASSIGNED"
      BY <1>6, <3>4, <3>5, <3>6, <3>7, <3>8, LitValue DEF FalseIn
    <3>10. VarOf(r) \in seen
      <4>1. level[VarOf(r)] = 1 => ~Differ(value, a, VarOf(r))
        BY <1>4, <3>6, <3>9 DEF FactsInv, FactsOf
      <4>2. QED
        BY <3>2, <3>5, <3>9, <4>1
    <3>11. PICK m \in 1 .. n - 1 : decisions[m] = VarOf(r)
      BY <3>7, <3>8
    <3>12. m \in B /\ ~(n <= m)
      BY <1>6, <2>3, <3>9, <3>10, <3>11
    <3>13. QED
      BY <2>2, <3>12
  <2>7. QED
    BY <2>5, <2>6
<1>8. QED
  BY <1>3, <1>7

\* The literal whose level is the newest, and the first of those.
LEMMA NewestIs ==
  ASSUME SatInv, pc = "learning", Kept # <<>>
  PROVE  /\ Newest \in 1 .. Len(Kept)
         /\ \A m \in 1 .. Len(Kept) : level[VarOf(Kept[m])] <= level[VarOf(Kept[Newest])]
<1> DEFINE N == Len(levelStart)
           lv(m) == level[VarOf(Kept[m])]
<1>1. Kept \in Seq(Lits) /\ ToSet(Kept) \subseteq ToSet(analysis.learnt)
  BY KeptSuffices
<1>2. N \in Nat /\ N > 1 /\ \A l \in ToSet(analysis.learnt) : level[VarOf(l)] \in 2 .. N - 1
  BY Finished
<1>3. Len(Kept) \in Nat /\ Len(Kept) >= 1 /\ DOMAIN Kept = 1 .. Len(Kept)
  BY <1>1, NotEmpty
<1>4. \A m \in 1 .. Len(Kept) : lv(m) \in 2 .. N - 1
  <2> SUFFICES ASSUME NEW m \in 1 .. Len(Kept) PROVE lv(m) \in 2 .. N - 1
    OBVIOUS
  <2>1. Kept[m] \in ToSet(analysis.learnt)
    BY <1>1, <1>3, ToSetIs
  <2>2. QED
    BY <1>2, <2>1
\* The levels of the trail are in the order of their numbers.
<1>5. \A i, j \in 2 .. N - 1 : levelStart[i] < levelStart[j] <=> i < j
  <2> SUFFICES ASSUME NEW i \in 2 .. N - 1, NEW j \in 2 .. N - 1 PROVE levelStart[i] < levelStart[j] <=> i < j
    OBVIOUS
  <2>1. TrailOf(decisions, levelStart, value, level)
    BY DEF SatInv, TrailInv
  <2>2. i \in 1 .. N /\ j \in 1 .. N /\ i >= 2 /\ j >= 2 /\ i \in Nat /\ j \in Nat
    BY <1>2
  <2>3. levelStart[i] \in Nat /\ levelStart[j] \in Nat
    BY <2>1, <2>2, TrailShape
  <2>4. (i < j => levelStart[i] < levelStart[j]) /\ (j < i => levelStart[j] < levelStart[i])
    BY <2>1, <2>2, Zenon DEF TrailOf
  <2>5. CASE i = j
    BY <2>3, <2>5
  <2>6. CASE i # j
    BY <2>2, <2>3, <2>4, <2>6
  <2>7. QED
    BY <2>5, <2>6
<1> DEFINE Best(n) == \A m \in DOMAIN Kept : \/ levelStart[lv(m)] < levelStart[lv(n)]
                                             \/ lv(m) = lv(n) /\ n <= m
           Z == {lv(m) : m \in 1 .. Len(Kept)}
           top == Numbers!Top(Z)
           F == {m \in 1 .. Len(Kept) : lv(m) = top}
<1>6. top \in Z /\ \A z \in Z : top >= z
  <2>1. Z \in SUBSET (1 .. N) /\ Z # {}
    <3>1. 1 \in 1 .. Len(Kept)
      BY <1>3
    <3>2. \A m \in 1 .. Len(Kept) : lv(m) \in 1 .. N
      BY <1>2, <1>4
    <3>3. QED
      BY <3>1, <3>2
  <2> HIDE DEF Z
  <2>2. QED
    BY <1>2, <2>1, Numbers!MaxBelow
<1> HIDE DEF top
<1>7. PICK n \in F : \A m \in F : n <= m
  <2>1. F \subseteq Nat /\ F # {}
    BY <1>6
  <2> HIDE DEF F
  <2>2. QED
    BY <2>1, Numbers!LeastNat
<1>8. n \in DOMAIN Kept /\ Best(n)
  <2>1. n \in 1 .. Len(Kept) /\ lv(n) = top
    BY <1>7
  <2>2. ASSUME NEW m \in 1 .. Len(Kept) PROVE levelStart[lv(m)] < levelStart[lv(n)] \/ (lv(m) = lv(n) /\ n <= m)
    <3>1. lv(m) \in 2 .. N - 1 /\ lv(n) \in 2 .. N - 1 /\ lv(n) >= lv(m)
      BY <1>4, <1>6, <2>1
    <3>2. CASE lv(m) = lv(n)
      BY <1>7, <2>1, <3>2
    <3>3. CASE lv(m) # lv(n)
      <4>1. lv(m) < lv(n)
        BY <3>1, <3>3
      <4>2. QED
        BY <1>5, <3>1, <4>1
    <3>4. QED
      BY <3>2, <3>3
  <2>3. QED
    BY <1>3, <2>1, <2>2
<1> HIDE DEF F, Z
<1>9. Newest \in DOMAIN Kept /\ Best(Newest)
  BY <1>8 DEF Newest
<1>10. ASSUME NEW m \in 1 .. Len(Kept) PROVE lv(m) <= lv(Newest)
  <2>1. Newest \in 1 .. Len(Kept)
    BY <1>3, <1>9
  <2>2. lv(m) \in 2 .. N - 1 /\ lv(Newest) \in 2 .. N - 1
    BY <1>4, <2>1
  <2>3. levelStart[lv(m)] < levelStart[lv(Newest)] \/ lv(m) = lv(Newest)
    BY <1>3, <1>9
  <2>4. levelStart[lv(m)] < levelStart[lv(Newest)] => lv(m) < lv(Newest)
    BY <1>5, <2>2
  <2> DEFINE x == lv(m)
             y == lv(Newest)
  <2>5. x \in 2 .. N - 1 /\ y \in 2 .. N - 1 /\ (x < y \/ x = y)
    BY <2>2, <2>3, <2>4
  <2> HIDE DEF x, y
  <2>6. x <= y
    BY <1>2, <2>5
  <2>7. QED
    BY <2>6 DEF x, y
<1>11. QED
  BY <1>3, <1>9, <1>10

\* The clause that is learnt: it follows from the given clauses, and below the level it jumps
\* back to all of it but the assertion is false.
LEMMA LearntFacts ==
  ASSUME SatInv, pc = "learning"
  PROVE  /\ Learnt \in Seq(Lits) /\ Distinct(Learnt) /\ Len(Learnt) \in Nat /\ Len(Learnt) >= 1
         /\ Learnt[Len(Learnt)] = Assertion
         /\ Assertion \in Lits /\ VarOf(Assertion) = analysis.p /\ analysis.p \in Vars
         /\ value[analysis.p] # "UNASSIGNED" /\ level[analysis.p] = Len(levelStart)
         /\ \A a \in Sure : Satisfies(a, Learnt)
         /\ BackLevel \in Nat /\ BackLevel >= 1 /\ BackLevel < Len(levelStart) /\ Len(levelStart) \in Nat
         /\ \A l \in ToSet(Learnt) : l # Assertion =>
              VarOf(l) # analysis.p /\ FalseIn(value, l) /\ level[VarOf(l)] \in 2 .. BackLevel
         /\ Len(Learnt) = 1 => Learnt = <<Assertion>> /\ BackLevel = 1
         /\ Len(Learnt) # 1 => Len(Learnt) > 1 /\ BackLevel >= 2 /\ level[VarOf(Learnt[1])] = BackLevel
         /\ clean => seen \ Cleared = {}
<1> DEFINE p == analysis.p
           L == analysis.learnt
           N == Len(levelStart)
<1>1. /\ N \in Nat /\ N > 1
      /\ p \in Vars /\ value[p] \in {"TRUE", "FALSE"} /\ level[p] = N /\ p \notin seen
      /\ L \in Seq(Lits) /\ (clean => VarsOf(L) = seen)
      /\ \A l \in ToSet(L) : FalseIn(value, l) /\ VarOf(l) \in seen /\ level[VarOf(l)] \in 2 .. N - 1
  BY Finished
<1>2. /\ Kept \in Seq(Lits) /\ Distinct(Kept) /\ ToSet(Kept) \subseteq ToSet(L)
      /\ \A a \in Sure : Differ(value, a, p) \/ \E l \in ToSet(Kept) : Differ(value, a, VarOf(l))
  BY KeptSuffices
<1>3. value \in [Vars -> Values]
  <2>1. TrailOf(decisions, levelStart, value, level)
    BY DEF SatInv, TrailInv
  <2>2. QED
    BY <2>1, TrailShape
<1>4. Assertion \in Lits /\ VarOf(Assertion) = p /\ FalseIn(value, Assertion)
  <2>1. p \in Nat /\ p >= 1 /\ p \in Lits /\ -p \in Lits /\ MaxVar \in Nat
    BY <1>1, SatAssumption DEF Vars, Lits
  <2>2. VarOf(p) = p /\ SignOf(p) = "TRUE" /\ VarOf(-p) = p /\ SignOf(-p) = "FALSE"
    BY <2>1 DEF VarOf, SignOf
  <2>3. CASE value[p] = "FALSE"
    BY <2>1, <2>2, <2>3 DEF Assertion, FalseIn
  <2>4. CASE value[p] = "TRUE"
    BY <2>1, <2>2, <2>4 DEF Assertion, FalseIn
  <2>5. QED
    BY <1>1, <2>3, <2>4
<1>5. \A l \in ToSet(Kept) : l \in Lits /\ VarOf(l) # p /\ FalseIn(value, l) /\ level[VarOf(l)] \in 2 .. N - 1
  <2> SUFFICES ASSUME NEW l \in ToSet(Kept)
               PROVE  l \in Lits /\ VarOf(l) # p /\ FalseIn(value, l) /\ level[VarOf(l)] \in 2 .. N - 1
    OBVIOUS
  <2>1. l \in Lits /\ l \in ToSet(L)
    BY <1>2, ToSetIs
  <2>2. QED
    BY <1>1, <2>1
\* Some true literal of Kept, or the assertion.
<1>6. ASSUME NEW a \in Sure, \A l \in ToSet(Kept) : ~Holds(l, a) PROVE Holds(Assertion, a)
  <2>1. a \in Assignments
    BY DEF Sure, Models
  <2>2. \A l \in ToSet(Kept) : ~Differ(value, a, VarOf(l))
    BY <1>3, <1>5, <1>6, <2>1, LitValue
  <2>3. Differ(value, a, p)
    BY <1>2, <1>6, <2>2
  <2>4. QED
    BY <1>3, <1>4, <2>1, <2>3, LitValue
<1>7. clean => seen \ Cleared = {}
  BY <1>1 DEF Cleared
<1>8. CASE Kept = <<>>
  <2>1. Learnt = <<Assertion>> /\ BackLevel = 1
    BY <1>8 DEF Learnt, BackLevel
  <2>2. ToSet(Kept) = {}
    BY <1>8 DEF ToSet
  <2> DEFINE A == Assertion
             s == <<A>>
  <2>3. A \in Lits
    BY <1>4
  <2> HIDE DEF A
  <2>4. s \in Seq(Lits) /\ Len(s) = 1 /\ s[1] = A /\ ToSet(s) = {A} /\ DOMAIN s = 1 .. 1
    BY <2>3 DEF ToSet
  <2>5. Distinct(s)
    BY <2>4 DEF Distinct
  <2>6. \A a \in Sure : Satisfies(a, s)
    BY <1>6, <2>2, <2>4 DEF Satisfies, A
  <2>7. Learnt = s
    BY <2>1 DEF A
  <2>8. A = Assertion
    BY DEF A
  <2> HIDE DEF s
  <2>9. /\ Learnt \in Seq(Lits) /\ Distinct(Learnt) /\ Len(Learnt) = 1 /\ Learnt[1] = Assertion
        /\ ToSet(Learnt) = {Assertion} /\ \A a \in Sure : Satisfies(a, Learnt)
    BY <2>4, <2>5, <2>6, <2>7, <2>8, Zenon
  <2>10. QED
    BY <1>1, <1>4, <1>7, <2>1, <2>9
<1>9. CASE Kept # <<>>
  <2> DEFINE t == [Kept EXCEPT ![1] = Kept[Newest], ![Newest] = Kept[1]]
  <2>1. /\ Newest \in 1 .. Len(Kept)
        /\ \A m \in 1 .. Len(Kept) : level[VarOf(Kept[m])] <= level[VarOf(Kept[Newest])]
    BY <1>9, NewestIs
  <2>2. t \in Seq(Lits) /\ Len(t) = Len(Kept) /\ t[1] = Kept[Newest] /\ ToSet(t) = ToSet(Kept) /\ Distinct(t)
    BY <1>2, <1>9, <2>1, Exchanged, Zenon
  <2>3. Learnt = Append(t, Assertion) /\ BackLevel = level[VarOf(Kept[Newest])]
    BY <1>9 DEF Learnt, BackLevel, Swapped
  <2>4. Len(Kept) \in Nat /\ Len(Kept) >= 1 /\ DOMAIN Kept = 1 .. Len(Kept)
    BY <1>2, <1>9, NotEmpty
  <2> HIDE DEF t
  <2>5. /\ Learnt \in Seq(Lits) /\ Len(Learnt) = Len(t) + 1 /\ ToSet(Learnt) = ToSet(t) \cup {Assertion}
        /\ Learnt[Len(t) + 1] = Assertion /\ \A i \in 1 .. Len(t) : Learnt[i] = t[i]
    BY <1>4, <2>2, <2>3, OneMore
  <2>6. Len(Learnt) \in Nat /\ Len(Learnt) > 1 /\ Learnt[Len(Learnt)] = Assertion /\ Learnt[1] = Kept[Newest]
    BY <2>2, <2>4, <2>5
  <2>7. Kept[Newest] \in ToSet(Kept)
    BY <1>2, <2>1, <2>4, ToSetIs
  <2>8. BackLevel \in 2 .. N - 1
    BY <1>5, <2>3, <2>7
  <2>9. \A l \in ToSet(Learnt) : l # Assertion =>
          VarOf(l) # p /\ FalseIn(value, l) /\ level[VarOf(l)] \in 2 .. BackLevel
    <3> SUFFICES ASSUME NEW l \in ToSet(Kept) PROVE level[VarOf(l)] \in 2 .. BackLevel
      BY <1>5, <2>2, <2>5
    <3>1. PICK m \in 1 .. Len(Kept) : l = Kept[m]
      BY <2>4 DEF ToSet
    <3> DEFINE x == level[VarOf(l)]
    <3>2. x <= BackLevel /\ x \in 2 .. N - 1
      BY <1>5, <2>1, <2>3, <3>1
    <3> HIDE DEF x
    <3>3. x \in 2 .. BackLevel
      BY <1>1, <2>8, <3>2
    <3>4. QED
      BY <3>3 DEF x
  <2>10. Distinct(Learnt)
    <3>1. \A m \in 1 .. Len(t) : VarOf(Learnt[m]) # p
      BY <1>5, <2>2, <2>5, ToSetIs
    <3>2. DOMAIN t = 1 .. Len(t) /\ DOMAIN Learnt = 1 .. Len(t) + 1 /\ Len(t) \in Nat
      BY <2>2, <2>5
    <3>3. \A m \in 1 .. Len(t) + 1 : m \in 1 .. Len(t) \/ m = Len(t) + 1
      BY <3>2
    <3>4. QED
      BY <1>4, <2>2, <2>5, <3>1, <3>2, <3>3, Zenon DEF Distinct
  <2>11. \A a \in Sure : Satisfies(a, Learnt)
    BY <1>6, <2>2, <2>5, Zenon DEF Satisfies
  <2>12. level[VarOf(Learnt[1])] = BackLevel
    BY <2>3, <2>6
  <2>13. BackLevel \in Nat /\ BackLevel >= 2 /\ BackLevel < N
    BY <1>1, <2>8
  <2>14. Learnt \in Seq(Lits) /\ Distinct(Learnt) /\ Len(Learnt) >= 1 /\ Len(Learnt) # 1
    BY <2>5, <2>6, <2>10
  <2>15. BackLevel >= 1
    BY <2>13
  <2> HIDE DEF L
  <2>16. QED
    BY <1>1, <1>4, <1>7, <2>6, <2>9, <2>11, <2>12, <2>13, <2>14, <2>15, Zenon
<1>10. QED
  BY <1>8, <1>9

-----------------------------------------------------------------------------
(* Backtracking and learning *)

\* After backTrack to level k the trail is the one of level k, the reasons are right, and every
\* watcher and every flag is in order, although no watcher has moved.
LEMMA BackTrackedFacts ==
  ASSUME SatInv, pc # "adding", NEW k \in Nat, k >= 1, k < Len(levelStart)
  PROVE  LET b == BackTracked(k) IN
         /\ Len(b.decisions) = levelStart[k + 1] /\ Len(b.levelStart) = k
         /\ \A n \in 1 .. Len(b.decisions) : b.decisions[n] = decisions[n]
         /\ b.value \in [Vars -> Values] /\ b.reason \in [Vars -> Nat]
         /\ \A v \in Vars : b.value[v] = IF value[v] # "UNASSIGNED" /\ level[v] > k THEN "UNASSIGNED" ELSE value[v]
         /\ \A v \in Vars : b.value[v] # "UNASSIGNED" => b.reason[v] = reason[v]
         /\ TrailOf(b.decisions, b.levelStart, b.value, level)
         /\ ReasonsOf(b.decisions, b.levelStart, b.value, level, b.reason, db)
         /\ b.satisfied \subseteq 1 .. Len(db)
         /\ \A c \in Live \cap b.satisfied : TrueIn(b.value, watch[c][1]) \/ TrueIn(b.value, watch[c][2])
         /\ \A c \in Live : \A j \in {1, 2} : db[c].list \notin TheoryLists /\ FalseIn(b.value, watch[c][j]) =>
              TrueIn(b.value, watch[c][3 - j]) /\ level[VarOf(watch[c][3 - j])] <= level[VarOf(watch[c][j])]
         /\ FactsOf(Sure, b.value, level)
         /\ \A c \in 1 .. Len(db) : Len(db[c].lits) = 1 /\ db[c].list # "dropped" =>
              TrueIn(b.value, db[c].lits[1]) /\ level[VarOf(db[c].lits[1])] = 1
         /\ k >= 2 => b.levelStart[k] < Len(b.decisions)
<1> DEFINE b == BackTracked(k)
           N == Len(levelStart)
           gone == {decisions[n] : n \in (levelStart[k + 1] + 1) .. Len(decisions)}
           rewatched == UNION {{w[1] : w \in ToSet(watchList[v])} : v \in gone}
           Val(v) == IF v \in gone THEN "UNASSIGNED" ELSE value[v]
           Lost(v) == value[v] # "UNASSIGNED" /\ level[v] > k
<1>1. SatTypeOK /\ ClauseInv /\ WatchInv /\ FlagInv /\ WatchersInv /\ FactsInv /\ UnitInv /\ TrailInv /\ ReasonInv
  BY DEF SatInv
<1>2. TrailOf(decisions, levelStart, value, level) /\ ReasonsOf(decisions, levelStart, value, level, reason, db)
  BY <1>1 DEF TrailInv, ReasonInv
<1>3. /\ N \in Nat /\ value \in [Vars -> Values] /\ level \in [Vars -> Nat] /\ Len(decisions) \in Nat
      /\ \A n \in 1 .. Len(decisions) : decisions[n] \in Vars
  BY <1>2, TrailShape
<1>4. k \in 1 .. N
  BY <1>3
<1>5. /\ b.decisions = SubSeq(decisions, 1, levelStart[k + 1]) /\ b.levelStart = SubSeq(levelStart, 1, k)
      /\ b.value = [v \in Vars |-> Val(v)]
      /\ b.reason = [v \in Vars |-> IF v \in gone THEN 0 ELSE reason[v]]
      /\ b.satisfied = (satisfied \ rewatched) \cup
                       {c \in rewatched : \E n \in 1 .. 2 : Val(VarOf(watch[c][n])) = SignOf(watch[c][n])}
  BY DEF BackTracked
<1>6. \A v \in Vars : v \in gone <=> Lost(v)
  <2> HIDE DEF gone
  <2>1. \A v \in Vars : v \in gone <=> value[v] # "UNASSIGNED" /\ level[v] > k
    BY <1>2, <1>4, Gone DEF gone
  <2>2. QED
    BY <2>1
<1>7. gone \subseteq Vars
  <2>1. levelStart[k + 1] \in Nat
    <3>1. k + 1 \in 1 .. N
      BY <1>3
    <3>2. QED
      BY <1>2, <3>1, TrailShape
  <2>2. QED
    BY <1>3, <2>1
<1> HIDE DEF gone
<1> HIDE DEF b
<1>8. b.value \in [Vars -> Values] /\ \A v \in Vars : b.value[v] = IF Lost(v) THEN "UNASSIGNED" ELSE value[v]
  <2>1. \A v \in Vars : b.value[v] = IF Lost(v) THEN "UNASSIGNED" ELSE value[v]
    BY <1>5, <1>6
  <2>2. \A v \in Vars : Val(v) \in Values
    BY <1>3 DEF Values
  <2>3. QED
    <3> HIDE DEF Lost, Val
    <3> QED BY <1>5, <2>1, <2>2
<1>9. b.reason \in [Vars -> Nat] /\ \A v \in Vars : b.reason[v] = IF Lost(v) THEN 0 ELSE reason[v]
  <2>1. reason \in [Vars -> Nat]
    BY <1>1 DEF SatTypeOK
  <2>2. \A v \in Vars : (IF v \in gone THEN 0 ELSE reason[v]) \in Nat
    BY <2>1
  <2>3. b.reason \in [Vars -> Nat]
    BY <1>5, <2>2
  <2>4. \A v \in Vars : b.reason[v] = IF Lost(v) THEN 0 ELSE reason[v]
    BY <1>5, <1>6
  <2>5. QED
    BY <2>3, <2>4
<1>10. /\ TrailOf(b.decisions, b.levelStart, b.value, level)
       /\ levelStart[k + 1] \in Nat /\ levelStart[k + 1] <= Len(decisions)
       /\ Len(b.decisions) = levelStart[k + 1] /\ Len(b.levelStart) = k
       /\ \A n \in 1 .. k : b.levelStart[n] = levelStart[n]
       /\ \A n \in 1 .. levelStart[k + 1] : b.decisions[n] = decisions[n]
       /\ k >= 2 => levelStart[k] < levelStart[k + 1]
  <2> DEFINE val1 == b.value
  <2> HIDE DEF val1
  <2>1. val1 \in [Vars -> Values] /\ CutValues(val1, value, level, k)
    BY <1>8 DEF val1, CutValues
  <2>2. k < Len(levelStart) /\ k \in 1 .. Len(levelStart)
    BY <1>4
  <2>3. /\ TrailOf(SubSeq(decisions, 1, levelStart[k + 1]), SubSeq(levelStart, 1, k), val1, level)
        /\ levelStart[k + 1] \in Nat /\ levelStart[k + 1] <= Len(decisions)
        /\ Len(SubSeq(decisions, 1, levelStart[k + 1])) = levelStart[k + 1] /\ Len(SubSeq(levelStart, 1, k)) = k
        /\ \A n \in 1 .. k : SubSeq(levelStart, 1, k)[n] = levelStart[n]
        /\ \A n \in 1 .. levelStart[k + 1] : SubSeq(decisions, 1, levelStart[k + 1])[n] = decisions[n]
        /\ k >= 2 => levelStart[k] < levelStart[k + 1]
    BY <1>2, <2>1, <2>2, TrailCut, SMTT(30)
  <2>4. QED
    BY <1>5, <2>3 DEF val1
<1>11. ReasonsOf(b.decisions, b.levelStart, b.value, level, b.reason, db)
  <2> DEFINE val1 == b.value
             rs1 == b.reason
  <2> HIDE DEF val1, rs1
  <2>1. val1 \in [Vars -> Values] /\ CutValues(val1, value, level, k)
    BY <1>8 DEF val1, CutValues
  <2>2. CutReasons(rs1, reason, value, level, k)
    BY <1>9 DEF rs1, CutReasons
  <2>3. k < Len(levelStart) /\ k \in 1 .. Len(levelStart)
    BY <1>4
  <2>4. ReasonsOf(SubSeq(decisions, 1, levelStart[k + 1]), SubSeq(levelStart, 1, k), val1, level, rs1, db)
    BY <1>2, <2>1, <2>2, <2>3, ReasonsCut, Zenon
  <2>5. QED
    BY <1>5, <2>4 DEF val1, rs1
\* What is left of the values.
<1>12. \A l \in Lits : (TrueIn(value, l) \/ FalseIn(value, l)) /\ level[VarOf(l)] <= k => b.value[VarOf(l)] = value[VarOf(l)]
  <2> SUFFICES ASSUME NEW l \in Lits, level[VarOf(l)] <= k PROVE b.value[VarOf(l)] = value[VarOf(l)]
    OBVIOUS
  <2>1. VarOf(l) \in Vars
    BY LitFacts
  <2>2. ~Lost(VarOf(l))
    <3>1. level[VarOf(l)] \in Nat
      BY <1>3, <2>1
    <3>2. QED
      BY <3>1
  <2>3. QED
    BY <1>8, <2>1, <2>2
<1>13. \A l \in Lits : b.value[VarOf(l)] # "UNASSIGNED" => b.value[VarOf(l)] = value[VarOf(l)] /\ level[VarOf(l)] <= k
  <2> SUFFICES ASSUME NEW l \in Lits, b.value[VarOf(l)] # "UNASSIGNED"
               PROVE  b.value[VarOf(l)] = value[VarOf(l)] /\ level[VarOf(l)] <= k
    OBVIOUS
  <2>1. VarOf(l) \in Vars /\ level[VarOf(l)] \in Nat
    BY <1>3, LitFacts
  <2>2. b.value[VarOf(l)] = value[VarOf(l)] /\ ~Lost(VarOf(l))
    BY <1>8, <2>1
  <2>3. QED
    BY <2>1, <2>2
<1>14. \A v \in gone : \A w \in ToSet(watchList[v]) : w[1] \in Live
  BY <1>1, <1>7 DEF WatchInv
<1>15. b.satisfied \subseteq 1 .. Len(db)
  <2>1. rewatched \subseteq 1 .. Len(db)
    BY <1>14 DEF Live
  <2>2. satisfied \subseteq 1 .. Len(db)
    BY <1>1 DEF SatTypeOK
  <2> HIDE DEF rewatched
  <2>3. QED
    BY <1>5, <2>1, <2>2
<1>16. ASSUME NEW c \in Live \cap b.satisfied PROVE TrueIn(b.value, watch[c][1]) \/ TrueIn(b.value, watch[c][2])
  <2> DEFINE l1 == watch[c][1]
             l2 == watch[c][2]
  <2>1. l1 \in Lits /\ l2 \in Lits /\ VarOf(l1) \in Vars /\ VarOf(l2) \in Vars
    BY <1>1, WatchedLits
  <2>2. CASE c \in rewatched /\ \E n \in 1 .. 2 : Val(VarOf(watch[c][n])) = SignOf(watch[c][n])
    <3>1. PICK n \in 1 .. 2 : Val(VarOf(watch[c][n])) = SignOf(watch[c][n])
      BY <2>2
    <3>2. n = 1 \/ n = 2
      BY <3>1
    <3>3. \A v \in Vars : b.value[v] = Val(v)
      <4> HIDE DEF Val
      <4> QED BY <1>5
    <3>4. QED
      <4> HIDE DEF Val
      <4> QED BY <2>1, <3>1, <3>2, <3>3 DEF TrueIn
  <2>3. CASE c \in satisfied /\ c \notin rewatched
    <3>1. PICK j \in {1, 2} : TrueIn(value, watch[c][j])
      BY <1>1, <2>3 DEF FlagInv
    <3> DEFINE l == watch[c][j]
    <3>2. l \in Lits /\ VarOf(l) \in Vars /\ <<c, j>> \in ToSet(watchList[VarOf(l)])
      BY <1>1, <2>1, <3>1 DEF WatchInv
    <3>3. VarOf(l) \notin gone
      <4> DEFINE v == VarOf(l)
                 w == <<c, j>>
      <4>1. w \in ToSet(watchList[v]) /\ w[1] = c
        BY <3>2
      <4> HIDE DEF v, w
      <4>2. v \in gone => c \in rewatched
        BY <4>1
      <4>3. QED
        BY <2>3, <4>2 DEF v
    <3>4. b.value[VarOf(l)] = value[VarOf(l)]
      BY <1>6, <1>8, <3>2, <3>3
    <3>5. TrueIn(b.value, l)
      BY <3>1, <3>4 DEF TrueIn
    <3>6. QED
      BY <3>5
  <2>4. QED
    <3> HIDE DEF rewatched, Val
    <3> QED BY <1>5, <2>2, <2>3
<1>17. ASSUME NEW c \in Live, NEW j \in {1, 2}, db[c].list \notin TheoryLists, FalseIn(b.value, watch[c][j])
       PROVE  TrueIn(b.value, watch[c][3 - j]) /\ level[VarOf(watch[c][3 - j])] <= level[VarOf(watch[c][j])]
  <2> DEFINE l == watch[c][j]
             o == watch[c][3 - j]
  <2>1. l \in Lits /\ o \in Lits /\ VarOf(l) \in Vars /\ VarOf(o) \in Vars
    <3>1. 3 - j \in {1, 2}
      OBVIOUS
    <3>2. QED
      BY <1>1, <3>1, WatchedLits
  <2>2. FalseIn(value, l) /\ level[VarOf(l)] <= k
    BY <1>13, <1>17, <2>1 DEF FalseIn
  <2>3. ~Pending(<<c, j>>)
    <3>1. Pending(<<c, j>>) => level[VarOf(l)] = N
      BY PendingIsNewest
    <3>2. QED
      BY <1>3, <2>2, <3>1
  <2>4. TrueIn(value, o) /\ level[VarOf(o)] <= level[VarOf(l)]
    BY <1>1, <1>17, <2>2, <2>3 DEF WatchersInv, Backed
  <2>5. level[VarOf(o)] <= k
    <3>1. level[VarOf(o)] \in Nat /\ level[VarOf(l)] \in Nat
      BY <1>3, <2>1
    <3>2. QED
      BY <2>2, <2>4, <3>1
  <2>6. TrueIn(b.value, o)
    BY <1>12, <2>1, <2>4, <2>5 DEF TrueIn
  <2>7. QED
    BY <2>4, <2>6
<1>18. FactsOf(Sure, b.value, level)
  <2> SUFFICES ASSUME NEW v \in Vars, b.value[v] # "UNASSIGNED", level[v] = 1, NEW a \in Sure
               PROVE  ~Differ(b.value, a, v)
    BY DEF FactsOf
  <2>1. b.value[v] = value[v]
    BY <1>8
  <2>2. ~Differ(value, a, v)
    BY <1>1, <2>1 DEF FactsInv, FactsOf
  <2>3. QED
    BY <2>1, <2>2 DEF Differ
<1>19. ASSUME NEW c \in 1 .. Len(db), Len(db[c].lits) = 1, db[c].list # "dropped"
       PROVE  TrueIn(b.value, db[c].lits[1]) /\ level[VarOf(db[c].lits[1])] = 1
  <2> DEFINE l == db[c].lits[1]
  <2>1. TrueIn(value, l) /\ level[VarOf(l)] = 1
    BY <1>1, <1>19 DEF UnitInv
  <2>2. l \in Lits
    <3>1. db[c].lits \in Seq(Lits)
      BY <1>1, SeenTypes
    <3>2. 1 \in DOMAIN db[c].lits
      BY <1>19, <3>1
    <3>3. QED
      BY <3>1, <3>2, ToSetIs
  <2>3. TrueIn(b.value, l)
    BY <1>12, <2>1, <2>2 DEF TrueIn
  <2>4. QED
    BY <2>1, <2>3
<1>20. k >= 2 => b.levelStart[k] < Len(b.decisions)
  <2>1. k \in 1 .. k
    OBVIOUS
  <2>2. b.levelStart[k] = levelStart[k]
    BY <1>10, <2>1
  <2>3. QED
    BY <1>10, <2>2
<1>21. QED
  <2> HIDE DEF Lost, rewatched
  <2>1. \A v \in Vars : b.value[v] = IF value[v] # "UNASSIGNED" /\ level[v] > k THEN "UNASSIGNED" ELSE value[v]
    BY <1>8 DEF Lost
  <2>2. b.value \in [Vars -> Values] /\ b.reason \in [Vars -> Nat]
    BY <1>8, <1>9
  <2>4. \A v \in Vars : b.value[v] # "UNASSIGNED" => b.reason[v] = reason[v]
    BY <1>8, <1>9
  <2>5. \A n \in 1 .. Len(b.decisions) : b.decisions[n] = decisions[n]
    BY <1>10
  <2>3. QED
    BY <1>10, <1>11, <1>15, <1>16, <1>17, <1>18, <1>19, <1>20, <2>1, <2>2, <2>4, <2>5, Zenon DEF b

\* What backTrack to level 1 leaves, when there are more levels and when there is no other.
LEMMA LevelOneFacts ==
  ASSUME SatInv, pc # "adding"
  PROVE  LET b == BackTracked(1) IN
         /\ Len(b.levelStart) = 1 /\ b.levelStart[1] \in Nat /\ b.levelStart[1] <= Len(b.decisions)
         /\ Len(b.decisions) \in Nat /\ Len(b.decisions) <= Len(decisions)
         /\ \A n \in 1 .. Len(b.decisions) : b.decisions[n] = decisions[n]
         /\ b.value \in [Vars -> Values] /\ b.reason \in [Vars -> Nat]
         /\ \A v \in Vars : b.value[v] = IF value[v] # "UNASSIGNED" /\ level[v] > 1 THEN "UNASSIGNED" ELSE value[v]
         /\ \A v \in Vars : b.value[v] # "UNASSIGNED" => b.reason[v] = reason[v]
         /\ TrailOf(b.decisions, b.levelStart, b.value, level)
         /\ ReasonsOf(b.decisions, b.levelStart, b.value, level, b.reason, db)
         /\ b.satisfied \subseteq 1 .. Len(db)
         /\ \A c \in Live \cap b.satisfied : TrueIn(b.value, watch[c][1]) \/ TrueIn(b.value, watch[c][2])
         /\ FactsOf(Sure, b.value, level)
         /\ \A c \in 1 .. Len(db) : Len(db[c].lits) = 1 /\ db[c].list # "dropped" =>
              TrueIn(b.value, db[c].lits[1]) /\ level[VarOf(db[c].lits[1])] = 1
         /\ b.levelStart[1] = levelStart[1]
<1> DEFINE b == BackTracked(1)
<1>1. SatTypeOK /\ WatchInv /\ FlagInv /\ FactsInv /\ UnitInv /\ TrailInv /\ ReasonInv
  BY DEF SatInv
<1>2. TrailOf(decisions, levelStart, value, level) /\ ReasonsOf(decisions, levelStart, value, level, reason, db)
  BY <1>1 DEF TrailInv, ReasonInv
<1>3. /\ decisions \in Seq(Vars) /\ levelStart \in Seq(Nat) /\ Len(levelStart) \in Nat /\ Len(levelStart) >= 1
      /\ Len(decisions) \in Nat /\ value \in [Vars -> Values] /\ reason \in [Vars -> Nat]
      /\ \A n \in 1 .. Len(decisions) : level[decisions[n]] \in 1 .. Len(levelStart)
      /\ \A k \in 1 .. Len(levelStart) : levelStart[k] \in Nat /\ levelStart[k] <= Len(decisions)
  BY <1>1, <1>2, TrailShape DEF SatTypeOK
<1>4. CASE 1 < Len(levelStart)
  <2>1. 1 \in Nat /\ 1 >= 1
    OBVIOUS
  <2>2. /\ Len(b.decisions) = levelStart[1 + 1] /\ Len(b.levelStart) = 1
        /\ \A n \in 1 .. Len(b.decisions) : b.decisions[n] = decisions[n]
        /\ b.value \in [Vars -> Values] /\ b.reason \in [Vars -> Nat]
        /\ \A v \in Vars : b.value[v] = IF value[v] # "UNASSIGNED" /\ level[v] > 1 THEN "UNASSIGNED" ELSE value[v]
        /\ \A v \in Vars : b.value[v] # "UNASSIGNED" => b.reason[v] = reason[v]
        /\ TrailOf(b.decisions, b.levelStart, b.value, level)
        /\ ReasonsOf(b.decisions, b.levelStart, b.value, level, b.reason, db)
        /\ b.satisfied \subseteq 1 .. Len(db)
        /\ \A c \in Live \cap b.satisfied : TrueIn(b.value, watch[c][1]) \/ TrueIn(b.value, watch[c][2])
        /\ FactsOf(Sure, b.value, level)
        /\ \A c \in 1 .. Len(db) : Len(db[c].lits) = 1 /\ db[c].list # "dropped" =>
              TrueIn(b.value, db[c].lits[1]) /\ level[VarOf(db[c].lits[1])] = 1
    <3> HIDE DEF b
    <3> QED BY <1>4, <2>1, BackTrackedFacts, Zenon DEF b
  <2>3. b.levelStart = SubSeq(levelStart, 1, 1)
    BY <1>4 DEF BackTracked
  <2> HIDE DEF b
  <2>4. b.levelStart[1] = levelStart[1]
    BY <1>3, <1>4, <2>3
  <2>5. Len(b.decisions) \in Nat /\ Len(b.decisions) <= Len(decisions)
    <3>1. 1 + 1 \in 1 .. Len(levelStart)
      BY <1>3, <1>4
    <3>2. QED
      BY <1>3, <2>2, <3>1
  <2>6. b.levelStart[1] \in Nat /\ b.levelStart[1] <= Len(b.decisions)
    <3>1. 1 \in 1 .. Len(b.levelStart)
      BY <2>2
    <3>2. QED
      BY <2>2, <3>1, TrailShape
  <2>7. QED
    BY <2>2, <2>4, <2>5, <2>6, Zenon DEF b
<1>5. CASE Len(levelStart) = 1
  <2> DEFINE gone == {decisions[n] : n \in (Len(decisions) + 1) .. Len(decisions)}
             rewatched == UNION {{w[1] : w \in ToSet(watchList[v])} : v \in gone}
  <2>1. gone = {} /\ rewatched = {}
    <3>1. (Len(decisions) + 1) .. Len(decisions) = {}
      BY <1>3
    <3>2. gone = {}
      BY <3>1
    <3>3. QED
      BY <3>2
  <2>2. ~(1 < Len(levelStart))
    BY <1>5
  <2>3. /\ b.decisions = SubSeq(decisions, 1, Len(decisions))
        /\ b.levelStart = SubSeq(levelStart, 1, Len(levelStart))
        /\ b.value = [v \in Vars |-> IF v \in gone THEN "UNASSIGNED" ELSE value[v]]
        /\ b.reason = [v \in Vars |-> IF v \in gone THEN 0 ELSE reason[v]]
        /\ \A c \in b.satisfied : c \in satisfied \/ c \in rewatched
    BY <2>2 DEF BackTracked
  <2> HIDE DEF b, gone, rewatched
  <2>4. b.decisions = decisions /\ b.levelStart = levelStart
    BY <1>3, <2>3
  <2>5. b.value = value /\ b.reason = reason
    BY <1>3, <2>1, <2>3
  <2>6. b.satisfied \subseteq satisfied
    BY <2>1, <2>3
  <2>7. levelStart[1] \in Nat /\ levelStart[1] <= Len(decisions)
    <3>1. 1 \in 1 .. Len(levelStart)
      BY <1>5
    <3>2. QED
      BY <1>3, <3>1
  <2>8. \A v \in Vars : value[v] # "UNASSIGNED" => ~(level[v] > 1)
    <3> SUFFICES ASSUME NEW v \in Vars, value[v] # "UNASSIGNED" PROVE ~(level[v] > 1)
      OBVIOUS
    <3>1. level[v] \in 1 .. 1
      BY <1>5, LevelBound
    <3>2. QED
      BY <3>1
  <2>9. b.satisfied \subseteq 1 .. Len(db)
    BY <1>1, <2>6 DEF SatTypeOK
  <2>10. \A c \in Live \cap b.satisfied : TrueIn(b.value, watch[c][1]) \/ TrueIn(b.value, watch[c][2])
    BY <1>1, <2>5, <2>6 DEF FlagInv
  <2>11. FactsOf(Sure, b.value, level)
    BY <1>1, <2>5 DEF FactsInv
  <2>12. \A c \in 1 .. Len(db) : Len(db[c].lits) = 1 /\ db[c].list # "dropped" =>
              TrueIn(b.value, db[c].lits[1]) /\ level[VarOf(db[c].lits[1])] = 1
    BY <1>1, <2>5 DEF UnitInv
  <2>13. /\ Len(b.levelStart) = 1 /\ b.levelStart[1] \in Nat /\ b.levelStart[1] <= Len(b.decisions)
         /\ Len(b.decisions) \in Nat /\ Len(b.decisions) <= Len(decisions)
         /\ \A n \in 1 .. Len(b.decisions) : b.decisions[n] = decisions[n]
    BY <1>3, <1>5, <2>4, <2>7
  <2>14. /\ b.value \in [Vars -> Values] /\ b.reason \in [Vars -> Nat]
         /\ \A v \in Vars : b.value[v] = IF value[v] # "UNASSIGNED" /\ level[v] > 1 THEN "UNASSIGNED" ELSE value[v]
         /\ \A v \in Vars : b.value[v] # "UNASSIGNED" => b.reason[v] = reason[v]
    BY <1>3, <2>5, <2>8
  <2>15. /\ TrailOf(b.decisions, b.levelStart, b.value, level)
         /\ ReasonsOf(b.decisions, b.levelStart, b.value, level, b.reason, db)
    BY <1>2, <2>4, <2>5
  <2>16. QED
    BY <2>4, <2>9, <2>10, <2>11, <2>12, <2>13, <2>14, <2>15, Zenon DEF b
<1>6. 1 < Len(levelStart) \/ Len(levelStart) = 1
  <2>1. Len(levelStart) \in Nat /\ Len(levelStart) >= 1
    BY <1>3
  <2> DEFINE N == Len(levelStart)
  <2>2. N \in Nat /\ N >= 1
    BY <2>1
  <2> HIDE DEF N
  <2>3. 1 < N \/ N = 1
    BY <2>2
  <2>4. QED
    BY <2>3 DEF N
<1>7. QED
  BY <1>4, <1>5, <1>6, Zenon

\* A clause of one literal is added, its literal becomes a fact at some place of level 1, and
\* propagation begins anew at the first fact.
LEMMA FactAdded ==
  ASSUME SatInv, Remember, pc # "adding", NEW A \in Lits, NEW P \in Nat, NEW list \in {"facts"} \cup TheoryLists,
         P <= Len(BackTracked(1).decisions), BackTracked(1).value[VarOf(A)] = "UNASSIGNED",
         InsertFact(BackTracked(1), A, P + 1), AttachUnit(<<A>>, list),
         locked' \subseteq locked \cup {VarOf(A)}, visit' = FirstVisit(levelStart'), seen' \subseteq Vars,
         analysis' = NoAnalysis,
         pc' = "propagating", UNCHANGED <<problem, withTheory, toAdd, decisionCount, answer>>,
         list = "facts" => \A a \in Sure : Satisfies(a, <<A>>)
  PROVE  SatInv'
<1> DEFINE p == VarOf(A)
           b == BackTracked(1)
           D == b.decisions
           LS == b.levelStart
           val == b.value
           rs == b.reason
           lits == <<A>>
           x == SignOf(A)
<1>2. /\ lits \in Seq(Lits) /\ Distinct(lits) /\ Len(lits) = 1 /\ lits[1] = A /\ ToSet(lits) = {A}
      /\ A \in Lits /\ VarOf(A) = p /\ p \in Vars
  BY LitFacts DEF Distinct, ToSet
<1>0. /\ decisions' = InsertAt(D, P + 1, p)
      /\ levelStart' = [k \in DOMAIN LS |-> LS[k] + 1]
      /\ value' = [val EXCEPT ![p] = x]
      /\ level' = [level EXCEPT ![p] = 1]
      /\ reason' = [rs EXCEPT ![p] = 0]
      /\ satisfied' = b.satisfied
      /\ AttachUnit(lits, list)
  BY DEF InsertFact
<1>3. /\ Len(LS) = 1 /\ P <= Len(D)
      /\ val \in [Vars -> Values] /\ rs \in [Vars -> Nat]
      /\ \A v \in Vars : val[v] # "UNASSIGNED" => val[v] = value[v] /\ rs[v] = reason[v]
      /\ TrailOf(D, LS, val, level)
      /\ ReasonsOf(D, LS, val, level, rs, db)
      /\ b.satisfied \subseteq 1 .. Len(db)
      /\ \A c \in Live \cap b.satisfied : TrueIn(val, watch[c][1]) \/ TrueIn(val, watch[c][2])
      /\ \A v \in Vars : value[v] # "UNASSIGNED" /\ level[v] = 1 => val[v] = value[v]
      /\ FactsOf(Sure, val, level)
      /\ \A c \in 1 .. Len(db) : Len(db[c].lits) = 1 /\ db[c].list # "dropped" =>
              TrueIn(val, db[c].lits[1]) /\ level[VarOf(db[c].lits[1])] = 1
  <2> HIDE DEF b
  <2>1. \A v \in Vars : val[v] = IF value[v] # "UNASSIGNED" /\ level[v] > 1 THEN "UNASSIGNED" ELSE value[v]
    BY LevelOneFacts, Zenon DEF b
  <2>2. \A v \in Vars : val[v] # "UNASSIGNED" => val[v] = value[v] /\ rs[v] = reason[v]
    <3>1. \A v \in Vars : val[v] # "UNASSIGNED" => rs[v] = reason[v]
      BY LevelOneFacts, Zenon DEF b
    <3>2. QED
      BY <2>1, <3>1
  <2>3. \A v \in Vars : value[v] # "UNASSIGNED" /\ level[v] = 1 => val[v] = value[v]
    BY <2>1
  <2>4. QED
    BY <2>2, <2>3, LevelOneFacts, Zenon DEF b
<1>s. b.satisfied = satisfied'
  BY <1>0
<1>v. val[p] = "UNASSIGNED"
  OBVIOUS
<1> HIDE DEF D, LS, val, rs, b
<1> HIDE DEF lits
<1>x. x = SignOf(A)
  OBVIOUS
<1> HIDE DEF x, p
<1>4. SatTypeOK /\ ClauseInv /\ WatchInv /\ ListInv /\ Sound /\ LockedInv
  BY DEF SatInv
<1>5. level \in [Vars -> Nat] /\ val[p] = "UNASSIGNED" /\ x \in Values /\ x # "UNASSIGNED" /\ x = SignOf(A)
  <2>1. level \in [Vars -> Nat]
    BY <1>3, TrailShape
  <2>2. QED
    BY <1>2, <1>v, <1>x, <2>1, LitFacts
<1>6. /\ value'[p] = x /\ level'[p] = 1
      /\ \A u \in Vars : u # p => value'[u] = val[u] /\ level'[u] = level[u]
      /\ \A l \in Lits : TrueIn(val, l) => VarOf(l) # p /\ TrueIn(value', l)
  <2>1. value' = [val EXCEPT ![p] = x] /\ level' = [level EXCEPT ![p] = 1]
    BY <1>0
  <2>2. val \in [Vars -> Values] /\ level \in [Vars -> Nat] /\ p \in Vars /\ val[p] = "UNASSIGNED"
    BY <1>2, <1>3, <1>5
  <2>3. /\ [val EXCEPT ![p] = x][p] = x /\ [level EXCEPT ![p] = 1][p] = 1
        /\ \A u \in Vars : u # p => [val EXCEPT ![p] = x][u] = val[u] /\ [level EXCEPT ![p] = 1][u] = level[u]
        /\ \A l \in Lits : TrueIn(val, l) => VarOf(l) # p /\ TrueIn([val EXCEPT ![p] = x], l)
    BY <2>2, SetFree
  <2>4. QED
    BY <2>1, <2>3, Zenon
<1>7. TrueIn(value', A)
  BY <1>2, <1>5, <1>6 DEF TrueIn
<1> DEFINE r == [lits |-> lits, list |-> list]
           w == <<>>
<1>8. /\ db' = Append(db, r) /\ watch' = Append(watch, w) /\ watchList' = watchList
      /\ r \in ClauseRecords /\ w \in Seq(Lits) /\ Live' = Live /\ ClauseInv'
  BY <1>0, <1>2, <1>4, UnitAttached
<1>9. r.lits = lits /\ r.list = list
  OBVIOUS
<1> HIDE DEF r, w
<1>10. /\ db' \in Seq(ClauseRecords) /\ watch' \in Seq(Seq(Lits)) /\ Len(watch') = Len(db')
       /\ Len(db') = Len(db) + 1 /\ Len(db) \in Nat
       /\ \A c \in 1 .. Len(db) : db'[c] = db[c] /\ watch'[c] = watch[c]
       /\ db'[Len(db) + 1] = r
       /\ \A c \in 1 .. Len(db') : c \in 1 .. Len(db) \/ c = Len(db) + 1
       /\ Sure' \subseteq Sure /\ \A a \in Sure' : Satisfies(a, lits) /\ a \in Assignments
  <2>1. /\ db' \in Seq(ClauseRecords) /\ watch' \in Seq(Seq(Lits)) /\ Len(watch') = Len(db')
        /\ Len(db') = Len(db) + 1 /\ Len(db) \in Nat
        /\ \A c \in 1 .. Len(db) : db'[c] = db[c] /\ watch'[c] = watch[c]
        /\ db'[Len(db) + 1] = r
        /\ \A c \in 1 .. Len(db') : c \in 1 .. Len(db) \/ c = Len(db) + 1
        /\ Models' \subseteq Models
        /\ r.list \notin {"satClauses", "facts", "dropped"} => \A a \in Models' : Satisfies(a, r.lits)
    BY <1>4, <1>8, MoreClauses
  <2>5. Sure' \subseteq Sure /\ Sure' \subseteq Models' /\ \A a \in Sure' : a \in Assignments
    <3>1. Sure' \subseteq Sure
      BY <2>1, Unsure
    <3>2. QED
      BY <3>1 DEF Sure, Models
  <2>2. CASE list = "facts"
    <3>1. \A a \in Sure' : Satisfies(a, lits)
      BY <2>2, <2>5 DEF lits
    <3>2. QED
      BY <2>1, <2>5, <3>1
  <2>3. CASE list # "facts"
    <3>1. r.list \notin {"satClauses", "facts", "dropped"}
      BY <1>9, <2>3 DEF TheoryLists
    <3>2. QED
      BY <1>9, <2>1, <2>5, <3>1
  <2>4. QED
    BY <2>2, <2>3
<1>11. TrailInv'
  <2>1. TrailOf(InsertAt(D, P + 1, p), [k \in DOMAIN LS |-> LS[k] + 1], [val EXCEPT ![p] = x], [level EXCEPT ![p] = 1])
    BY <1>2, <1>3, <1>5, TrailInserted
  <2>2. QED
    BY <1>0, <2>1, Zenon DEF TrailInv
<1>12. ReasonInv'
  <2>1. ReasonsOf(InsertAt(D, P + 1, p), [k \in DOMAIN LS |-> LS[k] + 1], [val EXCEPT ![p] = x],
                  [level EXCEPT ![p] = 1], [rs EXCEPT ![p] = 0], db)
    BY <1>2, <1>3, <1>5, ReasonsInserted
  <2>2. ReasonsOf(decisions', levelStart', value', level', reason', db)
    BY <1>0, <2>1, Zenon
  <2>3. \A c \in DOMAIN db : c \in DOMAIN db' /\ db'[c].lits = db[c].lits
    BY <1>4, <1>10, SeenTypes
  <2>4. \A E, LT, v1, l1, r1 : ReasonsOf(E, LT, v1, l1, r1, db) => ReasonsOf(E, LT, v1, l1, r1, db')
    BY <2>3, ReasonsMoreClauses
  <2>5. QED
    BY <2>2, <2>4, Zenon DEF ReasonInv
<1>13. visit' = [i |-> 0, j |-> 1, list |-> <<>>] /\ Len(levelStart') = 1
  <2>1. DOMAIN LS = 1 .. 1
    BY <1>3, TrailShape
  <2>2. Len(levelStart') = 1 /\ ~(1 > 1)
    BY <1>0, <2>1
  <2>3. ~(Len(levelStart') > 1)
    BY <2>2, Zenon
  <2>4. QED
    BY <1>0, <2>2, <2>3 DEF FirstVisit
<1>14. visit' \in [i : Nat, j : Nat \ {0}, list : Seq(Watchers)] /\ ToSet(visit'.list) = {} /\ visit'.i = 0
  <2>1. <<>> \in Seq(Watchers) /\ ToSet(<<>>) = {}
    BY DEF ToSet
  <2>2. QED
    BY <1>13, <2>1
<1>15. SatTypeOK'
  <2>1. reason' \in [Vars -> Nat] /\ locked' \subseteq Vars /\ satisfied' \subseteq 1 .. Len(db')
    <3>2. reason' \in [Vars -> Nat]
      BY <1>0, <1>3
    <3>3. satisfied' \subseteq 1 .. Len(db')
      BY <1>3, <1>10, <1>s
    <3>5. locked' \subseteq Vars
      BY <1>2, <1>4 DEF SatTypeOK, p
    <3>4. QED
      BY <3>2, <3>3, <3>5
  <2>2. analysis' \in [confl : Nat, p : Nat, learnt : Seq(Lits), index : Nat, pathC : Int]
    <3>1. <<>> \in Seq(Lits)
      OBVIOUS
    <3>2. QED
      BY <3>1 DEF NoAnalysis
  <2>3. /\ toAdd' \in Seq(Seq(Lits)) /\ \A i \in 1 .. Len(toAdd') : toAdd'[i] # <<>> /\ Distinct(toAdd'[i])
    BY <1>0, <1>4 DEF SatTypeOK
  <2>4. watchList' \in [Vars -> Seq(Watchers)]
    <3>1. watchList \in [Vars -> Seq(Watchers)]
      BY <1>4 DEF SatTypeOK
    <3>2. QED
      BY <1>8, <3>1, Zenon
  <2>5. QED
    BY <1>0, <1>4, <1>10, <1>14, <2>1, <2>2, <2>3, <2>4 DEF SatTypeOK
<1>16. WatchInv'
  <2>1. \A c \in Live : watch'[c] = watch[c]
    BY <1>10 DEF Live
  <2>2. QED
    BY <1>4, <1>8, <1>14, <2>1 DEF WatchInv
<1>17. FlagInv'
  <2> SUFFICES ASSUME NEW c \in Live, c \in satisfied' PROVE TrueIn(value', watch'[c][1]) \/ TrueIn(value', watch'[c][2])
    BY <1>8 DEF FlagInv
  <2>1. c \in 1 .. Len(db) /\ watch'[c] = watch[c]
    BY <1>10 DEF Live
  <2>2. 1 \in {1, 2} /\ 2 \in {1, 2}
    OBVIOUS
  <2>3. watch[c][1] \in Lits /\ watch[c][2] \in Lits
    BY <1>4, <2>2, WatchedLits
  <2>4. TrueIn(val, watch[c][1]) \/ TrueIn(val, watch[c][2])
    BY <1>3, <1>s
  <2>5. QED
    BY <1>6, <2>1, <2>3, <2>4
<1>18. UnitInv'
  <2> SUFFICES ASSUME NEW c \in 1 .. Len(db'), Len(db'[c].lits) = 1, db'[c].list # "dropped"
               PROVE  TrueIn(value', db'[c].lits[1]) /\ level'[VarOf(db'[c].lits[1])] = 1
    BY DEF UnitInv
  <2>1. CASE c = Len(db) + 1
    <3>1. db'[c].lits[1] = A
      BY <1>2, <1>9, <1>10, <2>1
    <3>2. QED
      BY <1>2, <1>6, <1>7, <3>1
  <2>2. CASE c \in 1 .. Len(db)
    <3>1. db'[c] = db[c]
      BY <1>10, <2>2
    <3>2. TrueIn(val, db[c].lits[1]) /\ level[VarOf(db[c].lits[1])] = 1
      BY <1>3, <2>2, <3>1
    <3>3. db[c].lits[1] \in Lits
      <4>1. db[c].lits \in Seq(Lits) /\ Len(db[c].lits) = 1
        BY <1>4, <2>2, <3>1, SeenTypes
      <4>2. QED
        BY <4>1
    <3>4. QED
      BY <1>6, <3>1, <3>2, <3>3, LitFacts
  <2>3. QED
    BY <1>10, <2>1, <2>2
<1>19. Sound'
  <2>1. \A v \in Vars : value'[v] # "UNASSIGNED" /\ reason'[v] # 0 => value[v] # "UNASSIGNED" /\ reason'[v] = reason[v]
    <3> SUFFICES ASSUME NEW v \in Vars, value'[v] # "UNASSIGNED", reason'[v] # 0
                 PROVE  value[v] # "UNASSIGNED" /\ reason'[v] = reason[v]
      OBVIOUS
    <3>1. v # p
      BY <1>0, <1>3
    <3>2. val[v] # "UNASSIGNED" /\ reason'[v] = rs[v]
      BY <1>0, <1>3, <1>6, <3>1
    <3>3. QED
      BY <1>3, <3>2
  <2>2. ASSUME NEW c \in 1 .. Len(db'), c \in 1 .. Len(db), InUse(c)' PROVE InUse(c) /\ db'[c].lits = db[c].lits
    <3>1. db'[c] = db[c] /\ c # 0
      BY <1>10, <2>2
    <3>2. QED
      BY <2>1, <2>2, <3>1 DEF InUse
  <2>3. \A c \in 1 .. Len(db') : \/ InUse(c)' => c \in 1 .. Len(db) /\ InUse(c) /\ db'[c].lits = db[c].lits
                                 \/ \A a \in Sure' : Satisfies(a, db'[c].lits)
    <3> SUFFICES ASSUME NEW c \in 1 .. Len(db')
                 PROVE  \/ InUse(c)' => c \in 1 .. Len(db) /\ InUse(c) /\ db'[c].lits = db[c].lits
                        \/ \A a \in Sure' : Satisfies(a, db'[c].lits)
      OBVIOUS
    <3>1. CASE c \in 1 .. Len(db)
      BY <2>2, <3>1
    <3>2. CASE c = Len(db) + 1
      BY <1>9, <1>10, <3>2
    <3>3. QED
      BY <1>10, <3>1, <3>2
  <2>4. QED
    BY <1>4, <1>10, <2>3, StillSound
<1>20. FactsInv'
  <2> SUFFICES ASSUME NEW u \in Vars, value'[u] # "UNASSIGNED", level'[u] = 1, NEW a \in Sure'
               PROVE  ~Differ(value', a, u)
    BY DEF FactsInv, FactsOf
  <2>1. CASE u = p
    <3>1. a \in Assignments /\ Satisfies(a, lits)
      BY <1>10
    <3>2. Holds(A, a)
      BY <1>2, <3>1 DEF Satisfies
    <3>3. value' \in [Vars -> Values]
      BY <1>11, TrailShape DEF TrailInv
    <3>4. QED
      BY <1>2, <1>7, <2>1, <3>1, <3>2, <3>3, LitValue
  <2>2. CASE u # p
    <3>1. ~Differ(val, a, u)
      BY <1>3, <1>6, <1>10, <2>2 DEF FactsOf
    <3>2. QED
      BY <1>6, <2>2, <3>1 DEF Differ
  <2>3. QED
    BY <2>1, <2>2
<1>21. VisitInv'
  <2>1. Len(decisions') \in Nat
    BY <1>11, TrailShape DEF TrailInv
  <2>2. 0 <= Len(decisions') /\ ~(1 > 1)
    BY <2>1
  <2>3. QED
    BY <1>0, <1>13, <1>14, <2>2 DEF VisitInv
<1>22. WatchersInv'
  <2> SUFFICES ASSUME NEW c \in Live, NEW j \in {1, 2}, FalseIn(value', watch'[c][j])
               PROVE  Pending(<<c, j>>)'
    BY <1>8 DEF WatchersInv
  <2>1. c \in 1 .. Len(db) /\ watch'[c] = watch[c]
    BY <1>10 DEF Live
  <2>2. VarOf(watch'[c][j]) \in Vars
    BY <1>4, <2>1, WatchedLits
  <2>3. PICK n \in 1 .. Len(decisions') : decisions'[n] = VarOf(watch'[c][j])
    <3>1. \A v \in Vars : value'[v] # "UNASSIGNED" <=> \E n \in 1 .. Len(decisions') : decisions'[n] = v
      BY <1>11 DEF TrailInv, TrailOf
    <3>2. QED
      BY <2>2, <3>1 DEF FalseIn
  <2>4. n > visit'.i
    BY <1>14
  <2>5. QED
    BY <2>3, <2>4, LaterIsPending
<1>25. ListInv'
  <2>1. \A v \in Vars : \A u \in ToSet(watchList[v]) : u[1] \in Live
    BY <1>4 DEF WatchInv
  <2>2. \A c \in Live : watch'[c] = watch[c]
    BY <1>10 DEF Live
  <2>3. \A v \in Vars : \A u \in ToSet(watchList'[v]) : VarOf(watch'[u[1]][u[2]]) = v
    BY <1>4, <1>8, <2>1, <2>2 DEF ListInv
  <2>4. QED
    BY <1>13, <2>3, NoList
<1>26. LockedInv'
  <2> SUFFICES ASSUME NEW v \in locked' PROVE value'[v] # "UNASSIGNED" /\ level'[v] = 1
    BY DEF LockedInv
  <2>1. CASE v = p
    BY <1>5, <1>6, <2>1
  <2>2. CASE v # p
    <3>1. v \in locked /\ v \in Vars
      BY <1>4, <2>2 DEF SatTypeOK, p
    <3>2. value[v] # "UNASSIGNED" /\ level[v] = 1
      BY <1>4, <3>1 DEF LockedInv
    <3>3. QED
      BY <1>3, <1>6, <2>2, <3>1, <3>2
  <2>3. QED
    BY <2>1, <2>2
<1>23. AddingInv' /\ AtRest' /\ AnalysisInv' /\ AnswerInv'
  BY DEF AddingInv, AtRest, AnalysisInv, AnswerInv
<1>24. QED
  BY <1>8, <1>11, <1>12, <1>15, <1>16, <1>17, <1>18, <1>19, <1>20, <1>21, <1>22, <1>23, <1>25, <1>26 DEF SatInv

\* addSATClause never refuses what was learnt: the variable of a learnt fact is of the newest
\* level, and a locked one is of the first.
LEMMA LearntIsAdded ==
  ASSUME SatInv, Learn
  PROVE  pc = "learning" /\ ~Refuted /\ AddLearnt
<1>1. pc = "learning"
  BY DEF Learn
<1>2. level[analysis.p] = Len(levelStart) /\ 1 < Len(levelStart)
  <2>1. /\ level[analysis.p] = Len(levelStart) /\ Len(levelStart) \in Nat
        /\ BackLevel \in Nat /\ BackLevel >= 1 /\ BackLevel < Len(levelStart)
    BY <1>1, LearntFacts, Zenon
  <2>2. QED
    BY <2>1
<1>3. analysis.p \notin locked
  BY <1>2 DEF SatInv, LockedInv
<1>4. ~Refuted
  BY <1>3 DEF Refuted
<1>5. QED
  BY <1>1, <1>4 DEF Learn

\* A learnt clause of one literal is a fact.
LEMMA LearnFactKeeps == SatInv /\ Learn /\ Remember /\ Len(Learnt) = 1 => SatInv'
<1> SUFFICES ASSUME SatInv, Learn, Remember, Len(Learnt) = 1 PROVE SatInv'
  OBVIOUS
<1> DEFINE A == Assertion
           b == BackTracked(1)
           P == b.levelStart[1]
<1>1. pc = "learning" /\ AddLearnt
  BY LearntIsAdded
<1>2. /\ Learnt = <<A>> /\ A \in Lits /\ VarOf(A) = analysis.p /\ analysis.p \in Vars /\ BackLevel = 1
      /\ value[analysis.p] # "UNASSIGNED" /\ level[analysis.p] = Len(levelStart)
      /\ \A a \in Sure : Satisfies(a, Learnt)
      /\ BackLevel < Len(levelStart)
  BY <1>1, LearntFacts
<1>3. /\ InsertFact(b, A, b.levelStart[1] + 1) /\ AttachUnit(Learnt, "facts")
      /\ locked' = locked \union {analysis.p}
      /\ visit' = FirstVisit(levelStart') /\ seen' = seen \ Cleared /\ analysis' = NoAnalysis
      /\ pc' = "propagating" /\ UNCHANGED <<problem, withTheory, toAdd, decisionCount, answer>>
  BY <1>1, <1>2 DEF Learn, AddLearnt, formulaVars
<1> HIDE DEF A, b
<1>4. P \in Nat /\ P <= Len(b.decisions)
  BY <1>1, LevelOneFacts DEF b
<1>5. b.value[VarOf(A)] = "UNASSIGNED"
  <2>1. \A v \in Vars : b.value[v] = IF value[v] # "UNASSIGNED" /\ level[v] > 1 THEN "UNASSIGNED" ELSE value[v]
    BY <1>1, LevelOneFacts, Zenon DEF b
  <2>2. QED
    BY <1>2, <2>1
<1>6. locked' \subseteq locked \cup {VarOf(A)} /\ seen' \subseteq Vars
  BY <1>2, <1>3 DEF SatInv, SatTypeOK
<1> HIDE DEF P
<1>7. InsertFact(BackTracked(1), A, P + 1) /\ AttachUnit(<<A>>, "facts") /\ P <= Len(BackTracked(1).decisions)
      /\ BackTracked(1).value[VarOf(A)] = "UNASSIGNED" /\ \A a \in Sure : Satisfies(a, <<A>>)
  BY <1>2, <1>3, <1>4, <1>5 DEF b, P
<1>8. "facts" \in {"facts"} \cup TheoryLists /\ pc # "adding"
  BY <1>1
<1>9. QED
  BY <1>2, <1>3, <1>4, <1>6, <1>7, <1>8, FactAdded, Zenon

\* A longer learnt clause implies its last literal, at the level it jumps back to.
LEMMA LearnClauseKeeps == SatInv /\ Learn /\ Remember /\ Len(Learnt) # 1 => SatInv'
<1> SUFFICES ASSUME SatInv, Learn, Remember, Len(Learnt) # 1 PROVE SatInv'
  OBVIOUS
<1> DEFINE p == analysis.p
           k == BackLevel
           b == BackTracked(BackLevel)
           D == b.decisions
           LS == b.levelStart
           val == b.value
           rs == b.reason
           lits == Learnt
           A == Assertion
           x == SignOf(Assertion)
           new == Len(db) + 1
<1>1. pc = "learning" /\ AddLearnt
  BY LearntIsAdded
<1>2. /\ lits \in Seq(Lits) /\ Distinct(lits) /\ Len(lits) \in Nat /\ Len(lits) > 1 /\ lits[Len(lits)] = A
      /\ A \in Lits /\ VarOf(A) = p /\ p \in Vars
      /\ value[p] # "UNASSIGNED" /\ level[p] = Len(levelStart)
      /\ \A a \in Sure : Satisfies(a, lits)
      /\ k \in Nat /\ k >= 2 /\ k < Len(levelStart) /\ Len(levelStart) \in Nat
      /\ \A l \in ToSet(lits) : l # A => VarOf(l) # p /\ FalseIn(value, l) /\ level[VarOf(l)] \in 2 .. k
      /\ level[VarOf(lits[1])] = k
  BY <1>1, LearntFacts, Zenon
<1>0. /\ pc = "learning" /\ pc' = "propagating"
      /\ decisions' = Append(D, p)
      /\ levelStart' = LS
      /\ value' = [val EXCEPT ![p] = x]
      /\ level' = [level EXCEPT ![p] = k]
      /\ reason' = [rs EXCEPT ![p] = new]
      /\ satisfied' = b.satisfied \cup {new}
      /\ Attach(lits, "satClauses", 1, Len(lits))
      /\ locked' = locked
      /\ visit' = FirstVisit(levelStart')
      /\ seen' = seen \ Cleared
      /\ analysis' = NoAnalysis
      /\ UNCHANGED <<problem, withTheory, toAdd, decisionCount, answer>>
  BY <1>1 DEF Learn, AddLearnt, formulaVars
<1>3. /\ Len(LS) = k
      /\ val \in [Vars -> Values] /\ rs \in [Vars -> Nat]
      /\ \A v \in Vars : val[v] = IF value[v] # "UNASSIGNED" /\ level[v] > k THEN "UNASSIGNED" ELSE value[v]
      /\ \A v \in Vars : val[v] # "UNASSIGNED" => rs[v] = reason[v]
      /\ TrailOf(D, LS, val, level)
      /\ ReasonsOf(D, LS, val, level, rs, db)
      /\ b.satisfied \subseteq 1 .. Len(db)
      /\ \A c \in Live \cap b.satisfied : TrueIn(val, watch[c][1]) \/ TrueIn(val, watch[c][2])
      /\ \A c \in Live : \A j \in {1, 2} : db[c].list \notin TheoryLists /\ FalseIn(val, watch[c][j]) =>
           TrueIn(val, watch[c][3 - j]) /\ level[VarOf(watch[c][3 - j])] <= level[VarOf(watch[c][j])]
      /\ FactsOf(Sure, val, level)
      /\ \A c \in 1 .. Len(db) : Len(db[c].lits) = 1 /\ db[c].list # "dropped" =>
              TrueIn(val, db[c].lits[1]) /\ level[VarOf(db[c].lits[1])] = 1
  <2>1. k \in Nat /\ k >= 1 /\ k < Len(levelStart)
    BY <1>2
  <2> HIDE DEF b, k
  <2>2. b = BackTracked(k)
    BY DEF b, k
  <2>3. QED
    BY <1>1, <2>1, <2>2, BackTrackedFacts, Zenon
<1> DEFINE sat == b.satisfied
<1>s. satisfied' = sat \cup {new}
  BY <1>0
<1>u. /\ sat \subseteq 1 .. Len(db)
      /\ \A c \in Live \cap sat : TrueIn(val, watch[c][1]) \/ TrueIn(val, watch[c][2])
  BY <1>3
<1> HIDE DEF sat
<1> HIDE DEF D, LS, val, rs, b
<1> HIDE DEF lits
<1>x. x = SignOf(A)
  OBVIOUS
<1> HIDE DEF A, x, p, k
<1>4. SatTypeOK /\ ClauseInv /\ WatchInv /\ ListInv /\ Sound /\ AtRest /\ LockedInv
  BY DEF SatInv
<1>5. /\ level \in [Vars -> Nat] /\ val[p] = "UNASSIGNED" /\ x \in Values /\ x # "UNASSIGNED"
      /\ D \in Seq(Vars) /\ Len(D) \in Nat /\ LS[k] \in Nat /\ LS[k] <= Len(D)
  <2>1. /\ level \in [Vars -> Nat] /\ D \in Seq(Vars) /\ Len(D) \in Nat
        /\ \A n \in 1 .. Len(LS) : LS[n] \in Nat /\ LS[n] <= Len(D)
    BY <1>3, TrailShape
  <2>2. val[p] = "UNASSIGNED"
    BY <1>2, <1>3
  <2>3. k \in 1 .. Len(LS)
    BY <1>2, <1>3
  <2>4. QED
    BY <1>2, <1>x, <2>1, <2>2, <2>3, LitFacts
<1>6. /\ value'[p] = x /\ level'[p] = k
      /\ \A u \in Vars : u # p => value'[u] = val[u] /\ level'[u] = level[u]
      /\ \A l \in Lits : TrueIn(val, l) => VarOf(l) # p /\ TrueIn(value', l)
      /\ \A l \in Lits : FalseIn(value', l) => VarOf(l) = p \/ FalseIn(val, l)
  <2>1. value' = [val EXCEPT ![p] = x] /\ level' = [level EXCEPT ![p] = k]
    BY <1>0
  <2>2. val \in [Vars -> Values] /\ level \in [Vars -> Nat] /\ p \in Vars /\ val[p] = "UNASSIGNED"
    BY <1>2, <1>3, <1>5
  <2>3. /\ [val EXCEPT ![p] = x][p] = x /\ [level EXCEPT ![p] = k][p] = k
        /\ \A u \in Vars : u # p => [val EXCEPT ![p] = x][u] = val[u] /\ [level EXCEPT ![p] = k][u] = level[u]
        /\ \A l \in Lits : TrueIn(val, l) => VarOf(l) # p /\ TrueIn([val EXCEPT ![p] = x], l)
        /\ \A l \in Lits : FalseIn([val EXCEPT ![p] = x], l) => VarOf(l) = p \/ FalseIn(val, l)
    BY <2>2, SetFree
  <2>4. QED
    BY <2>1, <2>3, Zenon
<1>7. TrueIn(value', A)
  BY <1>2, <1>6, <1>x DEF TrueIn
\* Below level k the clause is false but for the assertion.
<1>8. \A l \in ToSet(lits) : IF VarOf(l) = p THEN l = A ELSE FalseIn(val, l)
  <2> SUFFICES ASSUME NEW l \in ToSet(lits), l # A PROVE VarOf(l) # p /\ FalseIn(val, l)
    BY <1>2
  <2>1. VarOf(l) # p /\ FalseIn(value, l) /\ level[VarOf(l)] \in 2 .. k
    BY <1>2
  <2>2. VarOf(l) \in Vars
    <3>1. l \in Lits
      BY <1>2, ToSetIs
    <3>2. QED
      BY <3>1, LitFacts
  <2>3. ~(level[VarOf(l)] > k)
    BY <1>2, <2>1
  <2>4. val[VarOf(l)] = value[VarOf(l)]
    BY <1>3, <2>2, <2>3
  <2>5. QED
    BY <2>1, <2>4 DEF FalseIn
<1> DEFINE r == [lits |-> lits, list |-> "satClauses"]
           w == <<lits[1], lits[Len(lits)]>>
<1>9. /\ db' = Append(db, r) /\ watch' = Append(watch, w)
      /\ r \in ClauseRecords /\ w \in Seq(Lits)
      /\ watchList' \in [Vars -> Seq(Watchers)]
      /\ Live' = Live \cup {new}
      /\ ClauseInv'
      /\ \A v \in Vars : ToSet(watchList'[v]) \subseteq Live' \X {1, 2}
      /\ \A c \in Live' : \A j \in {1, 2} : <<c, j>> \in ToSet(watchList'[VarOf(watch'[c][j])])
      /\ \A v \in Vars : \A u \in ToSet(watchList'[v]) : VarOf(watch'[u[1]][u[2]]) = v
  <2>1. 1 \in 1 .. Len(lits) /\ Len(lits) \in 1 .. Len(lits) /\ 1 # Len(lits)
    BY <1>2
  <2>2. "satClauses" \in {"clauses", "satClauses"} \cup TheoryLists
    OBVIOUS
  <2>3. \A v \in Vars : \A u \in ToSet(watchList[v]) : VarOf(watch[u[1]][u[2]]) = v
    BY <1>4 DEF ListInv
  <2>4. Attach(lits, "satClauses", 1, Len(lits)) /\ lits \in Seq(Lits) /\ Distinct(lits) /\ Len(lits) > 1
    BY <1>0, <1>2
  <2>5. /\ db' = Append(db, r) /\ watch' = Append(watch, w)
        /\ r \in ClauseRecords /\ w \in Seq(Lits)
        /\ watchList' \in [Vars -> Seq(Watchers)]
        /\ Live' = Live \cup {new}
        /\ ClauseInv'
        /\ \A v \in Vars : ToSet(watchList'[v]) \subseteq Live' \X {1, 2}
        /\ \A c \in Live' : \A j \in {1, 2} : <<c, j>> \in ToSet(watchList'[VarOf(watch'[c][j])])
    BY <1>4, <2>1, <2>2, <2>4, Attached
  <2>6. \A v \in Vars : \A u \in ToSet(watchList'[v]) : VarOf(watch'[u[1]][u[2]]) = v
    BY <1>4, <2>1, <2>2, <2>3, <2>4, Attached, Zenon
  <2>7. QED
    BY <2>5, <2>6
<1>10. r.lits = lits /\ r.list = "satClauses" /\ w[1] = lits[1] /\ w[2] = A
  BY <1>2
<1> HIDE DEF r, w
<1>11. /\ db' \in Seq(ClauseRecords) /\ watch' \in Seq(Seq(Lits)) /\ Len(watch') = Len(db')
       /\ Len(db') = new /\ Len(db) \in Nat
       /\ \A c \in 1 .. Len(db) : db'[c] = db[c] /\ watch'[c] = watch[c]
       /\ db'[new] = r /\ watch'[new] = w
       /\ \A c \in 1 .. Len(db') : c \in 1 .. Len(db) \/ c = new
       /\ Sure' \subseteq Sure
  <2>1. /\ db' \in Seq(ClauseRecords) /\ watch' \in Seq(Seq(Lits)) /\ Len(watch') = Len(db')
        /\ Len(db') = new /\ Len(db) \in Nat
        /\ \A c \in 1 .. Len(db) : db'[c] = db[c] /\ watch'[c] = watch[c]
        /\ db'[new] = r /\ watch'[new] = w
        /\ \A c \in 1 .. Len(db') : c \in 1 .. Len(db) \/ c = new
        /\ Models' \subseteq Models
    BY <1>4, <1>9, <1>10, MoreClauses
  <2>2. QED
    BY <2>1, Unsure
<1>12. new \in Nat /\ new # 0 /\ new \in 1 .. new /\ new \notin 1 .. Len(db)
  BY <1>11
<1> HIDE DEF new
<1>13. TrailInv'
  <2>1. TrailOf(Append(D, p), LS, [val EXCEPT ![p] = x], [level EXCEPT ![p] = Len(LS)])
    BY <1>2, <1>3, <1>5, TrailExtended
  <2>2. QED
    BY <1>0, <1>3, <2>1, Zenon DEF TrailInv
<1>14. ReasonInv'
  <2>1. \A c \in DOMAIN db : c \in DOMAIN db' /\ db'[c].lits = db[c].lits
    <3>1. DOMAIN db = 1 .. Len(db)
      BY <1>4, SeenTypes
    <3>2. DOMAIN db' = 1 .. Len(db') /\ 1 .. Len(db) \subseteq 1 .. Len(db')
      BY <1>11 DEF new
    <3>3. QED
      BY <1>11, <3>1, <3>2
  <2> DEFINE base == db'
  <2> HIDE DEF base
  <2>2. \A c \in DOMAIN db : c \in DOMAIN base /\ base[c].lits = db[c].lits
    BY <2>1 DEF base
  <2>3. ReasonsOf(D, LS, val, level, rs, base)
    BY <1>3, <2>2, ReasonsMoreClauses
  <2>4. new \in {0} \cup DOMAIN base /\ new # 0 /\ base[new].lits = lits /\ base \in Seq(ClauseRecords)
    BY <1>10, <1>11, <1>12 DEF base
  <2>5. new # 0 => \A l \in ToSet(base[new].lits) : IF VarOf(l) = p THEN SignOf(l) = x ELSE FalseIn(val, l)
    BY <1>8, <1>x, <2>4
  <2>6. ReasonsOf(Append(D, p), LS, [val EXCEPT ![p] = x], [level EXCEPT ![p] = Len(LS)], [rs EXCEPT ![p] = new], base)
    BY <1>2, <1>3, <1>5, <2>3, <2>4, <2>5, ReasonsExtended
  <2>7. QED
    BY <1>0, <1>3, <2>6, Zenon DEF ReasonInv, base
<1>15. /\ visit' = [i |-> LS[k], j |-> 1, list |-> <<>>] /\ Len(levelStart') = k /\ Len(levelStart') > 1
       /\ Last(levelStart') = LS[k]
  <2>1. Len(levelStart') = k /\ Len(levelStart') > 1
    BY <1>0, <1>2, <1>3
  <2>2. Last(levelStart') = LS[k]
    BY <1>0, <1>3 DEF Last
  <2>3. QED
    BY <1>0, <2>1, <2>2 DEF FirstVisit
<1>16. visit' \in [i : Nat, j : Nat \ {0}, list : Seq(Watchers)] /\ ToSet(visit'.list) = {} /\ visit'.i = LS[k]
       /\ visit'.list = <<>>
  <2>1. <<>> \in Seq(Watchers) /\ ToSet(<<>>) = {}
    BY DEF ToSet
  <2>2. QED
    BY <1>5, <1>15, <2>1
<1>17. SatTypeOK'
  <2>1. locked' \subseteq Vars /\ reason' \in [Vars -> Nat] /\ seen' \subseteq Vars /\ satisfied' \subseteq 1 .. Len(db')
    <3>1. locked \subseteq Vars
      BY <1>4 DEF SatTypeOK
    <3>2. reason' \in [Vars -> Nat]
      BY <1>0, <1>3, <1>12
    <3>3. satisfied' \subseteq 1 .. Len(db')
      <4>1. 1 .. Len(db) \subseteq 1 .. Len(db') /\ new \in 1 .. Len(db')
        BY <1>11, <1>12 DEF new
      <4>2. QED
        BY <1>s, <1>u, <4>1
    <3>4. QED
      BY <1>0, <1>4, <3>1, <3>2, <3>3 DEF SatTypeOK
  <2>2. analysis' \in [confl : Nat, p : Nat, learnt : Seq(Lits), index : Nat, pathC : Int]
    <3>1. <<>> \in Seq(Lits)
      OBVIOUS
    <3>2. QED
      BY <1>0, <3>1 DEF NoAnalysis
  <2>3. /\ toAdd' \in Seq(Seq(Lits)) /\ \A i \in 1 .. Len(toAdd') : toAdd'[i] # <<>> /\ Distinct(toAdd'[i])
    BY <1>0, <1>4 DEF SatTypeOK
  <2>4. QED
    BY <1>0, <1>4, <1>9, <1>11, <1>16, <2>1, <2>2, <2>3 DEF SatTypeOK
<1>18. WatchInv'
  BY <1>9, <1>16 DEF WatchInv
<1>19. \A c \in Live : c \in 1 .. Len(db) /\ watch'[c] = watch[c] /\ c # new
  BY <1>11, <1>12 DEF Live
<1>20. FlagInv'
  <2> SUFFICES ASSUME NEW c \in Live', c \in satisfied' PROVE TrueIn(value', watch'[c][1]) \/ TrueIn(value', watch'[c][2])
    BY DEF FlagInv
  <2>1. CASE c = new
    BY <1>7, <1>10, <1>11, <2>1
  <2>2. CASE c # new
    <3>1. c \in Live /\ c \in sat
      BY <1>9, <1>s, <2>2
    <3>2. 1 \in {1, 2} /\ 2 \in {1, 2}
      OBVIOUS
    <3>3. watch[c][1] \in Lits /\ watch[c][2] \in Lits
      BY <1>4, <3>1, <3>2, WatchedLits
    <3>4. TrueIn(val, watch[c][1]) \/ TrueIn(val, watch[c][2])
      BY <1>u, <3>1
    <3>5. QED
      BY <1>6, <1>19, <3>1, <3>3, <3>4
  <2>3. QED
    BY <2>1, <2>2
<1>21. UnitInv'
  <2> SUFFICES ASSUME NEW c \in 1 .. Len(db'), Len(db'[c].lits) = 1, db'[c].list # "dropped"
               PROVE  TrueIn(value', db'[c].lits[1]) /\ level'[VarOf(db'[c].lits[1])] = 1
    BY DEF UnitInv
  <2>1. c # new
    <3>1. c = new => db'[c].lits = lits
      BY <1>10, <1>11, Zenon
    <3>2. ~(1 > 1)
      OBVIOUS
    <3>3. QED
      BY <1>2, <3>1, <3>2, Zenon
  <2>2. c \in 1 .. Len(db) /\ db'[c] = db[c]
    BY <1>11, <2>1
  <2>3. TrueIn(val, db[c].lits[1]) /\ level[VarOf(db[c].lits[1])] = 1
    BY <1>3, <2>2
  <2>4. db[c].lits[1] \in Lits
    <3>1. db[c].lits \in Seq(Lits) /\ Len(db[c].lits) = 1
      BY <1>4, <2>2, SeenTypes
    <3>2. QED
      BY <3>1
  <2>5. QED
    BY <1>6, <2>2, <2>3, <2>4, LitFacts
<1>22. Sound'
  <2>1. \A v \in Vars : value'[v] # "UNASSIGNED" /\ reason'[v] # new => value[v] # "UNASSIGNED" /\ reason'[v] = reason[v]
    <3> SUFFICES ASSUME NEW v \in Vars, value'[v] # "UNASSIGNED", reason'[v] # new
                 PROVE  value[v] # "UNASSIGNED" /\ reason'[v] = reason[v]
      OBVIOUS
    <3>1. v # p
      BY <1>0, <1>3
    <3>2. val[v] # "UNASSIGNED" /\ reason'[v] = rs[v]
      BY <1>0, <1>3, <1>6, <3>1
    <3>3. QED
      BY <1>3, <3>2
  <2>2. ASSUME NEW c \in 1 .. Len(db'), c \in 1 .. Len(db), InUse(c)' PROVE InUse(c) /\ db'[c].lits = db[c].lits
    <3>1. db'[c] = db[c] /\ c # new
      BY <1>11, <1>12, <2>2
    <3>2. QED
      BY <2>1, <2>2, <3>1 DEF InUse
  <2>3. \A c \in 1 .. Len(db') : \/ InUse(c)' => c \in 1 .. Len(db) /\ InUse(c) /\ db'[c].lits = db[c].lits
                                 \/ \A a \in Sure' : Satisfies(a, db'[c].lits)
    <3> SUFFICES ASSUME NEW c \in 1 .. Len(db')
                 PROVE  \/ InUse(c)' => c \in 1 .. Len(db) /\ InUse(c) /\ db'[c].lits = db[c].lits
                        \/ \A a \in Sure' : Satisfies(a, db'[c].lits)
      OBVIOUS
    <3>1. CASE c \in 1 .. Len(db)
      BY <2>2, <3>1
    <3>2. CASE c = new
      BY <1>2, <1>10, <1>11, <3>2
    <3>3. QED
      BY <1>11, <3>1, <3>2
  <2>4. QED
    BY <1>4, <1>11, <2>3, StillSound
<1>23. FactsInv'
  <2> SUFFICES ASSUME NEW u \in Vars, value'[u] # "UNASSIGNED", level'[u] = 1, NEW a \in Sure
               PROVE  ~Differ(value', a, u)
    BY <1>11 DEF FactsInv, FactsOf
  <2>1. u # p
    BY <1>2, <1>6
  <2>2. ~Differ(val, a, u)
    BY <1>3, <1>6, <2>1 DEF FactsOf
  <2>3. QED
    BY <1>6, <2>1, <2>2 DEF Differ
<1>24. Len(decisions') = Len(D) + 1 /\ decisions'[Len(D) + 1] = p
  BY <1>0, <1>2, <1>5, OneMore
<1>25. VisitInv'
  <2>1. LS[k] <= Len(decisions') /\ LS[k] < Len(decisions') /\ LS[k] >= LS[k]
    BY <1>5, <1>24
  <2>2. QED
    BY <1>0, <1>15, <1>16, <2>1 DEF VisitInv
<1>26. WatchersInv'
  <2> SUFFICES ASSUME NEW c \in Live', NEW j \in {1, 2}, db'[c].list \notin TheoryLists, FalseIn(value', watch'[c][j])
               PROVE  Backed(c, j)' \/ Pending(<<c, j>>)'
    BY DEF WatchersInv
  <2>1. CASE c = new
    <3>1. watch'[c][1] = lits[1] /\ watch'[c][2] = A
      BY <1>10, <1>11, <2>1
    <3>2. j # 2
      BY <1>7, <3>1 DEF TrueIn, FalseIn
    <3>3. j = 1 /\ 3 - j = 2
      BY <3>2
    <3>4. lits[1] # A /\ VarOf(lits[1]) # p /\ VarOf(lits[1]) \in Vars
      <4>1. 1 \in DOMAIN lits
        BY <1>2
      <4>2. lits[1] # A
        BY <1>7, <2>1, <3>1, <3>3 DEF TrueIn, FalseIn
      <4>3. lits[1] \in ToSet(lits) /\ lits[1] \in Lits
        BY <1>2, <4>1, ToSetIs
      <4>4. QED
        BY <1>2, <4>2, <4>3, LitFacts
    <3>5. level'[VarOf(A)] = k /\ level'[VarOf(lits[1])] = k /\ k <= k
      BY <1>2, <1>6, <3>4
    <3>6. Backed(c, j)'
      BY <1>7, <3>1, <3>3, <3>5 DEF Backed
    <3>7. QED
      BY <3>6
  <2>2. CASE c # new
    <3>1. c \in Live /\ watch'[c] = watch[c]
      BY <1>9, <1>19, <2>2
    <3>2. /\ watch[c][j] \in Lits /\ VarOf(watch[c][j]) \in Vars /\ watch[c][3 - j] \in Lits
          /\ VarOf(watch[c][3 - j]) \in Vars
      <4>1. 3 - j \in {1, 2}
        OBVIOUS
      <4>2. QED
        BY <1>4, <3>1, <4>1, WatchedLits
    <3>3. CASE VarOf(watch[c][j]) = p
      <4>1. Len(D) + 1 \in 1 .. Len(decisions') /\ Len(D) + 1 > visit'.i
        BY <1>5, <1>16, <1>24
      <4>2. decisions'[Len(D) + 1] = VarOf(watch'[c][j])
        BY <1>24, <3>1, <3>3
      <4>3. QED
        BY <4>1, <4>2, LaterIsPending
    <3>4. CASE VarOf(watch[c][j]) # p
      <4>1. FalseIn(val, watch[c][j])
        BY <1>6, <3>1, <3>2, <3>4
      <4>2. TrueIn(val, watch[c][3 - j]) /\ level[VarOf(watch[c][3 - j])] <= level[VarOf(watch[c][j])]
        <5>1. db[c].list \notin TheoryLists
          BY <1>11, <1>19, <3>1
        <5>2. QED
          BY <1>3, <3>1, <4>1, <5>1
      <4>3. TrueIn(value', watch[c][3 - j]) /\ VarOf(watch[c][3 - j]) # p
        BY <1>6, <3>2, <4>2
      <4>4. level'[VarOf(watch[c][3 - j])] <= level'[VarOf(watch[c][j])]
        BY <1>6, <3>2, <3>4, <4>2, <4>3
      <4>5. QED
        BY <3>1, <4>3, <4>4 DEF Backed
    <3>5. QED
      BY <3>3, <3>4
  <2>3. QED
    BY <2>1, <2>2
<1>27. AddingInv' /\ AtRest' /\ AnalysisInv' /\ AnswerInv'
  BY <1>0 DEF AddingInv, AtRest, AnalysisInv, AnswerInv
<1>30. LockedInv'
  <2> SUFFICES ASSUME NEW v \in locked PROVE value'[v] # "UNASSIGNED" /\ level'[v] = 1
    BY <1>0 DEF LockedInv
  <2>1. v \in Vars /\ value[v] # "UNASSIGNED" /\ level[v] = 1
    BY <1>4 DEF SatTypeOK, LockedInv
  <2> DEFINE N == Len(levelStart)
  <2>4. k \in Nat /\ k >= 2 /\ k < N /\ N \in Nat
    BY <1>2
  <2> HIDE DEF N
  <2>6. ~(1 > k) /\ 1 # N
    BY <2>4
  <2>2. ~(1 > k) /\ 1 # Len(levelStart)
    BY <2>6 DEF N
  <2>3. val[v] = value[v] /\ v # p
    BY <1>2, <1>3, <2>1, <2>2
  <2>5. QED
    BY <1>6, <2>1, <2>3
<1>29. ListInv'
  BY <1>9, <1>16, NoList
<1>28. QED
  BY <1>9, <1>29, <1>13, <1>14, <1>17, <1>18, <1>20, <1>21, <1>22, <1>23, <1>25, <1>26, <1>27, <1>30 DEF SatInv

-----------------------------------------------------------------------------
(* The theorems *)

\* The invariant holds of a new solver, whatever is in its flags.
LEMMA InitIsInv == SatInit => SatInv
<1> SUFFICES ASSUME SatInit PROVE SatInv
  OBVIOUS
<1>0. /\ problem \in Problems /\ withTheory \in BOOLEAN /\ toAdd = problem
      /\ db = <<>> /\ watch = <<>> /\ satisfied = {}
      /\ watchList = [v \in Vars |-> <<>>]
      /\ value = [v \in Vars |-> "UNASSIGNED"]
      /\ level = [v \in Vars |-> 1] /\ reason = [v \in Vars |-> 0]
      /\ locked = {} /\ decisions = <<>> /\ levelStart = <<0>> /\ pc = "adding"
      /\ visit = [i |-> 0, j |-> 1, list |-> <<>>]
      /\ seen \subseteq Vars /\ analysis = NoAnalysis /\ decisionCount = 0 /\ answer = "none"
  BY SatAssumption DEF SatInit
<1>1. /\ \A T : <<>> \in Seq(T) /\ ToSet(<<>>) = {} /\ Len(<<>>) = 0 /\ 1 .. 0 = {}
  BY DEF ToSet
<1>2. Live = {} /\ 1 .. Len(db) = {}
  BY <1>0, <1>1 DEF Live
<1>3. SatTypeOK
  <2>1. toAdd \in Seq(Seq(Lits)) /\ \A i \in 1 .. Len(toAdd) : toAdd[i] # <<>> /\ Distinct(toAdd[i])
    <3>1. toAdd \in Seq(Seq(Lits))
      BY <1>0, SatAssumption
    <3>2. DOMAIN toAdd = 1 .. Len(toAdd)
      BY <3>1
    <3>3. \A i \in DOMAIN toAdd : toAdd[i] # <<>> /\ Distinct(toAdd[i])
      BY <1>0, SatAssumption, Zenon DEF Distinct
    <3>4. QED
      BY <3>1, <3>2, <3>3, Zenon
  <2>2. watchList \in [Vars -> Seq(Watchers)]
    <3>1. <<>> \in Seq(Watchers)
      BY <1>1
    <3>2. QED
      BY <1>0, <3>1
  <2>3. visit \in [i : Nat, j : Nat \ {0}, list : Seq(Watchers)]
    BY <1>0
  <2>4. analysis \in [confl : Nat, p : Nat, learnt : Seq(Lits), index : Nat, pathC : Int]
    BY <1>0 DEF NoAnalysis
  <2>5. db \in Seq(ClauseRecords) /\ watch \in Seq(Seq(Lits)) /\ Len(watch) = Len(db)
    BY <1>0, <1>1
  <2>6. reason \in [Vars -> Nat] /\ locked \subseteq Vars /\ satisfied \subseteq 1 .. Len(db) /\ seen \subseteq Vars
    BY <1>0
  <2>7. QED
    BY <1>0, <2>1, <2>2, <2>3, <2>4, <2>5, <2>6 DEF SatTypeOK
<1>4. ClauseInv /\ FlagInv /\ WatchersInv /\ UnitInv /\ Sound
  BY <1>0, <1>2 DEF ClauseInv, FlagInv, WatchersInv, UnitInv, Sound
<1>5. WatchInv /\ ListInv
  <2>1. \A v \in Vars : ToSet(watchList[v]) = {}
    BY <1>0, <1>1
  <2>2. ToSet(visit.list) = {} /\ 1 .. Len(visit.list) = {}
    BY <1>0, <1>1
  <2>3. WatchInv
    BY <1>2, <2>1, <2>2 DEF WatchInv
  <2>4. ListInv
    BY <2>1, <2>2 DEF ListInv
  <2>5. QED
    BY <2>3, <2>4
<1>6. TrailInv
  <2>1. /\ decisions \in Seq(Vars) /\ value \in [Vars -> Values] /\ level \in [Vars -> Nat]
        /\ \A v \in Vars : level[v] = 1
    BY <1>0, <1>1 DEF Values
  <2>2. 0 \in Nat /\ 0 <= Len(decisions) /\ Len(decisions) = 0
    BY <1>0
  <2>3. \A v \in Vars : value[v] # "UNASSIGNED" <=> \E n \in 1 .. Len(decisions) : decisions[n] = v
    BY <1>0, <2>2
  <2>4. TrailOf(decisions, <<0>>, value, level)
    BY <2>1, <2>2, <2>3, OneLevelTrail
  <2>5. QED
    BY <1>0, <2>4 DEF TrailInv
<1>7. ReasonInv
  <2>1. \A n \in 1 .. Len(decisions) : decisions[n] \in Vars
    BY <1>0
  <2>2. \A v \in Vars : level[v] = 1 /\ reason[v] = 0
    BY <1>0
  <2>3. QED
    BY <2>1, <2>2, NoReasons DEF ReasonInv
<1>8. VisitInv /\ FactsInv
  <2>1. FactsInv
    BY <1>0 DEF FactsInv, FactsOf
  <2>2. Len(levelStart) = 1 /\ ~(1 > 1) /\ visit.i = 0 /\ 0 <= Len(decisions)
    BY <1>0
  <2>3. QED
    BY <1>0, <2>1, <2>2 DEF VisitInv
<1>9. AddingInv /\ AtRest /\ AnalysisInv /\ AnswerInv
  <2>1. AddingInv
    BY <1>0, <1>2 DEF AddingInv
  <2>2. QED
    BY <1>0, <2>1 DEF AtRest, AnalysisInv, AnswerInv
<1>11. LockedInv
  BY <1>0 DEF LockedInv
<1>10. QED
  BY <1>3, <1>4, <1>5, <1>6, <1>7, <1>8, <1>9, <1>11 DEF SatInv

\* Nothing happens.
LEMMA StutterKeeps == SatInv /\ UNCHANGED satVars => SatInv'
<1> SUFFICES ASSUME SatInv, UNCHANGED satVars PROVE SatInv'
  OBVIOUS
<1>1. UNCHANGED <<problem, withTheory, toAdd, db, watch, satisfied, watchList, value, level, reason, locked,
                  decisions, levelStart, visit, seen, analysis, decisionCount, pc, answer, clean>>
  BY DEF satVars, solverState, formulaVars, clauseVars, trailVars, searchVars
<1>2. UNCHANGED <<trailVars, db, watch>>
  BY <1>1 DEF trailVars
<1>3. ClauseInv' /\ TrailInv' /\ ReasonInv' /\ UnitInv' /\ LockedInv' /\ Sound' /\ FactsInv'
      /\ Models' = Models /\ Sure' \subseteq Sure /\ Live' = Live
  BY <1>1, <1>2, SameTrailAndClauses
<1>4. SatTypeOK'
  <2>1. SatTypeOK
    BY DEF SatInv
  <2>2. QED
    BY <1>1, <2>1 DEF SatTypeOK
<1>5. WatchInv' /\ FlagInv' /\ VisitInv'
  <2>1. WatchInv /\ FlagInv /\ VisitInv
    BY DEF SatInv
  <2>2. QED
    BY <1>1, <1>3, <2>1 DEF WatchInv, FlagInv, VisitInv
<1>6. WatchersInv'
  <2>1. WatchersInv
    BY DEF SatInv
  <2>2. ASSUME NEW c, NEW k PROVE (Backed(c, k)' <=> Backed(c, k)) /\ (Pending(<<c, k>>)' <=> Pending(<<c, k>>))
    <3>1. Backed(c, k)' <=> Backed(c, k)
      BY <1>1 DEF Backed
    <3>2. Pending(<<c, k>>)' <=> Pending(<<c, k>>)
      BY <1>1 DEF Pending, Ahead
    <3>3. QED
      BY <3>1, <3>2
  <2>3. QED
    BY <1>1, <1>3, <2>1, <2>2 DEF WatchersInv
<1>7. AddingInv' /\ AtRest'
  <2>1. AddingInv /\ AtRest
    BY DEF SatInv
  <2>2. QED
    BY <1>1, <2>1 DEF AddingInv, AtRest
<1>8. AnalysisInv'
  <2>1. AnalysisInv
    BY DEF SatInv
  <2>5. ToCome' = ToCome
    BY <1>1 DEF ToCome
  <2>6. Exact' <=> Exact
    BY <1>1, <1>3, <2>5, Zenon DEF Exact
  <2>2. Found' <=> Found
    BY <1>1, <1>3, Zenon DEF Found
  <2>3. OnTheWay' <=> OnTheWay
    BY <1>1, <1>3, <2>5 DEF OnTheWay
  <2>4. QED
    BY <1>1, <2>1, <2>2, <2>3, <2>6 DEF AnalysisInv
<1>11. ListInv'
  <2>1. ListInv
    BY DEF SatInv
  <2>2. QED
    BY <1>1, <2>1 DEF ListInv, FalseIn
<1>9. AnswerInv'
  <2>1. AnswerInv
    BY DEF SatInv
  <2>2. Accepted' = Accepted
    BY <1>1 DEF Accepted, Clauses
  <2>3. \A l : IsTrue(l)' <=> IsTrue(l)
    BY <1>1 DEF IsTrue
  <2>4. QED
    BY <1>1, <1>3, <2>1, <2>2, <2>3 DEF AnswerInv, IsTrue
<1>10. QED
  BY <1>3, <1>4, <1>5, <1>6, <1>7, <1>8, <1>9, <1>11 DEF SatInv

\* Which steps touch the marks: an analysis sets them and takes back all it has set.
LEMMA MarksStep ==
  ASSUME SatInv, [SatNext]_satVars
  PROVE  \/ UNCHANGED <<clean, pc, seen>>
         \/ pc = "learning" /\ (clean => seen' = {}) /\ (clean' <=> clean)
         \/ pc' \in {"analysing", "learning"} /\ pc = "analysing" /\ (clean => clean')
         \/ UNCHANGED seen /\ pc \notin {"analysing", "learning"} /\ Remember
<1>1. CASE UNCHANGED satVars
  BY <1>1 DEF satVars, solverState, searchVars
<1>2. CASE Learn /\ Remember
  <2>1. pc = "learning" /\ (clean => seen \ Cleared = {})
    BY <1>2, LearntIsAdded, LearntFacts DEF Learn
  <2>2. QED
    BY <1>2, <2>1 DEF Learn, Remember
<1>3. CASE InspectReason /\ Remember
  <2>1. pc = "analysing"
    BY <1>3 DEF InspectReason
  <2>2. pc' # "crashed"
    BY <1>3, InspectReasonKeeps
  <2>3. pc' \in {"analysing", "learning"}
    BY <1>3, <2>2 DEF InspectReason
  <2>4. QED
    BY <1>3, <2>1, <2>3 DEF Remember
<1>4. CASE /\ Remember
           /\ \/ AddBasicClause \/ FinishAdding \/ NextDecision \/ SkipWatcher \/ MoveWatcher \/ Imply
              \/ Conflict \/ Decide \/ AnswerTrue
  <2>1. UNCHANGED seen /\ pc \notin {"analysing", "learning"}
    BY <1>4 DEF AddBasicClause, FinishAdding, NextDecision, SkipWatcher, MoveWatcher, Imply, Conflict,
                Decide, AnswerTrue, NeedsWatch, Visiting, searchVars
  <2>2. QED
    BY <1>4, <2>1
<1>5. QED
  BY <1>1, <1>2, <1>3, <1>4 DEF SatNext, SatAction

\* So the marks of an analysis are gone after it.
LEMMA MarksInvKeeps == SatInv /\ MarksInv /\ [SatNext]_satVars => MarksInv'
<1> SUFFICES ASSUME SatInv, MarksInv, [SatNext]_satVars PROVE MarksInv'
  OBVIOUS
<1>1. CASE UNCHANGED <<clean, pc, seen>>
  BY <1>1 DEF MarksInv
<1>2. CASE pc = "learning" /\ (clean => seen' = {}) /\ (clean' <=> clean)
  BY <1>2 DEF MarksInv
<1>3. CASE pc' \in {"analysing", "learning"}
  BY <1>3 DEF MarksInv
<1>4. CASE UNCHANGED seen /\ pc \notin {"analysing", "learning"} /\ Remember
  BY <1>4 DEF MarksInv, Remember
<1>5. QED
  BY <1>1, <1>2, <1>3, <1>4, MarksStep

\* A step of the SAT solver keeps its invariant, and none runs off the trail.
LEMMA SatStepKeeps ==
  SatInv /\ MarksInv /\ [SatNext]_satVars => SatInv' /\ MarksInv' /\ (pc # "crashed" => pc' # "crashed")
<1> SUFFICES ASSUME SatInv, MarksInv, [SatNext]_satVars PROVE SatInv' /\ (pc # "crashed" => pc' # "crashed")
  BY MarksInvKeeps
<1>1. CASE AddBasicClause /\ Remember
  BY <1>1, AddBasicClauseKeeps DEF AddBasicClause
<1>2. CASE FinishAdding /\ Remember
  BY <1>2, FinishAddingKeeps DEF FinishAdding
<1>3. CASE NextDecision /\ Remember
  BY <1>3, NextDecisionKeeps DEF NextDecision
<1>4. CASE SkipWatcher /\ Remember
  BY <1>4, SkipWatcherKeeps DEF SkipWatcher
<1>5. CASE MoveWatcher /\ Remember
  BY <1>5, MoveWatcherKeeps DEF MoveWatcher
<1>6. CASE Imply /\ Remember
  BY <1>6, ImplyKeeps DEF Imply
<1>7. CASE Conflict /\ Remember
  <2>1. pc' # "crashed"
    BY <1>7 DEF Conflict
  <2>2. QED
    BY <1>7, <2>1, ConflictKeeps
<1>8. CASE InspectReason /\ Remember
  BY <1>8, InspectReasonKeeps
<1>9. CASE Learn /\ Remember
  <2>1. pc' # "crashed"
    BY <1>9, LearntIsAdded DEF AddLearnt
  <2>2. QED
    BY <1>9, <2>1, LearnFactKeeps, LearnClauseKeeps
<1>10. CASE Decide /\ Remember
  <2>1. pc' # "crashed"
    BY <1>10 DEF Decide
  <2>2. QED
    BY <1>10, <2>1, DecideKeeps
<1>11. CASE AnswerTrue /\ Remember
  BY <1>11, AnswerTrueKeeps DEF AnswerTrue
<1>12. CASE UNCHANGED satVars
  <2>1. pc' = pc
    BY <1>12 DEF satVars, solverState
  <2>2. QED
    BY <1>12, <2>1, StutterKeeps
<1>13. QED
  BY <1>1, <1>2, <1>3, <1>4, <1>5, <1>6, <1>7, <1>8, <1>9, <1>10, <1>11, <1>12 DEF SatNext, SatAction

\* On its own the SAT solver has no clauses of a theory.
LEMMA AloneKeeps == SatInv /\ MarksInv /\ Alone /\ [SatNext]_satVars => Alone'
<1> SUFFICES ASSUME SatInv, MarksInv, Alone, [SatNext]_satVars PROVE Alone'
  OBVIOUS
<1>1. pc' # "crashed"
  BY SatStepKeeps DEF Alone
<1>2. SatTypeOK /\ SatTypeOK' /\ WatchInv /\ ClauseInv
  BY SatStepKeeps DEF SatInv
<1>3. DOMAIN db = 1 .. Len(db) /\ Len(db) \in Nat /\ DOMAIN db' = 1 .. Len(db') /\ db \in Seq(ClauseRecords)
  BY <1>2, SeenTypes DEF SatTypeOK
<1>4. ASSUME UNCHANGED db, pc' # "probing", pc' = "deciding" => ~withTheory' PROVE Alone'
  BY <1>1, <1>4 DEF Alone
<1>5. ASSUME NEW lits, NEW list, list \notin TheoryLists, db' = Append(db, [lits |-> lits, list |-> list]),
             pc' # "probing", pc' # "deciding"
      PROVE  Alone'
  <2> DEFINE r == [lits |-> lits, list |-> list]
  <2>0. r.list = list
    OBVIOUS
  <2> HIDE DEF r
  <2>1. Len(db') = Len(db) + 1 /\ db'[Len(db) + 1] = r /\ \A c \in 1 .. Len(db) : db'[c] = db[c]
    <3>1. db' = Append(db, r)
      BY <1>5 DEF r
    <3>2. QED
      BY <1>3, <3>1
  <2>2. \A c \in 1 .. Len(db') : db'[c].list \notin TheoryLists
    BY <1>3, <1>5, <2>0, <2>1 DEF Alone
  <2>3. QED
    BY <1>1, <1>5, <2>2 DEF Alone
<1>6. CASE AddBasicClause
  <2>1. pc' = "adding" /\ "clauses" \notin TheoryLists
    BY <1>6 DEF AddBasicClause, TheoryLists
  <2>2. UNCHANGED db \/ \E lits : db' = Append(db, [lits |-> lits, list |-> "clauses"])
    BY <1>6 DEF AddBasicClause, Attach, AttachUnit, clauseVars
  <2>3. QED
    BY <1>4, <1>5, <2>1, <2>2
<1>7. CASE FinishAdding \/ SkipWatcher \/ MoveWatcher \/ Imply \/ Conflict \/ InspectReason \/ AnswerTrue
  BY <1>4, <1>7
     DEF FinishAdding, SkipWatcher, MoveWatcher, Imply, Conflict, InspectReason, AnswerTrue, NeedsWatch, Visiting,
         clauseVars, searchVars
<1>8. CASE NextDecision
  BY <1>4, <1>8 DEF NextDecision, clauseVars, formulaVars
<1>9. CASE Learn
  <2>0. AddLearnt
    BY <1>9, LearntIsAdded
  <2>1. pc' = "propagating" /\ "satClauses" \notin TheoryLists /\ "facts" \notin TheoryLists
    BY <2>0 DEF AddLearnt, TheoryLists
  <2>2. \E list \in {"satClauses", "facts"} : db' = Append(db, [lits |-> Learnt, list |-> list])
    BY <2>0 DEF AddLearnt, Attach, AttachUnit
  <2>3. QED
    BY <1>5, <2>1, <2>2
<1>10. CASE Decide
  <2>1. ReduceDB \/ UNCHANGED <<db, watchList>>
    BY <1>10 DEF Decide
  <2>2. /\ Len(db') = Len(db)
        /\ \A c \in 1 .. Len(db) : db'[c].list # "dropped" => db'[c].list = db[c].list
    BY <1>2, <2>1, Reduced
  <2>3. \A c \in 1 .. Len(db') : db'[c].list \notin TheoryLists
    BY <2>2 DEF Alone, TheoryLists
  <2>4. pc' = "propagating"
    BY <1>10 DEF Decide
  <2>5. QED
    BY <2>3, <2>4 DEF Alone
<1>11. CASE UNCHANGED satVars
  <2>1. UNCHANGED <<db, pc, withTheory>>
    BY <1>11 DEF satVars, solverState, clauseVars, formulaVars
  <2>2. QED
    BY <1>4, <2>1 DEF Alone
<1>12. QED
  BY <1>6, <1>7, <1>8, <1>9, <1>10, <1>11 DEF SatNext, SatAction

\* SatInv is an invariant of the solver without a theory, for every formula, every order of
\* decisions, every choice of reduceDB, whatever memory left in Var::seen, and whether or not a
\* theory solver waits for it to end.
THEOREM SatInvariant == SatSpec => [](SatInv /\ MarksInv /\ Alone)
<1>1. SatInit => SatInv /\ MarksInv /\ Alone
  <2>1. SatInit => MarksInv /\ Alone
    BY DEF SatInit, MarksInv, Alone
  <2>2. QED
    BY <2>1, InitIsInv
<1>2. SatInv /\ MarksInv /\ Alone /\ [SatNext]_satVars => (SatInv /\ MarksInv /\ Alone)'
  BY SatStepKeeps, AloneKeeps
<1>3. QED
  BY <1>1, <1>2, PTL DEF SatSpec

\* What is in use follows from the clauses that were given.
LEMMA InvLearntFollows == SatInv => LearntFollows
<1> SUFFICES ASSUME SatInv PROVE LearntFollows
  OBVIOUS
<1>1. Sound /\ DOMAIN db = 1 .. Len(db)
  BY SeenTypes DEF SatInv
<1>2. \A c \in Clauses("satClauses") \cup Clauses("facts") : c \in 1 .. Len(db) /\ InUse(c)
  BY <1>1 DEF Clauses, InUse
<1>3. QED
  BY <1>1, <1>2 DEF Sound, Sure, LearntFollows

\* Whatever resolveConflict learns follows from the clauses that were given: the analysis resolves
\* clauses that are implied, and its simplification and its jump back lose no literal it needs.
\* It says so for as long as no analysis began with a mark that memory may have left.
THEOREM LearntFollowsAlways == SatSpec => []LearntFollows
<1>1. SatInv /\ Alone => LearntFollows
  BY InvLearntFollows
<1>2. QED
  BY <1>1, SatInvariant, PTL

\* Every variable of the trail that has a reason is explained by it.
LEMMA InvExplains == SatInv => \A n \in DOMAIN decisions : Explained(n)
<1> SUFFICES ASSUME SatInv, NEW n \in DOMAIN decisions PROVE Explained(n)
  OBVIOUS
<1>1. TrailOf(decisions, levelStart, value, level) /\ ReasonsOf(decisions, levelStart, value, level, reason, db)
  BY DEF SatInv, TrailInv, ReasonInv
<1>2. n \in 1 .. Len(decisions)
  BY <1>1, TrailShape
<1>3. Because(decisions, value, level, reason, db, n)
  BY <1>1, <1>2, ReasonAt
<1>4. QED
  BY <1>3, Tests, Zenon DEF Because, Explained

\* The trail explains itself, and when the solver decides propagation is complete: two watched
\* literals suffice although backTrack restores neither watchers nor the flags of every clause.
\* Marks do not matter: what a spurious one makes the solver learn is watched and set like any clause.
THEOREM TrailRightAlways == SatSpec => []TrailRight
<1>1. SatInv /\ Alone => TrailRight
  <2> SUFFICES ASSUME SatInv, Alone PROVE TrailRight
    OBVIOUS
  <2>1. SatTypeOK /\ ClauseInv /\ TrailInv /\ ReasonInv /\ VisitInv /\ WatchersInv /\ UnitInv
    BY DEF SatInv
  <2>6. \A c \in 1 .. Len(db) : db[c].list \notin TheoryLists
    BY DEF Alone
  <2>2. DOMAIN decisions = 1 .. Len(decisions) /\ DOMAIN db = 1 .. Len(db)
    BY <2>1, TrailShape, SeenTypes DEF TrailInv
  <2>3. \A n \in DOMAIN decisions : Explained(n)
    BY InvExplains
  <2>4. ASSUME pc = "deciding", NEW c \in DOMAIN db PROVE Undecided(c)
    <3> DEFINE lits == db[c].lits
    <3>1. c \in 1 .. Len(db) /\ lits \in Seq(Lits) /\ lits # <<>>
      BY <2>1, <2>2, SeenTypes DEF ClauseInv
    <3>2. Len(lits) \in Nat /\ Len(lits) >= 1 /\ DOMAIN lits = 1 .. Len(lits) /\ 1 \in DOMAIN lits
      BY <3>1, NotEmpty
    <3>3. CASE Len(lits) = 1 /\ db[c].list # "dropped"
      <4>1. TrueIn(value, lits[1])
        BY <2>1, <3>1, <3>3 DEF UnitInv
      <4>2. lits[1] \in ToSet(lits)
        BY <3>2 DEF ToSet
      <4>3. QED
        BY <4>1, <4>2, Tests DEF Undecided
    <3>4. CASE Len(lits) # 1 /\ db[c].list # "dropped"
      <4>1. c \in Live
        BY <3>1, <3>2, <3>4, MoreThanOne DEF Live, Long
      <4> DEFINE w1 == watch[c][1]
                 w2 == watch[c][2]
                 free == {VarOf(l) : l \in {m \in ToSet(lits) : IsFree(m)}}
      <4>2. w1 \in ToSet(lits) /\ w2 \in ToSet(lits) /\ VarOf(w1) # VarOf(w2)
        <5>1. Long(c)
          BY <4>1 DEF Live
        <5>2. QED
          BY <2>1, <3>1, <5>1 DEF ClauseInv
      <4>3. FalseIn(value, w1) => TrueIn(value, w2)
        <5>1. FalseIn(value, watch[c][1]) => Backed(c, 1)
          BY <2>1, <2>4, <2>6, <3>1, <4>1, NothingPending DEF WatchersInv
        <5>2. 3 - 1 = 2
          OBVIOUS
        <5>3. QED
          BY <5>1, <5>2 DEF Backed
      <4>4. FalseIn(value, w2) => TrueIn(value, w1)
        <5>1. FalseIn(value, watch[c][2]) => Backed(c, 2)
          BY <2>1, <2>4, <2>6, <3>1, <4>1, NothingPending DEF WatchersInv
        <5>2. 3 - 2 = 1
          OBVIOUS
        <5>3. QED
          BY <5>1, <5>2 DEF Backed
      <4>5. CASE TrueIn(value, w1) \/ TrueIn(value, w2)
        BY <4>2, <4>5, Tests DEF Undecided
      <4>6. CASE ~TrueIn(value, w1) /\ ~TrueIn(value, w2)
        <5>1. IsFree(w1) /\ IsFree(w2)
          BY <4>3, <4>4, <4>6 DEF TrueIn, FalseIn, IsFree
        <5>2. VarOf(w1) \in free /\ VarOf(w2) \in free
          BY <4>2, <5>1
        <5>3. IsFiniteSet(free)
          <6>1. free \in SUBSET Vars
            <7>1. \A l \in ToSet(lits) : VarOf(l) \in Vars
              BY <3>1, ToSetIs, LitFacts
            <7>2. QED
              BY <7>1
          <6>2. 1 \in Int /\ MaxVar \in Int
            BY SatAssumption
          <6>3. IsFiniteSet(Vars)
            BY <6>2, FS_Interval DEF Vars
          <6>4. QED
            BY <6>1, <6>3, FS_Subset
        <5> HIDE DEF free
        <5>4. Cardinality({VarOf(w1), VarOf(w2)}) = 2
          <6> DEFINE u == VarOf(w1)
                     v == VarOf(w2)
                     one == {u}
          <6>1. u # v
            BY <4>2
          <6> HIDE DEF u, v
          <6>2. IsFiniteSet(one) /\ Cardinality(one) = 1
            BY FS_Singleton
          <6>3. v \notin one /\ {u, v} = one \cup {v}
            BY <6>1
          <6> HIDE DEF one
          <6>4. Cardinality(one \cup {v}) = Cardinality(one) + 1
            BY <6>2, <6>3, FS_AddElement
          <6>5. Cardinality({u, v}) = 2
            BY <6>2, <6>3, <6>4
          <6>6. QED
            BY <6>5 DEF u, v
        <5>5. Cardinality({VarOf(w1), VarOf(w2)}) <= Cardinality(free)
          BY <5>2, <5>3, FS_Subset
        <5>6. Cardinality(free) \in Nat
          BY <5>3, FS_CardinalityType
        <5>7. Cardinality(free) >= 2
          BY <5>4, <5>5, <5>6
        <5>8. QED
          BY <5>7 DEF Undecided, free
      <4>7. QED
        BY <4>5, <4>6
    <3>5. CASE db[c].list = "dropped"
      BY <3>5 DEF Undecided
    <3>6. QED
      BY <3>3, <3>4, <3>5
  <2>5. QED
    BY <2>3, <2>4 DEF TrailRight
<1>2. QED
  BY <1>1, SatInvariant, PTL

\* What solve() returns is right: TRUE whatever memory left in Var::seen, for every clause has a true
\* literal then; FALSE as long as no analysis began with a mark that memory may have left.
THEOREM AnswerRightAlways == SatSpec => []AnswerRight
<1>1. SatInv /\ Alone => AnswerRight
  BY DEF SatInv, AnswerInv, Sure, AnswerRight
<1>2. QED
  BY <1>1, SatInvariant, PTL

\* No analysis ends at a decision or runs off the trail, whatever memory left in Var::seen: a mark
\* of old makes resolveConflict count too few variables of the newest level, never too many.
THEOREM NeverCrashes == SatSpec => [](pc # "crashed")
<1>1. SatInv /\ Alone => pc # "crashed"
  BY DEF Alone
<1>2. QED
  BY <1>1, SatInvariant, PTL

\* In a solver whose memory held no mark none stands between two analyses, and none begins with one:
\* resolveConflict takes back every mark it sets, those of the variables it resolved away included.
THEOREM MarksAreTakenBack ==
  SatSpec /\ seen = {} => [](clean /\ (pc \notin {"analysing", "learning"} => seen = {}))
<1> DEFINE NoMarks == clean /\ (pc \notin {"analysing", "learning"} => seen = {})
<1>1. SatInit /\ seen = {} => NoMarks
  BY DEF SatInit
<1>2. SatInv /\ NoMarks /\ [SatNext]_satVars => NoMarks'
  <2> SUFFICES ASSUME SatInv, NoMarks, [SatNext]_satVars PROVE NoMarks'
    OBVIOUS
  <2>1. CASE UNCHANGED <<clean, pc, seen>>
    BY <2>1
  <2>2. CASE pc = "learning" /\ (clean => seen' = {}) /\ (clean' <=> clean)
    BY <2>2
  <2>3. CASE pc' \in {"analysing", "learning"} /\ pc = "analysing" /\ (clean => clean')
    BY <2>3
  <2>4. CASE UNCHANGED seen /\ pc \notin {"analysing", "learning"} /\ Remember
    BY <2>4 DEF Remember
  <2>5. QED
    BY <2>1, <2>2, <2>3, <2>4, MarksStep
<1>3. QED
  BY <1>1, <1>2, SatInvariant, PTL DEF SatSpec

=============================================================================
