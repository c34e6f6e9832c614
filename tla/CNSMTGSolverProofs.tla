------------------------- MODULE CNSMTGSolverProofs -------------------------
(***************************************************************************)
(* Theorems about CNSMTGSolver, for every formula, every set of points and *)
(* every theory on them: as long as no fact has been set anew, the SAT     *)
(* solver's invariant stands whatever the theory refuses, the point found  *)
(* meets the trail, and the interval propagator blames the right decisions. *)
(***************************************************************************)
EXTENDS CNSMTGSolver, CNSatProofs

SmtSpec == SmtInit /\ [][SmtNext]_smtVars

SmtTypeOK ==
  /\ theory \in [Vars -> SUBSET Points]
  /\ useIntervalProp \in BOOLEAN
  /\ globalRanges \in [lo : Nat, hi : Nat]
  /\ unitDecissions \in Nat
  /\ negativeTerm \in [Vars -> {"none", "plain", "negated"}]

\* The clauses that survive a new attempt of solve().
Lasting(c) == Len(db[c].lits) = 1 /\ db[c].list \in {"clauses", "iFacts"}

\* The unit decisions are the beginning of the trail: facts, each of a unit clause that lasts.
PrefixInv ==
  /\ pc # "adding" => unitDecissions <= levelStart[1]
  /\ pc = "adding" => unitDecissions = Len(decisions)
  /\ \A n \in 1 .. unitDecissions :
       /\ reason[decisions[n]] = 0
       /\ \E c \in 1 .. Len(db) : Lasting(c) /\ VarOf(db[c].lits[1]) = decisions[n]

\* The point found meets what the SAT solver has decided.
MetInv ==
  (pc = "deciding" \/ answer = "TRUE") /\ withTheory /\ (\A v \in Vars : negativeTerm[v] # "plain") =>
    \A n \in 1 .. Len(decisions) : r1 \in Solutions(TrueLit(decisions[n]))

\* There is an answer when solve() has returned; what crashes is the dereference of r1.
OutcomeInv ==
  /\ answer = "none" <=> pc \notin {"done", "crashed"}
  /\ pc = "crashed" => answer # "TRUE" /\ r1 = Null

SmtInv == SatInv /\ MarksInv /\ SmtTypeOK /\ PrefixInv /\ MetInv /\ OutcomeInv

-----------------------------------------------------------------------------
(* Places of the solver *)

\* Propagation has nothing left to visit when the theory or the decisions have their turn.
LEMMA NothingAhead ==
  ASSUME SatInv, pc \in {"deciding", "theory", "probing"}, NEW w
  PROVE  ~Pending(w)
<1> SUFFICES ASSUME Pending(w) PROVE FALSE
  OBVIOUS
<1>0. SatTypeOK /\ TrailInv /\ VisitInv
  BY DEF SatInv
<1>1. PICK n \in 1 .. Len(decisions) : Ahead(w, n)
  BY DEF Pending
<1>2. visit.i = Len(decisions) /\ visit.j > Len(visit.list)
  BY <1>0 DEF VisitInv
<1>3. visit \in [i : Nat, j : Nat \ {0}, list : Seq(Watchers)] /\ Len(decisions) \in Nat
  BY <1>0, TrailShape DEF SatTypeOK, TrailInv
<1>4. ~(n > visit.i)
  BY <1>2, <1>3
<1>5. PICK j \in 1 .. Len(visit.list) : j >= visit.j
  BY <1>1, <1>4 DEF Ahead
<1>6. QED
  BY <1>2, <1>3, <1>5

\* A step that only moves on keeps the invariant.
LEMMA PlaceMoves ==
  ASSUME SatInv, Remember, UNCHANGED <<formulaVars, clauseVars, trailVars, searchVars>>,
         pc # "adding", pc' \in {"deciding", "probing", "done", "crashed"},
         pc' \in {"deciding", "probing"} => pc \in {"theory", "probing"},
         answer' \in {"none", "TRUE", "FALSE", "TIMEOUT"},
         pc' = "done" => answer' # "FALSE",
         pc' = "done" /\ answer' = "TRUE" => \A c \in Accepted : \E l \in ToSet(db[c].lits) : IsTrue(l)
  PROVE  SatInv'
<1>0. UNCHANGED <<problem, withTheory, toAdd, db, watch, satisfied, watchList, value, level, reason, locked,
                  decisions, levelStart, visit, seen, analysis, decisionCount>>
      /\ UNCHANGED <<trailVars, db, watch>>
  BY DEF formulaVars, clauseVars, trailVars, searchVars
<1>1. ClauseInv' /\ TrailInv' /\ ReasonInv' /\ UnitInv' /\ LockedInv' /\ Sound' /\ FactsInv' /\ Live' = Live
  BY <1>0, SameTrailAndClauses
<1>2. TrailInv /\ SatTypeOK /\ VisitInv /\ WatchInv /\ ListInv /\ FlagInv /\ WatchersInv /\ ClauseInv /\ AtRest
  BY DEF SatInv
<1>3. ListInv'
  <2>1. visit.list \in Seq(Watchers)
    BY <1>2 DEF SatTypeOK
  <2>2. QED
    BY <1>0, <1>2, <2>1, SameLists
<1>4. WatchInv' /\ FlagInv' /\ VisitInv'
  BY <1>0, <1>1, <1>2 DEF WatchInv, FlagInv, VisitInv
<1>5. WatchersInv'
  <2> SUFFICES ASSUME NEW c \in Live, NEW k \in {1, 2}, db[c].list \notin TheoryLists, FalseIn(value, watch[c][k])
               PROVE  Backed(c, k)' \/ Pending(<<c, k>>)'
    BY <1>0, <1>1 DEF WatchersInv
  <2>1. Backed(c, k) \/ Pending(<<c, k>>)
    BY <1>0, <1>2 DEF WatchersInv
  <2>2. QED
    BY <2>1, <1>0 DEF Backed, Pending, Ahead
<1>6. AddingInv' /\ AnalysisInv'
  BY DEF AddingInv, AnalysisInv
<1>7. AtRest'
  BY <1>0, <1>2 DEF AtRest
<1>8. SatTypeOK'
  BY <1>0, <1>2 DEF SatTypeOK
<1>9. AnswerInv'
  <2>1. Accepted' = Accepted /\ \A l : IsTrue(l)' = IsTrue(l)
    BY <1>0 DEF Accepted, Clauses, IsTrue
  <2>2. QED
    BY <1>0, <2>1 DEF AnswerInv
<1>10. QED
  BY <1>1, <1>3, <1>4, <1>5, <1>6, <1>7, <1>8, <1>9 DEF SatInv

\* What the theory adds when the variable was not set is a fact that stands; were it set, no fact would.
LEMMA FactIsNew ==
  ASSUME SatInv, pc # "adding", NEW A \in Lits, NEW P \in Nat, P <= Len(BackTracked(1).decisions),
         InsertFact(BackTracked(1), A, P + 1), FactsStand'
  PROVE  BackTracked(1).value[VarOf(A)] = "UNASSIGNED"
<1> DEFINE b == BackTracked(1)
           D == b.decisions
           v == VarOf(A)
<1>1. TrailOf(D, b.levelStart, b.value, level)
  <2> HIDE DEF b
  <2>1. QED
    BY LevelOneFacts, Zenon DEF b
<1>2. decisions' = InsertAt(D, P + 1, v)
  BY DEF InsertFact
<1>3. v \in Vars
  BY LitFacts
<1> HIDE DEF b, v
<1>4. D \in Seq(Vars) /\ Len(D) \in Nat /\ \A n \in 1 .. Len(D) : D[n] \in Vars
  BY <1>1, TrailShape
<1> SUFFICES ASSUME b.value[v] # "UNASSIGNED" PROVE FALSE
  BY DEF b, v
<1>5. PICK m \in 1 .. Len(D) : D[m] = v
  BY <1>1, <1>3, TrailHas
<1> HIDE DEF D
<1>p. P <= Len(D)
  BY DEF D, b
<1>6. /\ decisions' \in Seq(Vars) /\ Len(decisions') = Len(D) + 1
      /\ \A n \in 1 .. P : decisions'[n] = D[n]
      /\ decisions'[P + 1] = v
      /\ \A n \in (P + 1) .. Len(D) : decisions'[n + 1] = D[n]
  <2>1. D \in Seq(Vars) /\ v \in Vars /\ P \in Nat /\ P <= Len(D)
    BY <1>3, <1>4, <1>p
  <2> DEFINE E == InsertAt(D, P + 1, v)
  <2>2. decisions' = E /\ E = InsertAt(D, P + 1, v)
    BY <1>2
  <2> HIDE DEF E
  <2>3. /\ E \in Seq(Vars) /\ Len(E) = Len(D) + 1
        /\ \A n \in 1 .. P : E[n] = D[n]
        /\ E[P + 1] = v
        /\ \A n \in (P + 1) .. Len(D) : E[n + 1] = D[n]
    BY <2>1, <2>2, Inserted, ZenonT(60)
  <2>4. QED
    BY <2>2, <2>3, Zenon
<1>7. DOMAIN decisions' = 1 .. Len(D) + 1
  BY <1>4, <1>6
<1>8. PICK n \in 1 .. Len(D) + 1 : n # P + 1 /\ decisions'[n] = v
  <2>1. CASE m <= P
    BY <1>4, <1>5, <1>6, <2>1
  <2>2. CASE m > P
    <3>1. m \in (P + 1) .. Len(D) /\ m + 1 \in 1 .. Len(D) + 1 /\ m + 1 # P + 1
      BY <1>4, <2>2
    <3>2. decisions'[m + 1] = v
      BY <1>5, <1>6, <3>1
    <3>3. QED
      BY <3>1, <3>2
  <2>3. QED
    BY <1>4, <2>1, <2>2
<1>9. P + 1 \in 1 .. Len(D) + 1
  BY <1>4, <1>p
<1>10. \A i, j \in DOMAIN decisions' : decisions'[i] = decisions'[j] => i = j
  BY DEF FactsStand
<1>11. QED
  BY <1>6, <1>7, <1>8, <1>9, <1>10

\* The theory adds a clause of several literals, and propagation starts again at the newest level.
LEMMA ClauseAdded ==
  ASSUME SatInv, Remember, pc \in {"theory", "probing"}, NEW lits \in Seq(Lits), Distinct(lits), Len(lits) > 1,
         NEW list \in TheoryLists, NEW i \in 1 .. Len(lits), NEW j \in 1 .. Len(lits), i # j,
         Attach(lits, list, i, j), UNCHANGED <<trailVars, satisfied, formulaVars, seen, analysis, decisionCount, answer>>,
         visit' = FirstVisit(levelStart'), pc' = "propagating"
  PROVE  SatInv'
<1> DEFINE r == [lits |-> lits, list |-> list]
           w == <<lits[i], lits[j]>>
           d == Len(db) + 1
<1>0. UNCHANGED <<value, level, reason, locked, decisions, levelStart, satisfied, problem, withTheory, toAdd,
                  seen, analysis, decisionCount, answer>>
  BY DEF trailVars, formulaVars
<1>1. TrailInv /\ SatTypeOK /\ VisitInv /\ WatchInv /\ ListInv /\ FlagInv /\ WatchersInv /\ ClauseInv /\ AtRest
      /\ ReasonInv /\ UnitInv /\ LockedInv /\ Sound /\ FactsInv
  BY DEF SatInv
<1>2. /\ db' = Append(db, r) /\ watch' = Append(watch, w)
      /\ r \in ClauseRecords /\ w \in Seq(Lits)
      /\ watchList' \in [Vars -> Seq(Watchers)]
      /\ Live' = Live \cup {d}
      /\ ClauseInv'
      /\ \A v \in Vars : ToSet(watchList'[v]) \subseteq Live' \X {1, 2}
      /\ \A c \in Live' : \A k \in {1, 2} : <<c, k>> \in ToSet(watchList'[VarOf(watch'[c][k])])
      /\ \A v \in Vars : \A u \in ToSet(watchList'[v]) : VarOf(watch'[u[1]][u[2]]) = v
  <2>1. \A v \in Vars : \A u \in ToSet(watchList[v]) : VarOf(watch[u[1]][u[2]]) = v
    BY <1>1 DEF ListInv
  <2>2. list \in {"clauses", "satClauses"} \cup TheoryLists
    OBVIOUS
  <2>3. QED
    BY <1>1, <2>1, <2>2, Attached, SMTT(30)
<1>s. r.lits = lits /\ r.list = list
  OBVIOUS
<1> HIDE DEF r, w
<1>3. /\ db' \in Seq(ClauseRecords) /\ watch' \in Seq(Seq(Lits)) /\ Len(watch') = Len(db')
      /\ Len(db') = d /\ Len(db) \in Nat
      /\ \A c \in 1 .. Len(db) : db'[c] = db[c] /\ watch'[c] = watch[c] /\ (c \in Live' <=> c \in Live)
      /\ db'[d] = r
      /\ \A c \in 1 .. Len(db') : c \in 1 .. Len(db) \/ c = d
      /\ Models' \subseteq Models
  BY <1>1, <1>2, MoreClauses
<1>u. Sure' \subseteq Sure /\ Sure' \subseteq Models'
  <2>1. Sure' \subseteq Sure
    BY <1>3, Unsure
  <2>2. QED
    BY <2>1 DEF Sure
<1>4. \A a \in Models' : Satisfies(a, lits)
  <2>1. r.list \notin {"satClauses", "facts", "dropped"} => \A a \in Models' : Satisfies(a, r.lits)
    BY <1>1, <1>2, MoreClauses
  <2>2. list \notin {"satClauses", "facts", "dropped"}
    BY DEF TheoryLists
  <2>3. QED
    BY <1>s, <2>1, <2>2
<1>t. TrailOf(decisions, levelStart, value, level)
  BY <1>1 DEF TrailInv
<1>5. TrailInv'
  BY <1>0, <1>t DEF TrailInv
<1>6. /\ visit' \in [i : Nat, j : Nat \ {0}, list : Seq(Watchers)] /\ visit'.list = <<>> /\ visit'.j = 1
      /\ visit'.i = IF Len(levelStart) > 1 THEN Last(levelStart) ELSE 0
  <2>1. <<>> \in Seq(Watchers)
    OBVIOUS
  <2>2. Len(levelStart) \in 1 .. Len(levelStart)
    BY <1>t, TrailShape
  <2>3. Last(levelStart) \in Nat
    BY <1>t, <2>2, TrailShape DEF Last
  <2>4. QED
    BY <1>0, <2>1, <2>3 DEF FirstVisit
<1>7. SatTypeOK'
  <2>1. satisfied' \subseteq 1 .. Len(db')
    BY <1>0, <1>1, <1>3 DEF SatTypeOK
  <2>2. QED
    BY <1>0, <1>1, <1>2, <1>3, <1>6, <2>1 DEF SatTypeOK
<1>8. WatchInv'
  <2>1. ToSet(visit'.list) = {}
    BY <1>6 DEF ToSet
  <2>2. QED
    BY <1>2, <2>1 DEF WatchInv
<1>9. ListInv'
  BY <1>2, <1>6, NoList
<1>10. FlagInv'
  <2>1. \A c \in Live' \cap satisfied' : c \in Live \cap satisfied /\ watch'[c] = watch[c]
    BY <1>0, <1>1, <1>2, <1>3 DEF SatTypeOK, Live
  <2>2. QED
    BY <1>0, <1>1, <2>1 DEF FlagInv, TrueIn
<1>11. ReasonInv'
  <2>1. \A c \in DOMAIN db : c \in DOMAIN db' /\ db'[c].lits = db[c].lits
    BY <1>1, <1>3, SeenTypes
  <2>2. ReasonsOf(decisions, levelStart, value, level, reason, db)
    BY <1>1 DEF ReasonInv
  <2>3. QED
    BY <1>0, <2>1, <2>2, ReasonsMoreClauses DEF ReasonInv
<1>12. VisitInv'
  <2>1. Len(decisions) \in Nat /\ Len(levelStart) \in Nat /\ \A k \in 1 .. Len(levelStart) : levelStart[k] \in Nat
    BY <1>t, TrailShape
  <2>2. Len(levelStart) > 1 => Last(levelStart) < Len(decisions) /\ Last(levelStart) \in Nat
    BY <1>1, <2>1 DEF VisitInv, Last
  <2>3. QED
    BY <1>0, <1>6, <2>1, <2>2 DEF VisitInv
<1>13. WatchersInv'
  <2> SUFFICES ASSUME NEW c \in Live', NEW k \in {1, 2}, db'[c].list \notin TheoryLists, FalseIn(value', watch'[c][k])
               PROVE  Backed(c, k)'
    BY DEF WatchersInv
  <2>1. c \in Live /\ c \in 1 .. Len(db) /\ db'[c] = db[c] /\ watch'[c] = watch[c]
    BY <1>2, <1>3, <1>s DEF Live
  <2>2. Backed(c, k)
    <3>1. ~Pending(<<c, k>>)
      BY NothingAhead
    <3>2. QED
      BY <1>0, <1>1, <2>1, <3>1 DEF WatchersInv
  <2>3. QED
    BY <1>0, <2>1, <2>2 DEF Backed
<1>14. UnitInv'
  <2> SUFFICES ASSUME NEW c \in 1 .. Len(db'), Len(db'[c].lits) = 1, db'[c].list # "dropped"
               PROVE  TrueIn(value', db'[c].lits[1]) /\ level'[VarOf(db'[c].lits[1])] = 1
    BY DEF UnitInv
  <2>1. c # d
    <3>1. ~(1 > 1)
      OBVIOUS
    <3>2. Len(lits) # 1
      BY <3>1, Zenon
    <3>3. QED
      BY <1>3, <1>s, <3>2, Zenon
  <2>2. c \in 1 .. Len(db) /\ db'[c] = db[c]
    BY <1>3, <2>1, Zenon
  <2>3. TrueIn(value, db[c].lits[1]) /\ level[VarOf(db[c].lits[1])] = 1
    BY <1>1, <2>2 DEF UnitInv
  <2>4. QED
    BY <1>0, <2>2, <2>3 DEF TrueIn
<1>15. Sound'
  <2> SUFFICES ASSUME NEW c \in 1 .. Len(db')
               PROVE  \/ InUse(c)' => c \in 1 .. Len(db) /\ InUse(c) /\ db'[c].lits = db[c].lits
                      \/ \A a \in Sure' : Satisfies(a, db'[c].lits)
    BY <1>1, <1>u, StillSound
  <2>1. CASE c = d
    BY <1>3, <1>4, <1>s, <1>u, <2>1
  <2>2. CASE c \in 1 .. Len(db)
    <3>1. db'[c] = db[c]
      BY <1>3, <2>2
    <3>2. InUse(c)' => InUse(c)
      BY <1>0, <3>1 DEF InUse
    <3>3. QED
      BY <2>2, <3>1, <3>2
  <2>3. QED
    BY <1>3, <2>1, <2>2
<1>16. FactsInv'
  <2>1. FactsOf(Sure, value, level)
    BY <1>1 DEF FactsInv
  <2>2. FactsOf(Sure', value, level)
    BY <1>u, <2>1 DEF FactsOf
  <2>3. QED
    BY <1>0, <2>2 DEF FactsInv
<1>17. AtRest'
  BY <1>0, <1>1 DEF AtRest
<1>18. AddingInv' /\ AnalysisInv' /\ AnswerInv'
  BY DEF AddingInv, AnalysisInv, AnswerInv
<1>20. LockedInv'
  BY <1>0, <1>1 DEF LockedInv
<1>19. QED
  BY <1>20, <1>2, <1>5, <1>7, <1>8, <1>9, <1>10, <1>11, <1>12, <1>13, <1>14, <1>15, <1>16, <1>17, <1>18 DEF SatInv

-----------------------------------------------------------------------------
(* Points and ranges *)

\* The points are bounded.
LEMMA PointsBounded == \E b \in Nat : \A x \in Points : x <= b
<1>1. PICK n \in Nat : ExistsBijection(1 .. n, Points)
  BY TheoryAssumption, FS_NatBijection
<1>2. PICK f : f \in Bijection(1 .. n, Points)
  BY <1>1 DEF ExistsBijection
<1>3. /\ \A i \in 1 .. n : f[i] \in Nat
      /\ \A x \in Points : \E i \in 1 .. n : f[i] = x
  BY <1>2, TheoryAssumption DEF Bijection, Injection, Surjection
<1> DEFINE All == {k \in Nat : k <= n => \E b \in Nat : \A i \in 1 .. k : f[i] <= b}
<1>4. 0 \in All
  OBVIOUS
<1>5. ASSUME NEW k \in Nat, k \in All PROVE k + 1 \in All
  <2> SUFFICES ASSUME k + 1 <= n PROVE \E b \in Nat : \A i \in 1 .. k + 1 : f[i] <= b
    OBVIOUS
  <2>1. PICK b \in Nat : \A i \in 1 .. k : f[i] <= b
    BY <1>5
  <2>2. f[k + 1] \in Nat /\ \A i \in 1 .. k : f[i] \in Nat
    BY <1>3
  <2>3. b + f[k + 1] \in Nat /\ \A i \in 1 .. k + 1 : f[i] <= b + f[k + 1]
    <3>1. ASSUME NEW i \in 1 .. k + 1 PROVE f[i] <= b + f[k + 1]
      <4>1. CASE i = k + 1
        BY <2>2, <4>1
      <4>2. CASE i # k + 1
        <5>1. i \in 1 .. k
          BY <4>2
        <5>2. f[i] <= b /\ f[i] \in Nat
          BY <2>1, <2>2, <5>1
        <5>3. QED
          BY <2>2, <5>2
      <4>3. QED
        BY <4>1, <4>2
    <3>2. QED
      BY <2>2, <3>1
  <2>4. QED
    BY <2>3
<1>6. Nat \subseteq All
  <2> HIDE DEF All
  <2> QED BY <1>4, <1>5, Numbers!SetInduction
<1>7. PICK b \in Nat : \A i \in 1 .. n : f[i] <= b
  <2>1. n \in All /\ n <= n
    <3> HIDE DEF All
    <3> QED BY <1>6
  <2>2. QED
    BY <2>1
<1>8. QED
  BY <1>3, <1>7

\* A set of numbers that is not empty has a lowest one.
LEMMA LowestIs ==
  ASSUME NEW S, S \subseteq Nat, S # {}
  PROVE  Lowest(S) \in S /\ \A y \in S : Lowest(S) <= y
<1>1. \E x \in S : \A y \in S : x <= y
  BY Numbers!LeastNat
<1>2. QED
  BY <1>1 DEF Lowest

\* A bounded set of numbers that is not empty has a highest one.
LEMMA HighestIs ==
  ASSUME NEW n \in Nat, NEW S, S \subseteq Nat, S # {}, \A y \in S : y <= n
  PROVE  Highest(S) \in S /\ \A y \in S : y <= Highest(S)
<1> DEFINE T == {n - x : x \in S}
<1>0. \A x \in S : n - x \in Nat
  <2> SUFFICES ASSUME NEW x \in S PROVE n - x \in Nat
    OBVIOUS
  <2>1. x \in Nat /\ x <= n
    OBVIOUS
  <2>2. QED
    BY <2>1
<1>1. T \subseteq Nat /\ T # {}
  BY <1>0
<1>2. PICK t \in T : \A y \in T : t <= y
  <2> HIDE DEF T
  <2> QED BY <1>1, Numbers!LeastNat
<1>3. PICK x \in S : t = n - x
  BY <1>2
<1>4. ASSUME NEW y \in S PROVE y <= x
  <2>1. t <= n - y
    BY <1>2
  <2>2. x \in Nat /\ y \in Nat
    OBVIOUS
  <2>3. QED
    BY <1>3, <2>1, <2>2
<1>5. \E z \in S : \A y \in S : y <= z
  BY <1>4
<1>6. QED
  BY <1>5 DEF Highest

Ranges == [lo : Nat, hi : Nat]
Inside(r, x) == r.lo <= x /\ x <= r.hi

\* A range that is narrowed to a set of points loses none of them.
LEMMA NarrowIs ==
  ASSUME NEW r \in Ranges, NEW S, S \subseteq Points, S # {}
  PROVE  Narrow(r, S) \in Ranges /\ \A x \in S : Inside(r, x) => Inside(Narrow(r, S), x)
<1>1. S \subseteq Nat /\ r.lo \in Nat /\ r.hi \in Nat
  BY TheoryAssumption DEF Ranges
<1> DEFINE a == Lowest(S)
           b == Highest(S)
<1>2. a \in S /\ \A y \in S : a <= y
  BY <1>1, LowestIs
<1>3. b \in S /\ \A y \in S : y <= b
  <2>1. PICK n \in Nat : \A x \in Points : x <= n
    BY PointsBounded
  <2>2. QED
    BY <1>1, <2>1, HighestIs
<1> HIDE DEF a, b
<1>4. a \in Nat /\ b \in Nat
  BY <1>1, <1>2, <1>3
<1>5. \A p, q \in Nat : /\ Max({p, q}) = IF p >= q THEN p ELSE q
                        /\ Min({p, q}) = IF p <= q THEN p ELSE q
  <2> SUFFICES ASSUME NEW p \in Nat, NEW q \in Nat
               PROVE  Max({p, q}) = (IF p >= q THEN p ELSE q) /\ Min({p, q}) = IF p <= q THEN p ELSE q
    OBVIOUS
  <2> DEFINE T == {p, q}
  <2>1. (\E x \in T : \A y \in T : x >= y) /\ \E x \in T : \A y \in T : x <= y
    OBVIOUS
  <2>2. Max(T) \in T /\ (\A y \in T : Max(T) >= y) /\ Min(T) \in T /\ \A y \in T : Min(T) <= y
    <3> HIDE DEF T
    <3> QED BY <2>1 DEF Max, Min
  <2> DEFINE h == Max(T)
             l == Min(T)
  <2>3. (h = p \/ h = q) /\ h >= p /\ h >= q /\ (l = p \/ l = q) /\ l <= p /\ l <= q
    BY <2>2
  <2> HIDE DEF h, l
  <2>4. h = (IF p >= q THEN p ELSE q) /\ l = IF p <= q THEN p ELSE q
    BY <2>3
  <2>5. QED
    BY <2>4 DEF h, l
<1>6. /\ Narrow(r, S) = [lo |-> Max({r.lo, a}), hi |-> Min({r.hi, b})]
  BY DEF Narrow, a, b
<1>7. /\ Narrow(r, S).lo = IF r.lo >= a THEN r.lo ELSE a
      /\ Narrow(r, S).hi = IF r.hi <= b THEN r.hi ELSE b
      /\ Narrow(r, S) \in Ranges
  <2>1. Max({r.lo, a}) = (IF r.lo >= a THEN r.lo ELSE a) /\ Min({r.hi, b}) = IF r.hi <= b THEN r.hi ELSE b
    BY <1>1, <1>4, <1>5
  <2>2. Max({r.lo, a}) \in Nat /\ Min({r.hi, b}) \in Nat
    BY <1>1, <1>4, <2>1
  <2>3. QED
    BY <1>6, <2>1, <2>2 DEF Ranges
<1>8. QED
  BY <1>1, <1>2, <1>3, <1>4, <1>7 DEF Inside

\* The recursive function of the ranges has a value at every place of the trail.
LEMMA RangeRun ==
  ASSUME decisions \in Seq(Vars)
  PROVE  \A n \in 1 .. Len(decisions) + 1 :
           RangeAfter[n] = IF n > Len(decisions) THEN globalRanges
                           ELSE LET S == Solutions(TrueLit(decisions[n]))
                                IN IF S = {} THEN RangeAfter[n + 1] ELSE Narrow(RangeAfter[n + 1], S)
<1> DEFINE N == Len(decisions)
           S(n) == Solutions(TrueLit(decisions[n]))
           Value(f, n) == IF n > N THEN globalRanges
                          ELSE IF S(n) = {} THEN f[n + 1] ELSE Narrow(f[n + 1], S(n))
           Shape(m, f) == f = [n \in m .. N + 1 |-> f[n]] /\ \A n \in m .. N + 1 : f[n] = Value(f, n)
           All == {k \in Nat : k <= N => \E f : Shape((N + 1) - k, f)}
<1>n. N \in Nat
  OBVIOUS
<1> HIDE DEF N, S
<1>1. 0 \in All
  <2> DEFINE f == [n \in N + 1 .. N + 1 |-> globalRanges]
  <2>1. f = [n \in N + 1 .. N + 1 |-> f[n]]
    OBVIOUS
  <2>2. ASSUME NEW n \in N + 1 .. N + 1 PROVE f[n] = Value(f, n)
    <3>1. n > N
      BY <1>n
    <3>2. QED
      BY <3>1
  <2>3. (N + 1) - 0 = N + 1
    BY <1>n
  <2>4. Shape((N + 1) - 0, f)
    <3> HIDE DEF f, Value
    <3> QED BY <2>1, <2>2, <2>3
  <2>5. QED
    <3> HIDE DEF Shape
    <3> QED BY <2>4
<1>2. ASSUME NEW k \in Nat, k \in All PROVE k + 1 \in All
  <2> SUFFICES ASSUME k + 1 <= N PROVE \E f : Shape((N + 1) - (k + 1), f)
    <3> HIDE DEF Shape
    <3> QED OBVIOUS
  <2> DEFINE m == (N + 1) - k
  <2>m. m \in Nat /\ m >= 2 /\ m <= N + 1 /\ (N + 1) - (k + 1) = m - 1 /\ k <= N
    BY <1>n
  <2>1. PICK f : Shape(m, f)
    <3> HIDE DEF Shape
    <3> QED BY <1>2, <2>m
  <2> HIDE DEF m
  <2> DEFINE g == [n \in m - 1 .. N + 1 |-> IF n >= m THEN f[n] ELSE Value(f, n)]
  <2>2. ASSUME NEW n \in m - 1 .. N + 1 PROVE g[n] = Value(g, n)
    <3>1. n <= N => n + 1 \in m - 1 .. N + 1 /\ n + 1 >= m
      BY <1>n, <2>m
    <3>2. n <= N => g[n + 1] = f[n + 1]
      BY <3>1
    <3>3. n >= m => f[n] = Value(f, n)
      <4>1. \A i \in m .. N + 1 : f[i] = Value(f, i)
        BY <2>1
      <4>2. n >= m => n \in m .. N + 1
        BY <2>m
      <4>3. QED
        BY <4>1, <4>2
    <3>4. n > N \/ n <= N
      BY <1>n, <2>m
    <3>5. g[n] = IF n >= m THEN f[n] ELSE Value(f, n)
      OBVIOUS
    <3> HIDE DEF g
    <3>6. QED
      BY <3>2, <3>3, <3>4, <3>5
  <2>3. g = [n \in m - 1 .. N + 1 |-> g[n]]
    OBVIOUS
  <2>4. Shape(m - 1, g)
    <3> HIDE DEF g, Value
    <3> QED BY <2>2, <2>3
  <2>5. QED
    <3> HIDE DEF Shape
    <3> QED BY <2>4, <2>m
<1>3. Nat \subseteq All
  <2> HIDE DEF All
  <2> QED BY <1>1, <1>2, Numbers!SetInduction
<1>4. PICK e : Shape(1, e)
  <2>1. N \in All /\ N <= N /\ (N + 1) - N = 1
    <3> HIDE DEF All
    <3> QED BY <1>n, <1>3
  <2>2. QED
    <3> HIDE DEF Shape
    <3> QED BY <2>1
<1>5. e = [n \in 1 .. N + 1 |-> Value(e, n)]
  <2> HIDE DEF Value
  <2> QED BY <1>4
<1> DEFINE F == CHOOSE f : f = [n \in 1 .. N + 1 |-> Value(f, n)]
<1>6. F = [n \in 1 .. N + 1 |-> Value(F, n)]
  <2> HIDE DEF Value
  <2> QED BY <1>5
<1>7. RangeAfter = F
  BY DEF RangeAfter, N, S
<1> HIDE DEF F
<1>8. \A n \in 1 .. N + 1 : F[n] = Value(F, n)
  <2> HIDE DEF Value
  <2> QED BY <1>6
<1>9. QED
  BY <1>7, <1>8 DEF N, S

\* What holds after the newest decision and is handed down from each to the one before holds at every place.
LEMMA Downward ==
  ASSUME NEW N \in Nat, NEW S, N + 1 \in S, \A n \in 1 .. N : n + 1 \in S => n \in S
  PROVE  1 .. N + 1 \subseteq S
<1> DEFINE All == {k \in Nat : k <= N => (N + 1) - k \in S}
<1>1. 0 \in All
  OBVIOUS
<1>2. ASSUME NEW k \in Nat, k \in All PROVE k + 1 \in All
  <2> SUFFICES ASSUME k + 1 <= N PROVE (N + 1) - (k + 1) \in S
    OBVIOUS
  <2> DEFINE n == (N + 1) - (k + 1)
  <2>1. n \in 1 .. N /\ n + 1 = (N + 1) - k /\ k <= N
    OBVIOUS
  <2>2. (N + 1) - k \in S
    BY <1>2, <2>1
  <2> HIDE DEF n
  <2>3. n \in S
    BY <2>1, <2>2
  <2>4. QED
    BY <2>3 DEF n
<1>3. Nat \subseteq All
  <2> HIDE DEF All
  <2> QED BY <1>1, <1>2, Numbers!SetInduction
<1>4. ASSUME NEW n \in 1 .. N + 1 PROVE n \in S
  <2> DEFINE k == (N + 1) - n
  <2>1. k \in Nat /\ k <= N /\ (N + 1) - k = n
    OBVIOUS
  <2> HIDE DEF k
  <2>2. k \in All
    <3> HIDE DEF All
    <3> QED BY <1>3, <2>1
  <2>3. QED
    BY <2>1, <2>2
<1>5. QED
  BY <1>4

\* The literal of a variable of the trail.
LEMMA TrailLit ==
  ASSUME NEW v \in Vars
  PROVE  TrueLit(v) \in Lits /\ -TrueLit(v) \in Lits /\ VarOf(TrueLit(v)) = v /\ VarOf(-TrueLit(v)) = v
<1>1. v \in Lits /\ -v \in Lits /\ VarOf(v) = v /\ VarOf(-v) = v /\ -(-v) = v
  BY SatAssumption DEF Vars, Lits, VarOf
<1>2. CASE value[v] = "TRUE"
  BY <1>1, <1>2 DEF TrueLit
<1>3. CASE value[v] # "TRUE"
  BY <1>1, <1>3 DEF TrueLit
<1>4. QED
  BY <1>2, <1>3

\* A point that does not meet a decision meets its opposite.
LEMMA Complement ==
  ASSUME theory \in [Vars -> SUBSET Points], NEW v \in Vars
  PROVE  /\ Solutions(v) = theory[v] /\ Solutions(-v) = Points \ theory[v]
         /\ Solutions(TrueLit(v)) \subseteq Points
         /\ \A x \in Points : x \in Solutions(TrueLit(v)) \/ x \in Solutions(-TrueLit(v))
<1>1. v > 0 /\ ~(-v > 0) /\ -(-v) = v
  BY SatAssumption DEF Vars
<1>2. Solutions(v) = theory[v] /\ Solutions(-v) = Points \ theory[v]
  BY <1>1 DEF Solutions
<1>3. theory[v] \subseteq Points
  OBVIOUS
<1>4. TrueLit(v) = v \/ (TrueLit(v) = -v /\ -TrueLit(v) = v)
  BY <1>1 DEF TrueLit
<1>5. QED
  BY <1>2, <1>3, <1>4

\* The ranges are ranges, and no point that meets the decisions from F on is lost.
LEMMA RangesHold ==
  ASSUME decisions \in Seq(Vars), SmtTypeOK
  PROVE  /\ \A n \in 1 .. Len(decisions) + 1 : RangeAfter[n] \in Ranges
         /\ \A F \in 1 .. Len(decisions) + 1 : \A x \in Points :
              Inside(globalRanges, x) /\ (\A n \in F .. Len(decisions) : x \in Solutions(TrueLit(decisions[n])))
                => Inside(RangeAfter[F], x)
<1> DEFINE N == Len(decisions)
           S(n) == Solutions(TrueLit(decisions[n]))
           R(n) == RangeAfter[n]
<1>1. N \in Nat /\ \A n \in 1 .. N : decisions[n] \in Vars
  OBVIOUS
<1>2. theory \in [Vars -> SUBSET Points] /\ globalRanges \in Ranges
  BY DEF SmtTypeOK, Ranges
<1>3. \A n \in 1 .. N : S(n) \subseteq Points
  BY <1>1, <1>2, Complement
<1>4. \A n \in 1 .. N + 1 : R(n) = IF n > N THEN globalRanges
                                   ELSE IF S(n) = {} THEN R(n + 1) ELSE Narrow(R(n + 1), S(n))
  BY RangeRun
<1> HIDE DEF N, S, R
<1>5. R(N + 1) = globalRanges
  <2>1. N + 1 \in 1 .. N + 1 /\ N + 1 > N
    BY <1>1
  <2>2. QED
    BY <1>4, <2>1
<1>6. \A n \in 1 .. N : R(n) = IF S(n) = {} THEN R(n + 1) ELSE Narrow(R(n + 1), S(n))
  <2> SUFFICES ASSUME NEW n \in 1 .. N PROVE R(n) = IF S(n) = {} THEN R(n + 1) ELSE Narrow(R(n + 1), S(n))
    OBVIOUS
  <2>1. n \in 1 .. N + 1 /\ ~(n > N)
    BY <1>1
  <2>2. QED
    BY <1>4, <2>1
<1>7. \A n \in 1 .. N + 1 : R(n) \in Ranges
  <2> DEFINE Good == {n \in Nat : R(n) \in Ranges}
  <2>1. N + 1 \in Good
    BY <1>1, <1>2, <1>5
  <2>2. ASSUME NEW n \in 1 .. N, n + 1 \in Good PROVE n \in Good
    <3>1. R(n + 1) \in Ranges /\ n \in Nat
      BY <1>1, <2>2
    <3>2. S(n) # {} => Narrow(R(n + 1), S(n)) \in Ranges
      BY <1>3, <3>1, NarrowIs
    <3>3. R(n) \in Ranges
      BY <1>6, <3>1, <3>2
    <3>4. QED
      BY <3>1, <3>3
  <2>3. 1 .. N + 1 \subseteq Good
    <3> HIDE DEF Good
    <3> QED BY <1>1, <2>1, <2>2, Downward
  <2>4. QED
    BY <2>3
<1>8. ASSUME NEW F \in 1 .. N + 1, NEW x \in Points, Inside(globalRanges, x), \A n \in F .. N : x \in S(n)
      PROVE  Inside(R(F), x)
  <2> DEFINE Good == {n \in Nat : n >= F => Inside(R(n), x)}
  <2>1. N + 1 \in Good
    BY <1>1, <1>5, <1>8
  <2>2. ASSUME NEW n \in 1 .. N, n + 1 \in Good PROVE n \in Good
    <3> SUFFICES ASSUME n >= F PROVE Inside(R(n), x)
      BY <1>1
    <3>1. n + 1 >= F /\ n \in F .. N /\ n + 1 \in 1 .. N + 1
      BY <1>1
    <3>2. Inside(R(n + 1), x) /\ x \in S(n) /\ R(n + 1) \in Ranges /\ S(n) \subseteq Points
      BY <1>3, <1>7, <1>8, <2>2, <3>1
    <3>3. Inside(Narrow(R(n + 1), S(n)), x)
      BY <3>2, NarrowIs
    <3>4. QED
      BY <1>6, <3>2, <3>3
  <2>3. 1 .. N + 1 \subseteq Good
    <3> HIDE DEF Good
    <3> QED BY <1>1, <2>1, <2>2, Downward
  <2>4. F \in Good /\ F >= F
    <3> HIDE DEF Good
    <3> QED BY <1>1, <2>3
  <2>5. QED
    BY <2>4
<1>9. QED
  BY <1>7, <1>8 DEF N, S, R

-----------------------------------------------------------------------------
(* What the theory refuses *)

Once(s) == \A m, n \in 1 .. Len(s) : s[m] = s[n] => m = n

\* The clause that forbids some decisions names each of their variables once.
LEMMA ForbidIs ==
  ASSUME NEW s \in Seq(Vars), Once(s)
  PROVE  /\ Forbid(s) \in Seq(Lits) /\ Len(Forbid(s)) = Len(s) /\ Distinct(Forbid(s))
         /\ \A n \in 1 .. Len(s) : Forbid(s)[n] = -TrueLit(s[n]) /\ VarOf(Forbid(s)[n]) = s[n]
                                   /\ Forbid(s)[n] \in ToSet(Forbid(s))
<1>1. DOMAIN s = 1 .. Len(s) /\ Len(s) \in Nat /\ \A n \in 1 .. Len(s) : s[n] \in Vars
  OBVIOUS
<1> DEFINE f == Forbid(s)
<1>2. f = [n \in 1 .. Len(s) |-> -TrueLit(s[n])]
  BY <1>1 DEF Forbid
<1>3. \A n \in 1 .. Len(s) : -TrueLit(s[n]) \in Lits /\ VarOf(-TrueLit(s[n])) = s[n]
  BY <1>1, TrailLit
<1> HIDE DEF f
<1>4. \A n \in 1 .. Len(s) : f[n] = -TrueLit(s[n]) /\ VarOf(f[n]) = s[n] /\ f[n] \in Lits
  BY <1>2, <1>3
<1>5. f \in Seq(Lits) /\ Len(f) = Len(s) /\ DOMAIN f = 1 .. Len(s)
  BY <1>1, <1>2, <1>3
<1>6. Distinct(f)
  BY <1>4, <1>5 DEF Distinct, Once
<1>7. \A n \in 1 .. Len(s) : f[n] \in ToSet(f)
  BY <1>5, ToSetIs
<1>8. QED
  BY <1>4, <1>5, <1>6, <1>7 DEF f

\* A sequence of one element.
LEMMA OneOnly ==
  ASSUME NEW T, NEW s \in Seq(T), Len(s) = 1
  PROVE  s = <<s[1]>> /\ s[1] \in T
OBVIOUS

\* The trail is free of repetitions.
LEMMA TrailOnce == ASSUME decisions \in Seq(Vars), FactsStand PROVE Once(decisions)
BY DEF FactsStand, Once

\* Of the places at which the propagator fails it takes one.
LEMMA FirstFailureIs ==
  ASSUME decisions \in Seq(Vars), Failures # {}
  PROVE  FirstFailure \in Failures /\ FirstFailure \in 1 .. Len(decisions)
<1>1. Failures \subseteq 1 .. Len(decisions) /\ Len(decisions) \in Nat
  BY DEF Failures
<1> DEFINE S == Failures
           N == Len(decisions)
<1>2. S \subseteq Nat /\ S # {} /\ N \in Nat /\ \A y \in S : y <= N
  BY <1>1
<1> HIDE DEF S, N
<1>3. Highest(S) \in S
  BY <1>2, HighestIs
<1>4. QED
  BY <1>1, <1>3 DEF S, FirstFailure

\* The offenders are decisions, none of them twice.
LEMMA OffendersAre ==
  ASSUME decisions \in Seq(Vars), FactsStand, Failures # {}
  PROVE  /\ Offenders \in Seq(Vars) /\ Once(Offenders) /\ Len(Offenders) >= 1
         /\ Impossible(FirstFailure) => Offenders = <<decisions[FirstFailure]>>
         /\ ~Impossible(FirstFailure) =>
              \A m \in FirstFailure .. Len(decisions) : \E n \in 1 .. Len(Offenders) : Offenders[n] = decisions[m]
<1> DEFINE F == FirstFailure
           N == Len(decisions)
<1>1. F \in 1 .. N /\ N \in Nat /\ \A n \in 1 .. N : decisions[n] \in Vars
  BY FirstFailureIs
<1>2. \A m, n \in 1 .. N : decisions[m] = decisions[n] => m = n
  BY TrailOnce DEF Once
<1> HIDE DEF F, N
<1>3. CASE Impossible(F)
  <2>1. Offenders = <<decisions[F]>>
    BY <1>3 DEF Offenders, F
  <2>2. decisions[F] \in Vars
    BY <1>1
  <2> DEFINE v == decisions[F]
             s == <<v>>
  <2>3. s \in Seq(Vars) /\ Len(s) = 1
    BY <2>2
  <2>4. Once(s) /\ Len(s) >= 1
    BY <2>3 DEF Once
  <2>5. QED
    BY <1>3, <2>1, <2>3, <2>4 DEF F
<1>4. CASE ~Impossible(F)
  <2> DEFINE s == SubSeq(decisions, F, N)
             t == Reverse(s)
             M == N - F + 1
  <2>1. Offenders = t
    BY <1>4 DEF Offenders, F, N
  <2>2. s \in Seq(Vars) /\ Len(s) = M /\ \A i \in 1 .. M : s[i] = decisions[F + i - 1]
    <3>1. \A i \in F .. N : decisions[i] \in Vars
      BY <1>1
    <3>2. /\ SubSeq(decisions, F, N) \in Seq(Vars)
          /\ Len(SubSeq(decisions, F, N)) = IF F <= N THEN N - F + 1 ELSE 0
          /\ \A i \in 1 .. N - F + 1 : SubSeq(decisions, F, N)[i] = decisions[F + i - 1]
      BY <1>1, <3>1, SubSeqProperties
    <3>3. F <= N
      BY <1>1
    <3>4. QED
      BY <3>2, <3>3
  <2>3. M \in Nat /\ M >= 1
    BY <1>1
  <2>4. t = [i \in 1 .. M |-> s[(M - i) + 1]]
    BY <2>2 DEF Reverse
  <2> HIDE DEF s, t
  <2>5. \A i \in 1 .. M : t[i] = decisions[(N - i) + 1] /\ t[i] \in Vars
    <3> SUFFICES ASSUME NEW i \in 1 .. M PROVE t[i] = decisions[(N - i) + 1] /\ t[i] \in Vars
      OBVIOUS
    <3>1. (M - i) + 1 \in 1 .. M /\ F + ((M - i) + 1) - 1 = (N - i) + 1 /\ (N - i) + 1 \in 1 .. N
      BY <1>1
    <3>2. t[i] = s[(M - i) + 1]
      BY <2>4
    <3>3. s[(M - i) + 1] = decisions[(N - i) + 1]
      BY <2>2, <3>1
    <3>4. QED
      BY <1>1, <3>1, <3>2, <3>3
  <2>6. t \in Seq(Vars) /\ Len(t) = M
    BY <2>3, <2>4, <2>5
  <2>7. Once(t)
    <3> SUFFICES ASSUME NEW i \in 1 .. M, NEW j \in 1 .. M, t[i] = t[j] PROVE i = j
      BY <2>6 DEF Once
    <3>1. (N - i) + 1 \in 1 .. N /\ (N - j) + 1 \in 1 .. N
      BY <1>1
    <3>2. (N - i) + 1 = (N - j) + 1
      BY <1>2, <2>5, <3>1
    <3>3. QED
      BY <1>1, <3>2
  <2>8. ASSUME NEW m \in F .. N PROVE \E n \in 1 .. Len(t) : t[n] = decisions[m]
    <3>1. (N - m) + 1 \in 1 .. M /\ (N - ((N - m) + 1)) + 1 = m
      BY <1>1
    <3>2. t[(N - m) + 1] = decisions[m]
      BY <2>5, <3>1
    <3>3. QED
      BY <2>6, <3>1, <3>2
  <2>9. QED
    BY <1>4, <2>1, <2>3, <2>6, <2>7, <2>8 DEF F, N
<1>5. QED
  BY <1>3, <1>4

\* What the propagator refuses is refused rightly: within the ranges no point meets all the offenders.
LEMMA OffendersRefused ==
  ASSUME decisions \in Seq(Vars), SmtTypeOK, FactsStand, Failures # {}
  PROVE  \A x \in Within(globalRanges) : \E l \in ToSet(Forbid(Offenders)) : x \in Solutions(l)
<1> DEFINE F == FirstFailure
           N == Len(decisions)
           O == Offenders
<1>1. F \in Failures /\ F \in 1 .. N /\ N \in Nat /\ \A n \in 1 .. N : decisions[n] \in Vars
  BY FirstFailureIs
<1>2. /\ O \in Seq(Vars) /\ Once(O) /\ Len(O) >= 1
      /\ Impossible(F) => O = <<decisions[F]>>
      /\ ~Impossible(F) => \A m \in F .. N : \E n \in 1 .. Len(O) : O[n] = decisions[m]
  BY OffendersAre
<1>3. \A n \in 1 .. Len(O) : Forbid(O)[n] = -TrueLit(O[n]) /\ Forbid(O)[n] \in ToSet(Forbid(O))
  <2>1. O \in Seq(Vars) /\ Once(O)
    BY <1>2
  <2> HIDE DEF O
  <2>2. QED
    BY <2>1, ForbidIs
<1>4. theory \in [Vars -> SUBSET Points]
  BY DEF SmtTypeOK
<1> SUFFICES ASSUME NEW x \in Points, Inside(globalRanges, x)
             PROVE  \E l \in ToSet(Forbid(O)) : x \in Solutions(l)
  BY DEF Within, Inside
<1>5. \A m \in 1 .. N : (\E n \in 1 .. Len(O) : O[n] = decisions[m]) /\ x \notin Solutions(TrueLit(decisions[m]))
                          => \E l \in ToSet(Forbid(O)) : x \in Solutions(l)
  <2> SUFFICES ASSUME NEW m \in 1 .. N, NEW n \in 1 .. Len(O), O[n] = decisions[m],
                      x \notin Solutions(TrueLit(decisions[m]))
               PROVE  \E l \in ToSet(Forbid(O)) : x \in Solutions(l)
    OBVIOUS
  <2>1. x \in Solutions(-TrueLit(decisions[m]))
    BY <1>1, <1>4, Complement
  <2>2. Forbid(O)[n] = -TrueLit(decisions[m]) /\ Forbid(O)[n] \in ToSet(Forbid(O))
    BY <1>3
  <2>3. QED
    BY <2>1, <2>2, Zenon
<1>6. CASE Impossible(F)
  <2>1. O = <<decisions[F]>> /\ Solutions(TrueLit(decisions[F])) = {}
    BY <1>2, <1>6 DEF Impossible
  <2>2. 1 \in 1 .. Len(O) /\ O[1] = decisions[F]
    BY <2>1
  <2>3. x \notin Solutions(TrueLit(decisions[F]))
    BY <2>1
  <2> HIDE DEF O, F, N
  <2>4. QED
    BY <1>1, <1>5, <2>2, <2>3, Zenon
<1>7. CASE ~Impossible(F)
  <2>1. Collapsed(F)
    BY <1>1, <1>7 DEF Failures
  <2>2. ~Inside(RangeAfter[F], x)
    <3>1. F \in 1 .. N + 1
      BY <1>1
    <3>2. RangeAfter[F] \in Ranges
      BY <3>1, RangesHold
    <3>3. x \in Nat
      BY TheoryAssumption
    <3> DEFINE r == RangeAfter[F]
    <3>4. r.lo \in Nat /\ r.hi \in Nat /\ r.lo > r.hi
      BY <2>1, <3>2 DEF Ranges, Collapsed
    <3> HIDE DEF r
    <3>5. ~Inside(r, x)
      BY <3>3, <3>4 DEF Inside
    <3>6. QED
      BY <3>5 DEF r
  <2>3. \E m \in F .. N : x \notin Solutions(TrueLit(decisions[m]))
    <3>1. F \in 1 .. N + 1
      BY <1>1
    <3>2. QED
      BY <2>2, <3>1, RangesHold
  <2>4. PICK m \in F .. N : x \notin Solutions(TrueLit(decisions[m]))
    BY <2>3
  <2>5. m \in 1 .. N /\ \E n \in 1 .. Len(O) : O[n] = decisions[m]
    BY <1>1, <1>2, <1>7
  <2>6. QED
    BY <1>5, <2>4, <2>5
<1>8. QED
  BY <1>6, <1>7

-----------------------------------------------------------------------------
(* A new attempt *)

\* The unit decisions keep their places, at level 1; all else of the trail is gone.
LEMMA PrefixIs ==
  ASSUME SatInv, PrefixInv, SmtTypeOK, FactsStand, pc # "adding"
  PROVE  LET gone == {decisions[n] : n \in (unitDecissions + 1) .. Len(decisions)}
             E == SubSeq(decisions, 1, unitDecissions)
         IN /\ unitDecissions \in Nat /\ unitDecissions <= Len(decisions) /\ Len(decisions) \in Nat
            /\ E \in Seq(Vars) /\ Len(E) = unitDecissions
            /\ \A n \in 1 .. unitDecissions : E[n] = decisions[n] /\ decisions[n] \in Vars
                                              /\ decisions[n] \notin gone /\ level[decisions[n]] = 1
                                              /\ reason[decisions[n]] = 0
            /\ \A v \in Vars : value[v] # "UNASSIGNED" /\ v \notin gone
                                 <=> \E n \in 1 .. unitDecissions : decisions[n] = v
<1> DEFINE u == unitDecissions
           D == decisions
           N == Len(decisions)
           gone == {D[n] : n \in (u + 1) .. N}
           E == SubSeq(D, 1, u)
<1>1. TrailOf(D, levelStart, value, level)
  BY DEF SatInv, TrailInv
<1>2. /\ D \in Seq(Vars) /\ N \in Nat /\ Len(levelStart) \in Nat /\ Len(levelStart) >= 1
      /\ \A n \in 1 .. N : D[n] \in Vars /\ level[D[n]] \in 1 .. Len(levelStart)
      /\ \A k \in 1 .. Len(levelStart) : levelStart[k] \in Nat /\ levelStart[k] <= N
  BY <1>1, TrailShape
<1>3. u \in Nat /\ u <= levelStart[1] /\ levelStart[1] \in Nat /\ levelStart[1] <= N /\ u <= N
  <2>1. 1 \in 1 .. Len(levelStart)
    BY <1>2
  <2>2. levelStart[1] \in Nat /\ levelStart[1] <= N
    BY <1>2, <2>1
  <2>3. u \in Nat /\ u <= levelStart[1]
    BY DEF PrefixInv, SmtTypeOK
  <2>4. QED
    BY <1>2, <2>2, <2>3
<1>4. \A m, n \in 1 .. N : D[m] = D[n] => m = n
  BY <1>2, TrailOnce DEF Once
<1>5. E \in Seq(Vars) /\ Len(E) = u /\ \A n \in 1 .. u : E[n] = D[n]
  <2>1. \A i \in 1 .. u : D[i] \in Vars
    BY <1>2, <1>3
  <2>2. /\ SubSeq(D, 1, u) \in Seq(Vars)
        /\ Len(SubSeq(D, 1, u)) = IF 1 <= u THEN u - 1 + 1 ELSE 0
        /\ \A i \in 1 .. u - 1 + 1 : SubSeq(D, 1, u)[i] = D[1 + i - 1]
    BY <1>2, <1>3, <2>1, SubSeqProperties
  <2>3. (IF 1 <= u THEN u - 1 + 1 ELSE 0) = u /\ u - 1 + 1 = u /\ \A i \in 1 .. u : 1 + i - 1 = i
    BY <1>3
  <2>4. QED
    BY <2>2, <2>3
<1>6. ASSUME NEW n \in 1 .. u PROVE D[n] \in Vars /\ D[n] \notin gone /\ level[D[n]] = 1 /\ reason[D[n]] = 0
  <2>1. n \in 1 .. N
    BY <1>2, <1>3
  <2>2. D[n] \notin gone
    <3> SUFFICES ASSUME NEW m \in (u + 1) .. N, D[m] = D[n] PROVE FALSE
      OBVIOUS
    <3>1. m \in 1 .. N /\ m # n
      BY <1>2, <1>3
    <3>2. QED
      BY <1>4, <2>1, <3>1
  <2>3. level[D[n]] = 1
    <3>1. level[D[n]] \in 1 .. Len(levelStart)
      BY <1>2, <2>1
    <3>2. CASE Len(levelStart) = 1
      BY <3>1, <3>2
    <3>3. CASE Len(levelStart) # 1
      <4>1. 2 \in 2 .. Len(levelStart) /\ 1 \in 1 .. Len(levelStart) /\ 2 \in 1 .. Len(levelStart) /\ 1 < 2
        <5> DEFINE K == Len(levelStart)
        <5>1. K \in Nat /\ K >= 1 /\ K # 1
          BY <1>2, <3>3, Zenon
        <5> HIDE DEF K
        <5>2. 2 \in 2 .. K /\ 1 \in 1 .. K /\ 2 \in 1 .. K /\ 1 < 2
          BY <5>1
        <5>3. QED
          BY <5>2 DEF K
      <4>2. levelStart[1] <= levelStart[2]
        BY <1>1, <4>1 DEF TrailOf
      <4>3. levelStart[2] \in Nat
        BY <1>2, <4>1
      <4>4. ~(n > levelStart[2])
        BY <1>3, <4>2, <4>3
      <4>5. ~(level[D[n]] >= 2)
        BY <1>1, <2>1, <4>1, <4>4, TrailLevels
      <4>6. QED
        BY <1>2, <3>1, <4>5
    <3>4. QED
      BY <3>2, <3>3
  <2>4. reason[D[n]] = 0
    BY DEF PrefixInv
  <2>5. QED
    BY <1>2, <2>1, <2>2, <2>3, <2>4
<1>7. ASSUME NEW v \in Vars
      PROVE  value[v] # "UNASSIGNED" /\ v \notin gone <=> \E n \in 1 .. u : D[n] = v
  <2>1. value[v] # "UNASSIGNED" <=> \E n \in 1 .. N : D[n] = v
    BY <1>1, TrailHas
  <2>2. ASSUME NEW n \in 1 .. N, D[n] = v, v \notin gone PROVE n \in 1 .. u
    BY <1>2, <1>3, <2>2
  <2>3. \A n \in 1 .. u : n \in 1 .. N
    BY <1>2, <1>3
  <2> HIDE DEF gone
  <2>4. QED
    BY <1>6, <2>1, <2>2, <2>3
<1> HIDE DEF E
<1>8. QED
  BY <1>2, <1>3, <1>5, <1>6, <1>7 DEF E

\* What a new attempt of solve() begins with is right, because the unit decisions are facts.
LEMMA SolveAgainKeeps ==
  ASSUME SatInv, SmtTypeOK, PrefixInv, FactsStand, FactsStand', SolveAgain
  PROVE  SatInv'
<1> DEFINE u == unitDecissions
           D == decisions
           gone == {D[n] : n \in (u + 1) .. Len(D)}
           rewatched == UNION {{w[1] : w \in ToSet(watchList[v])} : v \in gone}
           lists == {"satClauses", "facts", "tClauses", "tFacts"}
           cs == UNION {Clauses(list) : list \in lists}
           V == [v \in Vars |-> IF v \in gone THEN "UNASSIGNED" ELSE value[v]]
           R == [v \in Vars |-> IF v \in gone THEN 0 ELSE reason[v]]
           E == SubSeq(D, 1, u)
<1>0. /\ withTheory /\ pc = "done" /\ answer = "FALSE"
      /\ decisions' = E /\ value' = V /\ reason' = R /\ locked' = locked \ gone
      /\ satisfied' = satisfied \ rewatched /\ levelStart' = <<u>>
      /\ visit' = FirstVisit(levelStart') /\ Detach(cs) /\ pc' = "propagating" /\ answer' = "none"
      /\ UNCHANGED <<problem, withTheory, toAdd, watch, level, seen, analysis, decisionCount>>
  <2> HIDE DEF R, V, E, cs, rewatched
  <2>1. QED
    BY DEF SolveAgain, formulaVars, R, V, E, cs, rewatched
<1>1. TrailInv /\ SatTypeOK /\ VisitInv /\ WatchInv /\ ListInv /\ FlagInv /\ ClauseInv /\ AtRest /\ ReasonInv
      /\ UnitInv /\ LockedInv
  BY DEF SatInv
<1>2. /\ u \in Nat /\ u <= Len(D) /\ Len(D) \in Nat
      /\ E \in Seq(Vars) /\ Len(E) = u
      /\ \A n \in 1 .. u : E[n] = D[n] /\ D[n] \in Vars /\ D[n] \notin gone /\ level[D[n]] = 1 /\ reason[D[n]] = 0
      /\ \A v \in Vars : value[v] # "UNASSIGNED" /\ v \notin gone <=> \E n \in 1 .. u : D[n] = v
  <2>1. pc # "adding"
    BY <1>0
  <2>2. QED
    BY <2>1, PrefixIs
<1>3. value \in [Vars -> Values] /\ level \in [Vars -> Nat] /\ reason \in [Vars -> Nat] /\ "UNASSIGNED" \in Values
  BY <1>1, TrailShape DEF SatTypeOK, TrailInv, Values
<1>v. /\ V \in [Vars -> Values] /\ R \in [Vars -> Nat]
      /\ \A v \in Vars : V[v] = IF v \in gone THEN "UNASSIGNED" ELSE value[v]
      /\ \A v \in Vars : R[v] = IF v \in gone THEN 0 ELSE reason[v]
  <2> HIDE DEF gone
  <2>1. QED
    BY <1>3
<1> HIDE DEF gone, V, R, E
<1>4. \A v \in Vars : V[v] # "UNASSIGNED" <=> \E n \in 1 .. u : D[n] = v
  BY <1>2, <1>v
<1>5. cs \subseteq DOMAIN db
  BY DEF Clauses
<1>6. \A c \in DOMAIN db : c \in cs <=> db[c].list \in lists
  BY DEF Clauses
<1> HIDE DEF cs
<1>7. /\ db' \in Seq(ClauseRecords) /\ Len(db') = Len(db)
      /\ \A c \in 1 .. Len(db) : /\ db'[c].lits = db[c].lits
                                 /\ c \in cs => db'[c].list = "dropped"
                                 /\ c \notin cs => db'[c].list = db[c].list
      /\ watchList' \in [Vars -> Seq(Watchers)]
      /\ \A v \in Vars : ToSet(watchList'[v]) \subseteq ToSet(watchList[v])
      /\ Live' = Live \ cs
      /\ \A v \in Vars : ToSet(watchList'[v]) \subseteq Live' \X {1, 2}
      /\ \A c \in Live' : \A k \in {1, 2} : <<c, k>> \in ToSet(watchList'[VarOf(watch[c][k])])
  BY <1>0, <1>1, <1>5, Detached
<1>8. db \in Seq(ClauseRecords) /\ DOMAIN db = 1 .. Len(db) /\ Len(db) \in Nat /\ DOMAIN db' = 1 .. Len(db)
  <2>1. DOMAIN db' = 1 .. Len(db')
    BY <1>7
  <2>2. QED
    BY <1>1, <1>7, <2>1, SeenTypes
<1>9. visit' = [i |-> 0, j |-> 1, list |-> <<>>]
  <2>1. Len(<<u>>) = 1 /\ ~(1 > 1)
    OBVIOUS
  <2>2. QED
    BY <1>0, <2>1 DEF FirstVisit
<1>10. TrailInv'
  <2>1. TrailOf(E, <<u>>, V, level)
    <3>1. Len(<<u>>) = 1 /\ <<u>>[1] = u /\ <<u>> \in Seq(Nat)
      BY <1>2
    <3>2. \A v \in Vars : V[v] # "UNASSIGNED" <=> \E n \in 1 .. Len(E) : E[n] = v
      BY <1>2, <1>4
    <3>3. \A m, n \in 1 .. Len(<<u>>) : m < n => FALSE
      BY <3>1
    <3>4. \A n \in 1 .. Len(E) : level[E[n]] = 1
      BY <1>2
    <3>5. 1 \in 1 .. 1 /\ ~(1 >= 2) /\ ~(1 < 1)
      OBVIOUS
    <3> DEFINE L == <<u>>
    <3>6. L \in Seq(Nat) /\ Len(L) = 1 /\ L[Len(L)] <= Len(E) /\ Len(L) >= 1
      BY <1>2, <3>1
    <3>7. \A m, n \in 1 .. Len(L) : m < n => FALSE
      BY <3>3
    <3> HIDE DEF L
    <3>8. TrailOf(E, L, V, level)
      <4>1. \A n \in 1 .. Len(E) : level[E[n]] \in 1 .. Len(L) /\ ~(level[E[n]] >= 2) /\ ~(level[E[n]] < Len(L))
        BY <3>4, <3>5, <3>6
      <4>2. \A m, n \in 1 .. Len(E) : level[E[n]] = 1
        BY <3>4
      <4>3. QED
        BY <1>2, <1>3, <1>v, <3>2, <3>6, <3>7, <4>1, <4>2, Zenon DEF TrailOf
    <3>9. QED
      BY <3>8 DEF L
  <2>2. QED
    BY <1>0, <2>1 DEF TrailInv
<1>11. ReasonInv'
  <2>1. \A n \in 1 .. Len(E) : R[E[n]] = 0 /\ level[E[n]] = 1
    BY <1>2, <1>v
  <2>2. ~(1 >= 2)
    OBVIOUS
  <2>3. ReasonsOf(E, <<u>>, V, level, R, db')
    BY <2>1, <2>2, Zenon DEF ReasonsOf, Because
  <2>4. QED
    BY <1>0, <2>3 DEF ReasonInv
<1>12. \A l : TrueIn(V, l) /\ VarOf(l) \in Vars => VarOf(l) \notin gone
  <2> SUFFICES ASSUME NEW l, TrueIn(V, l), VarOf(l) \in Vars, VarOf(l) \in gone PROVE FALSE
    OBVIOUS
  <2>1. V[VarOf(l)] = "UNASSIGNED"
    BY <1>v
  <2>2. SignOf(l) # "UNASSIGNED"
    BY DEF SignOf
  <2>3. QED
    BY <2>1, <2>2 DEF TrueIn
<1>13. UnitInv'
  <2> SUFFICES ASSUME NEW c \in 1 .. Len(db'), Len(db'[c].lits) = 1, db'[c].list # "dropped"
               PROVE  TrueIn(value', db'[c].lits[1]) /\ level'[VarOf(db'[c].lits[1])] = 1
    BY DEF UnitInv
  <2> DEFINE l == db'[c].lits[1]
  <2>1. value'[VarOf(l)] = SignOf(l)
    <3>1. c \in DOMAIN db'
      BY <1>7, <1>8
    <3>2. QED
      BY <3>1 DEF FactsStand, IsTrue
  <2>2. VarOf(l) \in Vars
    <3>1. l \in Lits
      <4>1. c \in DOMAIN db'
        BY <1>7, <1>8
      <4>2. db'[c].lits \in Seq(Lits)
        BY <1>7, <4>1, Literals
      <4>3. QED
        BY <4>2, OneOnly
    <3>2. QED
      BY <3>1, LitFacts
  <2>3. V[VarOf(l)] # "UNASSIGNED"
    BY <1>0, <2>1 DEF SignOf
  <2>4. PICK n \in 1 .. u : D[n] = VarOf(l)
    BY <1>4, <2>2, <2>3
  <2>5. level[VarOf(l)] = 1
    BY <1>2, <2>4
  <2>6. QED
    BY <1>0, <2>1, <2>5 DEF TrueIn
<1>14. SatTypeOK'
  <2>1. satisfied' \subseteq 1 .. Len(db')
    BY <1>0, <1>1, <1>7 DEF SatTypeOK
  <2>2. <<>> \in Seq(Watchers) /\ 0 \in Nat /\ 1 \in Nat \ {0}
    OBVIOUS
  <2>3. visit' \in [i : Nat, j : Nat \ {0}, list : Seq(Watchers)]
    BY <1>9, <2>2
  <2>4. locked' \subseteq Vars
    BY <1>0, <1>1 DEF SatTypeOK
  <2>5. QED
    BY <1>0, <1>1, <1>7, <1>v, <2>1, <2>3, <2>4 DEF SatTypeOK
<1>15. ClauseInv'
  <2>1. \A c \in 1 .. Len(db') : c \in 1 .. Len(db) /\ db'[c].lits = db[c].lits
    BY <1>7
  <2>2. QED
    BY <1>0, <1>1, <2>1, Zenon DEF ClauseInv, Long
<1>16. WatchInv'
  <2>1. ToSet(visit'.list) = {}
    BY <1>9 DEF ToSet
  <2>2. QED
    BY <1>0, <1>7, <2>1 DEF WatchInv
<1>17. ListInv'
  <2>1. \A v \in Vars : \A w \in ToSet(watchList'[v]) : VarOf(watch'[w[1]][w[2]]) = v
    BY <1>0, <1>1, <1>7 DEF ListInv
  <2>2. visit'.list = <<>>
    BY <1>9
  <2>3. QED
    BY <2>1, <2>2, NoList
<1>18. FlagInv'
  <2> SUFFICES ASSUME NEW c \in Live', c \in satisfied'
               PROVE  TrueIn(value', watch'[c][1]) \/ TrueIn(value', watch'[c][2])
    BY DEF FlagInv
  <2>1. c \in Live /\ c \in satisfied /\ c \notin rewatched
    BY <1>0, <1>7
  <2>2. ASSUME NEW k \in {1, 2}, TrueIn(value, watch[c][k]) PROVE TrueIn(V, watch[c][k])
    <3>1. VarOf(watch[c][k]) \in Vars
      BY <1>1, <2>1, WatchedLits
    <3>2. <<c, k>> \in ToSet(watchList[VarOf(watch[c][k])])
      BY <1>1, <2>1 DEF WatchInv
    <3>3. VarOf(watch[c][k]) \notin gone
      <4> SUFFICES ASSUME VarOf(watch[c][k]) \in gone PROVE FALSE
        OBVIOUS
      <4>1. c \in {w[1] : w \in ToSet(watchList[VarOf(watch[c][k])])}
        <5>1. <<c, k>>[1] = c
          OBVIOUS
        <5>2. QED
          BY <3>2, <5>1
      <4>2. c \in rewatched
        BY <4>1
      <4>3. QED
        BY <2>1, <4>2
    <3>4. QED
      BY <1>v, <2>2, <3>1, <3>3 DEF TrueIn
  <2>3. TrueIn(value, watch[c][1]) \/ TrueIn(value, watch[c][2])
    BY <1>1, <2>1 DEF FlagInv
  <2>4. QED
    BY <1>0, <2>2, <2>3
<1>19. VisitInv'
  <2>1. Len(levelStart') = 1 /\ Len(decisions') = u /\ visit'.i = 0 /\ pc' = "propagating"
    BY <1>0, <1>2, <1>9
  <2>2. ~(1 > 1) /\ 0 <= u
    BY <1>2
  <2>3. QED
    BY <2>1, <2>2, Zenon DEF VisitInv
<1>20. WatchersInv'
  <2> SUFFICES ASSUME NEW c \in Live', NEW k \in {1, 2}, FalseIn(value', watch'[c][k])
               PROVE  Pending(<<c, k>>)'
    BY DEF WatchersInv
  <2>1. c \in Live /\ watch' = watch
    BY <1>0, <1>7
  <2>2. VarOf(watch[c][k]) \in Vars
    BY <1>1, <2>1, WatchedLits
  <2>3. V[VarOf(watch[c][k])] # "UNASSIGNED"
    BY <1>0, <2>1 DEF FalseIn
  <2>4. PICK n \in 1 .. u : D[n] = VarOf(watch[c][k])
    BY <1>4, <2>2, <2>3
  <2>5. n \in 1 .. Len(decisions') /\ decisions'[n] = VarOf(watch'[c][k]) /\ n > visit'.i
    <3>1. n > 0 /\ visit'.i = 0
      BY <1>9
    <3>2. QED
      BY <1>0, <1>2, <2>1, <2>4, <3>1
  <2>6. QED
    BY <2>5, LaterIsPending
<1>21. Given' = {c \in Given : c \notin cs} /\ Given' \subseteq 1 .. Len(db')
  BY <1>6, <1>7, <1>8 DEF Given
<1>22. Sound'
  <2> SUFFICES ASSUME NEW a \in Sure', NEW c \in 1 .. Len(db'), InUse(c)'
               PROVE  Satisfies(a, db'[c].lits)
    BY DEF Sound
  <2>1. c \in 1 .. Len(db) /\ c \in DOMAIN db'
    BY <1>7, <1>8
  <2>2. db'[c].list # "dropped"
    <3> SUFFICES ASSUME NEW v \in Vars, value'[v] # "UNASSIGNED", reason'[v] = c PROVE FALSE
      BY DEF InUse
    <3>1. PICK n \in 1 .. u : D[n] = v
      BY <1>0, <1>4
    <3>2. R[v] = 0
      BY <1>2, <1>v, <3>1
    <3>3. c # 0
      BY <2>1
    <3>4. QED
      BY <1>0, <3>2, <3>3
  <2>3. c \in Given'
    <3>1. c \notin cs /\ db'[c].list = db[c].list
      BY <1>7, <2>1, <2>2
    <3>2. db'[c].list \notin {"satClauses", "facts", "dropped"}
      BY <1>6, <1>8, <2>1, <2>2, <3>1
    <3>3. QED
      BY <2>1, <3>2 DEF Given
  <2>4. QED
    BY <2>3 DEF Sure, Models
<1>23. FactsInv'
  <2> SUFFICES ASSUME NEW v \in Vars, V[v] # "UNASSIGNED", NEW a \in Sure' PROVE ~Differ(V, a, v)
    BY <1>0 DEF FactsInv, FactsOf
  <2>1. PICK n \in 1 .. u : D[n] = v
    BY <1>4
  <2>2. PICK c \in 1 .. Len(db) : Lasting(c) /\ VarOf(db[c].lits[1]) = v
    BY <2>1 DEF PrefixInv
  <2>3. c \notin cs /\ db'[c].list = db[c].list /\ db'[c].lits = db[c].lits /\ Len(db[c].lits) = 1
        /\ db'[c].list \in {"clauses", "iFacts"} /\ c \in DOMAIN db'
    BY <1>6, <1>7, <1>8, <2>2 DEF Lasting
  <2> DEFINE l == db[c].lits[1]
  <2>4. value'[VarOf(l)] = SignOf(l)
    BY <2>3 DEF FactsStand, IsTrue
  <2>5. l \in Lits /\ db[c].lits \in Seq(Lits)
    <3>1. db[c].lits \in Seq(Lits)
      BY <1>8, Literals
    <3>2. QED
      BY <2>3, <3>1, OneOnly
  <2>6. Satisfies(a, db[c].lits)
    <3>1. c \in Given'
      BY <2>3 DEF Given
    <3>2. QED
      BY <2>3, <3>1 DEF Sure, Models
  <2>7. Holds(l, a)
    <3>1. ToSet(db[c].lits) = {l}
      <4>1. db[c].lits = <<l>>
        BY <2>3, <2>5, OneOnly
      <4>2. ToSet(<<l>>) = {l}
        BY DEF ToSet
      <4>3. QED
        BY <4>1, <4>2
    <3>2. QED
      BY <2>6, <3>1 DEF Satisfies
  <2>8. a \in Assignments
    BY DEF Sure, Models
  <2>9. TrueIn(V, l)
    BY <1>0, <2>4 DEF TrueIn
  <2> HIDE DEF l
  <2>10. ~Differ(V, a, VarOf(l))
    BY <1>v, <2>5, <2>7, <2>8, <2>9, LitValue
  <2>11. QED
    BY <2>2, <2>10 DEF l
<1>24. AtRest'
  BY <1>0, <1>1 DEF AtRest
<1>25. AddingInv' /\ AnalysisInv' /\ AnswerInv'
  BY <1>0 DEF AddingInv, AnalysisInv, AnswerInv
<1>27. LockedInv'
  <2> SUFFICES ASSUME NEW v \in locked, v \notin gone PROVE V[v] # "UNASSIGNED" /\ level[v] = 1
    <3> HIDE DEF V, gone
    <3> QED BY <1>0 DEF LockedInv
  <2>1. v \in Vars /\ value[v] # "UNASSIGNED" /\ level[v] = 1
    BY <1>1 DEF SatTypeOK, LockedInv
  <2>2. QED
    <3> HIDE DEF V, gone
    <3> QED BY <1>v, <2>1
<1>26. QED
  BY <1>27, <1>10, <1>11, <1>13, <1>14, <1>15, <1>16, <1>17, <1>18, <1>19, <1>20, <1>22, <1>23, <1>24, <1>25 DEF SatInv

\* The unit decisions stay, and so do the clauses they come from.
LEMMA SolveAgainPrefix ==
  ASSUME SatInv, SmtTypeOK, PrefixInv, FactsStand, SolveAgain
  PROVE  PrefixInv'
<1> DEFINE u == unitDecissions
           D == decisions
           gone == {D[n] : n \in (u + 1) .. Len(D)}
           cs == UNION {Clauses(list) : list \in {"satClauses", "facts", "tClauses", "tFacts"}}
           R == [v \in Vars |-> IF v \in gone THEN 0 ELSE reason[v]]
           E == SubSeq(D, 1, u)
<1>0. /\ pc = "done" /\ decisions' = E /\ reason' = R /\ levelStart' = <<u>>
      /\ Detach(cs) /\ pc' = "propagating" /\ unitDecissions' = u
  <2> HIDE DEF R, E, cs
  <2>1. QED
    BY DEF SolveAgain, R, E, cs
<1>1. /\ u \in Nat
      /\ \A n \in 1 .. u : E[n] = D[n] /\ D[n] \in Vars /\ D[n] \notin gone /\ reason[D[n]] = 0
  <2>1. pc # "adding"
    BY <1>0
  <2>2. QED
    BY <2>1, PrefixIs
<1>2. \A v \in Vars : R[v] = IF v \in gone THEN 0 ELSE reason[v]
  <2> HIDE DEF gone
  <2> QED OBVIOUS
<1> HIDE DEF gone, R, E
<1>3. SatTypeOK /\ WatchInv /\ ClauseInv
  BY DEF SatInv
<1>4. cs \subseteq DOMAIN db /\ (\A c \in cs : db[c].list \in {"satClauses", "facts", "tClauses", "tFacts"})
  BY DEF Clauses
<1> HIDE DEF cs
<1>5. /\ Len(db') = Len(db)
      /\ \A c \in 1 .. Len(db) : db'[c].lits = db[c].lits /\ (c \notin cs => db'[c].list = db[c].list)
  BY <1>0, <1>3, <1>4, Detached
<1>6. \A c \in 1 .. Len(db) : Lasting(c) => Lasting(c)' /\ c \in 1 .. Len(db') /\ db'[c].lits = db[c].lits
  <2> SUFFICES ASSUME NEW c \in 1 .. Len(db), Lasting(c)
               PROVE  Lasting(c)' /\ c \in 1 .. Len(db') /\ db'[c].lits = db[c].lits
    OBVIOUS
  <2>1. c \notin cs
    BY <1>4 DEF Lasting
  <2>2. QED
    BY <1>5, <2>1 DEF Lasting
<1>7. ASSUME NEW n \in 1 .. u
      PROVE  reason'[decisions'[n]] = 0 /\ \E c \in 1 .. Len(db') : Lasting(c)' /\ VarOf(db'[c].lits[1]) = decisions'[n]
  <2>1. decisions'[n] = D[n] /\ R[D[n]] = 0
    BY <1>0, <1>1, <1>2
  <2>2. PICK c \in 1 .. Len(db) : Lasting(c) /\ VarOf(db[c].lits[1]) = D[n]
    BY DEF PrefixInv
  <2>3. QED
    BY <1>0, <1>6, <2>1, <2>2
<1>8. levelStart'[1] = u /\ u <= u
  BY <1>0, <1>1
<1>9. QED
  BY <1>0, <1>7, <1>8 DEF PrefixInv

-----------------------------------------------------------------------------
(* The steps of the theory *)

\* What the theory adds is refused: propagation only starts again at the newest level.
LEMMA VisitAgain ==
  ASSUME SatInv, Remember, pc \in {"theory", "probing"},
         UNCHANGED <<formulaVars, clauseVars, trailVars, seen, analysis, decisionCount, answer>>,
         visit' = FirstVisit(levelStart'), pc' = "propagating"
  PROVE  SatInv'
<1>0. UNCHANGED <<problem, withTheory, toAdd, db, watch, satisfied, watchList, value, level, reason, locked,
                  decisions, levelStart, seen, analysis, decisionCount, answer>>
      /\ UNCHANGED <<trailVars, db, watch>>
  BY DEF formulaVars, clauseVars, trailVars
<1>1. ClauseInv' /\ TrailInv' /\ ReasonInv' /\ UnitInv' /\ LockedInv' /\ Sound' /\ FactsInv' /\ Live' = Live
  BY <1>0, SameTrailAndClauses
<1>2. TrailInv /\ SatTypeOK /\ VisitInv /\ WatchInv /\ ListInv /\ FlagInv /\ WatchersInv /\ ClauseInv /\ AtRest
  BY DEF SatInv
<1>t. TrailOf(decisions, levelStart, value, level)
  BY <1>2 DEF TrailInv
<1>3. /\ visit' \in [i : Nat, j : Nat \ {0}, list : Seq(Watchers)] /\ visit'.list = <<>> /\ visit'.j = 1
      /\ visit'.i = IF Len(levelStart) > 1 THEN Last(levelStart) ELSE 0
  <2>1. <<>> \in Seq(Watchers)
    OBVIOUS
  <2>2. Len(levelStart) \in 1 .. Len(levelStart)
    BY <1>t, TrailShape
  <2>3. Last(levelStart) \in Nat
    BY <1>t, <2>2, TrailShape DEF Last
  <2>4. QED
    BY <1>0, <2>1, <2>3 DEF FirstVisit
<1>4. WatchInv'
  <2>1. ToSet(visit'.list) = {}
    BY <1>3 DEF ToSet
  <2>2. QED
    BY <1>0, <1>1, <1>2, <2>1 DEF WatchInv
<1>5. ListInv'
  <2>1. \A v \in Vars : \A w \in ToSet(watchList'[v]) : VarOf(watch'[w[1]][w[2]]) = v
    BY <1>0, <1>2 DEF ListInv
  <2>2. QED
    BY <1>3, <2>1, NoList
<1>6. FlagInv'
  BY <1>0, <1>1, <1>2 DEF FlagInv
<1>7. VisitInv'
  <2>1. Len(decisions) \in Nat /\ Len(levelStart) \in Nat /\ \A k \in 1 .. Len(levelStart) : levelStart[k] \in Nat
    BY <1>t, TrailShape
  <2>2. Len(levelStart) > 1 => Last(levelStart) < Len(decisions) /\ Last(levelStart) \in Nat
    BY <1>2, <2>1 DEF VisitInv, Last
  <2>3. QED
    BY <1>0, <1>3, <2>1, <2>2 DEF VisitInv
<1>8. WatchersInv'
  <2> SUFFICES ASSUME NEW c \in Live, NEW k \in {1, 2}, db[c].list \notin TheoryLists, FalseIn(value, watch[c][k])
               PROVE  Backed(c, k)'
    BY <1>0, <1>1 DEF WatchersInv
  <2>1. ~Pending(<<c, k>>)
    BY NothingAhead
  <2>2. Backed(c, k)
    BY <1>2, <2>1 DEF WatchersInv
  <2>3. QED
    BY <1>0, <2>2 DEF Backed
<1>9. SatTypeOK'
  BY <1>0, <1>2, <1>3 DEF SatTypeOK
<1>10. AtRest'
  BY <1>0, <1>2 DEF AtRest
<1>11. AddingInv' /\ AnalysisInv' /\ AnswerInv'
  BY DEF AddingInv, AnalysisInv, AnswerInv
<1>12. QED
  BY <1>1, <1>4, <1>5, <1>6, <1>7, <1>8, <1>9, <1>10, <1>11 DEF SatInv

\* The theory adds a unit clause, and no variable that was set is set anew.
LEMMA TheoryFact ==
  ASSUME SatInv, Remember, FactsStand', pc \in {"theory", "probing"}, NEW s \in Seq(Vars), Once(s), Len(s) = 1,
         NEW P \in Nat, P <= Len(BackTracked(1).decisions), NEW list \in TheoryLists,
         InsertFact(BackTracked(1), Forbid(s)[1], P + 1), AttachUnit(Forbid(s), list),
         locked' \subseteq locked \cup VarsOf(Forbid(s)),
         UNCHANGED <<formulaVars, seen, analysis, decisionCount, answer>>,
         visit' = FirstVisit(levelStart'), pc' = "propagating"
  PROVE  SatInv'
<1> DEFINE F == Forbid(s)
           A == F[1]
<1>1. F \in Seq(Lits) /\ Len(F) = 1
  BY ForbidIs
<1> HIDE DEF F
<1>2. F = <<A>> /\ A \in Lits
  BY <1>1, OneOnly
<1>3. BackTracked(1).value[VarOf(A)] = "UNASSIGNED"
  <2>1. pc # "adding" /\ InsertFact(BackTracked(1), A, P + 1)
    BY DEF F
  <2> HIDE DEF A
  <2>2. QED
    BY <1>2, <2>1, FactIsNew
<1>4. locked' \subseteq locked \cup {VarOf(A)}
  <2>1. ToSet(F) = {A}
    BY <1>2 DEF ToSet
  <2>2. VarsOf(F) = {VarOf(A)}
    BY <2>1 DEF VarsOf
  <2>3. QED
    BY <2>2 DEF F
<1>5. seen' \subseteq Vars /\ analysis' = NoAnalysis
  BY DEF SatInv, SatTypeOK, AtRest
<1>6. AttachUnit(<<A>>, list) /\ InsertFact(BackTracked(1), A, P + 1)
  <2>1. AttachUnit(F, list)
    BY DEF F
  <2>2. QED
    BY <1>2, <2>1 DEF F
<1>7. list # "facts" /\ list \in {"facts"} \cup TheoryLists /\ pc # "adding"
  BY DEF TheoryLists
<1>8. UNCHANGED <<problem, withTheory, toAdd, decisionCount, answer>>
  BY DEF formulaVars
<1> HIDE DEF A
<1>9. QED
  BY <1>2, <1>3, <1>4, <1>5, <1>6, <1>7, <1>8, FactAdded

\* The interval propagator's verdict keeps the invariant.
LEMMA IntervalPropagateKeeps ==
  ASSUME SatInv, Remember, SmtTypeOK, FactsStand, FactsStand', IntervalPropagate
  PROVE  SatInv'
<1>0. pc = "theory" /\ UNCHANGED <<formulaVars, seen, analysis, decisionCount, answer>>
  BY DEF IntervalPropagate
<1>1. decisions \in Seq(Vars) /\ answer \in {"none", "TRUE", "FALSE", "TIMEOUT"}
  BY DEF SatInv, TrailInv, TrailOf, SatTypeOK
<1>2. CASE Failures = {}
  <2>1. pc' = "probing" /\ UNCHANGED <<clauseVars, trailVars, visit>>
    BY <1>2 DEF IntervalPropagate
  <2>2. UNCHANGED <<formulaVars, clauseVars, trailVars, searchVars>>
    BY <1>0, <2>1 DEF searchVars
  <2>3. answer' = answer
    BY <1>0
  <2>4. QED
    BY <1>0, <1>1, <2>1, <2>2, <2>3, PlaceMoves
<1>3. CASE Failures # {}
  <2> DEFINE s == Offenders
             F == Forbid(s)
  <2>1. s \in Seq(Vars) /\ Once(s) /\ Len(s) >= 1
    BY <1>1, <1>3, OffendersAre
  <2>2. AddIClause(F) /\ visit' = FirstVisit(levelStart') /\ pc' = "propagating"
    BY <1>3 DEF IntervalPropagate
  <2> HIDE DEF s
  <2>3. F \in Seq(Lits) /\ Len(F) = Len(s) /\ Distinct(F)
    BY <2>1, ForbidIs
  <2>4. CASE Len(F) = 1
    <3>1. InsertFact(BackTracked(1), F[1], 1) /\ AttachUnit(F, "iFacts") /\ locked' = locked \union VarsOf(F)
      BY <2>2, <2>4 DEF AddIClause
    <3>2. 0 + 1 = 1 /\ 0 \in Nat /\ 0 <= Len(BackTracked(1).decisions)
      <4>1. Len(BackTracked(1).decisions) \in Nat
        BY <1>0, LevelOneFacts
      <4>2. QED
        BY <4>1
    <3>3. InsertFact(BackTracked(1), F[1], 0 + 1)
      BY <3>1, <3>2
    <3>4. "iFacts" \in TheoryLists /\ Len(s) = 1
      BY <2>3, <2>4 DEF TheoryLists
    <3>5. QED
      BY <1>0, <2>1, <2>2, <3>1, <3>2, <3>3, <3>4, TheoryFact
  <2>5. CASE Len(F) # 1
    <3>1. Attach(F, "iClauses", 1, Len(F)) /\ UNCHANGED <<trailVars, satisfied>>
      BY <2>2, <2>5 DEF AddIClause
    <3> DEFINE n == Len(F)
    <3>2. n \in Nat /\ n >= 1 /\ n # 1
      BY <2>1, <2>3, <2>5
    <3> HIDE DEF n
    <3>3. n > 1 /\ 1 \in 1 .. n /\ n \in 1 .. n /\ 1 # n
      BY <3>2
    <3>4. "iClauses" \in TheoryLists /\ pc \in {"theory", "probing"}
      BY <1>0 DEF TheoryLists
    <3>5. UNCHANGED <<trailVars, satisfied, formulaVars, seen, analysis, decisionCount, answer>>
      BY <1>0, <3>1
    <3> HIDE DEF F
    <3>6. QED
      BY <2>2, <2>3, <3>1, <3>3, <3>4, <3>5, ClauseAdded DEF n
  <2>6. QED
    BY <2>4, <2>5
<1>4. QED
  BY <1>2, <1>3

\* What follows a probe that found nothing keeps the invariant.
LEMMA ProbeFailsKeeps ==
  ASSUME SatInv, Remember, FactsStand, FactsStand', ProbeFails
  PROVE  SatInv'
<1> DEFINE s == decisions
           F == Forbid(s)
<1>0. /\ pc = "probing" /\ s # <<>> /\ AddTClause(F) /\ visit' = FirstVisit(levelStart') /\ pc' = "propagating"
      /\ UNCHANGED <<formulaVars, seen, analysis, decisionCount, answer>>
  BY DEF ProbeFails
<1>1. s \in Seq(Vars)
  BY DEF SatInv, TrailInv, TrailOf
<1>2. Once(s) /\ Len(s) \in Nat /\ Len(s) >= 1
  BY <1>0, <1>1, TrailOnce
<1>3. F \in Seq(Lits) /\ Len(F) = Len(s) /\ Distinct(F)
  BY <1>1, <1>2, ForbidIs
<1>4. CASE UNCHANGED <<trailVars, clauseVars>>
  BY <1>0, <1>4, VisitAgain
<1>5. CASE Len(F) = 1 /\ ~UNCHANGED <<trailVars, clauseVars>>
  <2>1. /\ InsertFact(BackTracked(1), F[1], BackTracked(1).levelStart[1] + 1)
        /\ AttachUnit(F, "tFacts") /\ UNCHANGED locked
    <3>1. ~(Len(F) > 1)
      BY <1>5
    <3>2. QED
      BY <1>0, <1>5, <3>1 DEF AddTClause
  <2> DEFINE P == BackTracked(1).levelStart[1]
  <2>2. P \in Nat /\ P <= Len(BackTracked(1).decisions)
    BY <1>0, LevelOneFacts
  <2>3. "tFacts" \in TheoryLists /\ Len(s) = 1 /\ locked' \subseteq locked \cup VarsOf(F)
    BY <1>3, <1>5, <2>1 DEF TheoryLists
  <2> HIDE DEF s, P
  <2>4. InsertFact(BackTracked(1), Forbid(s)[1], P + 1)
    BY <2>1 DEF P
  <2>5. pc \in {"theory", "probing"}
    BY <1>0
  <2>6. QED
    BY <1>0, <1>1, <1>2, <2>1, <2>2, <2>3, <2>4, <2>5, TheoryFact
<1>6. CASE Len(F) # 1 /\ ~UNCHANGED <<trailVars, clauseVars>>
  <2>1. Attach(F, "tClauses", Len(F) - 1, Len(F)) /\ UNCHANGED <<trailVars, satisfied>>
    BY <1>0, <1>6 DEF AddTClause
  <2> DEFINE n == Len(F)
  <2>2. n \in Nat /\ n >= 1 /\ n # 1
    BY <1>2, <1>3, <1>6
  <2> HIDE DEF n
  <2>3. n > 1 /\ n - 1 \in 1 .. n /\ n \in 1 .. n /\ n - 1 # n
    BY <2>2
  <2>4. "tClauses" \in TheoryLists /\ pc \in {"theory", "probing"}
    BY <1>0 DEF TheoryLists
  <2>5. UNCHANGED <<trailVars, satisfied, formulaVars, seen, analysis, decisionCount, answer>>
    BY <1>0, <2>1
  <2> HIDE DEF F
  <2>6. QED
    BY <1>0, <1>3, <2>1, <2>3, <2>4, <2>5, ClauseAdded DEF n
<1>7. QED
  BY <1>4, <1>5, <1>6

\* What is flagged as satisfied is.
LEMMA FlaggedAreTrue ==
  ASSUME SatInv, NEW c \in Accepted, c \in satisfied
  PROVE  \E l \in ToSet(db[c].lits) : IsTrue(l)
<1>1. SatTypeOK /\ ClauseInv /\ UnitInv /\ FlagInv
  BY DEF SatInv
<1>2. c \in 1 .. Len(db) /\ db[c].list = "clauses"
  BY <1>1, SeenTypes DEF Accepted, Clauses
<1>3. db[c].lits # <<>> /\ db[c].lits \in Seq(Lits)
  BY <1>1, <1>2, SeenTypes DEF ClauseInv
<1>4. CASE Len(db[c].lits) = 1
  <2>1. TrueIn(value, db[c].lits[1])
    BY <1>1, <1>2, <1>4 DEF UnitInv
  <2>2. db[c].lits[1] \in ToSet(db[c].lits)
    BY <1>3, <1>4, ToSetIs
  <2>3. QED
    BY <2>1, <2>2, Tests
<1>5. CASE Len(db[c].lits) # 1
  <2>1. Len(db[c].lits) > 1
    <3>1. Len(db[c].lits) \in Nat /\ Len(db[c].lits) >= 1
      BY <1>3, NotEmpty, Zenon
    <3>2. QED
      BY <1>5, <3>1, MoreThanOne, Zenon
  <2>2. c \in Live
    BY <1>2, <2>1 DEF Live, Long
  <2>3. watch[c][1] \in ToSet(db[c].lits) /\ watch[c][2] \in ToSet(db[c].lits)
    BY <1>1, <2>2, WatchedLits
  <2>4. TrueIn(value, watch[c][1]) \/ TrueIn(value, watch[c][2])
    BY <1>1, <2>2 DEF FlagInv
  <2>5. QED
    BY <2>3, <2>4, Tests
<1>6. QED
  BY <1>4, <1>5

\* The steps that add nothing keep the invariant.
LEMMA NoIntervalsKeeps == SatInv /\ NoIntervals /\ Remember => SatInv'
<1> SUFFICES ASSUME SatInv, NoIntervals, Remember PROVE SatInv'
  OBVIOUS
<1>1. pc = "theory" /\ pc' = "probing" /\ UNCHANGED <<formulaVars, clauseVars, trailVars, searchVars>> /\ answer' = answer
  BY DEF NoIntervals
<1>2. answer \in {"none", "TRUE", "FALSE", "TIMEOUT"}
  BY DEF SatInv, SatTypeOK
<1>3. QED
  BY <1>1, <1>2, PlaceMoves

\* A point is found: the clauses have true literals, or the search goes on.
LEMMA ProbeFindsKeeps == SatInv /\ ProbeFinds /\ Remember => SatInv'
<1> SUFFICES ASSUME SatInv, ProbeFinds, Remember PROVE SatInv'
  OBVIOUS
<1>1. pc = "probing" /\ UNCHANGED <<formulaVars, clauseVars, trailVars, searchVars>>
  BY DEF ProbeFinds
<1>2. answer \in {"none", "TRUE", "FALSE", "TIMEOUT"}
  BY DEF SatInv, SatTypeOK
<1>3. CASE Clauses("clauses") \subseteq satisfied
  <2>1. pc' = "done" /\ answer' = "TRUE"
    BY <1>3 DEF ProbeFinds
  <2>2. \A c \in Accepted : \E l \in ToSet(db[c].lits) : IsTrue(l)
    BY <1>3, FlaggedAreTrue DEF Accepted
  <2>3. QED
    BY <1>1, <2>1, <2>2, PlaceMoves
<1>4. CASE ~(Clauses("clauses") \subseteq satisfied)
  <2>1. pc' = "deciding" /\ answer' = answer
    BY <1>4 DEF ProbeFinds
  <2>2. QED
    BY <1>1, <1>2, <2>1, PlaceMoves
<1>5. QED
  BY <1>3, <1>4

\* Giving up claims nothing.
LEMMA TimeUpKeeps == SatInv /\ TimeUp /\ Remember => SatInv'
<1> SUFFICES ASSUME SatInv, TimeUp, Remember PROVE SatInv'
  OBVIOUS
<1>1. pc # "adding" /\ pc' = "done" /\ answer' = "TIMEOUT"
      /\ UNCHANGED <<formulaVars, clauseVars, trailVars, searchVars>>
  BY DEF TimeUp
<1>2. QED
  BY <1>1, PlaceMoves

\* Nor does the crash.
LEMMA NoResultKeeps == SatInv /\ NoResult /\ Remember => SatInv'
<1> SUFFICES ASSUME SatInv, NoResult, Remember PROVE SatInv'
  OBVIOUS
<1>1. pc = "done" /\ pc' = "crashed" /\ UNCHANGED <<formulaVars, clauseVars, trailVars, searchVars>> /\ answer' = answer
  BY DEF NoResult
<1>2. answer \in {"none", "TRUE", "FALSE", "TIMEOUT"}
  BY DEF SatInv, SatTypeOK
<1>3. QED
  BY <1>1, <1>2, PlaceMoves

-----------------------------------------------------------------------------
(* The unit decisions *)

\* Where the unit decisions are.
LEMMA PrefixWhere ==
  ASSUME SatInv, PrefixInv, SmtTypeOK, FactsStand, pc # "adding"
  PROVE  /\ unitDecissions \in Nat /\ unitDecissions <= levelStart[1]
         /\ levelStart[1] \in Nat /\ levelStart[1] <= Len(decisions) /\ Len(decisions) \in Nat
         /\ Len(levelStart) \in Nat /\ Len(levelStart) >= 1
         /\ \A n \in 1 .. unitDecissions :
              /\ n \in 1 .. Len(decisions) /\ decisions[n] \in Vars
              /\ value[decisions[n]] # "UNASSIGNED" /\ level[decisions[n]] = 1 /\ reason[decisions[n]] = 0
<1>1. TrailOf(decisions, levelStart, value, level)
  BY DEF SatInv, TrailInv
<1> DEFINE K == Len(levelStart)
           N == Len(decisions)
           u == unitDecissions
<1>2. N \in Nat /\ K \in Nat /\ K >= 1 /\ \A k \in 1 .. K : levelStart[k] \in Nat /\ levelStart[k] <= N
  BY <1>1, TrailShape
<1>3. \A n \in 1 .. N : decisions[n] \in Vars /\ value[decisions[n]] # "UNASSIGNED"
  BY <1>1, TrailShape
<1>4. u \in Nat /\ u <= levelStart[1]
  BY DEF PrefixInv, SmtTypeOK
<1>5. \A n \in 1 .. u : level[decisions[n]] = 1 /\ reason[decisions[n]] = 0
  BY PrefixIs
<1> HIDE DEF K, N, u
<1>6. 1 \in 1 .. K
  BY <1>2
<1>7. levelStart[1] \in Nat /\ levelStart[1] <= N
  BY <1>2, <1>6
<1>8. \A n \in 1 .. u : n \in 1 .. N
  BY <1>2, <1>4, <1>7
<1>9. QED
  BY <1>2, <1>3, <1>4, <1>5, <1>7, <1>8 DEF K, N, u

\* A step that leaves the unit decisions where they are, and their clauses in the data base.
LEMMA PrefixKept ==
  ASSUME PrefixInv, pc # "adding", pc' # "adding", unitDecissions' = unitDecissions, unitDecissions <= levelStart'[1],
         \A n \in 1 .. unitDecissions : decisions'[n] = decisions[n] /\ reason'[decisions[n]] = 0,
         \A c \in 1 .. Len(db) : Lasting(c) => c \in 1 .. Len(db') /\ db'[c] = db[c]
  PROVE  PrefixInv'
<1>1. ASSUME NEW n \in 1 .. unitDecissions
      PROVE  /\ reason'[decisions'[n]] = 0
             /\ \E c \in 1 .. Len(db') : Lasting(c)' /\ VarOf(db'[c].lits[1]) = decisions'[n]
  <2>1. decisions'[n] = decisions[n] /\ reason'[decisions[n]] = 0
    OBVIOUS
  <2>2. PICK c \in 1 .. Len(db) : Lasting(c) /\ VarOf(db[c].lits[1]) = decisions[n]
    BY DEF PrefixInv
  <2>3. c \in 1 .. Len(db') /\ db'[c] = db[c]
    BY <2>2
  <2>4. QED
    BY <2>1, <2>2, <2>3 DEF Lasting
<1>2. QED
  BY <1>1 DEF PrefixInv

\* A clause that is added.
LEMMA Appended ==
  ASSUME SatTypeOK, NEW r, db' = Append(db, r)
  PROVE  /\ Len(db) \in Nat /\ Len(db') = Len(db) + 1 /\ Len(db) + 1 \in 1 .. Len(db') /\ db'[Len(db) + 1] = r
         /\ \A c \in 1 .. Len(db) : c \in 1 .. Len(db') /\ db'[c] = db[c]
<1>1. db \in Seq(ClauseRecords)
  BY DEF SatTypeOK
<1>2. QED
  BY <1>1

\* While the clauses are added, every decision is of a unit clause.
LEMMA PrefixAdding ==
  ASSUME SatInv, PrefixInv, AddBasicClause \/ FinishAdding, Remember, unitDecissions' = Len(decisions')
  PROVE  PrefixInv'
<1>1. SatTypeOK /\ AddingInv /\ pc = "adding" /\ decisions \in Seq(Vars)
  BY DEF SatInv, TrailInv, TrailOf, AddBasicClause, FinishAdding
<1>2. unitDecissions = Len(decisions) /\ \A v \in Vars : reason[v] = 0
  BY <1>1 DEF PrefixInv, AddingInv
<1>3. reason' = reason
  BY DEF AddBasicClause, FinishAdding, trailVars
<1>4. CASE decisions' = decisions /\ (pc' # "adding" => levelStart'[1] = Len(decisions))
           /\ \A c \in 1 .. Len(db) : c \in 1 .. Len(db') /\ db'[c] = db[c]
  <2>1. ASSUME NEW n \in 1 .. Len(decisions)
        PROVE  reason[decisions[n]] = 0 /\ \E c \in 1 .. Len(db') : Lasting(c)' /\ VarOf(db'[c].lits[1]) = decisions[n]
    <3>1. reason[decisions[n]] = 0
      BY <1>2 DEF PrefixInv
    <3>2. PICK c \in 1 .. Len(db) : Lasting(c) /\ VarOf(db[c].lits[1]) = decisions[n]
      BY <1>2 DEF PrefixInv
    <3>3. c \in 1 .. Len(db') /\ db'[c] = db[c]
      BY <1>4
    <3>4. QED
      BY <3>1, <3>2, <3>3 DEF Lasting
  <2>2. Len(decisions) <= Len(decisions)
    BY <1>1
  <2>3. QED
    BY <1>3, <1>4, <2>1, <2>2 DEF PrefixInv
<1>5. CASE FinishAdding
  <2>1. decisions' = decisions /\ levelStart' = <<Len(decisions)>> /\ db' = db
    BY <1>5 DEF FinishAdding
  <2>2. QED
    BY <1>4, <2>1
<1>6. CASE AddBasicClause
  <2> DEFINE lits == Head(toAdd)
             v == VarOf(lits[1])
  <2>1. pc' = "adding"
    BY <1>1, <1>6 DEF AddBasicClause
  <2>2. CASE UNCHANGED <<trailVars, clauseVars>>
    BY <1>4, <2>1, <2>2 DEF trailVars, clauseVars
  <2>3. CASE Attach(lits, "clauses", 1, 2) /\ UNCHANGED <<trailVars, satisfied>>
    <3>1. decisions' = decisions /\ db' = Append(db, [lits |-> lits, list |-> "clauses"])
      BY <2>3 DEF Attach, trailVars
    <3>2. QED
      BY <1>1, <1>4, <2>1, <3>1, Appended
  <2>4. CASE Len(lits) = 1 /\ AttachUnit(lits, "clauses") /\ decisions' = Append(decisions, v)
    <3> DEFINE r == [lits |-> lits, list |-> "clauses"]
               N == Len(decisions)
    <3>1. db' = Append(db, r)
      BY <2>4 DEF AttachUnit
    <3>2. r.lits = lits /\ r.list = "clauses" /\ Len(lits) = 1
      BY <2>4
    <3> HIDE DEF r, lits
    <3>a. Len(db) + 1 \in 1 .. Len(db') /\ db'[Len(db) + 1] = r
          /\ \A c \in 1 .. Len(db) : c \in 1 .. Len(db') /\ db'[c] = db[c]
      BY <1>1, <3>1, Appended
    <3>3. PICK d \in 1 .. Len(db') : db'[d] = r
      BY <3>a
    <3>4. Lasting(d)' /\ VarOf(db'[d].lits[1]) = v
      BY <3>2, <3>3 DEF Lasting
    <3> HIDE DEF v
    <3>5. v \in Vars
      <4>1. SatInv'
        BY <1>6, AddBasicClauseKeeps
      <4>2. decisions' \in Seq(Vars)
        BY <4>1 DEF SatInv, TrailInv, TrailOf
      <4>3. Len(decisions') = N + 1 /\ decisions'[N + 1] = v /\ N \in Nat
        BY <1>1, <2>4
      <4> DEFINE E == decisions'
      <4>4. N + 1 \in 1 .. Len(E) /\ E \in Seq(Vars) /\ E[N + 1] = v
        BY <4>2, <4>3
      <4> HIDE DEF E, N
      <4>5. QED
        BY <4>4
    <3>6. N \in Nat /\ Len(decisions') = N + 1 /\ decisions'[N + 1] = v /\ \A n \in 1 .. N : decisions'[n] = decisions[n]
      BY <1>1, <2>4
    <3> HIDE DEF N
    <3>7. ASSUME NEW n \in 1 .. N + 1
          PROVE  reason'[decisions'[n]] = 0 /\ \E c \in 1 .. Len(db') : Lasting(c)' /\ VarOf(db'[c].lits[1]) = decisions'[n]
      <4>1. CASE n = N + 1
        BY <1>2, <1>3, <3>3, <3>4, <3>5, <3>6, <4>1
      <4>2. CASE n # N + 1
        <5>1. n \in 1 .. N
          BY <3>6, <4>2
        <5>2. reason[decisions[n]] = 0
          BY <1>2, <5>1 DEF PrefixInv, N
        <5>3. PICK c \in 1 .. Len(db) : Lasting(c) /\ VarOf(db[c].lits[1]) = decisions[n]
          BY <1>2, <5>1 DEF PrefixInv, N
        <5>4. c \in 1 .. Len(db') /\ db'[c] = db[c]
          BY <3>a
        <5>5. decisions'[n] = decisions[n]
          BY <3>6, <5>1
        <5>6. QED
          BY <1>3, <5>2, <5>3, <5>4, <5>5 DEF Lasting
      <4>3. QED
        BY <4>1, <4>2
    <3>8. unitDecissions' = N + 1
      BY <3>6
    <3>9. QED
      BY <2>1, <3>6, <3>7, <3>8 DEF PrefixInv
  <2>5. QED
    BY <1>6, <2>2, <2>3, <2>4 DEF AddBasicClause
<1>7. QED
  BY <1>5, <1>6

\* The steps of the SAT solver after init() leave the unit decisions alone.
LEMMA PrefixSearched ==
  ASSUME SatInv, SmtTypeOK, PrefixInv, FactsStand, pc # "adding", SatAction, unitDecissions' = unitDecissions
  PROVE  PrefixInv'
<1> DEFINE u == unitDecissions
<1>1. /\ u \in Nat /\ u <= levelStart[1] /\ levelStart[1] \in Nat /\ levelStart[1] <= Len(decisions)
      /\ Len(decisions) \in Nat /\ Len(levelStart) \in Nat /\ Len(levelStart) >= 1
      /\ \A n \in 1 .. u :
           /\ n \in 1 .. Len(decisions) /\ decisions[n] \in Vars
           /\ value[decisions[n]] # "UNASSIGNED" /\ level[decisions[n]] = 1 /\ reason[decisions[n]] = 0
  BY PrefixWhere
<1>2. SatTypeOK /\ WatchInv /\ ClauseInv /\ TrailOf(decisions, levelStart, value, level)
      /\ decisions \in Seq(Vars) /\ levelStart \in Seq(Nat) /\ reason \in [Vars -> Nat]
  BY DEF SatInv, TrailInv, TrailOf, SatTypeOK
<1>3. ASSUME UNCHANGED <<decisions, levelStart, reason, db>>, pc' # "adding" PROVE PrefixInv'
  <2>1. \A n \in 1 .. u : decisions'[n] = decisions[n] /\ reason'[decisions[n]] = 0
    BY <1>1, <1>3
  <2>2. \A c \in 1 .. Len(db) : c \in 1 .. Len(db') /\ db'[c] = db[c]
    BY <1>3
  <2>3. u <= levelStart'[1]
    BY <1>1, <1>3
  <2>4. QED
    BY <1>3, <2>1, <2>2, <2>3, PrefixKept
<1>4. CASE NextDecision \/ SkipWatcher \/ MoveWatcher \/ Conflict \/ InspectReason \/ AnswerTrue
  <2>1. UNCHANGED <<decisions, levelStart, reason, db>>
    BY <1>4 DEF NextDecision, SkipWatcher, MoveWatcher, Conflict, InspectReason, AnswerTrue, trailVars, clauseVars
  <2>2. pc' # "adding"
    <3>1. CASE NextDecision
      BY <3>1 DEF NextDecision
    <3>2. CASE SkipWatcher
      BY <3>2 DEF SkipWatcher, Visiting
    <3>3. CASE MoveWatcher
      BY <3>3 DEF MoveWatcher, NeedsWatch, Visiting
    <3>4. CASE Conflict
      BY <3>4 DEF Conflict
    <3>5. CASE InspectReason
      BY <3>5 DEF InspectReason
    <3>6. CASE AnswerTrue
      BY <3>6 DEF AnswerTrue
    <3>7. QED
      BY <1>4, <3>1, <3>2, <3>3, <3>4, <3>5, <3>6
  <2>3. QED
    BY <1>3, <2>1, <2>2
<1>5. CASE Imply
  <2> DEFINE v == VarOf(Other)
  <2>1. /\ decisions' = Append(decisions, v) /\ reason' = [reason EXCEPT ![v] = Clause]
        /\ levelStart' = levelStart /\ db' = db /\ pc' = pc
        /\ value[v] = "UNASSIGNED"
    BY <1>5 DEF Imply, IsFree
  <2> HIDE DEF v
  <2>2. ASSUME NEW n \in 1 .. u PROVE decisions'[n] = decisions[n] /\ reason'[decisions[n]] = 0
    <3>1. decisions[n] # v /\ decisions[n] \in Vars /\ reason[decisions[n]] = 0 /\ n \in 1 .. Len(decisions)
      BY <1>1, <2>1
    <3>2. reason'[decisions[n]] = reason[decisions[n]]
      BY <1>2, <2>1, <3>1
    <3>3. QED
      BY <1>2, <2>1, <3>1, <3>2
  <2>3. pc' # "adding" /\ u <= levelStart'[1] /\ \A c \in 1 .. Len(db) : c \in 1 .. Len(db') /\ db'[c] = db[c]
    BY <1>1, <2>1
  <2>4. QED
    BY <2>2, <2>3, PrefixKept
<1>6. CASE Decide
  <2>1. PICK l \in Decidable : NewDecision(l)
    BY <1>6 DEF Decide
  <2> DEFINE v == VarOf(l)
  <2>2. /\ decisions' = Append(decisions, v) /\ reason' = [reason EXCEPT ![v] = 0]
        /\ levelStart' = Append(levelStart, Len(decisions)) /\ pc' = "propagating"
        /\ ReduceDB \/ UNCHANGED <<db, watchList>>
    BY <1>6, <2>1 DEF Decide, NewDecision
  <2> HIDE DEF v
  <2>3. ASSUME NEW n \in 1 .. u PROVE decisions'[n] = decisions[n] /\ reason'[decisions[n]] = 0
    <3>1. decisions[n] \in Vars /\ reason[decisions[n]] = 0 /\ n \in 1 .. Len(decisions)
      BY <1>1
    <3>2. reason'[decisions[n]] = 0
      BY <1>2, <2>2, <3>1
    <3>3. QED
      BY <1>2, <2>2, <3>1, <3>2
  <2>4. u <= levelStart'[1]
    <3>1. levelStart'[1] = levelStart[1]
      BY <1>1, <1>2, <2>2
    <3>2. QED
      BY <1>1, <3>1
  <2>5. \A c \in 1 .. Len(db) : Lasting(c) => c \in 1 .. Len(db') /\ db'[c] = db[c]
    <3>1. CASE UNCHANGED <<db, watchList>>
      BY <3>1
    <3>2. CASE ~UNCHANGED <<db, watchList>>
      <4>1. PICK kept \in SUBSET Clauses("satClauses") : Detach(Clauses("satClauses") \ kept)
        BY <2>2, <3>2 DEF ReduceDB
      <4> DEFINE cs == Clauses("satClauses") \ kept
      <4>2. Detach(cs) /\ \A c \in cs : db[c].list = "satClauses"
        BY <4>1 DEF Clauses
      <4> HIDE DEF cs
      <4>3. db' = [c \in DOMAIN db |-> IF c \in cs THEN [db[c] EXCEPT !.list = "dropped"] ELSE db[c]]
        BY <4>2 DEF Detach
      <4>4. DOMAIN db = 1 .. Len(db) /\ db \in Seq(ClauseRecords)
        BY <1>2, SeenTypes
      <4>5. Len(db') = Len(db)
        BY <4>3, <4>4
      <4>6. ASSUME NEW c \in 1 .. Len(db), Lasting(c) PROVE c \in 1 .. Len(db') /\ db'[c] = db[c]
        <5>1. c \notin cs
          BY <4>2, <4>6 DEF Lasting
        <5>2. QED
          BY <4>3, <4>4, <4>5, <5>1
      <4>7. QED
        BY <4>6
    <3>3. QED
      BY <3>1, <3>2
  <2>6. pc' # "adding"
    BY <2>2
  <2>7. QED
    BY <2>3, <2>4, <2>5, <2>6, PrefixKept
<1>7. CASE Learn
  <2> DEFINE p == analysis.p
             k == BackLevel
             b == BackTracked(k)
             E == b.decisions
             A == Assertion
  <2>1. pc = "learning" /\ pc' = "propagating" /\ AddLearnt
    BY <1>7, LearntIsAdded DEF AddLearnt
  <2>2. /\ A \in Lits /\ VarOf(A) = p /\ p \in Vars /\ level[p] = Len(levelStart)
        /\ k \in Nat /\ k >= 1 /\ k < Len(levelStart)
        /\ Len(Learnt) = 1 => k = 1
    BY <2>1, LearntFacts, Zenon
  <2> HIDE DEF k
  <2>3. /\ Len(E) = levelStart[k + 1] /\ Len(b.levelStart) = k
        /\ \A n \in 1 .. Len(E) : E[n] = decisions[n]
        /\ b.reason \in [Vars -> Nat]
        /\ \A v \in Vars : b.value[v] = IF value[v] # "UNASSIGNED" /\ level[v] > k THEN "UNASSIGNED" ELSE value[v]
        /\ \A v \in Vars : b.value[v] # "UNASSIGNED" => b.reason[v] = reason[v]
        /\ TrailOf(E, b.levelStart, b.value, level)
    BY <1>7, <2>1, <2>2, BackTrackedFacts, Zenon
  <2>4. b.levelStart = SubSeq(levelStart, 1, k)
    BY <2>2 DEF BackTracked
  <2>5. E \in Seq(Vars)
    BY <2>3 DEF TrailOf
  <2>6. b.levelStart[1] = levelStart[1] /\ levelStart[1] <= Len(E) /\ Len(E) \in Nat
    <3> DEFINE K == Len(levelStart)
    <3>1. K \in Nat /\ k \in Nat /\ k >= 1 /\ k < K
      BY <2>2
    <3> HIDE DEF K
    <3>2. k + 1 \in 1 .. K /\ 1 \in 1 .. K /\ 1 < k + 1 /\ k \in 0 .. K /\ 1 \in 1 .. k
      BY <3>1
    <3>3. levelStart[1] <= levelStart[k + 1]
      BY <1>2, <3>2 DEF TrailOf, K
    <3>4. SubSeq(levelStart, 1, k)[1] = levelStart[1]
      <4>1. \A i \in 1 .. k : levelStart[i] \in Nat
        BY <1>2, <3>1 DEF K
      <4>2. \A i \in 1 .. k - 1 + 1 : SubSeq(levelStart, 1, k)[i] = levelStart[1 + i - 1]
        BY <1>2, <3>1, <4>1, SubSeqProperties
      <4>3. 1 \in 1 .. k - 1 + 1 /\ 1 + 1 - 1 = 1
        BY <3>1
      <4>4. SubSeq(levelStart, 1, k)[1] = levelStart[1 + 1 - 1]
        BY <4>2, <4>3, Zenon
      <4>5. QED
        BY <4>3, <4>4, Zenon
    <3>5. Len(E) \in Nat
      BY <2>5, LenProperties
    <3>6. QED
      BY <2>3, <2>4, <3>3, <3>4, <3>5
  <2>w. /\ E \in Seq(Vars) /\ Len(E) \in Nat /\ levelStart[1] <= Len(E) /\ b.reason \in [Vars -> Nat]
        /\ b.levelStart[1] = levelStart[1]
        /\ \A n \in 1 .. Len(E) : E[n] = decisions[n]
    BY <2>3, <2>5, <2>6
  <2> HIDE DEF A, p
  <2>7. CASE Len(Learnt) = 1
    <3>1. b = BackTracked(k)
      OBVIOUS
    <3>2. InsertFact(b, A, b.levelStart[1] + 1) /\ AttachUnit(Learnt, "facts")
      BY <2>1, <2>7 DEF AddLearnt, k, A
    <3> HIDE DEF E, b
    <3>3. /\ decisions' = InsertAt(E, levelStart[1] + 1, p)
          /\ levelStart' = [j \in DOMAIN b.levelStart |-> b.levelStart[j] + 1]
          /\ reason' = [b.reason EXCEPT ![p] = 0]
          /\ db' = Append(db, [lits |-> Learnt, list |-> "facts"])
      BY <2>2, <2>w, <3>2 DEF InsertFact, AttachUnit, E
    <3> DEFINE I == InsertAt(E, levelStart[1] + 1, p)
    <3>4. \A n \in 1 .. levelStart[1] : I[n] = E[n]
      <4> DEFINE L == levelStart[1]
      <4>1. L \in Nat /\ L <= Len(E) /\ E \in Seq(Vars) /\ p \in Vars
        BY <1>1, <2>2, <2>w
      <4> HIDE DEF L
      <4>2. \A n \in 1 .. L : InsertAt(E, L + 1, p)[n] = E[n]
        BY <4>1, Inserted, Zenon
      <4>3. QED
        BY <4>2 DEF L
    <3> HIDE DEF I
    <3>5. ASSUME NEW n \in 1 .. u PROVE decisions'[n] = decisions[n] /\ reason'[decisions[n]] = 0
      <4>1. n \in 1 .. levelStart[1] /\ n \in 1 .. Len(E) /\ decisions[n] \in Vars
        BY <1>1, <2>w
      <4>2. decisions'[n] = decisions[n]
        BY <2>w, <3>3, <3>4, <4>1 DEF I
      <4>3. b.reason[decisions[n]] = 0
        <5>1. value[decisions[n]] # "UNASSIGNED" /\ level[decisions[n]] = 1 /\ reason[decisions[n]] = 0
          BY <1>1
        <5>2. ~(1 > k)
          BY <2>2
        <5>3. b.value[decisions[n]] # "UNASSIGNED"
          BY <2>3, <4>1, <5>1, <5>2, Zenon DEF b
        <5>4. b.reason[decisions[n]] = reason[decisions[n]]
          BY <2>3, <4>1, <5>3, Zenon DEF b
        <5>5. QED
          BY <5>1, <5>4
      <4>4. reason'[decisions[n]] = 0
        BY <2>w, <3>3, <4>1, <4>3
      <4>5. QED
        BY <4>2, <4>4
    <3>6. u <= levelStart'[1]
      <4>1. 1 \in DOMAIN b.levelStart
        <5>1. DOMAIN b.levelStart = 1 .. k
          <6>1. TrailOf(E, b.levelStart, b.value, level) /\ Len(b.levelStart) = k
            BY <2>3 DEF E, b
          <6>2. QED
            BY <6>1, TrailShape
        <5>2. QED
          BY <2>2, <5>1
      <4>2. levelStart'[1] = levelStart[1] + 1
        BY <2>w, <3>3, <4>1
      <4>3. QED
        BY <1>1, <4>2
    <3>7. \A c \in 1 .. Len(db) : c \in 1 .. Len(db') /\ db'[c] = db[c]
      BY <1>2, <3>3, Appended
    <3>8. QED
      BY <2>1, <3>5, <3>6, <3>7, PrefixKept
  <2>8. CASE Len(Learnt) # 1
    <3>1. b = BackTracked(k)
      OBVIOUS
    <3>2. /\ decisions' = Append(E, p) /\ levelStart' = b.levelStart
          /\ reason' = [b.reason EXCEPT ![p] = Len(db) + 1]
          /\ db' = Append(db, [lits |-> Learnt, list |-> "satClauses"])
      BY <2>1, <2>8 DEF AddLearnt, k, p, Attach
    <3> HIDE DEF E, b
    <3>3. ASSUME NEW n \in 1 .. u PROVE decisions'[n] = decisions[n] /\ reason'[decisions[n]] = 0
      <4>1. n \in 1 .. Len(E) /\ decisions[n] \in Vars
        BY <1>1, <2>w
      <4>2. decisions'[n] = decisions[n]
        BY <2>w, <3>2, <4>1
      <4>3. value[decisions[n]] # "UNASSIGNED" /\ level[decisions[n]] = 1 /\ reason[decisions[n]] = 0
        BY <1>1
      <4>4. b.reason[decisions[n]] = 0
        <5>2. ~(1 > k)
          BY <2>2
        <5>3. b.value[decisions[n]] # "UNASSIGNED"
          BY <2>3, <4>1, <4>3, <5>2, Zenon DEF b
        <5>4. b.reason[decisions[n]] = reason[decisions[n]]
          BY <2>3, <4>1, <5>3, Zenon DEF b
        <5>5. QED
          BY <4>3, <5>4
      <4>5. decisions[n] # p
        <5>1. Len(levelStart) # 1
          <6> DEFINE K == Len(levelStart)
          <6>1. K \in Nat /\ k \in Nat /\ k >= 1 /\ k < K
            BY <2>2
          <6> HIDE DEF K
          <6>2. K # 1
            BY <6>1
          <6>3. QED
            BY <6>2 DEF K
        <5>2. QED
          BY <2>2, <4>3, <5>1
      <4>6. reason'[decisions[n]] = 0
        BY <2>w, <3>2, <4>1, <4>4, <4>5
      <4>7. QED
        BY <4>2, <4>6
    <3>4. u <= levelStart'[1]
      BY <1>1, <2>w, <3>2
    <3>5. \A c \in 1 .. Len(db) : c \in 1 .. Len(db') /\ db'[c] = db[c]
      BY <1>2, <3>2, Appended
    <3>6. QED
      BY <2>1, <3>3, <3>4, <3>5, PrefixKept
  <2>9. QED
    BY <2>7, <2>8
<1>8. CASE AddBasicClause \/ FinishAdding
  BY <1>8 DEF AddBasicClause, FinishAdding
<1>9. QED
  BY <1>4, <1>5, <1>6, <1>7, <1>8 DEF SatAction

\* An I-clause of one literal puts one more decision before the unit decisions.
LEMMA PrefixInterval ==
  ASSUME SatInv, SmtTypeOK, PrefixInv, FactsStand, IntervalPropagate
  PROVE  PrefixInv'
<1> DEFINE u == unitDecissions
           F == Forbid(Offenders)
<1>0. pc = "theory" /\ pc' # "adding" /\ pc # "adding"
  BY DEF IntervalPropagate
<1>1. /\ u \in Nat /\ u <= levelStart[1] /\ levelStart[1] \in Nat
      /\ \A n \in 1 .. u : decisions[n] \in Vars /\ value[decisions[n]] # "UNASSIGNED"
                           /\ level[decisions[n]] = 1 /\ reason[decisions[n]] = 0
  BY <1>0, PrefixWhere
<1>2. SatTypeOK /\ decisions \in Seq(Vars)
  BY DEF SatInv, TrailInv, TrailOf
<1>3. CASE UNCHANGED <<decisions, levelStart, reason, unitDecissions>>
  <2>1. \A c \in 1 .. Len(db) : c \in 1 .. Len(db') /\ db'[c] = db[c]
    <3>1. db' = db \/ \E r : db' = Append(db, r)
      BY DEF IntervalPropagate, AddIClause, Attach, AttachUnit, clauseVars
    <3>2. QED
      BY <1>2, <3>1, Appended
  <2>2. \A n \in 1 .. u : decisions'[n] = decisions[n] /\ reason'[decisions[n]] = 0
    BY <1>1, <1>3
  <2>3. u <= levelStart'[1]
    BY <1>1, <1>3
  <2>4. QED
    BY <1>0, <1>3, <2>1, <2>2, <2>3, PrefixKept
<1>4. CASE ~UNCHANGED <<decisions, levelStart, reason, unitDecissions>>
  <2>1. Failures # {} /\ AddIClause(F) /\ Len(F) = 1
    <3>1. Failures = {} => UNCHANGED <<decisions, levelStart, reason, unitDecissions>>
      BY DEF IntervalPropagate, trailVars
    <3>2. AddIClause(F)
      BY <1>4, <3>1 DEF IntervalPropagate
    <3>3. Len(F) # 1 => UNCHANGED <<decisions, levelStart, reason, unitDecissions>>
      BY <3>2 DEF AddIClause, trailVars
    <3>4. QED
      BY <1>4, <3>1, <3>2, <3>3
  <2> DEFINE s == Offenders
             A == F[1]
             v == VarOf(A)
             b == BackTracked(1)
             E == b.decisions
             r == [lits |-> F, list |-> "iFacts"]
  <2>2. s \in Seq(Vars) /\ Once(s)
    BY <1>2, <2>1, OffendersAre
  <2>3. A \in Lits
    <3>1. F \in Seq(Lits)
      <4>1. F = Forbid(s)
        OBVIOUS
      <4> HIDE DEF s, F
      <4>2. QED
        BY <2>2, <4>1, ForbidIs
    <3> HIDE DEF F
    <3>2. QED
      BY <2>1, <3>1, OneOnly
  <2>4. v \in Vars
    BY <2>3, LitFacts
  <2>5. /\ decisions' = InsertAt(E, 1, v)
        /\ levelStart' = [k \in DOMAIN b.levelStart |-> b.levelStart[k] + 1]
        /\ reason' = [b.reason EXCEPT ![v] = 0]
        /\ db' = Append(db, r)
        /\ unitDecissions' = u + 1
    BY <2>1 DEF AddIClause, InsertFact, AttachUnit
  <2>6. r.lits = F /\ r.list = "iFacts"
    OBVIOUS
  <2>8. /\ Len(b.levelStart) = 1 /\ b.levelStart[1] = levelStart[1]
        /\ b.levelStart[1] <= Len(E) /\ Len(E) \in Nat
        /\ \A n \in 1 .. Len(E) : E[n] = decisions[n]
        /\ b.reason \in [Vars -> Nat]
        /\ \A w \in Vars : b.value[w] = IF value[w] # "UNASSIGNED" /\ level[w] > 1 THEN "UNASSIGNED" ELSE value[w]
        /\ \A w \in Vars : b.value[w] # "UNASSIGNED" => b.reason[w] = reason[w]
        /\ TrailOf(E, b.levelStart, b.value, level)
    BY <1>0, LevelOneFacts, Zenon
  <2>9. E \in Seq(Vars) /\ DOMAIN b.levelStart = 1 .. 1
    <3> HIDE DEF b, E
    <3>1. DOMAIN b.levelStart = 1 .. Len(b.levelStart)
      BY <2>8, TrailShape
    <3>2. QED
      BY <2>8, <3>1 DEF TrailOf
  <2> HIDE DEF b, E, v, A, r, F
  <2>10. /\ decisions'[1] = v
         /\ \A n \in 1 .. Len(E) : decisions'[n + 1] = E[n]
    <3> DEFINE I == InsertAt(E, 0 + 1, v)
    <3>1. 0 \in Nat /\ 0 <= Len(E)
      BY <2>8
    <3>2. /\ I[0 + 1] = v
          /\ \A n \in (0 + 1) .. Len(E) : I[n + 1] = E[n]
      BY <2>4, <2>9, <3>1, Inserted, Zenon
    <3>3. decisions' = I /\ 0 + 1 = 1
      BY <2>5
    <3> HIDE DEF I
    <3>4. QED
      BY <3>2, <3>3
  <2>11. /\ \A w \in Vars : w # v => reason'[w] = b.reason[w]
         /\ reason'[v] = 0
    BY <2>4, <2>5, <2>8
  <2>12. Len(db) + 1 \in 1 .. Len(db') /\ db'[Len(db) + 1] = r
         /\ \A c \in 1 .. Len(db) : c \in 1 .. Len(db') /\ db'[c] = db[c]
    BY <1>2, <2>5, Appended
  <2>13. ASSUME NEW n \in 1 .. u + 1
         PROVE  reason'[decisions'[n]] = 0 /\ \E c \in 1 .. Len(db') : Lasting(c)' /\ VarOf(db'[c].lits[1]) = decisions'[n]
    <3>1. CASE n = 1
      <4>1. PICK c \in 1 .. Len(db') : db'[c] = r
        BY <2>12
      <4>2. Lasting(c)' /\ VarOf(db'[c].lits[1]) = v
        BY <2>1, <2>6, <4>1 DEF Lasting, v, A
      <4>3. QED
        BY <2>10, <2>11, <3>1, <4>2
    <3>2. CASE n # 1
      <4> DEFINE m == n - 1
      <4>1. m \in 1 .. u /\ m + 1 = n /\ m \in 1 .. Len(E)
        BY <1>1, <2>8, <3>2
      <4> HIDE DEF m
      <4>2. decisions'[n] = decisions[m]
        BY <2>8, <2>10, <4>1
      <4>3. decisions[m] \in Vars /\ value[decisions[m]] # "UNASSIGNED" /\ level[decisions[m]] = 1 /\ reason[decisions[m]] = 0
        BY <1>1, <4>1
      <4>4. b.reason[decisions[m]] = 0
        <5>1. ~(1 > 1)
          OBVIOUS
        <5>2. b.value[decisions[m]] # "UNASSIGNED"
          BY <2>8, <4>3, <5>1, Zenon
        <5>3. QED
          BY <2>8, <4>3, <5>2
      <4>5. reason'[decisions[m]] = 0
        BY <2>11, <4>3, <4>4
      <4>6. PICK c \in 1 .. Len(db) : Lasting(c) /\ VarOf(db[c].lits[1]) = decisions[m]
        BY <4>1 DEF PrefixInv
      <4>7. c \in 1 .. Len(db') /\ db'[c] = db[c]
        BY <2>12
      <4>8. QED
        BY <4>2, <4>5, <4>6, <4>7 DEF Lasting
    <3>3. QED
      BY <3>1, <3>2
  <2>14. unitDecissions' <= levelStart'[1]
    <3>1. 1 \in DOMAIN b.levelStart
      BY <2>9
    <3>2. levelStart'[1] = levelStart[1] + 1
      BY <2>5, <2>8, <3>1
    <3>3. QED
      BY <1>1, <2>5, <3>2
  <2>15. QED
    BY <1>0, <2>5, <2>13, <2>14 DEF PrefixInv
<1>5. QED
  BY <1>3, <1>4

\* A T-clause of one literal comes after the facts there are.
LEMMA PrefixProbe ==
  ASSUME SatInv, SmtTypeOK, PrefixInv, FactsStand, ProbeFails
  PROVE  PrefixInv'
<1> DEFINE u == unitDecissions
           F == Forbid(decisions)
<1>0. pc = "probing" /\ pc' # "adding" /\ pc # "adding" /\ unitDecissions' = u /\ AddTClause(F)
  BY DEF ProbeFails
<1>1. /\ u \in Nat /\ u <= levelStart[1] /\ levelStart[1] \in Nat
      /\ \A n \in 1 .. u : decisions[n] \in Vars /\ value[decisions[n]] # "UNASSIGNED"
                           /\ level[decisions[n]] = 1 /\ reason[decisions[n]] = 0
  BY <1>0, PrefixWhere
<1>2. SatTypeOK /\ decisions \in Seq(Vars)
  BY DEF SatInv, TrailInv, TrailOf
<1>3. \A c \in 1 .. Len(db) : c \in 1 .. Len(db') /\ db'[c] = db[c]
  <2>1. db' = db \/ \E r : db' = Append(db, r)
    BY <1>0 DEF AddTClause, Attach, AttachUnit, clauseVars
  <2>2. QED
    BY <1>2, <2>1, Appended
<1>4. CASE UNCHANGED <<decisions, levelStart, reason>>
  <2>1. \A n \in 1 .. u : decisions'[n] = decisions[n] /\ reason'[decisions[n]] = 0
    BY <1>1, <1>4
  <2>2. u <= levelStart'[1]
    BY <1>1, <1>4
  <2>3. QED
    BY <1>0, <1>3, <2>1, <2>2, PrefixKept
<1>5. CASE ~UNCHANGED <<decisions, levelStart, reason>>
  <2> DEFINE A == F[1]
             v == VarOf(A)
             b == BackTracked(1)
             E == b.decisions
             P == b.levelStart[1]
  <2>1. Len(F) = 1 /\ InsertFact(b, A, P + 1)
    BY <1>0, <1>5 DEF AddTClause, trailVars
  <2>2. Once(decisions)
    BY <1>2, TrailOnce
  <2>3. A \in Lits
    <3>1. F \in Seq(Lits)
      BY <1>2, <2>2, ForbidIs
    <3> HIDE DEF F
    <3>2. QED
      BY <2>1, <3>1, OneOnly
  <2>4. v \in Vars
    BY <2>3, LitFacts
  <2>5. /\ decisions' = InsertAt(E, P + 1, v)
        /\ levelStart' = [k \in DOMAIN b.levelStart |-> b.levelStart[k] + 1]
        /\ reason' = [b.reason EXCEPT ![v] = 0]
    BY <2>1 DEF InsertFact
  <2>6. /\ Len(b.levelStart) = 1 /\ P = levelStart[1] /\ P <= Len(E) /\ Len(E) \in Nat
        /\ \A n \in 1 .. Len(E) : E[n] = decisions[n]
        /\ b.reason \in [Vars -> Nat]
        /\ \A w \in Vars : b.value[w] = IF value[w] # "UNASSIGNED" /\ level[w] > 1 THEN "UNASSIGNED" ELSE value[w]
        /\ \A w \in Vars : b.value[w] # "UNASSIGNED" => b.reason[w] = reason[w]
        /\ TrailOf(E, b.levelStart, b.value, level)
    BY <1>0, LevelOneFacts, Zenon
  <2>7. E \in Seq(Vars) /\ DOMAIN b.levelStart = 1 .. 1
    <3> HIDE DEF b, E
    <3>1. DOMAIN b.levelStart = 1 .. Len(b.levelStart)
      BY <2>6, TrailShape
    <3>2. QED
      BY <2>6, <3>1 DEF TrailOf
  <2>p. b.levelStart[1] = P
    OBVIOUS
  <2> HIDE DEF b, E, v, A, F, P
  <2>8. P \in Nat /\ \A n \in 1 .. P : decisions'[n] = E[n]
    <3>1. P \in Nat
      BY <1>1, <2>6
    <3> DEFINE I == InsertAt(E, P + 1, v)
    <3>2. \A n \in 1 .. P : I[n] = E[n]
      BY <2>4, <2>6, <2>7, <3>1, Inserted, Zenon
    <3>3. QED
      BY <2>5, <3>1, <3>2
  <2>9. ASSUME NEW n \in 1 .. u PROVE decisions'[n] = decisions[n] /\ reason'[decisions[n]] = 0
    <3>1. n \in 1 .. P /\ n \in 1 .. Len(E)
      BY <1>1, <2>6
    <3>2. decisions'[n] = decisions[n]
      BY <2>6, <2>8, <3>1
    <3>3. decisions[n] \in Vars /\ value[decisions[n]] # "UNASSIGNED" /\ level[decisions[n]] = 1 /\ reason[decisions[n]] = 0
      BY <1>1
    <3>4. b.reason[decisions[n]] = 0
      <4>1. ~(1 > 1)
        OBVIOUS
      <4>2. b.value[decisions[n]] # "UNASSIGNED"
        BY <2>6, <3>3, <4>1, Zenon
      <4>3. QED
        BY <2>6, <3>3, <4>2
    <3>5. reason'[decisions[n]] = 0
      BY <2>4, <2>5, <2>6, <3>3, <3>4
    <3>6. QED
      BY <3>2, <3>5
  <2>10. u <= levelStart'[1]
    <3>1. 1 \in DOMAIN b.levelStart
      BY <2>7
    <3>2. levelStart'[1] = levelStart[1] + 1
      BY <2>5, <2>6, <2>p, <3>1
    <3>3. QED
      BY <1>1, <3>2
  <2>11. QED
    BY <1>0, <1>3, <2>9, <2>10, PrefixKept
<1>6. QED
  BY <1>4, <1>5

\* The other steps change neither the trail nor the clauses.
LEMMA PrefixStays ==
  ASSUME PrefixInv, UNCHANGED <<decisions, levelStart, reason, db, unitDecissions>>, pc' = "adding" <=> pc = "adding"
  PROVE  PrefixInv'
BY DEF PrefixInv, Lasting

-----------------------------------------------------------------------------
(* Every step keeps the invariant *)

\* The theory's own variables keep their types.
LEMMA SmtTypes ==
  ASSUME SmtTypeOK, SatInv, SatInv', SmtNext
  PROVE  SmtTypeOK'
<1>1. decisions \in Seq(Vars) /\ Len(decisions') \in Nat
  BY DEF SatInv, TrailInv, TrailOf
<1>2. Compiled \in [Vars -> {"none", "plain", "negated"}]
  BY DEF Compiled, SmtTypeOK
<1>3. CASE SatStep
  BY <1>1, <1>3 DEF SatStep, SmtTypeOK
<1>4. CASE IntervalPropagate
  <2> DEFINE n == IF Failures = {} THEN 1 ELSE FirstFailure
  <2>1. n \in 1 .. Len(decisions) + 1
    <3>1. Len(decisions) \in Nat
      BY <1>1
    <3>2. CASE Failures = {}
      BY <3>1, <3>2
    <3>3. CASE Failures # {}
      <4>1. FirstFailure \in 1 .. Len(decisions)
        BY <1>1, <3>3, FirstFailureIs
      <4>2. QED
        BY <3>1, <3>3, <4>1
    <3>4. QED
      BY <3>2, <3>3
  <2> HIDE DEF n
  <2>2. RangeAfter[n] \in Ranges
    BY <1>1, <2>1, RangesHold
  <2>3. globalRanges' \in [lo : Nat, hi : Nat]
    BY <1>4, <2>2 DEF IntervalPropagate, n, Ranges
  <2>4. unitDecissions' \in Nat
    <3>1. unitDecissions' = unitDecissions \/ unitDecissions' = unitDecissions + 1
      BY <1>4 DEF IntervalPropagate, AddIClause
    <3>2. QED
      BY <3>1 DEF SmtTypeOK
  <2>5. UNCHANGED <<theory, useIntervalProp, negativeTerm>>
    BY <1>4 DEF IntervalPropagate
  <2>6. QED
    BY <2>3, <2>4, <2>5 DEF SmtTypeOK
<1>5. CASE NoIntervals \/ TimeUp \/ SolveAgain \/ NoResult
  <2>1. UNCHANGED <<theory, useIntervalProp, globalRanges, unitDecissions, negativeTerm>>
    BY <1>5 DEF NoIntervals, TimeUp, SolveAgain, NoResult, theoryVars
  <2>2. QED
    BY <2>1 DEF SmtTypeOK
<1>6. CASE ProbeFinds \/ ProbeFails
  <2>1. UNCHANGED <<theory, useIntervalProp, globalRanges, unitDecissions>> /\ negativeTerm' = Compiled
    BY <1>6 DEF ProbeFinds, ProbeFails
  <2>2. QED
    BY <1>2, <2>1 DEF SmtTypeOK
<1>7. QED
  BY <1>3, <1>4, <1>5, <1>6 DEF SmtNext, SmtAction

\* The unit decisions stay the beginning of the trail.
LEMMA PrefixStep ==
  ASSUME SatInv, SmtTypeOK, PrefixInv, FactsStand, SmtNext
  PROVE  PrefixInv'
<1>1. CASE SatStep /\ pc = "adding"
  <2>1. AddBasicClause \/ FinishAdding
    BY <1>1 DEF SatStep, SatAction, NextDecision, SkipWatcher, MoveWatcher, Imply, Conflict, NeedsWatch, Visiting,
                InspectReason, Learn, Decide, AnswerTrue
  <2>2. unitDecissions' = Len(decisions')
    BY <1>1 DEF SatStep
  <2>3. QED
    BY <2>1, <2>2, PrefixAdding DEF SmtNext
<1>2. CASE SatStep /\ pc # "adding"
  <2>1. SatAction /\ unitDecissions' = unitDecissions
    BY <1>2 DEF SatStep
  <2>2. QED
    BY <1>2, <2>1, PrefixSearched
<1>3. CASE IntervalPropagate
  BY <1>3, PrefixInterval
<1>4. CASE ProbeFails
  BY <1>4, PrefixProbe
<1>5. CASE SolveAgain
  BY <1>5, SolveAgainPrefix
<1>6. CASE NoIntervals \/ ProbeFinds \/ TimeUp \/ NoResult
  <2>1. UNCHANGED <<decisions, levelStart, reason, db, unitDecissions>>
    BY <1>6 DEF NoIntervals, ProbeFinds, TimeUp, NoResult, theoryVars, trailVars, clauseVars
  <2>2. pc # "adding" /\ pc' # "adding"
    BY <1>6 DEF NoIntervals, ProbeFinds, TimeUp, NoResult
  <2>3. QED
    BY <2>1, <2>2, PrefixStays
<1>7. QED
  BY <1>1, <1>2, <1>3, <1>4, <1>5, <1>6 DEF SmtNext, SmtAction

\* The answer is there when solve() has returned, and the crash is that of a probe that never ran.
LEMMA OutcomeStep ==
  ASSUME SatInv, OutcomeInv, SmtNext
  PROVE  OutcomeInv' /\ (answer' = "TRUE" => AnswerTrue \/ ProbeFinds)
<1>1. CASE SatStep
  <2>1. SatAction /\ r1' = r1
    BY <1>1 DEF SatStep
  <2>2. CASE AddBasicClause \/ FinishAdding \/ NextDecision \/ SkipWatcher \/ MoveWatcher \/ Imply \/ Learn \/ Decide
    <3>1. answer' = answer /\ pc \notin {"done", "crashed"} /\ pc' \notin {"done", "crashed"}
      <4>1. CASE AddBasicClause \/ FinishAdding \/ NextDecision
        BY <4>1 DEF AddBasicClause, FinishAdding, NextDecision
      <4>2. CASE SkipWatcher \/ MoveWatcher \/ Imply
        BY <4>2 DEF SkipWatcher, MoveWatcher, Imply, NeedsWatch, Visiting
      <4>3. CASE Learn
        BY <4>3, LearntIsAdded DEF AddLearnt
      <4>5. CASE Decide
        BY <4>5 DEF Decide
      <4>4. QED
        BY <2>2, <4>1, <4>2, <4>3, <4>5
    <3>2. QED
      BY <3>1 DEF OutcomeInv
  <2>3. CASE Conflict
    <3>1. pc = "propagating" /\ ((pc' = "done" /\ answer' = "FALSE") \/ (pc' = "analysing" /\ answer' = answer))
      BY <2>3 DEF Conflict, NeedsWatch, Visiting
    <3>2. QED
      BY <3>1 DEF OutcomeInv
  <2>4. CASE InspectReason
    <3>1. pc = "analysing" /\ pc' \in {"analysing", "learning", "crashed"} /\ answer' = answer
      BY <2>4 DEF InspectReason
    <3>2. pc' # "crashed"
      BY <2>4, InspectReasonKeeps DEF SmtNext
    <3>3. QED
      BY <3>1, <3>2 DEF OutcomeInv
  <2>5. CASE AnswerTrue
    <3>1. pc' = "done" /\ answer' = "TRUE"
      BY <2>5 DEF AnswerTrue
    <3>2. QED
      BY <2>5, <3>1 DEF OutcomeInv
  <2>6. QED
    BY <2>1, <2>2, <2>3, <2>4, <2>5 DEF SatAction
<1>2. CASE IntervalPropagate
  <2>1. pc = "theory" /\ pc' \in {"probing", "propagating"} /\ answer' = answer
    BY <1>2 DEF IntervalPropagate
  <2>2. QED
    BY <2>1 DEF OutcomeInv
<1>3. CASE NoIntervals
  <2>1. pc = "theory" /\ pc' = "probing" /\ answer' = answer
    BY <1>3 DEF NoIntervals
  <2>2. QED
    BY <2>1 DEF OutcomeInv
<1>4. CASE ProbeFinds
  <2>1. pc = "probing" /\ ((pc' = "done" /\ answer' = "TRUE") \/ (pc' = "deciding" /\ answer' = answer))
    BY <1>4 DEF ProbeFinds
  <2>2. QED
    BY <1>4, <2>1 DEF OutcomeInv
<1>5. CASE ProbeFails
  <2>1. pc = "probing" /\ pc' = "propagating" /\ answer' = answer
    BY <1>5 DEF ProbeFails
  <2>2. QED
    BY <2>1 DEF OutcomeInv
<1>6. CASE TimeUp
  <2>1. pc' = "done" /\ answer' = "TIMEOUT"
    BY <1>6 DEF TimeUp
  <2>2. QED
    BY <2>1 DEF OutcomeInv
<1>7. CASE SolveAgain
  <2>1. pc' = "propagating" /\ answer' = "none"
    BY <1>7 DEF SolveAgain
  <2>2. QED
    BY <2>1 DEF OutcomeInv
<1>8. CASE NoResult
  <2>1. pc' = "crashed" /\ answer' = answer /\ answer \in {"FALSE", "TIMEOUT"} /\ r1 = Null /\ r1' = r1
    BY <1>8 DEF NoResult, theoryVars
  <2>2. QED
    BY <2>1 DEF OutcomeInv
<1>9. QED
  BY <1>1, <1>2, <1>3, <1>4, <1>5, <1>6, <1>7, <1>8 DEF SmtNext, SmtAction

\* A point gradient descent finds meets every decision, if each is compiled as it is decided.
LEMMA FoundMeets ==
  ASSUME SatInv, SmtTypeOK, r1' \in Feasible, \A v \in Vars : Compiled[v] # "plain",
         NEW n \in 1 .. Len(decisions)
  PROVE  r1' \in Solutions(TrueLit(decisions[n]))
<1> DEFINE v == decisions[n]
<1>1. decisions \in Seq(Vars)
  BY DEF SatInv, TrailInv, TrailOf
<1>2. v \in Vars /\ v \in ToSet(decisions)
  BY <1>1, ToSetIs
<1> HIDE DEF v
<1>3. r1' \in Probed(v)
  BY <1>2 DEF Feasible
<1>4. Solutions(v) = theory[v] /\ Solutions(-v) = Points \ theory[v]
  BY <1>2, Complement DEF SmtTypeOK
<1>5. CASE value[v] = "TRUE"
  <2>1. TrueLit(v) = v /\ Probed(v) = theory[v]
    BY <1>5 DEF TrueLit, Probed
  <2>2. QED
    BY <1>3, <1>4, <2>1 DEF v
<1>6. CASE value[v] # "TRUE"
  <2>1. TrueLit(v) = -v
    BY <1>6 DEF TrueLit
  <2>2. Compiled[v] # "plain"
    BY <1>2
  <2>3. Probed(v) = Points \ theory[v]
    BY <1>6, <2>2, Zenon DEF Probed
  <2>4. QED
    BY <1>3, <1>4, <2>1, <2>3 DEF v
<1>7. QED
  BY <1>5, <1>6

\* The point found goes on meeting the trail while the search has not moved on.
LEMMA MetStep ==
  ASSUME SatInv, SmtTypeOK, OutcomeInv, MetInv, SmtNext
  PROVE  MetInv'
<1> SUFFICES ASSUME pc' = "deciding" \/ answer' = "TRUE", withTheory', \A v \in Vars : negativeTerm'[v] # "plain",
                    NEW n \in 1 .. Len(decisions')
             PROVE  (r1 \in Solutions(TrueLit(decisions[n])))'
  BY DEF MetInv
<1>1. ProbeFinds \/ (AnswerTrue /\ SatStep)
  <2>1. CASE answer' = "TRUE"
    <3>1. AnswerTrue \/ ProbeFinds
      BY <2>1, OutcomeStep
    <3>2. AnswerTrue => SatStep
      <4>1. AnswerTrue => pc = "deciding" /\ answer' = "TRUE"
        BY DEF AnswerTrue
      <4>2. IntervalPropagate => pc = "theory"
        BY DEF IntervalPropagate
      <4>3. NoIntervals => pc = "theory"
        BY DEF NoIntervals
      <4>4. ProbeFinds => pc = "probing"
        BY DEF ProbeFinds
      <4>5. ProbeFails => pc = "probing"
        BY DEF ProbeFails
      <4>6. TimeUp => answer' = "TIMEOUT"
        BY DEF TimeUp
      <4>7. SolveAgain => pc = "done"
        BY DEF SolveAgain
      <4>8. NoResult => pc = "done"
        BY DEF NoResult
      <4>9. QED
        BY <4>1, <4>2, <4>3, <4>4, <4>5, <4>6, <4>7, <4>8 DEF SmtNext, SmtAction
    <3>3. QED
      BY <3>1, <3>2
  <2>2. CASE pc' = "deciding"
    <3>1. ~SatStep
      <4> SUFFICES ASSUME SatAction PROVE FALSE
        BY DEF SatStep
      <4>1. ~NextDecision
        BY <2>2 DEF NextDecision, formulaVars
      <4>2. ~(AddBasicClause \/ FinishAdding \/ Learn \/ Decide \/ AnswerTrue)
        BY <2>2, LearntIsAdded DEF AddBasicClause, FinishAdding, AddLearnt, Decide, AnswerTrue
      <4>3. ~(SkipWatcher \/ MoveWatcher \/ Imply)
        BY <2>2 DEF SkipWatcher, MoveWatcher, Imply, NeedsWatch, Visiting
      <4>4. ~Conflict
        BY <2>2 DEF Conflict
      <4>5. ~InspectReason
        BY <2>2 DEF InspectReason
      <4>6. QED
        BY <4>1, <4>2, <4>3, <4>4, <4>5 DEF SatAction
    <3>2. ~(IntervalPropagate \/ NoIntervals \/ ProbeFails \/ TimeUp \/ SolveAgain \/ NoResult)
      <4>1. ~IntervalPropagate
        BY <2>2 DEF IntervalPropagate
      <4>2. ~(NoIntervals \/ ProbeFails \/ TimeUp \/ SolveAgain \/ NoResult)
        BY <2>2 DEF NoIntervals, ProbeFails, TimeUp, SolveAgain, NoResult
      <4>3. QED
        BY <4>1, <4>2
    <3>3. QED
      BY <3>1, <3>2 DEF SmtNext, SmtAction
  <2>3. QED
    BY <2>1, <2>2
<1>2. CASE ProbeFinds
  <2>1. UNCHANGED <<decisions, value, theory>> /\ r1' \in Feasible /\ negativeTerm' = Compiled
    BY <1>2 DEF ProbeFinds, trailVars
  <2>2. n \in 1 .. Len(decisions)
    BY <2>1
  <2>3. r1' \in Solutions(TrueLit(decisions[n]))
    BY <2>1, <2>2, FoundMeets
  <2>4. QED
    BY <2>1, <2>3 DEF Solutions, TrueLit
<1>3. CASE AnswerTrue /\ SatStep
  <2>1. UNCHANGED <<decisions, value, theory, negativeTerm, r1, withTheory>> /\ pc = "deciding"
    BY <1>3 DEF AnswerTrue, SatStep, trailVars, formulaVars
  <2>2. n \in 1 .. Len(decisions) /\ withTheory /\ \A v \in Vars : negativeTerm[v] # "plain"
    BY <2>1
  <2>3. r1 \in Solutions(TrueLit(decisions[n]))
    BY <2>1, <2>2 DEF MetInv
  <2>4. QED
    BY <2>1, <2>3 DEF Solutions, TrueLit
<1>4. QED
  BY <1>1, <1>2, <1>3

\* The theory touches no mark.
LEMMA SmtMarks == SatInv /\ MarksInv /\ SmtNext => MarksInv'
<1> SUFFICES ASSUME SatInv, MarksInv, SmtNext PROVE MarksInv'
  OBVIOUS
<1>1. Remember
  BY DEF SmtNext
<1>2. CASE SatStep
  BY <1>1, <1>2, MarksInvKeeps DEF SatStep, SatNext
<1>3. ASSUME UNCHANGED seen, pc \notin {"analysing", "learning"} PROVE MarksInv'
  BY <1>1, <1>3 DEF MarksInv, Remember
<1>4. CASE IntervalPropagate
  BY <1>3, <1>4 DEF IntervalPropagate, satVars, solverState, searchVars
<1>5. CASE NoIntervals \/ ProbeFinds
  BY <1>3, <1>5 DEF NoIntervals, ProbeFinds, satVars, solverState, searchVars
<1>6. CASE ProbeFails
  BY <1>3, <1>6 DEF ProbeFails, satVars, solverState, searchVars
<1>7. CASE SolveAgain \/ NoResult
  BY <1>3, <1>7 DEF SolveAgain, NoResult, satVars, solverState, searchVars
<1>8. CASE TimeUp
  <2>1. UNCHANGED seen /\ (pc = "analysing" => analysis.p = 0) /\ pc # "learning"
    BY <1>8 DEF TimeUp, searchVars
  <2>2. pc = "analysing" /\ clean => seen = {}
    BY <2>1 DEF SatInv, AnalysisInv, Exact
  <2>3. QED
    BY <1>1, <2>1, <2>2 DEF MarksInv, Remember
<1>9. QED
  BY <1>2, <1>4, <1>5, <1>6, <1>7, <1>8 DEF SmtNext, SmtAction

\* As long as no fact is set anew, every step of the loop around the solver keeps the invariant.
LEMMA SmtStepKeeps == SmtInv /\ FactsStand /\ FactsStand' /\ [SmtNext]_smtVars => SmtInv'
<1> SUFFICES ASSUME SmtInv, FactsStand, FactsStand', [SmtNext]_smtVars PROVE SmtInv'
  OBVIOUS
<1>0. SatInv /\ MarksInv /\ SmtTypeOK /\ PrefixInv /\ MetInv /\ OutcomeInv
  BY DEF SmtInv
<1>1. CASE SmtNext
  <2>1. SatInv'
    <3>r. Remember
      BY <1>1 DEF SmtNext
    <3>1. CASE SatStep
      BY <1>0, <3>1, <3>r, SatStepKeeps DEF SatStep, SatNext
    <3>2. CASE IntervalPropagate
      BY <1>0, <3>2, <3>r, IntervalPropagateKeeps
    <3>3. CASE NoIntervals
      BY <1>0, <3>3, <3>r, NoIntervalsKeeps
    <3>4. CASE ProbeFinds
      BY <1>0, <3>4, <3>r, ProbeFindsKeeps
    <3>5. CASE ProbeFails
      BY <1>0, <3>5, <3>r, ProbeFailsKeeps
    <3>6. CASE TimeUp
      BY <1>0, <3>6, <3>r, TimeUpKeeps
    <3>7. CASE SolveAgain
      BY <1>0, <3>7, SolveAgainKeeps
    <3>8. CASE NoResult
      BY <1>0, <3>8, <3>r, NoResultKeeps
    <3>9. QED
      BY <1>1, <3>1, <3>2, <3>3, <3>4, <3>5, <3>6, <3>7, <3>8 DEF SmtNext, SmtAction
  <2>2. SmtTypeOK'
    BY <1>0, <1>1, <2>1, SmtTypes
  <2>3. PrefixInv'
    BY <1>0, <1>1, PrefixStep
  <2>4. OutcomeInv'
    BY <1>0, <1>1, OutcomeStep
  <2>5. MetInv'
    BY <1>0, <1>1, MetStep
  <2>6. MarksInv'
    BY <1>0, <1>1, SmtMarks
  <2>7. QED
    BY <2>1, <2>2, <2>3, <2>4, <2>5, <2>6 DEF SmtInv
<1>2. CASE UNCHANGED smtVars
  <2>1. UNCHANGED satVars /\ UNCHANGED theoryVars
    BY <1>2 DEF smtVars
  <2>2. UNCHANGED <<decisions, levelStart, reason, db, value, pc, answer, withTheory>>
    BY <2>1 DEF satVars, solverState, trailVars, clauseVars, formulaVars
  <2>3. UNCHANGED <<theory, useIntervalProp, globalRanges, unitDecissions, r1, negativeTerm>>
    BY <2>1 DEF theoryVars
  <2>4. SatInv'
    BY <1>0, <2>1, StutterKeeps
  <2>5. SmtTypeOK'
    BY <1>0, <2>3 DEF SmtTypeOK
  <2>6. PrefixInv'
    BY <1>0, <2>2, <2>3, PrefixStays
  <2>7. MetInv'
    <3>1. MetInv
      BY <1>0
    <3>2. QED
      BY <2>2, <2>3, <3>1 DEF MetInv, Solutions, TrueLit
  <2>8. OutcomeInv'
    BY <1>0, <2>2, <2>3 DEF OutcomeInv
  <2>9. MarksInv'
    BY <1>0, <2>1 DEF MarksInv, satVars, solverState, searchVars
  <2>10. QED
    BY <2>4, <2>5, <2>6, <2>7, <2>8, <2>9 DEF SmtInv
<1>3. QED
  BY <1>1, <1>2

\* The invariant holds when solve() is called for the first time.
LEMMA SmtInitIsInv == SmtInit => SmtInv
<1> SUFFICES ASSUME SmtInit PROVE SmtInv
  OBVIOUS
<1>1. SatInit /\ SatInv
  BY InitIsInv DEF SmtInit
<1>2. SmtTypeOK
  <2>1. Lowest(Points) \in Nat
    BY TheoryAssumption, LowestIs
  <2>2. Highest(Points) \in Nat
    <3>1. PICK n \in Nat : \A x \in Points : x <= n
      BY PointsBounded
    <3>2. Highest(Points) \in Points
      BY <3>1, TheoryAssumption, HighestIs
    <3>3. QED
      BY <3>2, TheoryAssumption
  <2>3. globalRanges \in [lo : Nat, hi : Nat]
    BY <2>1, <2>2 DEF SmtInit
  <2>4. theory \in [Vars -> SUBSET Points] /\ useIntervalProp \in BOOLEAN
    BY TheoryAssumption DEF SmtInit
  <2>5. unitDecissions \in Nat /\ negativeTerm \in [Vars -> {"none", "plain", "negated"}]
    BY DEF SmtInit
  <2>6. QED
    BY <2>3, <2>4, <2>5 DEF SmtTypeOK
<1>3. pc = "adding" /\ decisions = <<>> /\ unitDecissions = 0 /\ answer = "none"
  BY DEF SmtInit, SatInit
<1>4. PrefixInv
  <2>1. Len(<<>>) = 0 /\ 1 .. 0 = {}
    OBVIOUS
  <2>2. QED
    BY <1>3, <2>1 DEF PrefixInv
<1>5. MetInv /\ OutcomeInv
  BY <1>3 DEF MetInv, OutcomeInv
<1>6. MarksInv
  BY <1>1 DEF SatInit, MarksInv
<1>7. QED
  BY <1>1, <1>2, <1>4, <1>5, <1>6 DEF SmtInv

\* As long as facts have stood they stand, and so does the invariant.
LEMMA StoodStep ==
  (stood => SmtInv /\ FactsStand) /\ [SmtNext]_smtVars => (stood' => stood /\ SmtInv' /\ FactsStand')
<1> SUFFICES ASSUME stood => SmtInv /\ FactsStand, [SmtNext]_smtVars, stood' PROVE stood /\ SmtInv' /\ FactsStand'
  OBVIOUS
<1>1. stood /\ FactsStand'
  <2>1. CASE SmtNext
    BY <2>1 DEF SmtNext
  <2>2. CASE UNCHANGED smtVars
    <3>1. UNCHANGED <<stood, db, value, decisions>>
      BY <2>2 DEF smtVars, satVars, solverState, clauseVars, trailVars
    <3>2. QED
      BY <3>1 DEF FactsStand, IsTrue
  <2>3. QED
    BY <2>1, <2>2
<1>2. QED
  BY <1>1, SmtStepKeeps

\* The SAT solver's invariant stands with a theory too, whatever the theory refuses, is asked again,
\* or gives up on, and whatever memory left in Var::seen: in every behaviour, for as long as no
\* variable of level 0 has been set anew.
THEOREM SmtInvariant == SmtSpec => [](stood => SmtInv /\ FactsStand)
<1> DEFINE Inv == stood => SmtInv /\ FactsStand
<1>1. SmtInit => Inv
  <2>1. SmtInit => FactsStand
    <3> SUFFICES ASSUME SmtInit PROVE FactsStand
      OBVIOUS
    <3>1. DOMAIN db = {} /\ DOMAIN decisions = {}
      BY DEF SmtInit, SatInit
    <3>2. QED
      BY <3>1 DEF FactsStand
  <2>2. QED
    BY <2>1, SmtInitIsInv
<1>2. Inv /\ [SmtNext]_smtVars => Inv'
  BY StoodStep
<1>3. QED
  <2> HIDE DEF Inv
  <2>1. SmtSpec => []Inv
    BY <1>1, <1>2, PTL DEF SmtSpec
  <2>2. QED
    BY <2>1 DEF Inv

\* The point that is found meets the literals the trail makes true.
LEMMA InvSolutionFits == SmtInv => SolutionFits
<1> SUFFICES ASSUME SmtInv, withTheory, answer = "TRUE", \A v \in Vars : negativeTerm[v] # "plain", NEW c \in Accepted
             PROVE  \E l \in ToSet(db[c].lits) : r1 \in Solutions(l)
  BY DEF SolutionFits
<1>0. SatInv /\ MetInv /\ OutcomeInv /\ SmtTypeOK
  BY DEF SmtInv
<1>1. pc = "done"
  BY <1>0 DEF OutcomeInv
<1>2. PICK l \in ToSet(db[c].lits) : IsTrue(l)
  BY <1>0, <1>1 DEF SatInv, AnswerInv
<1>3. l \in Lits
  <2>1. c \in DOMAIN db /\ db \in Seq(ClauseRecords)
    BY <1>0 DEF SatInv, SatTypeOK, Accepted, Clauses
  <2>2. QED
    BY <2>1, Literals
<1> DEFINE v == VarOf(l)
<1>4. v \in Vars /\ value[v] = SignOf(l) /\ SignOf(l) # "UNASSIGNED"
  BY <1>2, <1>3, LitFacts DEF IsTrue
<1>5. \E n \in 1 .. Len(decisions) : decisions[n] = v
  <2>1. TrailOf(decisions, levelStart, value, level)
    BY <1>0 DEF SatInv, TrailInv
  <2>2. QED
    BY <1>4, <2>1, TrailHas
<1>6. TrueLit(v) = l
  <2>1. CASE l < 0
    <3>1. v = -l /\ value[v] = "FALSE"
      BY <1>4, <2>1 DEF VarOf, SignOf
    <3>2. -(-l) = l
      BY <1>3, SatAssumption DEF Lits
    <3>3. QED
      BY <3>1, <3>2 DEF TrueLit
  <2>2. CASE ~(l < 0)
    BY <1>4, <2>2 DEF VarOf, SignOf, TrueLit
  <2>3. QED
    BY <2>1, <2>2
<1>7. r1 \in Solutions(TrueLit(v))
  BY <1>0, <1>5 DEF MetInv
<1>8. QED
  BY <1>6, <1>7

\* When solve() returns true, the point of gradient descent makes a literal of every clause true: the
\* point belongs to the trail that is there at the end, and no flag calls a clause satisfied that is
\* not. It holds in every behaviour for as long as no variable of level 0 has been set anew.
THEOREM SolutionFitsAlways == SmtSpec => [](stood => SolutionFits)
<1>1. (stood => SmtInv /\ FactsStand) => (stood => SolutionFits)
  BY InvSolutionFits
<1>2. QED
  BY <1>1, SmtInvariant, PTL

\* With a theory, too, the reasons of the trail explain it and a TRUE answer satisfies every clause,
\* whatever marks memory left; and while no analysis began with such a mark, what is learnt follows
\* from the clauses and what the theory added, and solve() returns false only when no assignment
\* satisfies those. It holds in every behaviour for as long as no fact has been set anew.
THEOREM SmtSearchRight ==
  SmtSpec => [](stood => LearntFollows /\ AnswerRight /\ \A n \in DOMAIN decisions : Explained(n))
<1> DEFINE Right == LearntFollows /\ AnswerRight /\ \A n \in DOMAIN decisions : Explained(n)
<1>1. SmtInv => LearntFollows
  BY InvLearntFollows DEF SmtInv
<1>2. SmtInv => AnswerRight
  BY DEF SmtInv, SatInv, AnswerInv, Sure, AnswerRight
<1>3. SmtInv => \A n \in DOMAIN decisions : Explained(n)
  BY InvExplains DEF SmtInv
<1>4. (stood => SmtInv /\ FactsStand) => (stood => Right)
  BY <1>1, <1>2, <1>3
<1>5. QED
  <2> HIDE DEF Right
  <2>1. SmtSpec => [](stood => Right)
    BY <1>4, SmtInvariant, PTL
  <2>2. QED
    BY <2>1 DEF Right

\* As long as no fact has been set anew, the only thing that crashes is the dereference of a result
\* gradient descent never gave: no analysis runs off the trail or into a variable without a reason,
\* whatever marks memory left.
THEOREM OnlyNoResultCrashes == SmtSpec => [](stood /\ pc = "crashed" => r1 = Null /\ answer # "TRUE")
<1>1. (stood => SmtInv /\ FactsStand) => (stood /\ pc = "crashed" => r1 = Null /\ answer # "TRUE")
  BY DEF SmtInv, OutcomeInv
<1>2. QED
  BY <1>1, SmtInvariant, PTL

\* A clause of the interval propagator comes from it.
LEMMA OnlyIntervals ==
  ASSUME SmtInv, [SmtNext]_smtVars, NEW c \in DOMAIN db' \ DOMAIN db, db'[c].list \in {"iClauses", "iFacts"}
  PROVE  /\ decisions \in Seq(Vars) /\ SmtTypeOK
         /\ IntervalPropagate /\ Failures # {} /\ db'[c].lits = Forbid(Offenders)
<1>0. SatInv /\ SatTypeOK /\ WatchInv /\ ClauseInv /\ SmtTypeOK /\ decisions \in Seq(Vars)
  BY DEF SmtInv, SatInv, TrailInv, TrailOf
<1>1. db \in Seq(ClauseRecords) /\ DOMAIN db = 1 .. Len(db) /\ Len(db) \in Nat
  BY <1>0, SeenTypes
<1>2. ASSUME DOMAIN db' = DOMAIN db PROVE FALSE
  BY <1>2
<1>3. ASSUME NEW lits, NEW list, db' = Append(db, [lits |-> lits, list |-> list])
      PROVE  db'[c].lits = lits /\ db'[c].list = list
  <2> DEFINE r == [lits |-> lits, list |-> list]
  <2>0. r.lits = lits /\ r.list = list
    OBVIOUS
  <2> HIDE DEF r
  <2>1. db' = Append(db, r)
    BY <1>3 DEF r
  <2>2. db'[Len(db) + 1] = r /\ DOMAIN db' = 1 .. Len(db) + 1
    BY <1>1, <2>1
  <2>3. c = Len(db) + 1
    BY <1>1, <2>2
  <2>4. QED
    BY <2>0, <2>2, <2>3
<1>4. CASE SatStep
  <2>1. CASE AddBasicClause \/ Learn
    <3>1. UNCHANGED db \/ \E lits, list : list \in {"clauses", "satClauses", "facts"}
                                          /\ db' = Append(db, [lits |-> lits, list |-> list])
      <4>1. CASE AddBasicClause
        BY <4>1 DEF AddBasicClause, Attach, AttachUnit, clauseVars
      <4>2. CASE Learn
        BY <1>0, <4>2, LearntIsAdded DEF AddLearnt, Attach, AttachUnit
      <4>3. QED
        BY <2>1, <4>1, <4>2
    <3>2. QED
      BY <1>2, <1>3, <3>1
  <2>2. CASE Decide
    <3>1. ReduceDB \/ UNCHANGED <<db, watchList>>
      BY <2>2 DEF Decide
    <3>2. Len(db') = Len(db) /\ db' \in Seq(ClauseRecords)
      BY <1>0, <3>1, Reduced
    <3>3. DOMAIN db' = DOMAIN db
      BY <1>1, <3>2
    <3>4. QED
      BY <1>2, <3>3
  <2>3. CASE FinishAdding \/ NextDecision \/ SkipWatcher \/ MoveWatcher \/ Imply \/ Conflict \/ InspectReason \/ AnswerTrue
    <3>1. UNCHANGED db
      BY <2>3 DEF FinishAdding, NextDecision, SkipWatcher, MoveWatcher, Imply, Conflict, InspectReason, AnswerTrue, clauseVars
    <3>2. QED
      BY <1>2, <3>1
  <2>4. QED
    BY <1>4, <2>1, <2>2, <2>3 DEF SatStep, SatAction
<1>5. CASE NoIntervals \/ ProbeFinds \/ TimeUp \/ NoResult \/ UNCHANGED smtVars
  <2>1. UNCHANGED db
    BY <1>5 DEF NoIntervals, ProbeFinds, TimeUp, NoResult, smtVars, satVars, solverState, clauseVars
  <2>2. QED
    BY <1>2, <2>1
<1>6. CASE SolveAgain
  <2> DEFINE cs == UNION {Clauses(list) : list \in {"satClauses", "facts", "tClauses", "tFacts"}}
  <2>1. Detach(cs)
    <3> HIDE DEF cs
    <3> QED BY <1>6 DEF SolveAgain, cs
  <2>2. cs \in SUBSET DOMAIN db
    BY DEF Clauses
  <2> HIDE DEF cs
  <2>3. Len(db') = Len(db) /\ db' \in Seq(ClauseRecords)
    BY <1>0, <2>1, <2>2, Detached
  <2>4. DOMAIN db' = DOMAIN db
    BY <1>1, <2>3
  <2>5. QED
    BY <1>2, <2>4
<1>7. CASE ProbeFails
  <2>1. UNCHANGED db \/ \E lits, list : list \in {"tClauses", "tFacts"} /\ db' = Append(db, [lits |-> lits, list |-> list])
    BY <1>7 DEF ProbeFails, AddTClause, Attach, AttachUnit, clauseVars
  <2>2. QED
    BY <1>2, <1>3, <2>1
<1>8. CASE IntervalPropagate
  <2>1. CASE Failures = {}
    <3>1. UNCHANGED db
      BY <1>8, <2>1 DEF IntervalPropagate, clauseVars
    <3>2. QED
      BY <1>2, <3>1
  <2>2. CASE Failures # {}
    <3> DEFINE F == Forbid(Offenders)
    <3>1. AddIClause(F)
      BY <1>8, <2>2 DEF IntervalPropagate
    <3> HIDE DEF F
    <3>2. \E list : db' = Append(db, [lits |-> F, list |-> list])
      BY <3>1 DEF AddIClause, Attach, AttachUnit
    <3>3. db'[c].lits = F
      BY <1>3, <3>2
    <3>4. QED
      BY <1>0, <1>8, <2>2, <3>3 DEF F
  <2>3. QED
    BY <2>1, <2>2
<1>9. QED
  BY <1>4, <1>5, <1>6, <1>7, <1>8 DEF SmtNext, SmtAction

\* Whatever the interval propagator refuses is refused rightly: within the ranges of its call no point
\* meets all the decisions its new clause forbids, for as long as no fact has been set anew.
THEOREM OffendersClashAlways == SmtSpec => [][stood => RefusedRightly]_smtVars
<1>1. (stood => SmtInv /\ FactsStand) /\ [SmtNext]_smtVars => (stood => RefusedRightly)
  <2> SUFFICES ASSUME SmtInv, FactsStand, [SmtNext]_smtVars, NEW c \in DOMAIN db' \ DOMAIN db,
                      db'[c].list \in {"iClauses", "iFacts"}
               PROVE  \A x \in Within(globalRanges) : \E l \in ToSet(db'[c].lits) : x \in Solutions(l)
    BY DEF RefusedRightly
  <2>1. decisions \in Seq(Vars) /\ SmtTypeOK /\ Failures # {} /\ db'[c].lits = Forbid(Offenders)
    BY OnlyIntervals
  <2>2. QED
    BY <2>1, OffendersRefused
<1>2. QED
  BY <1>1, SmtInvariant, PTL DEF SmtSpec

=============================================================================
