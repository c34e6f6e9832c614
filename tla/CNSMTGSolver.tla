--------------------------- MODULE CNSMTGSolver ---------------------------
(***************************************************************************)
(* CNSMTGSolver::solve: the SAT solver proposes a set of constraints, the  *)
(* interval propagator and then gradient descent look for a point that     *)
(* meets them, and their refusals go back into the SAT solver as I-clauses *)
(* and T-clauses. One real variable stands for all of them: it ranges over *)
(* Points, and a SAT variable stands for the constraint that holds in      *)
(* theory[v] and nowhere else.                                             *)
(***************************************************************************)
EXTENDS CNSat

CONSTANTS
  Points,        \* the values of the real variable, natural numbers
  Theories,      \* the constraints: functions from Vars to sets of points
  IntervalUses,  \* the values of useIntervalProp to consider
  MaxClauses,    \* bound: the clauses there may be when the theory adds one
  MaxAttempts    \* bound: how often solve() is called before time is up

\* The doubles of a range are finitely many, and a constraint is a condition on them.
ASSUME TheoryAssumption ==
  /\ Points \subseteq Nat /\ Points # {} /\ IsFiniteSet(Points)
  /\ Theories \subseteq [Vars -> SUBSET Points] /\ IntervalUses \subseteq BOOLEAN
  /\ MaxClauses \in Nat /\ MaxAttempts \in Nat

VARIABLES
  theory,           \* the constraints of this behaviour
  useIntervalProp,
  globalRanges,     \* IntervalPropagator::globalRanges, which are also the solver's limits
  unitDecissions,
  r1,               \* the last result of gradient descent: a point, NoPoint, or Null before the first
  negativeTerm,     \* how Var::negativeTerm is compiled: "none", "plain" or "negated"
  seeded,           \* lastSeed is set
  attempts,         \* calls of CNSat::solve so far
  stood             \* history: no fact has been set anew so far

Null == -1
NoPoint == -2

theoryVars == <<theory, useIntervalProp, globalRanges, unitDecissions, r1, negativeTerm, seeded,
                attempts>>
smtVars == <<satVars, theoryVars, stood>>

Lowest(S)  == CHOOSE x \in S : \A y \in S : x <= y
Highest(S) == CHOOSE x \in S : \A y \in S : y <= x
Narrow(r, S) == [lo |-> Max({r.lo, Lowest(S)}), hi |-> Min({r.hi, Highest(S)})]
Within(r) == {x \in Points : r.lo <= x /\ x <= r.hi}

\* The points at which a literal's constraint, or its negation, holds.
Solutions(l) == IF l > 0 THEN theory[l] ELSE Points \ theory[-l]

\* The literal a variable of the trail makes true, and the one that forbids it.
TrueLit(v) == IF value[v] = "TRUE" THEN v ELSE -v
Forbid(vs) == [n \in DOMAIN vs |-> -TrueLit(vs[n])]

SmtInit ==
  /\ SatInit
  /\ theory \in Theories
  /\ useIntervalProp \in IntervalUses
  /\ globalRanges = [lo |-> Lowest(Points), hi |-> Highest(Points)]
  /\ unitDecissions = 0
  /\ r1 = Null
  /\ negativeTerm = [v \in Vars |-> "none"] /\ seeded = FALSE
  /\ attempts = 1
  /\ stood = TRUE

\* A step of the SAT solver on its own. init() counts the unit decisions.
SatStep ==
  /\ SatAction
  /\ unitDecissions' = IF pc = "adding" THEN Len(decisions') ELSE unitDecissions
  /\ UNCHANGED <<theory, useIntervalProp, globalRanges, r1, negativeTerm, seeded, attempts>>

\* addIClause. A unit clause is set as a fact, whatever its variable was before.
AddIClause(lits) ==
  IF Len(lits) = 1
  THEN /\ InsertFact(BackTracked(1), lits[1], 1)
       /\ AttachUnit(lits, "iFacts")
       /\ locked' = locked \union VarsOf(lits)
       /\ unitDecissions' = unitDecissions + 1
  ELSE /\ Attach(lits, "iClauses", 1, Len(lits))
       /\ UNCHANGED <<trailVars, satisfied, unitDecissions>>

\* addTClause. A unit clause on a locked variable is refused, which nobody notices.
AddTClause(lits) ==
  \/ /\ Len(lits) = 1 /\ lits[1] \in {-TrueLit(v) : v \in locked}
     /\ UNCHANGED <<trailVars, clauseVars>>
  \/ /\ Len(lits) = 1 /\ lits[1] \notin {-TrueLit(v) : v \in locked}
     /\ LET b == BackTracked(1) IN InsertFact(b, lits[1], b.levelStart[1] + 1)
     /\ AttachUnit(lits, "tFacts")
     /\ UNCHANGED locked
  \/ /\ Len(lits) > 1
     /\ Attach(lits, "tClauses", Len(lits) - 1, Len(lits))
     /\ UNCHANGED <<trailVars, satisfied>>

(***************************************************************************)
(* IntervalPropagator::propagate: the range of the variable under all      *)
(* decisions, from the newest one down. The complete ranges share their    *)
(* bounds with the global ones, so what a call narrows stays narrow.       *)
(***************************************************************************)
RangeAfter[n \in 1..(Len(decisions) + 1)] ==
  IF n > Len(decisions) THEN globalRanges
  ELSE LET S == Solutions(TrueLit(decisions[n]))
       IN IF S = {} THEN RangeAfter[n + 1] ELSE Narrow(RangeAfter[n + 1], S)

Impossible(n) == Solutions(TrueLit(decisions[n])) = {}
Collapsed(n)  == RangeAfter[n].lo > RangeAfter[n].hi
Failures == {n \in DOMAIN decisions : Impossible(n) \/ Collapsed(n)}
FirstFailure == Highest(Failures)

Offenders_Last ==              \* mutant: only the decision at which the range collapsed is blamed
  <<decisions[FirstFailure]>>

Offenders ==
  IF Impossible(FirstFailure) THEN <<decisions[FirstFailure]>>
  ELSE Reverse(SubSeq(decisions, FirstFailure, Len(decisions)))

\* CNSMTGSolver::intervalPropagate: the offenders may not all be decided as they are.
IntervalPropagate ==
  /\ pc = "theory" /\ useIntervalProp
  /\ globalRanges' = RangeAfter[IF Failures = {} THEN 1 ELSE FirstFailure]
  /\ IF Failures = {}
     THEN /\ pc' = "probing"
          /\ UNCHANGED <<clauseVars, trailVars, visit, unitDecissions>>
     ELSE /\ Len(db) < MaxClauses
          /\ AddIClause(Forbid(Offenders))
          /\ visit' = FirstVisit(levelStart')
          /\ pc' = "propagating"
  /\ UNCHANGED <<formulaVars, seen, analysis, decisionCount, answer, theory, useIntervalProp,
                 r1, negativeTerm, seeded, attempts>>

NoIntervals ==
  /\ pc = "theory" /\ ~useIntervalProp
  /\ pc' = "probing"
  /\ UNCHANGED <<formulaVars, clauseVars, trailVars, searchVars, answer, theoryVars>>

(***************************************************************************)
(* probeForSolution: gradient descent over the compiled constraints.       *)
(***************************************************************************)
\* A constraint decided FALSE is compiled when it is first needed: as its negation by
\* initialPointFromSeed, but as the constraint itself by initialPoint, which runs while no
\* earlier probe has left a seed.
Compiled ==
  [v \in Vars |-> IF v \in ToSet(decisions) /\ value[v] = "FALSE" /\ negativeTerm[v] = "none"
                  THEN IF seeded THEN "negated" ELSE "plain"
                  ELSE negativeTerm[v]]

Probed_AsTrue(v) == theory[v]  \* mutant: the constraint is probed, however it is decided

Probed(v) == IF value[v] = "TRUE" \/ Compiled[v] = "plain" THEN theory[v] ELSE Points \ theory[v]

\* The points inside the limits that meet every compiled constraint of the trail.
Feasible == {x \in Within(globalRanges) : \A v \in ToSet(decisions) : x \in Probed(v)}

\* A point is found. It is the answer once every clause is flagged as satisfied.
ProbeFinds ==
  /\ pc = "probing" /\ r1' \in Feasible
  /\ negativeTerm' = Compiled
  /\ seeded' = TRUE
  /\ IF Clauses("clauses") \subseteq satisfied
     THEN pc' = "done" /\ answer' = "TRUE"
     ELSE pc' = "deciding" /\ UNCHANGED answer
  /\ UNCHANGED <<formulaVars, clauseVars, trailVars, searchVars, theory, useIntervalProp,
                 globalRanges, unitDecissions, attempts>>

\* No point is found: the whole trail may not be decided as it is. Local search may miss a
\* point that exists; without a constraint it cannot.
ProbeFails ==
  /\ pc = "probing" /\ decisions # <<>>
  /\ r1' = NoPoint
  /\ negativeTerm' = Compiled
  /\ Len(db) < MaxClauses
  /\ AddTClause(Forbid(decisions))
  /\ visit' = FirstVisit(levelStart')
  /\ pc' = "propagating"
  /\ UNCHANGED <<formulaVars, seen, analysis, decisionCount, answer, theory, useIntervalProp,
                 globalRanges, unitDecissions, seeded, attempts>>

(***************************************************************************)
(* The loop of CNSMTGSolver::solve around CNSat::solve.                    *)
(***************************************************************************)
\* solve() gives up at a conflict or a decision when the time is up.
TimeUp ==
  /\ withTheory
  /\ \/ pc = "analysing" /\ analysis.p = 0
     \/ pc = "deciding" /\ Decidable # {}
  /\ pc' = "done" /\ answer' = "TIMEOUT"
  /\ UNCHANGED <<formulaVars, clauseVars, trailVars, searchVars, theoryVars>>

\* solve() found nothing and there is time left: learnt clauses and T-clauses are forgotten,
\* backTrack(unitDecissions) unlocks and takes back all but the unit decisions.
SolveAgain ==
  /\ withTheory /\ pc = "done" /\ answer = "FALSE" /\ r1 # Null
  /\ attempts < MaxAttempts
  /\ LET gone == {decisions[n] : n \in (unitDecissions + 1)..Len(decisions)}
         rewatched == UNION {{w[1] : w \in ToSet(watchList[v])} : v \in gone}
     IN /\ decisions' = SubSeq(decisions, 1, unitDecissions)
        /\ value' = [v \in Vars |-> IF v \in gone THEN "UNASSIGNED" ELSE value[v]]
        /\ reason' = [v \in Vars |-> IF v \in gone THEN 0 ELSE reason[v]]
        /\ locked' = locked \ gone
        /\ satisfied' = satisfied \ rewatched
        /\ levelStart' = <<unitDecissions>>
        /\ visit' = FirstVisit(levelStart')
  /\ Detach(UNION {Clauses(list) : list \in {"satClauses", "facts", "tClauses", "tFacts"}})
  /\ pc' = "propagating" /\ answer' = "none"
  /\ attempts' = attempts + 1
  /\ UNCHANGED <<formulaVars, watch, level, seen, analysis, decisionCount, theory,
                 useIntervalProp, globalRanges, unitDecissions, r1, negativeTerm, seeded>>

\* solve() found nothing before gradient descent ran once: r1 is null and is dereferenced.
NoResult ==
  /\ withTheory /\ pc = "done" /\ answer \in {"FALSE", "TIMEOUT"} /\ r1 = Null
  /\ pc' = "crashed"
  /\ UNCHANGED <<formulaVars, clauseVars, trailVars, searchVars, answer, theoryVars>>

SmtAction ==
  \/ SatStep
  \/ IntervalPropagate \/ NoIntervals \/ ProbeFinds \/ ProbeFails
  \/ TimeUp \/ SolveAgain \/ NoResult

SmtNext == SmtAction /\ Remember /\ stood' = (stood /\ FactsStand')

\* What the interval propagator refuses is refused rightly: inside the ranges of the call, no
\* point meets all the offenders whose decisions the new I-clause forbids.
RefusedRightly ==
  \A c \in DOMAIN db' \ DOMAIN db :
    db'[c].list \in {"iClauses", "iFacts"} =>
      \A x \in Within(globalRanges) : \E l \in ToSet(db'[c].lits) : x \in Solutions(l)
OffendersClash == [][RefusedRightly]_smtVars

\* What the tests ask of the answer of solve(): when it is true, every clause is satisfied.
ClausesSatisfied ==
  pc = "done" /\ answer = "TRUE" => \A c \in Accepted : \E l \in ToSet(db[c].lits) : IsTrue(l)

\* When solve() returns true in a theory, the point gradient descent found makes a literal of
\* every clause true: it belongs to the final trail, and no clause is flagged as satisfied
\* without being it. It takes that every constraint decided FALSE was compiled as one.
SolutionFits ==
  withTheory /\ answer = "TRUE" /\ FactsStand /\ (\A v \in Vars : negativeTerm[v] # "plain") =>
    \A c \in Accepted : \E l \in ToSet(db[c].lits) : r1 \in Solutions(l)

=============================================================================
