------------------------------- MODULE CNSat -------------------------------
(***************************************************************************)
(* CNSat, the conflict-driven SAT solver of constraintsolver: clauses with *)
(* two watched literals, a trail of decisions cut into decision levels,    *)
(* unit propagation, conflict analysis up to the first unique implication  *)
(* point, backjumping, and a data base of learnt clauses that is trimmed.  *)
(* A literal is the number of its variable, negative when its sign is      *)
(* FALSE, as in the files readFromCNFFile reads.                           *)
(***************************************************************************)
EXTENDS Integers, FiniteSets, SequencesExt

CONSTANTS
  MaxVar,        \* the variables are 1..MaxVar
  Problems,      \* the formulas a behaviour may be about: sequences of clauses
  FreshSeen,     \* the variables whose flag seen the constructor may leave TRUE
  ReduceEvery,   \* solve() calls reduceDB every ReduceEvery decisions (1000 in the code)
  LearntNum      \* the learnt clauses reduceDB keeps (700 in the code)

Vars == 1..MaxVar
VarOf(l) == IF l < 0 THEN -l ELSE l
SignOf(l) == IF l < 0 THEN "FALSE" ELSE "TRUE"
VarsOf(lits) == {VarOf(l) : l \in ToSet(lits)}
Lits == (-MaxVar..MaxVar) \ {0}

\* addBasicClause refuses an empty clause. Formulas are taken whose clauses name no variable twice:
\* that is what addChecked is there for, though it does not meet every literal of a clause.
ASSUME SatAssumption ==
  /\ MaxVar \in Nat /\ FreshSeen \subseteq Vars
  /\ ReduceEvery \in Nat \ {0} /\ LearntNum \in Nat
  /\ \A formula \in Problems :
       /\ formula \in Seq(Seq(Lits))
       /\ \A i \in DOMAIN formula :
            /\ formula[i] # <<>>
            /\ \A m, n \in DOMAIN formula[i] : VarOf(formula[i][m]) = VarOf(formula[i][n]) => m = n

VARIABLES
  problem,       \* the formula of this behaviour
  withTheory,    \* cnsmtGSolver is set: a theory solver is asked
  toAdd,         \* the clauses addBasicClause has not seen yet
  db,            \* id -> [lits, list]: every clause there has been, and the list that holds it;
                 \* a unit clause that was learnt is in "facts", which is no list of the code
  watch,         \* id -> the two watched literals of a clause longer than one
  satisfied,     \* the ids of the clauses flagged as satisfied
  watchList,     \* variable -> its watchers <<id, 1 or 2>>
  value,         \* Var::assignment
  level,         \* the position in levelStart of Var::decisionLevel
  reason,        \* the id of Var::reason, or 0
  locked,        \* the variables with Var::locked
  decisions,     \* the trail
  levelStart,    \* decisionLevel: DecisionLevel::level of each level; the first is decisionLevelNull
  pc,            \* where solve() is
  visit,         \* propagate's loops: decision i, entry j of the watch list taken at i
  seen,          \* the variables with Var::seen
  analysis,      \* resolveConflict's locals
  decisionCount, \* modulo ReduceEvery
  answer,        \* what solve() returned, or "none"
  clean          \* history: no analysis so far began with a mark that memory may have left

formulaVars == <<problem, withTheory, toAdd>>
clauseVars  == <<db, watch, satisfied, watchList>>
trailVars   == <<value, level, reason, locked, decisions, levelStart>>
searchVars  == <<visit, seen, analysis, decisionCount>>
solverState == <<formulaVars, clauseVars, trailVars, searchVars, pc, answer>>
satVars     == <<solverState, clean>>

\* The elements of s that are in S, in their order.
Only(s, S) ==
  LET part[n \in 0..Len(s)] == IF n = 0 THEN <<>>
                               ELSE IF s[n] \in S THEN Append(part[n - 1], s[n]) ELSE part[n - 1]
  IN part[Len(s)]

Clauses(list) == {c \in DOMAIN db : db[c].list = list}
IsTrue(l)  == value[VarOf(l)] = SignOf(l)
IsFree(l)  == value[VarOf(l)] = "UNASSIGNED"
IsFalse(l) == ~IsTrue(l) /\ ~IsFree(l)

NoAnalysis == [confl |-> 0, p |-> 0, learnt |-> <<>>, index |-> 0, pathC |-> 0]

SatInit ==
  /\ problem \in Problems
  /\ withTheory \in BOOLEAN
  /\ toAdd = problem
  /\ db = <<>> /\ watch = <<>> /\ satisfied = {}
  /\ watchList = [v \in Vars |-> <<>>]
  /\ value = [v \in Vars |-> "UNASSIGNED"]
  /\ level = [v \in Vars |-> 1]
  /\ reason = [v \in Vars |-> 0]
  /\ locked = {}
  /\ decisions = <<>>
  /\ levelStart = <<0>>
  /\ pc = "adding"
  /\ visit = [i |-> 0, j |-> 1, list |-> <<>>]
  /\ seen \in SUBSET FreshSeen
  /\ analysis = NoAnalysis
  /\ decisionCount = 0
  /\ answer = "none"
  /\ clean = TRUE

(***************************************************************************)
(* The clause lists.                                                       *)
(***************************************************************************)
\* A clause joins a list and watches its literals at positions a and b.
Attach(lits, list, a, b) ==
  LET Watcher(l, k, v) == IF VarOf(l) = v THEN << <<Len(db) + 1, k>> >> ELSE <<>>
  IN /\ db' = Append(db, [lits |-> lits, list |-> list])
     /\ watch' = Append(watch, <<lits[a], lits[b]>>)
     /\ watchList' = [v \in Vars |-> watchList[v] \o Watcher(lits[a], 1, v) \o Watcher(lits[b], 2, v)]

\* A unit clause has no watchers.
AttachUnit(lits, list) ==
  /\ db' = Append(db, [lits |-> lits, list |-> list])
  /\ watch' = Append(watch, <<>>)
  /\ UNCHANGED watchList

\* Clauses leave their lists: their watchers leave the watch lists. The clause itself lives
\* on while it is somebody's reason.
Detach(cs) ==
  /\ db' = [c \in DOMAIN db |-> IF c \in cs THEN [db[c] EXCEPT !.list = "dropped"] ELSE db[c]]
  /\ watchList' = [v \in Vars |-> Only(watchList[v], (DOMAIN db \ cs) \X {1, 2})]

\* addBasicClause of the next clause of the formula. A unit clause becomes a decision at once;
\* one that contradicts an earlier unit clause is refused, and the callers go on without it.
AddBasicClause ==
  /\ pc = "adding" /\ toAdd # <<>>
  /\ toAdd' = Tail(toAdd)
  /\ LET lits == Head(toAdd)
         v    == VarOf(lits[1])
     IN \/ /\ Len(lits) > 1
           /\ Attach(lits, "clauses", 1, 2)
           /\ UNCHANGED <<trailVars, satisfied>>
        \/ /\ Len(lits) = 1 /\ ~IsFalse(lits[1])
           /\ AttachUnit(lits, "clauses")
           /\ value' = [value EXCEPT ![v] = SignOf(lits[1])]
           /\ decisions' = Append(decisions, v)
           /\ locked' = locked \union {v}
           /\ UNCHANGED <<level, reason, levelStart, satisfied>>
        \/ /\ Len(lits) = 1 /\ IsFalse(lits[1])
           /\ UNCHANGED <<trailVars, clauseVars>>
  /\ UNCHANGED <<problem, withTheory, searchVars, pc, answer>>

\* propagate() begins at the first decision of the newest level, or at the first one of all
\* when there is only level 0.
FirstVisit(starts) ==
  [i |-> IF Len(starts) > 1 THEN Last(starts) ELSE 0, j |-> 1, list |-> <<>>]

\* init(): the unit decisions are level 0, and their clauses are satisfied.
FinishAdding ==
  /\ pc = "adding" /\ toAdd = <<>>
  /\ levelStart' = <<Len(decisions)>>
  /\ satisfied' = {c \in DOMAIN db : Len(db[c].lits) = 1}
  /\ visit' = FirstVisit(levelStart')
  /\ pc' = "propagating"
  /\ UNCHANGED <<formulaVars, db, watch, watchList, value, level, reason, locked, decisions,
                 seen, analysis, decisionCount, answer>>

(***************************************************************************)
(* propagate(), one entry of a watch list at a time.                       *)
(***************************************************************************)
Visited == visit.list[visit.j]
Clause  == Visited[1]
Watched == watch[Clause][Visited[2]]
Other   == watch[Clause][3 - Visited[2]]

Visiting == pc = "propagating" /\ visit.j <= Len(visit.list)

\* The next decision of the trail: its watch list as it is now.
NextDecision ==
  /\ pc = "propagating" /\ visit.j > Len(visit.list)
  /\ IF visit.i < Len(decisions)
     THEN /\ visit' = [i |-> visit.i + 1, j |-> 1, list |-> watchList[decisions[visit.i + 1]]]
          /\ UNCHANGED pc
     ELSE /\ pc' = IF withTheory THEN "theory" ELSE "deciding"
          /\ UNCHANGED visit
  /\ UNCHANGED <<formulaVars, clauseVars, trailVars, seen, analysis, decisionCount, answer>>

\* Nothing to do: the clause is satisfied, or the watcher has just moved to a free literal.
SkipWatcher ==
  /\ Visiting
  /\ \/ Clause \in satisfied /\ UNCHANGED satisfied
     \/ Clause \notin satisfied /\ IsFree(Watched) /\ UNCHANGED satisfied
     \/ /\ Clause \notin satisfied /\ ~IsFree(Watched)
        /\ IsTrue(Watched) \/ IsTrue(Other)
        /\ satisfied' = satisfied \union {Clause}
  /\ visit' = [visit EXCEPT !.j = @ + 1]
  /\ UNCHANGED <<formulaVars, db, watch, watchList, trailVars, seen, analysis, decisionCount,
                 pc, answer>>

\* The clause needs another watcher: Watched is false and nothing satisfies the clause yet.
NeedsWatch == Visiting /\ Clause \notin satisfied /\ IsFalse(Watched) /\ ~IsTrue(Other)

Candidates_OtherToo ==         \* mutant: a watcher may move to where the other one is
  {n \in DOMAIN db[Clause].lits : ~IsFalse(db[Clause].lits[n])}

\* The positions of the literals a watcher may move to.
Candidates == {n \in DOMAIN db[Clause].lits :
                 LET l == db[Clause].lits[n] IN VarOf(l) # VarOf(Other) /\ ~IsFalse(l)}

\* The first of them takes the watcher; the loop visits the same entry again.
MoveWatcher ==
  /\ NeedsWatch /\ Candidates # {}
  /\ LET l == db[Clause].lits[CHOOSE n \in Candidates : \A m \in Candidates : n <= m]
         v == VarOf(Watched)
     IN /\ watch' = [watch EXCEPT ![Clause][Visited[2]] = l]
        /\ watchList' = [watchList EXCEPT ![v] = Only(@, ToSet(@) \ {Visited}),
                                          ![VarOf(l)] = Append(@, Visited)]
        /\ satisfied' = IF IsTrue(l) THEN satisfied \union {Clause} ELSE satisfied
  /\ UNCHANGED <<formulaVars, db, trailVars, searchVars, pc, answer>>

\* Unit propagation: the other watched literal is the last one that can satisfy the clause.
Imply ==
  /\ NeedsWatch /\ Candidates = {} /\ IsFree(Other)
  /\ LET v == VarOf(Other) IN
       /\ value' = [value EXCEPT ![v] = SignOf(Other)]
       /\ level' = [level EXCEPT ![v] = Len(levelStart)]
       /\ reason' = [reason EXCEPT ![v] = Clause]
       /\ decisions' = Append(decisions, v)
  /\ satisfied' = satisfied \union {Clause}
  /\ visit' = [visit EXCEPT !.j = @ + 1]
  /\ UNCHANGED <<formulaVars, db, watch, watchList, locked, levelStart, seen, analysis,
                 decisionCount, pc, answer>>

Conflict_AtFacts ==            \* mutant: a conflict among the facts is analysed too
  /\ NeedsWatch /\ Candidates = {} /\ IsFalse(Other)
  /\ pc' = "analysing"
  /\ analysis' = [NoAnalysis EXCEPT !.confl = Clause, !.index = Len(decisions)]
  /\ UNCHANGED <<formulaVars, clauseVars, trailVars, visit, seen, decisionCount, answer>>

\* Every literal is false. At level 0 the formula is unsatisfiable; else analyse the conflict.
Conflict ==
  /\ NeedsWatch /\ Candidates = {} /\ IsFalse(Other)
  /\ IF Len(levelStart) = 1
     THEN pc' = "done" /\ answer' = "FALSE" /\ UNCHANGED analysis
     ELSE /\ pc' = "analysing"
          /\ analysis' = [NoAnalysis EXCEPT !.confl = Clause, !.index = Len(decisions)]
          /\ UNCHANGED answer
  /\ UNCHANGED <<formulaVars, clauseVars, trailVars, visit, seen, decisionCount>>

(***************************************************************************)
(* resolveConflict().                                                      *)
(***************************************************************************)
\* The literals of the clause under inspection that are new to the analysis. Those of the
\* newest level are to be resolved away, the others belong to the learnt clause.
Fresh == Only(db[analysis.confl].lits,
              {q \in Lits : VarOf(q) # analysis.p /\ VarOf(q) \notin seen /\ level[VarOf(q)] # 1})
OfNewestLevel == {q \in ToSet(Fresh) : levelStart[level[VarOf(q)]] >= Last(levelStart)}

\* One round of the loop: inspect a clause, then walk down the trail to the next variable seen.
\* Where a fact was set anew a variable is on the trail twice, and the walk may end at a decision,
\* which has no reason, or nowhere: the code dereferences a null pointer, or runs off the trail.
InspectReason ==
  /\ pc = "analysing"
  /\ IF analysis.confl = 0
     THEN pc' = "crashed" /\ UNCHANGED <<seen, analysis>>
     ELSE LET flagged == seen \union VarsOf(Fresh)
              below   == {k \in 1..analysis.index : decisions[k] \in flagged}
              next    == CHOOSE k \in below : \A m \in below : m <= k
              paths   == analysis.pathC + Len(Only(Fresh, OfNewestLevel)) - 1
          IN IF below = {}
             THEN pc' = "crashed" /\ UNCHANGED <<seen, analysis>>
             ELSE /\ seen' = flagged \ {decisions[next]}
                  /\ analysis' = [confl |-> reason[decisions[next]], p |-> decisions[next],
                                  learnt |-> analysis.learnt \o Only(Fresh, ToSet(Fresh) \ OfNewestLevel),
                                  index |-> next - 1, pathC |-> paths]
                  /\ pc' = IF paths > 0 THEN "analysing" ELSE "learning"
  /\ UNCHANGED <<formulaVars, clauseVars, trailVars, visit, decisionCount, answer>>

\* Simplification: a literal goes when all of its reason is in the learnt clause or at level 0.
Redundant(l) ==
  /\ reason[VarOf(l)] # 0
  /\ \A r \in ToSet(db[reason[VarOf(l)]].lits) : VarOf(r) \in seen \/ level[VarOf(r)] = 1

Kept == Only(analysis.learnt, {l \in ToSet(analysis.learnt) : ~Redundant(l)})

\* The first of the kept literals with the newest level; it changes places with the first one.
Newest == CHOOSE n \in DOMAIN Kept :
            \A m \in DOMAIN Kept : \/ levelStart[level[VarOf(Kept[m])]] < levelStart[level[VarOf(Kept[n])]]
                                   \/ level[VarOf(Kept[m])] = level[VarOf(Kept[n])] /\ n <= m
Swapped == [Kept EXCEPT ![1] = Kept[Newest], ![Newest] = Kept[1]]
Assertion == IF value[analysis.p] = "FALSE" THEN analysis.p ELSE -analysis.p
Learnt == IF Kept = <<>> THEN <<Assertion>> ELSE Append(Swapped, Assertion)
BackLevel == IF Kept = <<>> THEN 1 ELSE level[VarOf(Kept[Newest])]

BackTracked_FlagsStay(k) ==    \* mutant: the flags of the clauses are not taken back
  LET from == IF k < Len(levelStart) THEN levelStart[k + 1] ELSE Len(decisions)
      gone == {decisions[n] : n \in (from + 1)..Len(decisions)}
  IN [decisions  |-> SubSeq(decisions, 1, from),
      levelStart |-> SubSeq(levelStart, 1, IF k < Len(levelStart) THEN k ELSE Len(levelStart)),
      value      |-> [v \in Vars |-> IF v \in gone THEN "UNASSIGNED" ELSE value[v]],
      reason     |-> [v \in Vars |-> IF v \in gone THEN 0 ELSE reason[v]],
      satisfied  |-> satisfied]

\* backTrack(level k): the trail without the levels above k. A clause that watched an
\* unassigned variable is satisfied only if one of its watched literals still is true.
BackTracked(k) ==
  LET from == IF k < Len(levelStart) THEN levelStart[k + 1] ELSE Len(decisions)
      gone == {decisions[n] : n \in (from + 1)..Len(decisions)}
      Val(v) == IF v \in gone THEN "UNASSIGNED" ELSE value[v]
      rewatched == UNION {{w[1] : w \in ToSet(watchList[v])} : v \in gone}
  IN [decisions  |-> SubSeq(decisions, 1, from),
      levelStart |-> SubSeq(levelStart, 1, IF k < Len(levelStart) THEN k ELSE Len(levelStart)),
      value      |-> [v \in Vars |-> Val(v)],
      reason     |-> [v \in Vars |-> IF v \in gone THEN 0 ELSE reason[v]],
      satisfied  |-> (satisfied \ rewatched) \union
                     {c \in rewatched : \E n \in 1..2 : Val(VarOf(watch[c][n])) = SignOf(watch[c][n])}]

\* A literal becomes a fact of level 0, at place n of the trail of b: every level moves up.
InsertFact(b, l, n) ==
  /\ decisions' = InsertAt(b.decisions, n, VarOf(l))
  /\ levelStart' = [k \in DOMAIN b.levelStart |-> b.levelStart[k] + 1]
  /\ value' = [b.value EXCEPT ![VarOf(l)] = SignOf(l)]
  /\ level' = [level EXCEPT ![VarOf(l)] = 1]
  /\ reason' = [b.reason EXCEPT ![VarOf(l)] = 0]
  /\ satisfied' = b.satisfied

Cleared_Pivot == {analysis.p}  \* mutant: the flags of the clause's literals stay

\* The flags that are taken back after an analysis.
Cleared == VarsOf(analysis.learnt) \union {analysis.p}

\* addSATClause refuses a unit clause against a locked variable.
Refuted ==
  Len(Learnt) = 1 /\ analysis.p \in locked /\ BackTracked(BackLevel).value[analysis.p] # SignOf(Assertion)

\* Then solve() gives up, on the trail it has jumped back to.
GiveUp ==
  /\ LET b == BackTracked(BackLevel)
     IN /\ decisions' = b.decisions /\ levelStart' = b.levelStart
        /\ value' = b.value /\ reason' = b.reason /\ satisfied' = b.satisfied
  /\ pc' = "done" /\ answer' = "FALSE"
  /\ UNCHANGED <<db, watch, watchList, level, locked, visit>>

\* The learnt clause is added (addSATClause) and its last literal, the negated UIP, is set: as
\* a fact of level 0 when the clause is unit, else as implied by the clause at the level it
\* jumped back to.
AddLearnt ==
  /\ LET b == BackTracked(BackLevel)
         c == Len(db) + 1
     IN IF Len(Learnt) = 1
        THEN /\ InsertFact(b, Assertion, b.levelStart[1] + 1)
             /\ AttachUnit(Learnt, "facts")
             /\ locked' = locked \union {analysis.p}
        ELSE /\ Attach(Learnt, "satClauses", 1, Len(Learnt))
             /\ decisions' = Append(b.decisions, analysis.p)
             /\ value' = [b.value EXCEPT ![analysis.p] = SignOf(Assertion)]
             /\ level' = [level EXCEPT ![analysis.p] = BackLevel]
             /\ reason' = [b.reason EXCEPT ![analysis.p] = c]
             /\ satisfied' = b.satisfied \union {c}
             /\ levelStart' = b.levelStart
             /\ UNCHANGED locked
  /\ visit' = FirstVisit(levelStart')
  /\ pc' = "propagating" /\ UNCHANGED answer

Learn ==
  /\ pc = "learning"
  /\ IF Refuted THEN GiveUp ELSE AddLearnt
  /\ seen' = seen \ Cleared
  /\ analysis' = NoAnalysis
  /\ UNCHANGED <<formulaVars, decisionCount>>

(***************************************************************************)
(* Decisions.                                                              *)
(***************************************************************************)
NewDecision(l) ==
  /\ levelStart' = Append(levelStart, Len(decisions))
  /\ value' = [value EXCEPT ![VarOf(l)] = SignOf(l)]
  /\ decisions' = Append(decisions, VarOf(l))
  /\ reason' = [reason EXCEPT ![VarOf(l)] = 0]
  /\ level' = [level EXCEPT ![VarOf(l)] = Len(levelStart) + 1]
  /\ UNCHANGED locked

\* decideActivityBased: activities stay 0 and the sign is drawn, so any free literal may be it.
FreeLiterals == {l \in -MaxVar..MaxVar : l # 0 /\ IsFree(l)}

\* decideVariableCountBased: a free watched literal of a clause that is not satisfied. Those
\* of the theory's own clauses have no variable count and are never chosen.
CountedLiterals ==
  {watch[c][n] : c \in (Clauses("clauses") \union Clauses("satClauses")) \ satisfied, n \in 1..2}
     \intersect FreeLiterals

Decidable == IF withTheory THEN CountedLiterals ELSE FreeLiterals

\* reduceDB: the most active learnt clauses stay. Which ones those are is left open.
ReduceDB ==
  LET learnt == Clauses("satClauses") IN
  IF Cardinality(learnt) <= LearntNum
  THEN UNCHANGED <<db, watchList>>
  ELSE \E kept \in SUBSET learnt : Cardinality(kept) = LearntNum /\ Detach(learnt \ kept)

Decide ==
  /\ pc = "deciding"
  /\ \E l \in Decidable : NewDecision(l)
  /\ decisionCount' = (decisionCount + 1) % ReduceEvery
  /\ IF decisionCount' = 0 THEN ReduceDB ELSE UNCHANGED <<db, watchList>>
  /\ visit' = FirstVisit(levelStart')
  /\ pc' = "propagating"
  /\ UNCHANGED <<formulaVars, watch, satisfied, seen, analysis, answer>>

\* Nothing is left to decide.
AnswerTrue ==
  /\ pc = "deciding" /\ Decidable = {}
  /\ pc' = "done" /\ answer' = "TRUE"
  /\ UNCHANGED <<formulaVars, clauseVars, trailVars, searchVars>>

SatAction ==
  \/ AddBasicClause \/ FinishAdding
  \/ NextDecision \/ SkipWatcher \/ MoveWatcher \/ Imply \/ Conflict
  \/ InspectReason \/ Learn
  \/ Decide \/ AnswerTrue

\* The history: did this step begin an analysis while a variable memory may have marked was marked?
Remember == clean' = (clean /\ (pc = "propagating" /\ pc' = "analysing" => seen \intersect FreshSeen = {}))

SatNext == SatAction /\ Remember

SatSpec == SatInit /\ [][SatNext]_satVars

(***************************************************************************)
(* What the solver promises.                                               *)
(***************************************************************************)
Assignments == [Vars -> BOOLEAN]
Holds(l, a) == a[VarOf(l)] = (l > 0)
Satisfies(a, lits) == \E l \in ToSet(lits) : Holds(l, a)

\* The clauses the solver accepted: addBasicClause refuses a contradicting unit clause. The
\* clauses that come from outside: those and the theory's.
Accepted == Clauses("clauses")
Given == {c \in DOMAIN db : db[c].list \notin {"satClauses", "facts", "dropped"}}
Models == {a \in Assignments : \A c \in Given : Satisfies(a, db[c].lits)}

\* No variable of level 0 has been set anew, and none is on the trail twice. An I-clause or a
\* T-clause of one literal may do either, and so may a formula that holds a unit clause twice;
\* nothing holds for the search that goes on then.
FactsStand ==
  /\ \A c \in DOMAIN db : Len(db[c].lits) = 1 /\ db[c].list # "dropped" => IsTrue(db[c].lits[1])
  /\ \A m, n \in DOMAIN decisions : decisions[m] = decisions[n] => m = n

\* solve() answers right: when it returns true every clause has a true literal, whatever memory
\* left in Var::seen. When it returns false no assignment satisfies the clauses and what the theory
\* added, as long as no analysis began with a mark that memory may have left.
AnswerRight ==
  pc = "done" /\ FactsStand =>
    /\ answer = "TRUE" => \A c \in Accepted : \E l \in ToSet(db[c].lits) : IsTrue(l)
    /\ answer = "FALSE" /\ clean => Models = {}

\* What the tests of CNSat ask: on its own, the solver finds an assignment where there is one.
SatisfiableIsSolved ==
  pc = "done" /\ ~withTheory /\ (\E a \in Assignments : \A c \in Accepted : Satisfies(a, db[c].lits)) =>
    answer = "TRUE"

\* Every clause and fact resolveConflict learns follows from the clauses that were given,
\* whatever was forgotten, simplified away or jumped over before, as long as no analysis began
\* with a mark that memory may have left: those of earlier analyses must be gone.
LearntFollows ==
  pc # "adding" /\ clean =>
    \A a \in Models : \A c \in Clauses("satClauses") \union Clauses("facts") : Satisfies(a, db[c].lits)

\* The trail is what propagation makes of the decisions. It explains itself: an implied variable
\* has a reason whose other literals are false and were set before it, at levels no newer than
\* its own. And it is complete: when the solver decides, a clause that no true literal satisfies
\* has two free literals, so no conflict and no implication was missed, although backtracking
\* restores neither watchers nor the flags of every clause. Marks do not matter here.
Explained(n) ==
  LET v == decisions[n] IN
  reason[v] # 0 =>
    \A l \in ToSet(db[reason[v]].lits) :
      IF VarOf(l) = v THEN IsTrue(l)
      ELSE IsFalse(l) /\ \E m \in 1..(n - 1) : decisions[m] = VarOf(l) /\ level[VarOf(l)] <= level[v]
Undecided(c) ==
  \/ db[c].list = "dropped"
  \/ \E l \in ToSet(db[c].lits) : IsTrue(l)
  \/ Cardinality({VarOf(l) : l \in {m \in ToSet(db[c].lits) : IsFree(m)}}) >= 2
TrailRight ==
  FactsStand => /\ pc # "adding" => \A n \in DOMAIN decisions : Explained(n)
                /\ pc = "deciding" => \A c \in DOMAIN db : Undecided(c)

\* solve() returns: it neither searches for ever, however much reduceDB forgets, nor runs off
\* the end of the trail in an analysis.
Returns == ~withTheory ~> pc = "done"

=============================================================================
