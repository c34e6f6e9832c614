------------------------------- MODULE GSolver -------------------------------
(***************************************************************************)
(* Gradient descent (Rprop) and what runs it: GSolver::solve and           *)
(* GSolver::solveSimple behind CGSolver, and CNSMTGSolver::probeForSolution *)
(* with its own copy of the loop.                                          *)
(*                                                                         *)
(* One real variable stands for all of them and ranges over a few spots. A *)
(* compiled term is a landscape: the utility and the slope it reports at   *)
(* each spot. Utilities are per cent. The step is a whole number, doubled  *)
(* where the code multiplies by 1.3. Time and the count of evaluations are *)
(* a free choice wherever the code looks at them.                          *)
(*                                                                         *)
(* In GSolver the current value, _initialValue and _finalValue of a result *)
(* are one and the same vector; CNSMTGSolver copies it.                    *)
(***************************************************************************)
EXTENDS Integers, Sequences, SequencesExt

CONSTANTS
  Callers,        \* which of "getSolution", "existsSolution", "solveSimple" and "probe" to look at
  Objectives,     \* [all, utility, parts, fixed, sufficient]: the landscapes of the whole term, of
                  \* its utility and of each constraint; what is constant: "nothing", "utility",
                  \* or "unmet" for a constraint that never holds; the utility that is enough
  RangeLists,     \* the ranges of the variable in the calls of a query: sequences of [lo, hi]
  SeedLists,      \* the seeds: sequences of spots, or NoNumber
  LowestSpot, HighestSpot,
  MaxIter, MaxBad, InitialStep, ConvergedStep,
  MaxStep,        \* bound: the greatest step
  Significance,   \* _utilitySignificanceThreshold
  ExtraRuns,      \* the runs solveSimple adds while the results are too close together
  MaxFree         \* bound: the unseeded runs of a solve()

\* A landscape has a utility and a slope, numbers or NaN, at every spot.
Landscape == [LowestSpot .. HighestSpot -> [util : Int, slope : Int]]

ASSUME DescentAssumption ==
  /\ LowestSpot \in Int /\ HighestSpot \in Int
  /\ Objectives \subseteq [all : Landscape, utility : Landscape, parts : Seq(Landscape),
                          fixed : {"nothing", "utility", "unmet"}, sufficient : Int]
  /\ RangeLists \subseteq Seq([lo : Int, hi : Int])
  /\ SeedLists \subseteq Seq(Int)
  /\ InitialStep \in Int /\ MaxStep \in Int /\ Significance \in Int

VARIABLES
  caller, objective, seedList, rangeList,
  box,            \* the limits: [lo, hi]
  stage,          \* where the caller is
  next,           \* its loop counter
  run,            \* the descent in progress
  kept,           \* _rResults: [point, util, aborted]
  chosen,         \* what is returned: [point, util]
  verdict         \* "none", "yes", "no"

descentVars == <<caller, objective, seedList, rangeList, box, stage, next, run, kept, chosen, verdict>>

NoNumber == -1000000                                      \* NaN
Above(a, b) == a # NoNumber /\ b # NoNumber /\ a > b
InBox(p) == box.lo <= p /\ p <= box.hi
Clamped(p) == IF p > box.hi THEN box.hi ELSE IF p < box.lo THEN box.lo ELSE p
Satisfied == 75
Sufficient == IF objective.fixed = "utility" THEN Satisfied ELSE objective.sufficient

(***************************************************************************)
(* What a point looks like. CNSMTGSolver puts the constraints together as  *)
(* it goes: those that are not met add up.                                 *)
(***************************************************************************)
\* A part whose utility is not a number counts as met: NaN <= 0 is false.
Met(part) == part.util = NoNumber \/ part.util > 0
Added(a, b) == IF NoNumber \in {a, b} THEN NoNumber ELSE a + b
Joined(a, b) ==
  IF Met(b) THEN a
  ELSE [util |-> IF a.util > 0 THEN b.util ELSE Added(a.util, b.util), slope |-> Added(a.slope, b.slope)]
\* differentiate takes the first part as it is; the initial point starts from utility 1 and adds
\* up the slopes of the parts that are met, too.
PartsAt(p) == [i \in DOMAIN objective.parts |-> objective.parts[i][p]]
Differentiated(p) == FoldLeft(Joined, PartsAt(p)[1], Tail(PartsAt(p)))
Summed(a, b) == [Joined(a, b) EXCEPT !.slope = Added(a.slope, b.slope)]
AtFirst(p) == FoldLeft(Summed, [util |-> 100, slope |-> 0], PartsAt(p))

Seen(what, p) ==
  IF what = "all" THEN objective.all[p]
  ELSE IF what = "utility" THEN objective.utility[p]
  ELSE Differentiated(p)

NoRun == [what |-> "all", point |-> 0, best |-> 0, bestUtil |-> NoNumber, util |-> NoNumber,
          slope |-> 0, former |-> 0, step |-> 0, iter |-> 0, bad |-> 0, precise |-> FALSE,
          aborted |-> FALSE, status |-> "off"]

Begun(what, p, precise, seen) ==
  [what |-> what, point |-> p, best |-> p, bestUtil |-> seen.util, util |-> seen.util,
   slope |-> seen.slope, former |-> seen.slope, step |-> InitialStep, iter |-> 0, bad |-> 0,
   precise |-> precise, aborted |-> FALSE,
   status |-> IF what = "parts" /\ seen.util > 50 THEN "over" ELSE "running"]

\* initialPoint: random points until the slope is a number.
FromAnywhere(what) ==
  \E p \in box.lo..box.hi :
    LET seen == IF what = "parts" THEN AtFirst(p) ELSE Seen(what, p)
    IN seen.slope # NoNumber /\ run' = Begun(what, p, FALSE, seen)

\* initialPointFromSeed: GSolver takes the seed whatever the slope there; CNSMTGSolver tries the
\* same point again for ever when the slope is not a number.
FromSeed(what, seed, precise) ==
  \E p \in box.lo..box.hi :
    LET seen == IF what = "parts" THEN AtFirst(p) ELSE Seen(what, p)
    IN /\ seed # NoNumber => p = Clamped(seed)
       /\ what = "parts" => seen.slope # NoNumber
       /\ run' = Begun(what, p, precise, seen)

(***************************************************************************)
(* One turn of the loop.                                                   *)
(***************************************************************************)
SameSign(a, b) == NoNumber \notin {a, b} /\ a * b > 0
Opposed(a, b) == NoNumber \notin {a, b} /\ a * b < 0
NewStep ==
  IF SameSign(run.slope, run.former) THEN (IF 2 * run.step > MaxStep THEN MaxStep ELSE 2 * run.step)
  ELSE IF Opposed(run.slope, run.former) /\ run.step > 1 THEN run.step \div 2
  ELSE run.step
NewPoint ==
  Clamped(IF run.slope = NoNumber \/ run.slope = 0 THEN run.point
          ELSE IF run.slope > 0 THEN run.point + NewStep ELSE run.point - NewStep)

\* The best point of CNSMTGSolver is a copy, that of GSolver moves along.
Moved_Shared(r, p, step) ==       \* mutant: CNSMTGSolver does not copy it either
  [r EXCEPT !.point = p, !.step = step, !.best = p]
Moved(r, p, step) ==
  [r EXCEPT !.point = p, !.step = step, !.best = IF r.what = "parts" THEN @ ELSE p]

Iterate ==
  /\ run.status = "running"
  /\ run.iter < (IF run.precise THEN 2 * MaxIter ELSE MaxIter)
  /\ run.bad < (IF run.precise THEN 2 * MaxBad ELSE MaxBad)
  /\ LET r == [Moved(run, NewPoint, NewStep) EXCEPT !.iter = @ + 1]
         seen == Seen(r.what, r.point)
         better == Above(seen.util, r.bestUtil)
     IN run' = IF r.what # "parts" /\ ~r.precise /\ r.step < ConvergedStep
               THEN [r EXCEPT !.status = "over"]
               ELSE IF seen.slope = NoNumber
               THEN [r EXCEPT !.aborted = TRUE, !.status = "over"]
               ELSE [r EXCEPT !.util = seen.util, !.former = r.slope, !.slope = seen.slope,
                              !.bad = IF better THEN 0 ELSE @ + 1,
                              !.bestUtil = IF better THEN seen.util ELSE @,
                              !.best = IF better THEN r.point ELSE @,
                              !.status = IF \/ seen.slope = 0
                                            \/ r.what = "parts" /\ better /\ seen.util > Satisfied
                                         THEN "over" ELSE @]
  /\ UNCHANGED <<caller, objective, seedList, rangeList, box, stage, next, kept, chosen, verdict>>

EndLoop ==
  /\ run.status = "running"
  /\ \/ run.iter >= (IF run.precise THEN 2 * MaxIter ELSE MaxIter)
     \/ run.bad >= (IF run.precise THEN 2 * MaxBad ELSE MaxBad)
  /\ run' = [run EXCEPT !.status = "over"]
  /\ UNCHANGED <<caller, objective, seedList, rangeList, box, stage, next, kept, chosen, verdict>>

(***************************************************************************)
(* CGSolver: the ranges of all calls are intersected; existsSolution takes *)
(* the least of the lower bounds, which is the lowest there is.            *)
(***************************************************************************)
Intersected(a, b) ==
  [lo |-> IF caller = "existsSolution" THEN Min({a.lo, b.lo}) ELSE Max({a.lo, b.lo}),
   hi |-> Min({a.hi, b.hi})]
Everything == [lo |-> LowestSpot, hi |-> HighestSpot]

DescentInit ==
  /\ caller \in Callers /\ objective \in Objectives
  /\ seedList \in SeedLists /\ rangeList \in RangeLists
  /\ caller = "probe" => Len(seedList) <= 1
  /\ box = Everything /\ stage = "ranges" /\ next = 1
  /\ run = NoRun /\ kept = <<>> /\ chosen = [point |-> NoNumber, util |-> NoNumber]
  /\ verdict = "none"

MiddleOf(b) == (b.lo + b.hi) \div 2

\* An empty range is no solution; a constraint that is constantly unmet gets the middle of the box.
TakeRanges ==
  /\ stage = "ranges"
  /\ LET boxes == [n \in 0..Len(rangeList) |-> FoldLeft(Intersected, Everything, SubSeq(rangeList, 1, n))]
     IN /\ box' = boxes[Len(rangeList)]
        /\ IF \E n \in DOMAIN boxes : boxes[n].lo > boxes[n].hi
           THEN stage' = "returned" /\ verdict' = "no" /\ UNCHANGED chosen
           ELSE IF caller = "getSolution" /\ objective.fixed = "unmet"
           THEN /\ stage' = "returned" /\ verdict' = "no"
                /\ chosen' = [point |-> MiddleOf(box'), util |-> 0]
           ELSE stage' = "seeds" /\ UNCHANGED <<chosen, verdict>>
  /\ UNCHANGED <<caller, objective, seedList, rangeList, next, run, kept>>

RunResult == [point |-> run.best, util |-> run.bestUtil, aborted |-> run.aborted]
Return(r, answer) == stage' = "returned" /\ chosen' = [point |-> r.point, util |-> r.util] /\ verdict' = answer
StayAsked == UNCHANGED <<caller, objective, seedList, rangeList, box>>

(***************************************************************************)
(* GSolver::solve.                                                         *)
(***************************************************************************)
Solving == caller = "getSolution" /\ run.status # "running"

RunSeed ==
  /\ Solving /\ stage = "seeds" /\ run.status = "off" /\ next <= Len(seedList)
  /\ FromSeed("all", seedList[next], next = 1)
  /\ StayAsked /\ UNCHANGED <<stage, next, kept, chosen, verdict>>

\* The seeds are over, or time is; the first one is always tried.
LeaveSeeds ==
  /\ Solving /\ stage = "seeds" /\ run.status = "off"
  /\ next > Len(seedList) \/ next > 1
  /\ \/ stage' = "utility" /\ objective.fixed = "nothing"
     \/ stage' = "free"
  /\ next' = 1
  /\ StayAsked /\ UNCHANGED <<run, kept, chosen, verdict>>

RunUtility ==
  /\ Solving /\ stage = "utility" /\ run.status = "off"
  /\ FromAnywhere("utility")
  /\ StayAsked /\ UNCHANGED <<stage, next, kept, chosen, verdict>>

\* The optimum of the utility alone is the seed of a run with the constraints.
RunFromUtility ==
  /\ Solving /\ stage = "utility" /\ run.status = "over" /\ run.what = "utility"
  /\ FromSeed("all", run.best, FALSE)
  /\ StayAsked /\ UNCHANGED <<stage, next, kept, chosen, verdict>>

RunFree ==
  /\ Solving /\ stage = "free" /\ run.status = "off" /\ next <= MaxFree
  /\ FromAnywhere("all")
  /\ StayAsked /\ UNCHANGED <<stage, next, kept, chosen, verdict>>

\* A sufficient result is returned, except that of the run the utility seeded.
TakeResult ==
  /\ Solving /\ run.status = "over" /\ run.what = "all"
  /\ \/ /\ stage # "utility" /\ Above(run.bestUtil, Sufficient)
        /\ Return(RunResult, IF run.bestUtil > Satisfied THEN "yes" ELSE "no")
        /\ UNCHANGED <<next, kept>>
     \/ /\ stage = "utility" \/ ~Above(run.bestUtil, Sufficient)
        /\ kept' = Append(kept, RunResult)
        /\ next' = IF stage = "utility" THEN 1 ELSE next + 1
        /\ stage' \in CASE stage = "seeds" -> {"seeds"}
                         [] stage = "utility" -> {"free"}
                         [] stage = "free" -> {"free", "selecting"}
        /\ UNCHANGED <<chosen, verdict>>
  /\ run' = NoRun
  /\ StayAsked

\* The best result; the first seed's is kept unless another one satisfies the constraints and
\* is better by more than the significance threshold.
Better_Sticky(acc, i) ==          \* mutant: resIdx stays 0
  LET res == kept[acc] r == kept[i]
  IN IF res.util # NoNumber /\ ~Above(r.util, res.util) THEN acc
     ELSE IF Len(seedList) > 0 /\ res.util # NoNumber /\ ~(r.util - res.util > Significance /\ r.util > Satisfied)
     THEN acc ELSE i
Better(acc, i) ==
  LET res == kept[acc] r == kept[i]
  IN IF res.util # NoNumber /\ ~Above(r.util, res.util) THEN acc
     ELSE IF /\ acc = 1 /\ Len(seedList) > 0 /\ res.util # NoNumber
             /\ ~(r.util - res.util > Significance /\ r.util > Satisfied)
     THEN acc ELSE i

Select ==
  /\ Solving /\ stage = "selecting"
  /\ LET res == kept[FoldLeft(Better, 1, [i \in 1..(Len(kept) - 1) |-> i + 1])]
     IN Return(res, IF Above(res.util, Satisfied) THEN "yes" ELSE "no")
  /\ StayAsked /\ UNCHANGED <<next, run, kept>>

(***************************************************************************)
(* GSolver::solveSimple: seeds, some runs from anywhere, and more of them  *)
(* while the results are too close together.                               *)
(***************************************************************************)
Asking == caller \in {"existsSolution", "solveSimple"} /\ stage \in {"seeds", "free"} /\ run.status # "running"

\* evalResults: the variance of the values against the range, at least 0.0441.
Usable == SelectSeq(kept, LAMBDA r : ~r.aborted)
Spread ==
  LET n == Len(Usable)
      total == FoldLeft(LAMBDA acc, r : acc + r.point, 0, Usable)
      squares == FoldLeft(LAMBDA acc, r : acc + (n * r.point - total) * (n * r.point - total), 0, Usable)
  IN n >= 1 /\ 10000 * squares >= 441 * n * n * n * (box.hi - box.lo) * (box.hi - box.lo)

FewRuns == 2 - Len(seedList)      \* 2 * _dim less the seeds
\* CGSolver::existsSolution puts as many null pointers before the seeds as there are seeds.
NullSeed ==
  /\ Asking /\ caller = "existsSolution" /\ seedList # <<>>
  /\ stage' = "crashed"
  /\ StayAsked /\ UNCHANGED <<next, run, kept, chosen, verdict>>
SimpleSeed ==
  /\ Asking /\ caller = "solveSimple" /\ run.status = "off" /\ Len(kept) < Len(seedList)
  /\ FromSeed("all", seedList[Len(kept) + 1], FALSE)
  /\ StayAsked /\ UNCHANGED <<stage, next, kept, chosen, verdict>>
SimpleRun ==
  /\ Asking /\ run.status = "off" /\ Len(kept) >= Len(seedList)
  /\ \/ next <= FewRuns
     \/ next > FewRuns /\ ~Spread /\ next <= Max({FewRuns, 0}) + ExtraRuns
  /\ FromAnywhere("all")
  /\ stage' = "free"
  /\ StayAsked /\ UNCHANGED <<next, kept, chosen, verdict>>
SimpleGiveUp ==
  /\ Asking /\ run.status = "off" /\ Len(kept) >= Len(seedList) /\ next > FewRuns
  /\ Spread \/ next > Max({FewRuns, 0}) + ExtraRuns
  /\ stage' = "returned" /\ verdict' = "no"
  /\ StayAsked /\ UNCHANGED <<next, run, kept, chosen>>
SimpleResult ==
  /\ Asking /\ run.status = "over"
  /\ kept' = Append(kept, RunResult)
  /\ next' = IF stage = "free" THEN next + 1 ELSE next
  /\ IF Above(run.bestUtil, Satisfied) THEN Return(RunResult, "yes") ELSE UNCHANGED <<stage, chosen, verdict>>
  /\ run' = NoRun
  /\ StayAsked

(***************************************************************************)
(* CNSMTGSolver::probeForSolution: from the last solution, if there is     *)
(* one, and then from anywhere.                                            *)
(***************************************************************************)
Probing == caller = "probe" /\ stage = "seeds" /\ run.status # "running"
ProbeSeed ==
  /\ Probing /\ run.status = "off"
  /\ IF seedList # <<>> THEN FromSeed("parts", seedList[1], FALSE) ELSE FromAnywhere("parts")
  /\ StayAsked /\ UNCHANGED <<stage, next, kept, chosen, verdict>>
ProbeAgain ==
  /\ Probing /\ run.status = "over" /\ next = 1 /\ run.bestUtil < 50
  /\ FromAnywhere("parts") /\ next' = 2
  /\ StayAsked /\ UNCHANGED <<stage, kept, chosen, verdict>>
ProbeReturn ==
  /\ Probing /\ run.status = "over" /\ (next = 2 \/ run.bestUtil >= 50)
  /\ Return(RunResult, IF run.bestUtil >= 50 THEN "yes" ELSE "no")
  /\ StayAsked /\ UNCHANGED <<next, run, kept>>

DescentNext ==
  \/ TakeRanges \/ Iterate \/ EndLoop
  \/ RunSeed \/ LeaveSeeds \/ RunUtility \/ RunFromUtility \/ RunFree \/ TakeResult \/ Select
  \/ NullSeed \/ SimpleSeed \/ SimpleRun \/ SimpleGiveUp \/ SimpleResult
  \/ ProbeSeed \/ ProbeAgain \/ ProbeReturn

DescentSpec == DescentInit /\ [][DescentNext]_descentVars

(***************************************************************************)
(* What the searches promise.                                              *)
(***************************************************************************)
\* The point a probe returns lies in the limits and has the utility that is reported with it,
\* however far the descent went on after it; at a point that counts as found no constraint of the
\* trail is violated.
FeasiblePoint ==
  caller = "probe" /\ stage = "returned" /\ chosen.point # NoNumber =>
    /\ InBox(chosen.point)
    /\ chosen.util \in {AtFirst(chosen.point).util, Differentiated(chosen.point).util}
    /\ verdict = "yes" => \A i \in DOMAIN objective.parts : Met(objective.parts[i][chosen.point])

\* No run whose result was kept was better than the one solve returns, unless that one is
\* sufficient, or is the first seed's and the other violates the constraints or is not
\* significantly better.
BestReturned ==
  caller = "getSolution" /\ stage = "returned" /\ kept # <<>> =>
    \/ Above(chosen.util, Sufficient)
    \/ \A i \in DOMAIN kept :
      \/ kept[i].util = NoNumber \/ kept[i].util <= chosen.util
      \/ /\ seedList # <<>> /\ chosen.util = kept[1].util
         /\ kept[i].util <= Satisfied \/ kept[i].util - chosen.util <= Significance

\* "return best result" (GSolver.cpp, line 223): the point solve returns has the utility it is
\* said to have.
BestPointReturned ==
  caller = "getSolution" /\ stage = "returned" /\ objective.fixed # "unmet" /\ chosen.point # NoNumber =>
    chosen.util = objective.all[chosen.point].util

=============================================================================
