---------------------------- MODULE NumericProofs ----------------------------
(***************************************************************************)
(* Theorems about the numerical part of constraintsolver: what a probe and *)
(* a solve() return, for every landscape, all seeds, ranges and bounds on  *)
(* the number of steps; and that interval propagation loses no solution,   *)
(* for all terms, intervals and orders of the work list.                   *)
(***************************************************************************)
EXTENDS GSolver, Propagators, SequenceTheorems, TLAPS

(***************************************************************************)
(* Gradient descent.                                                       *)
(***************************************************************************)
ByJoined == INSTANCE FoldFacts WITH Op <- Joined
BySummed == INSTANCE FoldFacts WITH Op <- Summed
ByBetter == INSTANCE FoldFacts WITH Op <- Better
ByRange == INSTANCE FoldFacts WITH Op <- Intersected

Runs == [what : {"all", "utility", "parts"}, point : Int, best : Int, bestUtil : Int, util : Int,
         slope : Int, former : Int, step : Int, iter : Int, bad : Int, precise : BOOLEAN,
         aborted : BOOLEAN, status : {"off", "running", "over"}]
Results == [point : Int, util : Int, aborted : BOOLEAN]

DescentTypeOK ==
  /\ objective \in Objectives /\ seedList \in SeedLists /\ rangeList \in RangeLists
  /\ box \in [lo : Int, hi : Int]
  /\ run \in Runs /\ kept \in Seq(Results) /\ chosen \in [point : Int, util : Int]

BoxThere == LowestSpot <= box.lo /\ box.lo <= box.hi /\ box.hi <= HighestSpot

\* A probe's best utility is one measured at its best point.
Measured(point, util) == util \in {AtFirst(point).util, Differentiated(point).util}
GoodRun(r) ==
  /\ InBox(r.point) /\ InBox(r.best)
  /\ r.what = "parts" =>
       Measured(r.best, r.bestUtil) /\ (r.status = "running" => objective.parts # <<>>)

\* A descent stays in the limits, which are not empty.
WithinLimits ==
  /\ stage = "ranges" => run.status = "off"
  /\ stage \in {"seeds", "utility", "free"} => BoxThere
  /\ run.status # "off" => BoxThere /\ GoodRun(run)
  /\ run.status # "off" => stage \in {"seeds", "utility", "free"} \/ caller = "probe"

ProbeInv ==
  /\ run.what = "parts" => caller = "probe"
  /\ caller = "probe" =>
       /\ stage \in {"ranges", "seeds", "returned"}
       /\ run.status # "off" => run.what = "parts"
  /\ stage = "ranges" => chosen.point = NoNumber
  /\ FeasiblePoint

SolveInv ==
  caller = "getSolution" =>
    /\ stage = "ranges" => kept = <<>>
    /\ stage = "selecting" => kept # <<>>
    /\ BestReturned

Held == DescentTypeOK /\ WithinLimits /\ ProbeInv /\ SolveInv
DescentInv == caller # "existsSolution" => Held

-----------------------------------------------------------------------------
(* Folds, as runs of the operator. *)

LEMMA JoinedRun ==
  ASSUME NEW base, NEW seq, NEW n \in Nat, DOMAIN seq = 1 .. n
  PROVE  \E h : ByJoined!Run(h, base, seq, n) /\ FoldLeft(Joined, base, seq) = h[n]
<1> DEFINE Shape(g) == g = [s \in SUBSET DOMAIN seq |-> IF s = {} THEN base
                                                        ELSE Joined(g[s \ {Max(s)}], seq[Max(s)])]
<1>1. \A g : Shape(g) <=> ByJoined!Table(g, base, seq, 1 .. n)
  BY DEF ByJoined!Table, ByJoined!Top, Max
<1>2. \E g : Shape(g)
  BY <1>1, ByJoined!TableExists
<1>3. FoldLeft(Joined, base, seq) = (CHOOSE g : Shape(g))[DOMAIN seq]
  BY DEF FoldLeft, MapThenFoldSet
<1> HIDE DEF Shape
<1>4. PICK g : Shape(g) /\ FoldLeft(Joined, base, seq) = g[1 .. n]
  BY <1>2, <1>3
<1>5. ByJoined!Table(g, base, seq, 1 .. n)
  BY <1>1, <1>4
<1>6. \E h : ByJoined!Run(h, base, seq, n) /\ h[n] = g[1 .. n]
  BY <1>5, ByJoined!FoldRun
<1>7. QED
  BY <1>4, <1>6

LEMMA SummedRun ==
  ASSUME NEW base, NEW seq, NEW n \in Nat, DOMAIN seq = 1 .. n
  PROVE  \E h : BySummed!Run(h, base, seq, n) /\ FoldLeft(Summed, base, seq) = h[n]
<1> DEFINE Shape(g) == g = [s \in SUBSET DOMAIN seq |-> IF s = {} THEN base
                                                        ELSE Summed(g[s \ {Max(s)}], seq[Max(s)])]
<1>1. \A g : Shape(g) <=> BySummed!Table(g, base, seq, 1 .. n)
  BY DEF BySummed!Table, BySummed!Top, Max
<1>2. \E g : Shape(g)
  BY <1>1, BySummed!TableExists
<1>3. FoldLeft(Summed, base, seq) = (CHOOSE g : Shape(g))[DOMAIN seq]
  BY DEF FoldLeft, MapThenFoldSet
<1> HIDE DEF Shape
<1>4. PICK g : Shape(g) /\ FoldLeft(Summed, base, seq) = g[1 .. n]
  BY <1>2, <1>3
<1>5. BySummed!Table(g, base, seq, 1 .. n)
  BY <1>1, <1>4
<1>6. \E h : BySummed!Run(h, base, seq, n) /\ h[n] = g[1 .. n]
  BY <1>5, BySummed!FoldRun
<1>7. QED
  BY <1>4, <1>6

LEMMA BetterRun ==
  ASSUME NEW base, NEW seq, NEW n \in Nat, DOMAIN seq = 1 .. n
  PROVE  \E h : ByBetter!Run(h, base, seq, n) /\ FoldLeft(Better, base, seq) = h[n]
<1> DEFINE Shape(g) == g = [s \in SUBSET DOMAIN seq |-> IF s = {} THEN base
                                                        ELSE Better(g[s \ {Max(s)}], seq[Max(s)])]
<1>1. \A g : Shape(g) <=> ByBetter!Table(g, base, seq, 1 .. n)
  BY DEF ByBetter!Table, ByBetter!Top, Max
<1>2. \E g : Shape(g)
  BY <1>1, ByBetter!TableExists
<1>3. FoldLeft(Better, base, seq) = (CHOOSE g : Shape(g))[DOMAIN seq]
  BY DEF FoldLeft, MapThenFoldSet
<1> HIDE DEF Shape
<1>4. PICK g : Shape(g) /\ FoldLeft(Better, base, seq) = g[1 .. n]
  BY <1>2, <1>3
<1>5. ByBetter!Table(g, base, seq, 1 .. n)
  BY <1>1, <1>4
<1>6. \E h : ByBetter!Run(h, base, seq, n) /\ h[n] = g[1 .. n]
  BY <1>5, ByBetter!FoldRun
<1>7. QED
  BY <1>4, <1>6

LEMMA RangeRun ==
  ASSUME NEW base, NEW seq, NEW n \in Nat, DOMAIN seq = 1 .. n
  PROVE  \E h : ByRange!Run(h, base, seq, n) /\ FoldLeft(Intersected, base, seq) = h[n]
<1> DEFINE Shape(g) == g = [s \in SUBSET DOMAIN seq |-> IF s = {} THEN base
                                                        ELSE Intersected(g[s \ {Max(s)}], seq[Max(s)])]
<1>1. \A g : Shape(g) <=> ByRange!Table(g, base, seq, 1 .. n)
  BY DEF ByRange!Table, ByRange!Top, Max
<1>2. \E g : Shape(g)
  BY <1>1, ByRange!TableExists
<1>3. FoldLeft(Intersected, base, seq) = (CHOOSE g : Shape(g))[DOMAIN seq]
  BY DEF FoldLeft, MapThenFoldSet
<1> HIDE DEF Shape
<1>4. PICK g : Shape(g) /\ FoldLeft(Intersected, base, seq) = g[1 .. n]
  BY <1>2, <1>3
<1>5. ByRange!Table(g, base, seq, 1 .. n)
  BY <1>1, <1>4
<1>6. \E h : ByRange!Run(h, base, seq, n) /\ h[n] = g[1 .. n]
  BY <1>5, ByRange!FoldRun
<1>7. QED
  BY <1>4, <1>6

-----------------------------------------------------------------------------
(* Landscapes *)

Spots == LowestSpot .. HighestSpot
Seens == [util : Int, slope : Int]

LEMMA AddedTyped ==
  ASSUME NEW a \in Int, NEW b \in Int
  PROVE  Added(a, b) \in Int /\ (a <= 0 /\ b <= 0 => Added(a, b) <= 0)
BY DEF Added, NoNumber

LEMMA JoinedTyped ==
  ASSUME NEW a \in Seens, NEW b \in Seens
  PROVE  /\ Joined(a, b) \in Seens /\ Summed(a, b) \in Seens
         /\ Summed(a, b).util = Joined(a, b).util
         /\ Joined(a, b).util > 0 => a.util > 0 /\ Met(b)
<1>1. /\ Added(a.util, b.util) \in Int /\ Added(a.slope, b.slope) \in Int
      /\ a.util <= 0 /\ b.util <= 0 => Added(a.util, b.util) <= 0
  BY AddedTyped DEF Seens
<1>2. Joined(a, b) \in Seens
  BY <1>1 DEF Joined, Seens
<1>3. Summed(a, b) \in Seens /\ Summed(a, b).util = Joined(a, b).util
  BY <1>1, <1>2, Zenon DEF Summed, Seens
<1>4. Joined(a, b).util > 0 => a.util > 0 /\ Met(b)
  BY <1>1 DEF Joined, Seens, Met, NoNumber
<1>5. QED
  BY <1>2, <1>3, <1>4

LEMMA LookTyped ==
  ASSUME objective \in Objectives, NEW p \in Spots
  PROVE  /\ objective.all[p] \in Seens /\ objective.utility[p] \in Seens
         /\ Len(objective.parts) \in Nat /\ DOMAIN objective.parts = 1 .. Len(objective.parts)
         /\ PartsAt(p) \in Seq(Seens) /\ Len(PartsAt(p)) = Len(objective.parts)
         /\ \A i \in DOMAIN objective.parts : PartsAt(p)[i] = objective.parts[i][p]
<1>1. /\ objective.all \in Landscape /\ objective.utility \in Landscape
      /\ objective.parts \in Seq(Landscape)
  BY DescentAssumption
<1>2. objective.all[p] \in Seens /\ objective.utility[p] \in Seens
  BY <1>1 DEF Landscape, Seens, Spots
<1>3. /\ Len(objective.parts) \in Nat /\ DOMAIN objective.parts = 1 .. Len(objective.parts)
      /\ \A i \in DOMAIN objective.parts : objective.parts[i] \in Landscape
  BY <1>1
<1>4. \A i \in DOMAIN objective.parts : objective.parts[i][p] \in Seens
  BY <1>3 DEF Landscape, Seens, Spots
<1>5. PartsAt(p) \in [1 .. Len(objective.parts) -> Seens]
  BY <1>3, <1>4 DEF PartsAt
<1>6. PartsAt(p) \in Seq(Seens) /\ Len(PartsAt(p)) = Len(objective.parts)
  BY <1>3, <1>5
<1>7. QED
  BY <1>2, <1>3, <1>6 DEF PartsAt

\* Joining from a start on: the utility stays positive only while every part is met.
LEMMA AllMet ==
  ASSUME NEW n \in Nat, NEW seq \in [1 .. n -> Seens], NEW h, h[0] \in Seens,
         \A k \in 1 .. n : h[k] \in {Joined(h[k - 1], seq[k]), Summed(h[k - 1], seq[k])}
  PROVE  h[n] \in Seens /\ (h[n].util > 0 => h[0].util > 0 /\ \A k \in 1 .. n : Met(seq[k]))
<1> DEFINE Good(k) == h[k] \in Seens /\ (h[k].util > 0 => h[0].util > 0 /\ \A j \in 1 .. k : Met(seq[j]))
           S == {k \in Nat : k <= n => Good(k)}
<1>1. 0 \in S
  OBVIOUS
<1>2. ASSUME NEW k \in Nat, k \in S PROVE k + 1 \in S
  <2>1. CASE k + 1 <= n
    <3>1. k + 1 \in 1 .. n /\ Good(k) /\ (k + 1) - 1 = k
      BY <1>2, <2>1
    <3>2. h[k + 1] \in {Joined(h[k], seq[k + 1]), Summed(h[k], seq[k + 1])} /\ seq[k + 1] \in Seens
      BY <3>1
    <3>3. h[k + 1] \in Seens /\ (h[k + 1].util > 0 => h[k].util > 0 /\ Met(seq[k + 1]))
      BY <3>1, <3>2, JoinedTyped
    <3>4. ASSUME h[k + 1].util > 0, NEW j \in 1 .. k + 1 PROVE Met(seq[j])
      <4>1. CASE j = k + 1
        BY <4>1, <3>3, <3>4
      <4>2. CASE j \in 1 .. k
        BY <4>2, <3>1, <3>3, <3>4
      <4>3. QED
        BY <4>1, <4>2
    <3>5. QED
      BY <3>1, <3>3, <3>4
  <2>2. CASE ~(k + 1 <= n)
    BY <2>2
  <2>3. QED
    BY <2>1, <2>2
<1>3. n \in S
  <2> HIDE DEF S
  <2> QED BY <1>1, <1>2, ByJoined!SetInduction
<1>4. QED
  BY <1>3

\* The two ways of looking at a point: a positive utility means that no part is violated.
LEMMA AtFirstMet ==
  ASSUME objective \in Objectives, NEW p \in Spots
  PROVE  /\ AtFirst(p) \in Seens
         /\ AtFirst(p).util > 0 => \A i \in DOMAIN objective.parts : Met(objective.parts[i][p])
         /\ objective.parts = <<>> => AtFirst(p).util = 100
<1> DEFINE parts == PartsAt(p)
           n == Len(objective.parts)
           base == [util |-> 100, slope |-> 0]
<1>1. /\ n \in Nat /\ parts \in [1 .. n -> Seens] /\ DOMAIN objective.parts = 1 .. n
      /\ \A i \in 1 .. n : parts[i] = objective.parts[i][p]
  BY LookTyped
<1>2. base \in Seens
  BY DEF Seens
<1> HIDE DEF parts, n, base
<1>3. PICK h : BySummed!Run(h, base, parts, n) /\ FoldLeft(Summed, base, parts) = h[n]
  BY <1>1, SummedRun
<1>4. AtFirst(p) = h[n]
  BY <1>3 DEF AtFirst, parts, base
<1>5. h[0] = base /\ \A k \in 1 .. n : h[k] = Summed(h[k - 1], parts[k])
  BY <1>3, Zenon DEF BySummed!Run
<1>6. h[n] \in Seens /\ (h[n].util > 0 => \A k \in 1 .. n : Met(parts[k]))
  BY <1>1, <1>2, <1>5, AllMet
<1>7. objective.parts = <<>> => n = 0
  BY DEF n
<1>8. QED
  BY <1>1, <1>4, <1>5, <1>6, <1>7 DEF base

LEMMA DifferentiatedMet ==
  ASSUME objective \in Objectives, NEW p \in Spots, objective.parts # <<>>
  PROVE  /\ Differentiated(p) \in Seens
         /\ Differentiated(p).util > 0 => \A i \in DOMAIN objective.parts : Met(objective.parts[i][p])
<1> DEFINE parts == PartsAt(p)
           m == Len(objective.parts)
           tail == Tail(parts)
           n == m - 1
<1>1. /\ m \in Nat /\ parts \in Seq(Seens) /\ Len(parts) = m /\ DOMAIN objective.parts = 1 .. m
      /\ \A i \in 1 .. m : parts[i] = objective.parts[i][p]
  BY LookTyped
<1>2. m # 0
  <2>1. objective.parts \in Seq(Landscape)
    BY DescentAssumption
  <2>2. QED
    BY <2>1
<1>3. n \in Nat /\ DOMAIN tail = 1 .. n /\ tail \in [1 .. n -> Seens] /\ \A k \in 1 .. n : tail[k] = parts[k + 1]
  <2> HIDE DEF parts, m
  <2>1. parts # <<>> /\ n \in Nat
    BY <1>1, <1>2
  <2>2. tail \in Seq(Seens) /\ Len(tail) = n
    BY <1>1, <2>1
  <2>3. DOMAIN tail = 1 .. n /\ tail \in [1 .. n -> Seens]
    <3> HIDE DEF tail
    <3> QED BY <2>1, <2>2
  <2>4. \A k \in 1 .. n : tail[k] = parts[k + 1]
    BY <1>1, <2>1
  <2>5. QED
    BY <2>1, <2>3, <2>4
<1> HIDE DEF parts, m
<1>4. parts[1] \in Seens
  BY <1>1, <1>2
<1> HIDE DEF n, tail
<1>5. PICK h : ByJoined!Run(h, parts[1], tail, n) /\ FoldLeft(Joined, parts[1], tail) = h[n]
  BY <1>3, JoinedRun
<1>6. Differentiated(p) = h[n]
  BY <1>5 DEF Differentiated, parts, tail
<1>7. h[0] = parts[1] /\ \A k \in 1 .. n : h[k] = Joined(h[k - 1], tail[k])
  BY <1>5, Zenon DEF ByJoined!Run
<1>8. h[n] \in Seens /\ (h[n].util > 0 => h[0].util > 0 /\ \A k \in 1 .. n : Met(tail[k]))
  BY <1>3, <1>4, <1>7, AllMet
<1>9. ASSUME h[n].util > 0, NEW i \in 1 .. m PROVE Met(parts[i])
  <2>1. CASE i = 1
    BY <1>7, <1>8, <1>9, <2>1 DEF Met
  <2>2. CASE i # 1
    <3>1. i - 1 \in 1 .. n /\ (i - 1) + 1 = i
      BY <1>1, <2>2 DEF n
    <3>2. QED
      BY <1>3, <1>8, <1>9, <3>1
  <2>3. QED
    BY <2>1, <2>2
<1>10. QED
  BY <1>1, <1>6, <1>8, <1>9

-----------------------------------------------------------------------------
(* The limits and the start of a run *)

Boxes == {b \in [lo : Int, hi : Int] : LowestSpot <= b.lo /\ b.hi <= HighestSpot}

LEMMA LookSame ==
  ASSUME objective' = objective, NEW p, NEW u
  PROVE  Measured(p, u)' <=> Measured(p, u)
<1>1. PartsAt(p)' = PartsAt(p)
  BY DEF PartsAt
<1>2. AtFirst(p)' = AtFirst(p)
  BY <1>1 DEF AtFirst
<1>3. Differentiated(p)' = Differentiated(p)
  BY <1>1 DEF Differentiated
<1>4. QED
  BY <1>2, <1>3 DEF Measured

LEMMA IntersectedBox ==
  ASSUME caller # "existsSolution", NEW a \in Boxes, NEW b \in [lo : Int, hi : Int]
  PROVE  Intersected(a, b) \in Boxes
<1>1. a.lo \in Int /\ a.hi \in Int /\ b.lo \in Int /\ b.hi \in Int /\ a.lo >= LowestSpot /\ a.hi <= HighestSpot
  BY DEF Boxes
<1>2. \A x, y \in Int : Max({x, y}) \in Int /\ Max({x, y}) >= x
  <2> TAKE x, y \in Int
  <2>1. \E m \in {x, y} : \A z \in {x, y} : m >= z
    <3>1. CASE x >= y
      BY <3>1
    <3>2. CASE ~(x >= y)
      BY <3>2
    <3>3. QED
      BY <3>1, <3>2
  <2>2. QED
    BY <2>1 DEF Max
<1>3. \A x, y \in Int : Min({x, y}) \in Int /\ Min({x, y}) <= x
  <2> TAKE x, y \in Int
  <2>1. \E m \in {x, y} : \A z \in {x, y} : m <= z
    <3>1. CASE x <= y
      BY <3>1
    <3>2. CASE ~(x <= y)
      BY <3>2
    <3>3. QED
      BY <3>1, <3>2
  <2>2. QED
    BY <2>1 DEF Min
<1> DEFINE lo == Max({a.lo, b.lo}) hi == Min({a.hi, b.hi})
<1>4. lo \in Int /\ lo >= a.lo /\ hi \in Int /\ hi <= a.hi
  BY <1>1, <1>2, <1>3
<1>5. Intersected(a, b) = [lo |-> lo, hi |-> hi]
  BY DEF Intersected
<1> HIDE DEF lo, hi
<1>6. lo >= LowestSpot /\ hi <= HighestSpot
  BY <1>1, <1>4, DescentAssumption
<1>7. QED
  BY <1>4, <1>5, <1>6 DEF Boxes

LEMMA BoxOfRanges ==
  ASSUME caller # "existsSolution", rangeList \in RangeLists, NEW n \in 0 .. Len(rangeList)
  PROVE  FoldLeft(Intersected, Everything, SubSeq(rangeList, 1, n)) \in Boxes
<1> DEFINE seq == SubSeq(rangeList, 1, n)
<1>1. rangeList \in Seq([lo : Int, hi : Int])
  BY DescentAssumption
<1>2. n \in Nat /\ DOMAIN seq = 1 .. n /\ \A k \in 1 .. n : seq[k] \in [lo : Int, hi : Int]
  <2> DEFINE Ranges == [lo : Int, hi : Int]
  <2>0. /\ rangeList \in Seq(Ranges) /\ Len(rangeList) \in Nat
        /\ \A k \in 1 .. Len(rangeList) : rangeList[k] \in Ranges
    <3>1. rangeList \in Seq(Ranges)
      BY <1>1
    <3> HIDE DEF Ranges
    <3>2. QED
      BY <3>1
  <2> HIDE DEF Ranges
  <2>1. n \in Nat /\ \A k \in 1 .. n : k \in 1 .. Len(rangeList) /\ rangeList[k] \in Ranges
    BY <2>0
  <2>2. seq = [k \in 1 .. n |-> rangeList[k]]
    BY <2>0, <2>1
  <2>3. QED
    BY <2>1, <2>2 DEF Ranges
<1>3. Everything \in Boxes
  BY DescentAssumption DEF Everything, Boxes
<1> HIDE DEF seq
<1>4. PICK h : ByRange!Run(h, Everything, seq, n) /\ FoldLeft(Intersected, Everything, seq) = h[n]
  BY <1>2, RangeRun
<1>5. h[0] = Everything /\ \A k \in 1 .. n : h[k] = Intersected(h[k - 1], seq[k])
  BY <1>4, Zenon DEF ByRange!Run
<1> DEFINE S == {k \in Nat : k <= n => h[k] \in Boxes}
<1>6. 0 \in S
  BY <1>3, <1>5
<1>7. ASSUME NEW k \in Nat, k \in S PROVE k + 1 \in S
  <2>1. CASE k + 1 <= n
    <3>1. k + 1 \in 1 .. n /\ h[k] \in Boxes /\ (k + 1) - 1 = k
      BY <1>2, <1>7, <2>1
    <3>2. h[k + 1] = Intersected(h[k], seq[k + 1]) /\ seq[k + 1] \in [lo : Int, hi : Int]
      BY <1>2, <1>5, <3>1
    <3>3. QED
      BY <3>1, <3>2, IntersectedBox
  <2>2. CASE ~(k + 1 <= n)
    BY <2>2
  <2>3. QED
    BY <2>1, <2>2
<1>8. n \in S
  <2> HIDE DEF S
  <2> QED BY <1>2, <1>6, <1>7, ByRange!SetInduction
<1>9. QED
  BY <1>2, <1>4, <1>8 DEF seq

LEMMA SpotOfBox ==
  ASSUME box \in [lo : Int, hi : Int], BoxThere, NEW p \in Int, InBox(p)
  PROVE  p \in Spots
BY DescentAssumption DEF BoxThere, InBox, Spots

LEMMA ClampedIn ==
  ASSUME box \in [lo : Int, hi : Int], BoxThere, NEW p \in Int
  PROVE  Clamped(p) \in Int /\ InBox(Clamped(p))
BY DEF BoxThere, InBox, Clamped

Fresh(what, r) == r \in Runs /\ r.what = what /\ r.status # "off" /\ GoodRun(r)

LEMMA BegunFresh ==
  ASSUME box \in [lo : Int, hi : Int], BoxThere, objective \in Objectives, NEW what \in {"all", "utility", "parts"},
         NEW p \in box.lo .. box.hi, NEW precise \in BOOLEAN
  PROVE  Fresh(what, Begun(what, p, precise, IF what = "parts" THEN AtFirst(p) ELSE Seen(what, p)))
<1> DEFINE seen == IF what = "parts" THEN AtFirst(p) ELSE Seen(what, p)
           r == Begun(what, p, precise, seen)
<1>1. p \in Int /\ InBox(p)
  BY DEF InBox
<1>2. p \in Spots
  BY <1>1, SpotOfBox
<1>3. seen \in Seens
  BY <1>2, AtFirstMet, LookTyped DEF Seen
<1>4. what = "parts" => seen = AtFirst(p)
  OBVIOUS
<1> HIDE DEF seen
<1>5. /\ r \in Runs /\ r.what = what /\ r.point = p /\ r.best = p /\ r.bestUtil = seen.util
      /\ r.status = IF what = "parts" /\ seen.util > 50 THEN "over" ELSE "running"
  BY <1>1, <1>3, DescentAssumption DEF Begun, Runs, Seens
<1>6. what = "parts" /\ r.status = "running" => objective.parts # <<>>
  <2>1. objective.parts = <<>> => AtFirst(p).util = 100
    BY <1>2, AtFirstMet
  <2>2. QED
    BY <1>4, <1>5, <2>1
<1>7. what = "parts" => Measured(r.best, r.bestUtil)
  BY <1>4, <1>5 DEF Measured
<1>8. r.status # "off"
  BY <1>5
<1> HIDE DEF r
<1>9. Fresh(what, r)
  BY <1>1, <1>5, <1>6, <1>7, <1>8 DEF Fresh, GoodRun
<1>10. QED
  BY <1>9 DEF r, seen

LEMMA AnywhereFresh ==
  ASSUME box \in [lo : Int, hi : Int], BoxThere, objective \in Objectives,
         NEW what \in {"all", "utility", "parts"}, FromAnywhere(what)
  PROVE  Fresh(what, run')
BY BegunFresh DEF FromAnywhere

LEMMA SeedFresh ==
  ASSUME box \in [lo : Int, hi : Int], BoxThere, objective \in Objectives,
         NEW what \in {"all", "utility", "parts"}, NEW seed, NEW precise \in BOOLEAN,
         FromSeed(what, seed, precise)
  PROVE  Fresh(what, run')
BY BegunFresh DEF FromSeed

-----------------------------------------------------------------------------
(* The loop *)

LEMMA NewPointIn ==
  ASSUME box \in [lo : Int, hi : Int], BoxThere, run \in Runs
  PROVE  NewStep \in Int /\ NewPoint \in Int /\ InBox(NewPoint)
<1>1. run.step \in Int /\ run.point \in Int
  BY DEF Runs
<1>2. NewStep \in Int
  BY <1>1, DescentAssumption DEF NewStep
<1>3. NewPoint \in Int /\ InBox(NewPoint)
  BY <1>1, <1>2, ClampedIn DEF NewPoint
<1>4. QED
  BY <1>2, <1>3

LEMMA MovedTyped ==
  ASSUME run \in Runs, NEW p \in Int, NEW step \in Int
  PROVE  LET r == [Moved(run, p, step) EXCEPT !.iter = @ + 1]
         IN /\ r \in Runs /\ r.point = p /\ r.best = (IF run.what = "parts" THEN run.best ELSE p)
            /\ r.what = run.what /\ r.bestUtil = run.bestUtil /\ r.status = run.status
<1> DEFINE best == IF run.what = "parts" THEN run.best ELSE p
           m == [run EXCEPT !.point = p, !.step = step, !.best = best]
           iter == m.iter + 1
           r == [m EXCEPT !.iter = iter]
<1>1. Moved(run, p, step) = m
  BY DEF Moved
<1>2. best \in Int
  BY DEF Runs
<1> HIDE DEF best
<1>3. /\ m \in Runs /\ m.point = p /\ m.best = best /\ m.what = run.what
      /\ m.bestUtil = run.bestUtil /\ m.status = run.status
  BY <1>2, Zenon DEF Runs
<1> HIDE DEF m
<1>4. iter \in Int
  BY <1>3 DEF Runs
<1> HIDE DEF iter
<1>5. /\ r \in Runs /\ r.point = m.point /\ r.best = m.best /\ r.what = m.what
      /\ r.bestUtil = m.bestUtil /\ r.status = m.status
  BY <1>3, <1>4, Zenon DEF Runs
<1>6. QED
  BY <1>1, <1>3, <1>5 DEF best, iter

LEMMA IterateGood ==
  ASSUME box \in [lo : Int, hi : Int], BoxThere, objective \in Objectives,
         run \in Runs, GoodRun(run), Iterate
  PROVE  Fresh(run.what, run')
<1> DEFINE r == [Moved(run, NewPoint, NewStep) EXCEPT !.iter = @ + 1]
           seen == Seen(r.what, r.point)
           better == Above(seen.util, r.bestUtil)
<1>1. NewStep \in Int /\ NewPoint \in Int /\ InBox(NewPoint)
  BY NewPointIn
<1>2. /\ r \in Runs /\ r.point = NewPoint /\ r.best = (IF run.what = "parts" THEN run.best ELSE NewPoint)
      /\ r.what = run.what /\ r.bestUtil = run.bestUtil /\ r.status = "running"
  BY <1>1, MovedTyped DEF Iterate
<1> DEFINE over == [r EXCEPT !.status = "over"]
           aborted == [r EXCEPT !.aborted = TRUE, !.status = "over"]
           bad == IF better THEN 0 ELSE r.bad + 1
           bestUtil == IF better THEN seen.util ELSE r.bestUtil
           best == IF better THEN r.point ELSE r.best
           status == IF seen.slope = 0 \/ (r.what = "parts" /\ better /\ seen.util > Satisfied)
                     THEN "over" ELSE r.status
           on == [r EXCEPT !.util = seen.util, !.former = r.slope, !.slope = seen.slope, !.bad = bad,
                           !.bestUtil = bestUtil, !.best = best, !.status = status]
<1>3. run' \in {over, aborted, on}
  BY DEF Iterate
<1>4. InBox(r.point) /\ InBox(r.best) /\ r.point \in Spots
  BY <1>1, <1>2, SpotOfBox DEF GoodRun
<1>5. r.what = "parts" => Measured(r.best, r.bestUtil) /\ objective.parts # <<>>
  BY <1>2 DEF GoodRun, Iterate
<1>6. r.what = "parts" => seen = Differentiated(r.point)
  BY DEF Seen
<1>7. seen \in Seens
  BY <1>2, <1>4, <1>5, LookTyped, DifferentiatedMet DEF Seen, Runs
<1>8. better \in BOOLEAN
  BY DEF Above
<1> HIDE DEF r, seen, better
<1>9. over \in Runs /\ aborted \in Runs /\ GoodRun(over) /\ GoodRun(aborted) /\ over.what = r.what /\ aborted.what = r.what
      /\ over.status = "over" /\ aborted.status = "over"
  BY <1>2, <1>4, <1>5 DEF Runs, GoodRun
<1>10. /\ on \in Runs /\ on.what = r.what /\ on.point = r.point /\ on.status \in {"running", "over"}
       /\ on.best = (IF better THEN r.point ELSE r.best)
       /\ on.bestUtil = (IF better THEN seen.util ELSE r.bestUtil)
  <2>1. /\ bad \in Int /\ bestUtil \in Int /\ best \in Int /\ status \in {"running", "over"}
        /\ r.slope \in Int /\ seen.util \in Int /\ seen.slope \in Int
    BY <1>2, <1>7, <1>8 DEF Runs, Seens
  <2> HIDE DEF bad, bestUtil, best, status
  <2>2. /\ on \in Runs /\ on.what = r.what /\ on.point = r.point /\ on.status = status
        /\ on.best = best /\ on.bestUtil = bestUtil
    BY <1>2, <2>1, Zenon DEF Runs
  <2>3. QED
    BY <2>1, <2>2 DEF bestUtil, best
<1>11. on.what = "parts" => Measured(on.best, on.bestUtil) /\ objective.parts # <<>>
  BY <1>5, <1>6, <1>10 DEF Measured
<1> HIDE DEF over, aborted, on
<1>12. Fresh(r.what, on)
  BY <1>4, <1>10, <1>11 DEF Fresh, GoodRun
<1>13. Fresh(r.what, over) /\ Fresh(r.what, aborted)
  BY <1>9 DEF Fresh
<1>14. QED
  BY <1>2, <1>3, <1>12, <1>13

LEMMA EndLoopGood ==
  ASSUME run \in Runs, GoodRun(run), EndLoop
  PROVE  Fresh(run.what, run')
<1> DEFINE over == [run EXCEPT !.status = "over"]
<1>1. /\ over \in Runs /\ over.what = run.what /\ over.point = run.point /\ over.best = run.best
      /\ over.bestUtil = run.bestUtil /\ over.status = "over" /\ run' = over
  BY DEF Runs, EndLoop
<1> HIDE DEF over
<1>2. QED
  BY <1>1 DEF Fresh, GoodRun

-----------------------------------------------------------------------------
(* The best of the results *)

Beaten(i, best) ==
  \/ kept[i].util = NoNumber
  \/ /\ kept[best].util # NoNumber
     /\ \/ kept[i].util <= kept[best].util
        \/ /\ best = 1 /\ seedList # <<>>
           /\ kept[i].util <= Satisfied \/ kept[i].util - kept[best].util <= Significance

LEMMA BetterBeats ==
  ASSUME seedList \in SeedLists, kept \in Seq(Results), NEW k \in 1 .. Len(kept) - 1, NEW acc \in 1 .. k,
         \A i \in 1 .. k : Beaten(i, acc)
  PROVE  Better(acc, k + 1) \in 1 .. k + 1 /\ \A i \in 1 .. k + 1 : Beaten(i, Better(acc, k + 1))
<1> DEFINE u(i) == kept[i].util
           seeded == seedList # <<>>
<1>1. \A i \in 1 .. Len(kept) : kept[i] \in Results /\ u(i) \in Int
  <2>1. \A i \in 1 .. Len(kept) : kept[i] \in Results
    OBVIOUS
  <2>2. QED
    BY <2>1 DEF Results
<1>2. Len(seedList) > 0 <=> seeded
  BY DescentAssumption
<1>3. k \in Nat /\ acc \in Nat /\ k + 1 \in 1 .. Len(kept) /\ acc \in 1 .. Len(kept) /\ acc \in 1 .. k + 1
      /\ \A i \in 1 .. k : i \in 1 .. Len(kept)
  OBVIOUS
<1>4. u(acc) \in Int /\ u(k + 1) \in Int /\ Satisfied \in Int /\ NoNumber \in Int /\ Significance \in Int
  BY <1>1, <1>3, DescentAssumption DEF Satisfied, NoNumber
<1> DEFINE keep == \/ u(acc) # NoNumber /\ ~Above(u(k + 1), u(acc))
                   \/ /\ acc = 1 /\ seeded /\ u(acc) # NoNumber
                      /\ ~(u(k + 1) - u(acc) > Significance /\ u(k + 1) > Satisfied)
<1>5. Better(acc, k + 1) = IF keep THEN acc ELSE k + 1
  BY <1>2 DEF Better
<1>6. CASE keep
  <2>1. Beaten(k + 1, acc)
    BY <1>4, <1>6 DEF Beaten, Above
  <2>2. ASSUME NEW i \in 1 .. k + 1 PROVE Beaten(i, acc)
    <3>1. i \in 1 .. k \/ i = k + 1
      BY <1>3
    <3>2. QED
      BY <2>1, <3>1
  <2>3. QED
    BY <1>3, <1>5, <1>6, <2>2
<1>7. CASE ~keep
  <2>1. ASSUME NEW i \in 1 .. k PROVE Beaten(i, k + 1)
    <3>1. Beaten(i, acc) /\ u(i) \in Int
      BY <1>1, <1>3
    <3>2. QED
      BY <1>4, <1>7, <3>1 DEF Beaten, Above
  <2>2. Beaten(k + 1, k + 1)
    BY <1>4 DEF Beaten
  <2>3. ASSUME NEW i \in 1 .. k + 1 PROVE Beaten(i, k + 1)
    <3>1. i \in 1 .. k \/ i = k + 1
      BY <1>3
    <3>2. QED
      BY <2>1, <2>2, <3>1
  <2>4. k + 1 \in 1 .. k + 1
    BY <1>3
  <2>5. QED
    BY <1>5, <1>7, <2>3, <2>4
<1>8. QED
  BY <1>6, <1>7

LEMMA SelectedBest ==
  ASSUME seedList \in SeedLists, kept \in Seq(Results), kept # <<>>
  PROVE  LET best == FoldLeft(Better, 1, [i \in 1 .. (Len(kept) - 1) |-> i + 1])
         IN best \in 1 .. Len(kept) /\ \A i \in 1 .. Len(kept) : Beaten(i, best)
<1> DEFINE n == Len(kept) - 1
           seq == [i \in 1 .. n |-> i + 1]
<1>1. n \in Nat /\ n + 1 = Len(kept)
  BY DEF Results
<1>2. DOMAIN seq = 1 .. n /\ \A k \in 1 .. n : seq[k] = k + 1
  OBVIOUS
<1> HIDE DEF seq, n
<1>3. PICK h : ByBetter!Run(h, 1, seq, n) /\ FoldLeft(Better, 1, seq) = h[n]
  BY <1>1, <1>2, BetterRun
<1>4. h[0] = 1 /\ \A k \in 1 .. n : h[k] = Better(h[k - 1], k + 1)
  <2>1. h[0] = 1 /\ \A k \in 1 .. n : h[k] = Better(h[k - 1], seq[k])
    BY <1>3, Zenon DEF ByBetter!Run
  <2>2. QED
    BY <1>2, <2>1
<1> DEFINE Best(k) == h[k] \in 1 .. k + 1 /\ \A i \in 1 .. k + 1 : Beaten(i, h[k])
           S == {k \in Nat : k <= n => Best(k)}
<1>5. 0 \in S
  <2>1. kept[1] \in Results
    BY <1>1
  <2>2. kept[1].util <= kept[1].util
    BY <2>1 DEF Results
  <2>3. Beaten(1, 1)
    BY <2>2 DEF Beaten
  <2>4. \A i \in 1 .. 0 + 1 : i = 1
    OBVIOUS
  <2>5. QED
    BY <1>4, <2>3, <2>4
<1>6. ASSUME NEW k \in Nat, k \in S PROVE k + 1 \in S
  <2>1. CASE k + 1 <= n
    <3>1. k + 1 \in 1 .. n /\ Best(k) /\ (k + 1) - 1 = k /\ k + 1 \in 1 .. Len(kept) - 1
      BY <1>1, <1>6, <2>1
    <3>2. h[k + 1] = Better(h[k], (k + 1) + 1)
      BY <1>4, <3>1
    <3>3. /\ Better(h[k], (k + 1) + 1) \in 1 .. (k + 1) + 1
          /\ \A i \in 1 .. (k + 1) + 1 : Beaten(i, Better(h[k], (k + 1) + 1))
      BY <3>1, BetterBeats
    <3>4. Best(k + 1)
      BY <3>2, <3>3
    <3>5. QED
      BY <3>4
  <2>2. CASE ~(k + 1 <= n)
    BY <2>2
  <2>3. QED
    BY <2>1, <2>2
<1>7. n \in S
  <2> HIDE DEF S
  <2> QED BY <1>1, <1>5, <1>6, ByBetter!SetInduction
<1>8. Best(n)
  BY <1>1, <1>7
<1>9. QED
  BY <1>1, <1>3, <1>8 DEF seq, n

-----------------------------------------------------------------------------
(* The invariant *)

Unasked == UNCHANGED <<caller, objective, seedList, rangeList, box>>

LEMMA FreshGood ==
  ASSUME objective' = objective, box' = box, NEW what, Fresh(what, run')
  PROVE  run' \in Runs /\ run'.what = what /\ run'.status # "off" /\ GoodRun(run)'
<1>1. \A p, u : Measured(p, u)' <=> Measured(p, u)
  BY LookSame
<1>2. \A p : InBox(p)' <=> InBox(p)
  BY DEF InBox
<1>3. QED
  BY <1>1, <1>2 DEF Fresh, GoodRun

LEMMA RunSame ==
  ASSUME objective' = objective, box' = box, run' = run
  PROVE  GoodRun(run)' <=> GoodRun(run)
<1>1. \A p, u : Measured(p, u)' <=> Measured(p, u)
  BY LookSame
<1>2. \A p : InBox(p)' <=> InBox(p)
  BY DEF InBox
<1>3. QED
  BY <1>1, <1>2 DEF GoodRun

LEMMA PromiseSame ==
  ASSUME UNCHANGED <<caller, objective, box, chosen, verdict>>, FeasiblePoint,
         stage' = "returned" => stage = "returned"
  PROVE  FeasiblePoint'
<1>1. \A p, u : Measured(p, u)' <=> Measured(p, u)
  BY LookSame
<1>2. \A p : InBox(p)' <=> InBox(p)
  BY DEF InBox
<1>3. FeasiblePoint <=>
        (caller = "probe" /\ stage = "returned" /\ chosen.point # NoNumber =>
           /\ InBox(chosen.point) /\ Measured(chosen.point, chosen.util)
           /\ verdict = "yes" => \A i \in DOMAIN objective.parts : Met(objective.parts[i][chosen.point]))
  BY DEF FeasiblePoint, Measured
<1>4. FeasiblePoint' <=>
        (caller' = "probe" /\ stage' = "returned" /\ chosen'.point # NoNumber =>
           /\ InBox(chosen.point)' /\ Measured(chosen.point, chosen.util)'
           /\ verdict' = "yes" => \A i \in DOMAIN objective'.parts : Met(objective'.parts[i][chosen'.point]))
  BY DEF FeasiblePoint, Measured
<1>5. QED
  BY <1>1, <1>2, <1>3, <1>4

LEMMA NoRunTyped == NoRun \in Runs /\ NoRun.status = "off" /\ NoRun.what = "all"
BY DEF NoRun, Runs, NoNumber

LEMMA SolveSame ==
  ASSUME SolveInv, UNCHANGED <<caller, objective, seedList, kept, chosen>>, stage' # "ranges",
         stage' = "returned" => stage = "returned", stage' = "selecting" => stage = "selecting"
  PROVE  SolveInv'
<1>1. Sufficient' = Sufficient
  BY DEF Sufficient
<1>2. BestReturned => BestReturned'
  BY <1>1 DEF BestReturned
<1>3. QED
  BY <1>2 DEF SolveInv

\* A descent that begins or goes on.
LEMMA RunStep ==
  ASSUME Held, caller # "existsSolution", Unasked, UNCHANGED <<kept, chosen, verdict>>,
         stage # "ranges", stage' = stage \/ (stage' = "free" /\ caller # "probe"),
         stage \in {"seeds", "utility", "free"} \/ caller = "probe",
         BoxThere, NEW what, Fresh(what, run'), what = "parts" <=> caller = "probe"
  PROVE  Held'
<1>1. run' \in Runs /\ run'.what = what /\ run'.status # "off" /\ GoodRun(run)'
  BY FreshGood DEF Unasked
<1>2. DescentTypeOK'
  BY <1>1 DEF Held, DescentTypeOK, Unasked
<1>3. BoxThere'
  BY DEF BoxThere, Unasked
<1>4. WithinLimits'
  BY <1>1, <1>3 DEF WithinLimits, Unasked
<1>5. stage' # "ranges" /\ (stage' = "returned" => stage = "returned") /\ (stage' = "selecting" => stage = "selecting")
  OBVIOUS
<1>6. FeasiblePoint'
  BY <1>5, PromiseSame DEF Held, ProbeInv, Unasked
<1>7. ProbeInv'
  BY <1>1, <1>5, <1>6 DEF Held, ProbeInv, Unasked
<1>8. SolveInv'
  BY <1>5, SolveSame DEF Held, Unasked
<1>9. QED
  BY <1>2, <1>4, <1>7, <1>8 DEF Held

LEMMA LoopStep ==
  ASSUME Held, caller # "existsSolution", Iterate \/ EndLoop
  PROVE  Held'
<1>1. run \in Runs /\ box \in [lo : Int, hi : Int] /\ objective \in Objectives
  BY DEF Held, DescentTypeOK
<1>2. run.status = "running"
  BY DEF Iterate, EndLoop
<1>3. BoxThere /\ GoodRun(run) /\ stage # "ranges" /\ (stage \in {"seeds", "utility", "free"} \/ caller = "probe")
  BY <1>2 DEF Held, WithinLimits
<1>4. run.what = "parts" <=> caller = "probe"
  BY <1>2 DEF Held, ProbeInv
<1>5. Fresh(run.what, run')
  BY <1>1, <1>3, IterateGood, EndLoopGood
<1>6. Unasked /\ UNCHANGED <<stage, kept, chosen, verdict>>
  BY DEF Iterate, EndLoop, Unasked
<1>7. QED
  BY <1>3, <1>4, <1>5, <1>6, RunStep

Begins == \/ RunSeed \/ RunUtility \/ RunFromUtility \/ RunFree \/ SimpleSeed \/ SimpleRun
          \/ ProbeSeed \/ ProbeAgain

LEMMA BeginStep ==
  ASSUME Held, caller # "existsSolution", Begins
  PROVE  Held'
<1>1. box \in [lo : Int, hi : Int] /\ objective \in Objectives
  BY DEF Held, DescentTypeOK
<1>2. stage \in {"seeds", "utility", "free"}
  BY DEF Begins, RunSeed, RunUtility, RunFromUtility, RunFree, SimpleSeed, SimpleRun, ProbeSeed, ProbeAgain,
         Asking, Probing
<1>3. BoxThere /\ stage # "ranges"
  BY <1>2 DEF Held, WithinLimits
<1>4. Unasked /\ UNCHANGED <<kept, chosen, verdict>>
  BY DEF Begins, RunSeed, RunUtility, RunFromUtility, RunFree, SimpleSeed, SimpleRun, ProbeSeed, ProbeAgain,
         StayAsked, Unasked
<1>5. stage' = stage \/ (stage' = "free" /\ caller # "probe")
  BY DEF Begins, RunSeed, RunUtility, RunFromUtility, RunFree, SimpleSeed, SimpleRun, ProbeSeed, ProbeAgain, Asking
<1>6. \E what \in {"all", "utility", "parts"} : Fresh(what, run') /\ (what = "parts" <=> caller = "probe")
  <2>1. CASE RunSeed
    <3>1. (next = 1) \in BOOLEAN
      OBVIOUS
    <3>2. Fresh("all", run') /\ caller # "probe"
      BY <1>1, <1>3, <2>1, <3>1, SeedFresh DEF RunSeed, Solving
    <3>3. QED
      BY <3>2
  <2>2. CASE RunUtility
    <3>1. Fresh("utility", run') /\ caller # "probe"
      BY <1>1, <1>3, <2>2, AnywhereFresh DEF RunUtility, Solving
    <3>2. QED
      BY <3>1
  <2>3. CASE RunFromUtility
    <3>1. Fresh("all", run') /\ caller # "probe"
      BY <1>1, <1>3, <2>3, SeedFresh DEF RunFromUtility, Solving
    <3>2. QED
      BY <3>1
  <2>4. CASE RunFree
    <3>1. Fresh("all", run') /\ caller # "probe"
      BY <1>1, <1>3, <2>4, AnywhereFresh DEF RunFree, Solving
    <3>2. QED
      BY <3>1
  <2>5. CASE SimpleSeed
    <3>1. Fresh("all", run') /\ caller # "probe"
      BY <1>1, <1>3, <2>5, SeedFresh DEF SimpleSeed
    <3>2. QED
      BY <3>1
  <2>6. CASE SimpleRun
    <3>1. Fresh("all", run') /\ caller # "probe"
      BY <1>1, <1>3, <2>6, AnywhereFresh DEF SimpleRun, Asking
    <3>2. QED
      BY <3>1
  <2>7. CASE ProbeSeed
    <3>1. Fresh("parts", run') /\ caller = "probe"
      BY <1>1, <1>3, <2>7, SeedFresh, AnywhereFresh DEF ProbeSeed, Probing
    <3>2. QED
      BY <3>1
  <2>8. CASE ProbeAgain
    <3>1. Fresh("parts", run') /\ caller = "probe"
      BY <1>1, <1>3, <2>8, AnywhereFresh DEF ProbeAgain, Probing
    <3>2. QED
      BY <3>1
  <2>9. QED
    BY <2>1, <2>2, <2>3, <2>4, <2>5, <2>6, <2>7, <2>8 DEF Begins
<1>7. QED
  BY <1>2, <1>3, <1>4, <1>5, <1>6, RunStep

LEMMA TakeRangesStep ==
  ASSUME Held, caller # "existsSolution", TakeRanges
  PROVE  Held'
<1> DEFINE boxes == [n \in 0 .. Len(rangeList) |-> FoldLeft(Intersected, Everything, SubSeq(rangeList, 1, n))]
<1>1. /\ objective \in Objectives /\ rangeList \in RangeLists /\ chosen \in [point : Int, util : Int]
      /\ run \in Runs
  BY DEF Held, DescentTypeOK
<1>2. \A n \in 0 .. Len(rangeList) : boxes[n] \in Boxes
  BY <1>1, BoxOfRanges
<1>3. Len(rangeList) \in 0 .. Len(rangeList) /\ DOMAIN boxes = 0 .. Len(rangeList)
  <2>1. rangeList \in Seq([lo : Int, hi : Int])
    BY <1>1, DescentAssumption
  <2>2. Len(rangeList) \in Nat
    BY <2>1
  <2>3. QED
    BY <2>2
<1>4. stage = "ranges" /\ box' = boxes[Len(rangeList)]
  BY DEF TakeRanges
<1>5. box' \in [lo : Int, hi : Int] /\ box' \in Boxes
  BY <1>2, <1>3, <1>4 DEF Boxes
<1>6. /\ stage' \in {"returned", "seeds"}
      /\ stage' = "seeds" => \A n \in DOMAIN boxes : ~(boxes[n].lo > boxes[n].hi)
  BY DEF TakeRanges
<1> HIDE DEF boxes
<1>7. stage' = "seeds" => BoxThere'
  <2>1. SUFFICES ASSUME stage' = "seeds" PROVE BoxThere'
    OBVIOUS
  <2>2. ~(box'.lo > box'.hi)
    BY <1>3, <1>4, <1>6, <2>1
  <2>3. QED
    BY <1>5, <2>2 DEF BoxThere, Boxes
<1>8. run.status = "off" /\ run' = run /\ caller' = caller
  BY <1>4 DEF Held, WithinLimits, TakeRanges
<1>9. chosen' \in [point : Int, util : Int]
  <2>1. MiddleOf(box)' \in Int
    BY <1>5 DEF MiddleOf
  <2>2. chosen' = chosen \/ chosen' = [point |-> MiddleOf(box)', util |-> 0]
    BY DEF TakeRanges, MiddleOf
  <2>3. QED
    BY <1>1, <2>1, <2>2
<1>10. DescentTypeOK'
  BY <1>5, <1>9 DEF Held, DescentTypeOK, TakeRanges
<1>11. WithinLimits'
  BY <1>6, <1>7, <1>8 DEF WithinLimits
<1>12. caller = "probe" => chosen'.point = NoNumber
  BY <1>4 DEF Held, ProbeInv, TakeRanges
<1>13. ProbeInv'
  BY <1>6, <1>8, <1>12 DEF Held, ProbeInv, FeasiblePoint
<1>14. caller = "getSolution" => kept' = <<>>
  BY <1>4 DEF Held, SolveInv, TakeRanges
<1>15. SolveInv'
  BY <1>6, <1>8, <1>14 DEF SolveInv, BestReturned
<1>16. QED
  BY <1>10, <1>11, <1>13, <1>15 DEF Held

LEMMA LeaveSeedsStep ==
  ASSUME Held, caller # "existsSolution", LeaveSeeds
  PROVE  Held'
<1>1. /\ Unasked /\ UNCHANGED <<run, kept, chosen, verdict>> /\ stage = "seeds"
      /\ stage' \in {"utility", "free"} /\ caller = "getSolution"
  BY DEF LeaveSeeds, Solving, StayAsked, Unasked
<1>2. DescentTypeOK'
  BY <1>1 DEF Held, DescentTypeOK, Unasked
<1>3. BoxThere'
  BY <1>1 DEF Held, WithinLimits, BoxThere, Unasked
<1>4. GoodRun(run)' <=> GoodRun(run)
  BY <1>1, RunSame DEF Unasked
<1>5. WithinLimits'
  BY <1>1, <1>3, <1>4 DEF Held, WithinLimits
<1>6. ProbeInv'
  BY <1>1 DEF Held, ProbeInv, Unasked, FeasiblePoint
<1>7. SolveInv'
  BY <1>1, SolveSame DEF Held, Unasked
<1>8. QED
  BY <1>2, <1>5, <1>6, <1>7 DEF Held

LEMMA ResultTyped ==
  ASSUME run \in Runs, kept \in Seq(Results)
  PROVE  RunResult \in Results /\ Append(kept, RunResult) \in Seq(Results) /\ Append(kept, RunResult) # <<>>
<1>0. run.best \in Int /\ run.bestUtil \in Int /\ run.aborted \in BOOLEAN
  BY DEF Runs
<1>1. RunResult \in Results
  BY <1>0 DEF Results, RunResult
<1> DEFINE r == RunResult
<1> HIDE DEF r
<1>2. r \in Results => Append(kept, r) \in Seq(Results) /\ Append(kept, r) # <<>>
  BY SMTT(30)
<1>3. QED
  BY <1>1, <1>2 DEF r

\* The run that ended leaves; what was asked stays.
LEMMA LeaveStep ==
  ASSUME Held, caller # "existsSolution", Unasked, run' = NoRun, stage \in {"seeds", "utility", "free"},
         stage' \in {"seeds", "utility", "free", "selecting", "returned"}, caller # "probe",
         kept' \in Seq(Results), chosen' \in [point : Int, util : Int], SolveInv'
  PROVE  Held'
<1>1. DescentTypeOK'
  BY NoRunTyped DEF Held, DescentTypeOK, Unasked
<1>2. BoxThere'
  BY DEF Held, WithinLimits, BoxThere, Unasked
<1>3. WithinLimits'
  BY <1>2, NoRunTyped DEF WithinLimits
<1>4. ProbeInv'
  BY NoRunTyped DEF Held, ProbeInv, Unasked, FeasiblePoint
<1>5. QED
  BY <1>1, <1>3, <1>4 DEF Held

LEMMA TakeResultStep ==
  ASSUME Held, caller # "existsSolution", TakeResult
  PROVE  Held'
<1>1. /\ run \in Runs /\ kept \in Seq(Results) /\ chosen \in [point : Int, util : Int] /\ SolveInv
  BY DEF Held, DescentTypeOK
<1>2. Unasked /\ run' = NoRun /\ caller = "getSolution" /\ run.status = "over"
  BY DEF TakeResult, Solving, StayAsked, Unasked
<1>3. Sufficient' = Sufficient /\ stage \in {"seeds", "utility", "free"}
  BY <1>2 DEF Sufficient, Unasked, Held, WithinLimits
<1>4. CASE Above(run.bestUtil, Sufficient) /\ Return(RunResult, IF run.bestUtil > Satisfied THEN "yes" ELSE "no")
           /\ kept' = kept /\ stage \in {"seeds", "utility", "free"}
  <2>1. chosen' = [point |-> run.best, util |-> run.bestUtil] /\ stage' = "returned"
    BY <1>4 DEF Return, RunResult
  <2>2. chosen' \in [point : Int, util : Int] /\ chosen'.util = run.bestUtil
    BY <1>1, <2>1 DEF Runs
  <2>3. SolveInv'
    BY <1>3, <1>4, <2>1, <2>2 DEF SolveInv, BestReturned
  <2>4. QED
    BY <1>1, <1>2, <1>4, <2>1, <2>2, <2>3, LeaveStep
<1>5. CASE kept' = Append(kept, RunResult) /\ chosen' = chosen /\ stage \in {"seeds", "utility", "free"}
           /\ stage' \in {"seeds", "utility", "free", "selecting"}
  <2>1. kept' \in Seq(Results) /\ kept' # <<>>
    BY <1>1, <1>5, ResultTyped
  <2>2. SolveInv'
    BY <1>5, <2>1 DEF SolveInv, BestReturned
  <2>3. QED
    BY <1>1, <1>2, <1>5, <2>1, <2>2, LeaveStep
<1>6. ASSUME kept' = Append(kept, RunResult),
             stage' \in CASE stage = "seeds" -> {"seeds"} [] stage = "utility" -> {"free"}
                          [] stage = "free" -> {"free", "selecting"}
      PROVE  stage' \in {"seeds", "utility", "free", "selecting"}
  <2>1. CASE stage = "seeds"
    BY <1>6, <2>1
  <2>2. CASE stage = "utility"
    BY <1>6, <2>2
  <2>3. CASE stage = "free"
    BY <1>6, <2>3
  <2>4. QED
    BY <1>3, <2>1, <2>2, <2>3
<1>7. QED
  <2>1. CASE stage # "utility" /\ Above(run.bestUtil, Sufficient)
             /\ Return(RunResult, IF run.bestUtil > Satisfied THEN "yes" ELSE "no") /\ kept' = kept
    BY <1>3, <1>4, <2>1
  <2>2. CASE ~(stage # "utility" /\ Above(run.bestUtil, Sufficient)
               /\ Return(RunResult, IF run.bestUtil > Satisfied THEN "yes" ELSE "no") /\ kept' = kept)
    <3>1. /\ kept' = Append(kept, RunResult) /\ chosen' = chosen
          /\ stage' \in CASE stage = "seeds" -> {"seeds"} [] stage = "utility" -> {"free"}
                          [] stage = "free" -> {"free", "selecting"}
      BY <2>2, Zenon DEF TakeResult
    <3>2. QED
      BY <1>3, <1>5, <1>6, <3>1
  <2>3. QED
    BY <2>1, <2>2

LEMMA SelectStep ==
  ASSUME Held, caller # "existsSolution", Select
  PROVE  Held'
<1> DEFINE best == FoldLeft(Better, 1, [i \in 1 .. (Len(kept) - 1) |-> i + 1])
<1>1. /\ run \in Runs /\ kept \in Seq(Results) /\ seedList \in SeedLists
  BY DEF Held, DescentTypeOK
<1>2. Unasked /\ UNCHANGED <<run, kept>> /\ caller = "getSolution" /\ stage = "selecting"
  BY DEF Select, Solving, StayAsked, Unasked
<1>3. stage' = "returned" /\ chosen' = [point |-> kept[best].point, util |-> kept[best].util]
  BY DEF Select, Return
<1>4. kept # <<>>
  BY <1>2 DEF Held, SolveInv
<1>5. best \in 1 .. Len(kept) /\ \A i \in 1 .. Len(kept) : Beaten(i, best)
  BY <1>1, <1>4, SelectedBest
<1> HIDE DEF best
<1>6. kept[best] \in Results
  BY <1>1, <1>5
<1>7. chosen' \in [point : Int, util : Int] /\ chosen'.util = kept[best].util
  BY <1>3, <1>6 DEF Results
<1>8. DOMAIN kept = 1 .. Len(kept)
  BY <1>1
<1>9. BestReturned'
  <2>1. SUFFICES ASSUME NEW i \in DOMAIN kept
                 PROVE  \/ kept[i].util = NoNumber \/ kept[i].util <= chosen'.util
                        \/ /\ seedList # <<>> /\ chosen'.util = kept[1].util
                           /\ kept[i].util <= Satisfied \/ kept[i].util - chosen'.util <= Significance
    BY <1>2 DEF BestReturned, Unasked
  <2>2. Beaten(i, best)
    BY <1>5, <1>8
  <2>3. QED
    BY <1>7, <2>2 DEF Beaten
<1>10. SolveInv'
  BY <1>3, <1>9 DEF SolveInv
<1>11. DescentTypeOK'
  BY <1>2, <1>7 DEF Held, DescentTypeOK, Unasked
<1>12. GoodRun(run)' <=> GoodRun(run)
  BY <1>2, RunSame DEF Unasked
<1>13. BoxThere' <=> BoxThere
  BY <1>2 DEF BoxThere, Unasked
<1>14. WithinLimits'
  BY <1>2, <1>3, <1>12, <1>13 DEF Held, WithinLimits
<1>15. ProbeInv'
  BY <1>2, <1>3 DEF Held, ProbeInv, Unasked, FeasiblePoint
<1>16. QED
  BY <1>10, <1>11, <1>14, <1>15 DEF Held

LEMMA GiveUpStep ==
  ASSUME Held, caller # "existsSolution", SimpleGiveUp
  PROVE  Held'
<1>1. /\ Unasked /\ UNCHANGED <<run, kept, chosen>> /\ caller = "solveSimple" /\ stage' = "returned"
      /\ run.status = "off"
  BY DEF SimpleGiveUp, Asking, StayAsked, Unasked
<1>2. DescentTypeOK'
  BY <1>1 DEF Held, DescentTypeOK, Unasked
<1>3. WithinLimits'
  BY <1>1 DEF WithinLimits
<1>4. ProbeInv'
  BY <1>1 DEF Held, ProbeInv, Unasked, FeasiblePoint
<1>5. SolveInv'
  BY <1>1 DEF SolveInv, Unasked
<1>6. QED
  BY <1>2, <1>3, <1>4, <1>5 DEF Held

LEMMA SimpleResultStep ==
  ASSUME Held, caller # "existsSolution", SimpleResult
  PROVE  Held'
<1>1. /\ run \in Runs /\ kept \in Seq(Results) /\ chosen \in [point : Int, util : Int]
  BY DEF Held, DescentTypeOK
<1>2. Unasked /\ run' = NoRun /\ caller = "solveSimple" /\ stage \in {"seeds", "free"} /\ stage' \in {stage, "returned"}
  BY DEF SimpleResult, Asking, StayAsked, Unasked, Return
<1>3. kept' \in Seq(Results)
  BY <1>1, ResultTyped DEF SimpleResult
<1>4. chosen' \in [point : Int, util : Int]
  <2>1. chosen' = chosen \/ chosen' = [point |-> run.best, util |-> run.bestUtil]
    BY DEF SimpleResult, Return, RunResult
  <2>2. QED
    BY <1>1, <2>1 DEF Runs
<1>5. SolveInv'
  BY <1>2 DEF SolveInv, Unasked
<1>6. QED
  BY <1>2, <1>3, <1>4, <1>5, LeaveStep

LEMMA ProbeReturnStep ==
  ASSUME Held, caller # "existsSolution", ProbeReturn
  PROVE  Held'
<1>1. /\ run \in Runs /\ box \in [lo : Int, hi : Int] /\ objective \in Objectives
  BY DEF Held, DescentTypeOK
<1>2. /\ Unasked /\ UNCHANGED <<run, kept>> /\ caller = "probe" /\ stage = "seeds" /\ run.status = "over"
      /\ stage' = "returned" /\ chosen' = [point |-> run.best, util |-> run.bestUtil]
      /\ verdict' = IF run.bestUtil >= 50 THEN "yes" ELSE "no"
  BY DEF ProbeReturn, Probing, StayAsked, Unasked, Return, RunResult
<1>3. BoxThere /\ GoodRun(run) /\ run.what = "parts"
  BY <1>2 DEF Held, WithinLimits, ProbeInv
<1>4. /\ chosen' \in [point : Int, util : Int] /\ chosen'.point = run.best /\ chosen'.util = run.bestUtil
      /\ run.best \in Int /\ run.bestUtil \in Int
  BY <1>1, <1>2 DEF Runs
<1>5. InBox(run.best) /\ Measured(run.best, run.bestUtil) /\ run.best \in Spots
  BY <1>1, <1>3, <1>4, SpotOfBox DEF GoodRun
<1>6. ASSUME verdict' = "yes", NEW i \in DOMAIN objective.parts
      PROVE  Met(objective.parts[i][run.best])
  <2>1. run.bestUtil > 0
    BY <1>2, <1>4, <1>6
  <2>2. CASE run.bestUtil = AtFirst(run.best).util
    BY <1>1, <1>5, <1>6, <2>1, <2>2, AtFirstMet
  <2>3. CASE run.bestUtil = Differentiated(run.best).util
    <3>1. objective.parts # <<>>
      BY <1>6
    <3>2. QED
      BY <1>1, <1>5, <1>6, <2>1, <2>3, <3>1, DifferentiatedMet
  <2>4. QED
    BY <1>5, <2>2, <2>3 DEF Measured
<1>7. FeasiblePoint'
  <2>1. \A p, u : Measured(p, u)' <=> Measured(p, u)
    BY <1>2, LookSame DEF Unasked
  <2>2. \A p : InBox(p)' <=> InBox(p)
    BY <1>2 DEF InBox, Unasked
  <2>3. FeasiblePoint' <=>
          (caller' = "probe" /\ stage' = "returned" /\ chosen'.point # NoNumber =>
             /\ InBox(chosen.point)' /\ Measured(chosen.point, chosen.util)'
             /\ verdict' = "yes" => \A i \in DOMAIN objective'.parts : Met(objective'.parts[i][chosen'.point]))
    BY DEF FeasiblePoint, Measured
  <2>4. objective' = objective
    BY <1>2 DEF Unasked
  <2>5. QED
    BY <1>4, <1>5, <1>6, <2>1, <2>2, <2>3, <2>4
<1>8. DescentTypeOK'
  BY <1>2, <1>4 DEF Held, DescentTypeOK, Unasked
<1>9. GoodRun(run)' <=> GoodRun(run)
  BY <1>2, RunSame DEF Unasked
<1>10. BoxThere'
  BY <1>2, <1>3 DEF BoxThere, Unasked
<1>11. WithinLimits'
  BY <1>2, <1>3, <1>9, <1>10 DEF WithinLimits, Unasked
<1>12. ProbeInv'
  BY <1>2, <1>7 DEF Held, ProbeInv, Unasked
<1>13. SolveInv'
  BY <1>2 DEF SolveInv, Unasked
<1>14. QED
  BY <1>8, <1>11, <1>12, <1>13 DEF Held

LEMMA DescentStart == DescentInit => DescentInv
<1> SUFFICES ASSUME DescentInit PROVE Held
  BY DEF DescentInv
<1>1. /\ objective \in Objectives /\ seedList \in SeedLists /\ rangeList \in RangeLists
      /\ box = Everything /\ stage = "ranges" /\ run = NoRun /\ kept = <<>>
      /\ chosen = [point |-> NoNumber, util |-> NoNumber]
  BY DEF DescentInit
<1>2. box \in [lo : Int, hi : Int] /\ chosen \in [point : Int, util : Int] /\ kept \in Seq(Results)
  BY <1>1, DescentAssumption DEF Everything, NoNumber
<1>3. DescentTypeOK
  BY <1>1, <1>2, NoRunTyped DEF DescentTypeOK
<1>4. WithinLimits
  BY <1>1, NoRunTyped DEF WithinLimits
<1>5. ProbeInv
  BY <1>1, NoRunTyped DEF ProbeInv, FeasiblePoint
<1>6. SolveInv
  BY <1>1 DEF SolveInv, BestReturned
<1>7. QED
  BY <1>3, <1>4, <1>5, <1>6 DEF Held

LEMMA DescentStep == DescentInv /\ [DescentNext]_descentVars => DescentInv'
<1> SUFFICES ASSUME DescentInv, [DescentNext]_descentVars PROVE DescentInv'
  OBVIOUS
<1>1. caller' = caller
  BY DEF descentVars, DescentNext, TakeRanges, Iterate, EndLoop, RunSeed, LeaveSeeds, RunUtility, RunFromUtility,
         RunFree, TakeResult, Select, NullSeed, SimpleSeed, SimpleRun, SimpleGiveUp, SimpleResult, ProbeSeed,
         ProbeAgain, ProbeReturn, StayAsked
<1>2. CASE caller = "existsSolution"
  BY <1>1, <1>2 DEF DescentInv
<1>3. CASE caller # "existsSolution"
  <2>1. Held
    BY <1>3 DEF DescentInv
  <2>2. CASE UNCHANGED descentVars
    <3>1. /\ Unasked /\ UNCHANGED <<stage, run, kept, chosen, verdict>>
      BY <2>2 DEF descentVars, Unasked
    <3>2. GoodRun(run)' <=> GoodRun(run)
      BY <3>1, RunSame DEF Unasked
    <3>3. BoxThere' <=> BoxThere
      BY <3>1 DEF BoxThere, Unasked
    <3>4. FeasiblePoint'
      BY <2>1, <3>1, PromiseSame DEF Held, ProbeInv, Unasked
    <3>5. BestReturned'
      <4>1. Sufficient' = Sufficient
        BY <3>1 DEF Sufficient, Unasked
      <4>2. BestReturned' <=> BestReturned
        BY <3>1, <4>1 DEF BestReturned, Unasked
      <4>3. caller = "getSolution" => BestReturned
        BY <2>1 DEF Held, SolveInv
      <4>4. QED
        BY <3>1, <4>2, <4>3 DEF BestReturned, Unasked
    <3>6. DescentTypeOK' /\ WithinLimits' /\ ProbeInv' /\ SolveInv'
      BY <2>1, <3>1, <3>2, <3>3, <3>4, <3>5 DEF Held, DescentTypeOK, WithinLimits, ProbeInv, SolveInv, Unasked
    <3>7. QED
      BY <3>6 DEF DescentInv, Held
  <2>3. CASE TakeRanges
    BY <1>3, <2>1, <2>3, TakeRangesStep DEF DescentInv
  <2>4. CASE Iterate \/ EndLoop
    BY <1>3, <2>1, <2>4, LoopStep DEF DescentInv
  <2>5. CASE Begins
    BY <1>3, <2>1, <2>5, BeginStep DEF DescentInv
  <2>6. CASE LeaveSeeds
    BY <1>3, <2>1, <2>6, LeaveSeedsStep DEF DescentInv
  <2>7. CASE TakeResult
    BY <1>3, <2>1, <2>7, TakeResultStep DEF DescentInv
  <2>8. CASE Select
    BY <1>3, <2>1, <2>8, SelectStep DEF DescentInv
  <2>9. CASE NullSeed
    BY <1>3, <2>9 DEF NullSeed
  <2>10. CASE SimpleGiveUp
    BY <1>3, <2>1, <2>10, GiveUpStep DEF DescentInv
  <2>11. CASE SimpleResult
    BY <1>3, <2>1, <2>11, SimpleResultStep DEF DescentInv
  <2>12. CASE ProbeReturn
    BY <1>3, <2>1, <2>12, ProbeReturnStep DEF DescentInv
  <2>13. QED
    BY <2>2, <2>3, <2>4, <2>5, <2>6, <2>7, <2>8, <2>9, <2>10, <2>11, <2>12 DEF DescentNext, Begins
<1>4. QED
  BY <1>2, <1>3

\* Every descent of solve(), solveSimple and a probe stays in limits that are not empty, keeps the
\* best utility of a probe with the point it was measured at, and keeps every result for the choice.
THEOREM DescentInvariant == DescentSpec => []DescentInv
<1>1. QED
  BY DescentStart, DescentStep, PTL DEF DescentSpec

\* probeForSolution returns a point of the limits with the utility it has, and calls it a solution
\* only if none of the constraints is violated there.
THEOREM ProbeIsFeasible == DescentSpec => []FeasiblePoint
<1>1. DescentInv => FeasiblePoint
  BY DEF DescentInv, Held, ProbeInv, FeasiblePoint
<1>2. QED
  BY <1>1, DescentInvariant, PTL

\* solve() returns a sufficient result, or none that it kept is better in the order of its loop.
THEOREM SolveReturnsBest == DescentSpec => []BestReturned
<1>1. DescentInv => BestReturned
  BY DEF DescentInv, Held, SolveInv, BestReturned
<1>2. QED
  BY <1>1, DescentInvariant, PTL

(***************************************************************************)
(* Interval propagation. A visit keeps the value of every node inside its  *)
(* interval: for each class, from above (Down...Keeps) and from below      *)
(* (Up...Keeps), then for whatever node comes first in the work list.      *)
(***************************************************************************)
\* A summand, or one that is left out.
AddedUnless(a, e) == IF e.out THEN a ELSE Add(a, e.bound)
BySummand == INSTANCE FoldFacts WITH Op <- AddedUnless
\* One summand after the other of a sum, and one round after the other.
Narrowed(a, e) == Summand(a, e.id, e.ids, e.place)
ByPlace == INSTANCE FoldFacts WITH Op <- Narrowed
Rounds(a, e) == DownSummands(a, e.id, e.ids)
ByRound == INSTANCE FoldFacts WITH Op <- Rounds
\* One more node of the work list.
Queued(q, id) == IF id \in ToSet(q) THEN q ELSE Append(q, id)
ByQueued == INSTANCE FoldFacts WITH Op <- Queued

Doubles == -Infinity .. Infinity
Ranges == [min : Doubles, max : Doubles]
\* Numbers half as large as the largest double: a sum of two is a double.
Half == Largest \div 2
Ordinary == -Half .. Half

IsQueue(q, N) == q \in Seq(N)
\* The parents of a node are nodes.
ParentsIn(N) == \A t \in N : parents[t] \in Seq(N)
\* The nodes of N, and maybe others, have intervals.
RangesOn(f, N) == f = [t \in DOMAIN f |-> f[t]] /\ N \subseteq DOMAIN f /\ \A t \in N : f[t] \in Ranges

\* A visit in progress, in which the value v of each node of N is still in its interval.
Keeps(s, v, N) ==
  /\ s = [interval |-> s.interval, changed |-> s.changed, undefined |-> s.undefined, empty |-> FALSE]
  /\ RangesOn(s.interval, N) /\ IsQueue(s.changed, N)
  /\ \A t \in N : Inside(v[t], s.interval[t])

\* What the provers need to know of the constants; a numeral of six digits slows them down.
LEMMA Sizes ==
  /\ Infinity \in Nat /\ Infinity > 10 /\ Largest = Infinity - 1 /\ NaN = 2 * Infinity
  /\ Half \in Nat /\ Half = Largest \div 2 /\ 2 * Half <= Largest
<1>1. Infinity \in Nat /\ Infinity > 10
  BY SMT DEF Infinity
<1>2. QED
  BY <1>1 DEF Largest, NaN, Half

\* The work list holds nodes.
LEMMA EnqueuedIn ==
  ASSUME NEW N, NEW queue \in Seq(N), NEW ids \in Seq(N)
  PROVE  Enqueued(queue, ids) \in Seq(N)
<1> DEFINE n == Len(ids)
           Shape(g) == g = [s \in SUBSET DOMAIN ids |-> IF s = {} THEN queue
                                                        ELSE Queued(g[s \ {Max(s)}], ids[Max(s)])]
<1>0. n \in Nat /\ DOMAIN ids = 1 .. n /\ \A k \in 1 .. n : ids[k] \in N
  OBVIOUS
<1>1. \A g : Shape(g) <=> ByQueued!Table(g, queue, ids, 1 .. n)
  <2> HIDE DEF n
  <2> QED BY <1>0 DEF ByQueued!Table, ByQueued!Top, Max
<1>2. \E g : Shape(g)
  <2> HIDE DEF Shape, n
  <2> QED BY <1>0, <1>1, ByQueued!TableExists
<1>3. Enqueued(queue, ids) = (CHOOSE g : Shape(g))[DOMAIN ids]
  BY DEF Enqueued, Queued, FoldLeft, MapThenFoldSet
<1> HIDE DEF Shape, n
<1>4. PICK g : Shape(g) /\ Enqueued(queue, ids) = g[1 .. n]
  BY <1>0, <1>2, <1>3
<1>5. ByQueued!Table(g, queue, ids, 1 .. n)
  BY <1>1, <1>4
<1>6. \A q \in Seq(N) : \A k \in 1 .. n : Queued(q, ids[k]) \in Seq(N)
  BY <1>0 DEF Queued
<1>7. g[1 .. n] \in Seq(N)
  BY <1>0, <1>5, <1>6, ByQueued!FoldIn
<1>8. QED
  BY <1>4, <1>7

\* An update with bounds on the right sides of the value, or not a number, keeps it.
LEMMA UpdateKeeps ==
  ASSUME NEW N, NEW v \in [N -> Ordinary], NEW s, Keeps(s, v, N), NEW t \in N, NEW told, IsQueue(told, N),
         NEW lo \in Doubles \cup {NaN}, NEW hi \in Doubles \cup {NaN},
         lo # NaN => lo <= v[t], hi # NaN => v[t] <= hi
  PROVE  /\ Keeps(UpdateInterval(s, t, lo, hi, told), v, N)
         /\ UpdateInterval(s, t, lo, hi, told).undefined = s.undefined
<1> DEFINE old == s.interval[t]
           new == Between(IF lo = NaN THEN old.min ELSE StdMax(old.min, lo),
                          IF hi = NaN THEN old.max ELSE StdMin(old.max, hi))
           ch == IF Lt(old.min, lo) \/ Lt(hi, old.max) THEN Enqueued(s.changed, told) ELSE s.changed
           u == UpdateInterval(s, t, lo, hi, told)
<1>1. old \in Ranges /\ old.min \in Doubles /\ old.max \in Doubles /\ old.min <= v[t] /\ v[t] <= old.max /\ v[t] \in Int
  BY Sizes DEF Keeps, Inside, Ranges, Ordinary, RangesOn
<1>2. /\ new \in Ranges /\ new.min <= v[t] /\ v[t] <= new.max /\ new.min \in Int /\ new.max \in Int
  BY <1>1, Sizes DEF Between, StdMax, StdMin, Lt, Ranges, Doubles
<1>3. ~(new.min > new.max)
  BY <1>1, <1>2
<1> HIDE DEF new, ch
<1>4. u = [s EXCEPT !.interval = [s.interval EXCEPT ![t] = new], !.empty = FALSE, !.changed = ch]
  <2>1. s.empty = FALSE
    BY DEF Keeps
  <2>2. u = IF s.empty THEN s ELSE [s EXCEPT !.interval[t] = new, !.empty = new.min > new.max, !.changed = ch]
    BY Zenon DEF UpdateInterval, new, ch
  <2>3. (new.min > new.max) = FALSE
    BY <1>3
  <2>4. QED
    BY <2>1, <2>2, <2>3
<1>5. u = [interval |-> [s.interval EXCEPT ![t] = new], changed |-> ch, undefined |-> s.undefined, empty |-> FALSE]
  BY <1>4 DEF Keeps, RangesOn
<1>6. RangesOn([s.interval EXCEPT ![t] = new], N)
  BY <1>2 DEF Keeps, RangesOn
<1>7. \A x \in N : Inside(v[x], [s.interval EXCEPT ![t] = new][x])
  BY <1>2 DEF Keeps, Inside, RangesOn
<1>8. IsQueue(ch, N)
  BY EnqueuedIn DEF Keeps, ch, IsQueue
<1> HIDE DEF u
<1>9. QED
  BY <1>5, <1>6, <1>7, <1>8 DEF Keeps, u, RangesOn

\* The same for a visit from above, and from below.
LEMMA LowerKeeps ==
  ASSUME NEW N, NEW v \in [N -> Ordinary], NEW s, Keeps(s, v, N), NEW t \in N,
         NEW lo \in Doubles \cup {NaN}, NEW hi \in Doubles \cup {NaN},
         lo # NaN => lo <= v[t], hi # NaN => v[t] <= hi
  PROVE  Keeps(Lower(s, t, lo, hi), v, N) /\ Lower(s, t, lo, hi).undefined = s.undefined
<1> DEFINE told == <<t>>
<1>1. IsQueue(told, N)
  BY DEF IsQueue
<1>2. Lower(s, t, lo, hi) = UpdateInterval(s, t, lo, hi, told)
  BY DEF Lower
<1> HIDE DEF told
<1>3. QED
  BY <1>1, <1>2, UpdateKeeps

LEMMA RaiseKeeps ==
  ASSUME NEW N, NEW v \in [N -> Ordinary], NEW s, Keeps(s, v, N), ParentsIn(N), NEW t \in N,
         NEW lo \in Doubles \cup {NaN}, NEW hi \in Doubles \cup {NaN},
         lo # NaN => lo <= v[t], hi # NaN => v[t] <= hi
  PROVE  Keeps(Raise(s, t, lo, hi), v, N) /\ Raise(s, t, lo, hi).undefined = s.undefined
<1> DEFINE told == Append(parents[t], t)
<1>1. IsQueue(told, N)
  BY DEF ParentsIn, IsQueue
<1>2. Raise(s, t, lo, hi) = UpdateInterval(s, t, lo, hi, told)
  BY DEF Raise
<1> HIDE DEF told
<1>3. QED
  BY <1>1, <1>2, UpdateKeeps

\* The value of a node between its bounds.
LEMMA Bounds ==
  ASSUME NEW N, NEW v \in [N -> Ordinary], NEW s, Keeps(s, v, N), NEW t \in N
  PROVE  /\ s.interval[t].min \in Doubles /\ s.interval[t].max \in Doubles
         /\ s.interval[t].min \in Int /\ s.interval[t].max \in Int
         /\ s.interval[t].min # NaN /\ s.interval[t].max # NaN
         /\ s.interval[t].min <= v[t] /\ v[t] <= s.interval[t].max
         /\ v[t] \in Int /\ -Half <= v[t] /\ v[t] <= Half
         /\ s.interval[t].min < Infinity /\ s.interval[t].max > -Infinity
         /\ -Infinity <= s.interval[t].min /\ s.interval[t].max <= Infinity
<1>1. s.interval[t] \in Ranges /\ v[t] \in Ordinary /\ Inside(v[t], s.interval[t])
  BY DEF Keeps, RangesOn
<1>2. QED
  BY <1>1, Sizes DEF Ranges, Ordinary, Inside, Doubles

\* Infinities, 0 and 1 are doubles, NaN is not a bound.
LEMMA Specials ==
  /\ Infinity \in Doubles /\ -Infinity \in Doubles /\ 0 \in Doubles /\ 1 \in Doubles
  /\ NaN \notin Doubles
BY Sizes DEF Doubles

-----------------------------------------------------------------------------
(* Comparisons and connectives *)

\* What the value of a node says of its operands, for every class, and the other way round.
LEMMA DownAndKeeps ==
  ASSUME NEW N, NEW v \in [N -> Ordinary], NEW s, Keeps(s, v, N),
         NEW id \in N, NEW l \in N, NEW r \in N, v[id] > 0 => v[l] = 1 /\ v[r] = 1
  PROVE  Keeps(DownAnd(s, id, l, r), v, N)
<1>1. CASE s.interval[id].min > 0
  <2>1. v[l] = 1 /\ v[r] = 1
    BY <1>1, Bounds
  <2>2. Keeps(Lower(s, l, 1, 1), v, N)
    BY <2>1, Specials, LowerKeeps
  <2>3. Keeps(Lower(Lower(s, l, 1, 1), r, 1, 1), v, N)
    BY <2>1, <2>2, Specials, LowerKeeps
  <2>4. QED
    BY <1>1, <2>3 DEF DownAnd
<1>2. CASE ~(s.interval[id].min > 0)
  BY <1>2 DEF DownAnd
<1>3. QED
  BY <1>1, <1>2

LEMMA DownConstraintUtilityKeeps ==
  ASSUME NEW N, NEW v \in [N -> Ordinary], NEW s, Keeps(s, v, N),
         NEW id \in N, NEW l \in N, NEW r \in N, v[l] = 1, v[id] = v[r], v[id] >= 1
  PROVE  Keeps(DownConstraintUtility(s, id, l, r), v, N)
<1>1. CASE s.interval[id].min >= 1
  <2>1. Keeps(Lower(s, l, 1, 1), v, N)
    BY Specials, LowerKeeps
  <2>2. s.interval[id].max \in Doubles /\ v[r] <= s.interval[id].max
    BY Bounds
  <2>3. Keeps(Lower(Lower(s, l, 1, 1), r, 1, s.interval[id].max), v, N)
    BY <2>1, <2>2, Specials, LowerKeeps
  <2>4. QED
    BY <1>1, <2>3 DEF DownConstraintUtility
<1>2. CASE ~(s.interval[id].min >= 1)
  BY <1>2 DEF DownConstraintUtility
<1>3. QED
  BY <1>1, <1>2

LEMMA DownComparisonKeeps ==
  ASSUME NEW N, NEW v \in [N -> Ordinary], NEW s, Keeps(s, v, N),
         NEW id \in N, NEW l \in N, NEW r \in N, v[id] > 0 => v[l] <= v[r], v[id] <= 0 => v[r] <= v[l]
  PROVE  Keeps(DownComparison(s, id, l, r), v, N)
<1> DEFINE AtMost == Lower(s, r, s.interval[l].min, Infinity)
           AtLeast == Lower(s, r, -Infinity, s.interval[l].max)
<1>1. /\ s.interval[l].min \in Doubles /\ s.interval[l].max \in Doubles
      /\ s.interval[r].min \in Doubles /\ s.interval[r].max \in Doubles
      /\ s.interval[l].min <= v[l] /\ v[l] <= s.interval[l].max
      /\ s.interval[r].min <= v[r] /\ v[r] <= s.interval[r].max
      /\ v[l] \in Int /\ v[r] \in Int /\ v[id] \in Int
      /\ v[l] <= Infinity /\ v[r] <= Infinity /\ -Infinity <= v[l] /\ -Infinity <= v[r]
      /\ s.interval[id].min \in Int /\ s.interval[id].max \in Int
      /\ s.interval[id].min <= v[id] /\ v[id] <= s.interval[id].max
      /\ s.interval[l].min \in Int /\ s.interval[l].max \in Int
      /\ s.interval[r].min \in Int /\ s.interval[r].max \in Int
  BY Bounds, Sizes
<1>2. CASE s.interval[id].min > 0
  <2>1. v[l] <= v[r]
    BY <1>1, <1>2
  <2>2. Keeps(AtMost, v, N)
    <3>1. s.interval[l].min <= v[r]
      BY <1>1, <2>1
    <3>2. QED
      BY <1>1, <3>1, Specials, LowerKeeps
  <2>3. v[l] <= s.interval[r].max
    BY <1>1, <2>1
  <2> HIDE DEF AtMost
  <2>4. Keeps(Lower(AtMost, l, -Infinity, s.interval[r].max), v, N)
    BY <1>1, <2>2, <2>3, Specials, LowerKeeps
  <2>5. QED
    BY <1>2, <2>4 DEF DownComparison, AtMost
<1>3. CASE ~(s.interval[id].min > 0) /\ s.interval[id].max <= 0
  <2>1. v[r] <= v[l]
    BY <1>1, <1>3
  <2>2. Keeps(AtLeast, v, N)
    <3>1. v[r] <= s.interval[l].max
      BY <1>1, <2>1
    <3>2. QED
      BY <1>1, <3>1, Specials, LowerKeeps
  <2>3. s.interval[r].min <= v[l]
    BY <1>1, <2>1
  <2> HIDE DEF AtLeast
  <2>4. Keeps(Lower(AtLeast, l, s.interval[r].min, Infinity), v, N)
    BY <1>1, <2>2, <2>3, Specials, LowerKeeps
  <2>5. QED
    BY <1>3, <2>4 DEF DownComparison, AtLeast
<1>4. CASE ~(s.interval[id].min > 0) /\ ~(s.interval[id].max <= 0)
  BY <1>4 DEF DownComparison
<1>5. QED
  BY <1>2, <1>3, <1>4

\* Of two truth values whose larger one is positive one is 1, and the other one if this is not.
LEMMA DownMaxKeeps ==
  ASSUME NEW N, NEW v \in [N -> Ordinary], NEW s, Keeps(s, v, N),
         NEW id \in N, NEW l \in N, NEW r \in N, v[l] <= 1, v[r] <= 1, v[id] > 0 => v[l] > 0 \/ v[r] > 0
  PROVE  Keeps(DownMax(s, id, l, r), v, N)
<1> DEFINE u == IF s.interval[l].max <= 0 THEN Lower(s, r, 1, 1) ELSE s
<1>1. CASE s.interval[id].min > 0
  <2>1. v[id] > 0
    BY <1>1, Bounds
  <2>2. Keeps(u, v, N)
    <3>1. CASE s.interval[l].max <= 0
      <4>1. v[r] = 1
        BY <2>1, <3>1, Bounds
      <4>2. QED
        BY <3>1, <4>1, Specials, LowerKeeps
    <3>2. QED
      BY <3>1
  <2>3. ASSUME u.interval[r].max <= 0 PROVE Keeps(Lower(u, l, 1, 1), v, N)
    <3> HIDE DEF u
    <3>1. v[l] = 1
      BY <2>1, <2>2, <2>3, Bounds
    <3>2. QED
      BY <2>2, <3>1, Specials, LowerKeeps
  <2>4. DownMax(s, id, l, r) = IF u.interval[r].max <= 0 THEN Lower(u, l, 1, 1) ELSE u
    BY <1>1 DEF DownMax
  <2> HIDE DEF u
  <2>5. QED
    BY <2>2, <2>3, <2>4
<1>2. CASE ~(s.interval[id].min > 0)
  BY <1>2 DEF DownMax
<1>3. QED
  BY <1>1, <1>2

LEMMA DownMinKeeps ==
  ASSUME NEW N, NEW v \in [N -> Ordinary], NEW s, Keeps(s, v, N),
         NEW id \in N, NEW l \in N, NEW r \in N, v[id] <= v[l], v[id] <= v[r]
  PROVE  Keeps(DownMin(s, id, l, r), v, N)
<1> DEFINE lo == s.interval[id].min
           t == Lower(s, l, lo, Infinity)
<1>1. /\ lo \in Doubles /\ lo <= v[l] /\ lo <= v[r] /\ v[l] <= Infinity /\ v[r] <= Infinity
  <2>1. lo \in Int /\ v[id] \in Int /\ v[l] \in Int /\ v[r] \in Int /\ lo <= v[id]
    BY Bounds
  <2>2. QED
    BY <2>1, Bounds, Sizes
<1> HIDE DEF lo
<1>2. Keeps(t, v, N)
  BY <1>1, Specials, LowerKeeps
<1> HIDE DEF t
<1>3. Keeps(Lower(t, r, lo, Infinity), v, N)
  BY <1>1, <1>2, Specials, LowerKeeps
<1>4. QED
  BY <1>3 DEF DownMin, t, lo

LEMMA DownAbsKeeps ==
  ASSUME NEW N, NEW v \in [N -> Ordinary], NEW s, Keeps(s, v, N),
         NEW id \in N, NEW l \in N, v[id] = Magnitude(v[l])
  PROVE  Keeps(DownAbs(s, id, l), v, N)
<1> DEFINE hi == s.interval[id].max
<1>1. hi \in Doubles /\ hi \in Int /\ hi # NaN /\ v[id] <= hi /\ v[l] \in Int /\ v[id] \in Int
  BY Bounds
<1> HIDE DEF hi
<1>2. Negated(hi) \in Doubles /\ Negated(hi) <= v[l] /\ v[l] <= hi
  BY <1>1, Sizes DEF Negated, Magnitude, Doubles
<1>3. QED
  BY <1>1, <1>2, LowerKeeps DEF DownAbs, hi

LEMMA UpAndKeeps ==
  ASSUME NEW N, NEW v \in [N -> Ordinary], NEW s, Keeps(s, v, N), ParentsIn(N),
         NEW id \in N, NEW l \in N, NEW r \in N,
         v[l] > 0 /\ v[r] > 0 => v[id] = 1, v[l] <= 0 \/ v[r] <= 0 => v[id] <= 0
  PROVE  Keeps(UpAnd(s, id, l, r), v, N)
<1>1. CASE s.interval[l].min > 0 /\ s.interval[r].min > 0
  <2>1. v[id] = 1
    BY <1>1, Bounds
  <2>2. QED
    BY <1>1, <2>1, Specials, RaiseKeeps DEF UpAnd
<1>2. CASE ~(s.interval[l].min > 0 /\ s.interval[r].min > 0) /\ (s.interval[l].max <= 0 \/ s.interval[r].max <= 0)
  <2>1. v[id] <= 0 /\ -Infinity <= v[id]
    BY <1>2, Bounds, Sizes
  <2>2. QED
    BY <1>2, <2>1, Specials, RaiseKeeps DEF UpAnd
<1>3. CASE ~(s.interval[l].min > 0 /\ s.interval[r].min > 0) /\ ~(s.interval[l].max <= 0 \/ s.interval[r].max <= 0)
  BY <1>3 DEF UpAnd
<1>4. QED
  BY <1>1, <1>2, <1>3

LEMMA UpComparisonKeeps ==
  ASSUME NEW N, NEW v \in [N -> Ordinary], NEW s, Keeps(s, v, N), ParentsIn(N),
         NEW id \in N, NEW l \in N, NEW r \in N
  PROVE  /\ (v[l] < v[r] => v[id] = 1) /\ (v[l] >= v[r] => v[id] <= 0) => Keeps(UpLTConstraint(s, id, l, r), v, N)
         /\ (v[l] <= v[r] => v[id] = 1) /\ (v[l] > v[r] => v[id] <= 0) => Keeps(UpLTEConstraint(s, id, l, r), v, N)
<1>1. v[id] = 1 => Keeps(Raise(s, id, 1, 1), v, N)
  BY Specials, RaiseKeeps
<1>2. v[id] <= 0 => Keeps(Raise(s, id, -Infinity, 0), v, N)
  <2>1. -Infinity <= v[id]
    BY Bounds, Sizes
  <2>2. QED
    BY <2>1, Specials, RaiseKeeps
<1>3. /\ s.interval[l].min <= v[l] /\ v[l] <= s.interval[l].max
      /\ s.interval[r].min <= v[r] /\ v[r] <= s.interval[r].max
      /\ v[l] \in Int /\ v[r] \in Int
      /\ s.interval[l].min \in Int /\ s.interval[l].max \in Int
      /\ s.interval[r].min \in Int /\ s.interval[r].max \in Int
  BY Bounds
<1>4. (v[l] < v[r] => v[id] = 1) /\ (v[l] >= v[r] => v[id] <= 0) => Keeps(UpLTConstraint(s, id, l, r), v, N)
  BY <1>1, <1>2, <1>3 DEF UpLTConstraint
<1>5. (v[l] <= v[r] => v[id] = 1) /\ (v[l] > v[r] => v[id] <= 0) => Keeps(UpLTEConstraint(s, id, l, r), v, N)
  BY <1>1, <1>2, <1>3 DEF UpLTEConstraint
<1>6. QED
  BY <1>4, <1>5

LEMMA UpConstraintUtilityKeeps ==
  ASSUME NEW N, NEW v \in [N -> Ordinary], NEW s, Keeps(s, v, N), ParentsIn(N),
         NEW id \in N, NEW l \in N, NEW r \in N, v[l] = 1, v[id] = v[r]
  PROVE  Keeps(UpConstraintUtility(s, id, l, r), v, N)
<1>1. s.interval[r].max \in Doubles /\ v[id] <= s.interval[r].max /\ -Infinity <= v[id]
  BY Bounds, Sizes
<1>2. Keeps(Raise(s, id, -Infinity, s.interval[r].max), v, N)
  BY <1>1, Specials, RaiseKeeps
<1>3. ~(s.interval[l].max < 1)
  BY Bounds
<1>4. QED
  BY <1>2, <1>3 DEF UpConstraintUtility

\* The hull of two intervals holds what is in either.
LEMMA UpHullKeeps ==
  ASSUME NEW N, NEW v \in [N -> Ordinary], NEW s, Keeps(s, v, N), ParentsIn(N),
         NEW id \in N, NEW l \in N, NEW r \in N, v[id] = v[l] \/ v[id] = v[r]
  PROVE  Keeps(UpHull(s, id, l, r), v, N)
<1> DEFINE lo == StdMin(s.interval[l].min, s.interval[r].min)
           hi == StdMax(s.interval[l].max, s.interval[r].max)
<1>1. /\ s.interval[l].min <= v[l] /\ v[l] <= s.interval[l].max
      /\ s.interval[r].min <= v[r] /\ v[r] <= s.interval[r].max
      /\ v[l] \in Int /\ v[r] \in Int
      /\ s.interval[l].min \in Int /\ s.interval[l].max \in Int
      /\ s.interval[r].min \in Int /\ s.interval[r].max \in Int
      /\ s.interval[l].min \in Doubles /\ s.interval[l].max \in Doubles
      /\ s.interval[r].min \in Doubles /\ s.interval[r].max \in Doubles
      /\ s.interval[l].min # NaN /\ s.interval[l].max # NaN
      /\ s.interval[r].min # NaN /\ s.interval[r].max # NaN
  BY Bounds
<1>2. lo \in Doubles /\ hi \in Doubles /\ lo <= v[id] /\ v[id] <= hi
  BY <1>1 DEF StdMin, StdMax, Lt
<1>3. Keeps(Raise(s, id, lo, hi), v, N)
  <2> HIDE DEF lo, hi
  <2> QED BY <1>2, RaiseKeeps
<1>4. QED
  BY <1>3 DEF UpHull

-----------------------------------------------------------------------------
(* Products *)

\* Facts of arithmetic with products, which the provers are told one at a time.
LEMMA SignOfProduct ==
  ASSUME NEW a \in Int, NEW b \in Int
  PROVE  /\ a * b \in Int
         /\ a > 0 /\ b > 0 => a * b > 0
         /\ a < 0 /\ b < 0 => a * b > 0
         /\ a > 0 /\ b < 0 => a * b < 0
         /\ a < 0 /\ b > 0 => a * b < 0
         /\ a = 0 \/ b = 0 => a * b = 0
OBVIOUS

LEMMA ScaleUp ==
  ASSUME NEW a \in Int, NEW b \in Int, NEW w \in Int, a <= b
  PROVE  /\ w >= 0 => a * w <= b * w /\ w * a <= w * b
         /\ w <= 0 => b * w <= a * w /\ w * b <= w * a
<1>1. (b - a) * w = b * w - a * w /\ w * a = a * w /\ w * b = b * w
  OBVIOUS
<1>2. b - a \in Int /\ b - a >= 0 /\ a * w \in Int /\ b * w \in Int
  OBVIOUS
<1>3. (w >= 0 => (b - a) * w >= 0) /\ (w <= 0 => (b - a) * w <= 0)
  BY <1>2, SignOfProduct
<1>4. QED
  BY <1>1, <1>2, <1>3

\* The quotient of two numbers and what is left.
LEMMA DivMod ==
  ASSUME NEW a \in Int, NEW b \in Nat \ {0}
  PROVE  /\ a \div b \in Int
         /\ (a \div b) * b <= a
         /\ a < (a \div b) * b + b
OBVIOUS

\* A product of doubles is the product, cut off at the infinities.
LEMMA Multiplied ==
  ASSUME NEW a \in Doubles, NEW b \in Doubles
  PROVE  /\ Multiply(a, b) = NaN <=> (a = 0 /\ IsInfinite(b)) \/ (b = 0 /\ IsInfinite(a))
         /\ Multiply(a, b) # NaN => Multiply(a, b) = Saturated(a * b)
         /\ a * b \in Int
         /\ Multiply(a, b) \in Doubles \cup {NaN}
<1>1. /\ a \in Int /\ b \in Int /\ a # NaN /\ b # NaN /\ Infinity \in Int /\ NaN \in Int /\ Infinity > 10
      /\ NaN = 2 * Infinity /\ -Infinity <= a /\ a <= Infinity /\ -Infinity <= b /\ b <= Infinity
  BY Sizes DEF Doubles
<1>2. a * b \in Int /\ Saturated(a * b) \in Doubles /\ Saturated(a * b) # NaN
  BY <1>1 DEF Saturated, Doubles
<1>3. CASE 0 \in {a, b}
  <2>1. a * b = 0
    BY <1>1, <1>3, SignOfProduct
  <2>2. Saturated(0) = 0 /\ 0 # NaN /\ 0 # Infinity /\ 0 # -Infinity
    BY <1>1 DEF Saturated
  <2>3. (a = 0 /\ IsInfinite(b)) \/ (b = 0 /\ IsInfinite(a)) <=> IsInfinite(a) \/ IsInfinite(b)
    BY <1>3, <2>2 DEF IsInfinite
  <2>4. Multiply(a, b) = IF IsInfinite(a) \/ IsInfinite(b) THEN NaN ELSE 0
    BY <1>1, <1>3 DEF Multiply
  <2>5. QED
    BY <1>2, <2>1, <2>2, <2>3, <2>4
<1>4. CASE 0 \notin {a, b}
  <2> DEFINE ma == Magnitude(a)
             mb == Magnitude(b)
             sign == IF (a < 0) = (b < 0) THEN 1 ELSE -1
  <2>1. ma \in Nat \ {0} /\ mb \in Nat \ {0} /\ (a = ma \/ a = -ma) /\ (b = mb \/ b = -mb)
    BY <1>1, <1>4 DEF Magnitude
  <2>2. ma * mb \in Int /\ a * b = sign * (ma * mb) /\ ma * mb > 0
    <3>1. ma * mb \in Int /\ (-ma) * mb = -(ma * mb) /\ ma * (-mb) = -(ma * mb) /\ (-ma) * (-mb) = ma * mb
      <4> HIDE DEF ma, mb
      <4> QED BY <2>1
    <3>2. (a < 0 <=> a = -ma) /\ (b < 0 <=> b = -mb)
      BY <1>1, <1>4 DEF Magnitude
    <3>3. ma * mb > 0
      <4> HIDE DEF ma, mb
      <4> QED BY <2>1, SignOfProduct
    <3>4. CASE (a < 0) = (b < 0)
      <4>1. sign = 1
        BY <3>4
      <4> HIDE DEF ma, mb, sign
      <4>2. a * b = ma * mb
        BY <2>1, <3>1, <3>2, <3>4
      <4>3. QED
        BY <3>1, <3>3, <4>1, <4>2
    <3>5. CASE ~((a < 0) = (b < 0))
      <4>1. sign = -1
        BY <3>5
      <4> HIDE DEF ma, mb, sign
      <4>2. a * b = -(ma * mb)
        BY <2>1, <3>1, <3>2, <3>5
      <4>3. QED
        BY <3>1, <3>3, <4>1, <4>2
    <3>6. QED
      BY <3>4, <3>5
  <2>3. Multiply(a, b) = IF ma > Infinity \div mb THEN sign * Infinity ELSE Saturated(a * b)
    BY <1>1, <1>4 DEF Multiply
  <2>4. ASSUME ma > Infinity \div mb PROVE ma * mb > Infinity
    <3> DEFINE q == Infinity \div mb
    <3> HIDE DEF ma, mb, sign
    <3>1. q \in Int /\ q * mb <= Infinity /\ Infinity < q * mb + mb
      BY <1>1, <2>1, DivMod
    <3>2. ma >= q + 1
      BY <2>1, <2>4, <3>1
    <3> HIDE DEF q
    <3>3. ma * mb >= (q + 1) * mb
      BY <2>1, <3>1, <3>2, ScaleUp
    <3>4. (q + 1) * mb = q * mb + mb /\ q * mb \in Int
      BY <2>1, <3>1
    <3>5. QED
      BY <1>1, <2>1, <2>2, <3>1, <3>3, <3>4
  <2>5. ma * mb > Infinity => sign * Infinity = Saturated(sign * (ma * mb))
    <3> HIDE DEF ma, mb
    <3>1. CASE (a < 0) = (b < 0)
      <4>1. sign = 1 /\ sign * Infinity = Infinity /\ sign * (ma * mb) = ma * mb
        BY <1>1, <2>2, <3>1
      <4> HIDE DEF sign
      <4>2. QED
        BY <1>1, <2>2, <4>1 DEF Saturated
    <3>2. CASE ~((a < 0) = (b < 0))
      <4>1. sign = -1 /\ sign * Infinity = -Infinity /\ sign * (ma * mb) = -(ma * mb)
        BY <1>1, <2>2, <3>2
      <4> HIDE DEF sign
      <4>2. QED
        BY <1>1, <2>2, <4>1 DEF Saturated
    <3>3. QED
      BY <3>1, <3>2
  <2> HIDE DEF ma, mb, sign
  <2>6. Multiply(a, b) = Saturated(a * b)
    BY <2>2, <2>3, <2>4, <2>5
  <2>7. QED
    BY <1>1, <1>2, <1>4, <2>6
<1>5. QED
  BY <1>3, <1>4

\* The product of two numbers between bounds is between products of the bounds.
LEMMA Corners ==
  ASSUME NEW a \in Int, NEW b \in Int, NEW c \in Int, NEW d \in Int, NEW x \in Int, NEW y \in Int,
         a <= x, x <= b, c <= y, y <= d
  PROVE  /\ x * y \in Int /\ a * c \in Int /\ a * d \in Int /\ b * c \in Int /\ b * d \in Int
         /\ a * c <= x * y \/ a * d <= x * y \/ b * c <= x * y \/ b * d <= x * y
         /\ x * y <= a * c \/ x * y <= a * d \/ x * y <= b * c \/ x * y <= b * d
<1>1. x * y \in Int /\ a * c \in Int /\ a * d \in Int /\ b * c \in Int /\ b * d \in Int
  OBVIOUS
<1>2. a * y \in Int /\ b * y \in Int
  OBVIOUS
<1>3. (y >= 0 => a * y <= x * y /\ x * y <= b * y) /\ (y <= 0 => b * y <= x * y /\ x * y <= a * y)
  BY ScaleUp
<1>4. (a >= 0 => a * c <= a * y /\ a * y <= a * d) /\ (a <= 0 => a * d <= a * y /\ a * y <= a * c)
  BY ScaleUp
<1>5. (b >= 0 => b * c <= b * y /\ b * y <= b * d) /\ (b <= 0 => b * d <= b * y /\ b * y <= b * c)
  BY ScaleUp
<1> DEFINE ac == a * c
           ad == a * d
           bc == b * c
           bd == b * d
           xy == x * y
           ay == a * y
           by == b * y
<1>6. ac \in Int /\ ad \in Int /\ bc \in Int /\ bd \in Int /\ xy \in Int /\ ay \in Int /\ by \in Int
  BY <1>1, <1>2
<1>7. /\ y >= 0 => ay <= xy /\ xy <= by
      /\ y <= 0 => by <= xy /\ xy <= ay
      /\ a >= 0 => ac <= ay /\ ay <= ad
      /\ a <= 0 => ad <= ay /\ ay <= ac
      /\ b >= 0 => bc <= by /\ by <= bd
      /\ b <= 0 => bd <= by /\ by <= bc
  BY <1>3, <1>4, <1>5
<1> HIDE DEF ac, ad, bc, bd, xy, ay, by
<1>8. /\ ac <= xy \/ ad <= xy \/ bc <= xy \/ bd <= xy
      /\ xy <= ac \/ xy <= ad \/ xy <= bc \/ xy <= bd
  BY <1>6, <1>7
<1>9. QED
  BY <1>1, <1>8 DEF ac, ad, bc, bd, xy

\* std::min and std::max of four.
LEMMA Extremes ==
  ASSUME NEW a \in Doubles, NEW b \in Doubles, NEW c \in Doubles, NEW d \in Doubles
  PROVE  /\ Least(<<a, b, c, d>>) \in Doubles /\ Greatest(<<a, b, c, d>>) \in Doubles
         /\ Least(<<a, b, c, d>>) <= a /\ Least(<<a, b, c, d>>) <= b
         /\ Least(<<a, b, c, d>>) <= c /\ Least(<<a, b, c, d>>) <= d
         /\ a <= Greatest(<<a, b, c, d>>) /\ b <= Greatest(<<a, b, c, d>>)
         /\ c <= Greatest(<<a, b, c, d>>) /\ d <= Greatest(<<a, b, c, d>>)
<1>1. \A x, y \in Doubles : /\ StdMin(x, y) \in Doubles /\ StdMin(x, y) <= x /\ StdMin(x, y) <= y
                            /\ StdMax(x, y) \in Doubles /\ x <= StdMax(x, y) /\ y <= StdMax(x, y)
  BY Sizes DEF StdMin, StdMax, Lt, Doubles
<1>2. \A x \in Doubles : x \in Int
  BY Sizes DEF Doubles
<1> DEFINE m == StdMin(c, d)
           n == StdMin(b, m)
           k == StdMin(a, n)
           p == StdMax(c, d)
           q == StdMax(b, p)
           r == StdMax(a, q)
<1>3. Least(<<a, b, c, d>>) = k /\ Greatest(<<a, b, c, d>>) = r
  BY DEF Least, Greatest
<1>4. m \in Doubles /\ m <= c /\ m <= d /\ p \in Doubles /\ c <= p /\ d <= p
  BY <1>1
<1> HIDE DEF m, p
<1>5. n \in Doubles /\ n <= b /\ n <= m /\ q \in Doubles /\ b <= q /\ p <= q
  BY <1>1, <1>4
<1> HIDE DEF n, q
<1>6. k \in Doubles /\ k <= a /\ k <= n /\ r \in Doubles /\ a <= r /\ q <= r
  BY <1>1, <1>5
<1> HIDE DEF k, r
<1>7. QED
  BY <1>2, <1>3, <1>4, <1>5, <1>6

\* What the product of its bounds says of the sign of an interval.
LEMMA SignProductIs ==
  ASSUME NEW r \in Ranges
  PROVE  /\ SignProduct(r) = NaN => r.min = 0 \/ r.max = 0
         /\ Lt(0, SignProduct(r)) => (r.min > 0 /\ r.max > 0) \/ (r.min < 0 /\ r.max < 0)
         /\ ~Lt(0, SignProduct(r)) /\ SignProduct(r) # NaN => r.min <= 0 \/ r.max <= 0
<1> DEFINE a == r.min
           b == r.max
<1>1. a \in Doubles /\ b \in Doubles
  BY DEF Ranges
<1>2. a \in Int /\ b \in Int /\ 0 # NaN /\ Infinity > 10
  BY <1>1, Sizes DEF Doubles
<1>3. SignProduct(r) = Multiply(a, b)
  BY DEF SignProduct
<1> HIDE DEF a, b
<1> DEFINE m == Multiply(a, b)
<1>4. /\ (m = NaN <=> (a = 0 /\ IsInfinite(b)) \/ (b = 0 /\ IsInfinite(a)))
      /\ m # NaN => m = Saturated(a * b)
      /\ a * b \in Int
  BY <1>1, Multiplied
<1> HIDE DEF m
<1>5. m # NaN => (Lt(0, m) <=> a * b > 0)
  BY <1>2, <1>4, Sizes DEF Lt, Saturated
<1>6. Lt(0, m) => m # NaN
  BY DEF Lt
<1>7. /\ m = NaN => a = 0 \/ b = 0
      /\ Lt(0, m) => (a > 0 /\ b > 0) \/ (a < 0 /\ b < 0)
      /\ ~Lt(0, m) /\ m # NaN => a <= 0 \/ b <= 0
  BY <1>2, <1>4, <1>5, <1>6, SignOfProduct
<1>8. QED
  BY <1>3, <1>7 DEF a, b, m

LEMMA UpAbsKeeps ==
  ASSUME NEW N, NEW v \in [N -> Ordinary], NEW s, Keeps(s, v, N), ParentsIn(N),
         NEW id \in N, NEW l \in N, v[id] = Magnitude(v[l])
  PROVE  Keeps(UpAbs(s, id, l), v, N)
<1> DEFINE x == s.interval[l]
           a == Magnitude(x.min)
           b == Magnitude(x.max)
           same == Lt(0, SignProduct(x)) \/ SignProduct(x) = NaN
           lo == IF same THEN StdMin(a, b) ELSE 0
           hi == StdMax(a, b)
<1>1. /\ x \in Ranges /\ x.min \in Int /\ x.max \in Int /\ x.min <= v[l] /\ v[l] <= x.max
      /\ v[l] \in Int /\ v[id] \in Int /\ -Infinity <= x.min /\ x.max <= Infinity
      /\ x.min <= Infinity /\ -Infinity <= x.max
  BY Bounds, Sizes DEF Keeps, RangesOn
<1>2. same => (x.min > 0 /\ x.max > 0) \/ (x.min < 0 /\ x.max < 0) \/ x.min = 0 \/ x.max = 0
  BY <1>1, SignProductIs
<1> HIDE DEF x, same
<1>3. a \in Int /\ b \in Int /\ a >= 0 /\ b >= 0 /\ a <= Infinity /\ b <= Infinity /\ a # NaN /\ b # NaN
  BY <1>1, Sizes DEF Magnitude
<1>4. hi \in Doubles /\ v[id] <= hi
  <2>1. v[id] <= a \/ v[id] <= b
    BY <1>1 DEF Magnitude
  <2>2. hi \in Int /\ a <= hi /\ b <= hi /\ (hi = a \/ hi = b)
    BY <1>3 DEF StdMax, Lt
  <2> HIDE DEF hi, a, b
  <2>3. QED
    BY <1>1, <1>3, <2>1, <2>2, Sizes DEF Doubles
<1>5. lo \in Doubles /\ lo <= v[id]
  <2>1. v[id] >= 0
    BY <1>1 DEF Magnitude
  <2>2. same => a <= v[id] \/ b <= v[id]
    BY <1>1, <1>2 DEF Magnitude
  <2>3. StdMin(a, b) \in Int /\ StdMin(a, b) <= a /\ StdMin(a, b) <= b /\ StdMin(a, b) >= 0
    BY <1>3 DEF StdMin, Lt
  <2> HIDE DEF a, b
  <2>4. QED
    BY <1>1, <1>3, <2>1, <2>2, <2>3, Sizes DEF Doubles
<1>6. UpAbs(s, id, l) = Raise(s, id, lo, hi)
  BY DEF UpAbs, x, same
<1> HIDE DEF lo, hi
<1>7. QED
  BY <1>4, <1>5, <1>6, RaiseKeeps

\* A bound that is a product is on the right side of an ordinary number if the product is.
LEMMA SaturatedSide ==
  ASSUME NEW n \in Int, NEW w \in Ordinary
  PROVE  /\ Saturated(n) \in Doubles
         /\ n <= w => Saturated(n) <= w
         /\ w <= n => w <= Saturated(n)
<1>1. w \in Int /\ -Infinity < w /\ w < Infinity
  BY Sizes DEF Ordinary
<1>2. QED
  BY <1>1, Sizes DEF Saturated, Doubles

\* The products of the bounds of two intervals, as doubles.
LEMMA CornerProducts ==
  ASSUME NEW a \in Doubles, NEW b \in Doubles, NEW c \in Doubles, NEW d \in Doubles,
         NEW x \in Ordinary, NEW y \in Ordinary, a <= x, x <= b, c <= y, y <= d, x * y \in Ordinary
  PROVE  /\ Saturated(a * c) \in Doubles /\ Saturated(a * d) \in Doubles
         /\ Saturated(b * c) \in Doubles /\ Saturated(b * d) \in Doubles
         /\ \/ Saturated(a * c) <= x * y \/ Saturated(a * d) <= x * y
            \/ Saturated(b * c) <= x * y \/ Saturated(b * d) <= x * y
         /\ \/ x * y <= Saturated(a * c) \/ x * y <= Saturated(a * d)
            \/ x * y <= Saturated(b * c) \/ x * y <= Saturated(b * d)
<1>1. a \in Int /\ b \in Int /\ c \in Int /\ d \in Int /\ x \in Int /\ y \in Int
  BY Sizes DEF Doubles, Ordinary
<1>2. /\ x * y \in Int /\ a * c \in Int /\ a * d \in Int /\ b * c \in Int /\ b * d \in Int
      /\ a * c <= x * y \/ a * d <= x * y \/ b * c <= x * y \/ b * d <= x * y
      /\ x * y <= a * c \/ x * y <= a * d \/ x * y <= b * c \/ x * y <= b * d
  BY <1>1, Corners
<1> DEFINE w == x * y
           e == a * c
           f == a * d
           g == b * c
           h == b * d
<1>3. /\ e \in Int /\ f \in Int /\ g \in Int /\ h \in Int /\ w \in Ordinary
      /\ e <= w \/ f <= w \/ g <= w \/ h <= w
      /\ w <= e \/ w <= f \/ w <= g \/ w <= h
  BY <1>2
<1> HIDE DEF w, e, f, g, h
<1>4. /\ Saturated(e) \in Doubles /\ Saturated(f) \in Doubles /\ Saturated(g) \in Doubles /\ Saturated(h) \in Doubles
      /\ Saturated(e) <= w \/ Saturated(f) <= w \/ Saturated(g) <= w \/ Saturated(h) <= w
      /\ w <= Saturated(e) \/ w <= Saturated(f) \/ w <= Saturated(g) \/ w <= Saturated(h)
  BY <1>3, SaturatedSide
<1>5. QED
  BY <1>4 DEF w, e, f, g, h

\* Of four bounds one is below and one above.
LEMMA AmongFour ==
  ASSUME NEW p \in Doubles, NEW q \in Doubles, NEW r \in Doubles, NEW t \in Doubles, NEW w \in Int
  PROVE  /\ p <= w \/ q <= w \/ r <= w \/ t <= w => Least(<<p, q, r, t>>) <= w
         /\ w <= p \/ w <= q \/ w <= r \/ w <= t => w <= Greatest(<<p, q, r, t>>)
<1> DEFINE lo == Least(<<p, q, r, t>>)
           hi == Greatest(<<p, q, r, t>>)
<1>1. /\ lo \in Doubles /\ hi \in Doubles /\ lo <= p /\ lo <= q /\ lo <= r /\ lo <= t
      /\ p <= hi /\ q <= hi /\ r <= hi /\ t <= hi
  BY Extremes
<1> HIDE DEF lo, hi
<1>2. lo \in Int /\ hi \in Int /\ p \in Int /\ q \in Int /\ r \in Int /\ t \in Int
  BY <1>1, Sizes DEF Doubles
<1>3. (p <= w => lo <= w) /\ (q <= w => lo <= w) /\ (r <= w => lo <= w) /\ (t <= w => lo <= w)
  BY <1>1, <1>2
<1>4. (w <= p => w <= hi) /\ (w <= q => w <= hi) /\ (w <= r => w <= hi) /\ (w <= t => w <= hi)
  BY <1>1, <1>2
<1>5. QED
  BY <1>3, <1>4 DEF lo, hi

\* The products of the bounds of two nodes, none of them 0 times an infinity.
LEMMA PairsOfProduct ==
  ASSUME NEW x \in Ranges, NEW y \in Ranges, NEW a \in Ordinary, NEW b \in Ordinary,
         Inside(a, x), Inside(b, y), a * b \in Ordinary, NaN \notin ToSet(Pairs(Multiply, x, y))
  PROVE  /\ Least(Pairs(Multiply, x, y)) \in Doubles /\ Least(Pairs(Multiply, x, y)) <= a * b
         /\ Greatest(Pairs(Multiply, x, y)) \in Doubles /\ a * b <= Greatest(Pairs(Multiply, x, y))
<1> DEFINE p == Multiply(x.min, y.min)
           q == Multiply(x.min, y.max)
           r == Multiply(x.max, y.min)
           t == Multiply(x.max, y.max)
<1>1. Pairs(Multiply, x, y) = <<p, q, r, t>>
  BY DEF Pairs
<1>2. p # NaN /\ q # NaN /\ r # NaN /\ t # NaN
  <2> HIDE DEF p, q, r, t
  <2>1. ToSet(<<p, q, r, t>>) = {p, q, r, t}
    BY DEF ToSet
  <2>2. QED
    BY <1>1, <2>1
<1>3. x.min \in Doubles /\ x.max \in Doubles /\ y.min \in Doubles /\ y.max \in Doubles
  BY DEF Ranges
<1>4. /\ p = Saturated(x.min * y.min) /\ q = Saturated(x.min * y.max)
      /\ r = Saturated(x.max * y.min) /\ t = Saturated(x.max * y.max)
  BY <1>2, <1>3, Multiplied
<1>5. x.min <= a /\ a <= x.max /\ y.min <= b /\ b <= y.max
  BY DEF Inside
<1> HIDE DEF p, q, r, t
<1>6. /\ p \in Doubles /\ q \in Doubles /\ r \in Doubles /\ t \in Doubles
      /\ p <= a * b \/ q <= a * b \/ r <= a * b \/ t <= a * b
      /\ a * b <= p \/ a * b <= q \/ a * b <= r \/ a * b <= t
  BY <1>3, <1>4, <1>5, CornerProducts
<1>7. a * b \in Int
  BY Sizes DEF Ordinary
<1>8. QED
  BY <1>1, <1>6, <1>7, AmongFour, Extremes

\* A visit in progress, whatever it has come to.
Shaped(s) == s = [interval |-> s.interval, changed |-> s.changed, undefined |-> s.undefined, empty |-> s.empty]

\* Updates leave it as it is whether something was undefined, and what is undefined stays so.
LEMMA UpdateShaped ==
  ASSUME NEW s, Shaped(s), NEW t, NEW lo, NEW hi, NEW told
  PROVE  /\ Shaped(UpdateInterval(s, t, lo, hi, told))
         /\ UpdateInterval(s, t, lo, hi, told).undefined = s.undefined
<1> DEFINE old == s.interval[t]
           new == Between(IF lo = NaN THEN old.min ELSE StdMax(old.min, lo),
                          IF hi = NaN THEN old.max ELSE StdMin(old.max, hi))
           ch == IF Lt(old.min, lo) \/ Lt(hi, old.max) THEN Enqueued(s.changed, told) ELSE s.changed
           u == UpdateInterval(s, t, lo, hi, told)
           iv == [s.interval EXCEPT ![t] = new]
<1> HIDE DEF new, ch
<1>1. u = IF s.empty THEN s ELSE [s EXCEPT !.interval[t] = new, !.empty = new.min > new.max, !.changed = ch]
  BY Zenon DEF UpdateInterval, new, ch
<1>2. ~s.empty => u = [interval |-> iv, changed |-> ch, undefined |-> s.undefined, empty |-> new.min > new.max]
  BY <1>1 DEF Shaped
<1> HIDE DEF u, iv
<1>3. QED
  BY <1>1, <1>2 DEF u, Shaped

\* To note that something is undefined changes nothing else.
LEMMA DefinedShaped ==
  ASSUME NEW s, Shaped(s), NEW values
  PROVE  /\ Shaped(Defined(s, values))
         /\ Defined(s, values) = [interval |-> s.interval, changed |-> s.changed,
                                  undefined |-> s.undefined \/ NaN \in ToSet(values), empty |-> s.empty]
BY DEF Shaped, Defined

LEMMA DefinedKeeps ==
  ASSUME NEW N, NEW v \in [N -> Ordinary], NEW s, Keeps(s, v, N), NEW values, ~Defined(s, values).undefined
  PROVE  /\ Keeps(Defined(s, values), v, N)
         /\ NaN \notin ToSet(values)
         /\ Defined(s, values).interval = s.interval
<1>1. Shaped(s)
  BY DEF Keeps, Shaped
<1>2. s.empty = FALSE
  BY DEF Keeps
<1>3. Defined(s, values) = [interval |-> s.interval, changed |-> s.changed,
                            undefined |-> s.undefined \/ NaN \in ToSet(values), empty |-> s.empty]
  BY <1>1, DefinedShaped
<1> DEFINE d == Defined(s, values)
<1>4. d.interval = s.interval /\ d.changed = s.changed /\ d.undefined = (s.undefined \/ NaN \in ToSet(values))
  BY <1>3
<1>5. NaN \notin ToSet(values)
  BY <1>4
<1>6. d = [interval |-> d.interval, changed |-> d.changed, undefined |-> d.undefined, empty |-> FALSE]
  <2> DEFINE yes == s.undefined \/ NaN \in ToSet(values)
  <2>1. d = [interval |-> s.interval, changed |-> s.changed, undefined |-> yes, empty |-> FALSE]
    BY <1>2, <1>3
  <2> HIDE DEF yes, d
  <2>2. QED
    BY <2>1
<1> HIDE DEF d
<1>7. Keeps(d, v, N)
  BY <1>4, <1>6 DEF Keeps
<1>8. QED
  BY <1>4, <1>5, <1>7 DEF d

\* A product from its factors, which may be one and the same.
LEMMA UpProductKeeps ==
  ASSUME NEW N, NEW v \in [N -> Ordinary], NEW s, Keeps(s, v, N), ParentsIn(N),
         NEW id \in N, NEW l \in N, NEW r \in N, v[id] = v[l] * v[r], ~UpProduct(s, id, l, r).undefined
  PROVE  Keeps(UpProduct(s, id, l, r), v, N)
<1> DEFINE x == s.interval[l]
           y == s.interval[r]
           p == Pairs(Multiply, x, y)
           zero == ~Lt(0, SignProduct(x)) /\ SignProduct(x) # NaN
<1>1. /\ x \in Ranges /\ y \in Ranges /\ v[l] \in Ordinary /\ v[r] \in Ordinary /\ v[id] \in Ordinary
      /\ Inside(v[l], x) /\ Inside(v[r], y)
  BY DEF Keeps, RangesOn
<1>2. Shaped(s)
  BY DEF Keeps, Shaped
<1>3. CASE l # r
  <2> DEFINE d == Defined(s, p)
  <2>1. UpProduct(s, id, l, r) = Raise(d, id, Least(p), Greatest(p))
    BY <1>3 DEF UpProduct
  <2>2. ~d.undefined
    <3>1. Shaped(d)
      BY <1>2, DefinedShaped
    <3> HIDE DEF d, p
    <3>2. Raise(d, id, Least(p), Greatest(p)).undefined = d.undefined
      BY <3>1, UpdateShaped DEF Raise
    <3>3. QED
      BY <2>1, <3>2
  <2>3. Keeps(d, v, N) /\ NaN \notin ToSet(p)
    BY <2>2, DefinedKeeps
  <2>4. /\ Least(p) \in Doubles /\ Least(p) <= v[id]
        /\ Greatest(p) \in Doubles /\ v[id] <= Greatest(p)
    <3> HIDE DEF x, y
    <3> QED BY <1>1, <2>3, PairsOfProduct
  <2> HIDE DEF d, p
  <2>5. QED
    BY <2>1, <2>3, <2>4, RaiseKeeps
<1>4. CASE l = r
  <2> DEFINE a == Multiply(x.min, x.min)
             b == Multiply(x.max, x.max)
             lo == IF zero THEN 0 ELSE StdMin(a, b)
             hi == StdMax(a, b)
             d == Defined(s, <<a, b>>)
  <2>1. UpProduct(s, id, l, r) = Raise(d, id, lo, hi)
    BY <1>4 DEF UpProduct, Pairs
  <2>2. ~d.undefined
    <3>1. Shaped(d)
      BY <1>2, DefinedShaped
    <3> HIDE DEF d, lo, hi
    <3>2. Raise(d, id, lo, hi).undefined = d.undefined
      BY <3>1, UpdateShaped DEF Raise
    <3>3. QED
      BY <2>1, <3>2
  <2>3. Keeps(d, v, N)
    BY <2>2, DefinedKeeps
  <2>4. /\ x.min \in Doubles /\ x.max \in Doubles /\ x.min <= v[l] /\ v[l] <= x.max
        /\ x.min \in Int /\ x.max \in Int /\ v[l] \in Int /\ v[id] \in Int /\ v[id] = v[l] * v[l]
    BY <1>1, <1>4, Sizes DEF Ranges, Inside, Doubles, Ordinary
  <2> DEFINE w == v[l]
             z == v[id]
  <2>5. z \in Int /\ z \in Ordinary /\ z = w * w /\ w \in Int /\ w \in Ordinary
    BY <1>1, <2>4
  <2>6. /\ ~zero => (x.min > 0 /\ x.max > 0) \/ (x.min < 0 /\ x.max < 0) \/ x.min = 0 \/ x.max = 0
    <3> HIDE DEF x
    <3> QED BY <1>1, SignProductIs
  <2>7. x.min <= w /\ w <= x.max
    BY <2>4
  <2> HIDE DEF x, w, z, zero
  <2>8. /\ a = Saturated(x.min * x.min) /\ b = Saturated(x.max * x.max)
        /\ x.min * x.min \in Int /\ x.max * x.max \in Int
    <3>1. ~(x.min = 0 /\ IsInfinite(x.min)) /\ ~(x.max = 0 /\ IsInfinite(x.max))
      BY Sizes DEF IsInfinite
    <3>2. QED
      BY <2>4, <3>1, Multiplied
  <2> HIDE DEF a, b
  <2>9. a \in Doubles /\ b \in Doubles
    BY <2>5, <2>8, SaturatedSide
  <2>10. a <= z \/ b <= z \/ zero
    <3>1. CASE ~zero /\ (x.min > 0 \/ x.max < 0 \/ x.min = 0 \/ x.max = 0)
      <4>1. x.min >= 0 => x.min * x.min <= w * w
        <5>1. x.min >= 0 => w >= 0
          BY <2>4, <2>5, <2>7
        <5>2. x.min >= 0 => x.min * x.min <= x.min * w /\ x.min * w <= w * w
          BY <2>4, <2>5, <2>7, <5>1, ScaleUp
        <5>3. x.min * x.min \in Int /\ x.min * w \in Int /\ w * w \in Int
          BY <2>4, <2>5
        <5>4. QED
          BY <5>2, <5>3
      <4>2. x.max <= 0 => x.max * x.max <= w * w
        <5>1. x.max <= 0 => w <= 0
          BY <2>4, <2>5, <2>7
        <5>2. x.max <= 0 => x.max * x.max <= x.max * w /\ x.max * w <= w * w
          BY <2>4, <2>5, <2>7, <5>1, ScaleUp
        <5>3. x.max * x.max \in Int /\ x.max * w \in Int /\ w * w \in Int
          BY <2>4, <2>5
        <5>4. QED
          BY <5>2, <5>3
      <4>3. x.min >= 0 \/ x.max <= 0
        BY <2>4, <3>1
      <4>4. x.min * x.min <= z \/ x.max * x.max <= z
        BY <2>5, <4>1, <4>2, <4>3
      <4>5. QED
        BY <2>5, <2>8, <4>4, SaturatedSide
    <3>2. QED
      BY <2>6, <3>1
  <2>11. z <= a \/ z <= b
    <3>1. w >= 0 => w * w <= x.max * w /\ x.max * w <= x.max * x.max
      BY <2>4, <2>5, <2>7, ScaleUp
    <3>2. w <= 0 => w * w <= x.min * w /\ x.min * w <= x.min * x.min
      BY <2>4, <2>5, <2>7, ScaleUp
    <3>3. x.min * x.min \in Int /\ x.min * w \in Int /\ w * w \in Int /\ x.max * x.max \in Int /\ x.max * w \in Int
      BY <2>4, <2>5
    <3>4. z <= x.min * x.min \/ z <= x.max * x.max
      BY <2>5, <3>1, <3>2, <3>3
    <3>5. QED
      BY <2>5, <2>8, <3>4, SaturatedSide
  <2>12. z >= 0
    <3>1. w * w \in Int /\ (w # 0 => w * w > 0) /\ (w = 0 => w * w = 0)
      BY <2>5, SignOfProduct
    <3>2. QED
      BY <2>5, <3>1
  <2>13. lo \in Doubles /\ hi \in Doubles /\ lo <= z /\ z <= hi
    <3>1. a \in Int /\ b \in Int /\ a # NaN /\ b # NaN
      BY <2>9, Sizes DEF Doubles
    <3>2. QED
      BY <2>5, <2>9, <2>10, <2>11, <2>12, <3>1, Specials DEF StdMin, StdMax, Lt
  <2> HIDE DEF lo, hi, d
  <2>14. QED
    BY <2>1, <2>3, <2>13, RaiseKeeps DEF z
<1>5. QED
  BY <1>3, <1>4

-----------------------------------------------------------------------------
(* Quotients *)

\* A quotient rounded down is no larger than what is at least the quotient.
LEMMA FloorBelow ==
  ASSUME NEW a \in Int, NEW b \in Int, b # 0, NEW x \in Int
  PROVE  /\ RoundedDown(a, b) \in Int
         /\ b > 0 /\ a <= x * b => RoundedDown(a, b) <= x
         /\ b < 0 /\ x * b <= a => RoundedDown(a, b) <= x
         /\ (a > 0 /\ b > 0) \/ (a < 0 /\ b < 0) \/ a = 0 => 0 <= RoundedDown(a, b)
         /\ -Magnitude(a) <= RoundedDown(a, b) /\ RoundedDown(a, b) <= Magnitude(a)
<1>1. ASSUME NEW c \in Int, NEW d \in Nat \ {0}, NEW y \in Int
      PROVE  /\ c \div d \in Int
             /\ c <= y * d => c \div d <= y
             /\ c >= 0 => 0 <= c \div d /\ c \div d <= c
             /\ c <= 0 => c <= c \div d /\ c \div d <= 0
  <2> DEFINE q == c \div d
  <2>1. q \in Int /\ q * d <= c /\ c < q * d + d /\ q * d \in Int
    BY DivMod
  <2> HIDE DEF q
  <2>2. ASSUME NEW z \in Int, c < z * d PROVE q < z
    <3>1. q >= z => z * d <= q * d
      BY <2>1, ScaleUp
    <3>2. z * d \in Int
      OBVIOUS
    <3>3. QED
      BY <2>1, <2>2, <3>1, <3>2
  <2>3. ASSUME NEW z \in Int, z * d <= c PROVE z <= q
    <3>1. q < z => (q + 1) * d <= z * d
      BY <2>1, ScaleUp
    <3>2. z * d \in Int /\ (q + 1) * d = q * d + d
      BY <2>1
    <3>3. QED
      BY <2>1, <2>3, <3>1, <3>2
  <2>4. c <= y * d => q <= y
    <3>1. (y + 1) * d = y * d + d /\ y * d \in Int /\ y + 1 \in Int
      OBVIOUS
    <3>2. c <= y * d => c < (y + 1) * d
      BY <3>1
    <3>3. c <= y * d => q < y + 1
      BY <2>2, <3>1, <3>2
    <3>4. QED
      BY <2>1, <3>3
  <2>5. c >= 0 => 0 <= q
    <3>1. 0 * d = 0
      OBVIOUS
    <3>2. QED
      BY <2>3, <3>1
  <2>6. c >= 0 => q <= c
    <3>1. c >= 0 => c <= c * d
      <4>1. 1 * c <= d * c \/ c < 0
        BY ScaleUp
      <4>2. 1 * c = c /\ d * c = c * d
        OBVIOUS
      <4>3. QED
        BY <4>1, <4>2
    <3>2. (c + 1) * d = c * d + d /\ c * d \in Int
      OBVIOUS
    <3>3. c >= 0 => c < (c + 1) * d
      BY <3>1, <3>2
    <3>4. c >= 0 => q < c + 1
      BY <2>2, <3>3
    <3>5. QED
      BY <2>1, <3>4
  <2>7. c <= 0 => c <= q
    <3>1. c <= 0 => d * c <= 1 * c
      BY ScaleUp
    <3>2. 1 * c = c /\ d * c = c * d
      OBVIOUS
    <3>3. QED
      BY <2>3, <3>1, <3>2
  <2>8. c <= 0 => q <= 0
    <3>1. 1 * d = d
      OBVIOUS
    <3>2. c <= 0 => q < 1
      BY <2>2, <3>1
    <3>3. QED
      BY <2>1, <3>2
  <2>9. QED
    BY <2>1, <2>4, <2>5, <2>6, <2>7, <2>8 DEF q
<1>2. CASE b > 0
  <2>1. RoundedDown(a, b) = a \div b /\ b \in Nat \ {0}
    BY <1>2 DEF RoundedDown
  <2>2. QED
    BY <1>1, <1>2, <2>1 DEF Magnitude
<1>3. CASE b < 0
  <2> DEFINE c == -a
             d == -b
  <2>1. RoundedDown(a, b) = c \div d /\ d \in Nat \ {0} /\ c \in Int
    BY <1>3 DEF RoundedDown
  <2>2. x * d = -(x * b) /\ x * b \in Int
    OBVIOUS
  <2>3. (x * b <= a <=> c <= x * d)
    BY <2>2
  <2>4. Magnitude(a) = Magnitude(c) /\ (a < 0 <=> c > 0) /\ (a = 0 <=> c = 0)
    BY DEF Magnitude
  <2> HIDE DEF c, d
  <2>5. /\ c \div d \in Int
        /\ c <= x * d => c \div d <= x
        /\ c >= 0 => 0 <= c \div d /\ c \div d <= c
        /\ c <= 0 => c <= c \div d /\ c \div d <= 0
    BY <1>1, <2>1
  <2>6. -Magnitude(c) <= c \div d /\ c \div d <= Magnitude(c)
    BY <2>1, <2>5 DEF Magnitude
  <2>7. QED
    BY <1>3, <2>1, <2>3, <2>4, <2>5, <2>6
<1>4. QED
  BY <1>2, <1>3

\* A quotient rounded down is at most a number whose multiple is known; one rounded up at least.
LEMMA DivideDown ==
  ASSUME NEW a \in Doubles, NEW b \in Doubles, b # 0, ~(IsInfinite(a) /\ IsInfinite(b)), NEW x \in Ordinary
  PROVE  /\ Divide(a, b, FALSE) \in Doubles
         /\ b > 0 /\ a # Infinity /\ a <= x * b => Divide(a, b, FALSE) <= x
         /\ b < 0 /\ a # -Infinity /\ x * b <= a => Divide(a, b, FALSE) <= x
<1> DEFINE w == x * b
           q == Divide(a, b, FALSE)
<1> SUFFICES /\ q \in Doubles
             /\ b > 0 /\ a # Infinity /\ a <= w => q <= x
             /\ b < 0 /\ a # -Infinity /\ w <= a => q <= x
  OBVIOUS
<1>1. /\ a \in Int /\ b \in Int /\ a # NaN /\ b # NaN /\ Infinity \in Int /\ Infinity > 10 /\ x \in Int
      /\ -Infinity < x /\ x < Infinity /\ Infinity # -Infinity /\ w \in Int
      /\ -Infinity <= a /\ a <= Infinity /\ -Infinity <= b /\ b <= Infinity
  BY Sizes DEF Doubles, Ordinary
<1>2. CASE IsInfinite(a)
  <2>1. q = IF (a < 0) = (b < 0) THEN Infinity ELSE -Infinity
    BY <1>1, <1>2 DEF Divide
  <2>2. a = Infinity \/ a = -Infinity
    BY <1>2 DEF IsInfinite
  <2> HIDE DEF q, w
  <2>3. CASE a = Infinity /\ b > 0
    <3>1. q = Infinity
      BY <1>1, <2>1, <2>3
    <3>2. QED
      BY <1>1, <2>3, <3>1, Specials
  <2>4. CASE a = Infinity /\ b < 0
    <3>1. q = -Infinity
      BY <1>1, <2>1, <2>4
    <3>2. QED
      BY <1>1, <2>4, <3>1, Specials
  <2>5. CASE a = -Infinity /\ b > 0
    <3>1. q = -Infinity
      BY <1>1, <2>1, <2>5
    <3>2. QED
      BY <1>1, <2>5, <3>1, Specials
  <2>6. CASE a = -Infinity /\ b < 0
    <3>1. q = Infinity
      BY <1>1, <2>1, <2>6
    <3>2. QED
      BY <1>1, <2>6, <3>1, Specials
  <2>7. QED
    BY <1>1, <2>2, <2>3, <2>4, <2>5, <2>6
<1>3. CASE ~IsInfinite(a) /\ IsInfinite(b)
  <2>1. b = Infinity \/ b = -Infinity
    BY <1>3 DEF IsInfinite
  <2>2. q = IF a = 0 THEN 0 ELSE IF (a < 0) = (b < 0) THEN 0 ELSE -1
    BY <1>1, <1>3 DEF Divide
  <2>3. -Infinity < a /\ a < Infinity
    BY <1>1, <1>3 DEF IsInfinite
  <2>4. (-1) * b = -b
    BY <1>1
  <2>5. (b > 0 /\ x <= -1 => w <= -b) /\ (b < 0 /\ x <= -1 => -b <= w)
    BY <1>1, <2>4, ScaleUp
  <2> HIDE DEF q, w
  <2>6. (b > 0 /\ a <= w => x >= 0) /\ (b < 0 /\ w <= a => x >= 0)
    BY <1>1, <2>1, <2>3, <2>5
  <2>7. q \in Int /\ (q = 0 \/ q = -1)
    BY <2>2
  <2>8. q \in Doubles
    BY <1>1, <2>7 DEF Doubles
  <2>9. x >= 0 => q <= x
    BY <1>1, <2>7
  <2>10. QED
    BY <2>6, <2>8, <2>9
<1>4. CASE ~IsInfinite(a) /\ ~IsInfinite(b)
  <2>1. q = RoundedDown(a, b)
    BY <1>1, <1>4 DEF Divide
  <2>2. /\ q \in Int
        /\ b > 0 /\ a <= w => q <= x
        /\ b < 0 /\ w <= a => q <= x
        /\ -Magnitude(a) <= q /\ q <= Magnitude(a)
    <3>1. a \in Int /\ b \in Int /\ x \in Int
      BY <1>1
    <3> HIDE DEF q
    <3>2. QED
      BY <2>1, <3>1, FloorBelow
  <2>3. Magnitude(a) \in Int /\ Magnitude(a) <= Infinity
    BY <1>1 DEF Magnitude
  <2> HIDE DEF q, w
  <2>4. q \in Doubles
    BY <1>1, <2>2, <2>3 DEF Doubles
  <2>5. QED
    BY <2>1, <2>2, <2>4
<1>5. QED
  BY <1>2, <1>3, <1>4

\* Rounded up it is the opposite of the opposite rounded down.
LEMMA DivideUp ==
  ASSUME NEW a \in Doubles, NEW b \in Doubles, b # 0, ~(IsInfinite(a) /\ IsInfinite(b)), NEW x \in Ordinary
  PROVE  /\ Divide(a, b, TRUE) \in Doubles
         /\ b > 0 /\ a # -Infinity /\ x * b <= a => x <= Divide(a, b, TRUE)
         /\ b < 0 /\ a # Infinity /\ a <= x * b => x <= Divide(a, b, TRUE)
<1> DEFINE c == -a
           y == -x
<1>1. /\ a \in Int /\ b \in Int /\ a # NaN /\ b # NaN /\ Infinity \in Int /\ Infinity > 10 /\ x \in Int
      /\ Infinity # -Infinity /\ x * b \in Int /\ c # NaN /\ c \in Int
      /\ (IsInfinite(a) <=> IsInfinite(c))
  BY Sizes DEF Doubles, Ordinary, IsInfinite
<1>2. c \in Doubles /\ y \in Ordinary /\ y \in Int
  BY Sizes DEF Doubles, Ordinary
<1>n. a \in Int /\ b \in Int /\ c \in Int /\ Infinity \in Int
  BY <1>1
<1>3. y * b = -(x * b)
  BY <1>1
<1>4. (c <= y * b <=> x * b <= a) /\ (y * b <= c <=> a <= x * b)
  BY <1>1, <1>3
<1>5. (c # Infinity <=> a # -Infinity) /\ (c # -Infinity <=> a # Infinity)
  BY <1>1
<1> DEFINE q == Divide(c, b, FALSE)
<1>6. /\ q \in Doubles
      /\ b > 0 /\ c # Infinity /\ c <= y * b => q <= y
      /\ b < 0 /\ c # -Infinity /\ y * b <= c => q <= y
  <2> HIDE DEF c, y
  <2> QED BY <1>1, <1>2, DivideDown
<1>7. q \in Int
  <2> HIDE DEF q
  <2> QED BY <1>6, Sizes DEF Doubles
<1> DEFINE p == Divide(a, b, TRUE)
<1>9. p \in Int /\ p + q = 0
  <2>1. CASE IsInfinite(a)
    <3>1. p = IF (a < 0) = (b < 0) THEN Infinity ELSE -Infinity
      BY <1>1, <2>1 DEF Divide
    <3>2. q = IF (c < 0) = (b < 0) THEN Infinity ELSE -Infinity
      BY <1>1, <2>1 DEF Divide, q
    <3> HIDE DEF p, q
    <3>3. a > 0 \/ a < 0
      BY <1>n, <2>1, Sizes DEF IsInfinite
    <3>4. CASE a > 0 /\ b > 0
      <4>1. (a < 0) = (b < 0) /\ a # 0
        BY <1>n, <3>4
      <4>2. ~((c < 0) = (b < 0)) /\ c # 0
        BY <1>n, <3>4 DEF c
      <4> HIDE DEF c
      <4>3. p = Infinity
        BY <3>1, <4>1
      <4>4. q = -Infinity
        BY <3>2, <4>2
      <4>5. QED
        BY <1>n, <1>7, <4>3, <4>4
    <3>5. CASE a > 0 /\ b < 0
      <4>1. ~((a < 0) = (b < 0)) /\ a # 0
        BY <1>n, <3>5
      <4>2. (c < 0) = (b < 0) /\ c # 0
        BY <1>n, <3>5 DEF c
      <4> HIDE DEF c
      <4>3. p = -Infinity
        BY <3>1, <4>1
      <4>4. q = Infinity
        BY <3>2, <4>2
      <4>5. QED
        BY <1>n, <1>7, <4>3, <4>4
    <3>6. CASE a < 0 /\ b > 0
      <4>1. ~((a < 0) = (b < 0)) /\ a # 0
        BY <1>n, <3>6
      <4>2. (c < 0) = (b < 0) /\ c # 0
        BY <1>n, <3>6 DEF c
      <4> HIDE DEF c
      <4>3. p = -Infinity
        BY <3>1, <4>1
      <4>4. q = Infinity
        BY <3>2, <4>2
      <4>5. QED
        BY <1>n, <1>7, <4>3, <4>4
    <3>7. CASE a < 0 /\ b < 0
      <4>1. (a < 0) = (b < 0) /\ a # 0
        BY <1>n, <3>7
      <4>2. ~((c < 0) = (b < 0)) /\ c # 0
        BY <1>n, <3>7 DEF c
      <4> HIDE DEF c
      <4>3. p = Infinity
        BY <3>1, <4>1
      <4>4. q = -Infinity
        BY <3>2, <4>2
      <4>5. QED
        BY <1>n, <1>7, <4>3, <4>4
    <3>8. QED
      BY <1>n, <3>3, <3>4, <3>5, <3>6, <3>7
  <2>2. CASE ~IsInfinite(a) /\ IsInfinite(b)
    <3>1. p = IF a = 0 THEN 0 ELSE IF (a < 0) = (b < 0) THEN 1 ELSE 0
      BY <1>1, <2>2 DEF Divide
    <3>2. q = IF c = 0 THEN 0 ELSE IF (c < 0) = (b < 0) THEN 0 ELSE -1
      BY <1>1, <2>2 DEF Divide, q
    <3> HIDE DEF p, q
    <3>3. CASE a = 0
      <4>1. c = 0
        <5>1. c = 0 - a
          BY <1>n
        <5> HIDE DEF c
        <5>2. QED
          BY <3>3, <5>1
      <4> HIDE DEF c
      <4>2. QED
        BY <1>7, <3>1, <3>2, <3>3, <4>1
    <3>4. CASE a > 0 /\ b > 0
      <4>1. (a < 0) = (b < 0) /\ a # 0
        BY <1>n, <3>4
      <4>2. ~((c < 0) = (b < 0)) /\ c # 0
        BY <1>n, <3>4 DEF c
      <4> HIDE DEF c
      <4>3. p = 1
        BY <3>1, <4>1
      <4>4. q = -1
        BY <3>2, <4>2
      <4>5. QED
        BY <1>n, <1>7, <4>3, <4>4
    <3>5. CASE a > 0 /\ b < 0
      <4>1. ~((a < 0) = (b < 0)) /\ a # 0
        BY <1>n, <3>5
      <4>2. (c < 0) = (b < 0) /\ c # 0
        BY <1>n, <3>5 DEF c
      <4> HIDE DEF c
      <4>3. p = 0
        BY <3>1, <4>1
      <4>4. q = 0
        BY <3>2, <4>2
      <4>5. QED
        BY <1>n, <1>7, <4>3, <4>4
    <3>6. CASE a < 0 /\ b > 0
      <4>1. ~((a < 0) = (b < 0)) /\ a # 0
        BY <1>n, <3>6
      <4>2. (c < 0) = (b < 0) /\ c # 0
        BY <1>n, <3>6 DEF c
      <4> HIDE DEF c
      <4>3. p = 0
        BY <3>1, <4>1
      <4>4. q = 0
        BY <3>2, <4>2
      <4>5. QED
        BY <1>n, <1>7, <4>3, <4>4
    <3>7. CASE a < 0 /\ b < 0
      <4>1. (a < 0) = (b < 0) /\ a # 0
        BY <1>n, <3>7
      <4>2. ~((c < 0) = (b < 0)) /\ c # 0
        BY <1>n, <3>7 DEF c
      <4> HIDE DEF c
      <4>3. p = 1
        BY <3>1, <4>1
      <4>4. q = -1
        BY <3>2, <4>2
      <4>5. QED
        BY <1>n, <1>7, <4>3, <4>4
    <3>8. QED
      BY <1>n, <3>3, <3>4, <3>5, <3>6, <3>7
  <2>3. CASE ~IsInfinite(a) /\ ~IsInfinite(b)
    <3>1. p = -RoundedDown(-a, b) /\ q = RoundedDown(c, b)
      BY <1>1, <2>3 DEF Divide
    <3>2. RoundedDown(-a, b) = q
      BY <3>1
    <3> HIDE DEF p, q
    <3>3. p = -q
      BY <3>1, <3>2
    <3>4. QED
      BY <1>7, <3>3
  <2>4. QED
    BY <2>1, <2>2, <2>3
<1> HIDE DEF c, y, p, q
<1>8. -q \in Doubles /\ (q <= y => x <= -q)
  BY <1>1, <1>2, <1>6, <1>7 DEF Doubles, y
<1>10. p = -q
  BY <1>7, <1>9
<1>11. QED
  BY <1>4, <1>5, <1>6, <1>8, <1>10 DEF p

Ratios(p, y, up) == <<Divide(p.min, y.min, up), Divide(p.min, y.max, up), Divide(p.max, y.min, up), Divide(p.max, y.max, up)>>

\* A factor is between the quotients of the bounds of the product and those of the other factor,
\* which has one sign.
LEMMA RatiosAround ==
  ASSUME NEW p \in Ranges, NEW y \in Ranges, (y.min > 0 /\ y.max > 0) \/ (y.min < 0 /\ y.max < 0),
         NEW a \in Ordinary, NEW b \in Ordinary, Inside(b, y), a * b \in Ordinary, Inside(a * b, p),
         NaN \notin ToSet(Ratios(p, y, FALSE))
  PROVE  /\ Least(Ratios(p, y, FALSE)) \in Doubles /\ Least(Ratios(p, y, FALSE)) <= a
         /\ Greatest(Ratios(p, y, TRUE)) \in Doubles /\ a <= Greatest(Ratios(p, y, TRUE))
<1> DEFINE e == p.min
           f == p.max
           c == y.min
           d == y.max
           w == a * b
<1>1. e \in Doubles /\ f \in Doubles /\ c \in Doubles /\ d \in Doubles
  BY DEF Ranges
<1>2. a \in Int /\ b \in Int /\ e \in Int /\ f \in Int /\ c \in Int /\ d \in Int /\ Infinity \in Int
  BY <1>1, Sizes DEF Doubles, Ordinary
<1>3. w \in Int /\ -Infinity < w /\ w < Infinity
  BY <1>2, Sizes DEF Ordinary
<1>4. e <= w /\ w <= f /\ c <= b /\ b <= d /\ ((c > 0 /\ d > 0) \/ (c < 0 /\ d < 0))
  BY DEF Inside
<1>5. e # Infinity /\ f # -Infinity /\ c # 0 /\ d # 0
  BY <1>2, <1>3, <1>4
<1>6. a * c \in Int /\ a * d \in Int
  BY <1>2
<1>7. (a >= 0 => a * c <= w /\ w <= a * d) /\ (a <= 0 => a * d <= w /\ w <= a * c)
  BY <1>2, <1>4, ScaleUp
<1>8. Ratios(p, y, FALSE) = <<Divide(e, c, FALSE), Divide(e, d, FALSE), Divide(f, c, FALSE), Divide(f, d, FALSE)>>
  BY DEF Ratios
<1>9. Ratios(p, y, TRUE) = <<Divide(e, c, TRUE), Divide(e, d, TRUE), Divide(f, c, TRUE), Divide(f, d, TRUE)>>
  BY DEF Ratios
<1>10. /\ ~(IsInfinite(e) /\ IsInfinite(c)) /\ ~(IsInfinite(e) /\ IsInfinite(d))
       /\ ~(IsInfinite(f) /\ IsInfinite(c)) /\ ~(IsInfinite(f) /\ IsInfinite(d))
  <2> DEFINE q1 == Divide(e, c, FALSE)
             q2 == Divide(e, d, FALSE)
             q3 == Divide(f, c, FALSE)
             q4 == Divide(f, d, FALSE)
  <2>1. /\ IsInfinite(e) /\ IsInfinite(c) => q1 = NaN
        /\ IsInfinite(e) /\ IsInfinite(d) => q2 = NaN
        /\ IsInfinite(f) /\ IsInfinite(c) => q3 = NaN
        /\ IsInfinite(f) /\ IsInfinite(d) => q4 = NaN
    BY DEF Divide
  <2>2. Ratios(p, y, FALSE) = <<q1, q2, q3, q4>>
    BY <1>8
  <2> HIDE DEF q1, q2, q3, q4
  <2>3. ToSet(<<q1, q2, q3, q4>>) = {q1, q2, q3, q4}
    BY DEF ToSet
  <2>4. QED
    BY <2>1, <2>2, <2>3
<1> HIDE DEF e, f, c, d, w
<1> DEFINE ac == a * c
           ad == a * d
           q1 == Divide(e, c, FALSE)
           q2 == Divide(e, d, FALSE)
           q3 == Divide(f, c, FALSE)
           q4 == Divide(f, d, FALSE)
           u1 == Divide(e, c, TRUE)
           u2 == Divide(e, d, TRUE)
           u3 == Divide(f, c, TRUE)
           u4 == Divide(f, d, TRUE)
<1>11. /\ q1 \in Doubles
       /\ c > 0 /\ e # Infinity /\ e <= ac => q1 <= a
       /\ q2 \in Doubles
       /\ d > 0 /\ e # Infinity /\ e <= ad => q2 <= a
       /\ q3 \in Doubles
       /\ c < 0 /\ f # -Infinity /\ ac <= f => q3 <= a
       /\ q4 \in Doubles
       /\ d < 0 /\ f # -Infinity /\ ad <= f => q4 <= a
  BY <1>1, <1>5, <1>10, DivideDown
<1>12. /\ u1 \in Doubles
       /\ c < 0 /\ e # Infinity /\ e <= ac => a <= u1
       /\ u2 \in Doubles
       /\ d < 0 /\ e # Infinity /\ e <= ad => a <= u2
       /\ u3 \in Doubles
       /\ c > 0 /\ f # -Infinity /\ ac <= f => a <= u3
       /\ u4 \in Doubles
       /\ d > 0 /\ f # -Infinity /\ ad <= f => a <= u4
  BY <1>1, <1>5, <1>10, DivideUp
<1>13. /\ ac \in Int /\ ad \in Int
       /\ (a >= 0 => ac <= w /\ w <= ad) /\ (a <= 0 => ad <= w /\ w <= ac)
  BY <1>6, <1>7
<1> HIDE DEF ac, ad, q1, q2, q3, q4, u1, u2, u3, u4
<1>14. /\ a >= 0 => ac <= f /\ e <= ad
       /\ a <= 0 => ad <= f /\ e <= ac
  BY <1>2, <1>3, <1>4, <1>13
<1>15. q1 <= a \/ q2 <= a \/ q3 <= a \/ q4 <= a
  BY <1>2, <1>4, <1>5, <1>11, <1>14
<1>16. a <= u1 \/ a <= u2 \/ a <= u3 \/ a <= u4
  BY <1>2, <1>4, <1>5, <1>12, <1>14
<1>17. /\ Least(<<q1, q2, q3, q4>>) \in Doubles /\ Least(<<q1, q2, q3, q4>>) <= a
  BY <1>2, <1>11, <1>15, AmongFour, Extremes
<1>18. /\ Greatest(<<u1, u2, u3, u4>>) \in Doubles /\ a <= Greatest(<<u1, u2, u3, u4>>)
  BY <1>2, <1>12, <1>16, AmongFour, Extremes
<1>19. QED
  BY <1>8, <1>9, <1>17, <1>18 DEF q1, q2, q3, q4, u1, u2, u3, u4

\* A factor from the product and the other factor.
LEMMA DividedByKeeps ==
  ASSUME NEW N, NEW v \in [N -> Ordinary], NEW s, Keeps(s, v, N), NEW p \in Ranges,
         NEW x \in N, NEW y \in N, v[x] * v[y] \in Ordinary, Inside(v[x] * v[y], p),
         ~DividedBy(s, p, x, y).undefined
  PROVE  Keeps(DividedBy(s, p, x, y), v, N)
<1> DEFINE r == s.interval[y]
           pairs == Ratios(p, r, FALSE)
           lo == Least(pairs)
           hi == Greatest(Ratios(p, r, TRUE))
           d == Defined(s, pairs)
<1>1. s.empty = FALSE
  BY DEF Keeps
<1>2. CASE ~Lt(0, SignProduct(r))
  BY <1>1, <1>2 DEF DividedBy
<1>3. CASE Lt(0, SignProduct(r))
  <2>1. DividedBy(s, p, x, y) = Lower(d, x, lo, hi)
    BY <1>1, <1>3 DEF DividedBy, Pairs, Ratios
  <2>2. r \in Ranges /\ Inside(v[y], r) /\ v[x] \in Ordinary /\ v[y] \in Ordinary
    BY DEF Keeps, RangesOn
  <2>3. ((r.min > 0 /\ r.max > 0) \/ (r.min < 0 /\ r.max < 0))
    <3> HIDE DEF r
    <3> QED BY <1>3, <2>2, SignProductIs
  <2>4. ~d.undefined
    <3>1. Shaped(d)
      <4>1. Shaped(s)
        BY DEF Keeps, Shaped
      <4>2. QED
        BY <4>1, DefinedShaped
    <3> HIDE DEF d, lo, hi
    <3>2. Lower(d, x, lo, hi).undefined = d.undefined
      BY <3>1, UpdateShaped DEF Lower
    <3>3. QED
      BY <2>1, <3>2
  <2>5. Keeps(d, v, N) /\ NaN \notin ToSet(pairs)
    BY <2>4, DefinedKeeps
  <2>6. lo \in Doubles /\ hi \in Doubles /\ lo <= v[x] /\ v[x] <= hi
    <3> HIDE DEF r
    <3> QED BY <2>2, <2>3, <2>5, RatiosAround
  <2> HIDE DEF lo, hi, d
  <2>7. QED
    BY <2>1, <2>5, <2>6, LowerKeeps
<1>4. QED
  BY <1>2, <1>3

LEMMA DividedByShaped ==
  ASSUME NEW s, Shaped(s), NEW p, NEW x, NEW y, s.undefined
  PROVE  DividedBy(s, p, x, y).undefined
<1> DEFINE r == s.interval[y]
           pairs == Ratios(p, r, FALSE)
           d == Defined(s, pairs)
           lo == Least(pairs)
           hi == Greatest(Ratios(p, r, TRUE))
<1>1. DividedBy(s, p, x, y) = IF s.empty \/ ~Lt(0, SignProduct(r)) THEN s ELSE Lower(d, x, lo, hi)
  BY DEF DividedBy, Pairs, Ratios
<1>2. Shaped(d) /\ d.undefined
  <2>1. Shaped(d) /\ d = [interval |-> s.interval, changed |-> s.changed,
                          undefined |-> s.undefined \/ NaN \in ToSet(pairs), empty |-> s.empty]
    BY DefinedShaped
  <2> HIDE DEF pairs
  <2>2. d.undefined = (s.undefined \/ NaN \in ToSet(pairs))
    BY <2>1
  <2>3. QED
    BY <2>1, <2>2
<1> HIDE DEF d, lo, hi
<1>3. Lower(d, x, lo, hi).undefined = d.undefined
  BY <1>2, UpdateShaped DEF Lower
<1>4. QED
  BY <1>1, <1>2, <1>3

\* Of a product of two nodes.
LEMMA DownProductKeeps ==
  ASSUME NEW N, NEW v \in [N -> Ordinary], NEW s, Keeps(s, v, N),
         NEW id \in N, NEW l \in N, NEW r \in N, l # r, v[id] = v[l] * v[r], ~DownProduct(s, id, l, r).undefined
  PROVE  Keeps(DownProduct(s, id, l, r), v, N)
<1> DEFINE p == s.interval[id]
           d == DividedBy(s, p, l, r)
           e == DividedBy(d, p, r, l)
<1>1. DownProduct(s, id, l, r) = e
  BY DEF DownProduct
<1>2. p \in Ranges /\ Inside(v[id], p) /\ v[id] \in Ordinary /\ v[l] \in Int /\ v[r] \in Int
  BY Bounds DEF Keeps, RangesOn
<1>3. v[r] * v[l] = v[id] /\ v[l] * v[r] = v[id]
  BY <1>2
<1> HIDE DEF p
<1>4. ~d.undefined
  <2>1. CASE Shaped(d)
    <3> HIDE DEF d
    <3> QED BY <1>1, <2>1, DividedByShaped
  <2>2. Shaped(d)
    <3> DEFINE y == s.interval[r]
               lo == Least(Ratios(p, y, FALSE))
               hi == Greatest(Ratios(p, y, TRUE))
    <3>1. d = IF s.empty \/ ~Lt(0, SignProduct(y)) THEN s ELSE Lower(Defined(s, Ratios(p, y, FALSE)), l, lo, hi)
      BY DEF DividedBy, Pairs, Ratios
    <3>2. Shaped(s)
      BY DEF Keeps, Shaped
    <3>3. Shaped(Lower(Defined(s, Ratios(p, y, FALSE)), l, lo, hi))
      BY <3>2, DefinedShaped, UpdateShaped DEF Lower
    <3> HIDE DEF d
    <3>4. QED
      BY <3>1, <3>2, <3>3
  <2>3. QED
    BY <2>1, <2>2
<1>5. Keeps(d, v, N)
  BY <1>2, <1>3, <1>4, DividedByKeeps
<1> HIDE DEF d
<1>6. Keeps(e, v, N)
  BY <1>1, <1>2, <1>3, <1>5, DividedByKeeps
<1>7. QED
  BY <1>1, <1>6

-----------------------------------------------------------------------------
(* Sums *)

\* A sum of bounds below two numbers is below their sum, as long as that is an ordinary number.
LEMMA AddSides ==
  ASSUME NEW a \in Doubles, NEW b \in Doubles, NEW p \in Ordinary, NEW q \in Ordinary, p + q \in Ordinary
  PROVE  /\ a <= p /\ b <= q => Add(a, b) \in Doubles /\ Add(a, b) <= p + q
         /\ p <= a /\ q <= b => Add(a, b) \in Doubles /\ p + q <= Add(a, b)
<1> DEFINE n == a + b
           w == p + q
           r == Rounded(n)
<1>1. /\ a \in Int /\ b \in Int /\ p \in Int /\ q \in Int /\ a # NaN /\ b # NaN /\ Infinity \in Int /\ Half \in Nat
      /\ -Infinity <= a /\ a <= Infinity /\ -Infinity <= b /\ b <= Infinity
      /\ Largest = Infinity - 1 /\ 2 * Half <= Largest /\ Infinity > 10 /\ n \in Int /\ w \in Int
      /\ -Half <= p /\ p <= Half /\ -Half <= q /\ q <= Half /\ -Half <= w /\ w <= Half
  BY Sizes DEF Doubles, Ordinary
<1>2. CASE IsInfinite(a) \/ IsInfinite(b)
  <2>1. /\ a <= p /\ b <= q => a # Infinity /\ b # Infinity
        /\ p <= a /\ q <= b => a # -Infinity /\ b # -Infinity
    BY <1>1
  <2>2. ASSUME a <= p, b <= q PROVE Add(a, b) = -Infinity
    <3>1. {a, b} # {Infinity, -Infinity} /\ NaN \notin {a, b} /\ (a = -Infinity \/ b = -Infinity)
      BY <1>1, <1>2, <2>1, <2>2 DEF IsInfinite
    <3>2. QED
      BY <1>1, <2>1, <2>2, <3>1 DEF Add, IsInfinite
  <2>3. ASSUME p <= a, q <= b PROVE Add(a, b) = Infinity
    <3>1. {a, b} # {Infinity, -Infinity} /\ NaN \notin {a, b} /\ (a = Infinity \/ b = Infinity)
      BY <1>1, <1>2, <2>1, <2>3 DEF IsInfinite
    <3>2. QED
      BY <1>1, <2>1, <2>3, <3>1 DEF Add, IsInfinite
  <2>4. QED
    BY <1>1, <2>2, <2>3, Specials
<1>3. CASE ~IsInfinite(a) /\ ~IsInfinite(b)
  <2>1. Add(a, b) = r
    <3>1. {a, b} # {Infinity, -Infinity} /\ NaN \notin {a, b}
      BY <1>1, <1>3 DEF IsInfinite
    <3>2. QED
      BY <1>3, <3>1 DEF Add
  <2>2. (a <= p /\ b <= q => n <= w) /\ (p <= a /\ q <= b => w <= n)
    BY <1>1
  <2>3. \/ -Half <= n /\ n <= Half /\ r = n
        \/ n < -Half /\ r \in {-Infinity, -Largest}
        \/ Half < n /\ r \in {Infinity, Largest}
    <3> HIDE DEF n
    <3>1. Half = Largest \div 2
      BY Sizes
    <3> DEFINE big == IF Magnitude(n) > Largest + Largest \div 2 THEN Infinity ELSE Largest
    <3>2. big \in {Infinity, Largest} /\ (-1) * big = -big /\ 1 * big = big
      BY <1>1
    <3>3. r = IF Magnitude(n) <= Half THEN n ELSE (IF n < 0 THEN -1 ELSE 1) * big
      BY <3>1 DEF Rounded
    <3> HIDE DEF big, r
    <3>4. CASE Magnitude(n) <= Half
      BY <1>1, <3>3, <3>4 DEF Magnitude
    <3>5. CASE ~(Magnitude(n) <= Half) /\ n < 0
      <4>1. n < -Half
        BY <1>1, <3>5 DEF Magnitude
      <4>2. r = -big
        BY <3>2, <3>3, <3>5
      <4>3. QED
        BY <1>1, <3>2, <4>1, <4>2
    <3>6. CASE ~(Magnitude(n) <= Half) /\ ~(n < 0)
      <4>1. Half < n
        BY <1>1, <3>6 DEF Magnitude
      <4>2. r = big
        BY <3>2, <3>3, <3>6
      <4>3. QED
        BY <1>1, <3>2, <4>1, <4>2
    <3>7. QED
      BY <3>4, <3>5, <3>6
  <2> HIDE DEF n, w, r
  <2>4. r \in Doubles
    BY <1>1, <2>3 DEF Doubles
  <2>5. (n <= w => r <= w) /\ (w <= n => w <= r)
    BY <1>1, <2>3
  <2>6. QED
    BY <2>1, <2>2, <2>4, <2>5 DEF w
<1>4. QED
  BY <1>2, <1>3

\* The sum of bounds is a run of additions.
LEMMA SumButRun ==
  ASSUME NEW s, NEW ids, NEW i, NEW bound, Len(ids) \in Nat
  PROVE  \E h : /\ h[0] = 0
                /\ \A n \in 1 .. Len(ids) : h[n] = IF n = i THEN h[n - 1] ELSE Add(h[n - 1], s.interval[ids[n]][bound])
                /\ SumBut(s, ids, i, bound) = h[Len(ids)]
<1> DEFINE N == Len(ids)
           B(n) == s.interval[ids[n]][bound]
           seq == [n \in 1 .. N |-> [out |-> n = i, bound |-> B(n)]]
           Value(f, n) == IF n = 0 THEN 0 ELSE IF n = i THEN f[n - 1] ELSE Add(f[n - 1], B(n))
           F == CHOOSE f : f = [n \in 0 .. N |-> Value(f, n)]
<1>1. SumBut(s, ids, i, bound) = F[N]
  BY DEF SumBut
<1> HIDE DEF B
<1>2. PICK g : BySummand!Table(g, 0, seq, 1 .. N)
  <2> HIDE DEF seq
  <2> QED BY BySummand!TableExists
<1>3. PICK h : BySummand!Run(h, 0, seq, N)
  <2> HIDE DEF seq
  <2> QED BY <1>2, BySummand!FoldRun
<1> DEFINE k == [n \in 0 .. N |-> h[n]]
<1>4. ASSUME NEW n \in 0 .. N PROVE h[n] = Value(k, n)
  <2>1. CASE n = 0
    BY <1>3, <2>1 DEF BySummand!Run
  <2>2. CASE n # 0
    <3>1. n \in 1 .. N /\ n - 1 \in 0 .. N
      BY <2>2
    <3>2. h[n] = AddedUnless(h[n - 1], seq[n])
      <4> HIDE DEF seq
      <4> QED BY <1>3, <3>1 DEF BySummand!Run
    <3>3. seq[n] = [out |-> n = i, bound |-> B(n)]
      BY <3>1
    <3> HIDE DEF seq
    <3>4. h[n] = IF n = i THEN h[n - 1] ELSE Add(h[n - 1], B(n))
      <4>1. (n = i => seq[n].out) /\ (n # i => ~seq[n].out) /\ seq[n].bound = B(n)
        <5> DEFINE o == n = i
        <5>1. seq[n] = [out |-> o, bound |-> B(n)]
          BY <3>3
        <5> HIDE DEF o
        <5>2. seq[n].out = o /\ seq[n].bound = B(n)
          BY <5>1
        <5>3. QED
          BY <5>2 DEF o
      <4>2. QED
        BY <3>2, <4>1 DEF AddedUnless
    <3>5. k[n - 1] = h[n - 1]
      BY <3>1
    <3> HIDE DEF k
    <3>6. QED
      BY <2>2, <3>4, <3>5
  <2>3. QED
    BY <2>1, <2>2
<1>5. k = [n \in 0 .. N |-> Value(k, n)]
  <2> HIDE DEF Value
  <2> QED BY <1>4
<1>6. F = [n \in 0 .. N |-> Value(F, n)]
  <2> HIDE DEF Value, k
  <2> QED BY <1>5
<1> HIDE DEF F, k
<1>7. \A n \in 0 .. N : F[n] = Value(F, n)
  <2> HIDE DEF Value
  <2> QED BY <1>6
<1>8. F[0] = 0
  BY <1>7
<1>9. \A n \in 1 .. N : F[n] = IF n = i THEN F[n - 1] ELSE Add(F[n - 1], B(n))
  BY <1>7
<1>10. QED
  BY <1>1, <1>8, <1>9 DEF B

\* The sums of the lower bounds and of the upper bounds enclose the sum P[n] of the values, but for
\* the one at place i, as long as P counts in ordinary numbers.
LEMMA SumButSides ==
  ASSUME NEW N, NEW v \in [N -> Ordinary], NEW s, Keeps(s, v, N), NEW ids \in Seq(N), NEW i, NEW P,
         P[0] = 0, \A n \in 0 .. Len(ids) : P[n] \in Ordinary,
         \A n \in 1 .. Len(ids) : P[n] = IF n = i THEN P[n - 1] ELSE P[n - 1] + v[ids[n]]
  PROVE  /\ SumBut(s, ids, i, "min") \in Doubles /\ SumBut(s, ids, i, "min") <= P[Len(ids)]
         /\ SumBut(s, ids, i, "max") \in Doubles /\ P[Len(ids)] <= SumBut(s, ids, i, "max")
<1> DEFINE L == Len(ids)
<1>l. L \in Nat /\ \A n \in 1 .. L : ids[n] \in N
  OBVIOUS
<1>1. PICK a : /\ a[0] = 0
               /\ \A n \in 1 .. L : a[n] = IF n = i THEN a[n - 1] ELSE Add(a[n - 1], s.interval[ids[n]].min)
               /\ SumBut(s, ids, i, "min") = a[L]
  BY <1>l, SumButRun
<1>2. PICK b : /\ b[0] = 0
               /\ \A n \in 1 .. L : b[n] = IF n = i THEN b[n - 1] ELSE Add(b[n - 1], s.interval[ids[n]].max)
               /\ SumBut(s, ids, i, "max") = b[L]
  BY <1>l, SumButRun
<1> DEFINE All == {n \in Nat : n <= L => a[n] \in Doubles /\ b[n] \in Doubles /\ a[n] <= P[n] /\ P[n] <= b[n]}
<1>3. 0 \in All
  BY <1>1, <1>2, Specials
<1>4. ASSUME NEW n \in Nat, n \in All PROVE n + 1 \in All
  <2> SUFFICES ASSUME n + 1 <= L
               PROVE  a[n + 1] \in Doubles /\ b[n + 1] \in Doubles /\ a[n + 1] <= P[n + 1] /\ P[n + 1] <= b[n + 1]
    OBVIOUS
  <2> DEFINE m == n + 1
  <2>1. m \in 1 .. L /\ m - 1 = n /\ n \in 0 .. L /\ m \in 0 .. L
    BY <1>l
  <2>2. a[n] \in Doubles /\ b[n] \in Doubles /\ a[n] <= P[n] /\ P[n] <= b[n]
    BY <1>4, <2>1
  <2> HIDE DEF m
  <2>3. a[m] = IF m = i THEN a[n] ELSE Add(a[n], s.interval[ids[m]].min)
    BY <1>1, <2>1
  <2>4. b[m] = IF m = i THEN b[n] ELSE Add(b[n], s.interval[ids[m]].max)
    BY <1>2, <2>1
  <2>5. P[m] = (IF m = i THEN P[n] ELSE P[n] + v[ids[m]]) /\ P[m] \in Ordinary /\ P[n] \in Ordinary
    BY <2>1
  <2>6. CASE m = i
    BY <2>2, <2>3, <2>4, <2>5, <2>6 DEF m
  <2>7. CASE m # i
    <3> DEFINE x == ids[m]
    <3>1. x \in N
      BY <1>l, <2>1
    <3> HIDE DEF x
    <3>2. /\ s.interval[x].min \in Doubles /\ s.interval[x].max \in Doubles /\ v[x] \in Ordinary
          /\ s.interval[x].min <= v[x] /\ v[x] <= s.interval[x].max
      BY <3>1, Bounds
    <3>3. P[n] + v[x] \in Ordinary /\ P[m] = P[n] + v[x]
      BY <2>5, <2>7 DEF x
    <3>4. Add(a[n], s.interval[x].min) \in Doubles /\ Add(a[n], s.interval[x].min) <= P[n] + v[x]
      BY <2>2, <2>5, <3>2, <3>3, AddSides
    <3>5. Add(b[n], s.interval[x].max) \in Doubles /\ P[n] + v[x] <= Add(b[n], s.interval[x].max)
      BY <2>2, <2>5, <3>2, <3>3, AddSides
    <3>6. a[m] = Add(a[n], s.interval[x].min) /\ b[m] = Add(b[n], s.interval[x].max)
      BY <2>3, <2>4, <2>7 DEF x
    <3>7. QED
      BY <3>3, <3>4, <3>5, <3>6 DEF m
  <2>8. QED
    BY <2>6, <2>7
<1>5. Nat \subseteq All
  <2> HIDE DEF All
  <2> QED BY <1>3, <1>4, BySummand!SetInduction
<1>6. L \in All
  <2> HIDE DEF All
  <2> QED BY <1>5, <1>l
<1>7. a[L] \in Doubles /\ b[L] \in Doubles /\ a[L] <= P[L] /\ P[L] <= b[L]
  BY <1>6, <1>l
<1>8. QED
  BY <1>1, <1>2, <1>7

\* total counts up the values of the operands, weight their magnitudes.
Counts(v, ids, total, weight) ==
  /\ total \in [0 .. Len(ids) -> Int] /\ weight \in [0 .. Len(ids) -> Int]
  /\ total[0] = 0 /\ weight[0] = 0
  /\ \A n \in 1 .. Len(ids) : /\ total[n] = total[n - 1] + v[ids[n]]
                              /\ weight[n] = weight[n - 1] + Magnitude(v[ids[n]])
  /\ weight[Len(ids)] <= Half

\* No part of the sum is larger than what the magnitudes add up to.
LEMMA PartsOfSum ==
  ASSUME NEW N, NEW v \in [N -> Ordinary], NEW ids \in Seq(N), NEW total, NEW weight, Counts(v, ids, total, weight),
         NEW j \in 0 .. Len(ids), NEW k \in j .. Len(ids)
  PROVE  /\ total[k] - total[j] <= weight[k] - weight[j]
         /\ -(weight[k] - weight[j]) <= total[k] - total[j]
         /\ weight[j] <= weight[k]
<1> DEFINE L == Len(ids)
           All == {n \in Nat : j + n <= L => /\ total[j + n] - total[j] <= weight[j + n] - weight[j]
                                             /\ -(weight[j + n] - weight[j]) <= total[j + n] - total[j]
                                             /\ weight[j] <= weight[j + n]}
<1>l. /\ L \in Nat /\ \A n \in 1 .. L : v[ids[n]] \in Int
      /\ \A n \in 0 .. L : total[n] \in Int /\ weight[n] \in Int
  <2>1. L \in Nat /\ \A n \in 1 .. L : ids[n] \in N
    OBVIOUS
  <2>2. \A x \in N : v[x] \in Int
    BY Sizes DEF Ordinary
  <2>3. \A n \in 0 .. L : total[n] \in Int /\ weight[n] \in Int
    BY DEF Counts
  <2>4. QED
    BY <2>1, <2>2, <2>3
<1>1. 0 \in All
  BY <1>l
<1>2. ASSUME NEW n \in Nat, n \in All PROVE n + 1 \in All
  <2> SUFFICES ASSUME j + (n + 1) <= L
               PROVE  /\ total[j + (n + 1)] - total[j] <= weight[j + (n + 1)] - weight[j]
                      /\ -(weight[j + (n + 1)] - weight[j]) <= total[j + (n + 1)] - total[j]
                      /\ weight[j] <= weight[j + (n + 1)]
    OBVIOUS
  <2> DEFINE m == j + (n + 1)
             b == j + n
  <2>1. m \in 1 .. L /\ b \in 0 .. L /\ m - 1 = b /\ j \in 0 .. L
    BY <1>l
  <2>2. /\ total[b] - total[j] <= weight[b] - weight[j]
        /\ -(weight[b] - weight[j]) <= total[b] - total[j]
        /\ weight[j] <= weight[b]
    BY <1>2, <2>1
  <2> HIDE DEF m, b
  <2>3. total[m] = total[b] + v[ids[m]] /\ weight[m] = weight[b] + Magnitude(v[ids[m]])
    BY <2>1 DEF Counts
  <2> DEFINE w == v[ids[m]]
  <2>4. w \in Int
    BY <1>l, <2>1
  <2> HIDE DEF w
  <2>5. Magnitude(w) \in Int /\ w <= Magnitude(w) /\ -Magnitude(w) <= w /\ Magnitude(w) >= 0
    BY <2>4 DEF Magnitude
  <2>6. total[m] = total[b] + w /\ weight[m] = weight[b] + Magnitude(w)
    BY <2>3 DEF w
  <2>7. total[b] \in Int /\ weight[b] \in Int /\ total[j] \in Int /\ weight[j] \in Int
    BY <1>l, <2>1
  <2>8. /\ total[m] - total[j] <= weight[m] - weight[j]
        /\ -(weight[m] - weight[j]) <= total[m] - total[j]
        /\ weight[j] <= weight[m]
    <3> DEFINE tb == total[b]
               tj == total[j]
               wb == weight[b]
               wj == weight[j]
               mw == Magnitude(w)
    <3>1. /\ tb \in Int /\ wb \in Int /\ tj \in Int /\ wj \in Int /\ mw \in Int /\ w \in Int
          /\ tb - tj <= wb - wj /\ -(wb - wj) <= tb - tj /\ wj <= wb
          /\ w <= mw /\ -mw <= w /\ mw >= 0
      BY <2>2, <2>4, <2>5, <2>7
    <3>2. total[m] = tb + w /\ weight[m] = wb + mw
      BY <2>6
    <3> HIDE DEF tb, tj, wb, wj, mw
    <3>3. /\ (tb + w) - tj <= (wb + mw) - wj
          /\ -((wb + mw) - wj) <= (tb + w) - tj
          /\ wj <= wb + mw
      BY <3>1
    <3>4. QED
      BY <3>2, <3>3 DEF tj, wj
  <2>9. QED
    BY <2>8 DEF m
<1>3. Nat \subseteq All
  <2> HIDE DEF All
  <2> QED BY <1>1, <1>2, BySummand!SetInduction
<1>4. k - j \in Nat /\ j + (k - j) = k /\ k <= L
  BY <1>l
<1>5. k - j \in All
  <2> HIDE DEF All
  <2> QED BY <1>3, <1>4
<1>6. QED
  BY <1>4, <1>5

\* A part of a sum is a double.
LEMMA SumsOrdinary ==
  ASSUME NEW N, NEW v \in [N -> Ordinary], NEW ids \in Seq(N), NEW total, NEW weight, Counts(v, ids, total, weight)
  PROVE  /\ \A j \in 0 .. Len(ids) : \A k \in j .. Len(ids) : total[k] - total[j] \in Ordinary
         /\ \A i \in 1 .. Len(ids) : \A k \in i .. Len(ids) : total[k] - v[ids[i]] \in Ordinary
<1> DEFINE L == Len(ids)
<1>l. /\ L \in Nat /\ \A n \in 0 .. L : total[n] \in Int /\ weight[n] \in Int
      /\ \A n \in 1 .. L : v[ids[n]] \in Int
  <2>1. L \in Nat /\ \A n \in 1 .. L : ids[n] \in N
    OBVIOUS
  <2>2. \A x \in N : v[x] \in Int
    BY Sizes DEF Ordinary
  <2>3. \A n \in 0 .. L : total[n] \in Int /\ weight[n] \in Int
    BY DEF Counts
  <2>4. QED
    BY <2>1, <2>2, <2>3
<1>1. \A j \in 0 .. L : \A k \in j .. L : /\ total[k] - total[j] <= weight[k] - weight[j]
                                          /\ -(weight[k] - weight[j]) <= total[k] - total[j]
                                          /\ weight[j] <= weight[k]
  BY PartsOfSum
<1>2. weight[0] = 0 /\ total[0] = 0 /\ weight[L] <= Half /\ Half \in Nat
  BY Sizes DEF Counts
<1>3. \A k \in 0 .. L : 0 <= weight[k] /\ weight[k] <= Half
  <2> SUFFICES ASSUME NEW k \in 0 .. L PROVE 0 <= weight[k] /\ weight[k] <= Half
    OBVIOUS
  <2>1. weight[0] <= weight[k] /\ weight[k] <= weight[L]
    BY <1>l, <1>1
  <2>2. weight[k] \in Int /\ weight[L] \in Int
    BY <1>l
  <2>3. QED
    BY <1>2, <2>1, <2>2
<1>4. ASSUME NEW j \in 0 .. L, NEW k \in j .. L PROVE total[k] - total[j] \in Ordinary
  <2> DEFINE t == total[k] - total[j]
             w == weight[k] - weight[j]
  <2>1. k \in 0 .. L /\ t \in Int /\ w \in Int
    BY <1>l
  <2>2. w <= Half
    BY <1>l, <1>2, <1>3, <2>1
  <2>3. t <= w /\ -w <= t
    BY <1>1
  <2> HIDE DEF t, w
  <2>4. t \in Ordinary
    BY <1>2, <2>1, <2>2, <2>3 DEF Ordinary
  <2>5. QED
    BY <2>4 DEF t
<1>5. ASSUME NEW i \in 1 .. L, NEW k \in i .. L PROVE total[k] - v[ids[i]] \in Ordinary
  <2> DEFINE x == v[ids[i]]
             h == i - 1
  <2>1. /\ i \in 0 .. L /\ h \in 0 .. L /\ k \in 0 .. L /\ h \in 0 .. h /\ 0 \in 0 .. L /\ h \in 0 .. L
        /\ x \in Int /\ total[i] = total[h] + x /\ weight[i] = weight[h] + Magnitude(x)
    BY <1>l DEF Counts
  <2> HIDE DEF x, h
  <2>2. /\ total[k] \in Int /\ weight[k] \in Int /\ total[i] \in Int /\ weight[i] \in Int
        /\ total[h] \in Int /\ weight[h] \in Int
    BY <1>l, <2>1
  <2>3. total[k] - total[i] <= weight[k] - weight[i] /\ -(weight[k] - weight[i]) <= total[k] - total[i]
    BY <1>1, <2>1
  <2>4. total[h] - total[0] <= weight[h] - weight[0] /\ -(weight[h] - weight[0]) <= total[h] - total[0]
    BY <1>1, <2>1
  <2>5. weight[k] <= Half /\ Magnitude(x) >= 0 /\ Magnitude(x) \in Int
    BY <1>3, <2>1 DEF Magnitude
  <2>6. total[k] - x <= Half /\ -Half <= total[k] - x
    <3> DEFINE tk == total[k]
               wk == weight[k]
               ti == total[i]
               wi == weight[i]
               th == total[h]
               wh == weight[h]
               mx == Magnitude(x)
    <3>1. /\ tk \in Int /\ wk \in Int /\ ti \in Int /\ wi \in Int /\ th \in Int /\ wh \in Int
          /\ x \in Int /\ mx \in Int /\ Half \in Nat /\ ti = th + x /\ wi = wh + mx /\ mx >= 0 /\ wk <= Half
      BY <1>2, <2>1, <2>2, <2>5
    <3>2. tk - ti <= wk - wi /\ -(wk - wi) <= tk - ti
      BY <2>3
    <3>3. th <= wh /\ -wh <= th
      BY <1>2, <2>2, <2>4
    <3> HIDE DEF tk, wk, ti, wi, th, wh, mx
    <3>4. tk - x <= Half /\ -Half <= tk - x
      BY <3>1, <3>2, <3>3
    <3>5. QED
      BY <3>4 DEF tk
  <2>7. total[k] - x \in Ordinary
    BY <1>2, <2>1, <2>2, <2>6 DEF Ordinary
  <2>8. QED
    BY <2>7 DEF x
<1>6. QED
  BY <1>4, <1>5

\* A sum from its summands, and a summand from the sum and the others.
LEMMA UpSumKeeps ==
  ASSUME NEW N, NEW v \in [N -> Ordinary], NEW s, Keeps(s, v, N), ParentsIn(N), NEW id \in N, NEW ids \in Seq(N),
         NEW total, NEW weight, Counts(v, ids, total, weight), v[id] = total[Len(ids)]
  PROVE  Keeps(UpSum(s, id, ids), v, N)
<1> DEFINE back == Reverse(ids)
           L == Len(ids)
           P == [k \in 0 .. L |-> total[L] - total[L - k]]
<1>1. back \in Seq(N) /\ Len(back) = L /\ L \in Nat /\ \A k \in 1 .. L : back[k] = ids[(L - k) + 1]
  <2>1. L \in Nat /\ DOMAIN ids = 1 .. L
    OBVIOUS
  <2>2. back = [k \in 1 .. L |-> ids[(L - k) + 1]]
    BY DEF Reverse
  <2> HIDE DEF L, back
  <2>3. \A k \in 1 .. L : (L - k) + 1 \in 1 .. L
    BY <2>1
  <2>4. back \in [1 .. L -> N]
    BY <2>1, <2>2, <2>3
  <2>5. back \in Seq(N) /\ Len(back) = L
    BY <2>1, <2>4
  <2>6. QED
    BY <2>1, <2>2, <2>5
<1>2. /\ total[0] = 0 /\ \A n \in 0 .. L : total[n] \in Int
      /\ \A n \in 1 .. L : total[n] = total[n - 1] + v[ids[n]] /\ v[ids[n]] \in Int
  <2>1. \A n \in 1 .. L : ids[n] \in N
    OBVIOUS
  <2>2. \A x \in N : v[x] \in Int
    BY Sizes DEF Ordinary
  <2>3. QED
    BY <2>1, <2>2 DEF Counts
<1>3. P[0] = 0
  <2>1. 0 \in 0 .. L /\ L - 0 = L /\ total[L] \in Int
    BY <1>1, <1>2
  <2>2. QED
    BY <2>1
<1>4. \A n \in 0 .. L : P[n] \in Ordinary
  <2> SUFFICES ASSUME NEW n \in 0 .. L PROVE total[L] - total[L - n] \in Ordinary
    OBVIOUS
  <2>1. L - n \in 0 .. L /\ L \in (L - n) .. L
    BY <1>1
  <2>2. QED
    BY <2>1, SumsOrdinary
<1>5. \A n \in 1 .. L : P[n] = IF n = 0 THEN P[n - 1] ELSE P[n - 1] + v[back[n]]
  <2> SUFFICES ASSUME NEW n \in 1 .. L PROVE P[n] = P[n - 1] + v[back[n]]
    <3>1. \A n \in 1 .. L : n # 0
      BY <1>1
    <3> HIDE DEF P, back, L
    <3>2. QED
      BY <3>1
  <2> DEFINE m == (L - n) + 1
  <2>1. m \in 1 .. L /\ m - 1 = L - n /\ m = L - (n - 1) /\ n \in 0 .. L /\ n - 1 \in 0 .. L /\ back[n] = ids[m]
        /\ m \in 0 .. L /\ m - 1 \in 0 .. L
    BY <1>1
  <2>2. P[n] = total[L] - total[m - 1] /\ P[n - 1] = total[L] - total[m]
    BY <2>1
  <2> HIDE DEF m, P
  <2> HIDE DEF back, L
  <2>3. total[m] = total[m - 1] + v[ids[m]] /\ v[ids[m]] \in Int
    BY <1>2, <2>1, Zenon
  <2>4. total[m] \in Int /\ total[m - 1] \in Int
    BY <1>2, <2>1, Zenon
  <2>5. L \in 0 .. L
    BY <1>1
  <2>6. total[L] \in Int
    BY <1>2, <2>5, Zenon
  <2> DEFINE whole == total[L]
             after == total[m]
             before == total[m - 1]
             one == v[ids[m]]
  <2>7. /\ whole \in Int /\ after \in Int /\ before \in Int /\ one \in Int /\ after = before + one
        /\ P[n] = whole - before /\ P[n - 1] = whole - after
    BY <2>2, <2>3, <2>4, <2>6
  <2> HIDE DEF whole, after, before, one
  <2>8. P[n] = P[n - 1] + one
    BY <2>7
  <2>9. QED
    BY <2>1, <2>8 DEF one
<1> HIDE DEF back
<1>6. P[L] = v[id]
  <2>1. L \in 0 .. L /\ L - L = 0
    BY <1>1
  <2>2. P[L] = total[L] - 0
    BY <1>2, <2>1
  <2>3. QED
    BY <1>1, <1>2, <2>2
<1> HIDE DEF P
<1>7. /\ SumBut(s, back, 0, "min") \in Doubles /\ SumBut(s, back, 0, "min") <= v[id]
      /\ SumBut(s, back, 0, "max") \in Doubles /\ v[id] <= SumBut(s, back, 0, "max")
  <2>1. /\ \A n \in 0 .. Len(back) : P[n] \in Ordinary
        /\ \A n \in 1 .. Len(back) : P[n] = IF n = 0 THEN P[n - 1] ELSE P[n - 1] + v[back[n]]
        /\ P[Len(back)] = v[id]
    BY <1>1, <1>4, <1>5, <1>6
  <2>2. /\ SumBut(s, back, 0, "min") \in Doubles /\ SumBut(s, back, 0, "min") <= P[Len(back)]
        /\ SumBut(s, back, 0, "max") \in Doubles /\ P[Len(back)] <= SumBut(s, back, 0, "max")
    <3> HIDE DEF L
    <3> QED BY <1>1, <1>3, <2>1, SumButSides, ZenonT(60)
  <2>3. QED
    BY <2>1, <2>2
<1>8. UpSum(s, id, ids) = Raise(s, id, SumBut(s, back, 0, "min"), SumBut(s, back, 0, "max"))
  BY DEF UpSum, back
<1>9. QED
  BY <1>7, <1>8, RaiseKeeps

LEMMA SummandKeeps ==
  ASSUME NEW N, NEW v \in [N -> Ordinary], NEW s, Keeps(s, v, N), NEW id \in N, NEW ids \in Seq(N),
         NEW total, NEW weight, Counts(v, ids, total, weight), v[id] = total[Len(ids)],
         NEW i \in 1 .. Len(ids)
  PROVE  Keeps(Summand(s, id, ids, i), v, N)
<1> DEFINE L == Len(ids)
           x == v[ids[i]]
           P == [k \in 0 .. L |-> IF k < i THEN total[k] ELSE total[k] - x]
<1>1. /\ L \in Nat /\ i \in 1 .. L /\ ids[i] \in N /\ x \in Int /\ x \in Ordinary
      /\ total[0] = 0 /\ \A n \in 0 .. L : total[n] \in Int
      /\ \A n \in 1 .. L : total[n] = total[n - 1] + v[ids[n]] /\ v[ids[n]] \in Int
  <2>1. L \in Nat /\ \A n \in 1 .. L : ids[n] \in N
    OBVIOUS
  <2>2. \A y \in N : v[y] \in Int /\ v[y] \in Ordinary
    BY Sizes DEF Ordinary
  <2>3. QED
    BY <2>1, <2>2 DEF Counts
<1>2. P[0] = 0
  BY <1>1
<1>3. \A n \in 0 .. L : P[n] \in Ordinary
  <2> SUFFICES ASSUME NEW n \in 0 .. L PROVE (IF n < i THEN total[n] ELSE total[n] - x) \in Ordinary
    OBVIOUS
  <2>1. n < i => total[n] \in Ordinary
    <3>1. 0 \in 0 .. L /\ n \in 0 .. L /\ total[n] - total[0] = total[n]
      BY <1>1
    <3>2. QED
      BY <3>1, SumsOrdinary
  <2>2. ~(n < i) => total[n] - x \in Ordinary
    <3>1. ~(n < i) => n \in i .. L
      BY <1>1
    <3>2. QED
      BY <3>1, SumsOrdinary
  <2>3. QED
    BY <2>1, <2>2
<1>4. \A n \in 1 .. L : P[n] = IF n = i THEN P[n - 1] ELSE P[n - 1] + v[ids[n]]
  <2> SUFFICES ASSUME NEW n \in 1 .. L PROVE P[n] = IF n = i THEN P[n - 1] ELSE P[n - 1] + v[ids[n]]
    OBVIOUS
  <2>1. /\ P[n] = IF n < i THEN total[n] ELSE total[n] - x
        /\ P[n - 1] = IF n - 1 < i THEN total[n - 1] ELSE total[n - 1] - x
    BY <1>1
  <2>2. total[n] = total[n - 1] + v[ids[n]] /\ total[n - 1] \in Int /\ v[ids[n]] \in Int /\ total[n] \in Int
    BY <1>1
  <2> HIDE DEF P
  <2>3. CASE n < i
    BY <1>1, <2>1, <2>2, <2>3
  <2>4. CASE n = i
    <3>1. total[n] - x = total[n - 1]
      BY <1>1, <2>2, <2>4
    <3>2. QED
      BY <1>1, <2>1, <2>4, <3>1
  <2>5. CASE n > i
    <3>1. P[n] = total[n] - x /\ P[n - 1] = total[n - 1] - x
      BY <1>1, <2>1, <2>5
    <3>2. QED
      BY <1>1, <2>2, <2>5, <3>1
  <2>6. QED
    BY <1>1, <2>3, <2>4, <2>5
<1>5. P[L] = v[id] - x /\ v[id] \in Ordinary /\ v[id] \in Int
  <2>1. v[id] \in Ordinary /\ v[id] \in Int
    BY Bounds
  <2>2. P[L] = total[L] - x
    BY <1>1
  <2>3. QED
    BY <2>1, <2>2
<1>6. P[L] \in Ordinary
  BY <1>1, <1>3
<1> HIDE DEF P
<1> DEFINE lo == SumBut(s, ids, i, "min")
           hi == SumBut(s, ids, i, "max")
<1>7. lo \in Doubles /\ lo <= P[L] /\ hi \in Doubles /\ P[L] <= hi
  BY <1>2, <1>3, <1>4, SumButSides
<1>8. Summand(s, id, ids, i) = Lower(s, ids[i], Add(s.interval[id].min, Negated(hi)), Add(s.interval[id].max, Negated(lo)))
  BY DEF Summand
<1> HIDE DEF lo, hi, L, x
<1> DEFINE rest == -P[L]
<1>9. /\ Negated(hi) \in Doubles /\ Negated(hi) <= rest /\ Negated(lo) \in Doubles /\ rest <= Negated(lo)
      /\ rest \in Ordinary /\ v[id] + rest = x
  <2> DEFINE pl == P[L]
  <2>1. /\ pl \in Int /\ -Half <= pl /\ pl <= Half /\ hi \in Int /\ lo \in Int /\ hi # NaN /\ lo # NaN
        /\ lo <= pl /\ pl <= hi /\ pl = v[id] - x
        /\ -Infinity <= lo /\ lo <= Infinity /\ -Infinity <= hi /\ hi <= Infinity
    BY <1>5, <1>6, <1>7, Sizes DEF Doubles, Ordinary
  <2> HIDE DEF pl
  <2>2. Negated(hi) = -hi /\ Negated(lo) = -lo
    BY <2>1 DEF Negated
  <2>3. -hi \in Doubles /\ -hi <= -pl /\ -lo \in Doubles /\ -pl <= -lo
    BY <2>1, Sizes DEF Doubles
  <2>4. -pl \in Ordinary /\ v[id] + (-pl) = x
    <3>1. v[id] \in Int /\ x \in Int /\ Half \in Nat
      BY <1>1, <1>5, Sizes
    <3>2. -pl \in Ordinary
      BY <2>1, <3>1 DEF Ordinary
    <3>3. v[id] + (-pl) = x
      BY <2>1, <3>1
    <3>4. QED
      BY <3>2, <3>3
  <2>5. QED
    BY <2>2, <2>3, <2>4 DEF pl
<1>10. /\ s.interval[id].min \in Doubles /\ s.interval[id].max \in Doubles
       /\ s.interval[id].min <= v[id] /\ v[id] <= s.interval[id].max
  BY Bounds
<1> HIDE DEF rest
<1>11. v[id] + rest \in Ordinary
  BY <1>1, <1>9
<1>12. Add(s.interval[id].min, Negated(hi)) \in Doubles /\ Add(s.interval[id].min, Negated(hi)) <= x
  BY <1>5, <1>9, <1>10, <1>11, AddSides
<1>13. Add(s.interval[id].max, Negated(lo)) \in Doubles /\ x <= Add(s.interval[id].max, Negated(lo))
  BY <1>5, <1>9, <1>10, <1>11, AddSides
<1>14. ids[i] \in N /\ x = v[ids[i]]
  BY <1>1 DEF x
<1>15. QED
  BY <1>8, <1>12, <1>13, <1>14, LowerKeeps

\* One turn of the loop, and the loop.
LEMMA NowOne == \A x : Now({x}) = x
BY DEF Now

LEMMA DownSummandsRun ==
  ASSUME NEW s, NEW id, NEW ids, Len(ids) \in Nat
  PROVE  \E h : /\ h[0] = s
                /\ \A n \in 1 .. Len(ids) : h[n] = Summand(h[n - 1], id, ids, n)
                /\ DownSummands(s, id, ids) = h[Len(ids)]
<1> DEFINE N == Len(ids)
           seq == [n \in 1 .. N |-> [id |-> id, ids |-> ids, place |-> n]]
           Value(f, n) == IF n = 0 THEN s ELSE Now({Summand(t, id, ids, n) : t \in {f[n - 1]}})
           F == CHOOSE f : f = [n \in 0 .. N |-> Value(f, n)]
<1>1. DownSummands(s, id, ids) = F[N]
  BY DEF DownSummands
<1>2. PICK g : ByPlace!Table(g, s, seq, 1 .. N)
  <2> HIDE DEF seq
  <2> QED BY ByPlace!TableExists
<1>3. PICK h : ByPlace!Run(h, s, seq, N)
  <2> HIDE DEF seq
  <2> QED BY <1>2, ByPlace!FoldRun
<1> DEFINE k == [n \in 0 .. N |-> h[n]]
<1>0. ASSUME NEW f, NEW n, n # 0 PROVE Value(f, n) = Summand(f[n - 1], id, ids, n)
  <2>1. {Summand(t, id, ids, n) : t \in {f[n - 1]}} = {Summand(f[n - 1], id, ids, n)}
    OBVIOUS
  <2>2. Value(f, n) = Now({Summand(f[n - 1], id, ids, n)})
    BY <1>0, <2>1
  <2>3. QED
    BY <2>2, NowOne
<1>4. ASSUME NEW n \in 0 .. N PROVE h[n] = Value(k, n)
  <2>1. CASE n = 0
    BY <1>3, <2>1 DEF ByPlace!Run
  <2>2. CASE n # 0
    <3>1. n \in 1 .. N /\ n - 1 \in 0 .. N
      BY <2>2
    <3>2. h[n] = Narrowed(h[n - 1], seq[n])
      <4> HIDE DEF seq
      <4> QED BY <1>3, <3>1 DEF ByPlace!Run
    <3>3. seq[n] = [id |-> id, ids |-> ids, place |-> n]
      BY <3>1
    <3> HIDE DEF seq
    <3>4. h[n] = Summand(h[n - 1], id, ids, n)
      BY <3>2, <3>3 DEF Narrowed
    <3>5. k[n - 1] = h[n - 1]
      BY <3>1
    <3>6. Value(k, n) = Summand(k[n - 1], id, ids, n)
      <4> HIDE DEF k, Value
      <4> QED BY <1>0, <2>2
    <3> HIDE DEF k, Value
    <3>7. QED
      BY <3>4, <3>5, <3>6
  <2>3. QED
    BY <2>1, <2>2
<1>5. k = [n \in 0 .. N |-> Value(k, n)]
  <2> HIDE DEF Value
  <2> QED BY <1>4
<1>6. F = [n \in 0 .. N |-> Value(F, n)]
  <2> HIDE DEF Value, k
  <2> QED BY <1>5
<1> HIDE DEF F, k
<1>7. \A n \in 0 .. N : F[n] = Value(F, n)
  <2> HIDE DEF Value
  <2> QED BY <1>6
<1>8. F[0] = s
  <2>1. 0 \in 0 .. N
    OBVIOUS
  <2>2. F[0] = Value(F, 0)
    <3> HIDE DEF Value
    <3> QED BY <1>7, <2>1
  <2>3. Value(F, 0) = s
    OBVIOUS
  <2> HIDE DEF Value
  <2>4. QED
    BY <2>2, <2>3
<1>9. \A n \in 1 .. N : F[n] = Summand(F[n - 1], id, ids, n)
  <2> SUFFICES ASSUME NEW n \in 1 .. N PROVE F[n] = Summand(F[n - 1], id, ids, n)
    OBVIOUS
  <2>1. n # 0 /\ n \in 0 .. N
    OBVIOUS
  <2> HIDE DEF Value
  <2>2. QED
    BY <1>0, <1>7, <2>1
<1>10. QED
  BY <1>1, <1>8, <1>9

\* What the loop over the summands computes, one after the other.
SummandsRun(h, s, id, ids) ==
  /\ h[0] = s
  /\ \A n \in 1 .. Len(ids) : h[n] = Summand(h[n - 1], id, ids, n)
  /\ DownSummands(s, id, ids) = h[Len(ids)]
LEMMA SummandsRunExists ==
  ASSUME NEW s, NEW id, NEW ids, Len(ids) \in Nat
  PROVE  \E h : SummandsRun(h, s, id, ids)
BY DownSummandsRun DEF SummandsRun

LEMMA DownSummandsKeeps ==
  ASSUME NEW N, NEW v \in [N -> Ordinary], NEW s, Keeps(s, v, N), NEW id \in N, NEW ids \in Seq(N),
         NEW total, NEW weight, Counts(v, ids, total, weight), v[id] = total[Len(ids)]
  PROVE  Keeps(DownSummands(s, id, ids), v, N)
<1>1. Len(ids) \in Nat
  OBVIOUS
<1>2. PICK h : /\ h[0] = s
               /\ \A n \in 1 .. Len(ids) : h[n] = Summand(h[n - 1], id, ids, n)
               /\ DownSummands(s, id, ids) = h[Len(ids)]
  BY <1>1, DownSummandsRun
<1> DEFINE All == {n \in Nat : n <= Len(ids) => Keeps(h[n], v, N)}
<1>3. 0 \in All
  BY <1>2
<1>4. ASSUME NEW n \in Nat, n \in All PROVE n + 1 \in All
  <2>1. CASE n + 1 <= Len(ids)
    <3>1. n + 1 \in 1 .. Len(ids) /\ (n + 1) - 1 = n /\ Keeps(h[n], v, N)
      BY <1>1, <1>4, <2>1
    <3>2. Keeps(Summand(h[n], id, ids, n + 1), v, N)
      BY <3>1, SummandKeeps
    <3>3. h[n + 1] = Summand(h[n], id, ids, n + 1)
      BY <1>2, <3>1
    <3>4. QED
      BY <3>2, <3>3
  <2>2. CASE ~(n + 1 <= Len(ids))
    BY <2>2
  <2>3. QED
    BY <2>1, <2>2
<1>5. Nat \subseteq All
  <2> HIDE DEF All
  <2> QED BY <1>3, <1>4, BySummand!SetInduction
<1>6. QED
  BY <1>1, <1>2, <1>5

\* The function of the rounds.
LEMMA DownSumRun ==
  ASSUME NEW s, NEW id, NEW ids, RoundsAssumption
  PROVE  \E h, n : /\ h[0] = s
                   /\ \A m \in 1 .. MaxRounds : h[m] = DownSummands(h[m - 1], id, ids)
                   /\ n \in 1 .. MaxRounds
                   /\ DownSum(s, id, ids) = h[n]
<1> DEFINE N == MaxRounds
           seq == [n \in 1 .. N |-> [id |-> id, ids |-> ids]]
           Value(f, n) == IF n = 0 THEN s ELSE Now({DownSummands(t, id, ids) : t \in {f[n - 1]}})
           F == CHOOSE f : f = [n \in 0 .. N |-> Value(f, n)]
           IsLast(n) == F[n].empty \/ F[n].interval = F[n - 1].interval
           Ends(n) == (n = N \/ IsLast(n)) /\ \A m \in 1 .. (n - 1) : ~IsLast(m)
<1>n. N \in Nat /\ N # 0
  BY DEF RoundsAssumption
<1>1. DownSum(s, id, ids) = F[CHOOSE n \in 1 .. N : Ends(n)]
  BY DEF DownSum
<1>2. PICK g : ByRound!Table(g, s, seq, 1 .. N)
  <2> HIDE DEF seq
  <2> QED BY <1>n, ByRound!TableExists
<1>3. PICK h : ByRound!Run(h, s, seq, N)
  <2> HIDE DEF seq
  <2> QED BY <1>n, <1>2, ByRound!FoldRun
<1> DEFINE k == [n \in 0 .. N |-> h[n]]
<1>0. ASSUME NEW f, NEW n, n # 0 PROVE Value(f, n) = DownSummands(f[n - 1], id, ids)
  <2>1. {DownSummands(t, id, ids) : t \in {f[n - 1]}} = {DownSummands(f[n - 1], id, ids)}
    OBVIOUS
  <2>2. Value(f, n) = Now({DownSummands(f[n - 1], id, ids)})
    BY <1>0, <2>1
  <2>3. QED
    BY <2>2, NowOne
<1>4. ASSUME NEW n \in 0 .. N PROVE h[n] = Value(k, n)
  <2>1. CASE n = 0
    BY <1>3, <2>1 DEF ByRound!Run
  <2>2. CASE n # 0
    <3>1. n \in 1 .. N /\ n - 1 \in 0 .. N
      BY <1>n, <2>2
    <3>2. h[n] = Rounds(h[n - 1], seq[n])
      <4> HIDE DEF seq
      <4> QED BY <1>3, <3>1 DEF ByRound!Run
    <3>3. seq[n] = [id |-> id, ids |-> ids]
      BY <3>1
    <3> HIDE DEF seq
    <3>4. h[n] = DownSummands(h[n - 1], id, ids)
      BY <3>2, <3>3 DEF Rounds
    <3>5. k[n - 1] = h[n - 1]
      BY <3>1
    <3>6. Value(k, n) = DownSummands(k[n - 1], id, ids)
      <4> HIDE DEF k, Value
      <4> QED BY <1>0, <2>2
    <3> HIDE DEF k, Value
    <3>7. QED
      BY <3>4, <3>5, <3>6
  <2>3. QED
    BY <2>1, <2>2
<1>5. k = [n \in 0 .. N |-> Value(k, n)]
  <2> HIDE DEF Value
  <2> QED BY <1>4
<1>6. F = [n \in 0 .. N |-> Value(F, n)]
  <2> HIDE DEF Value, k
  <2> QED BY <1>5
<1> HIDE DEF F, k
<1>7. \A n \in 0 .. N : F[n] = Value(F, n)
  <2> HIDE DEF Value
  <2> QED BY <1>6
<1>8. F[0] = s
  <2>1. 0 \in 0 .. N
    BY <1>n
  <2>2. F[0] = Value(F, 0)
    <3> HIDE DEF Value
    <3> QED BY <1>7, <2>1
  <2>3. Value(F, 0) = s
    OBVIOUS
  <2> HIDE DEF Value
  <2>4. QED
    BY <2>2, <2>3
<1>9. \A n \in 1 .. N : F[n] = DownSummands(F[n - 1], id, ids)
  <2> SUFFICES ASSUME NEW n \in 1 .. N PROVE F[n] = DownSummands(F[n - 1], id, ids)
    OBVIOUS
  <2>1. n # 0 /\ n \in 0 .. N
    OBVIOUS
  <2> HIDE DEF Value
  <2>2. QED
    BY <1>0, <1>7, <2>1
<1>10. \E n \in 1 .. N : Ends(n)
  <2> DEFINE T == {n \in 1 .. N : n = N \/ IsLast(n)}
  <2>1. T \subseteq Nat /\ T # {}
    <3>1. N \in 1 .. N
      BY <1>n
    <3> HIDE DEF IsLast
    <3>2. QED
      BY <3>1
  <2>2. PICK n \in T : \A m \in T : n <= m
    <3> HIDE DEF T
    <3> QED BY <2>1, BySummand!LeastNat
  <2>3. \A m \in 1 .. (n - 1) : ~IsLast(m)
    <3> SUFFICES ASSUME NEW m \in 1 .. (n - 1), IsLast(m) PROVE FALSE
      OBVIOUS
    <3>1. m \in 1 .. N /\ ~(n <= m)
      BY <1>n
    <3> HIDE DEF IsLast
    <3>2. QED
      BY <2>2, <3>1
  <2> HIDE DEF IsLast
  <2>4. QED
    BY <2>2, <2>3
<1>11. (CHOOSE n \in 1 .. N : Ends(n)) \in 1 .. N
  <2> HIDE DEF Ends
  <2> QED BY <1>10
<1> HIDE DEF Ends
<1>12. QED
  BY <1>1, <1>8, <1>9, <1>11

LEMMA DownSumKeeps ==
  ASSUME NEW N, NEW v \in [N -> Ordinary], NEW s, Keeps(s, v, N), NEW id \in N, NEW ids \in Seq(N),
         NEW total, NEW weight, Counts(v, ids, total, weight), v[id] = total[Len(ids)], RoundsAssumption
  PROVE  Keeps(DownSum(s, id, ids), v, N)
<1>1. PICK h, n : /\ h[0] = s
                  /\ \A m \in 1 .. MaxRounds : h[m] = DownSummands(h[m - 1], id, ids)
                  /\ n \in 1 .. MaxRounds
                  /\ DownSum(s, id, ids) = h[n]
  BY DownSumRun
<1>2. MaxRounds \in Nat
  BY DEF RoundsAssumption
<1> DEFINE All == {m \in Nat : m <= MaxRounds => Keeps(h[m], v, N)}
<1>3. 0 \in All
  BY <1>1
<1>4. ASSUME NEW m \in Nat, m \in All PROVE m + 1 \in All
  <2>1. CASE m + 1 <= MaxRounds
    <3>1. m + 1 \in 1 .. MaxRounds /\ (m + 1) - 1 = m /\ Keeps(h[m], v, N)
      BY <1>2, <1>4, <2>1
    <3>2. Keeps(DownSummands(h[m], id, ids), v, N)
      BY <3>1, DownSummandsKeeps
    <3>3. h[m + 1] = DownSummands(h[m], id, ids)
      BY <1>1, <3>1
    <3>4. QED
      BY <3>2, <3>3
  <2>2. CASE ~(m + 1 <= MaxRounds)
    BY <2>2
  <2>3. QED
    BY <2>1, <2>2
<1>5. Nat \subseteq All
  <2> HIDE DEF All
  <2> QED BY <1>3, <1>4, BySummand!SetInduction
<1>6. QED
  BY <1>1, <1>2, <1>5

-----------------------------------------------------------------------------
(* Powers *)

\* One more factor, or none yet.
Raised(x, e) == IF e.first THEN e.base ELSE Multiply(e.base, x)
ByFactor == INSTANCE FoldFacts WITH Op <- Raised

\* PowerOf, factor by factor.
LEMMA PowerRun ==
  ASSUME NEW a, NEW n \in Nat \ {0}
  PROVE  \E h : h[1] = a /\ (\A i \in 2 .. n : h[i] = Multiply(a, h[i - 1])) /\ PowerOf(a, n) = h[n]
<1> DEFINE seq == [i \in 1 .. n |-> [first |-> i = 1, base |-> a]]
           Value(f, i) == IF i = 1 THEN a ELSE Multiply(a, f[i - 1])
           F == CHOOSE f : f = [i \in 1 .. n |-> Value(f, i)]
<1>1. PowerOf(a, n) = F[n]
  BY DEF PowerOf
<1>2. PICK g : ByFactor!Table(g, a, seq, 1 .. n)
  <2> HIDE DEF seq
  <2> QED BY ByFactor!TableExists
<1>3. PICK h : ByFactor!Run(h, a, seq, n)
  <2> HIDE DEF seq
  <2> QED BY <1>2, ByFactor!FoldRun
<1> DEFINE k == [i \in 1 .. n |-> h[i]]
<1>4. ASSUME NEW i \in 1 .. n PROVE h[i] = Value(k, i)
  <2>1. h[i] = Raised(h[i - 1], seq[i])
    <3> HIDE DEF seq
    <3> QED BY <1>3 DEF ByFactor!Run
  <2> DEFINE o == i = 1
  <2>2. seq[i] = [first |-> o, base |-> a]
    OBVIOUS
  <2> HIDE DEF seq, o
  <2>3. seq[i].first = o /\ seq[i].base = a
    BY <2>2
  <2>4. h[i] = IF i = 1 THEN a ELSE Multiply(a, h[i - 1])
    BY <2>1, <2>3 DEF Raised, o
  <2>5. i # 1 => k[i - 1] = h[i - 1]
    OBVIOUS
  <2> HIDE DEF k
  <2>6. QED
    BY <2>4, <2>5
<1>5. k = [i \in 1 .. n |-> Value(k, i)]
  <2> HIDE DEF Value
  <2> QED BY <1>4
<1>6. F = [i \in 1 .. n |-> Value(F, i)]
  <2> HIDE DEF Value, k
  <2> QED BY <1>5
<1> HIDE DEF F, k
<1>7. \A i \in 1 .. n : F[i] = Value(F, i)
  <2> HIDE DEF Value
  <2> QED BY <1>6
<1>8. F[1] = a /\ \A i \in 2 .. n : F[i] = Multiply(a, F[i - 1])
  BY <1>7
<1>9. QED
  BY <1>1, <1>8

\* p lists the powers of x up to the nth.
Powers(x, n, p) == p \in [1 .. n -> Int] /\ p[1] = x /\ \A i \in 2 .. n : p[i] = x * p[i - 1]

\* Products of numbers that are not negative are in the order of their factors.
LEMMA ProductsInOrder ==
  ASSUME NEW c \in Int, NEW w \in Int, NEW h \in Int, NEW p \in Int, c >= 0, w >= 0, h >= 0, p >= 0
  PROVE  /\ c * h \in Int /\ w * p \in Int /\ c * h >= 0 /\ w * p >= 0
         /\ c <= w /\ h <= p => c * h <= w * p
         /\ c < w /\ h < p => c * h < w * p
         /\ h >= 1 => c * h >= c
<1>1. c * h \in Int /\ w * p \in Int /\ c * p \in Int /\ c * h >= 0 /\ w * p >= 0
  BY SignOfProduct
<1>2. h <= p => c * h <= c * p
  BY ScaleUp
<1>3. c <= w => c * p <= w * p
  BY ScaleUp
<1>4. c < w /\ p > 0 => c * p < w * p
  <2>1. (w - c) * p = w * p - c * p
    OBVIOUS
  <2>2. c < w /\ p > 0 => w - c \in Int /\ w - c > 0
    OBVIOUS
  <2>3. c < w /\ p > 0 => (w - c) * p > 0
    BY <2>2, SignOfProduct
  <2>4. QED
    BY <1>1, <2>1, <2>3
<1>5. h >= 1 => c * h >= c
  <2>1. h >= 1 => c * 1 <= c * h
    BY ScaleUp
  <2>2. QED
    BY <1>1, <2>1
<1> DEFINE ch == c * h
           cp == c * p
           wp == w * p
<1>6. ch \in Int /\ cp \in Int /\ wp \in Int
  BY <1>1
<1>7. (h <= p => ch <= cp) /\ (c <= w => cp <= wp) /\ (c < w /\ p > 0 => cp < wp)
  BY <1>2, <1>3, <1>4
<1> HIDE DEF ch, cp, wp
<1>8. (c <= w /\ h <= p => ch <= wp) /\ (c < w /\ h < p => ch < wp)
  BY <1>6, <1>7
<1>9. QED
  BY <1>1, <1>5, <1>8 DEF ch, wp

\* Powers of numbers that are not negative are in the order of the numbers, cut off at infinity.
LEMMA PowerInOrder ==
  ASSUME NEW n \in Nat \ {0}, NEW c \in Doubles, c >= 0, NEW w \in Int, w >= 0, NEW p, Powers(w, n, p)
  PROVE  LET power == PowerOf(c, n)
         IN /\ power \in Doubles /\ power >= c /\ p[n] \in Int /\ p[n] >= 0
            /\ c = 0 => power = 0
            /\ c <= w => power <= p[n]
            /\ c < w => power < p[n]
            /\ w <= c => p[n] <= power \/ power = Infinity
            /\ w < c => p[n] < power \/ power = Infinity
<1>1. PICK h : h[1] = c /\ (\A i \in 2 .. n : h[i] = Multiply(c, h[i - 1])) /\ PowerOf(c, n) = h[n]
  BY PowerRun
<1> DEFINE Good(i) == /\ h[i] \in Doubles /\ h[i] >= c /\ p[i] \in Int /\ p[i] >= 0
                      /\ c = 0 => h[i] = 0
                      /\ c <= w => h[i] <= p[i]
                      /\ c < w => h[i] < p[i]
                      /\ w <= c => p[i] <= h[i] \/ h[i] = Infinity
                      /\ w < c => p[i] < h[i] \/ h[i] = Infinity
           All == {i \in Nat : i + 1 <= n => Good(i + 1)}
<1>c. c \in Int /\ c <= Infinity /\ Infinity \in Int /\ Infinity > 10
  BY Sizes DEF Doubles
<1>2. 0 \in All
  BY <1>1, <1>c DEF Powers
<1>3. ASSUME NEW i \in Nat, i \in All PROVE i + 1 \in All
  <2> SUFFICES ASSUME (i + 1) + 1 <= n PROVE Good((i + 1) + 1)
    OBVIOUS
  <2> DEFINE j == i + 1
  <2>1. j + 1 \in 2 .. n /\ (j + 1) - 1 = j /\ j + 1 \in 1 .. n
    OBVIOUS
  <2>2. Good(j)
    BY <1>3
  <2>3. h[j + 1] = Multiply(c, h[j]) /\ p[j + 1] = w * p[j]
    BY <1>1, <2>1 DEF Powers
  <2> HIDE DEF j
  <2> DEFINE x == h[j]
             y == p[j]
  <2>4. /\ x \in Doubles /\ x >= c /\ y \in Int /\ y >= 0
        /\ c = 0 => x = 0
        /\ c <= w => x <= y
        /\ c < w => x < y
        /\ w <= c => y <= x \/ x = Infinity
        /\ w < c => y < x \/ x = Infinity
    BY <2>2
  <2>5. h[j + 1] = Multiply(c, x) /\ p[j + 1] = w * y
    BY <2>3
  <2> HIDE DEF x, y, Good
  <2>6. x \in Int /\ x >= 0 /\ x <= Infinity
    BY <1>c, <2>4 DEF Doubles
  <2>7. Multiply(c, x) = Saturated(c * x)
    <3>1. ~((c = 0 /\ IsInfinite(x)) \/ (x = 0 /\ IsInfinite(c)))
      BY <1>c, <2>4, <2>6 DEF IsInfinite
    <3>2. QED
      BY <2>4, <3>1, Multiplied
  <2> DEFINE cx == c * x
             wy == w * y
  <2>8. /\ cx \in Int /\ wy \in Int /\ cx >= 0 /\ wy >= 0
        /\ c <= w /\ x <= y => cx <= wy
        /\ c < w /\ x < y => cx < wy
        /\ w <= c /\ y <= x => wy <= cx
        /\ w < c /\ y < x => wy < cx
        /\ x >= 1 => cx >= c
        /\ x = 0 => cx = 0
    <3>1. /\ cx \in Int /\ wy \in Int /\ cx >= 0 /\ wy >= 0
          /\ c <= w /\ x <= y => cx <= wy
          /\ c < w /\ x < y => cx < wy
          /\ x >= 1 => cx >= c
      BY <1>c, <2>4, <2>6, ProductsInOrder
    <3>2. /\ w <= c /\ y <= x => wy <= cx
          /\ w < c /\ y < x => wy < cx
      BY <1>c, <2>4, <2>6, ProductsInOrder
    <3>3. x = 0 => cx = 0
      BY <1>c, <2>6, SignOfProduct
    <3>4. QED
      BY <3>1, <3>2, <3>3
  <2>9. x = Infinity /\ c # 0 => cx >= Infinity
    <3>1. c # 0 => 1 <= c
      BY <1>c
    <3>2. c # 0 /\ x = Infinity => 1 * x <= cx
      BY <1>c, <2>6, <3>1, ScaleUp
    <3>3. QED
      BY <1>c, <2>6, <2>8, <3>2
  <2> HIDE DEF cx, wy
  <2>10. h[j + 1] = Saturated(cx) /\ p[j + 1] = wy
    BY <2>5, <2>7 DEF cx, wy
  <2>11. /\ Saturated(cx) \in Doubles /\ Saturated(cx) <= cx
         /\ Saturated(cx) = cx \/ (Saturated(cx) = Infinity /\ cx >= Infinity)
    BY <1>c, <2>8 DEF Saturated, Doubles
  <2> DEFINE sat == Saturated(cx)
  <2> HIDE DEF sat
  <2>12. sat \in Int /\ sat \in Doubles /\ sat <= cx /\ (sat = cx \/ (sat = Infinity /\ cx >= Infinity))
    BY <1>c, <2>11 DEF sat, Doubles
  <2>13. /\ sat >= c /\ (c = 0 => sat = 0)
         /\ c <= w => sat <= wy
         /\ c < w => sat < wy
         /\ w <= c => wy <= sat \/ sat = Infinity
         /\ w < c => wy < sat \/ sat = Infinity
    <3> DEFINE inf == Infinity
    <3>1. /\ c \in Int /\ c >= 0 /\ c <= inf /\ inf \in Int /\ inf > 10 /\ w \in Int /\ x \in Int
          /\ y \in Int /\ sat \in Int /\ sat <= inf /\ cx \in Int /\ wy \in Int
      BY <1>c, <2>4, <2>6, <2>8, <2>12 DEF Doubles
    <3>2. x >= c /\ (c = 0 => x = 0) /\ (x >= 1 => cx >= c) /\ (x = 0 => cx = 0)
      BY <2>4, <2>8
    <3>3. sat <= cx /\ (sat = cx \/ (sat = inf /\ cx >= inf))
      BY <2>12
    <3>4. /\ c <= w => cx <= wy
          /\ c < w => cx < wy
      BY <2>4, <2>8
    <3>5. /\ w <= c => y <= x \/ x = inf
          /\ w < c => y < x \/ x = inf
          /\ w <= c /\ y <= x => wy <= cx
          /\ w < c /\ y < x => wy < cx
          /\ x = inf /\ c # 0 => cx >= inf
      BY <2>4, <2>8, <2>9
    <3> HIDE DEF inf
    <3>6. sat >= c /\ (c = 0 => sat = 0)
      BY <3>1, <3>2, <3>3
    <3>7. (c <= w => sat <= wy) /\ (c < w => sat < wy)
      BY <3>1, <3>3, <3>4
    <3>8. (w <= c => wy <= sat \/ sat = inf) /\ (w < c => wy < sat \/ sat = inf)
      <4>1. x = inf => c # 0
        BY <3>1, <3>2
      <4>2. (w <= c => wy <= cx \/ cx >= inf) /\ (w < c => wy < cx \/ cx >= inf)
        BY <3>5, <4>1
      <4>3. cx >= inf => sat = inf
        BY <3>1, <3>3
      <4>4. QED
        BY <3>1, <3>3, <4>2, <4>3
    <3>9. QED
      BY <3>6, <3>7, <3>8 DEF inf
  <2>14. h[j + 1] = sat
    BY <2>10 DEF sat
  <2>15. Good(j + 1)
    BY <2>8, <2>10, <2>12, <2>13, <2>14 DEF Good
  <2>16. QED
    BY <2>15 DEF j
<1>4. Nat \subseteq All
  <2> HIDE DEF All
  <2> QED BY <1>2, <1>3, ByFactor!SetInduction
<1>5. n - 1 \in Nat /\ (n - 1) + 1 = n
  OBVIOUS
<1>6. Good(n)
  BY <1>4, <1>5
<1>7. QED
  BY <1>1, <1>6

\* A sign may be taken out of a product.
LEMMA Opposites ==
  ASSUME NEW b \in Int, NEW g \in Int
  PROVE  /\ b * g \in Int /\ (-b) * g = -(b * g) /\ (-b) * (-g) = b * g /\ b * (-g) = -(b * g)
         /\ Saturated(-(b * g)) = -Saturated(b * g)
<1>1. b * g \in Int /\ (-b) * g = -(b * g) /\ (-b) * (-g) = b * g /\ b * (-g) = -(b * g)
  OBVIOUS
<1> DEFINE m == b * g
<1>2. m \in Int
  BY <1>1
<1> HIDE DEF m
<1>3. Saturated(-m) = -Saturated(m)
  BY <1>2, Sizes DEF Saturated
<1>4. QED
  BY <1>1, <1>3 DEF m

\* A power of a negative number is that of its magnitude, with the sign of the exponent's parity.
LEMMA PowerOfNegative ==
  ASSUME NEW n \in Nat \ {0}, NEW b \in Doubles, b >= 0
  PROVE  /\ PowerOf(-b, n) = IF n % 2 = 0 THEN PowerOf(b, n) ELSE -PowerOf(b, n)
         /\ PowerOf(b, n) \in Doubles /\ PowerOf(b, n) >= 0
<1> DEFINE a == -b
<1>b. b \in Int /\ a \in Doubles /\ b <= Infinity /\ Infinity \in Int /\ Infinity > 10 /\ a = -b
  BY Sizes DEF Doubles
<1> HIDE DEF a
<1>1. PICK h : h[1] = a /\ (\A i \in 2 .. n : h[i] = Multiply(a, h[i - 1])) /\ PowerOf(a, n) = h[n]
  BY PowerRun
<1>2. PICK g : g[1] = b /\ (\A i \in 2 .. n : g[i] = Multiply(b, g[i - 1])) /\ PowerOf(b, n) = g[n]
  BY PowerRun
<1> DEFINE Good(i) == /\ g[i] \in Doubles /\ g[i] >= b /\ (b = 0 => g[i] = 0)
                      /\ h[i] = IF i % 2 = 0 THEN g[i] ELSE -g[i]
           All == {i \in Nat : i + 1 <= n => Good(i + 1)}
<1>3. 0 \in All
  <2>1. (0 + 1) % 2 = 1 /\ 0 + 1 = 1
    OBVIOUS
  <2>2. QED
    BY <1>b, <1>1, <1>2, <2>1
<1>4. ASSUME NEW i \in Nat, i \in All PROVE i + 1 \in All
  <2> SUFFICES ASSUME (i + 1) + 1 <= n PROVE Good((i + 1) + 1)
    OBVIOUS
  <2> DEFINE j == i + 1
  <2>1. j + 1 \in 2 .. n /\ (j + 1) - 1 = j /\ j \in Nat
    OBVIOUS
  <2>2. Good(j)
    BY <1>4
  <2> HIDE DEF j
  <2>3. g[j + 1] = Multiply(b, g[j]) /\ h[j + 1] = Multiply(a, h[j])
    BY <1>1, <1>2, <2>1
  <2>4. ((j + 1) % 2 = 0 <=> ~(j % 2 = 0))
    BY <2>1
  <2> DEFINE x == g[j]
             y == h[j]
             even == j % 2 = 0
  <2>5. x \in Doubles /\ x >= b /\ (b = 0 => x = 0) /\ y = IF even THEN x ELSE -x
    BY <2>2
  <2>6. x \in Int /\ x >= 0 /\ x <= Infinity /\ y \in Doubles
    BY <1>b, <2>5 DEF Doubles
  <2> HIDE DEF x, y, even, Good
  <2>7. Multiply(b, x) = Saturated(b * x) /\ Multiply(a, y) = Saturated(a * y)
    <3>1. ~((b = 0 /\ IsInfinite(x)) \/ (x = 0 /\ IsInfinite(b)))
      BY <1>b, <2>5, <2>6 DEF IsInfinite
    <3>2. ~((a = 0 /\ IsInfinite(y)) \/ (y = 0 /\ IsInfinite(a)))
      BY <1>b, <2>5, <2>6 DEF IsInfinite
    <3>3. QED
      BY <1>b, <2>5, <2>6, <3>1, <3>2, Multiplied
  <2>8. Multiply(a, y) = IF even THEN -Saturated(b * x) ELSE Saturated(b * x)
    <3>1. CASE even
      <4>1. y = x /\ a * x = -(b * x) /\ Saturated(-(b * x)) = -Saturated(b * x)
        BY <1>b, <2>5, <2>6, <3>1, Opposites
      <4>2. QED
        BY <2>7, <3>1, <4>1
    <3>2. CASE ~even
      <4>1. y = -x /\ a * (-x) = b * x
        BY <1>b, <2>5, <2>6, <3>2, Opposites
      <4>2. QED
        BY <2>7, <3>2, <4>1
    <3>3. QED
      BY <3>1, <3>2
  <2> DEFINE m == b * x
             sat == Saturated(m)
  <2>9. m \in Int /\ m >= 0 /\ (x >= 1 => m >= b) /\ (x = 0 => m = 0)
    <3>1. m \in Int /\ m >= 0 /\ (x >= 1 => m >= b)
      BY <1>b, <2>6, ProductsInOrder
    <3>2. x = 0 => m = 0
      BY <1>b, <2>6, SignOfProduct
    <3>3. QED
      BY <3>1, <3>2
  <2> HIDE DEF m
  <2>10. sat \in Doubles /\ (sat = m \/ (sat = Infinity /\ m >= Infinity))
    BY <1>b, <2>9 DEF Saturated, Doubles
  <2>11. sat >= b /\ (b = 0 => sat = 0)
    BY <1>b, <2>5, <2>6, <2>9, <2>10
  <2>12. g[j + 1] = sat /\ h[j + 1] = IF even THEN -sat ELSE sat
    BY <2>3, <2>7, <2>8 DEF m, x, y
  <2> HIDE DEF sat
  <2>13. Good(j + 1)
    BY <2>4, <2>10, <2>11, <2>12 DEF Good, even
  <2>14. QED
    BY <2>13 DEF j
<1>5. Nat \subseteq All
  <2> HIDE DEF All
  <2> QED BY <1>3, <1>4, ByFactor!SetInduction
<1>6. n - 1 \in Nat /\ (n - 1) + 1 = n
  OBVIOUS
<1>7. Good(n)
  BY <1>5, <1>6
<1>8. g[n] >= 0
  BY <1>b, <1>7, Sizes DEF Doubles
<1>9. QED
  BY <1>1, <1>2, <1>7, <1>8 DEF a

\* The powers of the opposite number.
LEMMA PowersOfNegative ==
  ASSUME NEW n \in Nat \ {0}, NEW w \in Int, NEW p, Powers(w, n, p)
  PROVE  \E q : Powers(-w, n, q) /\ p[n] = IF n % 2 = 0 THEN q[n] ELSE -q[n]
<1> DEFINE q == [i \in 1 .. n |-> IF i % 2 = 0 THEN p[i] ELSE -p[i]]
<1>1. \A i \in 1 .. n : p[i] \in Int
  BY DEF Powers
<1>2. q \in [1 .. n -> Int]
  BY <1>1
<1>3. q[1] = -w
  <2>1. 1 % 2 = 1 /\ 1 \in 1 .. n
    OBVIOUS
  <2>2. QED
    BY <2>1 DEF Powers
<1>4. ASSUME NEW i \in 2 .. n PROVE q[i] = (-w) * q[i - 1]
  <2> DEFINE x == p[i - 1]
  <2>1. i \in 1 .. n /\ i - 1 \in 1 .. n /\ (i % 2 = 0 <=> ~((i - 1) % 2 = 0))
    OBVIOUS
  <2>2. p[i] = w * x /\ x \in Int
    BY <1>1, <2>1 DEF Powers
  <2>3. q[i] = (IF i % 2 = 0 THEN p[i] ELSE -p[i]) /\ q[i - 1] = IF i % 2 = 0 THEN -x ELSE x
    BY <2>1
  <2> HIDE DEF q, x
  <2>4. (-w) * (-x) = w * x /\ (-w) * x = -(w * x)
    BY <2>2, Opposites
  <2>5. QED
    BY <2>2, <2>3, <2>4
<1>5. p[n] = IF n % 2 = 0 THEN q[n] ELSE -q[n]
  <2>1. n \in 1 .. n
    OBVIOUS
  <2>2. q[n] = (IF n % 2 = 0 THEN p[n] ELSE -p[n]) /\ p[n] \in Int
    BY <1>1, <2>1
  <2> HIDE DEF q
  <2>3. QED
    BY <2>2
<1> HIDE DEF q
<1>6. QED
  BY <1>2, <1>3, <1>4, <1>5 DEF Powers

\* What the power of a bound says of the power z of a number on the bound's side of 0.
LEMMA PowerSides ==
  ASSUME NEW n \in Nat \ {0}, NEW c \in Doubles, NEW w \in Ordinary, NEW p, Powers(w, n, p), p[n] \in Ordinary
  PROVE  LET power == PowerOf(c, n)
             even == n % 2 = 0
         IN /\ power \in Doubles
            /\ 0 <= c /\ 0 <= w => (c <= w => power <= p[n]) /\ (w <= c => p[n] <= power)
            /\ c <= 0 /\ w <= 0 /\ even => (c <= w => p[n] <= power) /\ (w <= c => power <= p[n])
            /\ c <= 0 /\ w <= 0 /\ ~even => (c <= w => power <= p[n]) /\ (w <= c => p[n] <= power)
            /\ 0 <= w => 0 <= p[n]
            /\ w <= 0 => (even => 0 <= p[n]) /\ (~even => p[n] <= 0)
<1> DEFINE power == PowerOf(c, n)
           even == n % 2 = 0
           z == p[n]
<1>1. /\ c \in Int /\ w \in Int /\ z \in Int /\ z <= Half /\ -Half <= z /\ Half < Infinity
      /\ Infinity \in Int /\ Half \in Int
  BY Sizes DEF Doubles, Ordinary
<1>2. ASSUME 0 <= w PROVE 0 <= z /\ (0 <= c => (c <= w => power <= z) /\ (w <= c => z <= power))
  <2>1. 0 \in Doubles
    BY Sizes DEF Doubles
  <2>2. 0 <= z
    BY <1>1, <1>2, <2>1, PowerInOrder
  <2>3. 0 <= c => (c <= w => power <= z) /\ (w <= c => z <= power \/ power = Infinity)
    BY <1>1, <1>2, PowerInOrder
  <2> HIDE DEF power, z
  <2>4. QED
    BY <1>1, <2>2, <2>3
<1>3. 0 <= c => power \in Doubles
  BY PowerOfNegative
<1> DEFINE b == -c
           m == -w
<1>4. c <= 0 => /\ b \in Doubles /\ b >= 0 /\ PowerOf(b, n) \in Doubles
                /\ power = IF even THEN PowerOf(b, n) ELSE -PowerOf(b, n)
  <2>1. c <= 0 => b \in Doubles /\ b >= 0 /\ c = -b
    BY <1>1, Sizes DEF Doubles
  <2> HIDE DEF b
  <2>2. QED
    BY <2>1, PowerOfNegative
<1>5. power \in Doubles
  <2> DEFINE r == PowerOf(b, n)
  <2>1. c <= 0 => r \in Doubles /\ power = IF even THEN r ELSE -r
    BY <1>4
  <2> HIDE DEF power, even, r
  <2>2. c <= 0 => power \in Doubles
    BY <2>1, Sizes DEF Doubles
  <2>3. QED
    BY <1>1, <1>3, <2>2
<1>6. PICK q : Powers(m, n, q) /\ z = IF even THEN q[n] ELSE -q[n]
  BY <1>1, PowersOfNegative
<1>7. ASSUME w <= 0
      PROVE  /\ (even => 0 <= z) /\ (~even => z <= 0)
             /\ c <= 0 /\ even => (c <= w => z <= power) /\ (w <= c => power <= z)
             /\ c <= 0 /\ ~even => (c <= w => power <= z) /\ (w <= c => z <= power)
  <2> DEFINE r == PowerOf(b, n)
             y == q[n]
  <2>1. m \in Int /\ m >= 0 /\ m = -w
    BY <1>1, <1>7
  <2>2. y \in Int /\ y >= 0
    <3>1. 0 \in Doubles
      BY Sizes DEF Doubles
    <3> HIDE DEF m
    <3>2. QED
      BY <1>6, <2>1, <3>1, PowerInOrder
  <2>3. c <= 0 => r \in Doubles /\ (b <= m => r <= y) /\ (m <= b => y <= r \/ r = Infinity)
    <3> HIDE DEF m, b
    <3> QED BY <1>4, <1>6, <2>1, PowerInOrder
  <2>4. z = (IF even THEN y ELSE -y) /\ (c <= 0 => power = IF even THEN r ELSE -r)
    BY <1>4, <1>6
  <2>5. b \in Int /\ b = -c
    BY <1>1
  <2>6. c <= 0 => r \in Int
    BY <2>3, Sizes DEF Doubles
  <2> HIDE DEF power, even, z, b, m, r, y
  <2>7. y <= Half
    BY <1>1, <2>2, <2>4
  <2>8. c <= 0 => (c <= w => y <= r) /\ (w <= c => r <= y)
    BY <1>1, <2>1, <2>2, <2>3, <2>5, <2>6, <2>7
  <2>9. QED
    BY <1>1, <2>2, <2>4, <2>6, <2>8
<1> HIDE DEF power, even, z
<1>8. QED
  BY <1>2, <1>5, <1>7 DEF power, even, z

\* A power from its base.
LEMMA UpConstPowerKeeps ==
  ASSUME NEW N, NEW v \in [N -> Ordinary], NEW s, Keeps(s, v, N), ParentsIn(N), NEW id \in N, NEW l \in N,
         NEW n \in Nat \ {0}, NEW p, Powers(v[l], n, p), v[id] = p[n]
  PROVE  Keeps(UpConstPower(s, id, l, n), v, N)
<1> DEFINE x == s.interval[l]
           a == PowerOf(x.max, n)
           b == PowerOf(x.min, n)
           w == v[l]
           z == v[id]
           same == Lt(0, SignProduct(x)) \/ SignProduct(x) = NaN
           lo == IF same THEN StdMin(a, b) ELSE StdMin(0, StdMin(a, b))
           hi == IF same THEN StdMax(a, b) ELSE StdMax(0, StdMax(a, b))
           even == n % 2 = 0
<1>1. /\ x.min \in Doubles /\ x.max \in Doubles /\ x.min <= w /\ w <= x.max /\ x \in Ranges
      /\ x.min \in Int /\ x.max \in Int /\ w \in Int /\ z \in Int /\ w \in Ordinary /\ z \in Ordinary
  BY Bounds DEF Keeps, RangesOn
<1>2. same => x.min >= 0 \/ x.max <= 0
  <2> HIDE DEF x
  <2>1. QED
    BY <1>1, SignProductIs
<1> DEFINE lower == x.min
           upper == x.max
<1>3. /\ a \in Doubles
      /\ 0 <= upper /\ 0 <= w => z <= a
      /\ upper <= 0 /\ w <= 0 => IF even THEN a <= z ELSE z <= a
      /\ 0 <= w => 0 <= z
      /\ w <= 0 => IF even THEN 0 <= z ELSE z <= 0
  <2> HIDE DEF x
  <2>1. QED
    BY <1>1, PowerSides
<1>4. /\ b \in Doubles
      /\ 0 <= lower /\ 0 <= w => b <= z
      /\ lower <= 0 /\ w <= 0 => IF even THEN z <= b ELSE b <= z
  <2> HIDE DEF x
  <2>1. QED
    BY <1>1, PowerSides
<1>5. UpConstPower(s, id, l, n) = Raise(s, id, lo, hi)
  BY DEF UpConstPower
<1>6. /\ lower \in Int /\ upper \in Int /\ lower <= w /\ w <= upper /\ w \in Int /\ z \in Int
      /\ (same => lower >= 0 \/ upper <= 0)
  BY <1>1, <1>2
<1>7. a \in Int /\ b \in Int /\ a # NaN /\ b # NaN /\ 0 # NaN /\ 0 \in Doubles
  BY <1>3, <1>4, Sizes DEF Doubles
<1> HIDE DEF a, b, w, z, same, even, lower, upper
<1>8. same => (a <= z \/ b <= z) /\ (z <= a \/ z <= b)
  BY <1>3, <1>4, <1>6
<1>9. ~same => (0 <= z \/ a <= z \/ b <= z) /\ (z <= 0 \/ z <= a \/ z <= b)
  <2>1. CASE 0 <= w
    BY <1>3, <1>6, <2>1
  <2>2. CASE w <= 0
    BY <1>3, <1>4, <1>6, <2>2
  <2>3. QED
    BY <1>6, <2>1, <2>2
<1>10. /\ StdMin(a, b) \in Doubles /\ StdMin(a, b) <= a /\ StdMin(a, b) <= b
       /\ StdMax(a, b) \in Doubles /\ a <= StdMax(a, b) /\ b <= StdMax(a, b)
  BY <1>3, <1>4, <1>7 DEF StdMin, StdMax, Lt
<1> DEFINE e == StdMin(a, b)
           f == StdMax(a, b)
<1>11. e \in Doubles /\ f \in Doubles /\ e \in Int /\ f \in Int /\ e # NaN /\ f # NaN
  BY <1>10, Sizes DEF Doubles
<1> HIDE DEF e, f
<1>12. /\ StdMin(0, e) \in Doubles /\ StdMin(0, e) <= 0 /\ StdMin(0, e) <= e
       /\ StdMax(0, f) \in Doubles /\ 0 <= StdMax(0, f) /\ f <= StdMax(0, f)
  BY <1>7, <1>11 DEF StdMin, StdMax, Lt
<1> DEFINE g == StdMin(0, e)
           h == StdMax(0, f)
<1>13. g \in Int /\ h \in Int
  BY <1>12, Sizes DEF Doubles
<1>14. lo = (IF same THEN e ELSE g) /\ hi = IF same THEN f ELSE h
  BY DEF e, f
<1>15. /\ e <= a /\ e <= b /\ a <= f /\ b <= f /\ g <= 0 /\ g <= e /\ 0 <= h /\ f <= h
       /\ g \in Doubles /\ h \in Doubles
  BY <1>10, <1>12 DEF e, f
<1> HIDE DEF lo, hi, g, h
<1>16. lo \in Doubles /\ hi \in Doubles
  BY <1>11, <1>14, <1>15
<1>17. lo <= z /\ z <= hi
  <2>1. CASE same
    BY <1>6, <1>7, <1>8, <1>11, <1>14, <1>15, <2>1
  <2>2. CASE ~same
    <3>1. g <= a /\ g <= b /\ a <= h /\ b <= h
      BY <1>7, <1>11, <1>13, <1>15
    <3>2. QED
      BY <1>6, <1>7, <1>9, <1>13, <1>14, <1>15, <2>2, <3>1
  <2>3. QED
    BY <2>1, <2>2
<1>18. QED
  BY <1>5, <1>16, <1>17, RaiseKeeps DEF z

-----------------------------------------------------------------------------
(* Roots *)

\* The largest number whose power is not larger.
LEMMA RootIs ==
  ASSUME NEW n \in Nat \ {0}, NEW c \in Doubles, 0 <= c, c < Infinity
  PROVE  LET r == RootWithin(c, n)
         IN r \in 0 .. c /\ PowerOf(r, n) <= c /\ c < PowerOf(r + 1, n)
<1> DEFINE T == {r \in 0 .. c : r = c \/ PowerOf(r + 1, n) > c}
           Is(r) == PowerOf(r, n) <= c /\ (r = c \/ PowerOf(r + 1, n) > c)
<1>1. c \in Nat /\ c + 1 <= Infinity /\ Infinity \in Int
  BY Sizes DEF Doubles
<1>2. \A r \in 0 .. c + 1 : r \in Doubles /\ r >= 0 /\ r \in Int
  BY <1>1, Sizes DEF Doubles
<1>3. ASSUME NEW r \in 0 .. c + 1
      PROVE  PowerOf(r, n) \in Int /\ PowerOf(r, n) >= r /\ (r = 0 => PowerOf(r, n) = 0)
  <2> DEFINE p == [i \in 1 .. n |-> 0]
             power == PowerOf(r, n)
  <2>1. Powers(0, n, p)
    BY DEF Powers
  <2> HIDE DEF p
  <2>2. power \in Doubles /\ power >= r /\ (r = 0 => power = 0)
    BY <1>2, <2>1, PowerInOrder
  <2> HIDE DEF power
  <2>3. power \in Int
    BY <2>2, Sizes DEF Doubles
  <2>4. QED
    BY <2>2, <2>3 DEF power
<1>4. T \subseteq Nat /\ T # {}
  BY <1>1
<1>5. PICK r \in T : \A y \in T : r <= y
  <2> HIDE DEF T
  <2> QED BY <1>4, ByFactor!LeastNat
<1>6. r \in 0 .. c /\ (r = c \/ PowerOf(r + 1, n) > c)
  OBVIOUS
<1>7. PowerOf(r, n) <= c
  <2>1. CASE r = 0
    BY <1>1, <1>3, <2>1
  <2>2. CASE r # 0
    <3>1. r - 1 \in 0 .. c /\ ~(r <= r - 1) /\ (r - 1) + 1 = r /\ r - 1 # c
      BY <1>1, <1>6, <2>2
    <3>2. r - 1 \notin T
      <4> HIDE DEF T
      <4> QED BY <1>5, <3>1
    <3>3. ~(PowerOf((r - 1) + 1, n) > c)
      BY <3>1, <3>2
    <3>4. PowerOf(r, n) \in Int
      BY <1>1, <1>3, <1>6
    <3>5. QED
      BY <1>1, <3>1, <3>3, <3>4
  <2>3. QED
    BY <2>1, <2>2
<1>8. \E y \in 0 .. c : Is(y)
  BY <1>6, <1>7
<1> HIDE DEF T
<1> DEFINE x == RootWithin(c, n)
<1>9. x \in 0 .. c /\ Is(x)
  <2>1. x = CHOOSE y \in 0 .. c : Is(y)
    BY DEF RootWithin
  <2> HIDE DEF x, Is
  <2>2. QED
    BY <1>8, <2>1
<1> HIDE DEF x
<1>10. c < PowerOf(x + 1, n)
  <2>1. x + 1 \in 0 .. c + 1 /\ x \in Int
    BY <1>1, <1>9
  <2>2. PowerOf(x + 1, n) \in Int /\ PowerOf(x + 1, n) >= x + 1
    BY <1>3, <2>1
  <2> DEFINE y == PowerOf(x + 1, n)
  <2>3. y \in Int /\ y >= x + 1 /\ (x = c \/ y > c)
    BY <1>9, <2>2
  <2> HIDE DEF y
  <2>4. c < y
    BY <1>1, <2>1, <2>3
  <2>5. QED
    BY <2>4 DEF y
<1>11. QED
  BY <1>9, <1>10 DEF x

\* The roots of a bound c, rounded up and down, against the magnitude of w, whose power is z.
LEMMA RootsAround ==
  ASSUME NEW n \in Nat \ {0, 1}, NEW c \in Doubles, NEW w \in Ordinary, NEW p, Powers(w, n, p), p[n] \in Ordinary
  PROVE  /\ c < 0 => \A up \in BOOLEAN : Root(c, n, up) = NaN
         /\ 0 <= c => \A up \in BOOLEAN : Root(c, n, up) \in Doubles /\ 0 <= Root(c, n, up)
         /\ 0 <= c /\ 0 <= p[n] /\ p[n] <= c => Magnitude(w) <= Root(c, n, TRUE)
         /\ 0 <= c /\ c <= p[n] => Root(c, n, FALSE) <= Magnitude(w)
<1> DEFINE m == Magnitude(w)
           z == p[n]
<1>0. /\ n \in Nat \ {0} /\ n > 1 /\ n # 1 /\ c \in Int /\ c # NaN /\ c <= Infinity /\ -Infinity <= c
      /\ w \in Int /\ z \in Int /\ z < Infinity /\ Infinity \in Int /\ Infinity > 10
      /\ -Half <= w /\ w <= Half /\ Half < Infinity /\ Half \in Int
  BY Sizes DEF Doubles, Ordinary
<1>1. m \in Int /\ m >= 0 /\ m < Infinity /\ (w >= 0 => m = w) /\ (w <= 0 => m = -w)
  BY <1>0 DEF Magnitude
<1>2. PICK q : Powers(m, n, q) /\ q[n] \in Int /\ q[n] >= 0 /\ (0 <= z => q[n] = z)
  <2>d. 0 \in Doubles
    BY Sizes DEF Doubles
  <2>1. CASE w >= 0
    <3>1. Powers(m, n, p)
      BY <1>1, <2>1
    <3> HIDE DEF m
    <3>2. p[n] \in Int /\ p[n] >= 0
      BY <1>0, <1>1, <2>d, <3>1, PowerInOrder
    <3>3. QED
      BY <3>1, <3>2
  <2>2. CASE w <= 0
    <3>1. PICK q : Powers(-w, n, q) /\ p[n] = IF n % 2 = 0 THEN q[n] ELSE -q[n]
      BY <1>0, PowersOfNegative
    <3>2. Powers(m, n, q)
      BY <1>1, <2>2, <3>1
    <3> HIDE DEF m
    <3>3. q[n] \in Int /\ q[n] >= 0
      BY <1>0, <1>1, <2>d, <3>2, PowerInOrder
    <3> DEFINE y == q[n]
               even == n % 2 = 0
    <3>4. z = (IF even THEN y ELSE -y) /\ y \in Int /\ y >= 0
      BY <3>1, <3>3
    <3> HIDE DEF y, even, z
    <3>5. 0 <= z => y = z
      BY <1>0, <3>4
    <3>6. QED
      BY <3>2, <3>3, <3>5 DEF y
  <2>3. QED
    BY <1>0, <2>1, <2>2
<1>3. c < 0 => \A up \in BOOLEAN : Root(c, n, up) = NaN
  BY <1>0 DEF Root
<1>4. CASE c = Infinity
  <2>1. \A up \in BOOLEAN : Root(c, n, up) = Infinity
    BY <1>0, <1>4 DEF Root, IsInfinite
  <2>2. Infinity \in Doubles
    BY Sizes DEF Doubles
  <2>3. ~(c < 0) /\ 0 <= Infinity
    BY <1>0, <1>4
  <2>4. \A up \in BOOLEAN : Root(c, n, up) \in Doubles /\ 0 <= Root(c, n, up)
    BY <2>1, <2>2, <2>3
  <2>5. m <= Root(c, n, TRUE)
    <3>1. Root(c, n, TRUE) = Infinity
      BY <2>1
    <3> HIDE DEF m
    <3>2. m <= Infinity
      BY <1>0, <1>1
    <3>3. QED
      BY <3>1, <3>2
  <2>6. ~(c <= z)
    <3> HIDE DEF z
    <3> QED BY <1>0, <1>4
  <2>7. QED
    BY <2>3, <2>4, <2>5, <2>6
<1>5. CASE 0 <= c /\ c < Infinity
  <2> DEFINE r == RootWithin(c, n)
             e == PowerOf(r, n)
             f == PowerOf(r + 1, n)
  <2>1. r \in 0 .. c /\ e <= c /\ c < f
    BY <1>0, <1>5, RootIs
  <2>2. \A up \in BOOLEAN : Root(c, n, up) = IF up /\ e # c THEN r + 1 ELSE r
    <3>1. ~IsInfinite(c)
      BY <1>0, <1>5 DEF IsInfinite
    <3>2. ~(c < 0)
      BY <1>0, <1>5
    <3>3. \A up \in BOOLEAN : Root(c, n, up) = LET x == RootWithin(c, n)
                                               IN IF up /\ PowerOf(x, n) # c THEN x + 1 ELSE x
      BY <1>0, <3>1, <3>2 DEF Root
    <3>4. QED
      BY <3>3
  <2> HIDE DEF r
  <2>3. r \in Int /\ 0 <= r /\ r < Infinity /\ r \in Doubles /\ r + 1 \in Doubles
    BY <1>0, <1>5, <2>1, Sizes DEF Doubles
  <2>4. /\ e \in Doubles /\ (r < m => e < q[n]) /\ (m < r => q[n] < e \/ e = Infinity)
    <3> HIDE DEF m
    <3> QED BY <1>0, <1>1, <1>2, <2>3, PowerInOrder
  <2>5. f \in Doubles /\ (r + 1 < m => f < q[n])
    <3> HIDE DEF m
    <3>1. r + 1 >= 0
      BY <2>3
    <3>2. QED
      BY <1>0, <1>1, <1>2, <2>3, <3>1, PowerInOrder
  <2> DEFINE y == q[n]
  <2>6. e \in Int /\ f \in Int /\ y \in Int
    BY <1>2, <2>4, <2>5, Sizes DEF Doubles
  <2>7. 0 <= z => y = z
    BY <1>2
  <2> HIDE DEF m, e, f, y, z
  <2>8. 0 <= z /\ z <= c => m <= IF e # c THEN r + 1 ELSE r
    BY <1>0, <1>1, <2>1, <2>3, <2>4, <2>5, <2>6, <2>7 DEF y
  <2>9. c <= z => r <= m
    BY <1>0, <1>1, <1>5, <2>1, <2>3, <2>4, <2>6, <2>7 DEF y
  <2>10. Root(c, n, TRUE) = (IF e # c THEN r + 1 ELSE r) /\ Root(c, n, FALSE) = r
    BY <2>2
  <2>11. \A up \in BOOLEAN : Root(c, n, up) \in Doubles /\ 0 <= Root(c, n, up)
    <3>1. \A up \in BOOLEAN : Root(c, n, up) = r \/ Root(c, n, up) = r + 1
      BY <2>2
    <3>2. 0 <= r + 1
      BY <2>3
    <3>3. QED
      BY <2>3, <3>1, <3>2
  <2>12. ~(c < 0)
    BY <1>0, <1>5
  <2>13. QED
    BY <2>8, <2>9, <2>10, <2>11, <2>12 DEF m, z
<1>6. CASE c < 0
  <2>1. ~(0 <= c)
    BY <1>0, <1>6
  <2>2. QED
    BY <1>3, <2>1
<1>7. c < 0 \/ c = Infinity \/ (0 <= c /\ c < Infinity)
  BY <1>0
<1>8. QED
  BY <1>4, <1>5, <1>6, <1>7

\* The roots of two bounds around a power, the lower of them rounded down and the upper one up, and
\* those rounded the other way.
LEMMA RootsOfBounds ==
  ASSUME NEW n \in Nat \ {0, 1}, NEW e \in Doubles, NEW f \in Doubles, NEW w \in Ordinary, NEW p, Powers(w, n, p),
         p[n] \in Ordinary, e <= p[n], p[n] <= f
  PROVE  LET a(up) == Root(e, n, up)
             b(up) == Root(f, n, up)
         IN \/ a(TRUE) = NaN /\ a(FALSE) = NaN
            \/ /\ \A up \in BOOLEAN : a(up) \in Doubles /\ b(up) \in Doubles /\ 0 <= a(up) /\ 0 <= b(up)
               /\ a(FALSE) <= Magnitude(w) /\ Magnitude(w) <= b(TRUE)
<1> DEFINE z == p[n]
<1>1. /\ e < 0 => \A up \in BOOLEAN : Root(e, n, up) = NaN
      /\ 0 <= e => \A up \in BOOLEAN : Root(e, n, up) \in Doubles /\ 0 <= Root(e, n, up)
      /\ 0 <= e /\ e <= z => Root(e, n, FALSE) <= Magnitude(w)
  BY RootsAround
<1>2. /\ 0 <= f => \A up \in BOOLEAN : Root(f, n, up) \in Doubles /\ 0 <= Root(f, n, up)
      /\ 0 <= f /\ 0 <= z /\ z <= f => Magnitude(w) <= Root(f, n, TRUE)
  BY RootsAround
<1>3. e \in Int /\ f \in Int /\ z \in Int /\ e <= z /\ z <= f
  BY Sizes DEF Doubles, Ordinary
<1> HIDE DEF z
<1>4. CASE e < 0
  BY <1>1, <1>4
<1>5. CASE 0 <= e
  <2>1. 0 <= f /\ 0 <= z
    BY <1>3, <1>5
  <2>2. QED
    BY <1>1, <1>2, <1>3, <1>5, <2>1
<1>6. e < 0 \/ 0 <= e
  BY <1>3
<1>7. QED
  BY <1>4, <1>5, <1>6

\* Of numbers that are not NaN, the greater and the less.
LEMMA OfTwo ==
  ASSUME NEW a \in Doubles, NEW b \in Doubles
  PROVE  /\ StdMin(a, b) \in Doubles /\ StdMin(a, b) <= a /\ StdMin(a, b) <= b
         /\ StdMax(a, b) \in Doubles /\ a <= StdMax(a, b) /\ b <= StdMax(a, b)
BY Sizes DEF StdMin, StdMax, Lt, Doubles

\* The opposite of a double is one.
LEMMA NegatedIs ==
  ASSUME NEW a \in Doubles
  PROVE  Negated(a) = -a /\ Negated(a) \in Doubles
BY Sizes DEF Negated, Doubles

\* The roots of the bounds of a power, on the side of 0 on which the base is.
LEMMA RootBounds ==
  ASSUME NEW w \in Ordinary, NEW a \in Doubles, NEW b \in Doubles, NEW c \in Doubles, NEW d \in Doubles,
         0 <= a, 0 <= b, 0 <= c, 0 <= d, a <= Magnitude(w), Magnitude(w) <= d
  PROVE  /\ w <= 0 => StdMax(Negated(a), Negated(b)) \in Doubles /\ w <= StdMax(Negated(a), Negated(b))
         /\ StdMax(c, d) \in Doubles /\ w <= StdMax(c, d)
         /\ w >= 0 => StdMin(a, b) \in Doubles /\ StdMin(a, b) <= w
         /\ StdMin(Negated(c), Negated(d)) \in Doubles /\ StdMin(Negated(c), Negated(d)) <= w
         /\ Greatest(<<c, Negated(c), d, Negated(d)>>) \in Doubles /\ w <= Greatest(<<c, Negated(c), d, Negated(d)>>)
         /\ Least(<<c, Negated(c), d, Negated(d)>>) \in Doubles /\ Least(<<c, Negated(c), d, Negated(d)>>) <= w
<1>1. /\ a \in Int /\ b \in Int /\ c \in Int /\ d \in Int /\ w \in Int
  BY Sizes DEF Doubles, Ordinary
<1>2. a <= Magnitude(w) /\ (w >= 0 => a <= w) /\ (w <= 0 => w <= -a) /\ w <= d /\ -d <= w
  BY <1>1 DEF Magnitude
<1>3. /\ Negated(a) = -a /\ -a \in Doubles /\ Negated(b) = -b /\ -b \in Doubles
      /\ Negated(c) = -c /\ -c \in Doubles /\ Negated(d) = -d /\ -d \in Doubles
  BY NegatedIs
<1>4. w <= 0 => StdMax(-a, -b) \in Doubles /\ w <= StdMax(-a, -b)
  <2> DEFINE y == StdMax(-a, -b)
  <2>1. y \in Doubles /\ -a <= y
    BY <1>3, OfTwo
  <2>2. y \in Int
    BY <2>1, Sizes DEF Doubles
  <2> HIDE DEF y
  <2>3. w <= 0 => w <= y
    BY <1>1, <1>2, <2>1, <2>2
  <2>4. QED
    BY <2>1, <2>3 DEF y
<1>5. StdMax(c, d) \in Doubles /\ w <= StdMax(c, d)
  <2> DEFINE y == StdMax(c, d)
  <2>1. y \in Doubles /\ d <= y
    BY OfTwo
  <2>2. y \in Int
    BY <2>1, Sizes DEF Doubles
  <2> HIDE DEF y
  <2>3. w <= y
    BY <1>1, <1>2, <2>1, <2>2
  <2>4. QED
    BY <2>1, <2>3 DEF y
<1>6. w >= 0 => StdMin(a, b) \in Doubles /\ StdMin(a, b) <= w
  <2> DEFINE y == StdMin(a, b)
  <2>1. y \in Doubles /\ y <= a
    BY OfTwo
  <2>2. y \in Int
    BY <2>1, Sizes DEF Doubles
  <2> HIDE DEF y
  <2>3. w >= 0 => y <= w
    BY <1>1, <1>2, <2>1, <2>2
  <2>4. QED
    BY <2>1, <2>3 DEF y
<1>7. StdMin(-c, -d) \in Doubles /\ StdMin(-c, -d) <= w
  <2> DEFINE y == StdMin(-c, -d)
  <2>1. y \in Doubles /\ y <= -d
    BY <1>3, OfTwo
  <2>2. y \in Int
    BY <2>1, Sizes DEF Doubles
  <2> HIDE DEF y
  <2>3. y <= w
    BY <1>1, <1>2, <2>1, <2>2
  <2>4. QED
    BY <2>1, <2>3 DEF y
<1>8. Greatest(<<c, -c, d, -d>>) \in Doubles /\ Least(<<c, -c, d, -d>>) \in Doubles
  BY <1>3, Extremes
<1>9. w <= Greatest(<<c, -c, d, -d>>) /\ Least(<<c, -c, d, -d>>) <= w
  BY <1>1, <1>2, <1>3, AmongFour
<1>10. QED
  BY <1>3, <1>4, <1>5, <1>6, <1>7, <1>8, <1>9

\* A factor from the square, and the base from a power.
LEMMA DownSquareKeeps ==
  ASSUME NEW N, NEW v \in [N -> Ordinary], NEW s, Keeps(s, v, N), NEW id \in N, NEW l \in N, v[id] = v[l] * v[l]
  PROVE  Keeps(DownSquare(s, id, l), v, N)
<1> DEFINE e == s.interval[id].min
           f == s.interval[id].max
           x == s.interval[l]
           w == v[l]
           z == v[id]
           aT == Root(e, 2, TRUE)
           aF == Root(e, 2, FALSE)
           bT == Root(f, 2, TRUE)
           bF == Root(f, 2, FALSE)
           hi == IF x.max <= 0 THEN StdMax(Negated(aF), Negated(bF)) ELSE StdMax(aT, bT)
           lo == IF x.min >= 0 THEN StdMin(aF, bF) ELSE StdMin(Negated(aT), Negated(bT))
           p == [i \in 1 .. 2 |-> IF i = 1 THEN w ELSE w * w]
<1>1. DownSquare(s, id, l) = Lower(s, l, lo, hi)
  BY DEF DownSquare
<1>2. /\ e \in Doubles /\ f \in Doubles /\ e <= z /\ z <= f /\ w \in Ordinary /\ z \in Ordinary
      /\ x.min \in Int /\ x.max \in Int /\ x.min <= w /\ w <= x.max /\ w \in Int
  BY Bounds
<1>3. Powers(w, 2, p) /\ p[2] = z
  <2>1. p = [i \in 1 .. 2 |-> p[i]] /\ p[1] = w /\ p[2] = w * w
    OBVIOUS
  <2>2. z = w * w
    OBVIOUS
  <2>3. w * w \in Int
    BY <1>2
  <2> HIDE DEF w, z, p
  <2>4. \A i \in 1 .. 2 : i = 1 \/ (i = 2 /\ i - 1 = 1)
    OBVIOUS
  <2>5. QED
    BY <1>2, <2>1, <2>2, <2>3, <2>4 DEF Powers
<1> HIDE DEF p, w, z
<1>5. /\ hi = IF x.max <= 0 THEN StdMax(Negated(aF), Negated(bF)) ELSE StdMax(aT, bT)
      /\ lo = IF x.min >= 0 THEN StdMin(aF, bF) ELSE StdMin(Negated(aT), Negated(bT))
  OBVIOUS
<1>6. \/ aT = NaN /\ aF = NaN
      \/ /\ aT \in Doubles /\ bT \in Doubles /\ 0 <= aT /\ 0 <= bT
         /\ aF \in Doubles /\ bF \in Doubles /\ 0 <= aF /\ 0 <= bF
         /\ aF <= Magnitude(w) /\ Magnitude(w) <= bT
  <2> DEFINE n == 2
  <2>n. n \in Nat \ {0, 1} /\ Powers(w, n, p) /\ p[n] = z
    BY <1>3
  <2> HIDE DEF e, f, n
  <2>1. \/ Root(e, n, TRUE) = NaN /\ Root(e, n, FALSE) = NaN
        \/ /\ \A up \in BOOLEAN : /\ Root(e, n, up) \in Doubles /\ Root(f, n, up) \in Doubles
                                  /\ 0 <= Root(e, n, up) /\ 0 <= Root(f, n, up)
           /\ Root(e, n, FALSE) <= Magnitude(w) /\ Magnitude(w) <= Root(f, n, TRUE)
    BY <1>2, <2>n, RootsOfBounds
  <2> USE DEF n
  <2>2. QED
    BY <2>1
<1> HIDE DEF aT, aF, bT, bF, lo, hi, x
<1>7. CASE aT = NaN /\ aF = NaN
  <2>1. lo = NaN /\ hi = NaN
    BY <1>5, <1>7 DEF StdMin, StdMax, Lt, Negated
  <2>2. QED
    BY <1>1, <2>1, LowerKeeps
<1>8. CASE /\ aT \in Doubles /\ bT \in Doubles /\ 0 <= aT /\ 0 <= bT
           /\ aF \in Doubles /\ bF \in Doubles /\ 0 <= aF /\ 0 <= bF
           /\ aF <= Magnitude(w) /\ Magnitude(w) <= bT
  <2>1. /\ w <= 0 => StdMax(Negated(aF), Negated(bF)) \in Doubles /\ w <= StdMax(Negated(aF), Negated(bF))
        /\ StdMax(aT, bT) \in Doubles /\ w <= StdMax(aT, bT)
        /\ w >= 0 => StdMin(aF, bF) \in Doubles /\ StdMin(aF, bF) <= w
        /\ StdMin(Negated(aT), Negated(bT)) \in Doubles /\ StdMin(Negated(aT), Negated(bT)) <= w
    BY <1>2, <1>8, RootBounds
  <2>2. (x.max <= 0 => w <= 0) /\ (x.min >= 0 => w >= 0)
    BY <1>2 DEF x
  <2>3. hi \in Doubles /\ w <= hi
    BY <1>5, <2>1, <2>2
  <2>4. lo \in Doubles /\ lo <= w
    BY <1>5, <2>1, <2>2
  <2>5. QED
    BY <1>1, <2>3, <2>4, LowerKeeps DEF w
<1>9. QED
  BY <1>6, <1>7, <1>8

LEMMA DownConstPowerKeeps ==
  ASSUME NEW N, NEW v \in [N -> Ordinary], NEW s, Keeps(s, v, N), NEW id \in N, NEW l \in N,
         NEW n \in Nat \ {0, 1}, NEW p, Powers(v[l], n, p), v[id] = p[n]
  PROVE  Keeps(DownConstPower(s, id, l, n), v, N)
<1> DEFINE e == s.interval[id].min
           f == s.interval[id].max
           x == s.interval[l]
           w == v[l]
           z == v[id]
           aT == Root(e, n, TRUE)
           aF == Root(e, n, FALSE)
           bT == Root(f, n, TRUE)
           bF == Root(f, n, FALSE)
           hi == IF x.max <= 0 THEN StdMax(Negated(Magnitude(aF)), Negated(Magnitude(bF)))
                 ELSE Greatest(<<aT, Negated(aT), bT, Negated(bT)>>)
           lo == IF x.min >= 0 THEN StdMin(Magnitude(aF), Magnitude(bF))
                 ELSE Least(<<aT, Negated(aT), bT, Negated(bT)>>)
<1>1. DownConstPower(s, id, l, n) = IF f = Infinity \/ e = -Infinity THEN s ELSE Lower(s, l, lo, hi)
  BY DEF DownConstPower
<1>2. /\ e \in Doubles /\ f \in Doubles /\ e <= z /\ z <= f /\ w \in Ordinary /\ z \in Ordinary
      /\ x.min \in Int /\ x.max \in Int /\ x.min <= w /\ w <= x.max /\ w \in Int
  BY Bounds
<1>3. Powers(w, n, p) /\ p[n] = z
  OBVIOUS
<1> HIDE DEF w, z
<1>6. \/ aT = NaN /\ aF = NaN
      \/ /\ aT \in Doubles /\ bT \in Doubles /\ 0 <= aT /\ 0 <= bT
         /\ aF \in Doubles /\ bF \in Doubles /\ 0 <= aF /\ 0 <= bF
         /\ aF <= Magnitude(w) /\ Magnitude(w) <= bT
  <2> HIDE DEF e, f
  <2>1. \/ Root(e, n, TRUE) = NaN /\ Root(e, n, FALSE) = NaN
        \/ /\ \A up \in BOOLEAN : /\ Root(e, n, up) \in Doubles /\ Root(f, n, up) \in Doubles
                                  /\ 0 <= Root(e, n, up) /\ 0 <= Root(f, n, up)
           /\ Root(e, n, FALSE) <= Magnitude(w) /\ Magnitude(w) <= Root(f, n, TRUE)
    BY <1>2, <1>3, RootsOfBounds
  <2>2. QED
    BY <2>1
<1>5. /\ hi = IF x.max <= 0 THEN StdMax(Negated(Magnitude(aF)), Negated(Magnitude(bF)))
              ELSE Greatest(<<aT, Negated(aT), bT, Negated(bT)>>)
      /\ lo = IF x.min >= 0 THEN StdMin(Magnitude(aF), Magnitude(bF))
              ELSE Least(<<aT, Negated(aT), bT, Negated(bT)>>)
  OBVIOUS
<1> HIDE DEF aT, aF, bT, bF, lo, hi, x, e, f
<1>7. CASE aT = NaN /\ aF = NaN
  <2>1. Magnitude(NaN) = NaN
    BY Sizes DEF Magnitude
  <2>2. lo = NaN /\ hi = NaN
    BY <1>5, <1>7, <2>1 DEF StdMin, StdMax, Lt, Negated, Least, Greatest
  <2>3. Keeps(Lower(s, l, NaN, NaN), v, N)
    BY LowerKeeps
  <2>4. QED
    BY <1>1, <2>2, <2>3
<1>8. CASE /\ aT \in Doubles /\ bT \in Doubles /\ 0 <= aT /\ 0 <= bT
           /\ aF \in Doubles /\ bF \in Doubles /\ 0 <= aF /\ 0 <= bF
           /\ aF <= Magnitude(w) /\ Magnitude(w) <= bT
  <2>0. Magnitude(aF) = aF /\ Magnitude(bF) = bF
    <3>1. aF \in Int /\ bF \in Int
      BY <1>8, Sizes DEF Doubles
    <3>2. QED
      BY <1>8, <3>1 DEF Magnitude
  <2>1. /\ w <= 0 => StdMax(Negated(aF), Negated(bF)) \in Doubles /\ w <= StdMax(Negated(aF), Negated(bF))
        /\ w >= 0 => StdMin(aF, bF) \in Doubles /\ StdMin(aF, bF) <= w
        /\ Greatest(<<aT, Negated(aT), bT, Negated(bT)>>) \in Doubles
        /\ w <= Greatest(<<aT, Negated(aT), bT, Negated(bT)>>)
        /\ Least(<<aT, Negated(aT), bT, Negated(bT)>>) \in Doubles
        /\ Least(<<aT, Negated(aT), bT, Negated(bT)>>) <= w
    BY <1>2, <1>8, RootBounds
  <2>2. (x.max <= 0 => w <= 0) /\ (x.min >= 0 => w >= 0)
    BY <1>2
  <2>3. hi \in Doubles /\ w <= hi
    BY <1>5, <2>0, <2>1, <2>2
  <2>4. lo \in Doubles /\ lo <= w
    BY <1>5, <2>0, <2>1, <2>2
  <2>5. Keeps(Lower(s, l, lo, hi), v, N)
    BY <2>3, <2>4, LowerKeeps DEF w
  <2>6. QED
    BY <1>1, <2>5
<1>9. QED
  BY <1>6, <1>7, <1>8

-----------------------------------------------------------------------------
(* A visit *)

\* What was undefined before stays so, and the work list holds nodes.
Grows(N, s, t) == Shaped(t) /\ IsQueue(t.changed, N) /\ (s.undefined => t.undefined)

\* For every kind of visit.
LEMMA UpdateGrows ==
  ASSUME NEW N, ParentsIn(N), NEW s, NEW d, Grows(N, s, d), NEW t \in N, NEW lo, NEW hi
  PROVE  Grows(N, s, Lower(d, t, lo, hi)) /\ Grows(N, s, Raise(d, t, lo, hi))
<1>1. ASSUME NEW told, IsQueue(told, N) PROVE Grows(N, s, UpdateInterval(d, t, lo, hi, told))
  <2> DEFINE u == UpdateInterval(d, t, lo, hi, told)
  <2>1. Shaped(u) /\ u.undefined = d.undefined
    BY UpdateShaped DEF Grows
  <2>2. IsQueue(u.changed, N)
    <3>1. Shaped(d) /\ IsQueue(d.changed, N) /\ IsQueue(Enqueued(d.changed, told), N)
      BY <1>1, EnqueuedIn DEF Grows, IsQueue
    <3>2. u.changed = d.changed \/ u.changed = Enqueued(d.changed, told)
      <4> DEFINE q == Enqueued(d.changed, told)
      <4> HIDE DEF q
      <4>1. QED
        BY <3>1 DEF UpdateInterval, Shaped, q
    <3>3. QED
      BY <3>1, <3>2
  <2> HIDE DEF u
  <2>3. QED
    BY <2>1, <2>2 DEF Grows, u
<1> DEFINE one == <<t>>
           all == Append(parents[t], t)
<1>2. IsQueue(one, N) /\ IsQueue(all, N)
  BY DEF ParentsIn, IsQueue
<1>3. Lower(d, t, lo, hi) = UpdateInterval(d, t, lo, hi, one) /\ Raise(d, t, lo, hi) = UpdateInterval(d, t, lo, hi, all)
  BY DEF Lower, Raise
<1> HIDE DEF one, all
<1>4. QED
  BY <1>1, <1>2, <1>3

LEMMA DefinedGrows ==
  ASSUME NEW N, NEW s, NEW d, Grows(N, s, d), NEW values
  PROVE  Grows(N, s, Defined(d, values))
<1> DEFINE yes == d.undefined \/ NaN \in ToSet(values)
<1>1. Shaped(Defined(d, values))
  BY DefinedShaped DEF Grows
<1>2. Defined(d, values) = [interval |-> d.interval, changed |-> d.changed, undefined |-> yes, empty |-> d.empty]
  BY DefinedShaped DEF Grows
<1>3. d.undefined => yes
  OBVIOUS
<1> HIDE DEF yes
<1>4. QED
  BY <1>1, <1>2, <1>3 DEF Grows

\* Every visit that lowers or raises once or twice.
LEMMA SimpleGrows ==
  ASSUME NEW N, ParentsIn(N), NEW s, NEW d, Grows(N, s, d), NEW id \in N, NEW l \in N, NEW r \in N
  PROVE  /\ Grows(N, s, DownAnd(d, id, l, r))
         /\ Grows(N, s, DownConstraintUtility(d, id, l, r))
         /\ Grows(N, s, DownMin(d, id, l, r))
         /\ Grows(N, s, UpAnd(d, id, l, r))
         /\ Grows(N, s, UpConstraintUtility(d, id, l, r))
         /\ Grows(N, s, UpLTConstraint(d, id, l, r))
         /\ Grows(N, s, UpLTEConstraint(d, id, l, r))
         /\ Grows(N, s, UpHull(d, id, l, r))
<1>2. ASSUME NEW e, Grows(N, s, e), NEW t \in N, NEW lo, NEW hi
      PROVE  Grows(N, s, Lower(e, t, lo, hi)) /\ Grows(N, s, Raise(e, t, lo, hi))
  BY <1>2, UpdateGrows
<1>3. Grows(N, s, DownMin(d, id, l, r))
  BY <1>2 DEF DownMin
<1>4. Grows(N, s, DownAnd(d, id, l, r)) /\ Grows(N, s, DownConstraintUtility(d, id, l, r))
  BY <1>2 DEF DownAnd, DownConstraintUtility
<1>5. Grows(N, s, UpAnd(d, id, l, r)) /\ Grows(N, s, UpConstraintUtility(d, id, l, r))
  BY <1>2 DEF UpAnd, UpConstraintUtility
<1>6. /\ Grows(N, s, UpLTConstraint(d, id, l, r))
      /\ Grows(N, s, UpLTEConstraint(d, id, l, r))
      /\ Grows(N, s, UpHull(d, id, l, r))
  BY <1>2 DEF UpLTConstraint, UpLTEConstraint, UpHull
<1>7. QED
  BY <1>3, <1>4, <1>5, <1>6

LEMMA AbsGrows ==
  ASSUME NEW N, ParentsIn(N), NEW s, NEW d, Grows(N, s, d), NEW id \in N, NEW l \in N
  PROVE  Grows(N, s, DownAbs(d, id, l)) /\ Grows(N, s, UpAbs(d, id, l))
BY UpdateGrows DEF DownAbs, UpAbs

LEMMA PowerGrows ==
  ASSUME NEW N, ParentsIn(N), NEW s, NEW d, Grows(N, s, d), NEW id \in N, NEW l \in N, NEW n
  PROVE  Grows(N, s, DownConstPower(d, id, l, n)) /\ Grows(N, s, UpConstPower(d, id, l, n))
<1>1. \A lo, hi : Grows(N, s, Lower(d, l, lo, hi)) /\ Grows(N, s, Raise(d, id, lo, hi))
  BY UpdateGrows
<1>2. \E lo, hi : DownConstPower(d, id, l, n) = d \/ DownConstPower(d, id, l, n) = Lower(d, l, lo, hi)
  BY DEF DownConstPower
<1>3. \E lo, hi : UpConstPower(d, id, l, n) = Raise(d, id, lo, hi)
  BY DEF UpConstPower
<1>4. QED
  BY <1>1, <1>2, <1>3

LEMMA TwiceGrows ==
  ASSUME NEW N, ParentsIn(N), NEW s, NEW d, Grows(N, s, d), NEW id \in N, NEW l \in N, NEW r \in N
  PROVE  Grows(N, s, DownComparison(d, id, l, r)) /\ Grows(N, s, DownMax(d, id, l, r))
<1>1. ASSUME NEW e, Grows(N, s, e), NEW t \in N, NEW lo, NEW hi PROVE Grows(N, s, Lower(e, t, lo, hi))
  BY <1>1, UpdateGrows
<1>2. Grows(N, s, DownComparison(d, id, l, r))
  <2> DEFINE A(t, x, y) == Lower(Lower(t, y, t.interval[x].min, Infinity), x, -Infinity, t.interval[y].max)
             B(t, x, y) == Lower(Lower(t, y, -Infinity, t.interval[x].max), x, t.interval[y].min, Infinity)
  <2>1. Grows(N, s, A(d, l, r)) /\ Grows(N, s, B(d, l, r))
    BY <1>1
  <2>2. DownComparison(d, id, l, r) = IF d.interval[id].min > 0 THEN A(d, l, r)
                                      ELSE IF d.interval[id].max <= 0 THEN B(d, l, r) ELSE d
    BY DEF DownComparison
  <2> HIDE DEF A, B
  <2>3. QED
    BY <2>1, <2>2
<1>3. Grows(N, s, DownMax(d, id, l, r))
  <2> DEFINE R(t) == IF t.interval[l].max <= 0 THEN Lower(t, r, 1, 1) ELSE t
             L(t) == IF t.interval[r].max <= 0 THEN Lower(t, l, 1, 1) ELSE t
  <2>1. \A t : Grows(N, s, t) => Grows(N, s, R(t)) /\ Grows(N, s, L(t))
    BY <1>1
  <2>2. DownMax(d, id, l, r) = IF d.interval[id].min > 0 THEN L(R(d)) ELSE d
    BY DEF DownMax
  <2> HIDE DEF L, R
  <2>3. QED
    BY <2>1, <2>2
<1>4. QED
  BY <1>2, <1>3

LEMMA ProductGrows ==
  ASSUME NEW N, ParentsIn(N), NEW s, NEW d, Grows(N, s, d), NEW id \in N, NEW l \in N, NEW r \in N
  PROVE  Grows(N, s, DownProduct(d, id, l, r)) /\ Grows(N, s, UpProduct(d, id, l, r))
<1>1. ASSUME NEW e, Grows(N, s, e), NEW t \in N, NEW lo, NEW hi
      PROVE  Grows(N, s, Lower(e, t, lo, hi)) /\ Grows(N, s, Raise(e, t, lo, hi))
  BY <1>1, UpdateGrows
<1>2. ASSUME NEW e, Grows(N, s, e), NEW values PROVE Grows(N, s, Defined(e, values))
  BY <1>2, DefinedGrows
<1>3. ASSUME NEW e, Grows(N, s, e), NEW p, NEW x \in N, NEW y PROVE Grows(N, s, DividedBy(e, p, x, y))
  <2> DEFINE q == e.interval[y]
             lo == Least(Ratios(p, q, FALSE))
             hi == Greatest(Ratios(p, q, TRUE))
             f == Defined(e, Ratios(p, q, FALSE))
  <2>1. DividedBy(e, p, x, y) = IF e.empty \/ ~Lt(0, SignProduct(q)) THEN e ELSE Lower(f, x, lo, hi)
    BY DEF DividedBy, Pairs, Ratios
  <2>2. Grows(N, s, f)
    BY <1>2, <1>3
  <2> HIDE DEF f, lo, hi, q
  <2>3. Grows(N, s, Lower(f, x, lo, hi))
    BY <1>1, <2>2
  <2>4. QED
    BY <1>3, <2>1, <2>3
<1>4. Grows(N, s, DownSquare(d, id, l))
  <2> DEFINE p == d.interval[id]
             x == d.interval[l]
             a(up) == Root(p.min, 2, up)
             b(up) == Root(p.max, 2, up)
             hi == IF x.max <= 0 THEN StdMax(Negated(a(FALSE)), Negated(b(FALSE))) ELSE StdMax(a(TRUE), b(TRUE))
             lo == IF x.min >= 0 THEN StdMin(a(FALSE), b(FALSE)) ELSE StdMin(Negated(a(TRUE)), Negated(b(TRUE)))
  <2>1. DownSquare(d, id, l) = Lower(d, l, lo, hi)
    BY DEF DownSquare
  <2> HIDE DEF lo, hi
  <2>2. QED
    BY <1>1, <2>1
<1>5. Grows(N, s, DownProduct(d, id, l, r))
  BY <1>3, <1>4 DEF DownProduct
<1>6. Grows(N, s, UpProduct(d, id, l, r))
  BY <1>1, <1>2 DEF UpProduct
<1>7. QED
  BY <1>5, <1>6

LEMMA SumGrows ==
  ASSUME NEW N, ParentsIn(N), NEW s, NEW d, Grows(N, s, d), NEW id \in N, NEW ids \in Seq(N), RoundsAssumption
  PROVE  Grows(N, s, DownSum(d, id, ids)) /\ Grows(N, s, UpSum(d, id, ids))
<1>1. ASSUME NEW e, Grows(N, s, e), NEW t \in N, NEW lo, NEW hi
      PROVE  Grows(N, s, Lower(e, t, lo, hi)) /\ Grows(N, s, Raise(e, t, lo, hi))
  BY <1>1, UpdateGrows
<1>len. Len(ids) \in Nat
  OBVIOUS
<1>n. Len(ids) \in Nat /\ \A i \in 1 .. Len(ids) : ids[i] \in N
  OBVIOUS
<1>2. ASSUME NEW e, Grows(N, s, e), NEW i \in 1 .. Len(ids) PROVE Grows(N, s, Summand(e, id, ids, i))
  BY <1>1, <1>2, <1>n DEF Summand
<1>3. ASSUME NEW e, Grows(N, s, e) PROVE Grows(N, s, DownSummands(e, id, ids))
  <2>0. PICK h : SummandsRun(h, e, id, ids)
    BY <1>len, SummandsRunExists
  <2>1. /\ h[0] = e
        /\ \A n \in 1 .. Len(ids) : h[n] = Summand(h[n - 1], id, ids, n)
        /\ DownSummands(e, id, ids) = h[Len(ids)]
    BY <2>0, Zenon DEF SummandsRun
  <2> DEFINE All == {n \in Nat : n <= Len(ids) => Grows(N, s, h[n])}
  <2>2. 0 \in All
    BY <1>3, <2>1
  <2>3. ASSUME NEW n \in Nat, n \in All PROVE n + 1 \in All
    <3>1. CASE n + 1 <= Len(ids)
      <4>1. n + 1 \in 1 .. Len(ids) /\ (n + 1) - 1 = n /\ Grows(N, s, h[n])
        BY <1>n, <2>3, <3>1
      <4>2. h[n + 1] = Summand(h[n], id, ids, n + 1)
        BY <2>1, <4>1
      <4>3. QED
        BY <1>2, <4>1, <4>2
    <3>2. CASE ~(n + 1 <= Len(ids))
      BY <3>2
    <3>3. QED
      BY <3>1, <3>2
  <2>4. Nat \subseteq All
    <3> HIDE DEF All
    <3> QED BY <2>2, <2>3, BySummand!SetInduction
  <2>5. QED
    BY <1>n, <2>1, <2>4
<1>4. Grows(N, s, DownSum(d, id, ids))
  <2>1. PICK h, n : /\ h[0] = d
                    /\ \A m \in 1 .. MaxRounds : h[m] = DownSummands(h[m - 1], id, ids)
                    /\ n \in 1 .. MaxRounds
                    /\ DownSum(d, id, ids) = h[n]
    BY DownSumRun
  <2>n. MaxRounds \in Nat
    BY DEF RoundsAssumption
  <2> DEFINE All == {m \in Nat : m <= MaxRounds => Grows(N, s, h[m])}
  <2>2. 0 \in All
    BY <2>1
  <2>3. ASSUME NEW m \in Nat, m \in All PROVE m + 1 \in All
    <3>1. CASE m + 1 <= MaxRounds
      <4>1. m + 1 \in 1 .. MaxRounds /\ (m + 1) - 1 = m /\ Grows(N, s, h[m])
        BY <2>n, <2>3, <3>1
      <4>2. h[m + 1] = DownSummands(h[m], id, ids)
        BY <2>1, <4>1
      <4>3. QED
        BY <1>3, <4>1, <4>2
    <3>2. CASE ~(m + 1 <= MaxRounds)
      BY <3>2
    <3>3. QED
      BY <3>1, <3>2
  <2>4. Nat \subseteq All
    <3> HIDE DEF All
    <3> QED BY <2>2, <2>3, BySummand!SetInduction
  <2>5. QED
    BY <2>1, <2>4, <2>n
<1>5. Grows(N, s, UpSum(d, id, ids))
  BY <1>1 DEF UpSum
<1>6. QED
  BY <1>4, <1>5

-----------------------------------------------------------------------------
(* A node of any class *)

Ids(id) == [i \in DOMAIN heap[id].operands |-> heap[id].operands[i].k]
Pairwise == {"And", "ConstraintUtility", "LTConstraint", "LTEConstraint", "Max", "Min", "Product"}
Single == {"Abs", "ConstPower"}
Leaves == {"Constant", "Zero", "Variable", "Reification"}

\* The operands that a visit to a node of N looks at are in N, as many as the class takes, and an
\* exponent is 2 or more.
TermsOf(N) ==
  \A id \in N :
    /\ heap[id].class \in Pairwise \cup Single \cup Leaves \cup {"Sum"} \cup Unpropagated
    /\ heap[id].class \in Pairwise \cup Single \cup {"Sum"} => Ids(id) \in Seq(N)
    /\ heap[id].class \in Pairwise => Len(Ids(id)) = 2
    /\ heap[id].class \in Single => Len(Ids(id)) = 1
    /\ heap[id].class = "ConstPower" => heap[id].k \in Nat \ {0, 1}

\* v gives node id the value that follows from its operands, as Rule in Terms has it. A constraint
\* is worth at most 1, and a utility at least that, which is where its interval starts.
Means(v, id) ==
  LET n == heap[id]
      l == v[Ids(id)[1]]
      r == v[Ids(id)[2]]
      Missing(a) == IF a > 0 THEN 0 ELSE a
  IN /\ n.class = "Abs" => v[id] = Magnitude(l)
     /\ n.class \in {"And", "Max", "ConstraintUtility"} => l <= 1
     /\ n.class \in {"And", "Max"} => r <= 1
     /\ n.class = "And" => v[id] = IF l > 0 /\ r > 0 THEN 1 ELSE Missing(l) + Missing(r)
     /\ n.class = "Max" => v[id] = IF l > r THEN l ELSE r
     /\ n.class = "Min" => v[id] = IF l < r THEN l ELSE r
     /\ n.class \in {"LTConstraint", "LTEConstraint"} => n.k \in Nat
     /\ n.class = "LTConstraint" => v[id] = IF l < r THEN 1 ELSE n.k * (r - l)
     /\ n.class = "LTEConstraint" => v[id] = IF l <= r THEN 1 ELSE n.k * (r - l)
     /\ n.class = "ConstraintUtility" => v[id] >= 1 /\ v[id] = IF l > 0 THEN r ELSE l
     /\ n.class = "Product" => v[id] = l * r
     /\ n.class = "ConstPower" => \E p : Powers(l, n.k, p) /\ v[id] = p[n.k]
     /\ n.class = "Sum" => \E total, weight : Counts(v, Ids(id), total, weight) /\ v[id] = total[Len(Ids(id))]

\* The operands of a node are nodes.
LEMMA Arity ==
  ASSUME NEW N, TermsOf(N), NEW id \in N
  PROVE  /\ heap[id].class = "Sum" => Ids(id) \in Seq(N)
         /\ heap[id].class \in Pairwise => Ids(id)[1] \in N /\ Ids(id)[2] \in N
         /\ heap[id].class \in Single => Ids(id)[1] \in N
<1>1. /\ heap[id].class \in Pairwise \cup Single \cup {"Sum"} => Ids(id) \in Seq(N)
      /\ heap[id].class \in Pairwise => Len(Ids(id)) = 2
      /\ heap[id].class \in Single => Len(Ids(id)) = 1
  BY DEF TermsOf
<1> DEFINE ids == Ids(id)
<1> HIDE DEF ids
<1>2. ids \in Seq(N) => Len(ids) \in Nat /\ \A i \in 1 .. Len(ids) : ids[i] \in N
  OBVIOUS
<1>3. QED
  BY <1>1, <1>2 DEF ids

\* A slope that is not negative, downhill.
LEMMA Falls ==
  ASSUME NEW k \in Nat, NEW d \in Int, d <= 0
  PROVE  k * d <= 0 /\ k * d \in Int
BY SMT

\* What the comparisons, the connectives and the utility say of the operands.
LEMMA MeaningOfPairs ==
  ASSUME NEW N, NEW v \in [N -> Ordinary], TermsOf(N), NEW id \in N, Means(v, id), heap[id].class \in Pairwise
  PROVE  LET l == v[Ids(id)[1]]
             r == v[Ids(id)[2]]
             class == heap[id].class
         IN /\ class = "And" => /\ (v[id] > 0 => l = 1 /\ r = 1)
                                /\ (l > 0 /\ r > 0 => v[id] = 1) /\ (l <= 0 \/ r <= 0 => v[id] <= 0)
            /\ class \in {"LTConstraint", "LTEConstraint"} =>
                 (v[id] > 0 => l <= r) /\ (v[id] <= 0 => r <= l)
            /\ class = "LTConstraint" => (l < r => v[id] = 1) /\ (l >= r => v[id] <= 0)
            /\ class = "LTEConstraint" => (l <= r => v[id] = 1) /\ (l > r => v[id] <= 0)
            /\ class = "Max" => l <= 1 /\ r <= 1 /\ (v[id] > 0 => l > 0 \/ r > 0)
            /\ class \in {"Max", "Min"} => v[id] = l \/ v[id] = r
            /\ class = "Min" => v[id] <= l /\ v[id] <= r
            /\ class = "ConstraintUtility" => l = 1 /\ v[id] = r /\ v[id] >= 1
<1> DEFINE l == v[Ids(id)[1]]
           r == v[Ids(id)[2]]
           class == heap[id].class
           k == heap[id].k
           w == v[id]
<1>1. l \in Int /\ r \in Int /\ w \in Int
  BY Arity, Sizes DEF Ordinary
<1>2. /\ class \in {"And", "Max", "ConstraintUtility"} => l <= 1
      /\ class \in {"And", "Max"} => r <= 1
      /\ class = "And" => w = IF l > 0 /\ r > 0 THEN 1 ELSE (IF l > 0 THEN 0 ELSE l) + (IF r > 0 THEN 0 ELSE r)
      /\ class = "Max" => w = IF l > r THEN l ELSE r
      /\ class = "Min" => w = IF l < r THEN l ELSE r
      /\ class \in {"LTConstraint", "LTEConstraint"} => k \in Nat
      /\ class = "LTConstraint" => w = IF l < r THEN 1 ELSE k * (r - l)
      /\ class = "LTEConstraint" => w = IF l <= r THEN 1 ELSE k * (r - l)
      /\ class = "ConstraintUtility" => w >= 1 /\ w = IF l > 0 THEN r ELSE l
  BY DEF Means
<1> HIDE DEF l, r, class, k, w
<1>3. class = "And" => /\ (w > 0 => l = 1 /\ r = 1)
                       /\ (l > 0 /\ r > 0 => w = 1) /\ (l <= 0 \/ r <= 0 => w <= 0)
  BY <1>1, <1>2
<1>4. class \in {"LTConstraint", "LTEConstraint"} /\ r <= l => k * (r - l) <= 0 /\ k * (r - l) \in Int
  <2>1. r <= l => r - l \in Int /\ r - l <= 0
    BY <1>1
  <2> DEFINE d == r - l
  <2> HIDE DEF d
  <2>2. QED
    BY <1>2, <2>1, Falls DEF d
<1>5. class \in {"LTConstraint", "LTEConstraint"} =>
        /\ (w > 0 => l <= r) /\ (w <= 0 => r <= l)
        /\ class = "LTConstraint" => (l < r => w = 1) /\ (l >= r => w <= 0)
        /\ class = "LTEConstraint" => (l <= r => w = 1) /\ (l > r => w <= 0)
  <2> DEFINE d == k * (r - l)
  <2>1. class \in {"LTConstraint", "LTEConstraint"} /\ r <= l => d <= 0 /\ d \in Int
    BY <1>4
  <2>2. /\ class = "LTConstraint" => w = IF l < r THEN 1 ELSE d
        /\ class = "LTEConstraint" => w = IF l <= r THEN 1 ELSE d
    BY <1>2
  <2> HIDE DEF d
  <2>3. QED
    BY <1>1, <2>1, <2>2
<1>6. /\ class = "Max" => l <= 1 /\ r <= 1 /\ (w > 0 => l > 0 \/ r > 0)
      /\ class \in {"Max", "Min"} => w = l \/ w = r
      /\ class = "Min" => w <= l /\ w <= r
      /\ class = "ConstraintUtility" => l = 1 /\ w = r /\ w >= 1
  BY <1>1, <1>2
<1>7. QED
  BY <1>3, <1>5, <1>6 DEF l, r, class, w

\* The visit from above leaves every value in its interval, unless something is undefined.
LEMMA DownKeeps ==
  ASSUME NEW N, NEW v \in [N -> Ordinary], TermsOf(N), NEW id \in N, Means(v, id),
         heap[id].class \notin Unpropagated, NEW s, Keeps(s, v, N), RoundsAssumption, ~Down(s, id).undefined
  PROVE  Keeps(Down(s, id), v, N)
<1> DEFINE ids == Ids(id)
           l == ids[1]
           r == ids[2]
           class == heap[id].class
           n == heap[id].k
<1>1. /\ class \in (Pairwise \cup Single \cup Leaves \cup {"Sum"})
      /\ class = "Sum" => ids \in Seq(N)
      /\ class \in Pairwise => l \in N /\ r \in N
      /\ class \in Single => l \in N
      /\ class = "ConstPower" => n \in Nat \ {0, 1}
  BY Arity DEF TermsOf, Unpropagated
<1>2. /\ class = "Abs" => Down(s, id) = DownAbs(s, id, l)
      /\ class = "ConstPower" => Down(s, id) = DownConstPower(s, id, l, n)
      /\ class = "And" => Down(s, id) = DownAnd(s, id, l, r)
      /\ class = "ConstraintUtility" => Down(s, id) = DownConstraintUtility(s, id, l, r)
      /\ class \in {"LTConstraint", "LTEConstraint"} => Down(s, id) = DownComparison(s, id, l, r)
      /\ class = "Max" => Down(s, id) = DownMax(s, id, l, r)
      /\ class = "Min" => Down(s, id) = DownMin(s, id, l, r)
      /\ class = "Product" => Down(s, id) = DownProduct(s, id, l, r)
      /\ class = "Sum" => Down(s, id) = DownSum(s, id, ids)
      /\ class \in Leaves => Down(s, id) = s
  BY Zenon DEF Down, Ids, Leaves
<1>3. class \in Pairwise =>
        /\ class = "And" => (v[id] > 0 => v[l] = 1 /\ v[r] = 1)
        /\ class \in {"LTConstraint", "LTEConstraint"} =>
             (v[id] > 0 => v[l] <= v[r]) /\ (v[id] <= 0 => v[r] <= v[l])
        /\ class = "Max" => v[l] <= 1 /\ v[r] <= 1 /\ (v[id] > 0 => v[l] > 0 \/ v[r] > 0)
        /\ class = "Min" => v[id] <= v[l] /\ v[id] <= v[r]
        /\ class = "ConstraintUtility" => v[l] = 1 /\ v[id] = v[r] /\ v[id] >= 1
  BY MeaningOfPairs
<1>4. /\ class = "Abs" => v[id] = Magnitude(v[l])
      /\ class = "Product" => v[id] = v[l] * v[r]
      /\ class = "ConstPower" => \E p : Powers(v[l], n, p) /\ v[id] = p[n]
      /\ class = "Sum" => \E total, weight : Counts(v, ids, total, weight) /\ v[id] = total[Len(ids)]
  BY DEF Means
<1> HIDE DEF ids, l, r, class, n
<1>5. CASE class = "Abs"
  <2>1. class \in Single
    BY <1>5 DEF Single
  <2>2. QED
    BY <1>1, <1>2, <1>4, <1>5, <2>1, DownAbsKeeps
<1>6. CASE class = "And"
  <2>1. class \in Pairwise
    BY <1>6 DEF Pairwise
  <2>2. QED
    BY <1>1, <1>2, <1>3, <1>6, <2>1, DownAndKeeps
<1>7. CASE class = "ConstraintUtility"
  <2>1. class \in Pairwise
    BY <1>7 DEF Pairwise
  <2>2. QED
    BY <1>1, <1>2, <1>3, <1>7, <2>1, DownConstraintUtilityKeeps
<1>8. CASE class \in {"LTConstraint", "LTEConstraint"}
  <2>1. class \in Pairwise
    BY <1>8 DEF Pairwise
  <2>2. QED
    BY <1>1, <1>2, <1>3, <1>8, <2>1, DownComparisonKeeps
<1>9. CASE class = "Max"
  <2>1. class \in Pairwise
    BY <1>9 DEF Pairwise
  <2>2. QED
    BY <1>1, <1>2, <1>3, <1>9, <2>1, DownMaxKeeps
<1>10. CASE class = "Min"
  <2>1. class \in Pairwise
    BY <1>10 DEF Pairwise
  <2>2. QED
    BY <1>1, <1>2, <1>3, <1>10, <2>1, DownMinKeeps
<1>11. CASE class = "Product"
  <2>1. class \in Pairwise
    BY <1>11 DEF Pairwise
  <2>2. CASE l # r
    BY <1>1, <1>2, <1>4, <1>11, <2>1, <2>2, DownProductKeeps
  <2>3. CASE l = r
    <3>1. Down(s, id) = DownSquare(s, id, l)
      BY <1>2, <1>11, <2>3 DEF DownProduct
    <3>2. l \in N /\ v[id] = v[l] * v[l]
      BY <1>1, <1>4, <1>11, <2>1, <2>3
    <3>3. QED
      BY <3>1, <3>2, DownSquareKeeps
  <2>4. QED
    BY <2>2, <2>3
<1>12. CASE class = "Sum"
  <2>1. PICK total, weight : Counts(v, ids, total, weight) /\ v[id] = total[Len(ids)]
    BY <1>4, <1>12
  <2>2. Keeps(DownSum(s, id, ids), v, N)
    BY <1>1, <1>12, <2>1, DownSumKeeps
  <2>3. QED
    BY <1>2, <1>12, <2>2
<1>13. CASE class = "ConstPower"
  <2>1. class \in Single
    BY <1>13 DEF Single
  <2>2. PICK p : Powers(v[l], n, p) /\ v[id] = p[n]
    BY <1>4, <1>13
  <2>3. Keeps(DownConstPower(s, id, l, n), v, N)
    BY <1>1, <1>13, <2>1, <2>2, DownConstPowerKeeps
  <2>4. QED
    BY <1>2, <1>13, <2>3
<1>14. CASE class \in Leaves
  BY <1>2, <1>14
<1>15. QED
  BY <1>1, <1>5, <1>6, <1>7, <1>8, <1>9, <1>10, <1>11, <1>12, <1>13, <1>14 DEF Pairwise, Single

\* And so does the visit from below.
LEMMA UpKeeps ==
  ASSUME NEW N, NEW v \in [N -> Ordinary], TermsOf(N), ParentsIn(N), NEW id \in N, Means(v, id),
         heap[id].class \notin Unpropagated, NEW s, Keeps(s, v, N), ~Up(s, id).undefined
  PROVE  Keeps(Up(s, id), v, N)
<1> DEFINE ids == Ids(id)
           l == ids[1]
           r == ids[2]
           class == heap[id].class
           n == heap[id].k
<1>0. ~s.empty
  BY DEF Keeps
<1>1. /\ class \in (Pairwise \cup Single \cup Leaves \cup {"Sum"})
      /\ class = "Sum" => ids \in Seq(N)
      /\ class \in Pairwise => l \in N /\ r \in N
      /\ class \in Single => l \in N
      /\ class = "ConstPower" => n \in Nat \ {0, 1}
  BY Arity DEF TermsOf, Unpropagated
<1>2. /\ class = "Abs" => Up(s, id) = UpAbs(s, id, l)
      /\ class = "ConstPower" => Up(s, id) = UpConstPower(s, id, l, n)
      /\ class = "And" => Up(s, id) = UpAnd(s, id, l, r)
      /\ class = "ConstraintUtility" => Up(s, id) = UpConstraintUtility(s, id, l, r)
      /\ class = "LTConstraint" => Up(s, id) = UpLTConstraint(s, id, l, r)
      /\ class = "LTEConstraint" => Up(s, id) = UpLTEConstraint(s, id, l, r)
      /\ class \in {"Max", "Min"} => Up(s, id) = UpHull(s, id, l, r)
      /\ class = "Product" => Up(s, id) = UpProduct(s, id, l, r)
      /\ class = "Sum" => Up(s, id) = UpSum(s, id, ids)
      /\ class \in Leaves => Up(s, id) = s
  BY <1>0, Zenon DEF Up, Ids, Leaves
<1>3. class \in Pairwise =>
        /\ class = "And" => (v[l] > 0 /\ v[r] > 0 => v[id] = 1) /\ (v[l] <= 0 \/ v[r] <= 0 => v[id] <= 0)
        /\ class = "LTConstraint" => (v[l] < v[r] => v[id] = 1) /\ (v[l] >= v[r] => v[id] <= 0)
        /\ class = "LTEConstraint" => (v[l] <= v[r] => v[id] = 1) /\ (v[l] > v[r] => v[id] <= 0)
        /\ class \in {"Max", "Min"} => v[id] = v[l] \/ v[id] = v[r]
        /\ class = "ConstraintUtility" => v[l] = 1 /\ v[id] = v[r]
  BY MeaningOfPairs
<1>4. /\ class = "Abs" => v[id] = Magnitude(v[l])
      /\ class = "Product" => v[id] = v[l] * v[r]
      /\ class = "ConstPower" => \E p : Powers(v[l], n, p) /\ v[id] = p[n]
      /\ class = "Sum" => \E total, weight : Counts(v, ids, total, weight) /\ v[id] = total[Len(ids)]
  BY DEF Means
<1> HIDE DEF ids, l, r, class, n
<1>5. CASE class = "Abs"
  <2>1. class \in Single
    BY <1>5 DEF Single
  <2>2. QED
    BY <1>1, <1>2, <1>4, <1>5, <2>1, UpAbsKeeps
<1>6. CASE class = "And"
  <2>1. class \in Pairwise
    BY <1>6 DEF Pairwise
  <2>2. QED
    BY <1>1, <1>2, <1>3, <1>6, <2>1, UpAndKeeps
<1>7. CASE class = "ConstraintUtility"
  <2>1. class \in Pairwise
    BY <1>7 DEF Pairwise
  <2>2. QED
    BY <1>1, <1>2, <1>3, <1>7, <2>1, UpConstraintUtilityKeeps
<1>8. CASE class \in {"LTConstraint", "LTEConstraint"}
  <2>1. class \in Pairwise
    BY <1>8 DEF Pairwise
  <2>2. QED
    BY <1>1, <1>2, <1>3, <1>8, <2>1, UpComparisonKeeps
<1>9. CASE class \in {"Max", "Min"}
  <2>1. class \in Pairwise
    BY <1>9 DEF Pairwise
  <2>2. QED
    BY <1>1, <1>2, <1>3, <1>9, <2>1, UpHullKeeps
<1>10. CASE class = "Product"
  <2>1. class \in Pairwise
    BY <1>10 DEF Pairwise
  <2>2. QED
    BY <1>1, <1>2, <1>4, <1>10, <2>1, UpProductKeeps
<1>11. CASE class = "Sum"
  <2>1. PICK total, weight : Counts(v, ids, total, weight) /\ v[id] = total[Len(ids)]
    BY <1>4, <1>11
  <2>2. Keeps(UpSum(s, id, ids), v, N)
    BY <1>1, <1>11, <2>1, UpSumKeeps
  <2>3. QED
    BY <1>2, <1>11, <2>2
<1>12. CASE class = "ConstPower"
  <2>1. class \in Single
    BY <1>12 DEF Single
  <2>2. PICK p : Powers(v[l], n, p) /\ v[id] = p[n]
    BY <1>4, <1>12
  <2>3. Keeps(UpConstPower(s, id, l, n), v, N)
    BY <1>1, <1>12, <2>1, <2>2, UpConstPowerKeeps
  <2>4. QED
    BY <1>2, <1>12, <2>3
<1>13. CASE class \in Leaves
  BY <1>2, <1>13
<1>14. QED
  BY <1>1, <1>5, <1>6, <1>7, <1>8, <1>9, <1>10, <1>11, <1>12, <1>13 DEF Pairwise, Single

\* Nothing undefined is forgotten in a visit.
LEMMA VisitGrows ==
  ASSUME NEW N, TermsOf(N), ParentsIn(N), NEW id \in N, heap[id].class \notin Unpropagated,
         NEW s, NEW d, Grows(N, s, d), RoundsAssumption
  PROVE  Grows(N, s, Down(d, id)) /\ Grows(N, s, Up(d, id))
<1> DEFINE ids == Ids(id)
           l == ids[1]
           r == ids[2]
           class == heap[id].class
           n == heap[id].k
<1>1. class \in (Pairwise \cup Single \cup Leaves \cup {"Sum"})
  BY DEF TermsOf, Unpropagated
<1>2. /\ class = "Abs" => Down(d, id) = DownAbs(d, id, l)
      /\ class = "ConstPower" => Down(d, id) = DownConstPower(d, id, l, n)
      /\ class = "And" => Down(d, id) = DownAnd(d, id, l, r)
      /\ class = "ConstraintUtility" => Down(d, id) = DownConstraintUtility(d, id, l, r)
      /\ class \in {"LTConstraint", "LTEConstraint"} => Down(d, id) = DownComparison(d, id, l, r)
      /\ class = "Max" => Down(d, id) = DownMax(d, id, l, r)
      /\ class = "Min" => Down(d, id) = DownMin(d, id, l, r)
      /\ class = "Product" => Down(d, id) = DownProduct(d, id, l, r)
      /\ class = "Sum" => Down(d, id) = DownSum(d, id, ids)
      /\ class \in Leaves => Down(d, id) = d
  BY Zenon DEF Down, Ids, Leaves
<1>3. ASSUME ~d.empty
      PROVE  /\ class = "Abs" => Up(d, id) = UpAbs(d, id, l)
             /\ class = "ConstPower" => Up(d, id) = UpConstPower(d, id, l, n)
             /\ class = "And" => Up(d, id) = UpAnd(d, id, l, r)
             /\ class = "ConstraintUtility" => Up(d, id) = UpConstraintUtility(d, id, l, r)
             /\ class = "LTConstraint" => Up(d, id) = UpLTConstraint(d, id, l, r)
             /\ class = "LTEConstraint" => Up(d, id) = UpLTEConstraint(d, id, l, r)
             /\ class \in {"Max", "Min"} => Up(d, id) = UpHull(d, id, l, r)
             /\ class = "Product" => Up(d, id) = UpProduct(d, id, l, r)
             /\ class = "Sum" => Up(d, id) = UpSum(d, id, ids)
             /\ class \in Leaves => Up(d, id) = d
  BY <1>3, Zenon DEF Up, Ids, Leaves
<1>4. (class = "Sum" => ids \in Seq(N)) /\ (class \in Pairwise => l \in N /\ r \in N) /\ (class \in Single => l \in N)
  BY Arity
<1>5. class = "Sum" => Grows(N, s, DownSum(d, id, ids)) /\ Grows(N, s, UpSum(d, id, ids))
  BY <1>4, SumGrows
<1>6. class \in Single =>
        /\ Grows(N, s, DownAbs(d, id, l)) /\ Grows(N, s, UpAbs(d, id, l))
        /\ Grows(N, s, DownConstPower(d, id, l, n)) /\ Grows(N, s, UpConstPower(d, id, l, n))
  BY <1>4, AbsGrows, PowerGrows
<1>7. class \in Pairwise =>
        /\ Grows(N, s, DownProduct(d, id, l, r)) /\ Grows(N, s, UpProduct(d, id, l, r))
        /\ Grows(N, s, DownComparison(d, id, l, r)) /\ Grows(N, s, DownMax(d, id, l, r))
        /\ Grows(N, s, DownAnd(d, id, l, r)) /\ Grows(N, s, DownMin(d, id, l, r))
        /\ Grows(N, s, DownConstraintUtility(d, id, l, r))
        /\ Grows(N, s, UpAnd(d, id, l, r)) /\ Grows(N, s, UpHull(d, id, l, r))
        /\ Grows(N, s, UpConstraintUtility(d, id, l, r))
        /\ Grows(N, s, UpLTConstraint(d, id, l, r)) /\ Grows(N, s, UpLTEConstraint(d, id, l, r))
  BY <1>4, ProductGrows, TwiceGrows, SimpleGrows
<1> HIDE DEF ids, l, r, class, n
<1>8. Grows(N, s, Down(d, id))
  BY <1>1, <1>2, <1>5, <1>6, <1>7 DEF Pairwise, Single
<1>9. Grows(N, s, Up(d, id))
  <2>1. CASE d.empty
    <3>1. Up(d, id) = d
      BY <2>1 DEF Up
    <3>2. QED
      BY <3>1
  <2>2. CASE ~d.empty
    BY <1>1, <1>3, <1>5, <1>6, <1>7, <2>2 DEF Pairwise, Single
  <2>3. QED
    BY <2>1, <2>2
<1>10. QED
  BY <1>8, <1>9

-----------------------------------------------------------------------------
(* A propagation *)

\* The values of a solution are in the intervals of their nodes.
Fits(v, N) == \A t \in N : Inside(v[t], interval[t])

\* The nodes N are terms, and v gives each of them its value.
Valued(v, N) == TermsOf(N) /\ ParentsIn(N) /\ \A id \in N : Means(v, id)

\* What a propagation starts from, when v fits its intervals.
Started(v, N) ==
  /\ Valued(v, N) /\ IsQueue(changed, N)
  /\ RangesOn(interval, N) /\ Fits(v, N)
  /\ outcome = "propagating" /\ undefined = FALSE

SolutionInv(v, N) ==
  /\ Valued(v, N) /\ IsQueue(changed, N)
  /\ undefined \/ (outcome # "unsolvable" /\ RangesOn(interval, N) /\ Fits(v, N))

\* A propagation leaves the terms alone.
LEMMA ValuedStays ==
  ASSUME NEW v, NEW N, Valued(v, N), UNCHANGED <<heap, parents>>
  PROVE  Valued(v, N)'
<1>1. heap' = heap /\ parents' = parents
  OBVIOUS
<1>2. \A id : Ids(id)' = Ids(id)
  BY <1>1 DEF Ids
<1>3. TermsOf(N)'
  BY <1>1, <1>2 DEF Valued, TermsOf
<1>4. ParentsIn(N)'
  BY <1>1 DEF Valued, ParentsIn
<1>5. ASSUME NEW id \in N PROVE Means(v, id)'
  <2>1. Means(v, id)
    BY DEF Valued
  <2>2. QED
    BY <1>1, <1>2, <2>1 DEF Means
<1>6. QED
  BY <1>3, <1>4, <1>5 DEF Valued

\* The first node of the work list is visited.
LEMMA NodeStep ==
  ASSUME NEW N, NEW v \in [N -> Ordinary], RoundsAssumption, SolutionInv(v, N), PropagateNode
  PROVE  SolutionInv(v, N)'
<1> DEFINE id == Head(changed)
           rest == Tail(changed)
           b == [interval |-> interval, changed |-> rest, undefined |-> undefined, empty |-> FALSE]
           d == Down(b, id)
           s == Up(d, id)
<1>1. UNCHANGED <<heap, parents>> /\ outcome = "propagating" /\ changed # <<>>
  BY DEF PropagateNode
<1>2. Valued(v, N)'
  BY <1>1, ValuedStays DEF SolutionInv
<1>3. id \in N /\ IsQueue(rest, N)
  BY <1>1 DEF SolutionInv, IsQueue
<1>4. CASE heap[id].class \in Unpropagated
  <2>1. outcome' = "aborted" /\ UNCHANGED <<interval, changed, undefined>>
    BY <1>4 DEF PropagateNode
  <2>2. QED
    BY <1>2, <2>1 DEF SolutionInv, Fits, IsQueue
<1>5. CASE heap[id].class \notin Unpropagated
  <2>1. /\ interval' = s.interval /\ changed' = s.changed /\ undefined' = s.undefined
        /\ outcome' = IF s.empty THEN "unsolvable" ELSE outcome
    BY <1>5 DEF PropagateNode
  <2>2. Shaped(b) /\ b.interval = interval /\ b.changed = rest /\ b.undefined = undefined /\ b.empty = FALSE
    BY DEF Shaped
  <2>v. TermsOf(N) /\ ParentsIn(N) /\ Means(v, id)
    BY <1>3 DEF SolutionInv, Valued
  <2> HIDE DEF b, rest, id
  <2>3. Grows(N, b, b)
    BY <1>3, <2>2 DEF Grows
  <2>4. Grows(N, b, d)
    BY <1>3, <1>5, <2>v, <2>3, VisitGrows
  <2> HIDE DEF d
  <2>5. Grows(N, b, s)
    BY <1>3, <1>5, <2>v, <2>4, VisitGrows
  <2>6. Grows(N, d, d)
    BY <2>4 DEF Grows
  <2>7. Grows(N, d, s)
    BY <1>3, <1>5, <2>v, <2>6, VisitGrows
  <2> HIDE DEF s
  <2>8. IsQueue(changed, N)'
    BY <2>1, <2>5 DEF Grows, IsQueue
  <2>9. CASE s.undefined
    BY <1>2, <2>1, <2>8, <2>9 DEF SolutionInv
  <2>10. CASE ~s.undefined
    <3>1. ~undefined /\ ~d.undefined
      BY <2>2, <2>5, <2>7, <2>10 DEF Grows
    <3>2. RangesOn(interval, N) /\ Fits(v, N)
      BY <3>1 DEF SolutionInv
    <3>3. Keeps(b, v, N)
      <4>1. b = [interval |-> b.interval, changed |-> b.changed, undefined |-> b.undefined, empty |-> FALSE]
        BY <2>2 DEF Shaped
      <4>2. QED
        BY <1>3, <2>2, <3>2, <4>1 DEF Keeps, Fits
    <3>4. Keeps(d, v, N)
      BY <1>3, <1>5, <2>v, <3>1, <3>3, DownKeeps DEF d
    <3>5. Keeps(s, v, N)
      BY <1>3, <1>5, <2>v, <2>10, <3>4, UpKeeps DEF s
    <3>6. s.empty = FALSE /\ RangesOn(s.interval, N) /\ \A t \in N : Inside(v[t], s.interval[t])
      BY <3>5 DEF Keeps
    <3>7. outcome' # "unsolvable" /\ RangesOn(interval, N)' /\ Fits(v, N)'
      BY <1>1, <2>1, <3>6 DEF Fits, Inside
    <3>8. QED
      BY <1>2, <2>8, <3>7 DEF SolutionInv
  <2>11. QED
    BY <2>9, <2>10
<1>6. QED
  BY <1>4, <1>5

\* No solution is cut off, for all numbers, all terms without an exponent below 2, and all orders of
\* the work list: as long as 0 was not multiplied by an infinity, a valuation of the nodes which
\* fits the intervals a propagation starts from stays inside all of them, and the propagation does
\* not call the term unsolvable (Intervals' NoSolutionCut).
THEOREM SolutionsStay ==
  ASSUME NEW CONSTANT N, NEW CONSTANT v, v \in [N -> Ordinary], RoundsAssumption
  PROVE  /\ Started(v, N)
         /\ [][PropagateNode \/ FinishPropagation]_<<heap, propagatorVars>>
         => [](undefined \/ (outcome # "unsolvable" /\ Fits(v, N)))
<1>1. Started(v, N) => SolutionInv(v, N)
  BY DEF Started, SolutionInv
<1>2. SolutionInv(v, N) /\ [PropagateNode \/ FinishPropagation]_<<heap, propagatorVars>> => SolutionInv(v, N)'
  <2> SUFFICES ASSUME SolutionInv(v, N), [PropagateNode \/ FinishPropagation]_<<heap, propagatorVars>>
               PROVE  SolutionInv(v, N)'
    OBVIOUS
  <2>1. CASE PropagateNode
    BY <2>1, NodeStep
  <2>2. CASE FinishPropagation
    <3>1. UNCHANGED <<heap, interval, parents, changed, undefined>> /\ outcome' = "propagated"
      BY <2>2 DEF FinishPropagation
    <3>2. Valued(v, N)'
      BY <3>1, ValuedStays DEF SolutionInv
    <3>3. QED
      BY <3>1, <3>2 DEF SolutionInv, Fits, IsQueue
  <2>3. CASE UNCHANGED <<heap, propagatorVars>>
    <3>1. UNCHANGED <<heap, interval, parents, changed, undefined, outcome>>
      BY <2>3 DEF propagatorVars
    <3>2. Valued(v, N)'
      BY <3>1, ValuedStays DEF SolutionInv
    <3>3. QED
      BY <3>1, <3>2 DEF SolutionInv, Fits, IsQueue
  <2>4. QED
    BY <2>1, <2>2, <2>3
<1>3. SolutionInv(v, N) => undefined \/ (outcome # "unsolvable" /\ Fits(v, N))
  BY DEF SolutionInv
<1>4. QED
  BY <1>1, <1>2, <1>3, PTL

=============================================================================
