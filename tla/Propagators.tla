---------------------------- MODULE Propagators ----------------------------
(***************************************************************************)
(* What interval propagation does to the nodes of a term: a work list of   *)
(* nodes narrows the operands of each node from its own interval           *)
(* (DownwardPropagator) and its own interval from those of its operands    *)
(* (UpwardPropagator), until nothing changes or an interval is empty.      *)
(*                                                                         *)
(* A double is an integer here, an infinity or NaN; quotients and roots    *)
(* are rounded outwards, and the least positive double is rounded to 0.    *)
(* Negative powers and transcendental functions are left out.              *)
(***************************************************************************)
EXTENDS TermHeap

CONSTANT
  MaxRounds       \* bound: the turns of the loop that narrows the operands of a sum

ASSUME RoundsAssumption == MaxRounds \in Nat \ {0}

VARIABLES
  interval,       \* id -> [min, max], for every node that was in a propagation
  parents,        \* id -> Term::parents
  changed,        \* the work list
  outcome,        \* "idle", "propagating", "propagated", "unsolvable", or "aborted"
  undefined       \* history: this propagation multiplied 0 by an infinity, or divided infinities

propagatorVars == <<interval, parents, changed, outcome, undefined>>

(***************************************************************************)
(* Arithmetic of doubles. std::min and std::max return their first operand *)
(* when a comparison fails, as it does with NaN.                           *)
(***************************************************************************)
Infinity == 1000000
Largest == Infinity - 1
NaN == 2 * Infinity

Lt(a, b) == a # NaN /\ b # NaN /\ a < b
StdMin(a, b) == IF Lt(b, a) THEN b ELSE a
StdMax(a, b) == IF Lt(a, b) THEN b ELSE a
Least(s) == StdMin(s[1], StdMin(s[2], StdMin(s[3], s[4])))
Greatest(s) == StdMax(s[1], StdMax(s[2], StdMax(s[3], s[4])))

IsInfinite(a) == a \in {Infinity, -Infinity}
Negated(a) == IF a = NaN THEN NaN ELSE -a
Magnitude(a) == IF a < 0 THEN -a ELSE a
\* A sum with a number of the order of the largest double.
Rounded(n) ==
  IF Magnitude(n) <= Largest \div 2 THEN n
  ELSE (IF n < 0 THEN -1 ELSE 1) * (IF Magnitude(n) > Largest + Largest \div 2 THEN Infinity ELSE Largest)
Saturated(n) == IF n >= Infinity THEN Infinity ELSE IF n <= -Infinity THEN -Infinity ELSE n
Add(a, b) ==
  IF NaN \in {a, b} \/ {a, b} = {Infinity, -Infinity} THEN NaN
  ELSE IF IsInfinite(a) THEN a
  ELSE IF IsInfinite(b) THEN b
  ELSE Rounded(a + b)
Multiply(a, b) ==
  IF NaN \in {a, b} \/ (0 \in {a, b} /\ (IsInfinite(a) \/ IsInfinite(b))) THEN NaN
  ELSE IF 0 \in {a, b} THEN 0
  ELSE LET sign == IF (a < 0) = (b < 0) THEN 1 ELSE -1
       IN IF Magnitude(a) > Infinity \div Magnitude(b) THEN sign * Infinity ELSE Saturated(a * b)
\* a / b for b # 0, rounded down, or up.
RoundedDown(a, b) == IF b < 0 THEN (-a) \div (-b) ELSE a \div b
Divide(a, b, up) ==
  IF NaN \in {a, b} \/ (IsInfinite(a) /\ IsInfinite(b)) THEN NaN
  ELSE IF IsInfinite(a) THEN (IF (a < 0) = (b < 0) THEN Infinity ELSE -Infinity)
  ELSE IF IsInfinite(b) THEN (IF a = 0 THEN 0 ELSE IF up = ((a < 0) = (b < 0)) THEN (IF up THEN 1 ELSE -1) ELSE 0)
  ELSE IF up THEN -RoundedDown(-a, b) ELSE RoundedDown(a, b)
\* pow(a, n), for n > 0.
PowerOf(a, n) == LET power[i \in 1..n] == IF i = 1 THEN a ELSE Multiply(a, power[i - 1]) IN power[n]
\* pow(a, 1 / n), for n > 0: NaN for a negative number and n > 1.
RootWithin(a, n) == CHOOSE r \in 0..a : PowerOf(r, n) <= a /\ (r = a \/ PowerOf(r + 1, n) > a)
Root(a, n, up) ==
  IF a = NaN \/ (a < 0 /\ n > 1) THEN NaN
  ELSE IF n = 1 \/ IsInfinite(a) THEN a
  ELSE LET r == RootWithin(a, n) IN IF up /\ PowerOf(r, n) # a THEN r + 1 ELSE r

Whole == [min |-> -Infinity, max |-> Infinity]
Between(lo, hi) == [min |-> lo, max |-> hi]
Inside(v, r) == r.min <= v /\ v <= r.max

(***************************************************************************)
(* Narrowing. s is what a visit has made of [interval, changed, undefined, *)
(* empty]; an empty interval is an exception, which ends the visit.        *)
(***************************************************************************)
Enqueued(queue, ids) ==
  FoldLeft(LAMBDA q, id : IF id \in ToSet(q) THEN q ELSE Append(q, id), queue, ids)

\* updateInterval of node t, then addChanged, which queues the nodes told if anything changed.
UpdateInterval(s, t, lo, hi, told) ==
  LET old == s.interval[t]
      new == Between(IF lo = NaN THEN old.min ELSE StdMax(old.min, lo),
                   IF hi = NaN THEN old.max ELSE StdMin(old.max, hi))
  IN IF s.empty THEN s
     ELSE [s EXCEPT !.interval[t] = new, !.empty = new.min > new.max,
                    !.changed = IF Lt(old.min, lo) \/ Lt(hi, old.max) THEN Enqueued(@, told) ELSE @]

\* DownwardPropagator tells the operand, UpwardPropagator the parents of the node and the node.
Lower(s, t, lo, hi) == UpdateInterval(s, t, lo, hi, <<t>>)
Raise(s, t, lo, hi) == UpdateInterval(s, t, lo, hi, Append(parents[t], t))

\* What the bounds of x and y make with one another, in the order of the code.
Pairs(Op(_, _), x, y) == <<Op(x.min, y.min), Op(x.min, y.max), Op(x.max, y.min), Op(x.max, y.max)>>
Defined(s, values) == [s EXCEPT !.undefined = @ \/ NaN \in ToSet(values)]
SignProduct(x) == Multiply(x.min, x.max)

(***************************************************************************)
(* DownwardPropagator: node id of the heap, its operands ids l and r.      *)
(***************************************************************************)
DownAbs_Positive(s, id, l) == Lower(s, l, 0, s.interval[id].max)   \* mutant: |x| is taken for x
DownAbs(s, id, l) == Lower(s, l, Negated(s.interval[id].max), s.interval[id].max)

DownAnd(s, id, l, r) ==
  IF s.interval[id].min > 0 THEN Lower(Lower(s, l, 1, 1), r, 1, 1) ELSE s

\* An unbounded power says nothing of its base.
DownConstPower(s, id, l, exponent) ==
  LET p == s.interval[id]
      base == s.interval[l]
      Both4(up) == LET a == Root(p.min, exponent, up)
                       b == Root(p.max, exponent, up)
                   IN <<a, Negated(a), b, Negated(b)>>
      out == Both4(TRUE)
      in  == Both4(FALSE)
      hi == IF base.max <= 0 THEN StdMax(Negated(Magnitude(in[1])), Negated(Magnitude(in[3]))) ELSE Greatest(out)
      lo == IF base.min >= 0 THEN StdMin(Magnitude(in[1]), Magnitude(in[3])) ELSE Least(out)
  IN IF p.max = Infinity \/ p.min = -Infinity THEN s ELSE Lower(s, l, lo, hi)

DownConstraintUtility(s, id, l, r) ==
  IF s.interval[id].min >= 1 THEN Lower(Lower(s, l, 1, 1), r, 1, s.interval[id].max) ELSE s

\* LTConstraint and LTEConstraint alike.
DownComparison(s, id, l, r) ==
  LET AtMost(t, x, y) == Lower(Lower(t, y, t.interval[x].min, Infinity), x, -Infinity, t.interval[y].max)
      AtLeast(t, x, y) == Lower(Lower(t, y, -Infinity, t.interval[x].max), x, t.interval[y].min, Infinity)
  IN IF s.interval[id].min > 0 THEN AtMost(s, l, r)
     ELSE IF s.interval[id].max <= 0 THEN AtLeast(s, l, r)
     ELSE s

\* The arm that is left must hold.
DownMax(s, id, l, r) ==
  LET Right(t) == IF t.interval[l].max <= 0 THEN Lower(t, r, 1, 1) ELSE t
      Left(t)  == IF t.interval[r].max <= 0 THEN Lower(t, l, 1, 1) ELSE t
  IN IF s.interval[id].min > 0 THEN Left(Right(s)) ELSE s

DownMin(s, id, l, r) ==
  LET lo == s.interval[id].min IN Lower(Lower(s, l, lo, Infinity), r, lo, Infinity)

\* The square of a node: its roots.
DownSquare(s, id, l) ==
  LET p == s.interval[id]
      x == s.interval[l]
      a(up) == Root(p.min, 2, up)
      b(up) == Root(p.max, 2, up)
      hi == IF x.max <= 0 THEN StdMax(Negated(a(FALSE)), Negated(b(FALSE))) ELSE StdMax(a(TRUE), b(TRUE))
      lo == IF x.min >= 0 THEN StdMin(a(FALSE), b(FALSE)) ELSE StdMin(Negated(a(TRUE)), Negated(b(TRUE)))
  IN Lower(s, l, lo, hi)

\* x = p / y for a factor y that is not 0.
DividedBy(s, p, x, y) ==
  LET Ratio(a, b) == Divide(a, b, FALSE)
      RatioUp(a, b) == Divide(a, b, TRUE)
  IN IF s.empty \/ ~Lt(0, SignProduct(s.interval[y])) THEN s
     ELSE Lower(Defined(s, Pairs(Ratio, p, s.interval[y])), x,
                Least(Pairs(Ratio, p, s.interval[y])), Greatest(Pairs(RatioUp, p, s.interval[y])))
DownProduct(s, id, l, r) ==
  IF l = r THEN DownSquare(s, id, l)
  ELSE DividedBy(DividedBy(s, s.interval[id], l, r), s.interval[id], r, l)

\* The bounds of the operands added up, but for the one at place i, in the order of the places.
SumBut(s, ids, i, bound) ==
  LET sum[n \in 0..Len(ids)] ==
        IF n = 0 THEN 0 ELSE IF n = i THEN sum[n - 1] ELSE Add(sum[n - 1], s.interval[ids[n]][bound])
  IN sum[Len(ids)]
\* Each summand from the others, over and over, until nothing changes.
Summand(s, id, ids, i) ==
  Lower(s, ids[i], Add(s.interval[id].min, Negated(SumBut(s, ids, i, "max"))),
                   Add(s.interval[id].max, Negated(SumBut(s, ids, i, "min"))))
DownSummands(s, id, ids) ==
  LET after[i \in 0..Len(ids)] ==
        IF i = 0 THEN s ELSE Now({Summand(t, id, ids, i) : t \in {after[i - 1]}})
  IN after[Len(ids)]
DownSum(s, id, ids) ==
  LET round[n \in 0..MaxRounds] == IF n = 0 THEN s ELSE Now({DownSummands(t, id, ids) : t \in {round[n - 1]}})
      IsLast(n) == round[n].empty \/ round[n].interval = round[n - 1].interval
  IN round[CHOOSE n \in 1..MaxRounds : (n = MaxRounds \/ IsLast(n)) /\ \A m \in 1..(n - 1) : ~IsLast(m)]

(***************************************************************************)
(* UpwardPropagator.                                                       *)
(***************************************************************************)
UpAbs(s, id, l) ==
  LET x == s.interval[l]
      a == Magnitude(x.min)
      b == Magnitude(x.max)
  IN Raise(s, id, IF Lt(0, SignProduct(x)) \/ SignProduct(x) = NaN THEN StdMin(a, b) ELSE 0, StdMax(a, b))

UpAnd(s, id, l, r) ==
  IF s.interval[l].min > 0 /\ s.interval[r].min > 0 THEN Raise(s, id, 1, 1)
  ELSE IF s.interval[l].max <= 0 \/ s.interval[r].max <= 0 THEN Raise(s, id, -Infinity, 0)
  ELSE s

UpConstPower(s, id, l, exponent) ==
  LET base == s.interval[l]
      a == PowerOf(base.max, exponent)
      b == PowerOf(base.min, exponent)
  IN IF Lt(0, SignProduct(base)) \/ SignProduct(base) = NaN
     THEN Raise(s, id, StdMin(a, b), StdMax(a, b))
     ELSE Raise(s, id, StdMin(0, StdMin(a, b)), StdMax(0, StdMax(a, b)))

UpConstraintUtility(s, id, l, r) ==
  IF s.interval[l].max < 1 /\ s.interval[id].max > s.interval[l].max
  THEN Raise(s, id, -Infinity, s.interval[l].max)
  ELSE Raise(s, id, -Infinity, s.interval[r].max)

UpLTConstraint(s, id, l, r) ==
  IF s.interval[l].max < s.interval[r].min THEN Raise(s, id, 1, 1)
  ELSE IF s.interval[l].min >= s.interval[r].max THEN Raise(s, id, -Infinity, 0)
  ELSE s

UpLTEConstraint(s, id, l, r) ==
  IF s.interval[l].max <= s.interval[r].min THEN Raise(s, id, 1, 1)
  ELSE IF s.interval[l].min > s.interval[r].max THEN Raise(s, id, -Infinity, 0)
  ELSE s

\* Max and Min alike: the hull of both.
UpHull(s, id, l, r) ==
  Raise(s, id, StdMin(s.interval[l].min, s.interval[r].min), StdMax(s.interval[l].max, s.interval[r].max))

UpProduct(s, id, l, r) ==
  LET p == Pairs(Multiply, s.interval[l], s.interval[r])
      zero == ~Lt(0, SignProduct(s.interval[l])) /\ SignProduct(s.interval[l]) # NaN
  IN IF l = r
     THEN Raise(Defined(s, <<p[1], p[4]>>), id, IF zero THEN 0 ELSE StdMin(p[1], p[4]), StdMax(p[1], p[4]))
     ELSE Raise(Defined(s, p), id, Least(p), Greatest(p))

\* From the last operand to the first.
UpSum(s, id, ids) ==
  LET back == Reverse(ids) IN Raise(s, id, SumBut(s, back, 0, "min"), SumBut(s, back, 0, "max"))

(***************************************************************************)
(* RecursivePropagate::propagate: the first node of the work list.         *)
(***************************************************************************)
\* The visits that throw a text, which nobody catches.
Unpropagated == {"Or", "Atan2", "Sigmoid", "TermPower"}

Down(s, id) ==
  LET n == heap[id]
      ids == [i \in DOMAIN n.operands |-> n.operands[i].k]
  IN CASE n.class = "Abs" -> DownAbs(s, id, ids[1])
       [] n.class = "And" -> DownAnd(s, id, ids[1], ids[2])
       [] n.class = "ConstPower" -> DownConstPower(s, id, ids[1], n.k)
       [] n.class = "ConstraintUtility" -> DownConstraintUtility(s, id, ids[1], ids[2])
       [] n.class \in {"LTConstraint", "LTEConstraint"} -> DownComparison(s, id, ids[1], ids[2])
       [] n.class = "Max" -> DownMax(s, id, ids[1], ids[2])
       [] n.class = "Min" -> DownMin(s, id, ids[1], ids[2])
       [] n.class = "Product" -> DownProduct(s, id, ids[1], ids[2])
       [] n.class = "Sum" -> DownSum(s, id, ids)
       [] n.class \in {"Constant", "Zero", "Variable", "Reification"} -> s

Up(s, id) ==
  LET n == heap[id]
      ids == [i \in DOMAIN n.operands |-> n.operands[i].k]
  IN CASE s.empty -> s
       [] ~s.empty /\ n.class = "Abs" -> UpAbs(s, id, ids[1])
       [] ~s.empty /\ n.class = "And" -> UpAnd(s, id, ids[1], ids[2])
       [] ~s.empty /\ n.class = "ConstPower" -> UpConstPower(s, id, ids[1], n.k)
       [] ~s.empty /\ n.class = "ConstraintUtility" -> UpConstraintUtility(s, id, ids[1], ids[2])
       [] ~s.empty /\ n.class = "LTConstraint" -> UpLTConstraint(s, id, ids[1], ids[2])
       [] ~s.empty /\ n.class = "LTEConstraint" -> UpLTEConstraint(s, id, ids[1], ids[2])
       [] ~s.empty /\ n.class \in {"Max", "Min"} -> UpHull(s, id, ids[1], ids[2])
       [] ~s.empty /\ n.class = "Product" -> UpProduct(s, id, ids[1], ids[2])
       [] ~s.empty /\ n.class = "Sum" -> UpSum(s, id, ids)
       [] ~s.empty /\ n.class \in {"Constant", "Zero", "Variable", "Reification"} -> s

PropagateNode ==
  /\ outcome = "propagating" /\ changed # <<>>
  /\ LET id == Head(changed) IN
     IF heap[id].class \in Unpropagated
     THEN outcome' = "aborted" /\ UNCHANGED <<interval, changed, undefined>>
     ELSE \E s \in {Up(d, id) : d \in {Down([interval |-> interval, changed |-> Tail(changed),
                                             undefined |-> undefined, empty |-> FALSE], id)}} :
            /\ interval' = s.interval /\ changed' = s.changed /\ undefined' = s.undefined
            /\ outcome' = IF s.empty THEN "unsolvable" ELSE outcome
  /\ UNCHANGED <<heap, parents>>

FinishPropagation ==
  /\ outcome = "propagating" /\ changed = <<>>
  /\ outcome' = "propagated"
  /\ UNCHANGED <<heap, interval, parents, changed, undefined>>

=============================================================================
