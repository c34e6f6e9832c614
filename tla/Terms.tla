-------------------------------- MODULE Terms --------------------------------
(***************************************************************************)
(* autodiff's terms: a graph of shared nodes on the heap. The operators of *)
(* Term.cpp, TermBuilder, TVec and ConstraintBuilder build new nodes over  *)
(* existing ones, negate() and derivative() build nodes from a term, and   *)
(* aggregateConstants() rewrites nodes in place, under every other term    *)
(* that shares them.                                                       *)
(*                                                                         *)
(* A double is a number modulo a prime, so that sums, products and inverse *)
(* powers obey the laws of a field; sin, cos, exp, log and atan2 are left  *)
(* uninterpreted. Term::FALSE, the least positive double, has the value 0. *)
(***************************************************************************)
EXTENDS TermHeap

CONSTANTS
  Modulus,          \* a prime
  StandIn(_, _),    \* the value of a transcendental function, by its name, at a number
  Assignments2D,    \* the values of the variables x and y to look at: pairs of numbers
  MaxBuilds,        \* bound: the terms built in a behaviour
  MaxChanges        \* bound: the calls of aggregateConstants, negate and derivative

VARIABLES
  last,      \* the id of the term built or returned last
  meaning,   \* id -> what the term is to mean: at each assignment, a number or a truth value
  softLogic, \* Term::_andop and _orop: TRUE for And and Or, FALSE for Min and Max
  builds,    \* terms built so far
  changes    \* calls of aggregateConstants, negate and derivative so far

termVars == <<heap, last, meaning, softLogic, builds, changes>>

(***************************************************************************)
(* Numbers.                                                                *)
(***************************************************************************)
Num(n) == LET r == n % Modulus IN IF 2 * r > Modulus THEN r - Modulus ELSE r
RECURSIVE SumOf(_)
SumOf(s) == IF s = <<>> THEN 0 ELSE Num(s[1] + SumOf(Tail(s)))

RECURSIVE NaturalPower(_, _)
NaturalPower(b, n) ==
  IF n = 0 THEN 1
  ELSE LET half == NaturalPower(b, n \div 2)
           square == Num(half * half)
       IN IF n % 2 = 0 THEN square ELSE Num(square * b)

Inverses == [b \in 1..(Modulus - 1) |-> CHOOSE c \in 1..(Modulus - 1) : (b * c) % Modulus = 1]
Inverted(b) == IF b % Modulus = 0 THEN 0 ELSE Num(Inverses[b % Modulus])
Pow(b, e) == IF e >= 0 THEN NaturalPower(b, e) ELSE NaturalPower(Inverted(b), -e)
Quotient(a, b) == Num(a * Inverted(b))
AbsOf(n) == IF n < 0 THEN -n ELSE n

(***************************************************************************)
(* Nodes. An operand is a reference to a node of the heap, or a node that  *)
(* is about to be put there.                                               *)
(***************************************************************************)
True == Ref(1)
False == Ref(2)
X == Ref(3)
Y == Ref(4)
Ordered == Ref(5)    \* a comparison that many formulas share: x < y
InitialHeap == <<Node("Constant", <<>>, 1), Node("Constant", <<>>, 0),
                 Node("Variable", <<>>, 1), Node("Variable", <<>>, 2),
                 Node("LTConstraint", <<X, Y>>, 1)>>

Deref(t) == IF t.class = "ref" THEN heap[t.k] ELSE t
Is(t, class) == Deref(t).class = class

\* negate() of a comparison makes the converse once and keeps it in negatedform; what it makes
\* keeps the comparison as its own.
NegationOf(t) == Node("negation", <<t>>, 0)
Converse == [LTConstraint |-> "LTEConstraint", LTEConstraint |-> "LTConstraint"]
NegateComparison(h, id) ==
  LET n == h[id]
      new == Len(h) + 1
  IN IF n.negatedform # 0 THEN [heap |-> h, id |-> n.negatedform]
     ELSE [heap |-> Append([h EXCEPT ![id].negatedform = new],
                           [Node(Converse[n.class], <<n.operands[2], n.operands[1]>>, n.k) EXCEPT !.negatedform = id]),
           id |-> new]

\* A tree of new nodes goes to the heap, operands first, as the constructors are called.
RECURSIVE Put(_, _), PutAll(_, _, _)
PutAll(h, ts, done) ==
  IF ts = <<>> THEN [heap |-> h, operands |-> done]
  ELSE Now({PutAll(p.heap, Tail(ts), Append(done, Ref(p.id))) : p \in {Put(h, Head(ts))}})
Put(h, t) ==
  IF t.class = "ref" THEN [heap |-> h, id |-> t.k]
  ELSE IF t.class = "negation" THEN NegateComparison(h, t.operands[1].k)
  ELSE Now({[heap |-> Append(below.heap, [t EXCEPT !.operands = below.operands]),
             id   |-> Len(below.heap) + 1] : below \in {PutAll(h, t.operands, <<>>)}})

(***************************************************************************)
(* The operators of Term.cpp and the methods of TermBuilder.               *)
(***************************************************************************)
Constant(v) == Node(IF v = 0 THEN "Zero" ELSE "Constant", <<>>, v)
Sum(ts) == Node("Sum", SelectSeq(ts, LAMBDA t : ~Is(t, "Zero")), 0)
Product(l, r) == Node("Product", <<l, r>>, 0)
Power(t, e) == Node("ConstPower", <<t>>, e)
TermPower(b, e) == Node("TermPower", <<b, e>>, 0)
FunctionOf(name, t) == Node(name, <<t>>, 0)
Atan2(l, r) == Node("Atan2", <<l, r>>, 0)

Plus(l, r) ==
  IF Is(l, "Zero") THEN r
  ELSE IF Is(r, "Zero") THEN l
  ELSE Node("Sum", <<l, r>>, 0)
Times(l, r) == Product(l, r)
Over(l, r) == Product(l, Power(r, -1))
Minus(l, r) == Plus(l, Times(Constant(-1), r))
Opposite(t) == Times(Constant(-1), t)

Less(l, r) == Node("LTConstraint", <<l, r>>, 1)
LessEqual(l, r) == Node("LTEConstraint", <<l, r>>, 1)
Both(l, r) ==
  IF l = True \/ r = False THEN r
  ELSE IF l = False \/ r = True THEN l
  ELSE Node(IF softLogic THEN "And" ELSE "Min", <<l, r>>, 0)
Either(l, r) ==
  IF l = True \/ (l = False /\ r = False) THEN l
  ELSE IF r = True THEN r
  ELSE Node(IF softLogic THEN "Or" ELSE "Max", <<l, r>>, 0)

\* negate() of a term on the heap: by de Morgan for the connectives, as above for a comparison,
\* 1 - t for everything else.
RECURSIVE Negate(_)
Negate(t) ==
  LET n == Deref(t) IN
  CASE n.class \in {"And", "Min"} -> Either(Negate(n.operands[1]), Negate(n.operands[2]))
    [] n.class \in {"Or", "Max"} -> Both(Negate(n.operands[1]), Negate(n.operands[2]))
    [] n.class \in {"LTConstraint", "LTEConstraint"} -> NegationOf(t)
    [] OTHER -> Minus(True, t)

\* Its bounds are -k and k.
Reification(t, k) == Node("Reification", <<t, Negate(t)>>, k)
ConstraintUtility(c, u) == Node("ConstraintUtility", <<c, u>>, 0)

Sigmoid(t, upper, lower, mid, steepness) ==
  Plus(Times(Minus(upper, lower), Node("Sigmoid", <<t, mid>>, steepness)), lower)
QuadForm(a, b) == Node("Sum", <<Times(a, Power(X, 2)), Times(Times(Plus(a, b), X), Y),
                                Times(b, Power(Y, 2))>>, 0)
BoundedValue(t, lo, hi) == Both(Less(lo, t), Less(t, hi))
RECURSIVE Repeated(_, _)
Repeated(t, n) == IF n = 0 THEN Constant(1) ELSE Times(Repeated(t, n - 1), t)
Polynom(ts, degree, params) ==
  FoldLeftDomain(LAMBDA acc, n : Plus(acc, Times(Repeated(ts[n], degree - 1), params[n])), Constant(0), ts)

(***************************************************************************)
(* TVec and ConstraintBuilder. A vector is a sequence of terms.            *)
(***************************************************************************)
VecMinus(a, b) == [n \in DOMAIN a |-> Minus(a[n], b[n])]
NormSquared(a) == Sum([n \in DOMAIN a |-> Power(a[n], 2)])
InnerProduct(a, b) == Sum([n \in DOMAIN a |-> Times(a[n], b[n])])
DistanceSqr(a, b) == NormSquared(VecMinus(a, b))
InCoordsOf(p, v) ==
  LET quo == Power(NormSquared(v), -1)
  IN <<Times(Plus(Times(p[1], v[1]), Times(p[2], v[2])), quo),
       Times(Minus(Times(p[1], v[2]), Times(p[2], v[1])), quo)>>
ProjectVectorOntoX(origin, dir, t) ==
  Plus(origin[2], Times(Times(dir[2], Minus(t, origin[1])), Power(dir[1], -1)))

Area(v, p) == Minus(Times(p[1], v[2]), Times(p[2], v[1]))
LeftOf(v, p) == Less(Area(v, p), Constant(0))
RightOf(v, p) == Less(Constant(0), Area(v, p))
Equals(s, t, tolerance) == Both(Less(s, Plus(t, tolerance)), Less(Minus(t, tolerance), s))
IfThen(a, b) == Either(Negate(a), b)
IfThenElse(a, b, c) == Both(Either(Negate(a), b), Either(a, c))
Equiv(a, b) == Either(Both(a, b), Both(Negate(a), Negate(b)))

(***************************************************************************)
(* derivative(v), for v = 1 (x) and v = 2 (y). The derivative of a         *)
(* Constant is a null pointer and that of a connective or comparison       *)
(* throws, so only terms without them are derived.                         *)
(***************************************************************************)
\* Class by class, for node n, which is t, from the derivatives d of its operands.
DerivativeSum(n, t, d, v) == Node("Sum", d, 0)
DerivativeProduct(n, t, d, v) == Plus(Times(n.operands[1], d[2]), Times(n.operands[2], d[1]))
DerivativeConstPower(n, t, d, v) == Times(Times(Constant(n.k), Power(n.operands[1], n.k - 1)), d[1])
DerivativeTermPower(n, t, d, v) ==
  LET base == n.operands[1]
      exponent == n.operands[2]
  IN Times(TermPower(base, Minus(exponent, Constant(1))),
           Plus(Times(exponent, d[1]), Times(Times(base, FunctionOf("Log", base)), d[2])))
DerivativeAbs(n, t, d, v) == Over(Times(d[1], n.operands[1]), t)
DerivativeSin(n, t, d, v) == Times(FunctionOf("Cos", n.operands[1]), d[1])
DerivativeCos(n, t, d, v) == Times(FunctionOf("Sin", n.operands[1]), Opposite(d[1]))
DerivativeExp(n, t, d, v) == Times(t, d[1])
DerivativeLog(n, t, d, v) == Over(d[1], n.operands[1])
DerivativeVariable(n, t, d, v) == Constant(IF n.k = v THEN 1 ELSE 0)

DerivativeFrom(n, t, d, v) ==
  CASE n.class = "Zero" -> t
    [] n.class = "Variable" -> DerivativeVariable(n, t, d, v)
    [] n.class = "Sum" -> DerivativeSum(n, t, d, v)
    [] n.class = "Product" -> DerivativeProduct(n, t, d, v)
    [] n.class = "ConstPower" -> DerivativeConstPower(n, t, d, v)
    [] n.class = "TermPower" -> DerivativeTermPower(n, t, d, v)
    [] n.class = "Abs" -> DerivativeAbs(n, t, d, v)
    [] n.class = "Sin" -> DerivativeSin(n, t, d, v)
    [] n.class = "Cos" -> DerivativeCos(n, t, d, v)
    [] n.class = "Exp" -> DerivativeExp(n, t, d, v)
    [] n.class = "Log" -> DerivativeLog(n, t, d, v)

RECURSIVE Derivative(_, _)
Derivative(t, v) ==
  LET n == Deref(t) IN
  Now({DerivativeFrom(n, t, d, v) : d \in {[i \in DOMAIN n.operands |-> Derivative(n.operands[i], v)] \o <<>>}})

RECURSIVE Derivable(_)
Derivable(t) ==
  /\ Deref(t).class \in {"Zero", "Variable", "Sum", "Product", "ConstPower", "TermPower", "Abs",
                         "Sin", "Cos", "Exp", "Log"}
  /\ \A a \in ToSet(Deref(t).operands) : Derivable(a)

(***************************************************************************)
(* aggregateConstants(). It returns the node that stands for the term now: *)
(* [heap, id]. An Undefined node stands for an undefined result.           *)
(***************************************************************************)
Same(h, id) == [heap |-> h, id |-> id]
Operand(h, id, i) == h[id].operands[i].k
IsConstant(h, id) == h[id].class = "Constant"
AllConstant(h, id) == \A t \in ToSet(h[id].operands) : IsConstant(h, t.k)
OperandValue(h, id, i) == h[Operand(h, id, i)].k

RECURSIVE Aggregate(_, _), AggregateFrom(_, _, _)

\* operand = operand->aggregateConstants(), for operand i or for all of them.
AggregateOperand(h, id, i) ==
  LET r == Aggregate(h, Operand(h, id, i)) IN [r.heap EXCEPT ![id].operands[i] = Ref(r.id)]
AggregateFrom(h, id, i) ==
  IF i > Len(h[id].operands) THEN h
  ELSE Now({AggregateFrom(g, id, i + 1) : g \in {AggregateOperand(h, id, i)}})
AggregateOperands(h, id) == AggregateFrom(h, id, 1)

\* The summands are aggregated but stored only when the sum itself remains.
AggregateSum(h, id) ==
  LET r == FoldLeft(LAMBDA acc, t : LET a == Aggregate(acc.heap, t.k) IN
                       [heap |-> a.heap, terms |-> Append(acc.terms, a.id)],
                    [heap |-> h, terms |-> <<>>], h[id].operands)
      constants == SelectSeq(r.terms, LAMBDA t : IsConstant(r.heap, t))
      others    == SelectSeq(r.terms, LAMBDA t : r.heap[t].class \notin {"Constant", "Zero"})
      total     == Put(r.heap, Constant(SumOf([n \in DOMAIN constants |-> r.heap[constants[n]].k])))
      Kept(g, ids) == Same([g EXCEPT ![id].operands = [n \in DOMAIN ids |-> Ref(ids[n])]], id)
  IN CASE others = <<>> -> total
       [] others # <<>> /\ constants # <<>> -> Kept(total.heap, Append(others, total.id))
       [] Len(others) = 1 /\ constants = <<>> -> Same(r.heap, others[1])
       [] Len(others) > 1 /\ constants = <<>> -> Kept(r.heap, others)

AggregateProduct_Drops(h, id) ==  \* mutant: any constant factor gives way to the other one, not only 1
  LET l == Aggregate(h, Operand(h, id, 1))
      r == Aggregate(l.heap, Operand(h, id, 2))
  IN IF IsConstant(r.heap, l.id) THEN r ELSE Same(r.heap, id)

AggregateProduct(h, id) ==
  LET g == AggregateOperands(h, id)
      l == Operand(g, id, 1)
      r == Operand(g, id, 2)
  IN IF AllConstant(g, id) THEN Put(g, Constant(Num(g[l].k * g[r].k)))
     ELSE IF g[l].class = "Zero" THEN Same(g, l)
     ELSE IF g[r].class = "Zero" THEN Same(g, r)
     ELSE IF IsConstant(g, l) /\ g[l].k = 1 THEN Same(g, r)
     ELSE IF IsConstant(g, r) /\ g[r].k = 1 THEN Same(g, l)
     ELSE Same(g, id)

\* A power of a power multiplies the exponents.
AggregateConstPower(h, id) ==
  LET g == AggregateOperands(h, id)
      base == g[Operand(g, id, 1)]
  IN CASE base.class = "Constant" -> Put(g, Constant(Pow(base.k, g[id].k)))
       [] base.class = "Zero" /\ g[id].k >= 0 -> Same(g, Operand(g, id, 1))
       [] base.class = "Zero" /\ g[id].k < 0 -> Put(g, Node("Undefined", <<>>, 0))
       [] base.class = "ConstPower" ->
            Same([g EXCEPT ![id].k = @ * base.k, ![id].operands = base.operands], id)
       [] OTHER -> Same(g, id)

\* For a Constant argument the code reads the variable it is just declaring.
AggregateFunction(h, id) ==
  LET g == AggregateOperands(h, id) IN
  IF AllConstant(g, id) THEN Put(g, Node("Undefined", <<>>, 0))
  ELSE IF g[id].class = "Sin" /\ g[Operand(g, id, 1)].class = "Zero" THEN Put(g, Constant(0))
  ELSE Same(g, id)

\* A nested power is undefined like a constant one; the others are as above.
AggregateTermPower(h, id) ==
  LET g == AggregateOperands(h, id)
      base == Operand(g, id, 1)
  IN IF g[Operand(g, id, 2)].class = "Zero" THEN Put(g, Constant(1))
     ELSE IF AllConstant(g, id) \/ g[base].class = "TermPower" THEN Put(g, Node("Undefined", <<>>, 0))
     ELSE IF g[base].class = "Zero" THEN Same(g, base)
     ELSE Same(g, id)

AggregateAbs(h, id) ==
  LET g == AggregateOperands(h, id) IN
  IF AllConstant(g, id) THEN Put(g, Constant(AbsOf(OperandValue(g, id, 1)))) ELSE Same(g, id)

AggregateAtan2(h, id) ==
  LET g == AggregateOperands(h, id) IN
  IF AllConstant(g, id)
  THEN Put(g, Constant(StandIn("Atan2", Num(OperandValue(g, id, 1) - 2 * OperandValue(g, id, 2)))))
  ELSE Same(g, id)

\* A constant conjunction or comparison is Term::TRUE or Term::FALSE itself.
TruthOf(b) == IF b THEN 1 ELSE 2

AggregateAnd(h, id) ==
  LET f == AggregateOperand(h, id, 1)
      g == AggregateOperand(f, id, 2)
  IN IF Operand(f, id, 1) = 2 THEN Same(f, 2)
     ELSE IF Operand(f, id, 1) = 1 THEN Same(g, Operand(g, id, 2))
     ELSE IF Operand(g, id, 2) = 2 THEN Same(g, 2)
     ELSE IF Operand(g, id, 2) = 1 THEN Same(g, Operand(g, id, 1))
     ELSE IF AllConstant(g, id) THEN Same(g, TruthOf(\A t \in ToSet(g[id].operands) : g[t.k].k > 0))
     ELSE Same(g, id)

AggregateOr(h, id) ==
  LET g == AggregateOperands(h, id) IN
  IF AllConstant(g, id) THEN Same(g, TruthOf(\E t \in ToSet(g[id].operands) : g[t.k].k > 0))
  ELSE Same(g, id)

AggregateMin(h, id) ==
  LET g == AggregateOperands(h, id) IN
  IF AllConstant(g, id)
  THEN Put(g, Node("Constant", <<>>, Min({OperandValue(g, id, 1), OperandValue(g, id, 2)})))
  ELSE Same(g, id)

AggregateMax(h, id) ==
  LET f == AggregateOperand(h, id, 1)
      g == AggregateOperand(f, id, 2)
  IN IF Operand(f, id, 1) = 1 THEN Same(f, 1)
     ELSE IF Operand(f, id, 1) = 2 THEN Same(g, Operand(g, id, 2))
     ELSE IF Operand(g, id, 2) = 1 THEN Same(g, 1)
     ELSE IF Operand(g, id, 2) = 2 THEN Same(g, Operand(g, id, 1))
     ELSE IF AllConstant(g, id)
          THEN Put(g, Node("Constant", <<>>, Max({OperandValue(g, id, 1), OperandValue(g, id, 2)})))
     ELSE Same(g, id)

AggregateLTConstraint(h, id) ==
  LET g == AggregateOperands(h, id) IN
  IF AllConstant(g, id) THEN Same(g, TruthOf(OperandValue(g, id, 1) < OperandValue(g, id, 2)))
  ELSE Same(g, id)

AggregateLTEConstraint(h, id) ==
  LET g == AggregateOperands(h, id) IN
  IF AllConstant(g, id) THEN Same(g, TruthOf(OperandValue(g, id, 1) <= OperandValue(g, id, 2)))
  ELSE Same(g, id)

AggregateConstraintUtility(h, id) == Same(AggregateOperands(h, id), id)

Aggregate(h, id) ==
  LET class == h[id].class IN
  CASE class \in {"Constant", "Zero", "Variable", "Reification"} -> Same(h, id)
    [] class = "Sum" -> AggregateSum(h, id)
    [] class = "Product" -> AggregateProduct(h, id)
    [] class = "ConstPower" -> AggregateConstPower(h, id)
    [] class = "TermPower" -> AggregateTermPower(h, id)
    [] class \in {"Sin", "Cos", "Exp", "Log", "Sigmoid"} -> AggregateFunction(h, id)
    [] class = "Abs" -> AggregateAbs(h, id)
    [] class = "Atan2" -> AggregateAtan2(h, id)
    [] class = "And" -> AggregateAnd(h, id)
    [] class = "Or" -> AggregateOr(h, id)
    [] class = "Min" -> AggregateMin(h, id)
    [] class = "Max" -> AggregateMax(h, id)
    [] class = "LTConstraint" -> AggregateLTConstraint(h, id)
    [] class = "LTEConstraint" -> AggregateLTEConstraint(h, id)
    [] class = "ConstraintUtility" -> AggregateConstraintUtility(h, id)

(***************************************************************************)
(* What a term is worth, with its partial derivatives, by the rules of     *)
(* analysis. A constraint that holds is worth 1, one that is violated what *)
(* is missing; a conjunction of soft constraints sums what its parts miss. *)
(***************************************************************************)
\* The value of a node and its derivatives by its operands, from the values a of those.
Rule(n, a) ==
  LET class == n.class
      k     == n.k
      Missing(v) == IF v > 0 THEN 0 ELSE v
      Steps(value) == [value |-> value, by |-> [i \in DOMAIN a |-> IF a[i] > 0 THEN 0 ELSE 1]]
      Picks(i) == [value |-> a[i], by |-> [j \in DOMAIN a |-> IF i = j THEN 1 ELSE 0]]
      Compare(holds) == IF holds THEN [value |-> 1, by |-> <<0, 0>>]
                        ELSE [value |-> Num(k * (a[2] - a[1])), by |-> <<-k, k>>]
  IN CASE class \in {"Constant", "Zero"} -> [value |-> k, by |-> <<>>]
       [] class = "Sum" -> [value |-> SumOf(a), by |-> [i \in DOMAIN a |-> 1]]
       [] class = "Product" -> [value |-> Num(a[1] * a[2]), by |-> <<a[2], a[1]>>]
       [] class = "ConstPower" -> [value |-> Pow(a[1], k), by |-> <<Num(k * Pow(a[1], k - 1))>>]
       [] class = "TermPower" -> [value |-> Pow(a[1], a[2]),
                                  by |-> <<Num(a[2] * Pow(a[1], a[2] - 1)),
                                           Num(Pow(a[1], a[2]) * StandIn("Log", a[1]))>>]
       [] class = "Sin" -> [value |-> StandIn("Sin", a[1]), by |-> <<StandIn("Cos", a[1])>>]
       [] class = "Cos" -> [value |-> StandIn("Cos", a[1]), by |-> <<-StandIn("Sin", a[1])>>]
       [] class = "Exp" -> [value |-> StandIn("Exp", a[1]), by |-> <<StandIn("Exp", a[1])>>]
       [] class = "Log" -> [value |-> StandIn("Log", a[1]), by |-> <<Pow(a[1], -1)>>]
       [] class = "Abs" -> [value |-> AbsOf(a[1]), by |-> <<IF a[1] < 0 THEN -1 ELSE 1>>]
       [] class = "Atan2" -> LET square == Num(a[1] * a[1] + a[2] * a[2]) IN
                             [value |-> StandIn("Atan2", Num(a[1] - 2 * a[2])),
                              by |-> <<Quotient(a[2], square), Quotient(-a[1], square)>>]
       [] class = "Sigmoid" -> LET e == StandIn("Exp", Num(k * (a[2] - a[1])))
                                   slope == Quotient(Num(k * e), Num((1 + e) * (1 + e)))
                               IN [value |-> Quotient(1, 1 + e), by |-> <<slope, -slope>>]
       [] class = "LTConstraint" -> Compare(a[1] < a[2])
       [] class = "LTEConstraint" -> Compare(a[1] <= a[2])
       [] class = "And" -> Steps(IF a[1] > 0 /\ a[2] > 0 THEN 1 ELSE Missing(a[1]) + Missing(a[2]))
       [] class = "Or" -> IF a[1] > 0 \/ a[2] > 0 THEN [value |-> 1, by |-> <<0, 0>>] ELSE Steps(a[1] + a[2])
       [] class = "Min" -> Picks(IF a[1] < a[2] THEN 1 ELSE 2)
       [] class = "Max" -> Picks(IF a[1] > a[2] THEN 1 ELSE 2)
       [] class = "Reification" -> [value |-> IF a[1] > 0 THEN k ELSE -k, by |-> <<0, 0>>]
       [] class = "ConstraintUtility" -> Picks(IF a[1] > 0 THEN 2 ELSE 1)

\* The value of node id at p, and its derivatives by x and y, by the chain rule.
RECURSIVE Dual(_, _, _)
\* From those of the operands.
DualFrom(n, below) ==
  LET rule == Rule(n, [i \in DOMAIN below |-> below[i].value] \o <<>>)
  IN [value    |-> rule.value,
      gradient |-> [v \in 1..2 |-> SumOf([i \in DOMAIN below |-> Num(rule.by[i] * below[i].gradient[v])] \o <<>>)]]
Dual(h, id, p) ==
  IF h[id].class = "Variable"
  THEN [value |-> p[h[id].k], gradient |-> [v \in 1..2 |-> IF v = h[id].k THEN 1 ELSE 0]]
  ELSE Now({DualFrom(h[id], below) :
              below \in {[i \in DOMAIN h[id].operands |-> Dual(h, h[id].operands[i].k, p)] \o <<>>}})

(***************************************************************************)
(* A behaviour builds a term upon another, changes it now and then, and    *)
(* never forgets what each of the terms means.                             *)
(***************************************************************************)
Number(f) == [logical |-> FALSE, at |-> f]
Truth(f) == [logical |-> TRUE, at |-> f]

TermInit ==
  /\ heap = InitialHeap /\ last = 3
  /\ meaning = (3 :> Number([p \in Assignments2D |-> p[1]]) @@ 5 :> Truth([p \in Assignments2D |-> p[1] < p[2]]))
  /\ softLogic = FALSE
  /\ builds = 0 /\ changes = 0

\* The heap is now h; the term in hand is id, and it means m.
Hold(r, m) ==
  /\ \A id \in DOMAIN r.heap : r.heap[id].class # "Undefined"
  /\ heap' = r.heap /\ last' = r.id
  /\ meaning' = IF r.id \in DOMAIN meaning THEN meaning ELSE meaning @@ (r.id :> m)
  /\ UNCHANGED softLogic

At(p) == meaning[last].at[p]
This == Ref(last)

\* The terms a number t of value u and another one make, and their values.
NumberTerms(p) ==
  LET t == This
      u == At(p)
  IN << <<Times(t, Y), u * p[2]>>, <<Plus(Y, t), p[2] + u>>, <<Minus(t, Y), u - p[2]>>,
        <<Times(Constant(1), t), u>>, <<Times(Constant(0), t), 0>>, <<Minus(t, t), 0>>,
        <<Over(X, t), p[1] * Pow(u, -1)>>, <<Power(t, 2), u * u>>, <<Power(t, -1), Pow(u, -1)>>,
        <<Opposite(t), -u>>, <<Times(t, t), u * u>> >>

FunctionTerms(p) ==
  LET t == This
      u == At(p)
      F(name) == <<FunctionOf(name, t), StandIn(name, u)>>
  IN << F("Sin"), F("Cos"), F("Exp"), F("Log"), <<FunctionOf("Abs", t), AbsOf(u)>>,
        <<TermPower(t, Constant(2)), u * u>>,
        <<Atan2(Y, t), StandIn("Atan2", Num(p[2] - 2 * u))>>,
        <<Sigmoid(t, Constant(2), X, Y, 1), p[1] + (2 - p[1]) * Pow(1 + StandIn("Exp", Num(p[2] - u)), -1)>> >>

GeometryTerms(p) ==
  LET t == This
      u == At(p)
  IN << <<DistanceSqr(<<t, Y>>, <<Y, Constant(2)>>), (u - p[2]) * (u - p[2]) + (p[2] - 2) * (p[2] - 2)>>,
        <<InnerProduct(<<X, t>>, <<Y, t>>), p[1] * p[2] + u * u>>,
        <<InCoordsOf(<<t, X>>, <<Y, t>>)[1], (u * p[2] + p[1] * u) * Pow(p[2] * p[2] + u * u, -1)>>,
        <<InCoordsOf(<<t, X>>, <<Y, t>>)[2], (u * u - p[1] * p[2]) * Pow(p[2] * p[2] + u * u, -1)>>,
        <<ProjectVectorOntoX(<<X, Y>>, <<Y, t>>, Constant(2)), p[2] + Num(u * (2 - p[1])) * Pow(p[2], -1)>>,
        <<QuadForm(t, Y), u * p[1] * p[1] + (u + p[2]) * p[1] * p[2] + p[2] * p[2] * p[2]>>,
        <<Polynom(<<t, Y>>, 3, <<X, Constant(2)>>), u * u * p[1] + 2 * p[2] * p[2]>> >>

ConstraintTerms(p) ==
  LET t == This
      u == At(p)
  IN << <<Less(t, Y), u < p[2]>>, <<LessEqual(Y, t), p[2] <= u>>,
        <<Less(Constant(1), Constant(2)), TRUE>>, <<LessEqual(Constant(3), Constant(2)), FALSE>>,
        <<LeftOf(<<X, Y>>, <<t, Constant(1)>>), u * p[2] < p[1]>>,
        <<RightOf(<<X, Y>>, <<t, Constant(1)>>), u * p[2] > p[1]>>,
        <<Equals(t, Y, Constant(2)), AbsOf(u - p[2]) < 2>>,
        <<BoundedValue(t, Y, X), p[2] < u /\ u < p[1]>> >>

LogicTerms(p) ==
  LET t == This
      u == At(p)
      l == p[1] < p[2]
  IN << <<Both(t, Ordered), u /\ l>>, <<Both(True, t), u>>, <<Both(t, False), FALSE>>,
        <<Either(Ordered, t), u \/ l>>, <<Either(t, False), u>>, <<Either(True, t), TRUE>>,
        <<IfThen(t, Ordered), u => l>>, <<IfThen(Ordered, t), l => u>>,
        <<IfThenElse(t, Ordered, LessEqual(X, Constant(2))), IF u THEN l ELSE p[1] <= 2>>,
        <<IfThenElse(Ordered, t, False), l /\ u>>, <<Equiv(t, Ordered), u = l>> >>

UtilityTerms(p) ==
  LET t == This
      u == At(p)
  IN << <<Times(Reification(t, 3), Y), IF u THEN 3 * p[2] ELSE -3 * p[2]>>,
        <<ConstraintUtility(t, Y), IF u THEN p[2] ELSE Dual(heap, last, p).value>> >>

\* Build one of the terms that Make offers.
Build(Make(_), Kind(_), bound) ==
  LET q == CHOOSE p \in Assignments2D : TRUE IN
  /\ builds < bound
  /\ \E n \in DOMAIN Make(q) :
       Hold(Put(heap, Make(q)[n][1]), Kind([p \in Assignments2D |-> Make(p)[n][2]]))
  /\ builds' = builds + 1
  /\ UNCHANGED changes

Numbers(f) == Number([p \in DOMAIN f |-> Num(f[p])])
IsLogical == meaning[last].logical

BuildNumber == ~IsLogical /\ Build(NumberTerms, Numbers, MaxBuilds)
BuildFunction == ~IsLogical /\ Build(FunctionTerms, Numbers, MaxBuilds)
BuildGeometry == ~IsLogical /\ Build(GeometryTerms, Numbers, MaxBuilds)
\* Only small numbers are ordered as the doubles are.
IsSmall == \A p \in Assignments2D : AbsOf(At(p)) * 10 < Modulus
BuildConstraint == ~IsLogical /\ IsSmall /\ Build(ConstraintTerms, Truth, MaxBuilds)
BuildLogic == IsLogical /\ Build(LogicTerms, Truth, MaxBuilds)
\* Term::FALSE is greater than 0, and a constraint that comes to be FALSE would count as met.
NeverFalse ==
  \A n \in ToSet(heap) : /\ False \notin ToSet(n.operands)
                         /\ n.class \in {"LTConstraint", "LTEConstraint"} =>
                              \E t \in ToSet(n.operands) : heap[t.k].class # "Constant"
BuildUtility == IsLogical /\ last # 2 /\ NeverFalse /\ Build(UtilityTerms, Numbers, MaxBuilds)

Change == changes < MaxChanges /\ changes' = changes + 1 /\ UNCHANGED builds

AggregateConstants == Change /\ Hold(Aggregate(heap, last), meaning[last])

NegateTerm ==
  /\ Change /\ IsLogical
  /\ Hold(Put(heap, Negate(This)), Truth([p \in Assignments2D |-> ~At(p)]))

DeriveTerm ==
  /\ Change /\ ~IsLogical /\ Derivable(This)
  /\ \E v \in 1..2 :
       Hold(Put(heap, Derivative(This, v)),
            Number([p \in Assignments2D |-> Dual(heap, last, p).gradient[v]]))

\* Terms built later are soft, those that stand stay as they are.
SetAndOr == IsLogical /\ ~softLogic /\ softLogic' = TRUE /\ UNCHANGED <<heap, last, meaning, builds, changes>>

TermNext ==
  \/ BuildNumber \/ BuildFunction \/ BuildGeometry \/ BuildConstraint \/ BuildLogic \/ BuildUtility
  \/ AggregateConstants \/ NegateTerm \/ DeriveTerm \/ SetAndOr

(***************************************************************************)
(* What the terms promise.                                                 *)
(***************************************************************************)
\* Every term keeps its meaning: a number its value at every assignment, a constraint the
\* assignments it holds at, whatever is built from it, aggregated or derived. The terms share
\* nodes, and aggregateConstants rewrites those in place.
MeaningKept ==
  \A id \in DOMAIN meaning : \A p \in Assignments2D :
    LET v == Dual(heap, id, p).value IN
    IF meaning[id].logical THEN (v > 0) = meaning[id].at[p] ELSE v = meaning[id].at[p]
=============================================================================
