---------------------------- MODULE CompiledTerms ----------------------------
(***************************************************************************)
(* CompiledDifferentiator: a term is compiled to a tape, operands before   *)
(* the elements that use them and a shared node only once. evaluate()      *)
(* walks the tape once; differentiate() walks it forward for the values    *)
(* and the weights of the edges and back for the adjoints. Values and      *)
(* weights stay in the tape from one call to the next.                     *)
(***************************************************************************)
EXTENDS Terms

CONSTANT MaxCalls    \* bound: the calls of evaluate and differentiate

VARIABLES
  tape,      \* the elements: class, inputs (edges: index and weight), k and value
  calls,     \* calls so far
  result     \* of the last call: [point, value, gradient], or NoCall

tapeVars == <<tape, calls, result>>
compiledVars == <<termVars, tapeVars>>

NoCall == [point |-> <<>>, value |-> 0, gradient |-> <<>>]

(***************************************************************************)
(* The compiler: what each class becomes, and the operands that become its *)
(* inputs, class by class as they stand in the file.                       *)
(***************************************************************************)
AbsToConstraintUtility ==
  [Abs |-> <<1>>, And |-> <<1, 2>>, Atan2 |-> <<1, 2>>, Constant |-> <<>>, ConstPower |-> <<1>>,
   ConstraintUtility |-> <<1, 2>>]
CosToLTConstraint == [Cos |-> <<1>>, Exp |-> <<1>>, Log |-> <<1>>, LTConstraint |-> <<1, 2>>]
LTEConstraintToReification ==
  [LTEConstraint |-> <<1, 2>>, Max |-> <<1, 2>>, Min |-> <<1, 2>>, Or |-> <<1, 2>>,
   Product |-> <<1, 2>>, Reification |-> <<1, 2>>]
SigmoidToZero == [Sigmoid |-> <<1, 2>>, Sin |-> <<1>>, TermPower |-> <<1, 2>>, Zero |-> <<>>]

InputsOf(n) ==
  IF n.class = "Sum" THEN [i \in DOMAIN n.operands |-> i]
  ELSE (AbsToConstraintUtility @@ CosToLTConstraint @@ LTEConstraintToReification @@ SigmoidToZero)[n.class]

\* A variable has its place already, any other term gets one when it is met first. t is the
\* tape and index the places of the terms on it.
RECURSIVE Compile(_, _), CompileAll(_, _)
CompileAll(c, ids) ==
  IF ids = <<>> THEN c ELSE Now({CompileAll(d, Tail(ids)) : d \in {Compile(c, Head(ids))}})
Compile(c, id) ==
  IF id \in DOMAIN c.index THEN c
  ELSE LET n == heap[id]
           below == CompileAll(c, [i \in DOMAIN InputsOf(n) |-> n.operands[InputsOf(n)[i]].k] \o <<>>)
           element == [class |-> n.class, k |-> n.k, value |-> IF n.class = "Constant" THEN n.k ELSE 0,
                       inputs |-> [i \in DOMAIN InputsOf(n) |->
                                     [index |-> below.index[n.operands[InputsOf(n)[i]].k], weight |-> 0]] \o <<>>]
       IN [tape |-> Append(below.tape, element), index |-> below.index @@ (id :> Len(below.tape) + 1)]

VariableElement == [class |-> "Variable", k |-> 0, value |-> 0, inputs |-> <<>>]
Compiler == [tape |-> <<VariableElement, VariableElement>>, index |-> (3 :> 1 @@ 4 :> 2)]

\* The constructor. A lone variable is compiled as its first power.
CompiledTape ==
  IF heap[last].class = "Variable"
  THEN Append(Compiler.tape, [class |-> "ConstPower", k |-> 1, value |-> 0,
                              inputs |-> <<[index |-> heap[last].k, weight |-> 0]>>])
  ELSE Compile(Compiler, last).tape

(***************************************************************************)
(* EvalVisitor: the value of an element from the values a of its inputs.   *)
(***************************************************************************)
EvalAbs(e, a) == AbsOf(a[1])
EvalAnd(e, a) == IF a[1] > 0 THEN a[2] ELSE IF a[2] > 0 THEN a[1] ELSE a[1] + a[2]
EvalAtan2(e, a) == StandIn("Atan2", Num(a[1] - 2 * a[2]))
EvalConstant(e, a) == e.value
EvalConstPower(e, a) == Pow(a[1], e.k)
EvalConstraintUtility(e, a) == IF a[1] < 1 THEN a[1] ELSE Num(a[1] * a[2])
EvalCos(e, a) == StandIn("Cos", a[1])
EvalExp(e, a) == StandIn("Exp", a[1])
EvalLog(e, a) == StandIn("Log", a[1])
EvalLTConstraint(e, a) == IF a[1] < a[2] THEN 1 ELSE Num(e.k * (a[2] - a[1]))
EvalLTEConstraint(e, a) == IF a[1] < a[2] THEN 1 ELSE Num(e.k * (a[2] - a[1]))
EvalMax(e, a) == Max({a[1], a[2]})
EvalMin(e, a) == Min({a[1], a[2]})
EvalOr(e, a) == IF a[1] > 0 THEN a[1] ELSE IF a[2] > 0 THEN a[2] ELSE a[1] + a[2]
EvalProduct(e, a) == Num(a[1] * a[2])
EvalReification(e, a) == IF a[1] > 0 THEN e.k ELSE -e.k
EvalSigmoid(e, a) == Quotient(1, 1 + StandIn("Exp", Num(e.k * (-a[1] + a[2]))))
EvalSin(e, a) == StandIn("Sin", a[1])
EvalSum(e, a) == SumOf(a)
EvalTermPower(e, a) == Pow(a[1], a[2])

EvalElement(e, a) ==
  CASE e.class = "Abs" -> EvalAbs(e, a)
    [] e.class = "And" -> EvalAnd(e, a)
    [] e.class = "Atan2" -> EvalAtan2(e, a)
    [] e.class \in {"Constant", "Zero"} -> EvalConstant(e, a)
    [] e.class = "ConstPower" -> EvalConstPower(e, a)
    [] e.class = "ConstraintUtility" -> EvalConstraintUtility(e, a)
    [] e.class = "Cos" -> EvalCos(e, a)
    [] e.class = "Exp" -> EvalExp(e, a)
    [] e.class = "Log" -> EvalLog(e, a)
    [] e.class = "LTConstraint" -> EvalLTConstraint(e, a)
    [] e.class = "LTEConstraint" -> EvalLTEConstraint(e, a)
    [] e.class = "Max" -> EvalMax(e, a)
    [] e.class = "Min" -> EvalMin(e, a)
    [] e.class = "Or" -> EvalOr(e, a)
    [] e.class = "Product" -> EvalProduct(e, a)
    [] e.class = "Reification" -> EvalReification(e, a)
    [] e.class = "Sigmoid" -> EvalSigmoid(e, a)
    [] e.class = "Sin" -> EvalSin(e, a)
    [] e.class = "Sum" -> EvalSum(e, a)
    [] e.class = "TermPower" -> EvalTermPower(e, a)

(***************************************************************************)
(* ForwardSweepVisitor: the value of an element and the weights of its     *)
(* inputs. w are the weights of the sweep before.                          *)
(***************************************************************************)
Sweep(value, weights) == [value |-> value, weights |-> weights]

ForwardAbs(e, a, w) == Sweep(AbsOf(a[1]), w)
\* A part that is neither violated nor better than 0.75 keeps the weight it had.
ForwardAnd(e, a, w) ==
  IF a[1] > 0 /\ a[2] > 0 THEN Sweep(1, <<0, 0>>)
  ELSE Sweep(SumOf(SelectSeq(a, LAMBDA v : v <= 0)), [i \in 1..2 |-> IF a[i] <= 0 THEN 1 ELSE w[i]])
ForwardAtan2(e, a, w) ==
  LET denom == Num(a[1] * a[1] + a[2] * a[2])
  IN Sweep(StandIn("Atan2", Num(a[1] - 2 * a[2])), <<Quotient(-a[2], denom), Quotient(a[1], denom)>>)
ForwardConstant(e, a, w) == Sweep(e.value, w)
ForwardConstPower(e, a, w) ==
  LET r == Pow(a[1], e.k - 1) IN Sweep(Num(r * a[1]), <<Num(e.k * r)>>)
ForwardConstraintUtility(e, a, w) ==
  IF a[1] > 0 THEN Sweep(a[2], <<0, 1>>) ELSE Sweep(a[1], <<1, 0>>)
ForwardCos(e, a, w) == Sweep(StandIn("Cos", a[1]), <<-StandIn("Sin", a[1])>>)
ForwardExp(e, a, w) == Sweep(StandIn("Exp", a[1]), <<StandIn("Exp", a[1])>>)
ForwardLog(e, a, w) == Sweep(StandIn("Log", a[1]), <<Quotient(1, a[1])>>)
ForwardLTConstraint(e, a, w) ==
  IF a[1] < a[2] THEN Sweep(1, <<0, 0>>) ELSE Sweep(Num(e.k * (a[2] - a[1])), <<-e.k, e.k>>)
ForwardLTEConstraint(e, a, w) ==
  IF a[1] <= a[2] THEN Sweep(1, <<0, 0>>) ELSE Sweep(Num(e.k * (a[2] - a[1])), <<-e.k, e.k>>)
ForwardMax(e, a, w) == Sweep(Max({a[1], a[2]}), IF a[1] > a[2] THEN <<1, 0>> ELSE <<0, 1>>)
ForwardMin(e, a, w) == Sweep(Min({a[1], a[2]}), IF a[1] < a[2] THEN <<1, 0>> ELSE <<0, 1>>)
ForwardOr(e, a, w) ==
  IF a[1] > 0 \/ a[2] > 0 THEN Sweep(1, <<0, 0>>)
  ELSE Sweep(SumOf(SelectSeq(a, LAMBDA v : v <= 0)), [i \in 1..2 |-> IF a[i] <= 0 THEN 1 ELSE 0])
ForwardProduct(e, a, w) == Sweep(Num(a[1] * a[2]), <<a[2], a[1]>>)
ForwardReification(e, a, w) ==
  LET d == 2 * e.k IN IF a[1] > 0 THEN Sweep(e.k, <<0, -d>>) ELSE Sweep(-e.k, <<d, 0>>)
ForwardSigmoid(e, a, w) ==
  LET x  == StandIn("Exp", Num(e.k * (-a[1] + a[2])))
      e2 == Quotient(Num(e.k * x), Num((x + 1) * (x + 1)))
  IN Sweep(Quotient(1, 1 + x), <<e2, -e2>>)
ForwardSin(e, a, w) == Sweep(StandIn("Sin", a[1]), <<StandIn("Cos", a[1])>>)
ForwardSum(e, a, w) == Sweep(SumOf(a), [i \in DOMAIN a |-> 1])
ForwardTermPower(e, a, w) ==
  Sweep(Pow(a[1], a[2]), <<Num(a[2] * Pow(a[1], a[2] - 1)), Num(Pow(a[1], a[2]) * StandIn("Log", a[1]))>>)

ForwardElement(e, a, w) ==
  CASE e.class = "Abs" -> ForwardAbs(e, a, w)
    [] e.class = "And" -> ForwardAnd(e, a, w)
    [] e.class = "Atan2" -> ForwardAtan2(e, a, w)
    [] e.class \in {"Constant", "Zero"} -> ForwardConstant(e, a, w)
    [] e.class = "ConstPower" -> ForwardConstPower(e, a, w)
    [] e.class = "ConstraintUtility" -> ForwardConstraintUtility(e, a, w)
    [] e.class = "Cos" -> ForwardCos(e, a, w)
    [] e.class = "Exp" -> ForwardExp(e, a, w)
    [] e.class = "Log" -> ForwardLog(e, a, w)
    [] e.class = "LTConstraint" -> ForwardLTConstraint(e, a, w)
    [] e.class = "LTEConstraint" -> ForwardLTEConstraint(e, a, w)
    [] e.class = "Max" -> ForwardMax(e, a, w)
    [] e.class = "Min" -> ForwardMin(e, a, w)
    [] e.class = "Or" -> ForwardOr(e, a, w)
    [] e.class = "Product" -> ForwardProduct(e, a, w)
    [] e.class = "Reification" -> ForwardReification(e, a, w)
    [] e.class = "Sigmoid" -> ForwardSigmoid(e, a, w)
    [] e.class = "Sin" -> ForwardSin(e, a, w)
    [] e.class = "Sum" -> ForwardSum(e, a, w)
    [] e.class = "TermPower" -> ForwardTermPower(e, a, w)

(***************************************************************************)
(* The sweeps.                                                             *)
(***************************************************************************)
SetVariables(t, p) == [t EXCEPT ![1].value = p[1], ![2].value = p[2]]
Inputs(t, n) == [i \in DOMAIN t[n].inputs |-> t[t[n].inputs[i].index].value] \o <<>>
Weights(e) == [i \in DOMAIN e.inputs |-> e.inputs[i].weight] \o <<>>


\* From element n on.
RECURSIVE EvaluateFrom(_, _), ForwardFrom(_, _), ReverseFrom(_, _, _)
EvaluateFrom(t, n) ==
  IF n > Len(t) THEN t
  ELSE Now({EvaluateFrom([t EXCEPT ![n].value = v], n + 1) : v \in {EvalElement(t[n], Inputs(t, n))}})
EvaluateTape(p) == EvaluateFrom(SetVariables(tape, p), 3)

Swept(e, s) ==
  [e EXCEPT !.value = s.value, !.inputs = [i \in DOMAIN @ |-> [@[i] EXCEPT !.weight = s.weights[i]]] \o <<>>]
ForwardFrom(t, n) ==
  IF n > Len(t) THEN t
  ELSE Now({ForwardFrom([t EXCEPT ![n] = Swept(@, s)], n + 1) :
              s \in {ForwardElement(t[n], Inputs(t, n), Weights(t[n]))}})
ForwardSweep(p) == ForwardFrom(SetVariables(tape, p), 3)

\* The adjoints of the swept tape t: from the root, which has 1, down to the variables.
AddAdjoint_Sets(adjoints, adjoint, edge) ==   \* mutant: the adjoint of a shared node is set, not added to
  [adjoints EXCEPT ![edge.index] = Num(adjoint * edge.weight)]
AddAdjoint(adjoints, adjoint, edge) ==
  [adjoints EXCEPT ![edge.index] = Num(@ + Num(adjoint * edge.weight))]
ReverseFrom(t, adjoints, n) ==
  IF n < 3 THEN adjoints
  ELSE Now({ReverseFrom(t, a, n - 1) :
              a \in {FoldLeft(LAMBDA acc, edge : AddAdjoint(acc, adjoints[n], edge), adjoints, t[n].inputs)}})
ReverseSweep(t) == ReverseFrom(t, [n \in DOMAIN t |-> IF n = Len(t) THEN 1 ELSE 0] \o <<>>, Len(t))

CompiledInit == TermInit /\ tape = <<>> /\ calls = 0 /\ result = NoCall

CompileTerm ==
  /\ tape = <<>>
  /\ tape' = CompiledTape
  /\ UNCHANGED <<termVars, calls, result>>

Call == tape # <<>> /\ calls < MaxCalls /\ calls' = calls + 1 /\ UNCHANGED termVars

Evaluate ==
  /\ Call
  /\ \E p \in Assignments2D :
       /\ tape' = EvaluateTape(p)
       /\ result' = [point |-> p, value |-> Last(tape').value, gradient |-> <<>>]

Differentiate ==
  /\ Call
  /\ \E p \in Assignments2D :
       /\ tape' = ForwardSweep(p)
       /\ result' = [point |-> p, value |-> Last(tape').value, gradient |-> SubSeq(ReverseSweep(tape'), 1, 2)]

CompiledNext ==
  \/ tape = <<>> /\ TermNext /\ UNCHANGED tapeVars
  \/ CompileTerm \/ Evaluate \/ Differentiate

(***************************************************************************)
(* What a compiled term promises.                                          *)
(***************************************************************************)
\* Classes whose weights are no derivatives: abs has none, atan2's have the wrong sign, and a
\* reification, which is a step, follows its condition.
HasSlope == \A n \in DOMAIN tape : tape[n].class \notin {"Abs", "Atan2", "Reification"}

\* evaluate() gives a comparison x <= y of equal sides 0 instead of 1.
NoTie(p) ==
  \A id \in DOMAIN heap :
    heap[id].class = "LTEConstraint" =>
      Dual(heap, heap[id].operands[1].k, p).value # Dual(heap, heap[id].operands[2].k, p).value

\* A compiled term has the value of the term, and its gradient by reverse accumulation over the
\* tape is the one the chain rule gives, also where the term shares nodes and whatever earlier
\* calls left in the tape.
GradientRight ==
  result # NoCall =>
    LET d == Dual(heap, last, result.point) IN
    IF result.gradient = <<>> THEN NoTie(result.point) => result.value = d.value
    ELSE result.value = d.value /\ (HasSlope => result.gradient = d.gradient)
=============================================================================
