-------------------------- MODULE FormulaTransform --------------------------
(***************************************************************************)
(* FormulaTransform: a constraint becomes clauses for the SAT solver. Each *)
(* step takes the first clause that still holds a temporary literal and    *)
(* expands that literal. Clauses that are split share their Lit objects,   *)
(* so a literal that is settled in one of them is settled in the other.    *)
(***************************************************************************)
EXTENDS Terms

CONSTANT MaxLogic    \* bound: the terms built when the last one is a constraint

VARIABLES
  clauses,    \* the list: [literals, isFinished, isTautologic], the literals by number
  lits,       \* number -> the Lit object: [atom, sign, isTemporary, var]
  variables,  \* the solver's variables: the id of the term each stands for
  atoms,      \* the id of a term -> its variable
  clauseIter  \* where doTransform is in the list, or 0 before transformToCNF

transformVars == <<clauses, lits, variables, atoms, clauseIter>>
formulaTransformVars == <<termVars, transformVars>>

TransformInit ==
  TermInit /\ clauses = <<>> /\ lits = <<>> /\ variables = <<>> /\ atoms = <<>> /\ clauseIter = 0

Lit(id) == [atom |-> id, sign |-> "UNASSIGNED", isTemporary |-> TRUE, var |-> 0]
NewClause(literals) == [literals |-> literals, isFinished |-> FALSE, isTautologic |-> FALSE]

\* Clause::addChecked of literal l to c, when the Lit objects are objs. A temporary literal is
\* compared with the temporary ones only.
AddChecked(c, l, objs) ==
  LET same == SelectSeq(c.literals, LAMBDA m : objs[m].atom = objs[l].atom
                                               /\ (objs[l].isTemporary => objs[m].isTemporary))
  IN IF same = <<>> THEN [c EXCEPT !.literals = Append(@, l)]
     ELSE IF ~objs[l].isTemporary /\ objs[same[1]].sign # objs[l].sign
          THEN [c EXCEPT !.literals = <<>>, !.isTautologic = TRUE]
          ELSE c

\* CNSMTGSolver::solve aggregates the constraint and has it transformed.
TransformToCNF ==
  /\ clauseIter = 0 /\ IsLogical
  /\ LET r == Aggregate(heap, last) IN
       /\ heap' = r.heap
       /\ lits' = <<Lit(r.id)>>
  /\ clauses' = <<NewClause(<<1>>)>>
  /\ clauseIter' = 1
  /\ UNCHANGED <<last, meaning, softLogic, builds, changes, variables, atoms>>

Current == clauses[clauseIter]
Temporary == {j \in DOMAIN Current.literals : lits[Current.literals[j]].isTemporary}

FinishClause ==
  /\ clauseIter \in DOMAIN clauses /\ Temporary = {}
  /\ clauses' = [clauses EXCEPT ![clauseIter].isFinished = TRUE]
  /\ clauseIter' = clauseIter + 1
  /\ UNCHANGED <<termVars, lits, variables, atoms>>

\* performStep on the first temporary literal of a clause. The clause leaves its place, and
\* what becomes of it goes to the end of the list.
First == CHOOSE j \in Temporary : \A i \in Temporary : j <= i
CurLit == Current.literals[First]
Formula == heap[lits[CurLit].atom]
Rest == [Current EXCEPT !.literals = RemoveAt(@, First)]
Stepping(classes) == clauseIter \in DOMAIN clauses /\ Temporary # {} /\ Formula.class \in classes
Replace(new) == clauses' = RemoveAt(clauses, clauseIter) \o new

\* The operands become two new temporary literals.
Left == Len(lits) + 1
Right == Len(lits) + 2
WithOperands == lits \o <<Lit(Formula.operands[1].k), Lit(Formula.operands[2].k)>>

SplitDisjunction ==
  /\ Stepping({"Max", "Or"})
  /\ lits' = WithOperands
  /\ Replace(<<AddChecked(AddChecked(Rest, Left, lits'), Right, lits')>>)
  /\ UNCHANGED <<termVars, variables, atoms, clauseIter>>

SplitConjunction_NoClone ==   \* mutant: both literals join one clause, the clause is not cloned
  /\ Stepping({"And", "Min"})
  /\ lits' = WithOperands
  /\ LET both == AddChecked(AddChecked(Rest, Left, lits'), Right, lits') IN Replace(<<both, both>>)
  /\ UNCHANGED <<termVars, variables, atoms, clauseIter>>

SplitConjunction ==
  /\ Stepping({"And", "Min"})
  /\ lits' = WithOperands
  /\ Replace(<<AddChecked(Rest, Left, lits'), AddChecked(Rest, Right, lits')>>)
  /\ UNCHANGED <<termVars, variables, atoms, clauseIter>>

\* A literal over the comparison with the given id, with that comparison's variable.
Settle(id, sign) ==
  LET known == id \in DOMAIN atoms
      v     == IF known THEN atoms[id] ELSE Len(variables) + 1
  IN /\ lits' = [lits EXCEPT ![CurLit] = [atom |-> id, sign |-> sign, isTemporary |-> FALSE, var |-> v]]
     /\ variables' = IF known THEN variables ELSE Append(variables, id)
     /\ atoms' = IF known THEN atoms ELSE atoms @@ (id :> v)
     /\ Replace(<<AddChecked(Rest, CurLit, lits')>>)
     /\ UNCHANGED clauseIter

TakeLTConstraint ==
  /\ Stepping({"LTConstraint"})
  /\ Settle(lits[CurLit].atom, "TRUE")
  /\ UNCHANGED termVars

\* x <= y is taken as the negation of y < x, the one that negate() keeps.
TakeLTEConstraint ==
  /\ Stepping({"LTEConstraint"})
  /\ LET r == NegateComparison(heap, lits[CurLit].atom) IN heap' = r.heap /\ Settle(r.id, "FALSE")
  /\ UNCHANGED <<last, meaning, softLogic, builds, changes>>

\* The clause goes if the constant is positive, as Term::FALSE is, too.
TakeConstant ==
  /\ Stepping({"Constant"})
  /\ Replace(IF Formula.k > 0 \/ lits[CurLit].atom = 2 THEN <<>> ELSE <<Rest>>)
  /\ UNCHANGED <<termVars, lits, variables, atoms, clauseIter>>

\* Formulas may be larger than other terms.
BuildFormula == IsLogical /\ Build(LogicTerms, Truth, MaxLogic)

TransformNext ==
  \/ /\ clauseIter = 0 /\ UNCHANGED transformVars
     /\ BuildConstraint \/ BuildFormula \/ SetAndOr
  \/ TransformToCNF
  \/ FinishClause \/ SplitDisjunction \/ SplitConjunction
  \/ TakeLTConstraint \/ TakeLTEConstraint \/ TakeConstant

\* A settled literal is what the SAT solver sees: a variable and a sign.
LitHolds(l, p) ==
  LET holds == Dual(heap, IF l.isTemporary THEN l.atom ELSE variables[l.var], p).value > 0
  IN IF l.isTemporary THEN holds ELSE holds = (l.sign = "TRUE")

\* The clauses say what the formula says, after every step of the transformation, at every
\* assignment: a literal that clauses share is settled in one of them for both, a comparison and
\* its negation share a variable that they name with opposite signs, a clause that comes to hold
\* both is a tautology and loses its literals, and of equal literals the one that addChecked
\* meets is dropped. Term::FALSE, which counts as a positive constant here, must not be part of
\* the formula.
ClausesEquivalent ==
  clauseIter > 0 /\ (\A n \in ToSet(heap) : False \notin ToSet(n.operands)) /\ (\A l \in ToSet(lits) : l.atom # 2) =>
    \A p \in Assignments2D :
      At(p) = \A c \in ToSet(clauses) : c.isTautologic \/ \E l \in ToSet(c.literals) : LitHolds(lits[l], p)

=============================================================================
