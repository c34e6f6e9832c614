------------------------------ MODULE Intervals ------------------------------
(***************************************************************************)
(* The interval propagation of constraintsolver, on the terms of autodiff: *)
(* propagateSingle resets the intervals of a term and the parents of its   *)
(* nodes, queues them all, and leaves the rest to Propagators.             *)
(***************************************************************************)
EXTENDS Terms, Propagators

CONSTANTS
  Limits,         \* the global ranges of x and y to look at: pairs of intervals
  MaxPropagations \* bound: the calls of propagateSingle in a behaviour

VARIABLES
  limits,         \* the global ranges of this behaviour
  root,           \* the term under propagation
  start,          \* history: the intervals this propagation began with
  propagations

intervalVars == <<limits, root, start, propagations, propagatorVars>>

IntervalInit ==
  /\ limits \in Limits
  /\ interval = <<>> /\ parents = <<>> /\ changed = <<>>
  /\ root = 0 /\ outcome = "idle" /\ start = <<>> /\ undefined = FALSE
  /\ propagations = 0

(***************************************************************************)
(* ResetIntervals and SetParents.                                          *)
(***************************************************************************)
\* The constructor of Term, and of Reification.
FreshInterval(n) == IF n.class = "Reification" THEN Between(-n.k, n.k) ELSE Between(0, Largest)

ResetInterval(n, old) ==
  CASE n.class \in {"Abs", "Exp"} -> Between(0, Infinity)
    [] n.class \in {"And", "Or", "LTConstraint", "LTEConstraint"} -> Between(-Infinity, 1)
    [] n.class \in {"Constant", "Zero"} -> Between(n.k, n.k)
    [] n.class = "ConstPower" /\ n.k = 0 -> Between(0, 0)
    [] n.class = "ConstPower" /\ n.k # 0 /\ n.k % 2 = 0 -> Between(0, Infinity)
    [] n.class = "ConstraintUtility" -> Between(1, Infinity)
    [] n.class = "Sigmoid" -> Between(0, 1)
    [] n.class \in {"Sum", "Reification"} -> old
    [] n.class = "Variable" -> limits[n.k]
    [] n.class = "Atan2" -> Between(-4, 4)
    [] OTHER -> Whole

\* The operands the visitors descend to.
Descended(n) == IF n.class = "Reification" THEN {n.operands[1].k} ELSE {t.k : t \in ToSet(n.operands)}

\* What reset reaches from a node: nothing at all below a sum.
RECURSIVE ResetReach(_, _)
ResetReach(h, id) ==
  IF h[id].class = "Sum" THEN {} ELSE {id} \union UNION {ResetReach(h, t) : t \in Descended(h[id])}

\* RecursivePropagate's first pass: the nodes of the term but constants, each once, a node before
\* its operands.
RECURSIVE Preorder(_, _, _)
Preorder(h, ids, queue) ==
  IF ids = <<>> THEN queue
  ELSE LET id == Head(ids)
           n == h[id]
           next == IF n.class = "Reification" THEN <<n.operands[1].k>>
                   ELSE [i \in DOMAIN n.operands |-> n.operands[i].k]
       IN Preorder(h, next \o Tail(ids), IF n.class \in {"Constant", "Zero"} \/ id \in ToSet(queue) THEN queue ELSE Append(queue, id))

\* Every node of the queue becomes a parent of its operands, once more than it may be already.
ParentsOf(h, queue, id) ==
  FlattenSeq([i \in DOMAIN queue |->
    IF h[queue[i]].class = "Reification"
    THEN IF h[queue[i]].operands[1].k = id THEN <<queue[i]>> ELSE <<>>
    ELSE LET uses == SelectSeq(h[queue[i]].operands, LAMBDA t : t.k = id)
         IN [j \in DOMAIN uses |-> queue[i]]])

\* propagateSingle: the term, or its negation, is to hold, which is the interval [1, 1].
PropagateSingle(sign) ==
  /\ outcome \in {"idle", "propagated", "unsolvable"} /\ propagations < MaxPropagations
  /\ LET r == IF sign THEN [heap |-> heap, id |-> last] ELSE Put(heap, Negate(This))
         reach == ResetReach(r.heap, r.id)
         queue == Preorder(r.heap, <<r.id>>, <<>>)
         Old(id) == IF id \in DOMAIN interval THEN interval[id] ELSE FreshInterval(r.heap[id])
     IN /\ heap' = r.heap /\ root' = r.id
        /\ interval' = [id \in DOMAIN r.heap |->
                          CASE id = r.id -> Between(1, 1)
                            [] r.heap[id].class = "Variable" -> limits[r.heap[id].k]
                            [] id # r.id /\ r.heap[id].class # "Variable" ->
                                 IF id \in reach THEN ResetInterval(r.heap[id], Old(id)) ELSE Old(id)]
        /\ parents' = [id \in DOMAIN r.heap |->
                         (IF id \in DOMAIN parents /\ id \notin reach THEN parents[id] ELSE <<>>)
                           \o ParentsOf(r.heap, queue, id)]
        /\ changed' = queue
  /\ start' = interval'
  /\ undefined' = FALSE
  /\ outcome' = "propagating"
  /\ propagations' = propagations + 1
  /\ UNCHANGED <<last, meaning, softLogic, builds, changes, limits>>

\* The terms this module covers.
IsPropagable ==
  \A n \in ToSet(heap) : n.class \notin {"Sin", "Cos", "Exp", "Log"} /\ (n.class = "ConstPower" => n.k > 0)

IntervalNext ==
  \/ /\ outcome = "idle" /\ UNCHANGED intervalVars
     /\ BuildNumber \/ BuildFunction \/ BuildConstraint \/ BuildLogic \/ BuildUtility \/ SetAndOr
  \/ IsLogical /\ IsPropagable /\ \E sign \in BOOLEAN : PropagateSingle(sign)
  \/ /\ PropagateNode \/ FinishPropagation
     /\ UNCHANGED <<last, meaning, softLogic, builds, changes, limits, root, start, propagations>>

(***************************************************************************)
(* What the propagation promises.                                          *)
(***************************************************************************)
Assigned == {p \in [1..2 -> -9..9] : \A v \in 1..2 : Inside(p[v], limits[v])}
\* The nodes a propagation can come to: those of the term, and the parents left from before.
RECURSIVE Concerned(_)
Concerned(ids) ==
  Now({IF more \subseteq ids THEN ids ELSE Concerned(ids \union more) :
         more \in {UNION {Descended(heap[id]) \union ToSet(parents[id]) : id \in ids}}})

\* No solution is cut off: an assignment that makes the term hold, and fits the intervals the
\* propagation starts from, stays inside the ranges of the variables, and the term is not called
\* unsolvable. Nothing is promised once 0 was multiplied by an infinity.
NoSolutionCut ==
  outcome \in {"propagated", "unsolvable"} /\ ~undefined =>
    \A p \in Assigned :
      (\A id \in Concerned({root}) : Inside(Dual(heap, id, p).value, start[id])) =>
        outcome = "propagated" /\ \A v \in 1..2 : Inside(p[v], interval[2 + v])

=============================================================================
