------------------------------ MODULE TermHeap ------------------------------
(***************************************************************************)
(* The heap of terms that autodiff builds and rewrites, and that interval  *)
(* propagation narrows.                                                    *)
(***************************************************************************)
EXTENDS Integers, SequencesExt, TLC

VARIABLE heap  \* id -> the node: its class, its operands, its constant, exponent or steepness,
               \* and the id of its negation, once negate() of a comparison has made that

\* The element of a set of one. TLC evaluates it at once, where an operand has to wait: a long
\* computation x, then f(x) is written Now({f(y) : y \in {x}}).
Now(S) == CHOOSE x \in S : TRUE

\* An operand is a reference to a node of the heap, or a node that is about to be put there.
Node(class, operands, k) == [class |-> class, operands |-> operands, k |-> k, negatedform |-> 0]
Ref(id) == Node("ref", <<>>, id)

=============================================================================
