--------------------------- MODULE MCAdaptation ---------------------------
(***************************************************************************)
(* An instance of Adaptation for TLC: a builtin validator, which comes     *)
(* first in the order of invocation, a launched plugin and external ones.  *)
(***************************************************************************)
EXTENDS Adaptation, TLC

CONSTANTS b, l, e, t1, t2, c1, c2

MCIdx == [p \in Plugin |-> CASE p = b -> 3 [] p = e -> 2 [] OTHER -> 5]
MCMasks == {{}, {"create", "remove"}}
MCEveryEvent == {{}}
Symmetry == Permutations(Thread) \cup Permutations(Container)
=============================================================================
