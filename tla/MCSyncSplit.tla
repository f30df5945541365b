---------------------------- MODULE MCSyncSplit ----------------------------
(***************************************************************************)
(* Loads for TLC: all objects are of size one, except perhaps that the     *)
(* first or the last container is large, over limits from less than        *)
(* minObjsPerMsg objects to more than half of the largest state.           *)
(***************************************************************************)
EXTENDS SyncSplit, FiniteSets

CONSTANTS Pods, Ctrs, Large, Limits

Sizes(n, large) == [i \in 1..n |-> i + Cardinality({j \in large : j <= i}) * (Large - 1)]

MCLoads ==
    {[pods |-> Sizes(p, {}), ctrs |-> Sizes(c, h \cap {1, c}), max |-> m, split |-> s] :
        p \in Pods, c \in Ctrs, h \in {{}, {1}, Ctrs \ {1}}, m \in Limits, s \in BOOLEAN}
=============================================================================
