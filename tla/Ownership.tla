----------------------------- MODULE Ownership ------------------------------
(***************************************************************************)
(* What the merging of adjustments promises to plugins 1..N, which ask in  *)
(* this order for changes of the items of a container: what a plugin set   *)
(* stays its own unless a later one asks for its removal, with or without  *)
(* setting the item anew, and nobody is refused but over an item that an   *)
(* earlier plugin, or the same one, has asked something about.  Records of *)
(* owners, replies and marks of removal are left out.                      *)
(***************************************************************************)
EXTENDS Naturals

CONSTANTS
    N,      \* number of plugins
    Keys,   \* items
    Nobody

Plugins == 1..N

\* "twice" is to ask for two things where only one may be asked for.
Wishes == {"keep", "set", "remove", "replace", "twice"}
Setting == {"set", "replace"}

VARIABLES
    turn,   \* plugins that have asked
    wishes, \* what each asked for, per item
    holder, \* whose the setting of each item is
    outcome \* of the creation

vars == <<turn, wishes, holder, outcome>>

Touched(k) == \E p \in Plugins : wishes[p][k] # "keep"
SetBefore(k) == \E p \in Plugins : wishes[p][k] \in Setting

Init ==
    /\ turn = 0
    /\ wishes = [p \in Plugins |-> [k \in Keys |-> "keep"]]
    /\ holder = [k \in Keys |-> Nobody]
    /\ outcome = "merging"

Ask(wish) ==
    /\ outcome = "merging"
    /\ turn < N
    /\ turn' = turn + 1
    /\ wishes' = [wishes EXCEPT ![turn + 1] = wish]

Grant(wish) ==
    /\ Ask(wish)
    /\ \A k \in Keys : /\ wish[k] # "twice"
                       /\ wish[k] = "set" => ~SetBefore(k)
    /\ holder' = [k \in Keys |-> IF wish[k] \in Setting THEN turn + 1
                                 ELSE IF wish[k] = "remove" THEN Nobody ELSE holder[k]]
    /\ UNCHANGED outcome

Refuse(wish) ==
    /\ Ask(wish)
    /\ \E k \in Keys : wish[k] = "twice" \/ (wish[k] # "keep" /\ Touched(k))
    /\ outcome' = "failed"
    /\ UNCHANGED holder

Crash(wish) ==
    /\ Ask(wish)
    /\ \E k \in Keys : wish[k] \in Setting
    /\ outcome' = "panicked"
    /\ UNCHANGED holder

Finish ==
    /\ outcome = "merging"
    /\ turn = N
    /\ outcome' = "created"
    /\ UNCHANGED <<turn, wishes, holder>>

Next ==
    \/ \E wish \in [Keys -> Wishes] : Grant(wish) \/ Refuse(wish) \/ Crash(wish)
    \/ Finish

Spec == Init /\ [][Next]_vars
=============================================================================
