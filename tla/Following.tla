------------------------------ MODULE Following ------------------------------
(***************************************************************************)
(* What the Adaptation promises a runtime and the plugins that subscribed  *)
(* to both the creation and the removal of containers: a plugin starts     *)
(* with exactly the containers there are, at a moment when none is being   *)
(* created or removed; it then hears of each of them once, in the order of *)
(* indices; and a container comes to be when every such plugin knows it    *)
(* and is gone when none does.  Locks, queues, connections, timeouts and   *)
(* the plugins that follow less are left out.                              *)
(***************************************************************************)
EXTENDS Naturals

CONSTANTS
    Plugin,
    Container,
    Idx         \* the index of each plugin

VARIABLES
    containers, \* those the runtime has
    creating,   \* those it is creating
    removing,   \* those it is removing
    doubtful,   \* those whose creation or removal failed half-way
    known       \* the containers known to each plugin that follows

vars == <<containers, creating, removing, doubtful, known>>

Followers == DOMAIN known
Before(p) == {q \in Followers : Idx[q] < Idx[p]}

Init ==
    /\ containers \in SUBSET Container
    /\ creating = {}
    /\ removing = {}
    /\ doubtful = {}
    /\ known = [p \in {} |-> {}]

\* Plugins come in only while the set of containers is not about to change.
Join(S) ==
    /\ creating = {} /\ removing = {}
    /\ known' = [p \in Followers \cup S |-> IF p \in Followers THEN known[p] ELSE containers]
    /\ UNCHANGED <<containers, creating, removing, doubtful>>

\* Plugins are lost at any time.
Leave(S) ==
    /\ known' = [p \in Followers \ S |-> known[p]]
    /\ UNCHANGED <<containers, creating, removing, doubtful>>

Begin(c) ==
    /\ c \notin creating \cup removing
    /\ IF c \in containers THEN /\ removing' = removing \cup {c}
                                /\ UNCHANGED creating
                           ELSE /\ creating' = creating \cup {c}
                                /\ UNCHANGED removing
    /\ UNCHANGED <<containers, doubtful, known>>

\* A plugin hears of a container that is new to it, after those before it.
Learn(p, c) ==
    /\ c \in creating
    /\ \A q \in Before(p) : c \in known[q]
    /\ c \in known[p] => c \in doubtful
    /\ known' = [known EXCEPT ![p] = @ \cup {c}]
    /\ UNCHANGED <<containers, creating, removing, doubtful>>

Forget(p, c) ==
    /\ c \in removing
    /\ \A q \in Before(p) : c \notin known[q]
    /\ c \in known[p]
    /\ known' = [known EXCEPT ![p] = @ \ {c}]
    /\ UNCHANGED <<containers, creating, removing, doubtful>>

Create(c) ==
    /\ c \in creating
    /\ \A p \in Followers : c \in known[p]
    /\ containers' = containers \cup {c}
    /\ creating' = creating \ {c}
    /\ UNCHANGED <<removing, doubtful, known>>

Remove(c) ==
    /\ c \in removing
    /\ \A p \in Followers : c \notin known[p]
    /\ containers' = containers \ {c}
    /\ removing' = removing \ {c}
    /\ doubtful' = doubtful \ {c}
    /\ UNCHANGED <<creating, known>>

\* The runtime gives up; nobody can tell any more which plugins know.
Abandon(c) ==
    /\ c \in creating \cup removing
    /\ containers' = containers \ {c}
    /\ creating' = creating \ {c}
    /\ removing' = removing \ {c}
    /\ doubtful' = doubtful \cup {c}
    /\ UNCHANGED known

Next ==
    \/ \E S \in SUBSET Plugin : Join(S) \/ Leave(S)
    \/ \E c \in Container : Begin(c) \/ Create(c) \/ Remove(c) \/ Abandon(c)
    \/ \E p \in Followers, c \in Container : Learn(p, c) \/ Forget(p, c)

Spec == Init /\ [][Next]_vars
=============================================================================
