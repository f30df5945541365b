------------------------- MODULE MCDefaultValidator -------------------------
(***************************************************************************)
(* Three plugins are the fewest of which one can come between two others;  *)
(* two keys let a response conflict in one item and not in the other.  For *)
(* every kind the validator rejects what it can or nothing; annotations of *)
(* all scopes go with CDI devices, of which the validator looks at nothing *)
(* else and there are the fewest combinations.                             *)
(***************************************************************************)
EXTENDS DefaultValidator

CONSTANTS k1, k2

MCKeys == {k1, k2}
AllKinds == Listed \cup Mapped

MCConfigs(k) ==
    IF k = "cdi"
    THEN [reject : {{}}, required : {{}, {1}, {1, Absent}}, toleration : BOOLEAN]
    ELSE [reject : {{}, Options}, required : {{}}, toleration : {FALSE}]

Annotations(values) ==
    UNION {[scopes -> values] : scopes \in SUBSET {"container", "pod", "key"}}
MCPods(k) ==
    IF k = "cdi"
    THEN [tolerate : Annotations({TRUE, FALSE}) \cup Annotations({Garbage}),
          required : Annotations({{2}, {Absent}}) \cup Annotations({Garbage})]
    ELSE {[tolerate |-> <<>>, required |-> <<>>]}
=============================================================================
