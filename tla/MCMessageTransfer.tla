------------------------------- MODULE MCMessageTransfer -------------------------------
(***************************************************************************)
(* The codec of all messages of the protocol, for values that are zero,    *)
(* small, negative, long, empty, nested and repeated.                      *)
(***************************************************************************)
EXTENDS MessageTransfer

MCMessageTypes == DOMAIN Types

Letter(c) == <<c>>
LongString == [i \in 1..130 |-> 120]

NegativeOne == [i \in 1..10 |-> IF i = 10 THEN 1 ELSE 127]
Most32 == <<127, 127, 127, 127, 15>>

Numbers32 == [bool |-> {<<>>, <<1>>}, int32 |-> {<<>>, <<44, 2>>, NegativeOne},
              uint32 |-> {<<5>>, Most32}, int64 |-> {<<5>>, NegativeOne},
              uint64 |-> {<<5>>, NegativeOne}]

\* Values of a type of field; the richest one has all fields set, in messages
\* nested up to depth.
RECURSIVE Richest(_, _)
Full(t, depth) == [f \in DOMAIN Types[t] |-> Richest(Types[t][f], depth)]

Richest(ft, depth) ==
  LET Nested(t) == IF depth = 0 THEN <<>> ELSE Full(t, depth - 1)
  IN  CASE ft.kind = "varint"   -> IF ft.of = "bool" THEN <<1>> ELSE <<44, 2>>
        [] ft.kind = "string"   -> Letter(97)
        [] ft.kind = "strings"  -> <<Letter(97), <<>>, Letter(98)>>
        [] ft.kind = "packed"   -> <<<<5>>, <<>>, <<44, 2>>>>
        [] ft.kind = "message"  -> Nested(ft.of)
        [] ft.kind = "messages" -> <<Nested(ft.of), <<>>, Nested(ft.of)>>
        [] ft.kind = "map"      ->
             [k \in IF ft.key = "string" THEN {Letter(107), <<>>} ELSE {<<5>>, NegativeOne} |->
                IF ft.value = String THEN k ELSE Nested(ft.value.of)]

Values(ft) ==
  {Richest(ft, 2)} \cup
  CASE ft.kind = "varint"  -> Numbers32[ft.of]
    [] ft.kind = "string"  -> {<<>>, LongString}
    [] ft.kind = "packed"  -> {<<IF ft.of = "int32" THEN NegativeOne ELSE Most32>>}
    [] ft.kind = "message" -> {<<>>}
    [] OTHER               -> {<<>>}

MCMessages ==
  [t \in MCMessageTypes |->
     {<<>>, Full(t, 1)} \cup UNION {{[g \in {f} |-> v] : v \in Values(Types[t][f])} : f \in DOMAIN Types[t]}]
=============================================================================
