-------------------------------- MODULE Codec -------------------------------
(***************************************************************************)
(* The generated codec of the protocol messages (MarshalVT, SizeVT and     *)
(* UnmarshalVT in pkg/api/api_vtproto.pb.go), which carries every call to a*)
(* WebAssembly plugin.  The code of all messages follows one scheme, which *)
(* the operators below give once; what differs is in ApiTables.            *)
(*                                                                         *)
(* A message is a function on the fields that are set.                     *)
(***************************************************************************)
EXTENDS Wire, ApiTypes, ApiTables, SequencesExt
-----------------------------------------------------------------------------
IsSetMutant(t, m, f) == f \in DOMAIN m /\ m[f] # <<>>  \* Mutant: empty messages forgotten

\* A field is written if it is set: a message is when it is there at all,
\* anything else when it is not zero or empty.
IsSet(t, m, f) == /\ f \in DOMAIN m
                  /\ Types[t][f].kind = "message" \/ m[f] # <<>>

Unknown(m) == IF "unknownFields" \in DOMAIN m THEN m["unknownFields"] ELSE <<>>
-----------------------------------------------------------------------------
\* SizeVT.
Prefixed(n) == sov(Groups(n)) + n
SumOf(Size(_), values) == FoldSeq(LAMBDA v, sum : Size(v) + sum, 0, values)

RECURSIVE SizeVT(_, _)

FieldSize(t, f, v) ==
  LET tag == TagSizes[t][f]
      ft  == Types[t][f]
      StringSize(s) == Prefixed(Len(s))
      MessageSize(m) == Prefixed(SizeVT(ft.of, m))
      EntrySize(k) ==
        LET key   == IF ft.key = "string" THEN StringSize(k) ELSE sov(k)
            value == IF ft.value = String THEN StringSize(v[k])
                     ELSE Prefixed(SizeVT(ft.value.of, v[k]))
        IN  Prefixed(1 + key + 1 + value)
  IN  CASE ft.kind = "varint"   -> tag + sov(v)
        [] ft.kind = "string"   -> tag + StringSize(v)
        [] ft.kind = "message"  -> tag + MessageSize(v)
        [] ft.kind = "packed"   -> tag + Prefixed(SumOf(sov, v))
        [] ft.kind = "strings"  -> SumOf(LAMBDA s : tag + StringSize(s), v)
        [] ft.kind = "messages" -> SumOf(LAMBDA m : tag + MessageSize(m), v)
        [] ft.kind = "map"      -> MapThenSumSet(LAMBDA k : tag + EntrySize(k), DOMAIN v)

SizeVT(t, m) ==
  MapThenSumSet(LAMBDA f : FieldSize(t, f, m[f]), {f \in DOMAIN Types[t] : IsSet(t, m, f)})
  + Len(Unknown(m))

\* MarshalToSizedBufferVT.  Go ranges over a map in an order of its own: here
\* one order or its reverse.
Keys(map, reverse) == IF reverse THEN Reverse(SetToSeq(DOMAIN map)) ELSE SetToSeq(DOMAIN map)
Concat(Bytes(_), values) == FlattenSeq([i \in DOMAIN values |-> Bytes(values[i])])

RECURSIVE MarshalToSizedBufferVT(_, _, _)

FieldBytes(t, f, v, reverse) ==
  LET tag == Tags[t][f]
      ft  == Types[t][f]
      StringBytes(s) == Delimited(s)
      MessageBytes(m) == Delimited(MarshalToSizedBufferVT(ft.of, m, reverse))
      EntryBytes(k) ==
        Delimited((IF ft.key = "string" THEN <<10>> \o StringBytes(k) ELSE <<8>> \o encodeVarint(k))
                  \o <<18>>
                  \o (IF ft.value = String THEN StringBytes(v[k])
                      ELSE Delimited(MarshalToSizedBufferVT(ft.value.of, v[k], reverse))))
  IN  CASE ft.kind = "varint"   -> tag \o encodeVarint(v)
        [] ft.kind = "string"   -> tag \o StringBytes(v)
        [] ft.kind = "message"  -> tag \o MessageBytes(v)
        [] ft.kind = "packed"   -> tag \o Delimited(Concat(encodeVarint, v))
        [] ft.kind = "strings"  -> Concat(LAMBDA s : tag \o StringBytes(s), v)
        [] ft.kind = "messages" -> Concat(LAMBDA m : tag \o MessageBytes(m), v)
        [] ft.kind = "map"      -> Concat(LAMBDA k : tag \o EntryBytes(k), Keys(v, reverse))

MarshalToSizedBufferVT(t, m, reverse) ==
  LET TagNumber(f) == Number([i \in DOMAIN Tags[t][f] |-> Tags[t][f][i] % 128])
      fields == {f \in DOMAIN Types[t] : IsSet(t, m, f)}
      ascending == [i \in 1..Cardinality(fields) |->
                      CHOOSE f \in fields :
                        Cardinality({g \in fields : TagNumber(g) < TagNumber(f)}) = i - 1]
  IN  Concat(LAMBDA f : FieldBytes(t, f, m[f], reverse), ascending) \o Unknown(m)

\* MarshalVT fills a buffer of SizeVT bytes from its end and returns as many
\* bytes from its beginning; writing before the beginning panics ("panic").
FromItsEnd(size, written) ==
  IF size < Len(written) THEN <<"panic">>
  ELSE SubSeq([i \in 1..(size - Len(written)) |-> 0] \o written, 1, Len(written))

MarshalVT(t, m, reverse) == FromItsEnd(SizeVT(t, m), MarshalToSizedBufferVT(t, m, reverse))
-----------------------------------------------------------------------------
\* UnmarshalVT.

\* Numbers in a packed field up to position end.
RECURSIVE ReadPacked(_, _, _, _, _)
ReadPacked(width, b, i, end, values) ==
  IF i >= end THEN Got(values, i)
  ELSE Then(ReadVarint(b, i), LAMBDA v :
         ReadPacked(width, b, v.next, end, Append(values, Narrow(width, v.value))))

With(m, f, v) == [g \in DOMAIN m \cup {f} |-> IF g = f THEN v ELSE m[g]]

RECURSIVE Unmarshal(_, _, _, _)

\* The key or the value of an entry of a map; other fields are dropped.
EntryField(ft, number, b, i, next, entry, less) ==
  CASE number = 1 /\ ft.key = "string" ->
         Then(ReadBytes(b, next), LAMBDA k : Got(With(entry, "key", k.value), k.next))
    [] number = 1 /\ ft.key # "string" ->
         Then(ReadVarint(b, next), LAMBDA k : Got(With(entry, "key", Narrow(ft.key, k.value)), k.next))
    [] number = 2 ->
         Then(ReadBytes(b, next), LAMBDA v :
           IF ft.value = String THEN Got(With(entry, "value", v.value), v.next)
           ELSE Then(Unmarshal(ft.value.of, v.value, <<>>, less), LAMBDA m :
                  Got(With(entry, "value", m.value), v.next)))
    [] OTHER -> Then(Skip(b, i), LAMBDA skipped : Got(entry, skipped.next))

\* An entry of a map up to position end.
RECURSIVE ReadEntry(_, _, _, _, _, _)
ReadEntry(ft, b, i, end, entry, less) ==
  IF i >= end THEN Got(entry, end)
  ELSE Then(ReadVarint(b, i), LAMBDA tag :
         Then(EntryField(ft, Number(tag.value) \div 8, b, i, tag.next, entry, less), LAMBDA e :
           ReadEntry(ft, b, e.next, end, e.value, less)))

\* One case of UnmarshalVT: a field of type ft with contents old, whose tag was of
\* this wire type, read at i.
ReadField(ft, old, wiretype, b, i, less) ==
  CASE ft.kind = "varint" /\ wiretype = 0 ->
         Then(ReadVarint(b, i), LAMBDA v : Got(Narrow(ft.of, v.value), v.next))
    [] ft.kind = "packed" /\ wiretype = 0 -> ReadPacked(ft.of, b, i, i + 1, old)
    [] ft.kind # "varint" /\ wiretype = 2 -> Then(ReadBytes(b, i), LAMBDA s :
         LET start == ReadVarint(b, i).next
             new == ft.kind # "message"
         IN  CASE ft.kind = "string"  -> s
               [] ft.kind = "strings" -> Got(Append(old, s.value), s.next)
               [] ft.kind = "packed"  -> ReadPacked(ft.of, b, start, s.next, old)
               [] ft.kind = "map" ->
                    Then(ReadEntry(ft, b, start, s.next, [key |-> <<>>, value |-> <<>>], less),
                         LAMBDA e : Got(With(old, e.value.key, e.value.value), e.next))
               [] OTHER ->
                    Then(Unmarshal(ft.of, s.value, IF new THEN <<>> ELSE old, less), LAMBDA m :
                      Got(IF new THEN Append(old, m.value) ELSE m.value, s.next)))
    [] OTHER -> Failure

\* The fields that a peer knows: an older one lacks the last of each message.
Known(t, less) ==
  {f \in DOMAIN Numbers[t] :
     less => \E g \in DOMAIN Numbers[t] : Numbers[t][g] > Numbers[t][f]}

KeepUnknownMutant(m, bytes) == m  \* Mutant: what is not known is dropped

KeepUnknown(m, bytes) == With(m, "unknownFields", Unknown(m) \o bytes)

\* One round of the loop of UnmarshalVT: the value is the message so far.
ReadOne(t, b, i, m, less) ==
  Then(ReadVarint(b, i), LAMBDA tag :
    LET number   == Number(tag.value) \div 8
        wiretype == Number(tag.value) % 8
        known    == {f \in Known(t, less) : Numbers[t][f] = number}
        f        == CHOOSE f \in known : TRUE
    IN  IF wiretype = 4 \/ number = 0 THEN Failure
        ELSE IF known = {}
        THEN Then(Skip(b, i), LAMBDA skipped : Got(KeepUnknown(m, skipped.value), skipped.next))
        ELSE Then(ReadField(Types[t][f], IF f \in DOMAIN m THEN m[f] ELSE <<>>, wiretype,
                            b, tag.next, less),
                  LAMBDA r : Got(With(m, f, r.value), r.next)))

\* A number is read into the field itself: where the bytes end within it, its lower
\* digits stay there when UnmarshalVT returns ErrUnexpectedEOF.  A bool is
\* set once it is complete, and the length of anything else is read first.
Remnant(t, b, i, m, less) ==
  LET tag == ReadVarint(b, i)
      numbers == {f \in Known(t, less) : Types[t][f].kind = "varint" /\ Types[t][f].of # "bool"
                                         /\ tag.ok /\ Number(tag.value) = 8 * Numbers[t][f]}
      digits == [k \in 1..Min({Len(b) + 1 - tag.next, 10}) |-> b[tag.next + k - 1] % 128]
  IN  IF numbers = {} THEN m
      ELSE LET f == CHOOSE f \in numbers : TRUE IN With(m, f, Narrow(Types[t][f].of, digits))

RECURSIVE UnmarshalFrom(_, _, _, _, _)
UnmarshalFrom(t, b, i, m, less) ==
  IF i > Len(b) THEN Got(m, i)
  ELSE Then(ReadOne(t, b, i, m, less), LAMBDA r : UnmarshalFrom(t, b, r.next, r.value, less))

\* A whole message, read into one that may have contents already.
Unmarshal(t, b, m, less) == UnmarshalFrom(t, b, 1, m, less)
-----------------------------------------------------------------------------
\* What a receiver is meant to see of a message: the fields that are set.
HasValue(ft, v) == ft.kind = "message" \/ v # <<>>

RECURSIVE Normal(_, _)
Normal(t, m) ==
  [f \in {f \in DOMAIN Types[t] \cap DOMAIN m : HasValue(Types[t][f], m[f])} |->
     LET ft == Types[t][f]
     IN  CASE ft.kind = "message"  -> Normal(ft.of, m[f])
           [] ft.kind = "messages" -> [i \in DOMAIN m[f] |-> Normal(ft.of, m[f][i])]
           [] ft.kind = "map" /\ ft.value # String -> [k \in DOMAIN m[f] |-> Normal(ft.value.of, m[f][k])]
           [] OTHER                -> m[f]]

\* A message cut down to what an older peer knows of it, at every level.
RECURSIVE Familiar(_, _)
Familiar(t, m) ==
  [f \in Known(t, TRUE) \cap DOMAIN m |->
     LET ft == Types[t][f]
     IN  CASE ft.kind = "message"  -> Familiar(ft.of, m[f])
           [] ft.kind = "messages" -> [i \in DOMAIN m[f] |-> Familiar(ft.of, m[f][i])]
           [] ft.kind = "map" /\ ft.value # String -> [k \in DOMAIN m[f] |-> Familiar(ft.value.of, m[f][k])]
           [] OTHER                -> m[f]]

=============================================================================
