-------------------------------- MODULE Wire --------------------------------
(***************************************************************************)
(* Numbers and strings as the generated codec puts them on the wire        *)
(* (encodeVarint, sov, skip and the loops of UnmarshalVT in                *)
(* pkg/api/api_vtproto.pb.go).                                             *)
(*                                                                         *)
(* A byte is an integer.  A number is the sequence of the seven-bit groups *)
(* of its 64-bit two's complement, least significant group first, without  *)
(* leading zeros: zero is <<>>.  A string is its bytes.                    *)
(***************************************************************************)
EXTENDS Integers, Sequences, FiniteSetsExt
-----------------------------------------------------------------------------
Digit(g, i) == IF i \in DOMAIN g THEN g[i] ELSE 0
Trim(g) == LET significant == {i \in DOMAIN g : g[i] # 0}
           IN  IF significant = {} THEN <<>> ELSE SubSeq(g, 1, Max(significant))

\* A varint has up to ten groups, of the last of which one bit is kept.
Low64(g) == [i \in 1..10 |-> IF i = 10 THEN Digit(g, 10) % 2 ELSE Digit(g, i)]
Low32(g) == [i \in 1..5 |-> IF i = 5 THEN Digit(g, 5) % 16 ELSE Digit(g, i)]

\* Lengths and tags, of which nothing needs more than four groups.
TooBig == 268435456
Weight == <<1, 128, 16384, 2097152>>
Groups(n) == Trim([i \in 1..4 |-> (n \div Weight[i]) % 128])
Number(g) ==
  LET n == Low64(g)
  IN  IF \E i \in 5..10 : n[i] # 0 THEN TooBig
      ELSE n[1] * Weight[1] + n[2] * Weight[2] + n[3] * Weight[3] + n[4] * Weight[4]

\* The value a variable-length integer has in a field of the given width:
\* shifting drops what does not fit, a negative int32 has its sign extended
\* when it is next seen as 64 bits.
Narrow(width, g) ==
  CASE width = "bool" -> IF Trim(Low64(g)) = <<>> THEN <<>> ELSE <<1>>
    [] width = "uint32" -> Trim(Low32(g))
    [] width = "int32" ->
         IF Low32(g)[5] < 8 THEN Trim(Low32(g))
         ELSE SubSeq(Low32(g), 1, 4) \o <<Low32(g)[5] + 112, 127, 127, 127, 127, 1>>
    [] OTHER -> Trim(Low64(g))

sov(g) == IF g = <<>> THEN 1 ELSE Len(g)

encodeVarint(g) ==
  [i \in 1..sov(g) |-> IF i < Len(g) THEN g[i] + 128 ELSE Digit(g, i)]

\* A length, and as many bytes.
Delimited(bytes) == encodeVarint(Groups(Len(bytes))) \o bytes
-----------------------------------------------------------------------------
\* UnmarshalVT.  Reading at position i of b gives a value and the position after
\* it; ok is FALSE for an error (unexpected end, too long, wrong wire type).
Failure == [ok |-> FALSE, value |-> <<>>, next |-> 0]
Got(value, next) == [ok |-> TRUE, value |-> value, next |-> next]

ReadVarint(b, i) ==
  LET ends == {j \in i..(i + 9) : j <= Len(b) /\ b[j] < 128}
  IN  IF ends = {} THEN Failure
      ELSE Got([k \in 1..(Min(ends) - i + 1) |-> b[i + k - 1] % 128], Min(ends) + 1)

\* What is read next uses what was read before, unless that failed.
Then(r, Read(_)) == IF r.ok THEN Read(r) ELSE Failure

ReadBytesMutant(b, i) ==  \* Mutant: the end of the buffer not checked
  Then(ReadVarint(b, i), LAMBDA length :
    LET end == length.next + Number(length.value)
    IN  Got(SubSeq(b, length.next, Min({end - 1, Len(b)})), end))

\* A length, and as many bytes, which have to be there.
ReadBytes(b, i) ==
  Then(ReadVarint(b, i), LAMBDA length :
    LET end == length.next + Number(length.value)
    IN  IF end > Len(b) + 1 THEN Failure ELSE Got(SubSeq(b, length.next, end - 1), end))

\* skip: the end of a field of any number (groups are not part of proto3).
Skip(b, i) ==
  Then(ReadVarint(b, i), LAMBDA tag :
    LET wire3 == Number(tag.value) % 8
    IN  Then(CASE wire3 = 0 -> ReadVarint(b, tag.next)
               [] wire3 = 1 -> Got(<<>>, tag.next + 8)
               [] wire3 = 2 -> ReadBytes(b, tag.next)
               [] wire3 = 5 -> Got(<<>>, tag.next + 4)
               [] OTHER     -> Failure,
             LAMBDA body : IF body.next > Len(b) + 1 THEN Failure
                           ELSE Got(SubSeq(b, i, body.next - 1), body.next)))
=============================================================================
