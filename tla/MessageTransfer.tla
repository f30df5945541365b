--------------------------- MODULE MessageTransfer ---------------------------
(***************************************************************************)
(* The journey of one message through the generated codec: it is written   *)
(* into a buffer of the size foreseen, arrives whole or cut short, and is  *)
(* read one field at a time, by a peer built from the same or from an older*)
(* version of the protocol, which lacks the last field of every message.   *)
(***************************************************************************)
EXTENDS Codec

CONSTANT MessageTypes,   \* the messages looked at
         Messages,       \* for each of them, the values that are sent
         Longest         \* longest encoding that is also cut short

VARIABLES type, message,   \* what is sent
          older,           \* whether the receiver lacks the last fields
          phase,           \* "none", "writing", "sent", "reading", "read", "failed"
          wire,            \* the bytes sent, or those of them that arrive
          whole,           \* whether all of them do
          at, received     \* iNdEx and m of the receiver's UnmarshalVT

transferVars == <<type, message, older, phase, wire, whole, at, received>>
-----------------------------------------------------------------------------
TransferInit ==
  /\ type = "Empty" /\ message = <<>> /\ older = FALSE
  /\ phase = "none" /\ wire = <<>> /\ whole = TRUE
  /\ at = 1 /\ received = <<>>

\* Any message, for a peer of either version.
Compose ==
  /\ phase = "none"
  /\ type' \in MessageTypes
  /\ message' \in Messages[type']
  /\ older' \in BOOLEAN
  /\ phase' = "writing"
  /\ UNCHANGED <<wire, whole, at, received>>

\* The journey.  A plugin may return fewer bytes than it has written: the
\* length is part of what its call returns.
Send ==
  /\ phase = "writing"
  /\ \E reverse \in BOOLEAN : wire' = MarshalVT(type, message, reverse)
  /\ phase' = "sent"
  /\ UNCHANGED <<type, message, older, whole, at, received>>

Arrive ==
  /\ phase = "sent"
  /\ \E n \in IF Len(wire) <= Longest /\ ~older THEN 0..Len(wire) ELSE {Len(wire)} :
       wire' = SubSeq(wire, 1, n) /\ whole' = (n = Len(wire))
  /\ phase' = "reading"
  /\ UNCHANGED <<type, message, older, at, received>>

\* An error ends the reading: the caller returns it and does not look at the
\* message, in which the field that could not be read may hold part of a number.
ReadOn(r) == r.ok /\ at' = r.next /\ received' = r.value /\ UNCHANGED phase

ReadFails(r) ==
  /\ ~r.ok
  /\ phase' = "failed"
  /\ received' = Remnant(type, wire, at, received, older)
  /\ UNCHANGED at

Receive ==
  /\ phase = "reading" /\ at <= Len(wire)
  /\ LET r == ReadOne(type, wire, at, received, older) IN ReadOn(r) \/ ReadFails(r)
  /\ UNCHANGED <<type, message, older, wire, whole>>

Received ==
  /\ phase = "reading" /\ at > Len(wire)
  /\ phase' = "read"
  /\ UNCHANGED <<type, message, older, wire, whole, at, received>>

TransferNext == Compose \/ Send \/ Arrive \/ Receive \/ Received

TransferSpec == TransferInit /\ [][TransferNext]_transferVars
-----------------------------------------------------------------------------
\* A message that arrives whole is read without error and is the one that was
\* sent, down to the presence of empty messages (an optional value of zero, an
\* empty adjustment), negative numbers and the elements of slices and maps:
\* the tags, lengths and sizes of writer, sizer and reader agree in every type.
RoundTrip ==
  /\ phase = "failed" => ~whole
  /\ phase = "read" /\ whole /\ ~older => received = Normal(type, message)

\* A message cut short within a field is an error: what is read without one is
\* written in the very bytes that arrived.  And wherever reading stops, no field
\* has a value that was not sent: lists lack elements at their end, maps lack
\* keys, and everything else is complete or missing, but for the number that a
\* cut falls into, which may lack its upper digits next to the error.
Complete(ft, got, sent) ==
  CASE ft.kind \in {"strings", "messages"} -> IsPrefix(got, sent)
    [] ft.kind = "map" -> \A k \in DOMAIN got : k \in DOMAIN sent /\ got[k] = sent[k]
    [] OTHER -> got = sent

LowerDigits(ft, got, sent) ==
  ft.kind = "varint" /\ \E n \in 0..(Len(sent) - 1) : got = Narrow(ft.of, SubSeq(sent, 1, n))

NothingInvented ==
  ~older =>
    LET sent == Normal(type, message)
        torn == {f \in DOMAIN received : ~Complete(Types[type][f], received[f], sent[f])}
    IN  /\ phase = "read" => \E reverse \in BOOLEAN : wire = MarshalVT(type, received, reverse)
        /\ DOMAIN received \subseteq DOMAIN sent
        /\ torn # {} => phase = "failed" /\ ~whole
        /\ \A f \in torn : torn = {f} /\ LowerDigits(Types[type][f], received[f], sent[f])

\* A peer of an older version reads what it knows as if nothing else had been
\* sent, and keeps the rest at every level: what it writes in turn still is
\* the whole message to a peer of the new version.
OlderPeerLosesNothing ==
  phase = "read" /\ older =>
    /\ Familiar(type, received) = Familiar(type, Normal(type, message))
    /\ Unmarshal(type, MarshalVT(type, received, FALSE), <<>>, FALSE) =
          Got(Normal(type, message), Len(wire) + 1)
=============================================================================
