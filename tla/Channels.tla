------------------------------ MODULE Channels ------------------------------
(***************************************************************************)
(* What the multiplexer promises to its users: each logical connection is  *)
(* a channel of its own in either direction.  Messages arrive in the order *)
(* they were sent, none twice, none altered and none of another channel,   *)
(* and what is missing at the end is a tail.                               *)
(***************************************************************************)
EXTENDS Naturals, Sequences

CONSTANTS
    Channel,
    Message

VARIABLES
    sent,       \* the messages sent over each channel
    received    \* what the receiver was given

Init ==
    /\ sent = [c \in Channel |-> <<>>]
    /\ received = [c \in Channel |-> <<>>]

Send(c, m) ==
    /\ sent' = [sent EXCEPT ![c] = Append(@, m)]
    /\ UNCHANGED received

Receive(c) ==
    LET i == Len(received[c]) + 1 IN
    /\ i <= Len(sent[c])
    /\ received' = [received EXCEPT ![c] = Append(@, sent[c][i])]
    /\ UNCHANGED sent

Next == \E c \in Channel : Receive(c) \/ \E m \in Message : Send(c, m)

Spec == Init /\ [][Next]_<<sent, received>>
=============================================================================
