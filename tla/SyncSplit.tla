------------------------------ MODULE SyncSplit ------------------------------
(***************************************************************************)
(* The synchronization of one plugin: plugin.synchronize of the runtime    *)
(* sends the pods and containers of the runtime to the plugin, in one      *)
(* message if the transport takes it and otherwise in smaller and smaller  *)
(* ones; the plugin's stub collects the parts and hands the whole to the   *)
(* plugin with the last one.                                               *)
(*                                                                         *)
(* A pod or container is its position in the runtime's list; what matters  *)
(* of its content is its marshalled size.  A load is what a behaviour has  *)
(* to synchronize: pods[i] is the total size of the first i pods, ctrs[i]  *)
(* of the first i containers, max the transport's limit on a message, and  *)
(* split tells whether the plugin can take split messages.  The plugin has *)
(* a Synchronize handler: the stub of one without acknowledges everything. *)
(***************************************************************************)
EXTENDS Naturals, Sequences

CONSTANTS
    Loads,  \* the loads to synchronize
    Budget  \* messages a request timeout leaves time for (of any load)

Load == [pods : Seq(Nat), ctrs : Seq(Nat), max : Nat \ {0}, split : BOOLEAN]

Ascending(s) == \A i, j \in DOMAIN s : i <= j => s[i] <= s[j]

ASSUME LoadsAssumption ==
    /\ Loads \subseteq Load
    /\ \A l \in Loads : Ascending(l.pods) /\ Ascending(l.ctrs)
    /\ Budget \in Nat

VARIABLES
    load,      \* what is to be synchronized, and over what
    sent,      \* how many pods and containers the plugin has acknowledged
    perMsg,    \* podsPerMsg and ctrsPerMsg
    rounds,    \* messages tried so far
    flight,    \* the message the runtime waits to be answered: "none", a "request"
               \* on its way, or one the plugin has dealt with, its "reply" on its way
    collected, \* stub.syncReq: the positions collected so far
    delivered, \* what the plugin's Synchronize handler was called with
    status     \* of synchronize, see TypeOK

vars == <<load, sent, perMsg, rounds, flight, collected, delivered, status>>

Sized(p, c) == [pods |-> p, ctrs |-> c]
Nothing == Sized(<<>>, <<>>)

minObjsPerMsg == 8

\* podsToSend and ctrsToSend are what lies beyond sent.
Left == Sized(Len(load.pods) - sent.pods, Len(load.ctrs) - sent.ctrs)

\* n positions after the first k ones.
Slice(k, n) == [i \in 1..n |-> k + i]
Message == Sized(Slice(sent.pods, perMsg.pods), Slice(sent.ctrs, perMsg.ctrs))
More == Left.pods > perMsg.pods \/ Left.ctrs > perMsg.ctrs

\* The size of the n objects after the first k ones.
Total(sizes, k) == IF k = 0 THEN 0 ELSE sizes[k]
SizeOf(sizes, k, n) == Total(sizes, k + n) - Total(sizes, k)
MessageLength == SizeOf(load.pods, sent.pods, perMsg.pods)
                 + SizeOf(load.ctrs, sent.ctrs, perMsg.ctrs)

(***************************************************************************)
(* recalcObjsPerSyncMsg scales both counts by max/length, by at most 9/10, *)
(* and rounds down; it does not go below minObjsPerMsg objects in all.     *)
(***************************************************************************)
Scale(n) == IF 10 * load.max > 9 * MessageLength THEN (9 * n) \div 10
                                               ELSE (n * load.max) \div MessageLength

\* Mutant: the floor is applied to each of the two counts.
RecalcFloorEach ==
    LET p == Scale(perMsg.pods)
        c == Scale(perMsg.ctrs)
    IN  IF p + c < minObjsPerMsg THEN Sized(minObjsPerMsg, minObjsPerMsg)
                                 ELSE Sized(p, c)

Recalc ==
    LET p == Scale(perMsg.pods)
        c == Scale(perMsg.ctrs)
    IN  IF p + c < minObjsPerMsg
        THEN Sized(minObjsPerMsg \div 2, minObjsPerMsg \div 2)
        ELSE Sized(p, c)

AtMost(n, m) == IF n > m THEN m ELSE n
Joined(a, b) == Sized(a.pods \o b.pods, a.ctrs \o b.ctrs)
-----------------------------------------------------------------------------
Init ==
    /\ load \in Loads
    /\ sent = Sized(0, 0)
    /\ perMsg = Sized(Len(load.pods), Len(load.ctrs))
    /\ rounds = 0
    /\ flight = "none"
    /\ collected = Nothing
    /\ delivered = Nothing
    /\ status = "sending"

\* Slicing within bounds: podsToSend[:podsPerMsg], ctrsToSend[:ctrsPerMsg].
InBounds == perMsg.pods <= Left.pods /\ perMsg.ctrs <= Left.ctrs

\* A further message can be tried before the request timeout.
Ready ==
    /\ status = "sending"
    /\ flight = "none"
    /\ InBounds
    /\ rounds < Budget
    /\ rounds' = rounds + 1

\* The transport rejects the message and fewer objects are tried.
Oversized ==
    /\ Ready
    /\ MessageLength > load.max
    /\ perMsg.pods + perMsg.ctrs > minObjsPerMsg
    /\ perMsg' = Recalc
    /\ UNCHANGED <<load, sent, flight, collected, delivered, status>>

\* The transport rejects a message that is not to be split further: the
\* plugin is closed.
GiveUp ==
    /\ Ready
    /\ MessageLength > load.max
    /\ perMsg.pods + perMsg.ctrs <= minObjsPerMsg
    /\ status' = "refused"
    /\ UNCHANGED <<load, sent, perMsg, flight, collected, delivered>>

SendMessage ==
    /\ Ready
    /\ MessageLength <= load.max
    /\ flight' = "request"
    /\ UNCHANGED <<load, sent, perMsg, collected, delivered, status>>

\* Mutant: the last part is delivered without the ones collected before it.
SynchronizeAlone ==
    /\ flight = "request"
    /\ flight' = "reply"
    /\ IF More /\ load.split
       THEN collected' = Joined(collected, Message) /\ UNCHANGED delivered
       ELSE delivered' = Message /\ collected' = Nothing
    /\ UNCHANGED <<load, sent, perMsg, rounds, status>>

(***************************************************************************)
(* The stub collects a part, and calls the plugin's handler with the last  *)
(* one or the only one; a plugin that does not take parts calls it with    *)
(* what it is sent.  This may also be once the runtime has given up.       *)
(***************************************************************************)
Synchronize ==
    /\ flight = "request"
    /\ flight' = "reply"
    /\ IF More /\ load.split
       THEN collected' = Joined(collected, Message) /\ UNCHANGED delivered
       ELSE delivered' = Joined(collected, Message) /\ collected' = Nothing
    /\ UNCHANGED <<load, sent, perMsg, rounds, status>>

\* The answer arrives while the runtime waits for it.
Answered == status = "sending" /\ flight = "reply" /\ InBounds

\* A part is acknowledged and the runtime goes on.
PartAcknowledged ==
    /\ Answered
    /\ More
    /\ load.split
    /\ flight' = "none"
    /\ sent' = Sized(sent.pods + perMsg.pods, sent.ctrs + perMsg.ctrs)
    /\ perMsg' = Sized(AtMost(perMsg.pods, Left.pods - perMsg.pods),
                       AtMost(perMsg.ctrs, Left.ctrs - perMsg.ctrs))
    /\ UNCHANGED <<load, rounds, collected, delivered, status>>

\* A plugin that does not acknowledge More, or answers with updates, is closed.
PartNotSupported ==
    /\ Answered
    /\ More
    /\ ~load.split
    /\ status' = "unsupported"
    /\ UNCHANGED <<load, sent, perMsg, rounds, flight, collected, delivered>>

LastAcknowledged ==
    /\ Answered
    /\ ~More
    /\ flight' = "none"
    /\ status' = "synced"
    /\ UNCHANGED <<load, sent, perMsg, rounds, collected, delivered>>

(***************************************************************************)
(* Any other error: the handler's own, which the stub returns, or one of   *)
(* the connection, before or after the plugin dealt with the message.  The *)
(* plugin is closed, but what it has received already may still reach its  *)
(* stub.                                                                   *)
(***************************************************************************)
RequestFails ==
    /\ status = "sending"
    /\ flight # "none"
    /\ status' = "failed"
    /\ UNCHANGED <<load, sent, perMsg, rounds, flight, collected, delivered>>

\* The deadline set when synchronize started expires, while a message waits for
\* its answer or when there is no time for another, and the plugin is closed.
DeadlineExceeded ==
    /\ status = "sending"
    /\ flight # "none" \/ (InBounds /\ rounds = Budget)
    /\ status' = "timedout"
    /\ UNCHANGED <<load, sent, perMsg, rounds, flight, collected, delivered>>

(***************************************************************************)
(* recalcObjsPerSyncMsg may ask for more pods or containers than are left. *)
(* Slicing beyond the length panics at once, unless the slice has spare    *)
(* capacity to read nil objects from: then the message is refused as too   *)
(* large, or it is sent with empty objects, the positions beyond the list, *)
(* and it panics once that message is acknowledged.                        *)
(***************************************************************************)
SliceOutOfRange ==
    /\ status = "sending"
    /\ ~InBounds
    /\ \/ flight = "none" /\ status' \in {"panic", "refused"} /\ UNCHANGED flight
       \/ flight = "none" /\ flight' = "request" /\ UNCHANGED status
       \/ flight = "reply" /\ load.split /\ status' = "panic" /\ UNCHANGED flight
       \/ flight = "reply" /\ ~load.split /\ status' = "unsupported" /\ UNCHANGED flight
    /\ UNCHANGED <<load, sent, perMsg, rounds, collected, delivered>>

Next == Oversized \/ GiveUp \/ SendMessage \/ Synchronize \/ PartAcknowledged \/ PartNotSupported
        \/ LastAcknowledged \/ RequestFails \/ DeadlineExceeded \/ SliceOutOfRange

Spec == Init /\ [][Next]_vars
-----------------------------------------------------------------------------
Counts    == [pods : Nat, ctrs : Nat]
Positions == [pods : Seq(Nat), ctrs : Seq(Nat)]

TypeOK ==
    /\ load \in Load /\ Ascending(load.pods) /\ Ascending(load.ctrs)
    /\ sent \in Counts
    /\ perMsg \in Counts
    /\ rounds \in 0..Budget
    /\ flight \in {"none", "request", "reply"}
    /\ collected \in Positions
    /\ delivered \in Positions
    /\ status \in {"sending", "synced", "refused", "unsupported", "failed", "timedout",
                   "panic"}

FullState == Sized(Slice(0, Len(load.pods)), Slice(0, Len(load.ctrs)))

(***************************************************************************)
(* The plugin's Synchronize handler sees all pods and containers of the    *)
(* runtime, each once and in order, or it is not called: however the state *)
(* was split and whatever failed, no part is lost, repeated or shown       *)
(* before the whole is there (README: NRI sends the full set of pods and   *)
(* containers).  A plugin that does not take parts may be shown one, but   *)
(* the runtime does not take it for synchronized.                          *)
(***************************************************************************)
WholeOrNothing ==
    /\ load.split => delivered \in {Nothing, FullState}
    /\ status = "synced" => delivered = FullState

(***************************************************************************)
(* The messages, rejections and parts between the two ends amount to at    *)
(* most one call of the plugin's handler, and to success only after it     *)
(* (Delivery).                                                             *)
(***************************************************************************)
Promise == INSTANCE Delivery
    WITH state <- FullState,
         takesParts <- load.split,
         Failures <- {"refused", "unsupported", "failed", "timedout", "panic"}

ImplementsDelivery == Promise!Spec

(***************************************************************************)
(* What the stub collected is what the runtime believes it has sent, or    *)
(* that and the one message whose answer the runtime waits for, or waited  *)
(* for in vain: whatever fails, the two ends are at most one part apart.   *)
(***************************************************************************)
Acknowledged == Sized(Slice(0, sent.pods), Slice(0, sent.ctrs))

PartsMatch ==
    status # "synced" /\ delivered = Nothing =>
       \/ collected = Acknowledged
       \/ flight = "reply" /\ collected = Joined(Acknowledged, Message)

(***************************************************************************)
(* Every rejected message is followed by one of fewer objects, so that     *)
(* rejections come to an end.                                              *)
(***************************************************************************)
RetriesShrink ==
    [][ perMsg' # perMsg => perMsg'.pods + perMsg'.ctrs < perMsg.pods + perMsg.ctrs ]_vars

(***************************************************************************)
(* A plugin that has answered all messages so far is not timed out         *)
(* (README: NRI sends the full set of pods and containers known to the     *)
(* runtime).  Budget leaves time for one message per object and one per    *)
(* retry.                                                                  *)
(***************************************************************************)
AnsweringPluginNotTimedOut == status = "timedout" => flight # "none"

(***************************************************************************)
(* It is only by the floor of minObjsPerMsg that recalcObjsPerSyncMsg asks *)
(* for more than is left; no other split ever does.                        *)
(***************************************************************************)
OnlyFloorOverruns ==
    ~InBounds => perMsg = Sized(minObjsPerMsg \div 2, minObjsPerMsg \div 2)

(***************************************************************************)
(* The runtime survives the splitting of its state (plugin.go logs         *)
(* "retrying in smaller chunks").                                          *)
(***************************************************************************)
RuntimeSurvives == status # "panic"
=============================================================================
