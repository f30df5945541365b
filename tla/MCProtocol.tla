----------------------------- MODULE MCProtocol -----------------------------
(***************************************************************************)
(* What the runtime and a plugin have to agree on, each by itself: the     *)
(* encoding of a message; the parts a large state is sent in; the events   *)
(* a plugin gets.  Handlers for all events, all but one, one, those of a   *)
(* group, or none; texts that name events, groups, or nothing known.       *)
(***************************************************************************)
EXTENDS MCSyncSplit, EventDispatch, MCMessageTransfer

MCHandlerSets ==
  {{}, ValidEvents, PodEvents, ContainerEvents}
  \cup {{e} : e \in ValidEvents} \cup {ValidEvents \ {e} : e \in ValidEvents}

Plain(name)  == [name |-> name, padded |-> FALSE]
Padded(name) == [name |-> name, padded |-> TRUE]

MCSubscriptions ==
  {{}} \cup {{Plain(EventNames[e])} : e \in ValidEvents}
  \cup {{Plain(name)} : name \in {"all", "pod", "podsandbox", "container", "reboot"}}
  \cup {{Padded("pod")}, {Plain("pod"), Padded("CreateContainer")},
        {Plain("CreateContainer"), Plain("reboot")}}

MCOtherMasks == {{}, {7}, ValidEvents, {EventLast}, {3, 32}, {0}}

ProtocolInit == Init /\ TransferInit /\ DispatchInit

\* Messages and events go along with an empty state that is not sent.
NothingToSend == load.pods = <<>> /\ load.ctrs = <<>> /\ load.max = 4 /\ load.split
                 /\ rounds = 0 /\ status = "sending"

ProtocolNext ==
  \/ /\ phase = "none" /\ stage = "none"
     /\ Next
     /\ UNCHANGED <<transferVars, dispatchVars>>
  \/ /\ NothingToSend /\ stage = "none"
     /\ TransferNext
     /\ UNCHANGED <<vars, dispatchVars>>
  \/ /\ NothingToSend /\ phase = "none"
     /\ DispatchNext
     /\ UNCHANGED <<vars, transferVars>>

ProtocolSpec == ProtocolInit /\ [][ProtocolNext]_<<vars, transferVars, dispatchVars>>
=============================================================================
