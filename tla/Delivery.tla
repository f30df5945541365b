------------------------------ MODULE Delivery ------------------------------
(***************************************************************************)
(* What the synchronization of a plugin promises: its handler is called at *)
(* most once, with the whole state, and the runtime takes the plugin for   *)
(* synchronized only after that.  It may also learn of a failure: then the *)
(* handler may have been called or not, and may even be called afterwards, *)
(* since what fails may be the handler, or the way back.                   *)
(* A plugin that does not take parts may be shown one for the whole.       *)
(***************************************************************************)
CONSTANTS
    Nothing,    \* no call of the handler
    Failures    \* what may become of it otherwise

VARIABLES
    state,      \* the pods and containers of the runtime
    takesParts, \* the plugin can be sent the state in parts
    delivered,  \* what the handler was called with
    status      \* of the synchronization, as the runtime sees it

Init ==
    /\ delivered = Nothing
    /\ status = "sending"

Deliver ==
    /\ delivered = Nothing
    /\ status # "synced"
    /\ takesParts => delivered' = state
    /\ UNCHANGED <<state, takesParts, status>>

Succeed ==
    /\ status = "sending"
    /\ delivered = state
    /\ status' = "synced"
    /\ UNCHANGED <<state, takesParts, delivered>>

Fail ==
    /\ status = "sending"
    /\ status' \in Failures
    /\ UNCHANGED <<state, takesParts, delivered>>

Next == Deliver \/ Succeed \/ Fail

Spec == Init /\ [][Next]_<<state, takesParts, delivered, status>>
=============================================================================
