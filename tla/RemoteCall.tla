----------------------------- MODULE RemoteCall -----------------------------
(***************************************************************************)
(* What calls to a plugin promise to the runtime, whichever kind of plugin *)
(* it is: the plugin's handler is given the request at most once, and what *)
(* the runtime gets is the handler's reply to that request or no reply at  *)
(* all.  A plugin can have handled a call of which the runtime only learns *)
(* that it failed.  Adaptation takes its calls, CallPlugin to CallSucceeds,*)
(* CallFails or CallIsFatal, for such ones.                                *)
(***************************************************************************)
VARIABLES
    calling,    \* whether a call is in progress
    request,    \* of the call
    given,      \* what the handler was given: nothing yet, {}, or {a request}
    answer,     \* what it replied: nothing, or {a reply}
    outcome     \* what the runtime got: nothing, or {a reply}

Init ==
    /\ calling = FALSE
    /\ given = {} /\ answer = {} /\ outcome = {}

Call ==
    /\ ~calling
    /\ calling' = TRUE   \* with any request
    /\ given' = {} /\ answer' = {} /\ outcome' = {}

Handle ==
    /\ calling /\ given = {}
    /\ given' = {request}
    /\ UNCHANGED <<calling, request, answer, outcome>>

Answer ==
    /\ calling /\ given # {} /\ answer = {}
    /\ answer' # {} /\ \A a, b \in answer' : a = b   \* any one reply
    /\ UNCHANGED <<calling, request, given, outcome>>

Return ==
    /\ calling
    /\ calling' = FALSE
    /\ outcome' \in SUBSET answer
    /\ UNCHANGED <<request, given, answer>>

Next == Call \/ Handle \/ Answer \/ Return

Spec == Init /\ [][Next]_<<calling, request, given, answer, outcome>>
=============================================================================
