---------------------------- MODULE EventDispatch ----------------------------
(***************************************************************************)
(* From the events a plugin asks for to the handler an event ends up at:   *)
(* event masks (pkg/api/event.go), the subscription when a plugin is       *)
(* configured (pkg/adaptation/plugin.go), and the dispatch of requests to  *)
(* handlers, which the stub (pkg/stub/stub.go) and builtin plugins         *)
(* (pkg/adaptation/builtin/plugin.go) each do in a way of their own.       *)
(* Plugins without a stub, as WebAssembly ones, dispatch as they like.     *)
(***************************************************************************)
EXTENDS Integers, Sequences

CONSTANTS HandlerSets,    \* which handlers plugins may have
          Subscriptions,  \* the texts plugins may ask with
          OtherMasks      \* what plugins without a stub may reply

VARIABLES kind,        \* "none" yet, "stub", "builtin" or "other"
          handlers,    \* the events the plugin has a handler for
          configures,  \* whether it has a handler for Configure
          asked,       \* the items of the text it gives to ParseEventMask there
          stage,       \* "none", "created", "refused", "replied", "configured",
                       \* "failed", or "panicked", which takes the runtime down
          mask,        \* in the reply to Configure
          events,      \* p.events of the runtime
          event,       \* the last event the runtime relayed; 0 is none
          called       \* the handlers called for it

dispatchVars == <<kind, handlers, configures, asked, stage, mask, events, event, called>>

\* The names of events, in the order of their numbers.
EventNames == <<"RunPodSandbox", "StopPodSandbox", "RemovePodSandbox",
                "CreateContainer", "PostCreateContainer", "StartContainer",
                "PostStartContainer", "UpdateContainer", "PostUpdateContainer",
                "StopContainer", "RemoveContainer", "UpdatePodSandbox",
                "PostUpdatePodSandbox", "ValidateContainerAdjustment">>
EventLast == Len(EventNames) + 1
Named(names) == {e \in DOMAIN EventNames : EventNames[e] \in names}

\* A mask is the set of the events whose bits are set.
ValidEvents == 1 .. EventLast - 1

\* The events whose names contain "pod", and those that contain "container".
PodEvents == Named({"RunPodSandbox", "UpdatePodSandbox", "PostUpdatePodSandbox",
                    "StopPodSandbox", "RemovePodSandbox"})
ContainerEvents == ValidEvents \ PodEvents

ASSUME HandlersAssumption == HandlerSets \subseteq SUBSET ValidEvents

Invalid == {0}  \* no mask: an error

\* What an item between commas stands for; only the names of events may be
\* padded with blanks.
ItemMask(item) ==
    CASE item.name = "all" /\ ~item.padded -> ValidEvents
      [] item.name \in {"pod", "podsandbox"} /\ ~item.padded -> PodEvents
      [] item.name = "container" /\ ~item.padded -> ContainerEvents
      [] OTHER -> Named({item.name})

\* Mutant: an unknown item is skipped.
ParseEventMaskLenient(items) == UNION {ItemMask(i) : i \in items}

ParseEventMask(items) ==
    IF \E i \in items : ItemMask(i) = {} THEN Invalid ELSE UNION {ItemMask(i) : i \in items}
-----------------------------------------------------------------------------
DispatchInit ==
    /\ kind = "none" /\ handlers = {} /\ configures = FALSE /\ asked = {}
    /\ stage = "none" /\ mask = {} /\ events = {} /\ event = 0 /\ called = {}

\* The handlers a plugin has are set up; a stub is refused one that has none.
SetupHandlers ==
    /\ stage = "none"
    /\ kind' \in {"stub", "builtin", "other"}
    /\ handlers' \in HandlerSets
    /\ configures' \in BOOLEAN
    /\ asked' \in IF configures' THEN Subscriptions ELSE {{}}
    /\ stage' = IF kind' = "stub" /\ handlers' = {} THEN "refused" ELSE "created"
    /\ UNCHANGED <<mask, events, event, called>>

Replies(m) ==
    /\ stage' = IF m = Invalid THEN "failed" ELSE "replied"
    /\ mask' = m
    /\ UNCHANGED <<kind, handlers, configures, asked, events, event, called>>

\* stub.Configure; the plugin's handler may also fail for reasons of its own.
StubConfigure ==
    /\ stage = "created" /\ kind = "stub"
    /\ LET wanted == IF asked = {} THEN handlers ELSE ParseEventMask(asked)
       IN  \/ Replies(IF wanted \subseteq handlers THEN wanted ELSE Invalid)
           \/ configures /\ Replies(Invalid)

\* BuiltinPlugin.Configure looks at the reply before it looks at the error.
BuiltinConfigure ==
    /\ stage = "created" /\ kind = "builtin"
    /\ LET wanted == IF configures THEN ParseEventMask(asked) ELSE {}
       IN  \/ Replies(IF wanted = {} THEN handlers ELSE wanted)
           \/ configures /\ Replies(Invalid)

\* The handler of a builtin plugin returns an error and, as usual, no reply.
BuiltinPanics ==
    /\ stage = "created" /\ kind = "builtin" /\ configures
    /\ stage' = "panicked"
    /\ UNCHANGED <<kind, handlers, configures, asked, mask, events, event, called>>

OtherConfigures ==
    /\ stage = "created" /\ kind = "other"
    /\ \E m \in OtherMasks : Replies(m)

\* The second half of plugin.configure: no event at all stands for all events.
Subscribed ==
    /\ stage = "replied"
    /\ stage' = IF mask \subseteq ValidEvents THEN "configured" ELSE "failed"
    /\ events' = IF mask = {} THEN ValidEvents ELSE mask \cap ValidEvents
    /\ UNCHANGED <<kind, handlers, configures, asked, mask, event, called>>
-----------------------------------------------------------------------------
\* The requests that have a method of their own; all others are state changes.
Requests == Named({"CreateContainer", "UpdateContainer", "StopContainer", "UpdatePodSandbox",
                   "ValidateContainerAdjustment"})

\* Mutant: the stub does not tell starting from having started.
StubStateChangeMutant(e) == IF e = 7 THEN {6} \cap handlers ELSE {e} \cap handlers

\* The cases of stub.StateChange.
StubStateChange(e) ==
    {e} \cap handlers \cap
       Named({"RunPodSandbox", "PostUpdatePodSandbox", "StopPodSandbox", "RemovePodSandbox",
              "PostCreateContainer", "StartContainer", "PostStartContainer",
              "PostUpdateContainer", "RemoveContainer"})

\* The cases of BuiltinPlugin.StateChange.
BuiltinStateChange(e) ==
    {e} \cap handlers \cap
       Named({"RunPodSandbox", "StopPodSandbox", "RemovePodSandbox",
              "PostCreateContainer", "StartContainer", "PostStartContainer",
              "PostUpdateContainer", "RemoveContainer"})

\* The handlers that a call to a plugin ends up at.
Dispatched(e) ==
    IF e \in Requests \/ kind = "other" THEN {e} \cap handlers
    ELSE IF kind = "stub" THEN StubStateChange(e)
    ELSE BuiltinStateChange(e)

\* The runtime relays an event to a plugin in its registry.
Relay(e) ==
    /\ stage = "configured"
    /\ event' = e
    /\ called' = IF e \in events THEN Dispatched(e) ELSE {}
    /\ UNCHANGED <<kind, handlers, configures, asked, stage, mask, events>>

DispatchNext ==
    \/ SetupHandlers \/ StubConfigure \/ BuiltinConfigure \/ BuiltinPanics \/ OtherConfigures
    \/ Subscribed
    \/ \E e \in ValidEvents : Relay(e)

DispatchSpec == DispatchInit /\ [][DispatchNext]_dispatchVars
-----------------------------------------------------------------------------
\* What a plugin asks for, by the names in its text; all it can handle if it
\* does not ask.
About(item, e) ==
    \/ item.name = EventNames[e]
    \/ item.name = "all"
    \/ item.name \in {"pod", "podsandbox"} /\ e \in PodEvents
    \/ item.name = "container" /\ e \in ContainerEvents
Wanted == IF asked = {} THEN handlers
          ELSE {e \in ValidEvents : \E i \in asked : About(i, e)}

(***************************************************************************)
(* A plugin with a stub gets what it asked for: each relayed event that it *)
(* wants reaches the handler for this event and no other, all others reach *)
(* none.  It is configured only if every name it asked with is known and   *)
(* it has a handler for every event these stand for (stub.go: "Only allow  *)
(* plugins to subscribe to events they can handle"), and in particular     *)
(* never replies the mask that the runtime takes for all events.           *)
(***************************************************************************)
StubEventsArrive ==
    kind = "stub" /\ stage = "configured" =>
       /\ Wanted # {} /\ Wanted \subseteq handlers
       /\ \A i \in asked : \E e \in ValidEvents : About(i, e)
       /\ event # 0 => called = {event} \cap Wanted

(***************************************************************************)
(* builtin/plugin.go:207: "PostUpdatePodSandbox is a handler for the       *)
(* PostUpdatePodSandbox event."  So each handler a builtin plugin has is   *)
(* called for its event, if the plugin is subscribed to that.              *)
(***************************************************************************)
BuiltinEventsArrive ==
    kind = "builtin" /\ stage = "configured" /\ event # 0 =>
       called = {event} \cap Wanted \cap handlers

(***************************************************************************)
(* That is so of every event but the one whose case is missing from        *)
(* BuiltinPlugin.StateChange, whatever the plugin asks for.                *)
(***************************************************************************)
OtherBuiltinEventsArrive ==
    kind = "builtin" /\ stage = "configured"
      /\ event \notin {0} \cup Named({"PostUpdatePodSandbox"}) =>
       called = {event} \cap Wanted \cap handlers
=============================================================================
