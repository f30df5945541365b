------------------------ MODULE AdaptationRelayProofs ------------------------
(***************************************************************************)
(* Proofs about Adaptation: requests are relayed in the order of indices   *)
(* to every plugin that subscribed, a container is created only if every   *)
(* registered validator has accepted it, and a plugin is told of what      *)
(* happens to a container once, neither keeping nor missing any.           *)
(***************************************************************************)
EXTENDS AdaptationProofs

(***************************************************************************)
(* The inductive invariant, on top of ViewInv.                             *)
(***************************************************************************)
Sorted ==
    \A i, j \in 1..Len(plugins) :
       i < j => Idx[plugins[i]] <= Idx[plugins[j]]

EveryValidator ==
    \A i \in 1..Len(plugins) :
       "validate" \in events[plugins[i]] => plugins[i] \in validators

\* Of the plugins up to the thread's position all that subscribed were asked,
\* and nobody else; a request that has not failed by its end passed them all.
Reached(t) ==
    /\ pc[t] \in {"idle", "waiting"} => asked[t] = {}
    /\ Locked(t) =>
         /\ \A i \in 1..Len(plugins) :
               i < pos[t] /\ req[t].kind \in events[plugins[i]] => plugins[i] \in asked[t]
         /\ \A p \in asked[t] : \E i \in 1..Len(plugins) : i <= pos[t] /\ p = plugins[i]
    /\ pc[t] = "calling" => plugins[pos[t]] \in asked[t]
    /\ pc[t] \in {"validating", "return"} /\ ok[t] => pos[t] > Len(plugins)

\* Every validator has accepted the adjustments of a new container, or still has
\* to say what it makes of them.
Judged(t) ==
    req[t].kind = "create" /\ ok[t] =>
       /\ pc[t] = "validating" => validators \subseteq approved[t] \cup pending[t]
       /\ pc[t] = "return" => validators \subseteq approved[t]

RelayInv == /\ ViewInv /\ Sorted /\ EveryValidator
            /\ \A t \in Thread : Reached(t) /\ Judged(t)
-----------------------------------------------------------------------------
(***************************************************************************)
(* The registry.                                                           *)
(***************************************************************************)
\* The events of a registered plugin are those it was configured with.
LEMMA EventsKept ==
    ASSUME TypeOK, Newcomer, [Next]_vars, ~Start, NEW i \in 1..Len(plugins)
    PROVE  events'[plugins[i]] = events[plugins[i]]
<1> USE DEF registryVars, syncVars, peerVars, threadVars, runtimeVars
<1>1. CASE Configure
  <2>1. plugins[i] \in Plugin /\ plugins[i] # cand
    BY <1>1, MembersByPosition DEF Configure, Newcomer
  <2>2. QED
    BY <1>1, <2>1 DEF Configure, TypeOK
<1>2. CASE ~Configure
  <2>1. UNCHANGED events
    BY <1>2 DEF Next, vars, StartFails, Stop, Accept, StartPlugin, Register, StartPluginFails,
            RequestPluginSync, SyncPlugin, Synchronize, SynchronizeFails, Admit,
            FinishedPluginSync, AcceptConnection, PluginGone, ConnectionClosed,
            RequestUpdate, UpdateContainers, Runtime, BlockPluginSync, RequestUnblocked,
            LockAdaptation, Relay, SkipPlugin, CallPlugin, RelayDone, ValidationDone,
            Return, Answer, CallSucceeds, CallFails, CallIsFatal, Validate,
            ValidatorAccepts, ValidatorRejects, ValidatorIsFatal, Unblock
  <2>2. QED
    BY <2>1
<1>3. QED
  BY <1>1, <1>2

LEMMA SortedNext ==
    ASSUME TypeOK, Sorted, [Next]_vars
    PROVE  Sorted'
<1>1. CASE Start
  <2>1. PICK synced \in SUBSET Preinstalled : plugins' \in SortedListings(synced)
    BY <1>1 DEF Start
  <2>2. synced \in SUBSET Plugin
    BY AdaptationAssumption DEF Preinstalled
  <2>3. DOMAIN plugins' = 1..Len(plugins')
    BY <2>1, <2>2, ListingType DEF SortedListings
  <2>4. QED
    BY <2>1, <2>3 DEF Sorted, SortedListings
<1>2. CASE Stop
  BY <1>2 DEF Stop, Sorted
<1>3. CASE Admit
  <2> DEFINE open == Open(Range(plugins) \cup {cand})
  <2>1. plugins' \in SortedListings(open) /\ open \in SUBSET Plugin
    BY <1>3, MembersByPosition DEF Admit, TypeOK, Open
  <2>2. DOMAIN plugins' = 1..Len(plugins')
    BY <2>1, ListingType DEF SortedListings
  <2>3. QED
    BY <2>1, <2>2 DEF Sorted, SortedListings
<1>4. ASSUME NEW t \in Thread, Return(t)
      PROVE  Sorted'
  <2> DEFINE open == Open(Range(plugins))
  <2>1. plugins' \in Sublists(plugins, open) /\ open \in SUBSET Plugin
    BY <1>4, MembersByPosition DEF Return, Open
  <2>2. DOMAIN plugins' = 1..Len(plugins')
    BY <2>1, ListingType DEF Sublists
  <2>3. DOMAIN plugins = 1..Len(plugins)
    BY DEF TypeOK
  <2>4. \A i, j \in 1..Len(plugins') :
           i < j => \E k, l \in 1..Len(plugins) :
                      k < l /\ plugins[k] = plugins'[i] /\ plugins[l] = plugins'[j]
    BY <2>1, <2>2, <2>3 DEF Sublists
  <2>5. QED
    BY <2>4 DEF Sorted
<1>5. CASE ~Start /\ ~Stop /\ ~Admit /\ \A t \in Thread : ~Return(t)
  BY <1>5, RegistryKept DEF registryVars, Sorted
<1>6. QED
  BY <1>1, <1>2, <1>3, <1>4, <1>5

LEMMA EveryValidatorNext ==
    ASSUME TypeOK, Newcomer, EveryValidator, [Next]_vars
    PROVE  EveryValidator'
<1>1. CASE Start
  <2>1. PICK synced \in SUBSET Preinstalled :
          /\ plugins' \in SortedListings(synced)
          /\ validators' = {p \in synced : "validate" \in events'[p]}
    BY <1>1 DEF Start
  <2>2. synced \in SUBSET Plugin
    BY AdaptationAssumption DEF Preinstalled
  <2>3. \A i \in 1..Len(plugins') : plugins'[i] \in synced
    BY <2>1, <2>2, ListedMembers DEF SortedListings
  <2>4. QED
    BY <2>1, <2>3 DEF EveryValidator
<1>2. CASE Stop
  BY <1>2 DEF Stop, EveryValidator
<1>3. CASE Admit
  <2> DEFINE open == Open(Range(plugins) \cup {cand})
  <2>1. plugins' \in Listings(open) /\ open \in SUBSET Plugin
    BY <1>3, MembersByPosition DEF Admit, TypeOK, Open, SortedListings
  <2>2. \A i \in 1..Len(plugins') : plugins'[i] \in open
    BY <2>1, ListedMembers
  <2>3. validators' = {p \in open : "validate" \in events[p]} /\ events' = events
    BY <1>3 DEF Admit, ValidatorsIn, peerVars
  <2>4. QED
    BY <2>2, <2>3 DEF EveryValidator
<1>4. ASSUME NEW t \in Thread, Return(t)
      PROVE  EveryValidator'
  <2> DEFINE open == Open(Range(plugins))
  <2>1. plugins' \in Listings(open) /\ open \in SUBSET Plugin
    BY <1>4, MembersByPosition DEF Return, Open, Sublists
  <2>2. \A i \in 1..Len(plugins') : plugins'[i] \in open
    BY <2>1, ListedMembers
  <2>3. validators' = {p \in open : "validate" \in events[p]} /\ events' = events
    BY <1>4 DEF Return, ValidatorsIn
  <2>4. QED
    BY <2>2, <2>3 DEF EveryValidator
<1>5. CASE ~Start /\ ~Stop /\ ~Admit /\ \A t \in Thread : ~Return(t)
  <2>1. UNCHANGED registryVars
    BY <1>5, RegistryKept
  <2>2. \A i \in 1..Len(plugins) : events'[plugins[i]] = events[plugins[i]]
    BY <1>5, EventsKept
  <2>3. QED
    BY <2>1, <2>2 DEF EveryValidator, registryVars
<1>6. QED
  BY <1>1, <1>2, <1>3, <1>4, <1>5
-----------------------------------------------------------------------------
(***************************************************************************)
(* What a step that is not thread t's leaves alone.                        *)
(***************************************************************************)
LEMMA ThreadKept ==
    ASSUME TypeOK, [Next]_vars, NEW t \in Thread, ~Runtime(t)
    PROVE  /\ pc'[t] = pc[t] /\ req'[t] = req[t] /\ pos'[t] = pos[t]
           /\ asked'[t] = asked[t] /\ pending'[t] = pending[t]
           /\ approved'[t] = approved[t] /\ ok'[t] = ok[t]
<1> USE DEF TypeOK, registryVars, syncVars, peerVars, threadVars, runtimeVars
<1>1. CASE ~\E u \in Thread : Runtime(u)
  BY <1>1 DEF Next, vars, Start, StartFails, Stop, Accept, StartPlugin, Register,
          Configure, StartPluginFails, RequestPluginSync, SyncPlugin, Synchronize,
          SynchronizeFails, Admit, FinishedPluginSync, AcceptConnection, PluginGone,
          ConnectionClosed, RequestUpdate, UpdateContainers
<1>2. ASSUME NEW u \in Thread, u # t, Runtime(u)
      PROVE  /\ pc'[t] = pc[t] /\ req'[t] = req[t] /\ pos'[t] = pos[t]
             /\ asked'[t] = asked[t] /\ pending'[t] = pending[t]
             /\ approved'[t] = approved[t] /\ ok'[t] = ok[t]
  <2>1. CASE BlockPluginSync(u) \/ RequestUnblocked(u) \/ LockAdaptation(u) \/ Unblock(u)
    BY <1>2, <2>1 DEF BlockPluginSync, RequestUnblocked, TakeOn, LockAdaptation, Unblock
  <2>2. CASE Relay(u)
    BY <1>2, <2>2 DEF Relay, SkipPlugin, CallPlugin, RelayDone, ValidationDone, Return
  <2>3. CASE Answer(u)
    BY <1>2, <2>3 DEF Answer, CallSucceeds, CallFails, CallIsFatal
  <2>4. CASE Validate(u)
    BY <1>2, <2>4 DEF Validate, ValidatorAccepts, ValidatorRejects, ValidatorIsFatal
  <2>5. QED
    BY <1>2, <2>1, <2>2, <2>3, <2>4 DEF Runtime
<1>3. QED
  BY <1>1, <1>2

\* Under a request that is being relayed, neither the registry changes nor what
\* its members subscribed to.
LEMMA MembersKept ==
    ASSUME TypeOK, Locks, Idle, Newcomer, [Next]_vars, NEW t \in Thread, Locked(t), ~Return(t)
    PROVE  /\ plugins' = plugins /\ validators' = validators
           /\ \A i \in 1..Len(plugins) : events'[plugins[i]] = events[plugins[i]]
<1>1. UNCHANGED registryVars
  BY RegistryHeld
<1>2. ~Start
  BY DEF Start, Idle, Locked
<1>3. QED
  BY <1>1, <1>2, EventsKept DEF registryVars

LEMMA ReachedNext ==
    ASSUME TypeOK, Locks, Idle, Newcomer, Loop, [Next]_vars,
           NEW t \in Thread, Reached(t)
    PROVE  Reached(t)'
<1> USE DEF Reached, Locked, registryVars, syncVars, peerVars, threadVars, runtimeVars
<1>0. /\ plugins \in Seq(Plugin) /\ Len(plugins) \in Nat /\ pos[t] \in Nat \ {0}
      /\ \A i \in 1..Len(plugins) : plugins[i] \in Plugin
  BY DEF TypeOK
<1>1. CASE ~Runtime(t)
  <2>1. pc'[t] = pc[t] /\ req'[t] = req[t] /\ pos'[t] = pos[t] /\ asked'[t] = asked[t]
        /\ ok'[t] = ok[t]
    BY <1>1, ThreadKept
  <2>2. ~Return(t)
    BY <1>1 DEF Runtime, Relay
  <2>3. CASE Locked(t)
    BY <2>1, <2>2, <2>3, MembersKept
  <2>4. CASE ~Locked(t)
    BY <2>1, <2>4
  <2>5. QED
    BY <2>3, <2>4
<1>2. CASE BlockPluginSync(t) \/ RequestUnblocked(t)
  BY <1>2 DEF BlockPluginSync, RequestUnblocked, TypeOK
<1>3. CASE LockAdaptation(t)
  <2>1. pos[t] = 1 /\ asked[t] = {}
    BY <1>3 DEF LockAdaptation, Loop
  <2>2. UNCHANGED <<plugins, events, req, pos, asked>> /\ pc'[t] = "relaying"
    BY <1>3 DEF LockAdaptation, TypeOK
  <2>3. QED
    BY <2>1, <2>2
<1>4. CASE Return(t) \/ Unblock(t)
  BY <1>4 DEF Return, Unblock, TypeOK
<1>5. CASE SkipPlugin(t) \/ CallPlugin(t)
  <2>1. /\ UNCHANGED <<plugins, events, req>> /\ pc[t] = "relaying" /\ pos[t] <= Len(plugins)
        /\ pc'[t] \in {"relaying", "calling"}
    BY <1>5 DEF SkipPlugin, CallPlugin, TypeOK
  <2>2. CASE SkipPlugin(t)
    <3>1. /\ pc'[t] = "relaying" /\ pos'[t] = pos[t] + 1 /\ asked'[t] = asked[t]
          /\ req[t].kind \notin events[plugins[pos[t]]]
      BY <2>2 DEF SkipPlugin, Current, TypeOK
    <3>2. QED
      BY <1>0, <2>1, <3>1
  <2>3. CASE CallPlugin(t)
    <3>1. /\ pc'[t] = "calling" /\ pos'[t] = pos[t]
          /\ asked'[t] = asked[t] \cup {plugins[pos[t]]}
      BY <2>3 DEF CallPlugin, Current, TypeOK
    <3>2. QED
      BY <1>0, <2>1, <3>1
  <2>4. QED
    BY <1>5, <2>2, <2>3
<1>6. CASE CallSucceeds(t) \/ CallIsFatal(t)
  <2>1. /\ UNCHANGED <<plugins, events, req, asked>> /\ pc[t] = "calling"
        /\ pc'[t] = "relaying" /\ pos'[t] = pos[t] + 1
    BY <1>6 DEF CallSucceeds, CallIsFatal, TypeOK
  <2>2. pos[t] <= Len(plugins)
    BY <2>1 DEF Loop
  <2>3. QED
    BY <1>0, <2>1, <2>2
<1>7. CASE CallFails(t)
  <2>1. /\ UNCHANGED <<plugins, events, req, pos, asked>> /\ pc[t] = "calling"
        /\ ~ok'[t] /\ pc'[t] = "return"
    BY <1>7 DEF CallFails, TypeOK
  <2>2. QED
    BY <2>1
<1>8. CASE RelayDone(t) \/ ValidationDone(t)
  <2>1. /\ UNCHANGED <<plugins, events, req, pos, asked, ok>>
        /\ pc[t] \in {"relaying", "validating"} /\ pc'[t] \in {"validating", "return"}
        /\ pc[t] = "relaying" => pos[t] > Len(plugins)
    BY <1>8 DEF RelayDone, ValidationDone, TypeOK
  <2>2. QED
    BY <2>1
<1>9. CASE Validate(t)
  <2>1. /\ UNCHANGED <<plugins, events, req, pos, asked, pc>> /\ pc[t] = "validating"
        /\ ok'[t] => ok[t]
    BY <1>9 DEF Validate, ValidatorAccepts, ValidatorRejects, ValidatorIsFatal, TypeOK
  <2>2. QED
    BY <2>1
<1>10. QED
  BY <1>1, <1>2, <1>3, <1>4, <1>5, <1>6, <1>7, <1>8, <1>9 DEF Runtime, Relay, Answer

LEMMA JudgedNext ==
    ASSUME TypeOK, Locks, Idle, Newcomer, [Next]_vars, NEW t \in Thread, Judged(t)
    PROVE  Judged(t)'
<1> USE DEF Judged, registryVars, syncVars, peerVars, threadVars, runtimeVars
<1>1. CASE ~Runtime(t)
  <2>1. pc'[t] = pc[t] /\ req'[t] = req[t] /\ pending'[t] = pending[t]
        /\ approved'[t] = approved[t] /\ ok'[t] = ok[t]
    BY <1>1, ThreadKept
  <2>2. ~Return(t)
    BY <1>1 DEF Runtime, Relay
  <2>3. Locked(t) => validators' = validators
    BY <2>2, MembersKept
  <2>4. QED
    BY <2>1, <2>3 DEF Locked
<1>2. CASE BlockPluginSync(t) \/ RequestUnblocked(t) \/ LockAdaptation(t) \/ Return(t)
           \/ Unblock(t) \/ SkipPlugin(t) \/ CallPlugin(t) \/ CallSucceeds(t) \/ CallIsFatal(t)
  <2>1. pc'[t] \notin {"validating", "return"}
    BY <1>2 DEF BlockPluginSync, RequestUnblocked, LockAdaptation, Return, Unblock, SkipPlugin,
            CallPlugin, CallSucceeds, CallIsFatal, TypeOK
  <2>2. QED
    BY <2>1
<1>3. CASE CallFails(t)
  <2>1. ~ok'[t]
    BY <1>3 DEF CallFails, TypeOK
  <2>2. QED
    BY <2>1
<1>4. CASE RelayDone(t)
  <2>1. /\ UNCHANGED <<validators, req, approved, ok>>
        /\ req[t].kind = "create" =>
             \/ pc'[t] = "validating" /\ pending'[t] = validators
             \/ pc'[t] = "return" /\ validators = {}
    BY <1>4 DEF RelayDone, TypeOK
  <2>2. QED
    BY <2>1
<1>5. CASE ValidationDone(t)
  <2>1. /\ UNCHANGED <<validators, req, approved, ok>>
        /\ pc[t] = "validating" /\ pending[t] = {} /\ pc'[t] = "return"
    BY <1>5 DEF ValidationDone, TypeOK
  <2>2. QED
    BY <2>1
<1>6. ASSUME NEW v \in Plugin, ValidatorAccepts(t, v)
      PROVE  Judged(t)'
  <2>1. /\ UNCHANGED <<validators, req, pc, ok>> /\ pc[t] = "validating"
        /\ pending'[t] = pending[t] \ {v} /\ approved'[t] = approved[t] \cup {v}
    BY <1>6 DEF ValidatorAccepts, TypeOK
  <2>2. QED
    BY <2>1
<1>7. ASSUME NEW v \in Plugin, ValidatorRejects(t, v) \/ ValidatorIsFatal(t, v)
      PROVE  Judged(t)'
  <2>1. ~ok'[t]
    BY <1>7 DEF ValidatorRejects, ValidatorIsFatal, TypeOK
  <2>2. QED
    BY <2>1
<1>8. QED
  BY <1>1, <1>2, <1>3, <1>4, <1>5, <1>6, <1>7 DEF Runtime, Relay, Answer, Validate
-----------------------------------------------------------------------------
LEMMA RelayInvInit == Init => RelayInv
<1> SUFFICES ASSUME Init PROVE RelayInv
  OBVIOUS
<1>1. ViewInv
  BY ViewInvInit
<1>2. Sorted /\ EveryValidator
  BY DEF Init, Sorted, EveryValidator
<1>3. \A t \in Thread : Reached(t) /\ Judged(t)
  BY DEF Init, Reached, Judged, Locked
<1>4. QED
  BY <1>1, <1>2, <1>3 DEF RelayInv

LEMMA RelayInvNext == RelayInv /\ [Next]_vars => RelayInv'
<1> SUFFICES ASSUME RelayInv, [Next]_vars PROVE RelayInv'
  OBVIOUS
<1>1. TypeOK /\ Locks /\ Idle /\ Newcomer /\ Loop
  BY DEF RelayInv, ViewInv
<1>2. ViewInv'
  BY ViewInvNext DEF RelayInv
<1>3. Sorted' /\ EveryValidator'
  BY <1>1, SortedNext, EveryValidatorNext DEF RelayInv
<1>4. ASSUME NEW t \in Thread
      PROVE  Reached(t)' /\ Judged(t)'
  BY <1>1, ReachedNext, JudgedNext DEF RelayInv
<1>5. QED
  BY <1>2, <1>3, <1>4 DEF RelayInv

THEOREM RelayInvariant == Spec => []RelayInv
BY RelayInvInit, RelayInvNext, PTL DEF Spec

(***************************************************************************)
(* Whatever the plugins do and whenever they are lost, a creation that     *)
(* succeeds was put to every registered plugin that subscribed to it and   *)
(* accepted by every registered validator (validateContainerAdjustment).   *)
(***************************************************************************)
THEOREM CreationFailsClosed == Spec => []FailClosed
<1>1. RelayInv => FailClosed
  <2> SUFFICES ASSUME RelayInv, NEW t \in Thread, NEW p \in Members,
                      pc[t] = "return", req[t].kind = "create", ok[t]
               PROVE  /\ "validate" \in events[p] => p \in approved[t]
                      /\ "create" \in events[p] => p \in asked[t]
    BY DEF FailClosed
  <2>1. TypeOK /\ EveryValidator /\ Reached(t) /\ Judged(t)
    BY DEF RelayInv, ViewInv
  <2>2. PICK i \in 1..Len(plugins) : p = plugins[i]
    BY <2>1, MembersByPosition DEF Members
  <2>3. i < pos[t]
    BY <2>1, <2>2 DEF Reached, TypeOK
  <2>4. QED
    BY <2>1, <2>2, <2>3 DEF EveryValidator, Reached, Judged, Locked
<1>2. QED
  BY <1>1, RelayInvariant, PTL

(***************************************************************************)
(* A plugin is called when every subscribed plugin of a smaller index has  *)
(* been, and none of a greater index, whoever was admitted or dropped      *)
(* while the request was waiting (sortPlugins, CreateContainer).           *)
(***************************************************************************)
THEOREM RequestsGoByIndex == Spec => []IndexOrder
<1>1. RelayInv => IndexOrder
  <2> SUFFICES ASSUME RelayInv, NEW t \in Thread, NEW p \in Members, NEW q \in Members,
                      InCall(t, p), p # q, req[t].kind \in events[q]
               PROVE  /\ Idx[q] < Idx[p] => q \in asked[t]
                      /\ Idx[q] > Idx[p] => q \notin asked[t]
    BY DEF IndexOrder
  <2>1. TypeOK /\ Sorted /\ Loop /\ Reached(t)
    BY DEF RelayInv, ViewInv
  <2>2. pc[t] = "calling" /\ p = plugins[pos[t]] /\ pos[t] \in 1..Len(plugins)
    BY <2>1 DEF InCall, Current, Loop, TypeOK
  <2>3. \A r \in Plugin : Idx[r] \in Nat
    BY AdaptationAssumption
  <2>4. \A i \in 1..Len(plugins) : plugins[i] \in Plugin
    BY <2>1, MembersByPosition
  <2>5. ASSUME Idx[q] < Idx[p]
        PROVE  q \in asked[t]
    <3>1. PICK i \in 1..Len(plugins) : q = plugins[i]
      BY <2>1, MembersByPosition DEF Members
    <3>2. i < pos[t]
      BY <2>1, <2>2, <2>3, <2>4, <2>5, <3>1 DEF Sorted
    <3>3. QED
      BY <2>1, <2>2, <3>1, <3>2 DEF Reached, Locked
  <2>6. ASSUME Idx[q] > Idx[p], q \in asked[t]
        PROVE  FALSE
    <3>1. PICK i \in 1..Len(plugins) : i <= pos[t] /\ q = plugins[i]
      BY <2>1, <2>2, <2>6 DEF Reached, Locked
    <3>2. i < pos[t]
      BY <2>2, <3>1
    <3>3. QED
      BY <2>1, <2>2, <2>3, <2>4, <2>6, <3>1, <3>2 DEF Sorted
  <2>7. QED
    BY <2>5, <2>6
<1>2. QED
  BY <1>1, RelayInvariant, PTL

(***************************************************************************)
(* The registry is the same from the first plugin that is asked to the     *)
(* last validator, and a plugin that was not lost leaves it only in Stop   *)
(* (removeClosedPlugins, finishedPluginSync).                              *)
(***************************************************************************)
LEMMA LiveStay ==
    ASSUME TypeOK, Idle, [Next]_vars, NEW p \in Members, Live(p), p \notin Range(plugins')
    PROVE  phase' = "stopped"
<1>0. p \in Plugin /\ p \in Range(plugins) /\ ~closed[p]
  BY MembersByPosition DEF Members, Live
<1>1. CASE Start
  <2>1. plugins = <<>>
    BY <1>1 DEF Start, Idle
  <2>2. QED
    BY <1>0, <2>1 DEF Range
<1>2. CASE Stop
  BY <1>2 DEF Stop
<1>3. CASE Admit
  <2> DEFINE open == Open(Range(plugins) \cup {cand})
  <2>1. plugins' \in Listings(open) /\ p \in open
    BY <1>0, <1>3 DEF Admit, SortedListings, Open
  <2>2. QED
    BY <2>1 DEF Listings
<1>4. ASSUME NEW t \in Thread, Return(t)
      PROVE  phase' = "stopped"
  <2> DEFINE open == Open(Range(plugins))
  <2>1. plugins' \in Listings(open) /\ p \in open
    BY <1>0, <1>4 DEF Return, Sublists, Open
  <2>2. QED
    BY <2>1 DEF Listings
<1>5. CASE ~Start /\ ~Stop /\ ~Admit /\ \A t \in Thread : ~Return(t)
  BY <1>0, <1>5, RegistryKept DEF registryVars
<1>6. QED
  BY <1>1, <1>2, <1>3, <1>4, <1>5

THEOREM RegistryIsStable == Spec => StableRegistry
<1>1. ViewInv /\ [Next]_vars =>
        [ /\ (\E t \in Thread : Relaying(t)) => UNCHANGED registryVars
          /\ \A p \in Members : Live(p) /\ p \notin Range(plugins') => phase' = "stopped"
        ]_vars
  <2> SUFFICES ASSUME ViewInv, [Next]_vars
               PROVE  /\ (\E t \in Thread : Relaying(t)) => UNCHANGED registryVars
                      /\ \A p \in Members : Live(p) /\ p \notin Range(plugins') =>
                            phase' = "stopped"
    OBVIOUS
  <2>1. TypeOK /\ Locks /\ Idle
    BY DEF ViewInv
  <2>2. ASSUME NEW t \in Thread, Relaying(t)
        PROVE  UNCHANGED registryVars
    <3>1. Locked(t) /\ ~Return(t)
      BY <2>2 DEF Relaying, Locked, Return
    <3>2. QED
      BY <2>1, <3>1, RegistryHeld
  <2>3. QED
    BY <2>1, <2>2, LiveStay
<1>2. QED
  BY <1>1, ViewInvariant, PTL DEF Spec, StableRegistry
-----------------------------------------------------------------------------
(***************************************************************************)
(* The inductive invariant for what a plugin knows beyond what it has to,  *)
(* on top of ViewInv.                                                      *)
(***************************************************************************)
Distinct == \A i, j \in 1..Len(plugins) : i # j => plugins[i] # plugins[j]

\* Nothing is connected before Start.
Unconnected == phase = "new" => \A p \in Plugin : peer[p] = "absent" /\ ~closed[p]

\* A builtin plugin has no connection to lose: it is closed by the request that
\* has just passed it, which drops it on its return.
BuiltinsOpen ==
    /\ acc # "accept" => cand \notin Builtin
    /\ \A i \in 1..Len(plugins) :
         plugins[i] \in Builtin =>
            /\ peer[plugins[i]] # "gone"
            /\ closed[plugins[i]] => \E t \in Thread : Locked(t) /\ Passed(t, i)

\* Only containers that are there are updated and removed.
Existing == \A t \in Thread : pc[t] # "idle" /\ req[t].kind # "create" => req[t].ctr \in store

\* A plugin about to be admitted knows no container but those of the runtime.
ExactView == acc = "admit" => closed[cand] \/ view[cand] \subseteq store

Follows(i) == ~closed[plugins[i]] /\ {"create", "remove"} \subseteq events[plugins[i]]

\* The plugins that a request has yet to reach have not heard of it.
Unheard(t) ==
    pc[t] \in {"waiting", "relaying", "calling"} =>
       \A i \in 1..Len(plugins) : i >= pos[t] /\ Follows(i) =>
          /\ req[t].kind = "create" /\ req[t].ctr \in view[plugins[i]] =>
                req[t].ctr \in aborted
          /\ req[t].kind = "remove" => req[t].ctr \in view[plugins[i]]

\* A container being removed was taken from every plugin passed so far.
Withdrawn(t) ==
    pc[t] \notin {"idle", "waiting"} /\ req[t].kind = "remove" /\ ok[t] =>
       \A i \in 1..Len(plugins) :
          Passed(t, i) /\ Follows(i) => req[t].ctr \notin view[plugins[i]]

ExactInv == /\ ViewInv /\ Distinct /\ Unconnected /\ BuiltinsOpen /\ Existing /\ ExactView
            /\ NoStaleContainer
            /\ \A t \in Thread : Unheard(t) /\ Withdrawn(t)
-----------------------------------------------------------------------------
(***************************************************************************)
(* What a step leaves alone.                                               *)
(***************************************************************************)
LEMMA StaysClosed ==
    ASSUME TypeOK, [Next]_vars, NEW p \in Plugin, ~closed'[p]
    PROVE  ~closed[p]
<1> USE DEF TypeOK, registryVars, syncVars, peerVars, threadVars, runtimeVars
<1>1. CASE ~\E t \in Thread : Runtime(t)
  BY <1>1 DEF Next, vars, Start, StartFails, Stop, Accept, StartPlugin, Register,
          Configure, StartPluginFails, RequestPluginSync, SyncPlugin, Synchronize,
          SynchronizeFails, Admit, FinishedPluginSync, AcceptConnection, PluginGone,
          ConnectionClosed, RequestUpdate, UpdateContainers
<1>2. ASSUME NEW t \in Thread, Runtime(t)
      PROVE  ~closed[p]
  BY <1>2 DEF Runtime, BlockPluginSync, RequestUnblocked, LockAdaptation, Relay,
          SkipPlugin, CallPlugin, RelayDone, ValidationDone, Return, Answer,
          CallSucceeds, CallFails, CallIsFatal, Validate, ValidatorAccepts,
          ValidatorRejects, ValidatorIsFatal, Unblock
<1>3. QED
  BY <1>1, <1>2

\* Only Start and an admission bring plugins in.
LEMMA NoNewMember ==
    ASSUME TypeOK, [Next]_vars, ~Start, ~Admit, NEW i \in 1..Len(plugins')
    PROVE  \E j \in 1..Len(plugins) : plugins'[i] = plugins[j]
<1>1. CASE Stop
  BY <1>1 DEF Stop
<1>2. ASSUME NEW t \in Thread, Return(t)
      PROVE  \E j \in 1..Len(plugins) : plugins'[i] = plugins[j]
  BY <1>2, ReturnRegistry
<1>3. CASE ~Stop /\ \A t \in Thread : ~Return(t)
  BY <1>3, RegistryKept DEF registryVars
<1>4. QED
  BY <1>1, <1>2, <1>3

\* What a plugin knows of a container changes when it answers a request for it.
LEMMA ViewKept ==
    ASSUME TypeOK, Newcomer, Loop, [Next]_vars, ~Start, NEW i \in 1..Len(plugins),
           NEW c \in Container, \A t \in Thread : Answer(t) => req[t].ctr # c
    PROVE  c \in view'[plugins[i]] <=> c \in view[plugins[i]]
<1>0. plugins[i] \in Plugin
  BY MembersByPosition
<1>1. CASE StartPlugin \/ RequestPluginSync \/ SyncPlugin \/ FinishedPluginSync
  BY <1>1, NewcomerApart
<1>2. ASSUME NEW t \in Thread, Answer(t)
      PROVE  c \in view'[plugins[i]] <=> c \in view[plugins[i]]
  <2>1. pc[t] = "calling" /\ pos[t] <= Len(plugins)
    BY <1>2 DEF Answer, CallSucceeds, CallFails, CallIsFatal, Loop
  <2>2. view' = view \/ view' = Handled(t)
    BY <1>2 DEF Answer, CallSucceeds, CallFails, CallIsFatal, runtimeVars
  <2>3. c # req[t].ctr
    BY <1>2
  <2>4. QED
    BY <1>0, <2>1, <2>2, <2>3, HandledView
<1>3. CASE /\ ~(StartPlugin \/ RequestPluginSync \/ SyncPlugin \/ FinishedPluginSync)
           /\ \A t \in Thread : ~Answer(t)
  <2>1. UNCHANGED view
    BY <1>3 DEF Next, vars, StartFails, Stop, Accept, Admit, AcceptConnection, PluginGone,
            ConnectionClosed, RequestUpdate, UpdateContainers, Runtime, BlockPluginSync,
            RequestUnblocked, LockAdaptation, Relay, SkipPlugin, CallPlugin, RelayDone,
            ValidationDone, Return, Validate, ValidatorAccepts, ValidatorRejects,
            ValidatorIsFatal, Unblock
  <2>2. QED
    BY <2>1
<1>4. QED
  BY <1>1, <1>2, <1>3

\* The runtime gains and loses a container when a request for it is done.
LEMMA StoreKept ==
    ASSUME TypeOK, [Next]_vars, NEW c \in Container,
           \A t \in Thread : Unblock(t) => req[t].ctr # c
    PROVE  /\ c \in store' <=> c \in store
           /\ c \in aborted' <=> c \in aborted
<1>1. ASSUME NEW t \in Thread, Unblock(t)
      PROVE  /\ c \in store' <=> c \in store
             /\ c \in aborted' <=> c \in aborted
  BY <1>1 DEF Unblock
<1>2. CASE \A t \in Thread : ~Unblock(t)
  <2>1. UNCHANGED runtimeVars
    BY <1>2 DEF Next, vars, Start, StartFails, Stop, Accept, StartPlugin, Register,
            Configure, StartPluginFails, RequestPluginSync, SyncPlugin, Synchronize,
            SynchronizeFails, Admit, FinishedPluginSync, AcceptConnection, PluginGone,
            ConnectionClosed, RequestUpdate, UpdateContainers, Runtime, BlockPluginSync,
            RequestUnblocked, LockAdaptation, Relay, SkipPlugin, CallPlugin, RelayDone,
            ValidationDone, Return, Answer, CallSucceeds, CallFails, CallIsFatal,
            Validate, ValidatorAccepts, ValidatorRejects, ValidatorIsFatal
  <2>2. QED
    BY <2>1 DEF runtimeVars
<1>3. QED
  BY <1>1, <1>2

\* No other thread touches the container of a thread's request.
LEMMA ContainerApart ==
    ASSUME TypeOK, Exclusive, NEW t \in Thread, pc[t] # "idle", ~Runtime(t)
    PROVE  /\ req[t].ctr \in Container
           /\ \A u \in Thread : Answer(u) \/ Unblock(u) => req[u].ctr # req[t].ctr
<1>1. req[t].ctr \in Container
  BY DEF TypeOK, Request
<1>2. ASSUME NEW u \in Thread, Answer(u) \/ Unblock(u)
      PROVE  req[u].ctr # req[t].ctr
  <2>1. u # t /\ pc[u] # "idle"
    BY <1>2 DEF Runtime, Answer, CallSucceeds, CallFails, CallIsFatal, Unblock
  <2>2. QED
    BY <2>1 DEF Exclusive
<1>3. QED
  BY <1>1, <1>2

(***************************************************************************)
(* The registered plugins are distinct, and the builtin ones are open.     *)
(***************************************************************************)
LEMMA ListedOnce ==
    ASSUME NEW S \in SUBSET Plugin, NEW s \in Listings(S)
    PROVE  \A i, j \in 1..Len(s) : i # j => s[i] # s[j]
<1>1. DOMAIN s = 1..Len(s)
  BY ListingType
<1>2. QED
  BY <1>1 DEF Listings

LEMMA DistinctNext ==
    ASSUME TypeOK, Distinct, [Next]_vars
    PROVE  Distinct'
<1>1. CASE Start
  <2>1. PICK synced \in SUBSET Preinstalled : plugins' \in SortedListings(synced)
    BY <1>1 DEF Start
  <2>2. synced \in SUBSET Plugin
    BY AdaptationAssumption DEF Preinstalled
  <2>3. QED
    BY <2>1, <2>2, ListedOnce DEF Distinct, SortedListings
<1>2. CASE Stop
  BY <1>2 DEF Stop, Distinct
<1>3. CASE Admit
  <2> DEFINE open == Open(Range(plugins) \cup {cand})
  <2>1. plugins' \in Listings(open) /\ open \in SUBSET Plugin
    BY <1>3, MembersByPosition DEF Admit, TypeOK, Open, SortedListings
  <2>2. QED
    BY <2>1, ListedOnce DEF Distinct
<1>4. ASSUME NEW t \in Thread, Return(t)
      PROVE  Distinct'
  <2> DEFINE open == Open(Range(plugins))
  <2>1. plugins' \in Listings(open) /\ open \in SUBSET Plugin
    BY <1>4, MembersByPosition DEF Return, Open, Sublists
  <2>2. QED
    BY <2>1, ListedOnce DEF Distinct
<1>5. CASE ~Start /\ ~Stop /\ ~Admit /\ \A t \in Thread : ~Return(t)
  BY <1>5, RegistryKept DEF registryVars, Distinct
<1>6. QED
  BY <1>1, <1>2, <1>3, <1>4, <1>5

LEMMA UnconnectedNext ==
    ASSUME TypeOK, Idle, Unconnected, [Next]_vars
    PROVE  Unconnected'
<1> SUFFICES ASSUME phase' = "new" PROVE Unconnected'
  BY DEF Unconnected
<1> USE DEF registryVars, syncVars, peerVars, threadVars, runtimeVars
<1>1. phase = "new" /\ ~Start /\ ~StartFails /\ ~Stop
  BY DEF Next, vars, Start, StartFails, Stop, Accept, StartPlugin, Register, Configure,
         StartPluginFails, RequestPluginSync, SyncPlugin, Synchronize, SynchronizeFails,
         Admit, FinishedPluginSync, AcceptConnection, PluginGone, ConnectionClosed,
         RequestUpdate, UpdateContainers, Runtime, BlockPluginSync, RequestUnblocked,
         LockAdaptation, Relay, SkipPlugin, CallPlugin, RelayDone, ValidationDone, Return,
         Answer, CallSucceeds, CallFails, CallIsFatal, Validate, ValidatorAccepts,
         ValidatorRejects, ValidatorIsFatal, Unblock
<1>2. acc = "accept" /\ \A t \in Thread : pc[t] = "idle"
  BY <1>1 DEF Idle
<1>3. \A p \in Plugin : peer[p] = "absent" /\ ~closed[p]
  BY <1>1 DEF Unconnected
<1>4. UNCHANGED <<peer, closed>>
  BY <1>1, <1>2, <1>3
     DEF Next, vars, Accept, StartPlugin, Register, Configure, StartPluginFails,
         RequestPluginSync, SyncPlugin, Synchronize, SynchronizeFails, Admit,
         FinishedPluginSync, AcceptConnection, PluginGone, ConnectionClosed,
         RequestUpdate, UpdateContainers, Runtime, BlockPluginSync, RequestUnblocked,
         LockAdaptation, Relay, SkipPlugin, CallPlugin, RelayDone, ValidationDone, Return,
         Answer, CallSucceeds, CallFails, CallIsFatal, Validate, ValidatorAccepts,
         ValidatorRejects, ValidatorIsFatal, Unblock
<1>5. QED
  BY <1>3, <1>4 DEF Unconnected

LEMMA BuiltinsOpenNext ==
    ASSUME TypeOK, Idle, Loop, Distinct, Unconnected, BuiltinsOpen, [Next]_vars
    PROVE  BuiltinsOpen'
<1> USE DEF BuiltinsOpen, registryVars, syncVars, peerVars, threadVars, runtimeVars
<1>0. \A i \in 1..Len(plugins) : plugins[i] \in Plugin
  BY MembersByPosition
<1>1. CASE UNCHANGED vars
  BY <1>1 DEF vars, Locked, Passed
<1>2. CASE Start
  <2>1. PICK synced \in SUBSET Preinstalled :
          /\ plugins' \in SortedListings(synced)
          /\ peer' = [p \in Plugin |-> IF p \in synced THEN "up"
                                       ELSE IF p \in Preinstalled THEN "gone"
                                       ELSE peer[p]]
          /\ closed' = [p \in Plugin |-> closed[p] \/ p \in Preinstalled \ synced]
    BY <1>2 DEF Start
  <2>2. synced \in SUBSET Plugin
    BY AdaptationAssumption DEF Preinstalled
  <2>3. \A i \in 1..Len(plugins') : plugins'[i] \in synced
    BY <2>1, <2>2, ListedMembers DEF SortedListings
  <2>4. \A p \in synced : peer'[p] = "up" /\ ~closed'[p]
    BY <1>2, <2>1, <2>2 DEF Start, Unconnected
  <2>5. acc' = acc /\ cand' = cand
    BY <1>2 DEF Start
  <2>6. QED
    BY <2>3, <2>4, <2>5
<1>3. CASE StartFails
  BY <1>3 DEF StartFails, Idle
<1>4. CASE Stop
  BY <1>4 DEF Stop
<1>5. CASE StartPlugin \/ RequestPluginSync \/ SyncPlugin \/ FinishedPluginSync
  <2>1. /\ UNCHANGED <<plugins, peer, pc, pos>>
        /\ acc' # "accept" => acc # "accept" /\ cand' = cand
    BY <1>5 DEF StartPlugin, Register, Configure, StartPluginFails, RequestPluginSync,
                SyncPlugin, Synchronize, SynchronizeFails, FinishedPluginSync
  <2>2. \A i \in 1..Len(plugins) :
           plugins[i] \in Builtin /\ closed'[plugins[i]] => closed[plugins[i]]
    BY <1>0, <1>5 DEF StartPlugin, Register, Configure, StartPluginFails, RequestPluginSync,
                SyncPlugin, Synchronize, SynchronizeFails, FinishedPluginSync, TypeOK
  <2>3. QED
    BY <2>1, <2>2 DEF Locked, Passed
<1>6. CASE Admit
  <2>1. \A i \in 1..Len(plugins') : /\ plugins'[i] \in Plugin /\ ~closed[plugins'[i]]
                                    /\ \/ plugins'[i] = cand
                                       \/ \E j \in 1..Len(plugins) : plugins'[i] = plugins[j]
    BY <1>6, AdmitRegistry
  <2>2. UNCHANGED <<closed, cand>> /\ acc # "accept"
    BY <1>6 DEF Admit
  <2>3. \A p \in Builtin : p \in Plugin => peer'[p] = peer[p]
    BY <1>6, AdaptationAssumption DEF Admit
  <2>4. QED
    BY <2>1, <2>2, <2>3
<1>7. ASSUME NEW p \in Plugin, AcceptConnection(p)
      PROVE  BuiltinsOpen'
  BY <1>0, <1>7 DEF AcceptConnection, External, Preinstalled, TypeOK, Locked, Passed
<1>8. ASSUME NEW p \in Plugin,
             PluginGone(p) \/ ConnectionClosed(p) \/ RequestUpdate(p) \/ UpdateContainers(p)
      PROVE  BuiltinsOpen'
  <2>1. UNCHANGED <<plugins, acc, cand, pc, pos>>
    BY <1>8 DEF PluginGone, ConnectionClosed, RequestUpdate, UpdateContainers
  <2>2. \A q \in Builtin : q \in Plugin /\ peer[q] # "gone" =>
                              peer'[q] # "gone" /\ (closed'[q] => closed[q])
    BY <1>8 DEF PluginGone, ConnectionClosed, RequestUpdate, UpdateContainers, TypeOK
  <2>3. QED
    BY <1>0, <2>1, <2>2 DEF Locked, Passed
<1>9. ASSUME NEW t \in Thread, Return(t)
      PROVE  BuiltinsOpen'
  <2>1. \A i \in 1..Len(plugins') : /\ plugins'[i] \in Plugin /\ ~closed[plugins'[i]]
                                    /\ \E j \in 1..Len(plugins) : plugins'[i] = plugins[j]
    BY <1>9, ReturnRegistry
  <2>2. UNCHANGED <<closed, acc, cand>>
    BY <1>9 DEF Return
  <2>3. \A p \in Builtin : p \in Plugin => peer'[p] = peer[p]
    BY <1>9, AdaptationAssumption DEF Return
  <2>4. QED
    BY <2>1, <2>2, <2>3
<1>10. ASSUME NEW t \in Thread, Runtime(t), ~Return(t)
       PROVE  BuiltinsOpen'
  <2>1. UNCHANGED <<plugins, peer, acc, cand>>
    BY <1>10 DEF Runtime, BlockPluginSync, RequestUnblocked, LockAdaptation, Relay,
               SkipPlugin, CallPlugin, RelayDone, ValidationDone, Answer, CallSucceeds,
               CallFails, CallIsFatal, Validate, ValidatorAccepts, ValidatorRejects,
               ValidatorIsFatal, Unblock
  <2>2. ASSUME NEW u \in Thread, u # t
        PROVE  pc'[u] = pc[u] /\ pos'[u] = pos[u]
    BY <1>10, <2>2 DEF Runtime, BlockPluginSync, RequestUnblocked, LockAdaptation, Relay,
               SkipPlugin, CallPlugin, RelayDone, ValidationDone, Answer, CallSucceeds,
               CallFails, CallIsFatal, Validate, ValidatorAccepts, ValidatorRejects,
               ValidatorIsFatal, Unblock, TypeOK
  <2>3. ASSUME NEW i \in 1..Len(plugins), Locked(t), Passed(t, i)
        PROVE  Locked(t)' /\ Passed(t, i)'
    BY <1>10, <2>3 DEF Locked, Passed, Runtime, BlockPluginSync, RequestUnblocked,
               LockAdaptation, Relay, SkipPlugin, CallPlugin, RelayDone, ValidationDone,
               Answer, CallSucceeds, CallFails, CallIsFatal, Validate, ValidatorAccepts,
               ValidatorRejects, ValidatorIsFatal, Unblock, TypeOK
  <2>4. ASSUME NEW i \in 1..Len(plugins), closed'[plugins[i]], ~closed[plugins[i]]
        PROVE  \E u \in Thread : Locked(u)' /\ Passed(u, i)'
    <3>1. CASE CallIsFatal(t)
      <4>1. /\ pc'[t] = "relaying" /\ pos'[t] = pos[t] + 1 /\ pos[t] \in 1..Len(plugins)
            /\ closed' = [closed EXCEPT ![plugins[pos[t]]] = TRUE]
        BY <3>1 DEF CallIsFatal, Current, Loop, TypeOK
      <4>2. plugins[i] = plugins[pos[t]]
        BY <1>0, <2>4, <4>1 DEF TypeOK
      <4>3. i = pos[t]
        BY <4>1, <4>2 DEF Distinct
      <4>4. QED
        BY <4>1, <4>3 DEF Locked, Passed
    <3>2. CASE Validate(t)
      BY <1>0, <2>4, <3>2 DEF Validate, ValidatorAccepts, ValidatorRejects,
               ValidatorIsFatal, Locked, Passed, TypeOK
    <3>3. QED
      BY <1>10, <2>4, <3>1, <3>2 DEF Runtime, BlockPluginSync, RequestUnblocked,
               LockAdaptation, Relay, SkipPlugin, CallPlugin, RelayDone, ValidationDone,
               Answer, CallSucceeds, CallFails, Unblock
  <2>5. ASSUME NEW i \in 1..Len(plugins), plugins[i] \in Builtin, closed[plugins[i]]
        PROVE  \E u \in Thread : Locked(u)' /\ Passed(u, i)'
    BY <2>2, <2>3, <2>5 DEF Locked, Passed
  <2>6. QED
    BY <2>1, <2>4, <2>5
<1>11. QED
  BY <1>1, <1>2, <1>3, <1>4, <1>5, <1>6, <1>7, <1>8, <1>9, <1>10 DEF Next, Accept

(***************************************************************************)
(* The containers that are worked on, and those of the newcomer.           *)
(***************************************************************************)
LEMMA ExistingNext ==
    ASSUME TypeOK, Exclusive, Existing, [Next]_vars
    PROVE  Existing'
<1> SUFFICES ASSUME NEW t \in Thread, pc'[t] # "idle", req'[t].kind # "create"
             PROVE  req'[t].ctr \in store'
  BY DEF Existing
<1> USE DEF registryVars, syncVars, peerVars, threadVars, runtimeVars
<1>1. CASE ~Runtime(t)
  <2>1. pc'[t] = pc[t] /\ req'[t] = req[t]
    BY <1>1, ThreadKept
  <2>2. QED
    BY <1>1, <2>1, ContainerApart, StoreKept DEF Existing, Runtime
<1>2. CASE BlockPluginSync(t) \/ RequestUnblocked(t)
  <2>1. PICK r \in Request : /\ (r.kind = "create") <=> (r.ctr \notin store)
                             /\ req' = [req EXCEPT ![t] = r]
    BY <1>2 DEF BlockPluginSync, RequestUnblocked, TakeOn, Request, Kinds
  <2>2. store' = store
    BY <1>2 DEF BlockPluginSync, RequestUnblocked
  <2>3. QED
    BY <2>1, <2>2 DEF TypeOK
<1>3. CASE LockAdaptation(t) \/ Relay(t) \/ Answer(t) \/ Validate(t) \/ Unblock(t)
  BY <1>3 DEF LockAdaptation, Relay, SkipPlugin, CallPlugin, RelayDone, ValidationDone,
          Return, Answer, CallSucceeds, CallFails, CallIsFatal, Validate,
          ValidatorAccepts, ValidatorRejects, ValidatorIsFatal, Unblock, Existing, TypeOK
<1>4. QED
  BY <1>1, <1>2, <1>3 DEF Runtime

LEMMA ExactViewNext ==
    ASSUME TypeOK, Locks, Idle, ExactView, [Next]_vars
    PROVE  ExactView'
<1> USE DEF registryVars, syncVars, peerVars, threadVars, runtimeVars
<1>1. CASE UNCHANGED vars
  BY <1>1 DEF vars, ExactView
<1>2. CASE Start \/ StartFails
  BY <1>2 DEF Start, StartFails, Idle, ExactView
<1>3. CASE Stop \/ Accept
  BY <1>3 DEF Stop, Accept, StartPlugin, Register, Configure, StartPluginFails,
              RequestPluginSync, SyncPlugin, Synchronize, SynchronizeFails, Admit,
              FinishedPluginSync, ExactView, TypeOK
<1>4. ASSUME NEW p \in Plugin,
             \/ AcceptConnection(p) \/ PluginGone(p) \/ ConnectionClosed(p)
             \/ RequestUpdate(p) \/ UpdateContainers(p)
      PROVE  ExactView'
  <2>1. CASE AcceptConnection(p)
    BY <2>1 DEF AcceptConnection, ExactView
  <2>2. CASE ~AcceptConnection(p)
    <3>1. UNCHANGED <<acc, cand, view, store>>
      BY <1>4, <2>2 DEF PluginGone, ConnectionClosed, RequestUpdate, UpdateContainers
    <3>2. acc = "admit" /\ closed[cand] => closed'[cand]
      BY StaysClosed DEF TypeOK
    <3>3. QED
      BY <3>1, <3>2 DEF ExactView
  <2>3. QED
    BY <2>1, <2>2
<1>5. ASSUME NEW t \in Thread, Runtime(t)
      PROVE  ExactView'
  <2>1. acc' = acc /\ cand' = cand
    BY <1>5 DEF Runtime, BlockPluginSync, RequestUnblocked, LockAdaptation, Relay,
                SkipPlugin, CallPlugin, RelayDone, ValidationDone, Return, Answer,
                CallSucceeds, CallFails, CallIsFatal, Validate, ValidatorAccepts,
                ValidatorRejects, ValidatorIsFatal, Unblock
  <2>2. CASE acc = "admit"
    <3>1. ~Bracketed(t) /\ cand \in Plugin
      BY <2>2 DEF Locks, TypeOK
    <3>2. closed[cand] => closed'[cand]
      BY <3>1, StaysClosed DEF TypeOK
    <3>3. view' = view
      <4>1. CASE Answer(t)
        <5>1. pc[t] = "calling" /\ (view' = view \/ view' = Handled(t))
          BY <4>1 DEF Answer, CallSucceeds, CallFails, CallIsFatal
        <5>2. req[t].kind \notin {"create", "remove"}
          BY <3>1, <5>1 DEF Bracketed
        <5>3. QED
          BY <5>1, <5>2 DEF Handled, TypeOK
      <4>2. CASE ~Answer(t)
        BY <1>5, <4>2 DEF Runtime, BlockPluginSync, RequestUnblocked, LockAdaptation,
                Relay, SkipPlugin, CallPlugin, RelayDone, ValidationDone, Return,
                Validate, ValidatorAccepts, ValidatorRejects, ValidatorIsFatal, Unblock
      <4>3. QED
        BY <4>1, <4>2
    <3>4. store' = store
      BY <1>5, <3>1 DEF Runtime, BlockPluginSync, RequestUnblocked, LockAdaptation, Relay,
                SkipPlugin, CallPlugin, RelayDone, ValidationDone, Return, Answer,
                CallSucceeds, CallFails, CallIsFatal, Validate, ValidatorAccepts,
                ValidatorRejects, ValidatorIsFatal, Unblock, Bracketed
    <3>5. QED
      BY <2>1, <3>2, <3>3, <3>4 DEF ExactView
  <2>3. QED
    BY <2>1, <2>2 DEF ExactView
<1>6. QED
  BY <1>1, <1>2, <1>3, <1>4, <1>5 DEF Next

(***************************************************************************)
(* While a thread creates or removes a container the registry only loses   *)
(* members, and those that remain are as they were but for what they have  *)
(* been told of that container.                                            *)
(***************************************************************************)
LEMMA FollowersKept ==
    ASSUME TypeOK, Locks, Idle, Newcomer, [Next]_vars,
           NEW t \in Thread, Bracketed(t), NEW i \in 1..Len(plugins'), Follows(i)'
    PROVE  \E j \in 1..Len(plugins) : /\ plugins'[i] = plugins[j] /\ Follows(j)
                                      /\ Locked(t) /\ ~Return(t) => j = i
<1>1. ~Start
  BY DEF Start, Idle, Bracketed
<1>2. ~Admit
  BY DEF Admit, Locks
<1>3. PICK j \in 1..Len(plugins) : /\ plugins'[i] = plugins[j]
                                   /\ Locked(t) /\ ~Return(t) => j = i
  <2>1. CASE Locked(t) /\ ~Return(t)
    BY <2>1, MembersKept
  <2>2. CASE ~(Locked(t) /\ ~Return(t))
    BY <1>1, <1>2, <2>2, NoNewMember
  <2>3. QED
    BY <2>1, <2>2
<1>4. plugins[j] \in Plugin
  BY MembersByPosition
<1>5. events'[plugins[j]] = events[plugins[j]] /\ ~closed[plugins[j]]
  BY <1>1, <1>3, <1>4, EventsKept, StaysClosed DEF Follows
<1>6. QED
  BY <1>3, <1>5 DEF Follows

LEMMA UnheardNext ==
    ASSUME TypeOK, Locks, Idle, Newcomer, Exclusive, Loop, Distinct, NoMissedContainer,
           NoStaleContainer, [Next]_vars, NEW t \in Thread, Unheard(t)
    PROVE  Unheard(t)'
<1> USE DEF registryVars, syncVars, peerVars, threadVars, runtimeVars
<1>0. /\ Len(plugins) \in Nat /\ pos[t] \in Nat \ {0}
      /\ \A i \in 1..Len(plugins) : plugins[i] \in Plugin
  BY MembersByPosition DEF TypeOK
<1>1. CASE ~Runtime(t)
  <2>1. pc'[t] = pc[t] /\ req'[t] = req[t] /\ pos'[t] = pos[t]
    BY <1>1, ThreadKept
  <2>2. SUFFICES ASSUME pc[t] \in {"waiting", "relaying", "calling"}, Bracketed(t),
                        NEW i \in 1..Len(plugins'), i >= pos[t], Follows(i)'
                 PROVE  /\ req[t].kind = "create" /\ req[t].ctr \in view'[plugins'[i]] =>
                              req[t].ctr \in aborted'
                        /\ req[t].kind = "remove" => req[t].ctr \in view'[plugins'[i]]
    BY <2>1 DEF Unheard, Bracketed
  <2>3. ~Return(t) /\ ~Start
    BY <2>2 DEF Return, Start, Idle
  <2>4. PICK j \in 1..Len(plugins) : /\ plugins'[i] = plugins[j] /\ Follows(j)
                                     /\ Locked(t) => j = i
    BY <2>2, <2>3, FollowersKept
  <2>5. j >= pos[t]
    BY <1>0, <2>2, <2>4 DEF Locked, Loop
  <2>6. /\ req[t].kind = "create" /\ req[t].ctr \in view[plugins[j]] => req[t].ctr \in aborted
        /\ req[t].kind = "remove" => req[t].ctr \in view[plugins[j]]
    BY <2>2, <2>4, <2>5 DEF Unheard
  <2>7. /\ req[t].ctr \in Container
        /\ \A u \in Thread : Answer(u) \/ Unblock(u) => req[u].ctr # req[t].ctr
    BY <1>1, <2>2, ContainerApart
  <2>8. req[t].ctr \in view'[plugins[j]] <=> req[t].ctr \in view[plugins[j]]
    BY <2>3, <2>7, ViewKept
  <2>9. req[t].ctr \in aborted' <=> req[t].ctr \in aborted
    BY <2>7, StoreKept
  <2>10. QED
    BY <2>4, <2>6, <2>8, <2>9
<1>2. CASE BlockPluginSync(t)
  <2>1. PICK r \in Request : /\ ~Busy(r.ctr)
                             /\ (r.kind = "create") <=> (r.ctr \notin store)
                             /\ req' = [req EXCEPT ![t] = r]
    BY <1>2 DEF BlockPluginSync, TakeOn, Request, Kinds
  <2>2. UNCHANGED <<plugins, closed, events, pos, view, store, aborted>>
    BY <1>2 DEF BlockPluginSync
  <2>3. req'[t] = r
    BY <2>1 DEF TypeOK
  <2>4. ASSUME NEW i \in 1..Len(plugins), Follows(i)
        PROVE  /\ r.ctr \in view[plugins[i]] => r.ctr \in store \cup aborted
               /\ r.ctr \in store => r.ctr \in view[plugins[i]]
    <3>1. plugins[i] \in Members /\ Live(plugins[i])
      BY <2>4, MembersByPosition DEF Members, Live, Follows
    <3>2. ~BeingRemoved(r.ctr)
      BY <2>1 DEF BeingRemoved, Busy
    <3>3. QED
      BY <2>1, <2>4, <3>1, <3>2 DEF NoMissedContainer, NoStaleContainer, Follows
  <2>5. QED
    BY <2>1, <2>2, <2>3, <2>4 DEF Unheard, Follows
<1>3. CASE RequestUnblocked(t)
  <2>1. PICK r \in Request : r.kind = "update" /\ req' = [req EXCEPT ![t] = r]
    BY <1>3 DEF RequestUnblocked, TakeOn, Request, Kinds
  <2>2. QED
    BY <2>1 DEF Unheard, TypeOK
<1>4. CASE LockAdaptation(t) \/ SkipPlugin(t) \/ CallPlugin(t)
  <2>1. /\ UNCHANGED <<plugins, closed, events, view, req, aborted>>
        /\ pc[t] \in {"waiting", "relaying"} /\ pos'[t] \in {pos[t], pos[t] + 1}
    BY <1>4 DEF LockAdaptation, SkipPlugin, CallPlugin, TypeOK
  <2>2. \A i \in 1..Len(plugins) : i >= pos'[t] => i >= pos[t]
    BY <1>0, <2>1
  <2>3. QED
    BY <2>1, <2>2 DEF Unheard, Follows
<1>5. CASE CallSucceeds(t)
  <2>1. /\ UNCHANGED <<plugins, closed, events, req, aborted>>
        /\ pc[t] = "calling" /\ pos'[t] = pos[t] + 1 /\ pos[t] <= Len(plugins)
        /\ view' = Handled(t)
    BY <1>5 DEF CallSucceeds, Loop, TypeOK
  <2>2. ASSUME NEW i \in 1..Len(plugins), i >= pos[t] + 1
        PROVE  i >= pos[t] /\ view'[plugins[i]] = view[plugins[i]]
    <3>1. i >= pos[t] /\ i # pos[t] /\ pos[t] \in 1..Len(plugins)
      BY <1>0, <2>1, <2>2
    <3>2. plugins[i] # Current(t)
      BY <3>1 DEF Current, Distinct
    <3>3. QED
      BY <1>0, <2>1, <3>1, <3>2 DEF Handled, TypeOK
  <2>3. QED
    BY <2>1, <2>2 DEF Unheard, Follows
<1>6. CASE CallIsFatal(t)
  <2>1. /\ UNCHANGED <<plugins, events, view, req, aborted>>
        /\ pc[t] = "calling" /\ pos'[t] = pos[t] + 1
    BY <1>6 DEF CallIsFatal, TypeOK
  <2>2. \A i \in 1..Len(plugins) : i >= pos'[t] => i >= pos[t]
    BY <1>0, <2>1
  <2>3. \A i \in 1..Len(plugins) : Follows(i)' => Follows(i)
    BY <1>0, <2>1, StaysClosed DEF Follows
  <2>4. QED
    BY <2>1, <2>2, <2>3 DEF Unheard
<1>7. CASE CallFails(t) \/ RelayDone(t) \/ ValidationDone(t) \/ Return(t) \/ Validate(t)
           \/ Unblock(t)
  <2>1. pc'[t] \notin {"waiting", "relaying", "calling"}
    BY <1>7 DEF CallFails, RelayDone, ValidationDone, Return, Validate, ValidatorAccepts,
            ValidatorRejects, ValidatorIsFatal, Unblock, TypeOK
  <2>2. QED
    BY <2>1 DEF Unheard
<1>8. QED
  BY <1>1, <1>2, <1>3, <1>4, <1>5, <1>6, <1>7 DEF Runtime, Relay, Answer

LEMMA WithdrawnNext ==
    ASSUME TypeOK, Locks, Idle, Newcomer, Exclusive, Loop, [Next]_vars,
           NEW t \in Thread, Withdrawn(t)
    PROVE  Withdrawn(t)'
<1> USE DEF registryVars, syncVars, peerVars, threadVars, runtimeVars
<1>0. /\ Len(plugins) \in Nat /\ pos[t] \in Nat \ {0}
      /\ \A i \in 1..Len(plugins) : plugins[i] \in Plugin
  BY MembersByPosition DEF TypeOK
<1>1. CASE ~Runtime(t)
  <2>1. pc'[t] = pc[t] /\ req'[t] = req[t] /\ pos'[t] = pos[t] /\ ok'[t] = ok[t]
    BY <1>1, ThreadKept
  <2>2. SUFFICES ASSUME pc[t] \notin {"idle", "waiting"}, req[t].kind = "remove", ok[t],
                        NEW i \in 1..Len(plugins'), Passed(t, i)', Follows(i)'
                 PROVE  req[t].ctr \notin view'[plugins'[i]]
    BY <2>1 DEF Withdrawn
  <2>3. Bracketed(t) /\ ~Return(t) /\ ~Start
    BY <1>1, <2>2 DEF Bracketed, Runtime, Relay, Start, Idle
  <2>4. PICK j \in 1..Len(plugins) : /\ plugins'[i] = plugins[j] /\ Follows(j)
                                     /\ Locked(t) => j = i
    BY <2>2, <2>3, FollowersKept
  <2>5. Passed(t, j)
    BY <2>1, <2>2, <2>4 DEF Passed, Locked
  <2>6. req[t].ctr \notin view[plugins[j]]
    BY <2>2, <2>4, <2>5 DEF Withdrawn
  <2>7. /\ req[t].ctr \in Container
        /\ \A u \in Thread : Answer(u) \/ Unblock(u) => req[u].ctr # req[t].ctr
    BY <1>1, <2>2, ContainerApart
  <2>8. QED
    BY <2>3, <2>4, <2>6, <2>7, ViewKept
<1>2. CASE BlockPluginSync(t) \/ RequestUnblocked(t) \/ Unblock(t)
  <2>1. pc'[t] \in {"idle", "waiting"}
    BY <1>2 DEF BlockPluginSync, RequestUnblocked, Unblock, TypeOK
  <2>2. QED
    BY <2>1 DEF Withdrawn
<1>3. CASE LockAdaptation(t)
  <2>1. pc'[t] = "relaying" /\ pos'[t] = 1
    BY <1>3 DEF LockAdaptation, Loop, TypeOK
  <2>2. QED
    BY <1>0, <1>3, <2>1 DEF LockAdaptation, Withdrawn, Passed
<1>4. CASE SkipPlugin(t) \/ CallPlugin(t) \/ RelayDone(t) \/ ValidationDone(t)
  <2>1. /\ UNCHANGED <<plugins, closed, events, view, req, ok>>
        /\ pc[t] \in {"relaying", "validating"}
    BY <1>4 DEF SkipPlugin, CallPlugin, RelayDone, ValidationDone
  <2>2. ASSUME NEW i \in 1..Len(plugins), Passed(t, i)'
        PROVE  Passed(t, i) \/ req[t].kind \notin events[plugins[i]]
    <3>1. CASE SkipPlugin(t)
      BY <1>0, <2>2, <3>1 DEF SkipPlugin, Current, Passed, TypeOK
    <3>2. CASE CallPlugin(t)
      BY <1>0, <2>2, <3>2 DEF CallPlugin, Passed, TypeOK
    <3>3. CASE RelayDone(t)
      BY <1>0, <3>3 DEF RelayDone, Passed, TypeOK
    <3>4. CASE ValidationDone(t)
      BY <3>4 DEF ValidationDone, Passed
    <3>5. QED
      BY <1>4, <3>1, <3>2, <3>3, <3>4
  <2>3. QED
    BY <2>1, <2>2 DEF Withdrawn, Follows
<1>5. CASE CallSucceeds(t)
  <2>1. /\ UNCHANGED <<plugins, closed, events, req, ok>> /\ view' = Handled(t)
        /\ pc[t] = "calling" /\ pos[t] <= Len(plugins)
        /\ pc'[t] = "relaying" /\ pos'[t] = pos[t] + 1
    BY <1>5 DEF CallSucceeds, Loop, TypeOK
  <2>2. SUFFICES ASSUME req[t].kind = "remove", ok[t], NEW i \in 1..Len(plugins),
                        i < pos[t] + 1, Follows(i)
                 PROVE  req[t].ctr \notin view'[plugins[i]]
    BY <2>1 DEF Withdrawn, Passed, Follows
  <2>3. CASE plugins[i] = Current(t)
    BY <1>0, <2>1, <2>2, <2>3 DEF Handled, TypeOK
  <2>4. CASE plugins[i] # Current(t)
    <3>1. i < pos[t]
      BY <1>0, <2>2, <2>4 DEF Current
    <3>2. req[t].ctr \notin view[plugins[i]]
      BY <2>1, <2>2, <3>1 DEF Withdrawn, Passed
    <3>3. QED
      BY <1>0, <2>1, <2>4, <3>2 DEF Handled, TypeOK
  <2>5. QED
    BY <2>3, <2>4
<1>6. CASE CallIsFatal(t)
  <2>1. /\ UNCHANGED <<plugins, events, view, req, ok>> /\ pc[t] = "calling"
        /\ pos[t] \in 1..Len(plugins) /\ pc'[t] = "relaying" /\ pos'[t] = pos[t] + 1
        /\ closed'[plugins[pos[t]]]
    BY <1>0, <1>6 DEF CallIsFatal, Current, Loop, TypeOK
  <2>2. ASSUME NEW i \in 1..Len(plugins), i < pos[t] + 1, Follows(i)'
        PROVE  i < pos[t] /\ Follows(i)
    BY <1>0, <2>1, <2>2, StaysClosed DEF Follows
  <2>3. QED
    BY <2>1, <2>2 DEF Withdrawn, Passed
<1>7. CASE CallFails(t)
  BY <1>7 DEF CallFails, Withdrawn, TypeOK
<1>8. CASE Return(t)
  <2>1. /\ pc[t] = "return" /\ UNCHANGED <<closed, events, view, req, ok>>
    BY <1>8 DEF Return
  <2>2. \A i \in 1..Len(plugins') : \E j \in 1..Len(plugins) : plugins'[i] = plugins[j]
    BY <1>8, ReturnRegistry
  <2>3. QED
    BY <2>1, <2>2 DEF Withdrawn, Passed, Follows
<1>9. CASE Validate(t)
  <2>1. /\ UNCHANGED <<plugins, events, view, pc, pos, req>> /\ (ok'[t] => ok[t])
    BY <1>9 DEF Validate, ValidatorAccepts, ValidatorRejects, ValidatorIsFatal, TypeOK
  <2>2. \A i \in 1..Len(plugins) : Follows(i)' => Follows(i)
    BY <1>0, <2>1, StaysClosed DEF Follows
  <2>3. QED
    BY <2>1, <2>2 DEF Withdrawn, Passed
<1>10. QED
  BY <1>1, <1>2, <1>3, <1>4, <1>5, <1>6, <1>7, <1>8, <1>9 DEF Runtime, Relay, Answer

(***************************************************************************)
(* No container lingers with a plugin once the runtime is done with it.    *)
(***************************************************************************)
LEMMA NoStaleNext ==
    ASSUME ViewInv, TypeOK', Existing, ExactView, NoStaleContainer, [Next]_vars,
           \A t \in Thread : Withdrawn(t)
    PROVE  NoStaleContainer'
<1> USE DEF registryVars, syncVars, peerVars, threadVars, runtimeVars
<1>0. TypeOK /\ Locks /\ Idle /\ Newcomer /\ Exclusive /\ Loop
  BY DEF ViewInv
<1>1. SUFFICES ASSUME NEW i \in 1..Len(plugins'), Follows(i)', NEW c \in view'[plugins'[i]]
               PROVE  c \in store' \cup aborted' \/ Busy(c)'
  <2>1. plugins' \in Seq(Plugin)
    BY DEF TypeOK
  <2>2. \A p \in Range(plugins') : \E j \in 1..Len(plugins') : p = plugins'[j]
    BY <2>1 DEF Range
  <2>3. QED
    BY <2>2 DEF NoStaleContainer, Follows, Live, Members
<1>2. plugins'[i] \in Plugin /\ c \in Container
  BY <1>1 DEF TypeOK
<1>3. CASE Start
  <2>1. PICK synced \in SUBSET Preinstalled :
          /\ plugins' \in SortedListings(synced)
          /\ view' = [q \in Plugin |-> IF q \in synced THEN store ELSE view[q]]
    BY <1>3 DEF Start
  <2>2. synced \in SUBSET Plugin
    BY AdaptationAssumption DEF Preinstalled
  <2>3. plugins'[i] \in synced
    BY <1>1, <2>1, <2>2, ListedMembers DEF SortedListings
  <2>4. QED
    BY <1>1, <1>2, <1>3, <2>1, <2>3 DEF Start
<1>4. ASSUME ~Start, NEW j \in 1..Len(plugins), plugins'[i] = plugins[j]
      PROVE  c \in store' \cup aborted' \/ Busy(c)'
  <2>1. Follows(j)
    BY <1>0, <1>1, <1>2, <1>4, EventsKept, StaysClosed DEF Follows
  <2>2. CASE \E t \in Thread : Answer(t) /\ req[t].ctr = c
    BY <1>0, <2>2 DEF Answer, CallSucceeds, CallFails, CallIsFatal, Busy, TypeOK
  <2>3. CASE \A t \in Thread : Answer(t) => req[t].ctr # c
    <3>1. c \in view[plugins[j]]
      BY <1>0, <1>1, <1>2, <1>4, <2>3, ViewKept
    <3>2. c \in store \cup aborted \/ Busy(c)
      BY <1>0, <2>1, <3>1, MembersByPosition DEF NoStaleContainer, Follows, Live, Members
    <3>3. ASSUME NEW t \in Thread, Unblock(t), req[t].ctr = c
          PROVE  c \in store' \cup aborted'
      <4>1. /\ pc[t] = "commit" /\ req[t].kind \in Kinds
            /\ store' = IF req[t].kind = "create" /\ ok[t] THEN store \cup {c}
                        ELSE IF req[t].kind = "remove" THEN store \ {c} ELSE store
            /\ aborted' = IF req[t].kind \in {"create", "remove"} /\ ~ok[t]
                          THEN aborted \cup {c}
                          ELSE IF req[t].kind = "remove" THEN aborted \ {c} ELSE aborted
        BY <1>0, <3>3 DEF Unblock, TypeOK, Request
      <4>2. ~(req[t].kind = "remove" /\ ok[t])
        BY <2>1, <3>1, <3>3, <4>1 DEF Withdrawn, Passed
      <4>3. req[t].kind = "update" => c \in store
        BY <3>3, <4>1 DEF Existing
      <4>4. QED
        BY <4>1, <4>2, <4>3 DEF Kinds
    <3>4. ASSUME \A t \in Thread : Unblock(t) => req[t].ctr # c, NEW u \in Thread,
                 pc[u] # "idle", req[u].ctr = c
          PROVE  Busy(c)'
      <4>1. CASE ~Runtime(u)
        BY <1>0, <3>4, <4>1, ThreadKept DEF Busy
      <4>2. CASE Runtime(u)
        <5>1. pc'[u] # "idle" /\ req'[u] = req[u]
          BY <1>0, <3>4, <4>2 DEF Runtime, BlockPluginSync, RequestUnblocked,
             LockAdaptation, Relay, SkipPlugin, CallPlugin, RelayDone, ValidationDone,
             Return, Answer, CallSucceeds, CallFails, CallIsFatal, Validate,
             ValidatorAccepts, ValidatorRejects, ValidatorIsFatal, TypeOK
        <5>2. QED
          BY <3>4, <5>1 DEF Busy
      <4>3. QED
        BY <4>1, <4>2
    <3>5. CASE \A t \in Thread : Unblock(t) => req[t].ctr # c
      <4>1. CASE Busy(c)
        BY <3>4, <3>5, <4>1 DEF Busy
      <4>2. CASE c \in store \cup aborted
        BY <1>0, <1>2, <3>5, <4>2, StoreKept
      <4>3. QED
        BY <3>2, <4>1, <4>2
    <3>6. QED
      BY <3>3, <3>5
  <2>4. QED
    BY <2>2, <2>3
<1>5. CASE Admit
  <2>1. UNCHANGED <<view, store, aborted>> /\ ~Start /\ acc = "admit"
    BY <1>0, <1>5 DEF Admit, Start, Idle
  <2>2. /\ ~closed[plugins'[i]]
        /\ plugins'[i] = cand \/ \E j \in 1..Len(plugins) : plugins'[i] = plugins[j]
    BY <1>0, <1>1, <1>5, AdmitRegistry
  <2>3. CASE plugins'[i] = cand
    BY <1>1, <2>1, <2>2, <2>3 DEF ExactView
  <2>4. QED
    BY <1>4, <2>1, <2>2, <2>3
<1>6. CASE ~Start /\ ~Admit
  BY <1>0, <1>1, <1>4, <1>6, NoNewMember
<1>7. QED
  BY <1>3, <1>5, <1>6
-----------------------------------------------------------------------------
LEMMA ExactInvInit == Init => ExactInv
<1> SUFFICES ASSUME Init PROVE ExactInv
  OBVIOUS
<1>1. ViewInv
  BY ViewInvInit
<1>2. Distinct /\ BuiltinsOpen /\ NoStaleContainer
  BY DEF Init, Distinct, BuiltinsOpen, NoStaleContainer, Members, Range
<1>3. Unconnected /\ Existing /\ ExactView
  BY DEF Init, Unconnected, Existing, ExactView
<1>4. \A t \in Thread : Unheard(t) /\ Withdrawn(t)
  BY DEF Init, Unheard, Withdrawn
<1>5. QED
  BY <1>1, <1>2, <1>3, <1>4 DEF ExactInv

LEMMA ExactInvNext == ExactInv /\ [Next]_vars => ExactInv'
<1> SUFFICES ASSUME ExactInv, [Next]_vars PROVE ExactInv'
  OBVIOUS
<1>1. /\ ViewInv /\ Distinct /\ Unconnected /\ BuiltinsOpen /\ Existing /\ ExactView
      /\ NoStaleContainer /\ NoMissedContainer
      /\ TypeOK /\ Locks /\ Idle /\ Newcomer /\ Exclusive /\ Loop
      /\ \A t \in Thread : Unheard(t) /\ Withdrawn(t)
  BY DEF ExactInv, ViewInv
<1>2. ViewInv' /\ TypeOK'
  BY <1>1, ViewInvNext DEF ViewInv
<1>3. Distinct' /\ Unconnected' /\ BuiltinsOpen'
  BY <1>1, DistinctNext, UnconnectedNext, BuiltinsOpenNext
<1>4. Existing' /\ ExactView'
  BY <1>1, ExistingNext, ExactViewNext
<1>5. NoStaleContainer'
  BY <1>1, <1>2, NoStaleNext
<1>6. ASSUME NEW t \in Thread
      PROVE  Unheard(t)' /\ Withdrawn(t)'
  BY <1>1, UnheardNext, WithdrawnNext
<1>7. QED
  BY <1>2, <1>3, <1>4, <1>5, <1>6 DEF ExactInv

THEOREM ExactInvariant == Spec => []ExactInv
BY ExactInvInit, ExactInvNext, PTL DEF Spec

(***************************************************************************)
(* No container that the runtime is done with lingers with a plugin that   *)
(* follows creation and removal: neither a synchronization nor a request   *)
(* leaves one behind, except where a plugin's failure cuts a request short *)
(* (synchronize, RemoveContainer).                                         *)
(***************************************************************************)
THEOREM NoContainerGoesStale == Spec => []NoStaleContainer
<1>1. ExactInv => NoStaleContainer
  BY DEF ExactInv
<1>2. QED
  BY <1>1, ExactInvariant, PTL

(***************************************************************************)
(* A plugin is asked to create what it does not know and to update or      *)
(* remove what it knows, whenever it was synchronized (BlockPluginSync,    *)
(* CreateContainer, RemoveContainer, UpdateContainer).                     *)
(***************************************************************************)
THEOREM EventsFitWhatIsKnown == Spec => []EventsFitView
<1>1. ExactInv => EventsFitView
  <2> SUFFICES ASSUME ExactInv, NEW t \in Thread, NEW p \in Members,
                      InCall(t, p), Events \ {"validate"} \subseteq events[p], Answers(p)
               PROVE  IF req[t].kind = "create"
                      THEN req[t].ctr \in view[p] => req[t].ctr \in aborted
                      ELSE req[t].ctr \in view[p]
    BY DEF EventsFitView
  <2>1. /\ TypeOK /\ Locks /\ Exclusive /\ Loop /\ NoMissedContainer /\ BuiltinsOpen
        /\ Existing /\ Unheard(t)
    BY DEF ExactInv, ViewInv
  <2> DEFINE i == pos[t]
  <2>2. pc[t] = "calling" /\ i \in 1..Len(plugins) /\ p = plugins[i]
    BY <2>1 DEF InCall, Current, Loop, TypeOK
  <2>3. req[t].kind \in Kinds
    BY <2>1, <2>2 DEF TypeOK, Request
  <2>4. {"create", "remove"} \subseteq events[p]
    BY DEF Events, Kinds
  <2>5. ~closed[p]
    <3>1. CASE p \in Builtin
      <4>1. \A u \in Thread : Locked(u) => u = t
        BY <2>1, <2>2 DEF Locks, Locked
      <4>2. ~Passed(t, i)
        BY <2>2 DEF Passed
      <4>3. QED
        BY <2>1, <2>2, <3>1, <4>1, <4>2 DEF BuiltinsOpen
    <3>2. CASE p \notin Builtin
      BY <3>2 DEF Answers
    <3>3. QED
      BY <3>1, <3>2
  <2>6. Follows(i) /\ i >= pos[t]
    BY <2>2, <2>4, <2>5 DEF Follows
  <2>7. CASE req[t].kind \in {"create", "remove"}
    BY <2>1, <2>2, <2>6, <2>7 DEF Unheard
  <2>8. CASE req[t].kind = "update"
    <3>1. req[t].ctr \in store
      BY <2>1, <2>2, <2>8 DEF Existing
    <3>2. ~BeingRemoved(req[t].ctr)
      BY <2>1, <2>2, <2>8 DEF BeingRemoved, Exclusive
    <3>3. QED
      BY <2>1, <2>4, <2>5, <2>8, <3>1, <3>2 DEF NoMissedContainer, Live
  <2>9. QED
    BY <2>3, <2>7, <2>8 DEF Kinds
<1>2. QED
  BY <1>1, ExactInvariant, PTL
-----------------------------------------------------------------------------
(***************************************************************************)
(* The refinement of Following.  A request fails when a plugin or a        *)
(* validator fails it, after which no further plugin hears of it.          *)
(***************************************************************************)
Unfailed == \A t \in Thread : pc[t] \in {"idle", "waiting", "relaying", "calling"} => ok[t]

FollowInv == ExactInv /\ Sorted /\ Unfailed

LEMMA UnfailedNext ==
    ASSUME TypeOK, Unfailed, [Next]_vars
    PROVE  Unfailed'
<1> USE DEF Unfailed, TypeOK, registryVars, syncVars, peerVars, threadVars, runtimeVars
<1>1. ASSUME NEW t \in Thread, ~Runtime(t)
      PROVE  pc'[t] = pc[t] /\ ok'[t] = ok[t]
  BY <1>1, ThreadKept
<1>2. ASSUME NEW t \in Thread, Runtime(t)
      PROVE  pc'[t] \in {"idle", "waiting", "relaying", "calling"} => ok'[t]
  <2>1. CASE Relay(t) \/ Answer(t) \/ Validate(t)
    BY <1>2, <2>1 DEF Relay, SkipPlugin, CallPlugin, RelayDone, ValidationDone, Return,
            Answer, CallSucceeds, CallFails, CallIsFatal, Validate, ValidatorAccepts,
            ValidatorRejects, ValidatorIsFatal
  <2>2. CASE BlockPluginSync(t) \/ RequestUnblocked(t) \/ LockAdaptation(t) \/ Unblock(t)
    BY <2>2 DEF BlockPluginSync, RequestUnblocked, LockAdaptation, Unblock
  <2>3. QED
    BY <1>2, <2>1, <2>2 DEF Runtime
<1>3. QED
  BY <1>1, <1>2

LEMMA FollowInvInit == Init => FollowInv
<1>1. Init => ExactInv
  BY ExactInvInit
<1>2. Init => Sorted /\ Unfailed
  BY DEF Init, Sorted, Unfailed
<1>3. QED
  BY <1>1, <1>2 DEF FollowInv

LEMMA FollowInvNext == FollowInv /\ [Next]_vars => FollowInv'
<1>1. ExactInv => TypeOK
  BY DEF ExactInv, ViewInv
<1>2. QED
  BY <1>1, ExactInvNext, SortedNext, UnfailedNext DEF FollowInv

\* Followers, by position.
LEMMA FollowersByPosition ==
    ASSUME TypeOK
    PROVE  /\ Followers \subseteq Plugin
           /\ \A p \in Followers : \E i \in 1..Len(plugins) : p = plugins[i] /\ Follows(i)
           /\ \A i \in 1..Len(plugins) : Follows(i) <=> plugins[i] \in Followers
BY MembersByPosition DEF Followers, Members, Live, Follows

\* Nobody starts to follow but in Start or by an admission.
LEMMA FollowersShrink ==
    ASSUME TypeOK, TypeOK', Newcomer, [Next]_vars, ~Start, ~Admit
    PROVE  Followers' \subseteq Followers
<1> SUFFICES ASSUME NEW p \in Followers' PROVE p \in Followers
  OBVIOUS
<1>1. p \in Plugin /\ p \in Range(plugins') /\ ~closed'[p] /\ {"create", "remove"} \subseteq events'[p]
  <2>1. plugins' \in Seq(Plugin)
    BY DEF TypeOK
  <2>2. QED
    BY <2>1 DEF Followers, Members, Live, Range
<1>2. PICK i \in 1..Len(plugins') : p = plugins'[i]
  BY <1>1 DEF TypeOK, Range
<1>3. PICK j \in 1..Len(plugins) : p = plugins[j]
  BY <1>2, NoNewMember
<1>4. ~closed[p] /\ {"create", "remove"} \subseteq events[p]
  BY <1>1, <1>3, StaysClosed, EventsKept
<1>5. QED
  BY <1>3, <1>4, FollowersByPosition DEF Follows

\* Requests are in progress from the block to the unblock.
LEMMA ProgressKept ==
    ASSUME TypeOK, [Next]_vars, NEW kind \in {"create", "remove"},
           \A t \in Thread : ~BlockPluginSync(t) /\ ~Unblock(t)
    PROVE  InProgress(kind)' = InProgress(kind)
<1> USE DEF TypeOK, registryVars, syncVars, peerVars, threadVars, runtimeVars
<1>1. SUFFICES ASSUME NEW t \in Thread, NEW c \in Container
               PROVE  (pc[t] # "idle" /\ req[t] = [kind |-> kind, ctr |-> c])
                        <=> (pc'[t] # "idle" /\ req'[t] = [kind |-> kind, ctr |-> c])
  BY DEF InProgress
<1>2. CASE ~Runtime(t)
  BY <1>2, ThreadKept
<1>3. CASE RequestUnblocked(t)
  <2>1. pc[t] = "idle" /\ req'[t].kind = "update"
    BY <1>3 DEF RequestUnblocked, TakeOn
  <2>2. QED
    BY <2>1
<1>4. CASE Runtime(t) /\ ~RequestUnblocked(t)
  BY <1>4 DEF Runtime, LockAdaptation, Relay, SkipPlugin, CallPlugin, RelayDone,
          ValidationDone, Return, Answer, CallSucceeds, CallFails, CallIsFatal, Validate,
          ValidatorAccepts, ValidatorRejects, ValidatorIsFatal
<1>5. QED
  BY <1>2, <1>3, <1>4

\* A step after which those who still follow know what they knew is no more than
\* some of them leaving.
LEMMA Departure ==
    ASSUME TypeOK, UNCHANGED <<store, aborted>>, Followers' \subseteq Followers,
           InProgress("create")' = InProgress("create"),
           InProgress("remove")' = InProgress("remove"),
           \A p \in Followers' : view'[p] = view[p]
    PROVE  Followed!Next
<1>1. PICK S \in SUBSET Plugin : S = Followers \ Followers'
  BY FollowersByPosition
<1>2. Followed!Leave(S)
  BY <1>1 DEF Followed!Leave, Followed!Followers
<1>3. QED
  BY <1>1, <1>2 DEF Followed!Next

\* Only an answer changes what a registered plugin knows.
LEMMA KnownKept ==
    ASSUME TypeOK, TypeOK', Newcomer, Loop, [Next]_vars, ~Start, \A t \in Thread : ~Answer(t)
    PROVE  \A p \in Followers : view'[p] = view[p]
<1> SUFFICES ASSUME NEW p \in Followers PROVE view'[p] = view[p]
  OBVIOUS
<1>1. PICK i \in 1..Len(plugins) : p = plugins[i]
  BY FollowersByPosition
<1>2. \A c \in Container : c \in view'[p] <=> c \in view[p]
  BY <1>1, ViewKept
<1>3. view[p] \subseteq Container /\ view'[p] \subseteq Container
  BY FollowersByPosition DEF TypeOK
<1>4. QED
  BY <1>2, <1>3

\* Nothing is being created or removed while a plugin is let in.
LEMMA NoneInProgress ==
    ASSUME TypeOK, Locks, readers = {}
    PROVE  InProgress("create") = {} /\ InProgress("remove") = {}
BY DEF Locks, Bracketed, InProgress

LEMMA StartJoins ==
    ASSUME TypeOK, TypeOK', Locks, Idle, [Next]_vars, Start
    PROVE  Followed!Next
<1>0. UNCHANGED <<store, aborted, pc, req>>
  BY DEF Start, runtimeVars, threadVars
<1>1. Followers = {}
  BY FollowersByPosition DEF Start, Idle
<1>2. InProgress("create") = {} /\ InProgress("remove") = {}
  BY DEF Start, Idle, InProgress
<1>3. InProgress("create")' = {} /\ InProgress("remove")' = {}
  BY <1>0, <1>2 DEF InProgress
<1>4. PICK synced \in SUBSET Preinstalled :
        /\ plugins' \in SortedListings(synced)
        /\ view' = [p \in Plugin |-> IF p \in synced THEN store ELSE view[p]]
  BY DEF Start
<1>5. synced \in SUBSET Plugin
  BY AdaptationAssumption DEF Preinstalled
<1>6. Range(plugins') \subseteq synced
  BY <1>4, <1>5 DEF SortedListings, Listings
<1>7. PICK S \in SUBSET Plugin : S = Followers'
  BY <1>5, <1>6 DEF Followers, Members
<1>8. \A p \in S : view'[p] = store
  BY <1>4, <1>5, <1>6, <1>7 DEF Followers, Members
<1>9. Followed!Join(S)
  BY <1>0, <1>1, <1>2, <1>3, <1>7, <1>8 DEF Followed!Join, Followed!Followers
<1>10. QED
  BY <1>9 DEF Followed!Next

LEMMA AdmitJoins ==
    ASSUME TypeOK, TypeOK', Locks, Newcomer, SyncedView, ExactView, [Next]_vars, Admit
    PROVE  Followed!Next
<1>0. /\ UNCHANGED <<closed, events, store, aborted, pc, req, view>>
      /\ acc = "admit" /\ cand \in Plugin
  BY DEF Admit, runtimeVars, threadVars, peerVars, TypeOK
<1>1. InProgress("create") = {} /\ InProgress("remove") = {}
  BY <1>0, NoneInProgress DEF Locks
<1>2. InProgress("create")' = {} /\ InProgress("remove")' = {}
  BY <1>0, <1>1 DEF InProgress
<1>3. Range(plugins') = Open(Range(plugins) \cup {cand})
  BY DEF Admit, SortedListings, Listings
<1>4. Followers \subseteq Followers'
  BY <1>0, <1>3 DEF Followers, Members, Live, Open
<1>5. \A p \in Followers' \ Followers : p = cand /\ ~closed[cand]
  BY <1>0, <1>3 DEF Followers, Members, Live, Open
<1>6. PICK S \in SUBSET Plugin : S = Followers' \ Followers
  BY <1>0, <1>5
<1>7. \A p \in S : view[p] = store
  BY <1>0, <1>5, <1>6 DEF SyncedView, ExactView
<1>8. Followed!Join(S)
  BY <1>0, <1>1, <1>2, <1>4, <1>6, <1>7 DEF Followed!Join, Followed!Followers
<1>9. QED
  BY <1>8 DEF Followed!Next

\* An answer tells the plugin of the container, unless it does not follow.
LEMMA AnswerFollows ==
    ASSUME FollowInv, TypeOK', [Next]_vars, NEW t \in Thread, Answer(t)
    PROVE  Followed!Next
<1> USE DEF registryVars, syncVars, peerVars, threadVars, runtimeVars
<1>0. /\ TypeOK /\ Locks /\ Newcomer /\ Exclusive /\ Loop /\ Announced /\ Distinct /\ Sorted
      /\ Unheard(t) /\ Withdrawn(t) /\ Unfailed /\ Idle
  BY DEF FollowInv, ExactInv, ViewInv
<1>1. /\ UNCHANGED <<plugins, events, store, aborted, req>>
      /\ pc[t] = "calling" /\ pos[t] \in 1..Len(plugins) /\ ok[t]
      /\ view' = view \/ (view' = Handled(t) /\ UNCHANGED closed)
  BY <1>0 DEF Answer, CallSucceeds, CallFails, CallIsFatal, Loop, TypeOK, Unfailed
<1>2. /\ InProgress("create")' = InProgress("create")
      /\ InProgress("remove")' = InProgress("remove")
  <2>1. \A u \in Thread : ~BlockPluginSync(u) /\ ~Unblock(u)
    BY <1>0, <1>1 DEF Answer, CallSucceeds, CallFails, CallIsFatal, BlockPluginSync, Unblock,
            TypeOK
  <2>2. QED
    BY <1>0, <2>1, ProgressKept
<1>3. Followers' \subseteq Followers
  <2>1. ~Start /\ ~Admit
    BY <1>0, <1>1, AdaptationAssumption DEF Start, Idle, Admit, Locks, Locked
  <2>2. QED
    BY <1>0, <2>1, FollowersShrink
<1>4. PICK p \in Plugin, c \in Container :
        /\ p = Current(t) /\ p = plugins[pos[t]] /\ c = req[t].ctr
        /\ req[t].kind \in Kinds /\ req[t] = [kind |-> req[t].kind, ctr |-> c]
  BY <1>0, <1>1, MembersByPosition DEF Current, TypeOK, Request
<1>5. CASE \A q \in Followers : view'[q] = view[q]
  BY <1>0, <1>1, <1>2, <1>3, <1>5, Departure
<1>6. CASE ~\A q \in Followers : view'[q] = view[q]
  <2>1. view' = Handled(t) /\ UNCHANGED closed
    BY <1>1, <1>6
  <2>2. p \in Followers /\ req[t].kind \in {"create", "remove"} /\ Followers' = Followers
    <3>1. \A q \in Followers : q # p => view'[q] = view[q]
      BY <1>0, <1>4, <2>1, FollowersByPosition DEF Handled, TypeOK
    <3>2. req[t].kind = "update" => view'[p] = view[p]
      BY <1>0, <1>4, <2>1 DEF Handled, TypeOK
    <3>3. Followers' = Followers
      BY <1>1, <2>1 DEF Followers, Members, Live
    <3>4. QED
      BY <1>4, <1>6, <3>1, <3>2, <3>3 DEF Kinds
  <2>3. Follows(pos[t])
    BY <1>0, <1>1, <1>4, <2>2, FollowersByPosition
  <2>4. \A q \in Followers : view'[q] = IF q # p THEN view[q]
                                         ELSE IF req[t].kind = "create" THEN view[p] \cup {c}
                                         ELSE view[p] \ {c}
    BY <1>0, <1>4, <2>1, <2>2, FollowersByPosition DEF Handled, TypeOK
  <2>5. ASSUME NEW q \in Followers, Idx[q] < Idx[p]
        PROVE  \E i \in 1..Len(plugins) : q = plugins[i] /\ Follows(i) /\ Passed(t, i)
    <3>1. PICK i \in 1..Len(plugins) : q = plugins[i] /\ Follows(i)
      BY <1>0, FollowersByPosition
    <3>2. Idx[q] \in Nat /\ Idx[p] \in Nat /\ pos[t] \in Nat /\ Len(plugins) \in Nat
      BY <1>0, <1>4, FollowersByPosition, AdaptationAssumption DEF TypeOK
    <3>3. ~(pos[t] < i) /\ i # pos[t]
      BY <1>0, <1>1, <1>4, <2>5, <3>1, <3>2 DEF Sorted
    <3>4. QED
      BY <1>1, <3>1, <3>2, <3>3 DEF Passed
  <2>6. CASE req[t].kind = "create"
    <3>1. c \in InProgress("create")
      BY <1>1, <1>4, <2>6 DEF InProgress
    <3>2. \A q \in Followers : Idx[q] < Idx[p] => c \in view[q]
      BY <1>0, <1>1, <1>4, <2>5, <2>6 DEF Announced, Follows
    <3>3. c \in view[p] => c \in aborted
      BY <1>0, <1>1, <1>4, <2>3, <2>6 DEF Unheard
    <3>4. [q \in Followers |-> view[q]]' =
             [[q \in Followers |-> view[q]] EXCEPT ![p] = @ \cup {c}]
      BY <2>2, <2>4, <2>6
    <3>5. Followed!Learn(p, c)
      BY <1>1, <1>2, <2>2, <3>1, <3>2, <3>3, <3>4
         DEF Followed!Learn, Followed!Before, Followed!Followers
    <3>6. QED
      BY <1>4, <2>2, <3>5 DEF Followed!Next, Followed!Followers
  <2>7. CASE req[t].kind = "remove"
    <3>1. c \in InProgress("remove")
      BY <1>1, <1>4, <2>7 DEF InProgress
    <3>2. \A q \in Followers : Idx[q] < Idx[p] => c \notin view[q]
      BY <1>0, <1>1, <1>4, <2>5, <2>7 DEF Withdrawn
    <3>3. c \in view[p]
      BY <1>0, <1>1, <1>4, <2>3, <2>7 DEF Unheard
    <3>4. [q \in Followers |-> view[q]]' =
             [[q \in Followers |-> view[q]] EXCEPT ![p] = @ \ {c}]
      BY <2>2, <2>4, <2>7
    <3>5. Followed!Forget(p, c)
      BY <1>1, <1>2, <2>2, <3>1, <3>2, <3>3, <3>4
         DEF Followed!Forget, Followed!Before, Followed!Followers
    <3>6. QED
      BY <1>4, <2>2, <3>5 DEF Followed!Next, Followed!Followers
  <2>8. QED
    BY <2>2, <2>6, <2>7
<1>7. QED
  BY <1>5, <1>6

LEMMA BlockBegins ==
    ASSUME TypeOK, TypeOK', [Next]_vars, NEW t \in Thread, BlockPluginSync(t)
    PROVE  Followed!Next
<1>1. PICK r \in Request : /\ r.kind \in {"create", "remove"}
                           /\ ~Busy(r.ctr)
                           /\ (r.kind = "create") <=> (r.ctr \notin store)
                           /\ req' = [req EXCEPT ![t] = r]
  BY DEF BlockPluginSync, TakeOn, Request, Kinds
<1>2. PICK c \in Container : c = r.ctr /\ r = [kind |-> r.kind, ctr |-> c]
  BY DEF Request
<1>3. /\ UNCHANGED <<plugins, closed, events, store, aborted, view>>
      /\ pc[t] = "idle" /\ pc'[t] = "waiting" /\ req'[t] = r
      /\ \A u \in Thread \ {t} : pc'[u] = pc[u] /\ req'[u] = req[u]
  BY <1>1 DEF BlockPluginSync, TypeOK, registryVars, peerVars, runtimeVars
<1>4. Followers' = Followers
  BY <1>3 DEF Followers, Members, Live
<1>5. ASSUME NEW k \in {"create", "remove"}
      PROVE  InProgress(k)' = IF k = r.kind THEN InProgress(k) \cup {c} ELSE InProgress(k)
  BY <1>2, <1>3 DEF InProgress
<1>6. c \notin InProgress("create") \cup InProgress("remove")
  BY <1>1, <1>2 DEF InProgress, Busy
<1>7. Followed!Begin(c)
  BY <1>1, <1>2, <1>3, <1>4, <1>5, <1>6 DEF Followed!Begin
<1>8. QED
  BY <1>7 DEF Followed!Next

\* The runtime gains and loses containers as their followers know of them.
LEMMA UnblockConcludes ==
    ASSUME FollowInv, TypeOK', [Next]_vars, NEW t \in Thread, Unblock(t)
    PROVE  Followed!Next
<1>0. /\ TypeOK /\ Exclusive /\ Announced /\ Withdrawn(t)
  BY DEF FollowInv, ExactInv, ViewInv
<1>1. PICK c \in Container : c = req[t].ctr /\ req[t] = [kind |-> req[t].kind, ctr |-> c]
                             /\ req[t].kind \in Kinds
  BY <1>0 DEF Unblock, TypeOK, Request
<1>2. /\ UNCHANGED <<plugins, closed, events, view>>
      /\ pc[t] = "commit" /\ pc'[t] = "idle"
      /\ \A u \in Thread \ {t} : pc'[u] = pc[u] /\ req'[u] = req[u]
      /\ store' = IF req[t].kind = "create" /\ ok[t] THEN store \cup {c}
                  ELSE IF req[t].kind = "remove" THEN store \ {c} ELSE store
      /\ aborted' = IF req[t].kind \in {"create", "remove"} /\ ~ok[t] THEN aborted \cup {c}
                    ELSE IF req[t].kind = "remove" THEN aborted \ {c} ELSE aborted
  BY <1>0, <1>1 DEF Unblock, TypeOK, registryVars, peerVars
<1>3. Followers' = Followers
  BY <1>2 DEF Followers, Members, Live
<1>4. \A u \in Thread \ {t} : pc[u] # "idle" => req[u].ctr # c
  BY <1>1, <1>0, <1>2 DEF Exclusive
<1>5. ASSUME NEW k \in {"create", "remove"}
      PROVE  /\ InProgress(k)' = InProgress(k) \ {c}
             /\ c \in InProgress(k) <=> k = req[t].kind
  BY <1>1, <1>2, <1>4 DEF InProgress
<1>6. CASE req[t].kind = "update"
  BY <1>0, <1>2, <1>3, <1>5, <1>6, Departure
<1>7. CASE req[t].kind = "create" /\ ok[t]
  <2>1. \A p \in Followers : c \in view[p]
    BY <1>0, <1>1, <1>2, <1>7, FollowersByPosition DEF Announced, Passed, Follows
  <2>2. Followed!Create(c)
    BY <1>2, <1>3, <1>5, <1>7, <2>1 DEF Followed!Create, Followed!Followers
  <2>3. QED
    BY <2>2 DEF Followed!Next
<1>8. CASE req[t].kind = "remove" /\ ok[t]
  <2>1. \A p \in Followers : c \notin view[p]
    BY <1>0, <1>1, <1>2, <1>8, FollowersByPosition DEF Withdrawn, Passed, Follows
  <2>2. Followed!Remove(c)
    BY <1>2, <1>3, <1>5, <1>8, <2>1 DEF Followed!Remove, Followed!Followers
  <2>3. QED
    BY <2>2 DEF Followed!Next
<1>9. CASE req[t].kind \in {"create", "remove"} /\ ~ok[t]
  <2>1. req[t].kind = "create" => c \notin store
    BY <1>0, <1>1, <1>2 DEF Exclusive
  <2>2. Followed!Abandon(c)
    BY <1>2, <1>3, <1>5, <1>9, <2>1 DEF Followed!Abandon
  <2>3. QED
    BY <2>2 DEF Followed!Next
<1>10. QED
  BY <1>1, <1>6, <1>7, <1>8, <1>9 DEF Kinds

(***************************************************************************)
(* Whatever interleaves, the Adaptation behaves like the simple system of  *)
(* module Following towards the plugins that subscribed to creation and    *)
(* removal (BlockPluginSync, requestPluginSync, finishedPluginSync,        *)
(* CreateContainer, RemoveContainer, removeClosedPlugins).                 *)
(***************************************************************************)
THEOREM AdaptationImplementsFollowing == Spec => ImplementsFollowing
<1>1. Init => Followed!Init
  <2> SUFFICES ASSUME Init PROVE Followed!Init
    OBVIOUS
  <2>1. Followers = {}
    BY DEF Init, Followers, Members, Range
  <2>2. InProgress("create") = {} /\ InProgress("remove") = {}
    BY DEF Init, InProgress
  <2>3. QED
    BY <2>1, <2>2 DEF Init, Followed!Init
<1>2. FollowInv /\ FollowInv' /\ [Next]_vars => [Followed!Next]_(Followed!vars)
  <2> SUFFICES ASSUME FollowInv, FollowInv', [Next]_vars PROVE Followed!Next
    OBVIOUS
  <2>1. /\ TypeOK /\ Locks /\ Idle /\ Newcomer /\ Loop /\ SyncedView /\ ExactView
        /\ TypeOK'
    BY DEF FollowInv, ExactInv, ViewInv
  <2>2. CASE Start
    BY <2>1, <2>2, StartJoins
  <2>3. CASE Admit
    BY <2>1, <2>3, AdmitJoins
  <2>4. ASSUME NEW t \in Thread, Answer(t) \/ BlockPluginSync(t) \/ Unblock(t)
        PROVE  Followed!Next
    BY <2>1, <2>4, AnswerFollows, BlockBegins, UnblockConcludes
  <2>5. CASE /\ ~Start /\ ~Admit
             /\ \A t \in Thread : ~Answer(t) /\ ~BlockPluginSync(t) /\ ~Unblock(t)
    <3>1. /\ InProgress("create")' = InProgress("create")
          /\ InProgress("remove")' = InProgress("remove")
      BY <2>1, <2>5, ProgressKept
    <3>2. \A p \in Followers : view'[p] = view[p]
      BY <2>1, <2>5, KnownKept
    <3>3. Followers' \subseteq Followers
      BY <2>1, <2>5, FollowersShrink
    <3>4. store' = store /\ aborted' = aborted
      <4>1. \A c \in Container : /\ c \in store' <=> c \in store
                                 /\ c \in aborted' <=> c \in aborted
        BY <2>1, <2>5, StoreKept
      <4>2. QED
        BY <2>1, <4>1 DEF TypeOK
    <3>5. QED
      BY <2>1, <3>1, <3>2, <3>3, <3>4, Departure
  <2>6. QED
    BY <2>2, <2>3, <2>4, <2>5
<1>3. QED
  BY <1>1, <1>2, FollowInvInit, FollowInvNext, PTL
     DEF Spec, ImplementsFollowing, Followed!Spec
=============================================================================
