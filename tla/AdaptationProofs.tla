-------------------------- MODULE AdaptationProofs --------------------------
(***************************************************************************)
(* Proofs about Adaptation, for any plugins, threads and containers: every *)
(* variable keeps its type, and no registered plugin misses a container.   *)
(***************************************************************************)
EXTENDS Adaptation, FiniteSetTheorems, TLAPS

(***************************************************************************)
(* A listing of plugins is a sequence of them and holds exactly those.     *)
(***************************************************************************)
LEMMA ListingType ==
    ASSUME NEW S \in SUBSET Plugin, NEW s \in Listings(S)
    PROVE  /\ s \in Seq(Plugin)
           /\ Range(s) = S
           /\ DOMAIN s = 1..Len(s)
           /\ \A i \in 1..Len(s) : s[i] \in S
<1>1. Cardinality(S) \in Nat
  BY AdaptationAssumption, FS_Subset, FS_CardinalityType
<1>2. s \in [1..Cardinality(S) -> S] /\ Range(s) = S
  BY DEF Listings
<1>3. s \in [1..Cardinality(S) -> Plugin]
  BY <1>2
<1>4. s \in Seq(Plugin) /\ Len(s) = Cardinality(S)
  BY <1>1, <1>3
<1>5. DOMAIN s = 1..Len(s) /\ \A i \in 1..Len(s) : s[i] \in S
  BY <1>2, <1>4
<1>6. QED
  BY <1>2, <1>4, <1>5

(***************************************************************************)
(* Type correctness.                                                       *)
(***************************************************************************)
LEMMA InitType == Init => TypeOK
BY DEF Init, TypeOK, AcceptPC, ThreadPC

LEMMA StartStopType ==
    TypeOK /\ (Start \/ StartFails \/ Stop) => TypeOK'
<1> SUFFICES ASSUME TypeOK, Start \/ StartFails \/ Stop PROVE TypeOK'
  OBVIOUS
<1> USE DEF registryVars, syncVars, peerVars, threadVars, runtimeVars
<1>1. CASE Start
  <2>1. PICK synced \in SUBSET Preinstalled, mask \in [Preinstalled -> Masks] :
          /\ plugins' \in SortedListings(synced)
          /\ events' = [p \in Plugin |-> IF p \in synced THEN Subscription(mask[p])
                                                         ELSE events[p]]
          /\ validators' = {p \in synced : "validate" \in events'[p]}
          /\ peer' = [p \in Plugin |-> IF p \in synced THEN "up"
                                       ELSE IF p \in Preinstalled THEN "gone"
                                       ELSE peer[p]]
          /\ closed' = [p \in Plugin |-> closed[p] \/ p \in Preinstalled \ synced]
          /\ view' = [p \in Plugin |-> IF p \in synced THEN store ELSE view[p]]
    BY <1>1 DEF Start
  <2>2. Preinstalled \subseteq Plugin
    BY AdaptationAssumption DEF Preinstalled
  <2>3. plugins' \in Seq(Plugin)
    BY <2>1, <2>2, ListingType DEF SortedListings
  <2>4. events' \in [Plugin -> SUBSET Events]
    <3>1. \A p \in synced : Subscription(mask[p]) \in SUBSET Events
      BY <2>1, AdaptationAssumption DEF Subscription
    <3>2. QED
      BY <2>1, <3>1 DEF TypeOK
  <2>5. validators' \in SUBSET Plugin
    BY <2>1, <2>2
  <2>6. peer' \in [Plugin -> {"absent", "up", "gone"}] /\ view' \in [Plugin -> SUBSET Container]
    BY <2>1 DEF TypeOK
  <2>7. closed' \in [Plugin -> BOOLEAN]
    BY <2>1 DEF TypeOK
  <2>8. QED
    BY <1>1, <2>3, <2>4, <2>5, <2>6, <2>7 DEF Start, TypeOK
<1>2. CASE StartFails
  BY <1>2 DEF StartFails, TypeOK
<1>3. CASE Stop
  BY <1>3 DEF Stop, TypeOK
<1>4. QED
  BY <1>1, <1>2, <1>3

LEMMA AcceptType ==
    TypeOK /\ (Accept \/ \E p \in Plugin : AcceptConnection(p)) => TypeOK'
<1> SUFFICES ASSUME TypeOK, Accept \/ \E p \in Plugin : AcceptConnection(p) PROVE TypeOK'
  OBVIOUS
<1> USE DEF registryVars, syncVars, peerVars, threadVars, runtimeVars
<1>1. CASE \E p \in Plugin : AcceptConnection(p)
  BY <1>1 DEF AcceptConnection, TypeOK, AcceptPC
<1>2. CASE Register
  BY <1>2 DEF Register, TypeOK, AcceptPC
<1>3. CASE StartPluginFails
  BY <1>3 DEF StartPluginFails, TypeOK, AcceptPC
<1>4. CASE Configure
  BY <1>4, AdaptationAssumption DEF Configure, Subscription, TypeOK, AcceptPC
<1>5. CASE RequestPluginSync
  BY <1>5 DEF RequestPluginSync, TypeOK, AcceptPC
<1>6. CASE Synchronize
  BY <1>6 DEF Synchronize, TypeOK, AcceptPC
<1>7. CASE SynchronizeFails
  BY <1>7 DEF SynchronizeFails, TypeOK, AcceptPC
<1>8. CASE Admit
  <2> DEFINE open == Open(Range(plugins) \cup {cand})
  <2>1. cand \in Plugin /\ Range(plugins) \in SUBSET Plugin
    BY <1>8 DEF Admit, TypeOK, Range
  <2>2. open \in SUBSET Plugin
    BY <2>1 DEF Open
  <2>3. plugins' \in Listings(open) /\ validators' = ValidatorsIn(open)
    BY <1>8 DEF Admit, SortedListings
  <2>4. plugins' \in Seq(Plugin)
    BY <2>2, <2>3, ListingType
  <2>5. validators' \in SUBSET Plugin
    BY <2>2, <2>3 DEF ValidatorsIn
  <2>6. QED
    BY <1>8, <2>4, <2>5 DEF Admit, TypeOK, AcceptPC
<1>9. CASE FinishedPluginSync
  BY <1>9 DEF FinishedPluginSync, TypeOK, AcceptPC
<1>10. QED
  BY <1>1, <1>2, <1>3, <1>4, <1>5, <1>6, <1>7, <1>8, <1>9
     DEF Accept, StartPlugin, SyncPlugin

(***************************************************************************)
(* The plugin at the thread's position, as long as there is one.           *)
(***************************************************************************)
LEMMA CurrentType ==
    ASSUME TypeOK, NEW t \in Thread, pos[t] <= Len(plugins)
    PROVE  Current(t) \in Plugin
BY DEF TypeOK, Current

LEMMA RuntimeType ==
    ASSUME TypeOK, NEW t \in Thread, Runtime(t)
    PROVE  TypeOK'
<1> USE DEF registryVars, syncVars, peerVars, threadVars, runtimeVars
<1>1. CASE BlockPluginSync(t) \/ RequestUnblocked(t)
  <2>1. PICK r \in Request : req' = [req EXCEPT ![t] = r]
    BY <1>1 DEF BlockPluginSync, RequestUnblocked, TakeOn, Request, Kinds
  <2>2. req' \in [Thread -> Request \cup {None}]
    BY <2>1 DEF TypeOK
  <2>3. pc' = [pc EXCEPT ![t] = "waiting"] /\ readers' \in SUBSET Thread
    BY <1>1 DEF BlockPluginSync, RequestUnblocked, TypeOK
  <2>4. pc' \in [Thread -> ThreadPC]
    BY <2>3 DEF TypeOK, ThreadPC
  <2>5. \A u \in Thread : pc'[u] # "idle" => req'[u] \in Request
    BY <2>1, <2>3 DEF TypeOK
  <2>6. QED
    BY <1>1, <2>2, <2>3, <2>4, <2>5 DEF BlockPluginSync, RequestUnblocked, TypeOK
<1>2. CASE LockAdaptation(t)
  BY <1>2 DEF LockAdaptation, TypeOK, ThreadPC
<1>3. CASE SkipPlugin(t)
  BY <1>3 DEF SkipPlugin, TypeOK
<1>4. CASE CallPlugin(t)
  <2>1. Current(t) \in Plugin
    BY <1>4, CurrentType DEF CallPlugin
  <2>2. QED
    BY <1>4, <2>1 DEF CallPlugin, TypeOK, ThreadPC
<1>5. CASE RelayDone(t)
  BY <1>5 DEF RelayDone, TypeOK, ThreadPC
<1>6. CASE ValidationDone(t)
  BY <1>6 DEF ValidationDone, TypeOK, ThreadPC
<1>7. CASE Return(t)
  <2> DEFINE open == Open(Range(plugins))
  <2>1. open \in SUBSET Plugin
    BY DEF TypeOK, Open, Range
  <2>2. plugins' \in Listings(open) /\ validators' = ValidatorsIn(open)
    BY <1>7 DEF Return, Sublists
  <2>3. plugins' \in Seq(Plugin) /\ validators' \in SUBSET Plugin
    BY <2>1, <2>2, ListingType DEF ValidatorsIn
  <2>4. QED
    BY <1>7, <2>3 DEF Return, TypeOK, ThreadPC
<1>8. CASE Answer(t)
  <2>1. pc[t] = "calling" /\ req[t] \in Request
    BY <1>8 DEF Answer, CallSucceeds, CallFails, CallIsFatal, TypeOK
  <2>2. Handled(t) \in [Plugin -> SUBSET Container]
    BY <2>1 DEF Handled, TypeOK, Request
  <2>3. CASE CallSucceeds(t)
    BY <2>2, <2>3 DEF CallSucceeds, TypeOK, ThreadPC
  <2>4. CASE CallFails(t)
    <3>1. view' \in [Plugin -> SUBSET Container]
      BY <2>2, <2>4 DEF CallFails, TypeOK
    <3>2. pc' \in [Thread -> ThreadPC] /\ ok' \in [Thread -> BOOLEAN]
      BY <2>4 DEF CallFails, TypeOK, ThreadPC
    <3>3. \A u \in Thread : pc'[u] # "idle" => req'[u] \in Request
      BY <2>1, <2>4 DEF CallFails, TypeOK
    <3>4. QED
      BY <2>4, <3>1, <3>2, <3>3 DEF CallFails, TypeOK
  <2>5. CASE CallIsFatal(t)
    <3>1. closed' \in [Plugin -> BOOLEAN]
      BY <2>5 DEF CallIsFatal, TypeOK
    <3>2. pc' \in [Thread -> ThreadPC] /\ pos' \in [Thread -> Nat \ {0}]
      BY <2>5 DEF CallIsFatal, TypeOK, ThreadPC
    <3>3. \A u \in Thread : pc'[u] # "idle" => req'[u] \in Request
      BY <2>1, <2>5 DEF CallIsFatal, TypeOK
    <3>4. QED
      BY <2>5, <3>1, <3>2, <3>3 DEF CallIsFatal, TypeOK
  <2>6. QED
    BY <1>8, <2>3, <2>4, <2>5 DEF Answer
<1>9. CASE Validate(t)
  <2>1. PICK v \in Plugin :
          ValidatorAccepts(t, v) \/ ValidatorRejects(t, v) \/ ValidatorIsFatal(t, v)
    BY <1>9 DEF Validate
  <2>2. CASE ValidatorAccepts(t, v)
    BY <2>2 DEF ValidatorAccepts, TypeOK
  <2>3. CASE ValidatorRejects(t, v)
    BY <2>3 DEF ValidatorRejects, TypeOK
  <2>4. CASE ValidatorIsFatal(t, v)
    BY <2>4 DEF ValidatorIsFatal, TypeOK
  <2>5. QED
    BY <2>1, <2>2, <2>3, <2>4
<1>10. CASE Unblock(t)
  <2>1. req[t] \in Request
    BY <1>10 DEF Unblock, TypeOK
  <2>2. req[t].ctr \in Container
    BY <2>1 DEF Request
  <2>3. store' \in SUBSET Container /\ aborted' \in SUBSET Container
    BY <1>10, <2>2 DEF Unblock, TypeOK
  <2>4. pc' \in [Thread -> ThreadPC] /\ req' \in [Thread -> Request \cup {None}]
    BY <1>10 DEF Unblock, TypeOK, ThreadPC
  <2>5. \A u \in Thread : pc'[u] # "idle" => req'[u] \in Request
    BY <1>10 DEF Unblock, TypeOK
  <2>6. /\ pos' \in [Thread -> Nat \ {0}]
        /\ asked' \in [Thread -> SUBSET Plugin]
        /\ approved' \in [Thread -> SUBSET Plugin]
        /\ ok' \in [Thread -> BOOLEAN]
    BY <1>10 DEF Unblock, TypeOK
  <2>7. readers' \in SUBSET Thread
    BY <1>10 DEF Unblock, TypeOK
  <2>8. QED
    BY <1>10, <2>3, <2>4, <2>5, <2>6, <2>7 DEF Unblock, TypeOK
<1>11. QED
  BY <1>1, <1>2, <1>3, <1>4, <1>5, <1>6, <1>7, <1>8, <1>9, <1>10 DEF Runtime, Relay

LEMMA PluginType ==
    ASSUME TypeOK, NEW p \in Plugin,
           PluginGone(p) \/ ConnectionClosed(p) \/ RequestUpdate(p) \/ UpdateContainers(p)
    PROVE  TypeOK'
BY DEF PluginGone, ConnectionClosed, RequestUpdate, UpdateContainers, TypeOK,
       registryVars, syncVars, peerVars, threadVars, runtimeVars

LEMMA NextType == TypeOK /\ [Next]_vars => TypeOK'
<1> SUFFICES ASSUME TypeOK, [Next]_vars PROVE TypeOK'
  OBVIOUS
<1>1. CASE UNCHANGED vars
  BY <1>1 DEF TypeOK, vars, registryVars, syncVars, peerVars, threadVars, runtimeVars
<1>2. CASE Start \/ StartFails \/ Stop
  BY <1>2, StartStopType
<1>3. CASE Accept \/ \E p \in Plugin : AcceptConnection(p)
  BY <1>3, AcceptType
<1>4. ASSUME NEW p \in Plugin,
             PluginGone(p) \/ ConnectionClosed(p) \/ RequestUpdate(p) \/ UpdateContainers(p)
      PROVE  TypeOK'
  BY <1>4, PluginType
<1>5. ASSUME NEW t \in Thread, Runtime(t) PROVE TypeOK'
  BY <1>5, RuntimeType
<1>6. QED
  BY <1>1, <1>2, <1>3, <1>4, <1>5 DEF Next

(***************************************************************************)
(* Every variable keeps its type, whatever plugins, threads and containers *)
(* there are: in particular the accept goroutine always knows the plugin   *)
(* it works on, and a busy thread its request.                             *)
(***************************************************************************)
THEOREM TypeCorrect == Spec => []TypeOK
BY InitType, NextType, PTL DEF Spec
-----------------------------------------------------------------------------
(***************************************************************************)
(* The inductive invariant.  The holder of the lock is relaying; a thread  *)
(* that creates or removes a container holds syncLock for reading; the     *)
(* accept goroutine holds it for writing from the synchronization of a     *)
(* plugin to its admission, and nobody holds it for reading then.          *)
(***************************************************************************)
Locked(t) == pc[t] \in {"relaying", "calling", "validating", "return"}
Bracketed(t) == pc[t] # "idle" /\ req[t].kind \in {"create", "remove"}

Locks ==
    /\ \A t \in Thread : lock = t <=> Locked(t)
    /\ \A t \in Thread : Bracketed(t) => t \in readers
    /\ writer = "held" => readers = {}
    /\ acc \in {"sync", "admit", "finish"} => writer = "held"

\* Before Start nothing is registered, connected or requested.
Idle ==
    phase = "new" => /\ acc = "accept"
                     /\ plugins = <<>>
                     /\ \A t \in Thread : pc[t] = "idle"

\* A connection is used once: the plugin being admitted is not yet registered.
Newcomer ==
    /\ \A i \in 1..Len(plugins) : peer[plugins[i]] # "absent"
    /\ acc # "accept" => peer[cand] # "absent"
    /\ acc \in {"register", "configure", "reqsync", "sync", "admit"} =>
          \A i \in 1..Len(plugins) : plugins[i] # cand

\* Threads work on distinct containers, and create those that are not there.
Exclusive ==
    /\ \A t, u \in Thread : t # u /\ pc[t] # "idle" /\ pc[u] # "idle" =>
                               req[t].ctr # req[u].ctr
    /\ \A t \in Thread : pc[t] # "idle" /\ req[t].kind = "create" =>
                               req[t].ctr \notin store

\* The position of a thread in the loop over plugins.
Loop ==
    \A t \in Thread : /\ pc[t] \in {"idle", "waiting"} => pos[t] = 1
                      /\ pc[t] = "calling" => pos[t] <= Len(plugins)

\* A container being created was announced to every plugin passed so far.
Passed(t, i) == pc[t] \in {"relaying", "calling"} => i < pos[t]

Announced ==
    \A t \in Thread :
       pc[t] \notin {"idle", "waiting"} /\ req[t].kind = "create" /\ ok[t] =>
          \A i \in 1..Len(plugins) :
             Passed(t, i) /\ ~closed[plugins[i]] /\ "create" \in events[plugins[i]] =>
                req[t].ctr \in view[plugins[i]]

\* A plugin about to be admitted knows all containers.
SyncedView == acc = "admit" => closed[cand] \/ store \subseteq view[cand]

ViewInv == /\ TypeOK /\ Locks /\ Idle /\ Newcomer /\ Exclusive /\ Loop
           /\ Announced /\ SyncedView /\ NoMissedContainer

-----------------------------------------------------------------------------
(***************************************************************************)
(* The locks.                                                              *)
(***************************************************************************)
LEMMA LocksNext ==
    ASSUME TypeOK, Locks, Idle, [Next]_vars
    PROVE  Locks'
<1> USE DEF Locks, Locked, Bracketed, TypeOK,
            registryVars, syncVars, peerVars, threadVars, runtimeVars
<1>1. CASE UNCHANGED vars
  BY <1>1 DEF vars
<1>2. CASE Start \/ StartFails \/ Stop
  BY <1>2 DEF Start, StartFails, Stop
<1>3. CASE StartPlugin \/ RequestPluginSync \/ FinishedPluginSync
  BY <1>3 DEF StartPlugin, Register, Configure, StartPluginFails, RequestPluginSync,
              FinishedPluginSync
<1>4. CASE SyncPlugin \/ Admit
  BY <1>4 DEF SyncPlugin, Synchronize, SynchronizeFails, Admit
<1>5. ASSUME NEW p \in Plugin,
             \/ AcceptConnection(p) \/ PluginGone(p) \/ ConnectionClosed(p)
             \/ RequestUpdate(p) \/ UpdateContainers(p)
      PROVE  Locks'
  BY <1>5 DEF AcceptConnection, PluginGone, ConnectionClosed, RequestUpdate,
              UpdateContainers
<1>6. ASSUME NEW t \in Thread, BlockPluginSync(t)
      PROVE  Locks'
  BY <1>6 DEF BlockPluginSync, TakeOn
<1>7. ASSUME NEW t \in Thread, RequestUnblocked(t)
      PROVE  Locks'
  BY <1>7 DEF RequestUnblocked, TakeOn
<1>8. ASSUME NEW t \in Thread, LockAdaptation(t)
      PROVE  Locks'
  BY <1>8, AdaptationAssumption DEF LockAdaptation
<1>9. ASSUME NEW t \in Thread,
             SkipPlugin(t) \/ CallPlugin(t) \/ RelayDone(t) \/ ValidationDone(t)
      PROVE  Locks'
  BY <1>9 DEF SkipPlugin, CallPlugin, RelayDone, ValidationDone
<1>10. ASSUME NEW t \in Thread, Return(t)
       PROVE  Locks'
  BY <1>10, AdaptationAssumption DEF Return
<1>11. ASSUME NEW t \in Thread, Answer(t)
       PROVE  Locks'
  BY <1>11 DEF Answer, CallSucceeds, CallFails, CallIsFatal
<1>12. ASSUME NEW t \in Thread, Validate(t)
       PROVE  Locks'
  BY <1>12 DEF Validate, ValidatorAccepts, ValidatorRejects, ValidatorIsFatal
<1>13. ASSUME NEW t \in Thread, Unblock(t)
       PROVE  Locks'
  BY <1>13 DEF Unblock
<1>14. QED
  BY <1>1, <1>2, <1>3, <1>4, <1>5, <1>6, <1>7, <1>8, <1>9, <1>10, <1>11, <1>12, <1>13
     DEF Next, Accept, Runtime, Relay

(***************************************************************************)
(* Nothing happens before Start.                                           *)
(***************************************************************************)
LEMMA IdleNext ==
    ASSUME TypeOK, Idle, [Next]_vars
    PROVE  Idle'
<1> USE DEF Idle, registryVars, syncVars, peerVars, threadVars, runtimeVars
<1>1. CASE UNCHANGED vars
  BY <1>1 DEF vars
<1>2. CASE Start \/ StartFails \/ Stop
  BY <1>2 DEF Start, StartFails, Stop
<1>3. CASE Accept
  BY <1>3 DEF Accept, StartPlugin, Register, Configure, StartPluginFails,
              RequestPluginSync, SyncPlugin, Synchronize, SynchronizeFails, Admit,
              FinishedPluginSync
<1>4. ASSUME NEW p \in Plugin,
             \/ AcceptConnection(p) \/ PluginGone(p) \/ ConnectionClosed(p)
             \/ RequestUpdate(p) \/ UpdateContainers(p)
      PROVE  Idle'
  BY <1>4 DEF AcceptConnection, PluginGone, ConnectionClosed, RequestUpdate,
              UpdateContainers
<1>5. ASSUME NEW t \in Thread, Runtime(t)
      PROVE  Idle'
  <2>1. phase' = phase /\ phase # "new"
    BY <1>5 DEF Runtime, BlockPluginSync, RequestUnblocked, LockAdaptation, Relay,
                SkipPlugin, CallPlugin, RelayDone, ValidationDone, Return, Answer,
                CallSucceeds, CallFails, CallIsFatal, Validate, ValidatorAccepts,
                ValidatorRejects, ValidatorIsFatal, Unblock
  <2>2. QED
    BY <2>1
<1>6. QED
  BY <1>1, <1>2, <1>3, <1>4, <1>5 DEF Next

(***************************************************************************)
(* The members of a listing, by position.                                  *)
(***************************************************************************)
LEMMA ListedMembers ==
    ASSUME NEW S \in SUBSET Plugin, NEW s \in Listings(S)
    PROVE  /\ \A i \in 1..Len(s) : s[i] \in S
           /\ \A p \in S : \E i \in 1..Len(s) : s[i] = p
BY ListingType DEF Range

(***************************************************************************)
(* What becomes of the registry: a plugin admitted is the newcomer or was  *)
(* there before, and what remains of it on return was there before.        *)
(***************************************************************************)
LEMMA MembersByPosition ==
    ASSUME TypeOK
    PROVE  /\ Range(plugins) \in SUBSET Plugin
           /\ \A i \in 1..Len(plugins) : plugins[i] \in Plugin /\ plugins[i] \in Range(plugins)
           /\ \A p \in Range(plugins) : \E j \in 1..Len(plugins) : p = plugins[j]
<1>1. plugins \in Seq(Plugin)
  BY DEF TypeOK
<1>2. QED
  BY <1>1 DEF Range

LEMMA AdmitRegistry ==
    ASSUME TypeOK, Admit
    PROVE  \A i \in 1..Len(plugins') :
              /\ plugins'[i] \in Plugin
              /\ ~closed[plugins'[i]]
              /\ \/ plugins'[i] = cand
                 \/ \E j \in 1..Len(plugins) : plugins'[i] = plugins[j]
<1> DEFINE open == Open(Range(plugins) \cup {cand})
<1>1. cand \in Plugin
  BY DEF Admit, TypeOK
<1>2. open \in SUBSET Plugin
  BY <1>1, MembersByPosition DEF Open
<1>3. plugins' \in Listings(open)
  BY DEF Admit, SortedListings
<1>4. \A i \in 1..Len(plugins') : plugins'[i] \in open
  BY <1>2, <1>3, ListedMembers
<1>5. QED
  BY <1>2, <1>4, MembersByPosition DEF Open

LEMMA ReturnRegistry ==
    ASSUME TypeOK, NEW t \in Thread, Return(t)
    PROVE  \A i \in 1..Len(plugins') :
              /\ plugins'[i] \in Plugin
              /\ ~closed[plugins'[i]]
              /\ \E j \in 1..Len(plugins) : plugins'[i] = plugins[j]
<1> DEFINE open == Open(Range(plugins))
<1>1. open \in SUBSET Plugin
  BY MembersByPosition DEF Open
<1>2. plugins' \in Listings(open)
  BY DEF Return, Sublists
<1>3. \A i \in 1..Len(plugins') : plugins'[i] \in open
  BY <1>1, <1>2, ListedMembers
<1>4. QED
  BY <1>1, <1>3, MembersByPosition DEF Open

(***************************************************************************)
(* The newcomer.                                                           *)
(***************************************************************************)
LEMMA NewcomerNext ==
    ASSUME TypeOK, Idle, Newcomer, [Next]_vars
    PROVE  Newcomer'
<1> USE DEF Newcomer, registryVars, syncVars, peerVars, threadVars, runtimeVars
<1>1. CASE UNCHANGED vars
  BY <1>1 DEF vars
<1>2. CASE Start
  <2>1. PICK synced \in SUBSET Preinstalled :
          /\ plugins' \in SortedListings(synced)
          /\ peer' = [p \in Plugin |-> IF p \in synced THEN "up"
                                       ELSE IF p \in Preinstalled THEN "gone"
                                       ELSE peer[p]]
    BY <1>2 DEF Start
  <2>2. synced \in SUBSET Plugin
    BY AdaptationAssumption DEF Preinstalled
  <2>3. \A i \in 1..Len(plugins') : plugins'[i] \in synced
    BY <2>1, <2>2, ListedMembers DEF SortedListings
  <2>4. acc' = "accept"
    BY <1>2 DEF Start, Idle
  <2>5. QED
    BY <2>1, <2>2, <2>3, <2>4
<1>3. CASE StartFails
  BY <1>3 DEF StartFails, TypeOK, Idle
<1>4. CASE Stop
  BY <1>4 DEF Stop, TypeOK
<1>5. CASE StartPlugin \/ RequestPluginSync \/ SyncPlugin \/ FinishedPluginSync
  BY <1>5 DEF StartPlugin, Register, Configure, StartPluginFails, RequestPluginSync,
              SyncPlugin, Synchronize, SynchronizeFails, FinishedPluginSync
<1>6. CASE Admit
  <2>1. \A i \in 1..Len(plugins') :
           /\ plugins'[i] \in Plugin
           /\ plugins'[i] = cand \/ \E j \in 1..Len(plugins) : plugins'[i] = plugins[j]
    BY <1>6, AdmitRegistry
  <2>2. \A p \in Plugin : peer[p] # "absent" => peer'[p] # "absent"
    BY <1>6 DEF Admit
  <2>3. cand \in Plugin /\ acc # "accept" /\ cand' = cand /\ acc' = "finish"
    BY <1>6 DEF Admit, TypeOK
  <2>4. QED
    BY <2>1, <2>2, <2>3
<1>7. ASSUME NEW p \in Plugin, AcceptConnection(p)
      PROVE  Newcomer'
  BY <1>7 DEF AcceptConnection, TypeOK
<1>8. ASSUME NEW p \in Plugin,
             PluginGone(p) \/ ConnectionClosed(p) \/ RequestUpdate(p) \/ UpdateContainers(p)
      PROVE  Newcomer'
  BY <1>8 DEF PluginGone, ConnectionClosed, RequestUpdate, UpdateContainers, TypeOK
<1>9. ASSUME NEW t \in Thread, Return(t)
      PROVE  Newcomer'
  <2>1. \A i \in 1..Len(plugins') :
           plugins'[i] \in Plugin /\ \E j \in 1..Len(plugins) : plugins'[i] = plugins[j]
    BY <1>9, ReturnRegistry
  <2>2. \A p \in Plugin : peer[p] # "absent" => peer'[p] # "absent"
    BY <1>9 DEF Return
  <2>3. cand \in Plugin \/ acc = "accept"
    BY DEF TypeOK
  <2>4. acc' = acc /\ cand' = cand
    BY <1>9 DEF Return
  <2>5. QED
    BY <2>1, <2>2, <2>3, <2>4
<1>10. ASSUME NEW t \in Thread, Runtime(t), ~Return(t)
       PROVE  Newcomer'
  BY <1>10 DEF Runtime, BlockPluginSync, RequestUnblocked, LockAdaptation, Relay,
               SkipPlugin, CallPlugin, RelayDone, ValidationDone, Answer,
               CallSucceeds, CallFails, CallIsFatal, Validate, ValidatorAccepts,
               ValidatorRejects, ValidatorIsFatal, Unblock
<1>11. QED
  BY <1>1, <1>2, <1>3, <1>4, <1>5, <1>6, <1>7, <1>8, <1>9, <1>10 DEF Next, Accept

(***************************************************************************)
(* The registry changes at Start, at Stop, when a plugin is admitted and   *)
(* when a request returns.                                                 *)
(***************************************************************************)
LEMMA RegistryKept ==
    ASSUME [Next]_vars, ~Start, ~Stop, ~Admit, \A t \in Thread : ~Return(t)
    PROVE  UNCHANGED registryVars
<1> USE DEF registryVars, syncVars, peerVars, threadVars, runtimeVars
<1>1. CASE UNCHANGED vars
  BY <1>1 DEF vars
<1>2. CASE StartFails \/ Accept
  BY <1>2 DEF StartFails, Accept, StartPlugin, Register, Configure, StartPluginFails,
              RequestPluginSync, SyncPlugin, Synchronize, SynchronizeFails,
              FinishedPluginSync
<1>3. ASSUME NEW p \in Plugin,
             \/ AcceptConnection(p) \/ PluginGone(p) \/ ConnectionClosed(p)
             \/ RequestUpdate(p) \/ UpdateContainers(p)
      PROVE  UNCHANGED registryVars
  BY <1>3 DEF AcceptConnection, PluginGone, ConnectionClosed, RequestUpdate,
              UpdateContainers
<1>4. ASSUME NEW t \in Thread, Runtime(t)
      PROVE  UNCHANGED registryVars
  BY <1>4 DEF Runtime, BlockPluginSync, RequestUnblocked, LockAdaptation, Relay,
              SkipPlugin, CallPlugin, RelayDone, ValidationDone, Answer, CallSucceeds,
              CallFails, CallIsFatal, Validate, ValidatorAccepts, ValidatorRejects,
              ValidatorIsFatal, Unblock
<1>5. QED
  BY <1>1, <1>2, <1>3, <1>4 DEF Next

\* While a thread is relaying, only its own return changes the registry.
LEMMA RegistryHeld ==
    ASSUME TypeOK, Locks, Idle, [Next]_vars,
           NEW t \in Thread, Locked(t), ~Return(t)
    PROVE  UNCHANGED registryVars
<1>1. lock = t /\ lock # None
  BY AdaptationAssumption DEF Locks
<1>2. ~Start
  BY DEF Start, Idle, Locked
<1>3. ~Stop /\ ~Admit
  BY <1>1 DEF Stop, Admit
<1>4. \A u \in Thread : ~Return(u)
  BY <1>1 DEF Return, Locks, Locked
<1>5. QED
  BY <1>2, <1>3, <1>4, RegistryKept

(***************************************************************************)
(* What the requests of the threads are about.                             *)
(***************************************************************************)
LEMMA ExclusiveNext ==
    ASSUME TypeOK, Exclusive, [Next]_vars
    PROVE  Exclusive'
<1> USE DEF Exclusive, registryVars, syncVars, peerVars, threadVars, runtimeVars
<1>1. CASE UNCHANGED vars
  BY <1>1 DEF vars
<1>2. CASE Start \/ StartFails \/ Stop \/ Accept
  BY <1>2 DEF Start, StartFails, Stop, Accept, StartPlugin, Register, Configure,
              StartPluginFails, RequestPluginSync, SyncPlugin, Synchronize,
              SynchronizeFails, Admit, FinishedPluginSync
<1>3. ASSUME NEW p \in Plugin,
             \/ AcceptConnection(p) \/ PluginGone(p) \/ ConnectionClosed(p)
             \/ RequestUpdate(p) \/ UpdateContainers(p)
      PROVE  Exclusive'
  BY <1>3 DEF AcceptConnection, PluginGone, ConnectionClosed, RequestUpdate,
              UpdateContainers
<1>4. ASSUME NEW t \in Thread, BlockPluginSync(t) \/ RequestUnblocked(t)
      PROVE  Exclusive'
  <2>1. PICK r \in Request : /\ ~Busy(r.ctr)
                             /\ (r.kind = "create") <=> (r.ctr \notin store)
                             /\ req' = [req EXCEPT ![t] = r]
    BY <1>4 DEF BlockPluginSync, RequestUnblocked, TakeOn, Request, Kinds
  <2>2. pc[t] = "idle" /\ pc' = [pc EXCEPT ![t] = "waiting"] /\ store' = store
    BY <1>4 DEF BlockPluginSync, RequestUnblocked
  <2>3. QED
    BY <2>1, <2>2 DEF Busy, TypeOK
<1>5. ASSUME NEW t \in Thread, LockAdaptation(t) \/ Relay(t) \/ Answer(t)
      PROVE  Exclusive'
  BY <1>5 DEF LockAdaptation, Relay, SkipPlugin, CallPlugin, RelayDone, ValidationDone,
              Return, Answer, CallSucceeds, CallFails, CallIsFatal, TypeOK
<1>6. ASSUME NEW t \in Thread, Validate(t)
      PROVE  Exclusive'
  BY <1>6 DEF Validate, ValidatorAccepts, ValidatorRejects, ValidatorIsFatal
<1>7. ASSUME NEW t \in Thread, Unblock(t)
      PROVE  Exclusive'
  BY <1>7 DEF Unblock, TypeOK
<1>8. QED
  BY <1>1, <1>2, <1>3, <1>4, <1>5, <1>6, <1>7 DEF Next, Runtime

LEMMA LoopNext ==
    ASSUME TypeOK, Locks, Idle, Loop, [Next]_vars
    PROVE  Loop'
<1> USE DEF Loop, registryVars, syncVars, peerVars, threadVars, runtimeVars
<1>1. ASSUME NEW t \in Thread, Runtime(t)
      PROVE  Loop'
  <2>1. CASE Return(t)
    <3>1. pc' = [pc EXCEPT ![t] = "commit"] /\ pos' = pos
      BY <2>1 DEF Return
    <3>2. \A u \in Thread : u # t => ~Locked(u)
      BY <2>1 DEF Return, Locks, Locked
    <3>3. QED
      BY <3>1, <3>2 DEF Locked, TypeOK
  <2>2. CASE ~Return(t)
    <3>1. plugins' = plugins
      BY <1>1, <2>2 DEF Runtime, BlockPluginSync, RequestUnblocked, LockAdaptation,
              Relay, SkipPlugin, CallPlugin, RelayDone, ValidationDone, Answer,
              CallSucceeds, CallFails, CallIsFatal, Validate, ValidatorAccepts,
              ValidatorRejects, ValidatorIsFatal, Unblock
    <3>2. QED
      BY <1>1, <2>2, <3>1 DEF Runtime, BlockPluginSync, RequestUnblocked, LockAdaptation,
              Relay, SkipPlugin, CallPlugin, RelayDone, ValidationDone, Answer,
              CallSucceeds, CallFails, CallIsFatal, Validate, ValidatorAccepts,
              ValidatorRejects, ValidatorIsFatal, Unblock, TypeOK
  <2>3. QED
    BY <2>1, <2>2
<1>2. CASE ~\E t \in Thread : Runtime(t)
  <2>1. UNCHANGED <<pc, pos>>
    BY <1>2 DEF Next, vars, Start, StartFails, Stop, Accept, StartPlugin, Register,
            Configure, StartPluginFails, RequestPluginSync, SyncPlugin, Synchronize,
            SynchronizeFails, Admit, FinishedPluginSync, AcceptConnection, PluginGone,
            ConnectionClosed, RequestUpdate, UpdateContainers
  <2>2. \A t \in Thread : pc[t] = "calling" => plugins' = plugins
    BY <1>2, RegistryHeld DEF Locked, Runtime, Relay
  <2>3. QED
    BY <2>1, <2>2
<1>3. QED
  BY <1>1, <1>2

(***************************************************************************)
(* A reply adds the container being created to what the plugin knows and   *)
(* takes the one being removed from it; it touches no other.               *)
(***************************************************************************)
LEMMA HandledView ==
    ASSUME TypeOK, NEW t \in Thread, pc[t] = "calling", pos[t] <= Len(plugins),
           view' = Handled(t)
    PROVE  /\ \A p \in Plugin, c \in Container :
                 c # req[t].ctr => (c \in view'[p] <=> c \in view[p])
           /\ req[t].kind # "remove" => \A p \in Plugin : view[p] \subseteq view'[p]
           /\ req[t].kind = "create" => req[t].ctr \in view'[Current(t)]
<1>1. Current(t) \in Plugin
  BY CurrentType
<1>2. QED
  BY <1>1 DEF Handled, TypeOK

(***************************************************************************)
(* Starting and synchronizing a plugin does not touch the registered ones. *)
(***************************************************************************)
LEMMA NewcomerApart ==
    ASSUME TypeOK, Newcomer, NEW i \in 1..Len(plugins),
           StartPlugin \/ RequestPluginSync \/ SyncPlugin \/ FinishedPluginSync
    PROVE  /\ ~closed'[plugins[i]] => ~closed[plugins[i]]
           /\ events'[plugins[i]] = events[plugins[i]]
           /\ view'[plugins[i]] = view[plugins[i]]
<1>1. plugins[i] \in Plugin
  BY MembersByPosition
<1>2. acc \in {"register", "configure", "reqsync", "sync"} => plugins[i] # cand
  BY DEF Newcomer
<1>3. QED
  BY <1>1, <1>2 DEF StartPlugin, Register, Configure, StartPluginFails,
     RequestPluginSync, SyncPlugin, Synchronize, SynchronizeFails, FinishedPluginSync,
     TypeOK, registryVars, syncVars, peerVars, threadVars, runtimeVars

(***************************************************************************)
(* What was announced stays known.                                         *)
(***************************************************************************)
LEMMA AnnouncedNext ==
    ASSUME TypeOK, Locks, Idle, Newcomer, Exclusive, Loop, Announced, [Next]_vars
    PROVE  Announced'
<1> USE DEF registryVars, syncVars, peerVars, threadVars, runtimeVars
<1>0. \A i \in 1..Len(plugins) : plugins[i] \in Plugin
  BY MembersByPosition
<1>1. CASE UNCHANGED vars
  BY <1>1 DEF vars, Announced, Passed
<1>2. CASE Start \/ StartFails
  BY <1>2 DEF Start, StartFails, Idle, Announced
<1>3. CASE Stop
  BY <1>3 DEF Stop, Announced
<1>4. CASE StartPlugin \/ RequestPluginSync \/ SyncPlugin \/ FinishedPluginSync
  <2>1. UNCHANGED <<plugins, pc, req, pos, ok>>
    BY <1>4 DEF StartPlugin, Register, Configure, StartPluginFails, RequestPluginSync,
                SyncPlugin, Synchronize, SynchronizeFails, FinishedPluginSync
  <2>2. \A i \in 1..Len(plugins) : /\ ~closed'[plugins[i]] => ~closed[plugins[i]]
                                   /\ events'[plugins[i]] = events[plugins[i]]
                                   /\ view'[plugins[i]] = view[plugins[i]]
    BY <1>4, NewcomerApart
  <2>3. QED
    BY <2>1, <2>2 DEF Announced, Passed
<1>5. CASE Admit
  <2>1. \A t \in Thread : ~Bracketed(t)
    BY <1>5 DEF Admit, Locks
  <2>2. QED
    BY <1>5, <2>1 DEF Admit, Bracketed, Announced
<1>6. ASSUME NEW p \in Plugin,
             \/ AcceptConnection(p) \/ PluginGone(p) \/ ConnectionClosed(p)
             \/ RequestUpdate(p) \/ UpdateContainers(p)
      PROVE  Announced'
  <2>1. UNCHANGED <<plugins, events, view, pc, req, pos, ok>>
    BY <1>6 DEF AcceptConnection, PluginGone, ConnectionClosed, RequestUpdate,
                UpdateContainers
  <2>2. \A q \in Plugin : ~closed'[q] => ~closed[q]
    BY <1>6 DEF AcceptConnection, PluginGone, ConnectionClosed, RequestUpdate,
                UpdateContainers, TypeOK
  <2>3. QED
    BY <1>0, <2>1, <2>2 DEF Announced, Passed
<1>7. ASSUME NEW t \in Thread, BlockPluginSync(t) \/ RequestUnblocked(t)
      PROVE  Announced'
  <2>1. UNCHANGED <<plugins, closed, events, view, pos, ok>>
    BY <1>7 DEF BlockPluginSync, RequestUnblocked
  <2>2. \A u \in Thread : u # t => pc'[u] = pc[u] /\ req'[u] = req[u]
    BY <1>7 DEF BlockPluginSync, RequestUnblocked, TakeOn, TypeOK
  <2>3. pc'[t] = "waiting"
    BY <1>7 DEF BlockPluginSync, RequestUnblocked, TypeOK
  <2>4. QED
    BY <2>1, <2>2, <2>3 DEF Announced, Passed
<1>8. ASSUME NEW t \in Thread, LockAdaptation(t)
      PROVE  Announced'
  <2>1. pos[t] = 1 /\ pc' = [pc EXCEPT ![t] = "relaying"]
    BY <1>8 DEF LockAdaptation, Loop
  <2>2. UNCHANGED <<plugins, closed, events, view, req, pos, ok>>
    BY <1>8 DEF LockAdaptation
  <2>3. pc'[t] = "relaying" /\ \A u \in Thread : u # t => pc'[u] = pc[u]
    BY <2>1 DEF TypeOK
  <2>4. \A i \in 1..Len(plugins) : ~(i < pos[t])
    BY <2>1 DEF TypeOK
  <2>5. QED
    BY <2>2, <2>3, <2>4 DEF Announced, Passed
<1>9. ASSUME NEW t \in Thread,
             SkipPlugin(t) \/ CallPlugin(t) \/ RelayDone(t) \/ ValidationDone(t)
      PROVE  Announced'
  <2>1. UNCHANGED <<plugins, closed, events, view, req, ok>>
    BY <1>9 DEF SkipPlugin, CallPlugin, RelayDone, ValidationDone
  <2>2. \A u \in Thread : u # t => pc'[u] = pc[u] /\ pos'[u] = pos[u]
    BY <1>9 DEF SkipPlugin, CallPlugin, RelayDone, ValidationDone, TypeOK
  <2>3. pc[t] \in {"relaying", "validating"} /\ pos[t] \in Nat /\ Len(plugins) \in Nat
    BY <1>9 DEF SkipPlugin, CallPlugin, RelayDone, ValidationDone, TypeOK
  <2>4. ASSUME NEW i \in 1..Len(plugins), Passed(t, i)'
        PROVE  Passed(t, i) \/ req[t].kind \notin events[plugins[i]]
    <3>1. CASE SkipPlugin(t)
      BY <2>3, <2>4, <3>1 DEF SkipPlugin, Current, Passed, TypeOK
    <3>2. CASE CallPlugin(t)
      BY <2>3, <2>4, <3>2 DEF CallPlugin, Passed, TypeOK
    <3>3. CASE RelayDone(t)
      BY <2>3, <3>3 DEF RelayDone, Passed, TypeOK
    <3>4. CASE ValidationDone(t)
      BY <3>4 DEF ValidationDone, Passed
    <3>5. QED
      BY <1>9, <3>1, <3>2, <3>3, <3>4
  <2>5. QED
    BY <2>1, <2>2, <2>3, <2>4 DEF Announced, Passed
<1>10. ASSUME NEW t \in Thread, Return(t)
       PROVE  Announced'
  <2>1. UNCHANGED <<closed, events, view, req, ok>> /\ pc' = [pc EXCEPT ![t] = "commit"]
    BY <1>10 DEF Return
  <2>2. \A u \in Thread : pc[u] \notin {"relaying", "calling"}
    BY <1>10 DEF Return, Locks, Locked
  <2>3. \A i \in 1..Len(plugins') : \E j \in 1..Len(plugins) : plugins'[i] = plugins[j]
    BY <1>10, ReturnRegistry
  <2>4. pc[t] = "return"
    BY <1>10 DEF Return
  <2>5. QED
    BY <2>1, <2>2, <2>3, <2>4 DEF Announced, Passed, TypeOK
<1>11. ASSUME NEW t \in Thread, Validate(t)
       PROVE  Announced'
  <2>1. UNCHANGED <<plugins, events, view, pc, req, pos>>
    BY <1>11 DEF Validate, ValidatorAccepts, ValidatorRejects, ValidatorIsFatal
  <2>2. /\ \A q \in Plugin : ~closed'[q] => ~closed[q]
        /\ \A u \in Thread : ok'[u] => ok[u]
    BY <1>11 DEF Validate, ValidatorAccepts, ValidatorRejects, ValidatorIsFatal, TypeOK
  <2>3. QED
    BY <1>0, <2>1, <2>2 DEF Announced, Passed
<1>12. ASSUME NEW t \in Thread, Answer(t)
       PROVE  Announced'
  <2>1. pc[t] = "calling" /\ pos[t] \in 1..Len(plugins)
    BY <1>12 DEF Answer, CallSucceeds, CallFails, CallIsFatal, Loop, TypeOK
  <2>2. UNCHANGED <<plugins, events, req>>
    BY <1>12 DEF Answer, CallSucceeds, CallFails, CallIsFatal
  <2>3. \A q \in Plugin : ~closed'[q] => ~closed[q]
    BY <1>12 DEF Answer, CallSucceeds, CallFails, CallIsFatal, TypeOK
  <2>4. view' = view \/ view' = Handled(t)
    BY <1>12 DEF Answer, CallSucceeds, CallFails, CallIsFatal
  <2>5. SUFFICES ASSUME NEW u \in Thread, NEW i \in 1..Len(plugins),
                        pc'[u] \notin {"idle", "waiting"}, req[u].kind = "create", ok'[u],
                        Passed(u, i)', ~closed'[plugins[i]],
                        "create" \in events[plugins[i]]
                 PROVE  req[u].ctr \in view'[plugins[i]]
    BY <2>2 DEF Announced
  <2>6. plugins[i] \in Plugin /\ ~closed[plugins[i]]
    BY <1>0, <2>3, <2>5
  <2>7. CASE u = t
    <3>1. CASE CallSucceeds(t)
      <4>1. view' = Handled(t) /\ pc'[t] = "relaying" /\ pos'[t] = pos[t] + 1 /\ ok[t]
        BY <2>5, <2>7, <3>1 DEF CallSucceeds, TypeOK
      <4>2. CASE i = pos[t]
        BY <2>1, <2>5, <2>7, <4>1, <4>2, HandledView DEF Current
      <4>3. CASE i < pos[t]
        <5>1. req[t].ctr \in view[plugins[i]]
          BY <2>1, <2>5, <2>6, <2>7, <4>1, <4>3 DEF Announced, Passed
        <5>2. QED
          BY <2>1, <2>5, <2>6, <2>7, <4>1, <5>1, HandledView
      <4>4. i < pos[t] + 1 /\ pos[t] \in Nat
        BY <2>1, <2>5, <2>7, <4>1 DEF Passed
      <4>5. QED
        BY <4>2, <4>3, <4>4
    <3>2. CASE CallFails(t)
      BY <2>5, <2>7, <3>2 DEF CallFails, TypeOK
    <3>3. CASE CallIsFatal(t)
      <4>1. /\ view' = view /\ pc'[t] = "relaying" /\ pos'[t] = pos[t] + 1 /\ ok[t]
            /\ closed' = [closed EXCEPT ![Current(t)] = TRUE]
        BY <2>5, <2>7, <3>3 DEF CallIsFatal, TypeOK
      <4>2. i < pos[t] + 1 /\ pos[t] \in Nat
        BY <2>1, <2>5, <2>7, <4>1 DEF Passed
      <4>3. i # pos[t]
        BY <2>5, <2>6, <4>1 DEF Current, TypeOK
      <4>4. i < pos[t]
        BY <4>2, <4>3
      <4>5. QED
        BY <2>1, <2>5, <2>6, <2>7, <4>1, <4>4 DEF Announced, Passed
    <3>4. QED
      BY <1>12, <3>1, <3>2, <3>3 DEF Answer
  <2>8. CASE u # t
    <3>1. pc'[u] = pc[u] /\ pos'[u] = pos[u] /\ ok'[u] = ok[u]
      BY <1>12, <2>8 DEF Answer, CallSucceeds, CallFails, CallIsFatal, TypeOK
    <3>2. req[u].ctr \in view[plugins[i]]
      BY <2>5, <2>6, <3>1 DEF Announced, Passed
    <3>3. req[u].ctr # req[t].ctr /\ req[u].ctr \in Container
      BY <2>1, <2>5, <2>8, <3>1 DEF Exclusive, TypeOK, Request
    <3>4. QED
      BY <2>1, <2>4, <2>6, <3>2, <3>3, HandledView
  <2>9. QED
    BY <2>7, <2>8
<1>13. ASSUME NEW t \in Thread, Unblock(t)
       PROVE  Announced'
  BY <1>13 DEF Unblock, Announced, Passed, TypeOK
<1>14. QED
  BY <1>1, <1>2, <1>3, <1>4, <1>5, <1>6, <1>7, <1>8, <1>9, <1>10, <1>11, <1>12, <1>13
     DEF Next, Accept, Runtime, Relay

(***************************************************************************)
(* The state a plugin was synchronized with is current when it is          *)
(* admitted: no container appeared in between.                             *)
(***************************************************************************)
LEMMA SyncedViewNext ==
    ASSUME TypeOK, Locks, Idle, SyncedView, [Next]_vars
    PROVE  SyncedView'
<1> USE DEF registryVars, syncVars, peerVars, threadVars, runtimeVars
<1>1. CASE UNCHANGED vars
  BY <1>1 DEF vars, SyncedView
<1>2. CASE Start \/ StartFails
  BY <1>2 DEF Start, StartFails, Idle, SyncedView
<1>3. CASE Stop \/ Accept
  BY <1>3 DEF Stop, Accept, StartPlugin, Register, Configure, StartPluginFails,
              RequestPluginSync, SyncPlugin, Synchronize, SynchronizeFails, Admit,
              FinishedPluginSync, SyncedView, TypeOK
<1>4. ASSUME NEW p \in Plugin,
             \/ AcceptConnection(p) \/ PluginGone(p) \/ ConnectionClosed(p)
             \/ RequestUpdate(p) \/ UpdateContainers(p)
      PROVE  SyncedView'
  BY <1>4 DEF AcceptConnection, PluginGone, ConnectionClosed, RequestUpdate,
              UpdateContainers, SyncedView, TypeOK
<1>5. ASSUME NEW t \in Thread, Runtime(t), acc = "admit"
      PROVE  SyncedView'
  <2>1. ~Bracketed(t) /\ cand \in Plugin
    BY <1>5 DEF Locks, TypeOK
  <2>2. acc' = acc /\ cand' = cand
    BY <1>5 DEF Runtime, BlockPluginSync, RequestUnblocked, LockAdaptation, Relay,
                SkipPlugin, CallPlugin, RelayDone, ValidationDone, Return, Answer,
                CallSucceeds, CallFails, CallIsFatal, Validate, ValidatorAccepts,
                ValidatorRejects, ValidatorIsFatal, Unblock
  <2>3. closed[cand] => closed'[cand]
    BY <1>5, <2>1 DEF Runtime, BlockPluginSync, RequestUnblocked, LockAdaptation, Relay,
                SkipPlugin, CallPlugin, RelayDone, ValidationDone, Return, Answer,
                CallSucceeds, CallFails, CallIsFatal, Validate, ValidatorAccepts,
                ValidatorRejects, ValidatorIsFatal, Unblock, TypeOK
  <2>4. store' = store
    BY <1>5, <2>1 DEF Runtime, BlockPluginSync, RequestUnblocked, LockAdaptation, Relay,
                SkipPlugin, CallPlugin, RelayDone, ValidationDone, Return, Answer,
                CallSucceeds, CallFails, CallIsFatal, Validate, ValidatorAccepts,
                ValidatorRejects, ValidatorIsFatal, Unblock, Bracketed
  <2>5. view[cand] \subseteq view'[cand]
    <3>1. CASE Answer(t)
      <4>1. pc[t] = "calling" /\ (view' = view \/ view' = Handled(t))
        BY <3>1 DEF Answer, CallSucceeds, CallFails, CallIsFatal
      <4>2. req[t].kind \notin {"create", "remove"}
        BY <2>1, <4>1 DEF Bracketed
      <4>3. view' = view
        BY <4>1, <4>2 DEF Handled, TypeOK
      <4>4. QED
        BY <4>3
    <3>2. CASE ~Answer(t)
      BY <1>5, <3>2 DEF Runtime, BlockPluginSync, RequestUnblocked, LockAdaptation, Relay,
                SkipPlugin, CallPlugin, RelayDone, ValidationDone, Return, Validate,
                ValidatorAccepts, ValidatorRejects, ValidatorIsFatal, Unblock
    <3>3. QED
      BY <3>1, <3>2
  <2>6. QED
    BY <1>5, <2>2, <2>3, <2>4, <2>5 DEF SyncedView
<1>6. ASSUME NEW t \in Thread, Runtime(t), acc # "admit"
      PROVE  SyncedView'
  BY <1>6 DEF Runtime, BlockPluginSync, RequestUnblocked, LockAdaptation, Relay,
              SkipPlugin, CallPlugin, RelayDone, ValidationDone, Return, Answer,
              CallSucceeds, CallFails, CallIsFatal, Validate, ValidatorAccepts,
              ValidatorRejects, ValidatorIsFatal, Unblock, SyncedView
<1>7. QED
  BY <1>1, <1>2, <1>3, <1>4, <1>5, <1>6 DEF Next

(***************************************************************************)
(* No missed container, by position in the registry.                       *)
(***************************************************************************)
Informed(p) ==
    ~closed[p] /\ "create" \in events[p] =>
       \A c \in store : c \in view[p] \/ BeingRemoved(c)

LEMMA MissedByPosition ==
    ASSUME TypeOK
    PROVE  NoMissedContainer <=> \A i \in 1..Len(plugins) : Informed(plugins[i])
BY MembersByPosition DEF NoMissedContainer, Informed, Live, Members

LEMMA NoMissedNext ==
    ASSUME ViewInv, TypeOK', [Next]_vars
    PROVE  NoMissedContainer'
<1> USE DEF registryVars, syncVars, peerVars, threadVars, runtimeVars
<1>0. /\ TypeOK /\ Locks /\ Idle /\ Newcomer /\ Exclusive /\ Loop /\ Announced /\ SyncedView
      /\ \A i \in 1..Len(plugins) : plugins[i] \in Plugin /\ Informed(plugins[i])
  BY MissedByPosition, MembersByPosition DEF ViewInv
<1>00. SUFFICES ASSUME NEW p \in Plugin, NEW i \in 1..Len(plugins'), p = plugins'[i]
               PROVE  Informed(p)'
  <2>1. plugins' \in Seq(Plugin)
    BY DEF TypeOK
  <2>2. \A p \in Range(plugins') :
           p \in Plugin /\ \E j \in 1..Len(plugins') : p = plugins'[j]
    BY <2>1 DEF Range
  <2>3. QED
    BY <2>2 DEF NoMissedContainer, Informed, Live, Members
<1>1. CASE UNCHANGED vars
  BY <1>0, <1>00, <1>1 DEF vars, Informed, BeingRemoved
<1>2. CASE Start
  <2>1. PICK synced \in SUBSET Preinstalled :
          /\ plugins' \in SortedListings(synced)
          /\ view' = [q \in Plugin |-> IF q \in synced THEN store ELSE view[q]]
    BY <1>2 DEF Start
  <2>2. synced \in SUBSET Plugin
    BY AdaptationAssumption DEF Preinstalled
  <2>3. p \in synced
    BY <1>00, <2>1, <2>2, ListedMembers DEF SortedListings
  <2>4. view'[p] = store /\ store' = store
    BY <1>2, <1>00, <2>1, <2>3 DEF Start
  <2>5. QED
    BY <2>4 DEF Informed
<1>3. CASE StartFails
  <2>1. plugins = <<>> /\ plugins' = plugins
    BY <1>0, <1>3 DEF Idle, StartFails
  <2>2. QED
    BY <1>00, <2>1
<1>4. CASE Stop
  BY <1>00, <1>4 DEF Stop
<1>5. CASE StartPlugin \/ RequestPluginSync \/ SyncPlugin \/ FinishedPluginSync
  <2>1. UNCHANGED <<plugins, pc, req, store>>
    BY <1>5 DEF StartPlugin, Register, Configure, StartPluginFails, RequestPluginSync,
                SyncPlugin, Synchronize, SynchronizeFails, FinishedPluginSync
  <2>2. QED
    BY <1>0, <1>00, <1>5, <2>1, NewcomerApart DEF Informed, BeingRemoved
<1>6. CASE Admit
  <2>1. UNCHANGED <<closed, events, view, pc, req, store>> /\ acc = "admit"
    BY <1>6 DEF Admit
  <2>2. ~closed[p] /\ (p = cand \/ \E j \in 1..Len(plugins) : p = plugins[j])
    BY <1>0, <1>00, <1>6, AdmitRegistry
  <2>3. Informed(p)
    BY <1>0, <2>1, <2>2 DEF SyncedView, Informed
  <2>4. QED
    BY <2>1, <2>3 DEF Informed, BeingRemoved
<1>7. ASSUME NEW q \in Plugin,
             \/ AcceptConnection(q) \/ PluginGone(q) \/ ConnectionClosed(q)
             \/ RequestUpdate(q) \/ UpdateContainers(q)
      PROVE  Informed(p)'
  <2>1. UNCHANGED <<plugins, events, view, pc, req, store>>
    BY <1>7 DEF AcceptConnection, PluginGone, ConnectionClosed, RequestUpdate,
                UpdateContainers
  <2>2. ~closed'[p] => ~closed[p]
    BY <1>0, <1>7, <1>00 DEF AcceptConnection, PluginGone, ConnectionClosed, RequestUpdate,
                UpdateContainers, TypeOK
  <2>3. QED
    BY <1>0, <1>00, <2>1, <2>2 DEF Informed, BeingRemoved
<1>8. ASSUME NEW t \in Thread, Runtime(t)
      PROVE  Informed(p)'
  <2>1. events' = events
    BY <1>8 DEF Runtime, BlockPluginSync, RequestUnblocked, LockAdaptation, Relay,
                SkipPlugin, CallPlugin, RelayDone, ValidationDone, Return, Answer,
                CallSucceeds, CallFails, CallIsFatal, Validate, ValidatorAccepts,
                ValidatorRejects, ValidatorIsFatal, Unblock
  <2>2. ~closed'[p] => ~closed[p]
    BY <1>0, <1>8, <1>00 DEF Runtime, BlockPluginSync, RequestUnblocked, LockAdaptation,
                Relay, SkipPlugin, CallPlugin, RelayDone, ValidationDone, Return, Answer,
                CallSucceeds, CallFails, CallIsFatal, Validate, ValidatorAccepts,
                ValidatorRejects, ValidatorIsFatal, Unblock, TypeOK
  <2>3. \E j \in 1..Len(plugins) : p = plugins[j]
    <3>1. CASE Return(t)
      BY <1>0, <1>00, <3>1, ReturnRegistry
    <3>2. CASE ~Return(t)
      <4>1. plugins' = plugins
        BY <1>8, <3>2 DEF Runtime, BlockPluginSync, RequestUnblocked, LockAdaptation,
                Relay, SkipPlugin, CallPlugin, RelayDone, ValidationDone, Answer,
                CallSucceeds, CallFails, CallIsFatal, Validate, ValidatorAccepts,
                ValidatorRejects, ValidatorIsFatal, Unblock
      <4>2. QED
        BY <1>00, <4>1
    <3>3. QED
      BY <3>1, <3>2
  <2>4. Informed(p)
    BY <1>0, <2>3
  <2>5. ASSUME ~Unblock(t), NEW c \in Container, BeingRemoved(c)
        PROVE  BeingRemoved(c)'
    BY <1>0, <1>8, <2>5 DEF Runtime, BlockPluginSync, RequestUnblocked, TakeOn,
                LockAdaptation, Relay, SkipPlugin, CallPlugin, RelayDone, ValidationDone,
                Return, Answer, CallSucceeds, CallFails, CallIsFatal, Validate,
                ValidatorAccepts, ValidatorRejects, ValidatorIsFatal, BeingRemoved, TypeOK
  <2>6. CASE Answer(t)
    <3>1. pc[t] = "calling" /\ pos[t] <= Len(plugins) /\ req[t] \in Request
      BY <1>0, <2>6 DEF Answer, CallSucceeds, CallFails, CallIsFatal, Loop, TypeOK
    <3>2. view' = view \/ view' = Handled(t)
      BY <2>6 DEF Answer, CallSucceeds, CallFails, CallIsFatal
    <3>3. store' = store /\ ~Unblock(t)
      BY <2>6, <3>1 DEF Answer, CallSucceeds, CallFails, CallIsFatal, Unblock
    <3>4. ASSUME NEW c \in store, c \in view[p] PROVE c \in view'[p] \/ BeingRemoved(c)
      <4>1. c \in Container
        BY <1>0 DEF TypeOK
      <4>2. CASE req[t].kind = "remove" /\ c = req[t].ctr
        BY <3>1, <4>2 DEF BeingRemoved, Request
      <4>3. CASE req[t].kind # "remove" \/ c # req[t].ctr
        BY <1>0, <1>00, <3>1, <3>2, <3>4, <4>1, <4>3, HandledView
      <4>4. QED
        BY <4>2, <4>3
    <3>5. store \subseteq Container
      BY <1>0 DEF TypeOK
    <3>6. QED
      BY <2>1, <2>2, <2>4, <2>5, <3>3, <3>4, <3>5 DEF Informed
  <2>7. CASE Unblock(t)
    <3>1. UNCHANGED <<plugins, view>> /\ pc[t] = "commit"
      BY <2>7 DEF Unblock
    <3>2. ASSUME NEW c \in store, BeingRemoved(c), c \in store'
          PROVE  BeingRemoved(c)'
      BY <1>0, <2>7, <3>2 DEF Unblock, BeingRemoved, TypeOK
    <3>3. ASSUME NEW c \in store', c \notin store, ~closed[p], "create" \in events[p]
          PROVE  c \in view[p]
      <4>1. req[t].kind = "create" /\ ok[t] /\ c = req[t].ctr
        BY <2>7, <3>3 DEF Unblock
      <4>2. QED
        BY <1>0, <2>3, <3>1, <3>3, <4>1 DEF Announced, Passed
    <3>4. QED
      BY <2>1, <2>2, <2>4, <3>1, <3>2, <3>3 DEF Informed
  <2>8. CASE ~Answer(t) /\ ~Unblock(t)
    <3>1. UNCHANGED <<view, store>>
      BY <1>8, <2>8 DEF Runtime, BlockPluginSync, RequestUnblocked, LockAdaptation,
                Relay, SkipPlugin, CallPlugin, RelayDone, ValidationDone, Return,
                Validate, ValidatorAccepts, ValidatorRejects, ValidatorIsFatal
    <3>2. store \subseteq Container
      BY <1>0 DEF TypeOK
    <3>3. QED
      BY <2>1, <2>2, <2>4, <2>5, <2>8, <3>1, <3>2 DEF Informed
  <2>9. QED
    BY <2>6, <2>7, <2>8
<1>9. QED
  BY <1>1, <1>2, <1>3, <1>4, <1>5, <1>6, <1>7, <1>8 DEF Next, Accept

-----------------------------------------------------------------------------
LEMMA ViewInvInit == Init => ViewInv
<1> SUFFICES ASSUME Init PROVE ViewInv
  OBVIOUS
<1>1. TypeOK
  BY InitType
<1>2. Locks
  BY AdaptationAssumption DEF Init, Locks, Locked, Bracketed
<1>3. Idle /\ Newcomer /\ Exclusive /\ Loop /\ Announced /\ SyncedView
  BY DEF Init, Idle, Newcomer, Exclusive, Loop, Announced, SyncedView
<1>4. NoMissedContainer
  BY DEF Init, NoMissedContainer, Members, Range
<1>5. QED
  BY <1>1, <1>2, <1>3, <1>4 DEF ViewInv

LEMMA ViewInvNext == ViewInv /\ [Next]_vars => ViewInv'
<1> SUFFICES ASSUME ViewInv, [Next]_vars PROVE ViewInv'
  OBVIOUS
<1>1. TypeOK'
  BY NextType DEF ViewInv
<1>2. QED
  BY <1>1, LocksNext, IdleNext, NewcomerNext, ExclusiveNext, LoopNext, AnnouncedNext,
     SyncedViewNext, NoMissedNext DEF ViewInv

(***************************************************************************)
(* The invariant behind BlockPluginSync holds in every reachable state:    *)
(* who holds which lock, where each thread is in its loop over plugins,    *)
(* whom it has told of a new container, and what the plugin that is being  *)
(* admitted was synchronized with.                                         *)
(***************************************************************************)
THEOREM ViewInvariant == Spec => []ViewInv
BY ViewInvInit, ViewInvNext, PTL DEF Spec

(***************************************************************************)
(* BlockPluginSync keeps its promise: in every reachable state, whatever   *)
(* the plugins, threads and containers, a live registered plugin that      *)
(* subscribed to container creation knows every container of the runtime   *)
(* that is not just being removed.                                         *)
(***************************************************************************)
THEOREM NoContainerIsMissed == Spec => []NoMissedContainer
<1>1. ViewInv => NoMissedContainer
  BY DEF ViewInv
<1>2. QED
  BY <1>1, ViewInvariant, PTL

(***************************************************************************)
(* Where the two locks are held.                                           *)
(***************************************************************************)
Claims ==
    /\ writer = "held" => acc \in {"sync", "admit", "finish"}
    /\ writer = "pending" => acc = "reqsync"
    /\ \A t \in readers : pc[t] # "idle"

LEMMA ClaimsNext ==
    ASSUME TypeOK, Claims, [Next]_vars
    PROVE  Claims'
<1> USE DEF Claims, TypeOK, registryVars, syncVars, peerVars, threadVars, runtimeVars
<1>1. CASE UNCHANGED vars
  BY <1>1 DEF vars
<1>2. CASE Start \/ StartFails \/ Stop
  BY <1>2 DEF Start, StartFails, Stop
<1>3. CASE StartPlugin \/ RequestPluginSync \/ FinishedPluginSync
  BY <1>3 DEF StartPlugin, Register, Configure, StartPluginFails, RequestPluginSync,
              FinishedPluginSync
<1>4. CASE SyncPlugin \/ Admit
  BY <1>4 DEF SyncPlugin, Synchronize, SynchronizeFails, Admit
<1>5. ASSUME NEW p \in Plugin,
             \/ AcceptConnection(p) \/ PluginGone(p) \/ ConnectionClosed(p)
             \/ RequestUpdate(p) \/ UpdateContainers(p)
      PROVE  Claims'
  BY <1>5 DEF AcceptConnection, PluginGone, ConnectionClosed, RequestUpdate,
              UpdateContainers
<1>6. ASSUME NEW t \in Thread, BlockPluginSync(t) \/ RequestUnblocked(t)
      PROVE  Claims'
  BY <1>6 DEF BlockPluginSync, RequestUnblocked
<1>7. ASSUME NEW t \in Thread, LockAdaptation(t) \/ Relay(t) \/ Answer(t)
      PROVE  Claims'
  BY <1>7 DEF LockAdaptation, Relay, SkipPlugin, CallPlugin, RelayDone, ValidationDone,
              Return, Answer, CallSucceeds, CallFails, CallIsFatal
<1>8. ASSUME NEW t \in Thread, Validate(t)
      PROVE  Claims'
  BY <1>8 DEF Validate, ValidatorAccepts, ValidatorRejects, ValidatorIsFatal
<1>9. ASSUME NEW t \in Thread, Unblock(t)
      PROVE  Claims'
  BY <1>9 DEF Unblock
<1>10. QED
  BY <1>1, <1>2, <1>3, <1>4, <1>5, <1>6, <1>7, <1>8, <1>9 DEF Next, Accept, Runtime

(***************************************************************************)
(* However many threads, plugins and callbacks there are, the waits for    *)
(* Adaptation's two locks, of BlockPluginSync, of every request, of        *)
(* UpdateContainers and of the accept goroutine, end at somebody who waits *)
(* at most for a plugin.                                                   *)
(***************************************************************************)
THEOREM NobodyWaitsInACircle == Spec => []NoCircularWait
<1>1. Init => Claims
  BY DEF Init, Claims
<1>2. ViewInv /\ Claims /\ [Next]_vars => Claims'
  BY ClaimsNext DEF ViewInv
<1>3. ViewInv /\ Claims => NoCircularWait
  BY DEF ViewInv, TypeOK, Locks, Locked, Claims, NoCircularWait
<1>4. QED
  BY <1>1, <1>2, <1>3, ViewInvariant, PTL DEF Spec
=============================================================================
