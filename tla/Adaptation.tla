----------------------------- MODULE Adaptation -----------------------------
(***************************************************************************)
(* The runtime side of NRI (pkg/adaptation): the registry of connected     *)
(* plugins, the goroutine that accepts, synchronizes and admits external   *)
(* plugins, the relaying of runtime requests to the registered plugins,    *)
(* the validation of container creation, and the unsolicited container     *)
(* updates plugins send at any time.                                       *)
(*                                                                         *)
(* Four kinds of actors interleave: threads of the runtime (one per CRI    *)
(* request), the accept goroutine, the plugins at the other end of their   *)
(* connections, and the ttrpc callbacks that notice a lost connection.     *)
(* They meet at two locks, Adaptation.Mutex (lock) and Adaptation.syncLock *)
(* (readers, writer).                                                      *)
(*                                                                         *)
(* The runtime around NRI is external: a thread brackets the creation and  *)
(* the removal of a container with BlockPluginSync/Unblock, relays the     *)
(* request to NRI inside the bracket, then updates its own store of        *)
(* containers.                                                             *)
(***************************************************************************)
EXTENDS Naturals, Sequences, FiniteSets, Functions

CONSTANTS
    Plugin,     \* plugin instances; a plugin that reconnects is another one
    Builtin,    \* those compiled into the runtime
    Launched,   \* those pre-installed and launched by Adaptation.Start
    Idx,        \* the index each plugin registers with
    Masks,      \* the event masks plugins answer Configure with
    Updaters,   \* those that request unsolicited container updates
    Thread,     \* threads of the runtime that issue requests
    Container,  \* containers of the runtime
    None        \* no thread, no plugin, no request

(***************************************************************************)
(* Request kinds.  "update" stands for every request that neither creates  *)
(* nor removes a container: UpdateContainer, StopContainer, the Post*      *)
(* events and the pod events are relayed in the same way.                  *)
(***************************************************************************)
Kinds == {"create", "update", "remove"}
Events == Kinds \cup {"validate"}

ASSUME AdaptationAssumption ==
    /\ IsFiniteSet(Plugin)
    /\ Builtin \subseteq Plugin
    /\ Launched \subseteq Plugin
    /\ Builtin \cap Launched = {}
    /\ Updaters \subseteq Plugin \ Builtin
    /\ Idx \in [Plugin -> Nat]
    /\ Masks \subseteq SUBSET Events
    /\ None \notin Thread \cup Plugin

Preinstalled == Builtin \cup Launched
External == Plugin \ Preinstalled

VARIABLES
    phase,      \* of the Adaptation: "new", "running", "failed" or "stopped"
    plugins,    \* Adaptation.plugins, in invocation order
    validators, \* Adaptation.validators
    lock,       \* the holder of Adaptation.Mutex
    readers,    \* the holders of syncLock for reading
    writer,     \* the accept goroutine's claim on syncLock
    peer,       \* each plugin's process: "absent", "up" or "gone"
    closed,     \* plugin.closed
    events,     \* plugin.events
    upd,        \* each plugin's outstanding UpdateContainers call
    acc,        \* control state of the accept goroutine
    cand,       \* the plugin it is working on
    pc,         \* control state of each runtime thread
    req,        \* the request a thread is working on
    pos,        \* the thread's position in the loop over plugins
    asked,      \* the plugins its request was sent to
    pending,    \* the validators it still waits for
    approved,   \* the validators that accepted its adjustments
    ok,         \* whether the request has succeeded so far
    store,      \* the containers the runtime has
    view,       \* the containers each plugin knows of
    aborted     \* containers with a failed create or remove not made good since

registryVars == <<plugins, validators>>
syncVars     == <<readers, writer>>
peerVars     == <<peer, closed, events>>
threadVars   == <<pc, req, pos, asked, pending, approved, ok>>
runtimeVars  == <<store, aborted>>
vars == <<phase, registryVars, lock, syncVars, peerVars, upd, acc, cand, threadVars,
          runtimeVars, view>>

ThreadPC == {"idle", "waiting", "relaying", "calling", "validating", "return",
             "commit"}
AcceptPC == {"accept", "register", "configure", "reqsync", "sync", "admit", "finish"}
Request  == [kind : Kinds, ctr : Container]

-----------------------------------------------------------------------------
(***************************************************************************)
(* Listings of a set, used for the slice of plugins.                       *)
(***************************************************************************)
Listings(S) == {s \in [1..Cardinality(S) -> S] :
                  /\ Range(s) = S
                  /\ \A i, j \in DOMAIN s : i # j => s[i] # s[j]}

\* sort.Slice by index; it is not stable, so equal indices come in any order.
SortedListings(S) == {s \in Listings(S) :
                        \A i, j \in DOMAIN s : i < j => Idx[s[i]] <= Idx[s[j]]}

\* The sublist of s that holds the members of S, in the order they have in s.
Sublists(s, S) == {u \in Listings(S) :
                     \A i, j \in DOMAIN u :
                       i < j => \E k, l \in DOMAIN s :
                                  k < l /\ s[k] = u[i] /\ s[l] = u[j]}

Open(S) == {p \in S : ~closed[p]}
ValidatorsIn(S) == {p \in S : "validate" \in events[p]}

(***************************************************************************)
(* A plugin can answer a call: its process runs and its connection is      *)
(* open.  A builtin plugin is called directly, closed or not.              *)
(***************************************************************************)
Answers(p) == p \in Builtin \/ (peer[p] = "up" /\ ~closed[p])

Subscription(mask) == IF mask = {} THEN Events ELSE mask
-----------------------------------------------------------------------------
(***************************************************************************)
(* Starting and stopping.                                                  *)
(***************************************************************************)
Init ==
    /\ phase = "new"
    /\ plugins = <<>>
    /\ validators = {}
    /\ lock = None
    /\ readers = {}
    /\ writer = "none"
    /\ peer = [p \in Plugin |-> "absent"]
    /\ closed = [p \in Plugin |-> FALSE]
    /\ events = [p \in Plugin |-> {}]
    /\ upd = [p \in Plugin |-> "none"]
    /\ acc = "accept"
    /\ cand = None
    /\ pc = [t \in Thread |-> "idle"]
    /\ req = [t \in Thread |-> None]
    /\ pos = [t \in Thread |-> 1]
    /\ asked = [t \in Thread |-> {}]
    /\ pending = [t \in Thread |-> {}]
    /\ approved = [t \in Thread |-> {}]
    /\ ok = [t \in Thread |-> TRUE]
    /\ store \in SUBSET Container
    /\ view = [p \in Plugin |-> {}]
    /\ aborted = {}

(***************************************************************************)
(* Adaptation.Start.  It holds the lock throughout.  Builtin plugins must  *)
(* all start; a launched plugin that fails to start is left out, and any   *)
(* plugin that fails to synchronize is left out too (and killed if it was  *)
(* launched).  The failure of a builtin plugin or of syncFn fails Start;   *)
(* that of the listener does too, but the plugins stay registered.         *)
(***************************************************************************)
Start ==
    /\ phase = "new"
    /\ lock = None
    /\ \E synced \in SUBSET Preinstalled, mask \in [Preinstalled -> Masks] :
         /\ plugins' \in SortedListings(synced)
         /\ events' = [p \in Plugin |-> IF p \in synced THEN Subscription(mask[p])
                                                        ELSE events[p]]
         /\ validators' = {p \in synced : "validate" \in events'[p]}
         /\ peer' = [p \in Plugin |-> IF p \in synced THEN "up"
                                      ELSE IF p \in Preinstalled THEN "gone"
                                      ELSE peer[p]]
         /\ closed' = [p \in Plugin |-> closed[p] \/ p \in Preinstalled \ synced]
         /\ view' = [p \in Plugin |-> IF p \in synced THEN store ELSE view[p]]
    /\ phase' \in {"running", "failed"}
    /\ UNCHANGED <<lock, syncVars, upd, acc, cand, threadVars, runtimeVars>>

StartFails ==
    /\ phase = "new"
    /\ lock = None
    /\ phase' = "failed"
    /\ peer' = [p \in Plugin |-> IF p \in Preinstalled THEN "gone" ELSE peer[p]]
    /\ closed' = [p \in Plugin |-> closed[p] \/ p \in Preinstalled]
    /\ UNCHANGED <<registryVars, lock, syncVars, events, upd, acc, cand, threadVars,
                   runtimeVars, view>>

(***************************************************************************)
(* Adaptation.Stop: the listener is closed, the launched plugins are       *)
(* killed, the plugins are forgotten (the validators are not), and the     *)
(* connections of external plugins stay open.                              *)
(***************************************************************************)
Stop ==
    /\ phase \in {"running", "failed"}
    /\ lock = None
    /\ phase' = "stopped"
    /\ plugins' = <<>>
    /\ peer' = [p \in Plugin |-> IF p \in Launched \cap Range(plugins) THEN "gone"
                                                                   ELSE peer[p]]
    /\ UNCHANGED <<validators, lock, syncVars, closed, events, upd, acc, cand,
                   threadVars, runtimeVars, view>>
-----------------------------------------------------------------------------
(***************************************************************************)
(* The accept goroutine: one external plugin at a time.                    *)
(***************************************************************************)
AcceptConnection(p) ==
    /\ acc = "accept"
    /\ phase = "running"
    /\ p \in External
    /\ peer[p] = "absent"
    /\ peer' = [peer EXCEPT ![p] = "up"]
    /\ acc' = "register"
    /\ cand' = p
    /\ UNCHANGED <<phase, registryVars, lock, syncVars, closed, events, upd, threadVars,
                   runtimeVars, view>>

\* plugin.RegisterPlugin succeeds and start goes on to configure.
Register ==
    /\ acc = "register"
    /\ Answers(cand)
    /\ acc' = "configure"
    /\ UNCHANGED <<phase, registryVars, lock, syncVars, peerVars, upd, cand, threadVars,
                   runtimeVars, view>>

\* A rejected registration and a lost connection leave the plugin as it is;
\* a registration timeout and every configuration error close it.
StartPluginFails ==
    /\ acc \in {"register", "configure"}
    /\ \E shut \in {acc = "configure", TRUE} :
         closed' = [closed EXCEPT ![cand] = @ \/ shut]
    /\ acc' = "accept"
    /\ cand' = None
    /\ UNCHANGED <<phase, registryVars, lock, syncVars, peer, events, upd, threadVars,
                   runtimeVars, view>>

Configure ==
    /\ acc = "configure"
    /\ Answers(cand)
    /\ \E mask \in Masks : events' = [events EXCEPT ![cand] = Subscription(mask)]
    /\ acc' = "reqsync"
    /\ writer' = "pending"
    /\ UNCHANGED <<phase, registryVars, lock, readers, peer, closed, upd, cand,
                   threadVars, runtimeVars, view>>

\* Mutant: synchronization does not wait for blocks to be lifted.
RequestPluginSyncAtOnce ==
    /\ acc = "reqsync"
    /\ writer' = "held"
    /\ acc' = "sync"
    /\ UNCHANGED <<phase, registryVars, lock, readers, peerVars, upd, cand, threadVars,
                   runtimeVars, view>>

\* syncLock.Lock returns once the readers it found have left; the pending
\* claim keeps new readers out (BlockPluginSync).
RequestPluginSync ==
    /\ acc = "reqsync"
    /\ readers = {}
    /\ writer' = "held"
    /\ acc' = "sync"
    /\ UNCHANGED <<phase, registryVars, lock, readers, peerVars, upd, cand, threadVars,
                   runtimeVars, view>>

\* Mutant: the sync lock is released before the plugin is registered.
SynchronizeUnlocks ==
    /\ acc = "sync"
    /\ Answers(cand)
    /\ view' = [view EXCEPT ![cand] = store]
    /\ writer' = "none"
    /\ acc' = "admit"
    /\ UNCHANGED <<phase, registryVars, lock, readers, peerVars, upd, cand, threadVars,
                   runtimeVars>>

\* syncFn passes the containers of the runtime to plugin.synchronize.
Synchronize ==
    /\ acc = "sync"
    /\ Answers(cand)
    /\ view' = [view EXCEPT ![cand] = store]
    /\ acc' = "admit"
    /\ UNCHANGED <<phase, registryVars, lock, syncVars, peerVars, upd, cand, threadVars,
                   runtimeVars>>

\* plugin.synchronize fails and closes the plugin, or syncFn fails on its own
\* account and does not.  A syncFn may also swallow the error of synchronize.
SynchronizeFails ==
    /\ acc = "sync"
    /\ \/ /\ acc' = "finish"
          /\ \E shut \in BOOLEAN : closed' = [closed EXCEPT ![cand] = @ \/ shut]
       \/ /\ acc' = "admit"
          /\ closed' = [closed EXCEPT ![cand] = TRUE]
    /\ UNCHANGED <<phase, registryVars, lock, syncVars, peer, events, upd, cand,
                   threadVars, runtimeVars, view>>

\* Mutant: the plugin is appended without taking the lock.
AdmitUnlocked ==
    /\ acc = "admit"
    /\ LET open == Open(Range(plugins) \cup {cand})
       IN  /\ plugins' \in SortedListings(open)
           /\ validators' = ValidatorsIn(open)
    /\ acc' = "finish"
    /\ UNCHANGED <<phase, lock, syncVars, peerVars, upd, cand, threadVars, runtimeVars,
                   view>>

\* Mutant: the plugin is appended and the registry is not sorted.
AdmitUnsorted ==
    /\ acc = "admit"
    /\ lock = None
    /\ LET open == Open(Range(plugins) \cup {cand})
       IN  /\ plugins' \in {s \in Listings(open) : open = {} \/ cand \notin open \/ s[Len(s)] = cand}
           /\ validators' = ValidatorsIn(open)
    /\ acc' = "finish"
    /\ UNCHANGED <<phase, lock, syncVars, peerVars, upd, cand, threadVars, runtimeVars,
                   view>>

\* The plugin is appended and sortPlugins drops the closed ones, of which it kills
\* those that were launched, and sorts.
Admit ==
    /\ acc = "admit"
    /\ lock = None
    /\ LET members == Range(plugins) \cup {cand}
           open    == Open(members)
       IN  /\ plugins' \in SortedListings(open)
           /\ validators' = ValidatorsIn(open)
           /\ peer' = [p \in Plugin |-> IF p \in (members \ open) \cap Launched
                                        THEN "gone" ELSE peer[p]]
    /\ acc' = "finish"
    /\ UNCHANGED <<phase, lock, syncVars, closed, events, upd, cand, threadVars,
                   runtimeVars, view>>

FinishedPluginSync ==
    /\ acc = "finish"
    /\ writer' = "none"
    /\ acc' = "accept"
    /\ cand' = None
    /\ UNCHANGED <<phase, registryVars, lock, readers, peerVars, upd, threadVars,
                   runtimeVars, view>>
-----------------------------------------------------------------------------
(***************************************************************************)
(* The far end of the connections.                                         *)
(***************************************************************************)
\* The plugin's process exits, or it drops the connection.
PluginGone(p) ==
    /\ p \notin Builtin
    /\ peer[p] = "up"
    /\ peer' = [peer EXCEPT ![p] = "gone"]
    /\ UNCHANGED <<phase, registryVars, lock, syncVars, closed, events, upd, acc, cand,
                   threadVars, runtimeVars, view>>

\* The OnClose callback of the ttrpc client, or the end of the ttrpc server.
ConnectionClosed(p) ==
    /\ peer[p] = "gone"
    /\ ~closed[p]
    /\ closed' = [closed EXCEPT ![p] = TRUE]
    /\ UNCHANGED <<phase, registryVars, lock, syncVars, peer, events, upd, acc, cand,
                   threadVars, runtimeVars, view>>
-----------------------------------------------------------------------------
(***************************************************************************)
(* A runtime thread.  It blocks plugin synchronization, relays its request *)
(* to the plugins one by one under the lock, and updates the store.        *)
(***************************************************************************)
Busy(c) == \E t \in Thread : pc[t] # "idle" /\ req[t].ctr = c

\* The runtime works on a container in one thread at a time; it creates those
\* it does not have.
TakeOn(t, kinds) ==
    \E r \in [kind : kinds, ctr : Container] :
        /\ ~Busy(r.ctr)
        /\ (r.kind = "create") <=> (r.ctr \notin store)
        /\ req' = [req EXCEPT ![t] = r]

\* Mutant: a block does not wait for a synchronization in progress.
BlockPluginSyncAnyTime(t) ==
    /\ pc[t] = "idle"
    /\ phase # "new"
    /\ TakeOn(t, {"create", "remove"})
    /\ pc' = [pc EXCEPT ![t] = "waiting"]
    /\ readers' = readers \cup {t}
    /\ UNCHANGED <<phase, registryVars, lock, writer, peerVars, upd, acc, cand, pos,
                   asked, pending, approved, ok, runtimeVars, view>>

\* Mutant: readers overtake a synchronization that waits.
BlockPluginSyncOvertakes(t) ==
    /\ pc[t] = "idle"
    /\ phase # "new"
    /\ writer # "held"
    /\ TakeOn(t, {"create", "remove"})
    /\ pc' = [pc EXCEPT ![t] = "waiting"]
    /\ readers' = readers \cup {t}
    /\ UNCHANGED <<phase, registryVars, lock, writer, peerVars, upd, acc, cand, pos,
                   asked, pending, approved, ok, runtimeVars, view>>

\* A thread that creates or removes a container holds off the synchronization
\* of plugins; it is not served while one is in progress or waits.  Nor does
\* the runtime serve requests before Start has returned.
BlockPluginSync(t) ==
    /\ pc[t] = "idle"
    /\ phase # "new"
    /\ writer = "none"
    /\ TakeOn(t, {"create", "remove"})
    /\ pc' = [pc EXCEPT ![t] = "waiting"]
    /\ readers' = readers \cup {t}
    /\ UNCHANGED <<phase, registryVars, lock, writer, peerVars, upd, acc, cand, pos,
                   asked, pending, approved, ok, runtimeVars, view>>

\* A request that leaves the set of containers alone needs no block.
RequestUnblocked(t) ==
    /\ pc[t] = "idle"
    /\ phase # "new"
    /\ TakeOn(t, {"update"})
    /\ pc' = [pc EXCEPT ![t] = "waiting"]
    /\ UNCHANGED <<phase, registryVars, lock, syncVars, peerVars, upd, acc, cand, pos,
                   asked, pending, approved, ok, runtimeVars, view>>

LockAdaptation(t) ==
    /\ pc[t] = "waiting"
    /\ lock = None
    /\ lock' = t
    /\ pc' = [pc EXCEPT ![t] = "relaying"]
    /\ UNCHANGED <<phase, registryVars, syncVars, peerVars, upd, acc, cand, req, pos,
                   asked, pending, approved, ok, runtimeVars, view>>

Current(t) == plugins[pos[t]]

\* A plugin that has not subscribed to the event is passed over.
SkipPlugin(t) ==
    /\ pc[t] = "relaying"
    /\ pos[t] <= Len(plugins)
    /\ req[t].kind \notin events[Current(t)]
    /\ pos' = [pos EXCEPT ![t] = @ + 1]
    /\ UNCHANGED <<phase, registryVars, lock, syncVars, peerVars, upd, acc, cand, pc, req,
                   asked, pending, approved, ok, runtimeVars, view>>

CallPlugin(t) ==
    /\ pc[t] = "relaying"
    /\ pos[t] <= Len(plugins)
    /\ req[t].kind \in events[Current(t)]
    /\ pc' = [pc EXCEPT ![t] = "calling"]
    /\ asked' = [asked EXCEPT ![t] = @ \cup {Current(t)}]
    /\ UNCHANGED <<phase, registryVars, lock, syncVars, peerVars, upd, acc, cand, req,
                   pos, pending, approved, ok, runtimeVars, view>>

\* What the plugin knows once it has handled the request of thread t.
Handled(t) ==
    [view EXCEPT ![Current(t)] =
        CASE req[t].kind = "create" -> @ \cup {req[t].ctr}
          [] req[t].kind = "remove" -> @ \ {req[t].ctr}
          [] OTHER -> @]

\* The plugin replies, and its reply is merged into the result.
CallSucceeds(t) ==
    /\ pc[t] = "calling"
    /\ Answers(Current(t))
    /\ upd[Current(t)] # "nested"
    /\ view' = Handled(t)
    /\ pc' = [pc EXCEPT ![t] = "relaying"]
    /\ pos' = [pos EXCEPT ![t] = @ + 1]
    /\ UNCHANGED <<phase, registryVars, lock, syncVars, peerVars, upd, acc, cand, req,
                   asked, pending, approved, ok, runtimeVars>>

\* The plugin returns an error, or its reply conflicts with an earlier one:
\* the request fails and the plugins further down do not hear of it.
CallFails(t) ==
    /\ pc[t] = "calling"
    /\ Answers(Current(t))
    /\ upd[Current(t)] # "nested"
    /\ view' \in {view, Handled(t)}
    /\ ok' = [ok EXCEPT ![t] = FALSE]
    /\ pc' = [pc EXCEPT ![t] = "return"]
    /\ UNCHANGED <<phase, registryVars, lock, syncVars, peerVars, upd, acc, cand, req,
                   pos, asked, pending, approved, runtimeVars>>

\* Mutant: requests are made without a timeout.
CallIsFatalWhenLost(t) ==
    /\ pc[t] = "calling"
    /\ ~Answers(Current(t))
    /\ closed' = [closed EXCEPT ![Current(t)] = TRUE]
    /\ pc' = [pc EXCEPT ![t] = "relaying"]
    /\ pos' = [pos EXCEPT ![t] = @ + 1]
    /\ UNCHANGED <<phase, registryVars, lock, syncVars, peer, events, upd, acc, cand, req,
                   asked, pending, approved, ok, runtimeVars, view>>

\* The request times out or the connection is lost (isFatalError): the plugin
\* is closed and the request goes on without it.
CallIsFatal(t) ==
    /\ pc[t] = "calling"
    /\ closed' = [closed EXCEPT ![Current(t)] = TRUE]
    /\ pc' = [pc EXCEPT ![t] = "relaying"]
    /\ pos' = [pos EXCEPT ![t] = @ + 1]
    /\ UNCHANGED <<phase, registryVars, lock, syncVars, peer, events, upd, acc, cand, req,
                   asked, pending, approved, ok, runtimeVars, view>>

\* Every plugin was passed.  The adjustments of a new container go to the
\* validators, all at once; any other request is done.
RelayDone(t) ==
    /\ pc[t] = "relaying"
    /\ pos[t] > Len(plugins)
    /\ IF req[t].kind = "create" /\ validators # {}
       THEN /\ pc' = [pc EXCEPT ![t] = "validating"]
            /\ pending' = [pending EXCEPT ![t] = validators]
       ELSE /\ pc' = [pc EXCEPT ![t] = "return"]
            /\ UNCHANGED pending
    /\ UNCHANGED <<phase, registryVars, lock, syncVars, peerVars, upd, acc, cand, req,
                   pos, asked, approved, ok, runtimeVars, view>>

ValidatorAccepts(t, v) ==
    /\ pc[t] = "validating"
    /\ v \in pending[t]
    /\ Answers(v)
    /\ upd[v] # "nested"
    /\ pending' = [pending EXCEPT ![t] = @ \ {v}]
    /\ approved' = [approved EXCEPT ![t] = @ \cup {v}]
    /\ UNCHANGED <<phase, registryVars, lock, syncVars, peerVars, upd, acc, cand, pc, req,
                   pos, asked, ok, runtimeVars, view>>

\* A rejection, or an error in validating, fails the request.
ValidatorRejects(t, v) ==
    /\ pc[t] = "validating"
    /\ v \in pending[t]
    /\ Answers(v)
    /\ upd[v] # "nested"
    /\ pending' = [pending EXCEPT ![t] = @ \ {v}]
    /\ ok' = [ok EXCEPT ![t] = FALSE]
    /\ UNCHANGED <<phase, registryVars, lock, syncVars, peerVars, upd, acc, cand, pc, req,
                   pos, asked, approved, runtimeVars, view>>

\* Mutant: a lost validator is passed over like any lost plugin.
ValidatorIsFatalIgnored(t, v) ==
    /\ pc[t] = "validating"
    /\ v \in pending[t]
    /\ pending' = [pending EXCEPT ![t] = @ \ {v}]
    /\ closed' = [closed EXCEPT ![v] = TRUE]
    /\ UNCHANGED <<phase, registryVars, lock, syncVars, peer, events, upd, acc, cand, pc,
                   req, pos, asked, approved, ok, runtimeVars, view>>

\* A validator that is gone or times out is closed, and fails the request.
ValidatorIsFatal(t, v) ==
    /\ pc[t] = "validating"
    /\ v \in pending[t]
    /\ pending' = [pending EXCEPT ![t] = @ \ {v}]
    /\ closed' = [closed EXCEPT ![v] = TRUE]
    /\ ok' = [ok EXCEPT ![t] = FALSE]
    /\ UNCHANGED <<phase, registryVars, lock, syncVars, peer, events, upd, acc, cand, pc,
                   req, pos, asked, approved, runtimeVars, view>>

ValidationDone(t) ==
    /\ pc[t] = "validating"
    /\ pending[t] = {}
    /\ pc' = [pc EXCEPT ![t] = "return"]
    /\ UNCHANGED <<phase, registryVars, lock, syncVars, peerVars, upd, acc, cand, req,
                   pos, asked, pending, approved, ok, runtimeVars, view>>

\* The deferred calls: removeClosedPlugins, which also kills the closed
\* plugins that were launched, then Unlock.
Return(t) ==
    /\ pc[t] = "return"
    /\ LET members == Range(plugins)
           open    == Open(members)
       IN  /\ plugins' \in Sublists(plugins, open)
           /\ validators' = ValidatorsIn(open)
           /\ peer' = [p \in Plugin |-> IF p \in (members \ open) \cap Launched
                                        THEN "gone" ELSE peer[p]]
    /\ lock' = None
    /\ pc' = [pc EXCEPT ![t] = "commit"]
    /\ UNCHANGED <<phase, syncVars, closed, events, upd, acc, cand, req, pos, asked,
                   pending, approved, ok, runtimeVars, view>>

\* The runtime completes the operation and lifts its block.  A failed create
\* leaves no container; a container is removed whatever the plugins say.
Unblock(t) ==
    /\ pc[t] = "commit"
    /\ LET c == req[t].ctr
           k == req[t].kind
       IN  /\ store' = IF k = "create" /\ ok[t] THEN store \cup {c}
                       ELSE IF k = "remove" THEN store \ {c} ELSE store
           /\ aborted' = IF k \in {"create", "remove"} /\ ~ok[t] THEN aborted \cup {c}
                         ELSE IF k = "remove" THEN aborted \ {c} ELSE aborted
    /\ readers' = readers \ {t}
    /\ pc' = [pc EXCEPT ![t] = "idle"]
    /\ req' = [req EXCEPT ![t] = None]
    /\ pos' = [pos EXCEPT ![t] = 1]
    /\ asked' = [asked EXCEPT ![t] = {}]
    /\ approved' = [approved EXCEPT ![t] = {}]
    /\ ok' = [ok EXCEPT ![t] = TRUE]
    /\ UNCHANGED <<phase, registryVars, lock, writer, peerVars, upd, acc, cand, pending,
                   view>>
-----------------------------------------------------------------------------
(***************************************************************************)
(* Unsolicited updates.  A plugin may request one at any time after it     *)
(* connected, even from the handler of a request, in which case it does    *)
(* not answer that request before the update has returned.                 *)
(***************************************************************************)
Called(p) == \E t \in Thread : \/ pc[t] = "calling" /\ Current(t) = p
                               \/ pc[t] = "validating" /\ p \in pending[t]

RequestUpdate(p) ==
    /\ p \in Updaters
    /\ upd[p] = "none"
    /\ Answers(p)
    /\ \/ upd' = [upd EXCEPT ![p] = "async"]
       \/ Called(p) /\ upd' = [upd EXCEPT ![p] = "nested"]
    /\ UNCHANGED <<phase, registryVars, lock, syncVars, peerVars, acc, cand, threadVars,
                   runtimeVars, view>>

\* Mutant: the update of a plugin closed meanwhile is never answered.
UpdateContainersIfOpen(p) ==
    /\ upd[p] # "none"
    /\ lock = None
    /\ ~closed[p]
    /\ upd' = [upd EXCEPT ![p] = "none"]
    /\ UNCHANGED <<phase, registryVars, lock, syncVars, peerVars, acc, cand, threadVars,
                   runtimeVars, view>>

\* Adaptation.updateContainers: the runtime's updateFn, called under the lock.
UpdateContainers(p) ==
    /\ upd[p] # "none"
    /\ lock = None
    /\ upd' = [upd EXCEPT ![p] = "none"]
    /\ UNCHANGED <<phase, registryVars, lock, syncVars, peerVars, acc, cand, threadVars,
                   runtimeVars, view>>
-----------------------------------------------------------------------------
Validate(t) == \E v \in Plugin : \/ ValidatorAccepts(t, v)
                                 \/ ValidatorRejects(t, v)
                                 \/ ValidatorIsFatal(t, v)

Answer(t) == CallSucceeds(t) \/ CallFails(t) \/ CallIsFatal(t)

Relay(t) == SkipPlugin(t) \/ CallPlugin(t) \/ RelayDone(t) \/ ValidationDone(t)
            \/ Return(t)

Runtime(t) == BlockPluginSync(t) \/ RequestUnblocked(t) \/ LockAdaptation(t)
              \/ Relay(t) \/ Answer(t) \/ Validate(t) \/ Unblock(t)

StartPlugin == Register \/ Configure \/ StartPluginFails

SyncPlugin == Synchronize \/ SynchronizeFails

Accept == StartPlugin \/ RequestPluginSync \/ SyncPlugin \/ Admit \/ FinishedPluginSync

Next ==
    \/ Start \/ StartFails \/ Stop
    \/ Accept
    \/ \E p \in Plugin : \/ AcceptConnection(p) \/ PluginGone(p) \/ ConnectionClosed(p)
                         \/ RequestUpdate(p) \/ UpdateContainers(p)
    \/ \E t \in Thread : Runtime(t)

Spec == Init /\ [][Next]_vars

(***************************************************************************)
(* Fairness.  Goroutines keep running.  No plugin has to answer anything:  *)
(* what ends a call is the timeout it is made under, a fatal error.  A     *)
(* lost connection is noticed in the end.  sync.Mutex hands itself to a    *)
(* starving waiter, so whoever waits for it gets it.  Nothing makes a      *)
(* plugin connect or the runtime issue a request or call Stop.             *)
(***************************************************************************)
Fairness ==
    /\ WF_vars(StartPluginFails) /\ WF_vars(RequestPluginSync)
    /\ WF_vars(SynchronizeFails) /\ SF_vars(Admit) /\ WF_vars(FinishedPluginSync)
    /\ \A t \in Thread : /\ SF_vars(LockAdaptation(t))
                         /\ WF_vars(Relay(t))
                         /\ WF_vars(CallIsFatal(t))
                         /\ WF_vars(\E v \in Plugin : ValidatorIsFatal(t, v))
                         /\ WF_vars(Unblock(t))
    /\ \A p \in Plugin : WF_vars(ConnectionClosed(p)) /\ SF_vars(UpdateContainers(p))

FairSpec == Spec /\ Fairness
-----------------------------------------------------------------------------
TypeOK ==
    /\ phase \in {"new", "running", "failed", "stopped"}
    /\ plugins \in Seq(Plugin)
    /\ validators \in SUBSET Plugin
    /\ lock \in Thread \cup {None}
    /\ readers \in SUBSET Thread
    /\ writer \in {"none", "pending", "held"}
    /\ peer \in [Plugin -> {"absent", "up", "gone"}]
    /\ closed \in [Plugin -> BOOLEAN]
    /\ events \in [Plugin -> SUBSET Events]
    /\ upd \in [Plugin -> {"none", "async", "nested"}]
    /\ acc \in AcceptPC
    /\ cand \in Plugin \cup {None}
    /\ acc # "accept" => cand \in Plugin
    /\ pc \in [Thread -> ThreadPC]
    /\ req \in [Thread -> Request \cup {None}]
    /\ \A t \in Thread : pc[t] # "idle" => req[t] \in Request
    /\ pos \in [Thread -> Nat \ {0}]
    /\ asked \in [Thread -> SUBSET Plugin]
    /\ pending \in [Thread -> SUBSET Plugin]
    /\ approved \in [Thread -> SUBSET Plugin]
    /\ ok \in [Thread -> BOOLEAN]
    /\ store \in SUBSET Container
    /\ view \in [Plugin -> SUBSET Container]
    /\ aborted \in SUBSET Container

Members == Range(plugins)
Live(p) == p \in Members /\ ~closed[p]
BeingRemoved(c) == \E t \in Thread : pc[t] # "idle" /\ req[t] = [kind |-> "remove", ctr |-> c]
InCall(t, p) == pc[t] = "calling" /\ Current(t) = p

(***************************************************************************)
(* Every container of the runtime, unless it is just being removed, is     *)
(* known to every registered plugin that subscribed to container creation: *)
(* it was either in the state the plugin was synchronized with or          *)
(* announced to it later.  This is what BlockPluginSync is for.            *)
(***************************************************************************)
NoMissedContainer ==
    \A p \in Members : Live(p) /\ "create" \in events[p] =>
       \A c \in store : c \in view[p] \/ BeingRemoved(c)

(***************************************************************************)
(* A plugin is asked to create a container it does not know yet, and to    *)
(* update or remove one it knows: no event of a container reaches it       *)
(* twice, once in the synchronized state and once as an event, or before   *)
(* the container was introduced to it.  A container whose creation or      *)
(* removal was aborted half-way is excepted.                               *)
(***************************************************************************)
EventsFitView ==
    \A t \in Thread, p \in Members :
       InCall(t, p) /\ Events \ {"validate"} \subseteq events[p] /\ Answers(p) =>
          IF req[t].kind = "create"
          THEN req[t].ctr \in view[p] => req[t].ctr \in aborted
          ELSE req[t].ctr \in view[p]

(***************************************************************************)
(* Seen from outside, the Adaptation is the simple system of module        *)
(* Following: whatever interleaves, a plugin that subscribed to creation   *)
(* and removal is let in between two such requests with exactly the        *)
(* containers there are, hears of each once and in the order of indices,   *)
(* and no container comes or goes without all of them having heard of it,  *)
(* unless the request failed (finishedPluginSync, CreateContainer,         *)
(* RemoveContainer).                                                       *)
(***************************************************************************)
Followers == {p \in Members : Live(p) /\ {"create", "remove"} \subseteq events[p]}
InProgress(kind) == {c \in Container : \E t \in Thread :
                       pc[t] # "idle" /\ req[t] = [kind |-> kind, ctr |-> c]}

Followed == INSTANCE Following WITH
              containers <- store,
              creating <- InProgress("create"),
              removing <- InProgress("remove"),
              doubtful <- aborted,
              known <- [p \in Followers |-> view[p]]

ImplementsFollowing == Followed!Spec

(***************************************************************************)
(* A registered plugin that follows creation and removal knows no          *)
(* container beyond those of the runtime, those being worked on and those  *)
(* a failing plugin made the runtime give up half-way.                     *)
(***************************************************************************)
NoStaleContainer ==
    \A p \in Members : Live(p) /\ {"create", "remove"} \subseteq events[p] =>
       \A c \in view[p] : c \in store \cup aborted \/ Busy(c)

(***************************************************************************)
(* While a plugin is called, every registered plugin of a smaller index    *)
(* that subscribed to the event has been asked (README: the index          *)
(* determines the order in which plugins are hooked into event             *)
(* processing), and none of a greater index.                               *)
(***************************************************************************)
IndexOrder ==
    \A t \in Thread, p, q \in Members :
       InCall(t, p) /\ p # q /\ req[t].kind \in events[q] =>
          /\ Idx[q] < Idx[p] => q \in asked[t]
          /\ Idx[q] > Idx[p] => q \notin asked[t]

(***************************************************************************)
(* A creation succeeds only if every registered validator accepted it,     *)
(* after every registered plugin that subscribed to creation was asked: a  *)
(* validator that is lost or slow fails the creation.                      *)
(***************************************************************************)
FailClosed ==
    \A t \in Thread :
       pc[t] = "return" /\ req[t].kind = "create" /\ ok[t] =>
          \A p \in Members : /\ "validate" \in events[p] => p \in approved[t]
                             /\ "create" \in events[p] => p \in asked[t]

(***************************************************************************)
(* The registry does not change under a request that is being relayed:     *)
(* whoever is admitted meanwhile sees either the whole of it, in its       *)
(* synchronized state, or nothing.  And a live plugin leaves the registry  *)
(* only when the Adaptation stops.                                         *)
(***************************************************************************)
Relaying(t) == pc[t] \in {"relaying", "calling", "validating"}

StableRegistry ==
    [][ /\ (\E t \in Thread : Relaying(t)) => UNCHANGED registryVars
        /\ \A p \in Members : Live(p) /\ p \notin Range(plugins') => phase' = "stopped"
      ]_vars

(***************************************************************************)
(* Nobody waits in a circle.  A thread that holds the Adaptation lock      *)
(* waits for nothing but plugins, whose calls time out, and in particular  *)
(* not for syncLock; syncLock is held, or claimed, only by the accept      *)
(* goroutine on its way to the Adaptation lock, or by threads that wait    *)
(* for no more than that lock and do not block twice, which a claim in     *)
(* between would make a deadlock of; and no lock is left behind.           *)
(***************************************************************************)
NoCircularWait ==
    /\ lock # None => pc[lock] \in {"relaying", "calling", "validating", "return"}
    /\ writer = "held" => acc \in {"sync", "admit", "finish"} /\ readers = {}
    /\ writer = "pending" => acc = "reqsync"
    /\ \A t \in readers : pc[t] # "idle"

(***************************************************************************)
(* Every request returns to the runtime, whatever the plugins do: a plugin *)
(* that hangs, dies or waits for its own update request is timed out.      *)
(***************************************************************************)
RequestsReturn == \A t \in Thread : pc[t] = "waiting" ~> pc[t] = "idle"

(***************************************************************************)
(* The accept goroutine deals with each connection it took and comes back  *)
(* for the next: neither a hanging plugin nor the stream of requests stops *)
(* it.                                                                     *)
(***************************************************************************)
AcceptReturns == acc = "register" ~> acc = "accept"

(***************************************************************************)
(* Every update a plugin requests is performed, even while requests are    *)
(* being relayed to that plugin.                                           *)
(***************************************************************************)
UpdatesPerformed == \A p \in Plugin : upd[p] # "none" ~> upd[p] = "none"
=============================================================================
