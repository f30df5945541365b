----------------------------- MODULE Adjustment -----------------------------
(***************************************************************************)
(* Merging the adjustments that plugins 1..N, in this order, ask for when  *)
(* a container is created, and applying the outcome to its OCI Spec.  Each *)
(* plugin is shown the container as adjusted by the ones before it.  The   *)
(* collections that can be adjusted (mounts, devices, ...) are independent *)
(* of each other except that a conflict in any of them fails the creation: *)
(* a behaviour follows the items of one collection.  A setting is what     *)
(* matters about it: whose it is.  Entries for one key within a reply keep *)
(* their order; the order between keys makes no difference.                *)
(***************************************************************************)
EXTENDS Naturals, Sequences, FiniteSets

CONSTANTS
    N,       \* number of plugins
    Keys,    \* keys of items: mount points, device paths, variable names...
    Kinds,   \* the collections to adjust
    Runtime, \* whose the settings are that the runtime asked for
    None     \* no setting; in a reply, the mark that removes one

Plugins == 1..N
Settings == Plugins \cup {Runtime, None}
Listed == {"mounts", "devices", "env", "args", "namespaces", "resources", "memory", "cdi",
           "hooks", "rdt"}
Mapped == {"annotations", "netdevices", "sysctl"}

\* What is merged for nothing.  "memory" is all memory resources except a limit other
\* than zero, which is one of "resources", and classes the runtime cannot resolve.
Dropped == {"memory"}

ASSUME ConstantsAssumption ==
    /\ N \in Nat
    /\ Kinds \subseteq Listed \cup Mapped
    /\ Runtime # None /\ Runtime \notin Plugins /\ None \notin Plugins

VARIABLES
    kind,    \* the collection this behaviour is about
    given,   \* its settings in the container the runtime asked for
    item,    \* per key: owner, entries in the reply, setting shown to plugins
    turn,    \* plugins whose response has been applied, or was refused
    asked,   \* what each plugin asked for, per key
    status,  \* of the creation
    created  \* the settings of the created container's OCI Spec

vars == <<kind, given, item, turn, asked, status, created>>

Unowned == [by |-> None, cleared |-> FALSE]
Contested == [by |-> None, cleared |-> TRUE]
OwnedBy(p) == [by |-> p, cleared |-> FALSE]
ClearedBy(p) == [by |-> p, cleared |-> TRUE]

Item == [owner : {Unowned} \cup [by : Plugins, cleared : BOOLEAN],
         reply : Seq(Plugins \cup {None}),
         request : Settings]

\* What a response can ask of an item; "replace" is to remove and then set it.
\* Arguments cannot be removed; plain resources, CDI devices and hooks can only be
\* set; the three fields of an RDT class are removed together.
Acts == {"keep", "set", "remove", "replace"}
ActsOn(k) == CASE k = "args" -> Acts \ {"remove"}
               [] k \in {"resources", "memory", "cdi", "hooks"} -> {"keep", "set"}
               [] OTHER -> Acts

Removes(act) == act \in {"remove", "replace"}
Sets(act) == act \in {"set", "replace"}

Responses ==
    {r \in [Keys -> ActsOn(kind)] :
        kind = "rdt" => \A k, l \in Keys : Removes(r[k]) = Removes(r[l])}
SetsAny(response) == \E k \in Keys : Sets(response[k])
-----------------------------------------------------------------------------
(***************************************************************************)
(* Adjusting one item i as plugin p asks for with act.                     *)
(***************************************************************************)

\* Mutant: anyone may claim what anyone cleared.
claimCleared(owner, p) ==
    IF owner = Unowned \/ owner.cleared THEN OwnedBy(p) ELSE Contested

\* claimCompound, claimSimple: an item is free, or cleared by the claimer itself;
\* a claim by its own owner conflicts too.
claim(owner, p) == IF owner \in {Unowned, ClearedBy(p)} THEN OwnedBy(p) ELSE Contested

Collected(i) == \E e \in DOMAIN i.reply : i.reply[e] # None

\* What is left of the entries in the reply once those of plugins are dropped.
Marks(i) == [m \in 1..Cardinality({e \in DOMAIN i.reply : i.reply[e] = None}) |-> None]

\* Mutant: the loop over the reply lacks the continue for a removed entry.
UnlistedKeeps(i, p) ==
    [i EXCEPT !.owner = IF Collected(i) THEN ClearedBy(p) ELSE @, !.request = None]

\* Mutant: the creation request is not cleared of a removed item.
UnlistedShows(i, p) ==
    [i EXCEPT !.owner = IF Collected(i) THEN ClearedBy(p) ELSE @,
              !.reply = Marks(i)]

\* Removing from a list: the owner is cleared only of an item in the reply.
Unlisted(i, p) ==
    [owner   |-> IF Collected(i) THEN ClearedBy(p) ELSE i.owner,
     reply   |-> Marks(i),
     request |-> None]

Replying(i, entries) == [owner |-> i.owner, reply |-> entries, request |-> i.request]

Appended(i, p) ==
    [owner |-> claim(i.owner, p), reply |-> Append(i.reply, p), request |-> p]

\* Mutant: deletions with no corresponding additions are not added to the reply.
adjustMountsDrops(i, act, p) ==
    LET r == IF Removes(act) THEN Unlisted(i, p) ELSE i
    IN IF Sets(act) THEN Appended(r, p) ELSE r

\* A mount removed and not set again leaves a mark for the runtime in the reply...
adjustMounts(i, act, p) ==
    LET r == IF Removes(act) THEN Unlisted(i, p) ELSE i
    IN IF Sets(act) THEN Appended(r, p)
       ELSE IF act = "remove" THEN Replying(r, Append(r.reply, None)) ELSE r

\* ...a device or an environment variable removed and not set again does not.
adjustDevices(i, act, p) ==
    LET r == IF Removes(act) THEN Unlisted(i, p) ELSE i
    IN IF Sets(act) THEN Appended(r, p) ELSE r

adjustEnv(i, act, p) ==
    LET r == IF Removes(act) THEN Unlisted(i, p) ELSE i
    IN IF Sets(act) THEN Appended(r, p) ELSE r

\* Arguments after an empty one replace those of any other plugin.
adjustArgs(i, act, p) ==
    LET cleared == IF Removes(act) THEN ClearedBy(p) ELSE i.owner
    IN IF Sets(act) THEN [owner |-> claim(cleared, p), reply |-> <<p>>, request |-> p] ELSE i

\* A removal is a claim too; whichever comes second, even in one response, conflicts.
adjustNamespaces(i, act, p) ==
    LET r == IF Removes(act)
             THEN [owner |-> claim(i.owner, p), reply |-> Append(i.reply, None), request |-> None]
             ELSE i
    IN IF Sets(act) THEN Appended(r, p) ELSE r

\* Memory, CPU, unified cgroup..., cgroups path, OOM score, I/O priority, seccomp
\* policy, scheduler and limits: the first plugin to set one is the only one.
adjustResources(i, act, p) == IF Sets(act) THEN Appended(i, p) ELSE i

\* References to CDI devices are not shown to the plugins to come.
adjustCDIDevices(i, act, p) ==
    IF Sets(act) THEN [Appended(i, p) EXCEPT !.request = i.request] ELSE i

\* All lists of hooks have one owner.  A second plugin clears the record and then
\* claims the hooks as "first,second": a conflict, since "second" cleared it, and
\* the error is dropped.
ClaimHooks(owner, p) == IF owner = Unowned THEN OwnedBy(p) ELSE ClearedBy(p)

adjustHooks(i, act, p, any) ==
    LET r == IF Sets(act) THEN Appended(i, p) ELSE i
    IN [r EXCEPT !.owner = IF any THEN ClaimHooks(i.owner, p) ELSE i.owner]

\* The mark of a removed class lasts until a field of it is set, by the same
\* response or another: the other fields then stay as the runtime asked for them.
adjustRdt(i, act, p, any) ==
    LET r == IF Removes(act)
             THEN [owner |-> ClearedBy(p), reply |-> <<None>>, request |-> i.request]
             ELSE i
    IN IF Sets(act) THEN [owner |-> claim(r.owner, p), reply |-> <<p>>, request |-> i.request]
       ELSE Replying(r, IF any /\ ~Collected(r) THEN <<>> ELSE r.reply)

\* A map has at most one removal mark and one setting per key.
Entries(marked, setting) ==
    (IF marked THEN <<None>> ELSE <<>>) \o (IF setting = None THEN <<>> ELSE <<setting>>)

Marked(i) == \E e \in DOMAIN i.reply : i.reply[e] = None
Setting(i) == IF Collected(i) THEN i.reply[Len(i.reply)] ELSE None

\* Clears, claims and deletes only if the key is set again; a mere removal adds
\* its mark to the reply, next to what another plugin may have set there.
adjustAnnotations(i, act, p) ==
    CASE act = "keep" -> i
      [] act = "remove" -> Replying(i, Entries(TRUE, Setting(i)))
      [] act = "set" ->
            [owner |-> claim(i.owner, p), reply |-> Entries(Marked(i), p), request |-> p]
      [] act = "replace" ->
            [owner |-> claim(ClearedBy(p), p), reply |-> Entries(TRUE, p), request |-> p]

adjustLinuxNetDevices(i, act, p) == adjustAnnotations(i, act, p)

\* Setting a sysctl panics (Panic below).  A removal leaves its mark among the
\* annotations of the reply, and the sysctl as it is.
adjustSysctl(i, act, p) == i

adjust(i, act, p, any) ==
    CASE kind = "mounts" -> adjustMounts(i, act, p)
      [] kind = "devices" -> adjustDevices(i, act, p)
      [] kind = "env" -> adjustEnv(i, act, p)
      [] kind = "args" -> adjustArgs(i, act, p)
      [] kind = "namespaces" -> adjustNamespaces(i, act, p)
      [] kind \in {"resources", "memory"} -> adjustResources(i, act, p)
      [] kind = "annotations" -> adjustAnnotations(i, act, p)
      [] kind = "netdevices" -> adjustLinuxNetDevices(i, act, p)
      [] kind = "cdi" -> adjustCDIDevices(i, act, p)
      [] kind = "hooks" -> adjustHooks(i, act, p, any)
      [] kind = "rdt" -> adjustRdt(i, act, p, any)
      [] kind = "sysctl" -> adjustSysctl(i, act, p)

Adjusted(response) ==
    [k \in Keys |-> adjust(item[k], response[k], turn + 1, SetsAny(response))]

Conflict(items) == \E k \in Keys : items[k].owner = Contested

\* The settings an item may end up with: entries of a list are applied in
\* order, those of a map in any order.
AppliedInOrder(entries) == {entries[Len(entries)]}
AppliedAsMap(entries) == {entries[e] : e \in DOMAIN entries}

\* Of memory resources the generator sets the limit, and swap to the same: a plugin's
\* setting of swap or of anything else has no effect, the limit is anybody's.
AppliedAsMemory(setting) == {setting} \cup Plugins

Generated(k) ==
    LET entries == item[k].reply
    IN IF kind \in Dropped THEN AppliedAsMemory(given[k])
       ELSE IF entries = <<>> THEN {given[k]}
       ELSE IF kind \in Mapped THEN AppliedAsMap(entries) ELSE AppliedInOrder(entries)
-----------------------------------------------------------------------------
Init ==
    /\ kind \in Kinds
    /\ given \in [Keys -> {Runtime, None}]
    /\ item = [k \in Keys |-> [owner |-> Unowned, reply |-> <<>>, request |-> given[k]]]
    /\ turn = 0
    /\ asked = [p \in Plugins |-> [k \in Keys |-> "keep"]]
    /\ status = "merging"
    /\ created = given

Responds(response) ==
    /\ status = "merging"
    /\ turn < N
    /\ turn' = turn + 1
    /\ asked' = [asked EXCEPT ![turn + 1] = response]
    /\ UNCHANGED <<kind, given, created>>

\* The reply has no map of sysctls to write to.
Panics(response) == kind = "sysctl" /\ SetsAny(response)

\* The response of the next plugin is merged...
Apply(response) ==
    /\ Responds(response)
    /\ ~Panics(response)
    /\ ~Conflict(Adjusted(response))
    /\ item' = Adjusted(response)
    /\ UNCHANGED status

\* ...or conflicts with an earlier one, and the creation fails.
Refuse(response) ==
    /\ Responds(response)
    /\ Conflict(Adjusted(response))
    /\ status' = "failed"
    /\ UNCHANGED item

Panic(response) ==
    /\ Responds(response)
    /\ Panics(response)
    /\ status' = "panicked"
    /\ UNCHANGED item

\* The runtime applies the merged adjustment to the container's OCI Spec.
Generate ==
    /\ status = "merging"
    /\ turn = N
    /\ created' \in [Keys -> Settings]
    /\ \A k \in Keys : created'[k] \in Generated(k)
    /\ status' = "created"
    /\ UNCHANGED <<kind, given, item, turn, asked>>

Next ==
    \/ \E response \in Responses : Apply(response) \/ Refuse(response) \/ Panic(response)
    \/ Generate

Spec == Init /\ [][Next]_vars
-----------------------------------------------------------------------------
(***************************************************************************)
(* Properties.                                                             *)
(***************************************************************************)

\* Every variable has its type; a contested item is never merged.
TypeOK ==
    /\ kind \in Kinds
    /\ given \in [Keys -> {Runtime, None}]
    /\ item \in [Keys -> Item]
    /\ turn \in 0..N
    /\ asked \in [Plugins -> [Keys -> Acts]]
    /\ status \in {"merging", "failed", "panicked", "created"}
    /\ created \in [Keys -> Settings]

\* The plugin whose setting is in the reply is the recorded owner of the item:
\* the conflict check and the validators, which go by the recorded owners
\* (claimCompound, clearCompound), are never wrong about who set it.  Hooks, of
\* which every plugin may add some, are the exception (ClaimHooks).
OwnersMatchReply ==
    kind # "hooks" => \A k \in Keys : \A e \in DOMAIN item[k].reply :
        LET p == item[k].reply[e]
        IN p # None => item[k].owner = OwnedBy(p)

\* If two plugins set the same item and the creation did not fail, the later
\* one removed the item first: an unintentional conflict is always an error
\* (IsCompoundConflict), whatever was asked for in between.
NoSilentOverride ==
    status \in {"merging", "created"} /\ kind # "hooks" =>
        \A p, q \in Plugins, k \in Keys :
            p < q /\ Sets(asked[p][k]) /\ Sets(asked[q][k]) => asked[q][k] = "replace"

\* Seen from outside, merging is the simple system of module Ownership: no setting
\* is lost to a plugin that did not ask for its removal, each is the property of
\* the one who made it, and a creation is refused only over an item that was asked
\* for before (claimSimple, claimCompound, the clear functions and the adjust
\* functions that call them).  Hooks belong to everybody; the mere removal of an
\* entry of a map leaves the setting in the reply; and to set a namespace that one
\* removes is to claim it twice.
Wish(act) ==
    CASE kind = "hooks" -> "keep"
      [] kind \in {"annotations", "netdevices"} /\ act = "remove" -> "keep"
      [] kind = "namespaces" /\ act = "replace" -> "twice"
      [] OTHER -> act

Holder(i) == IF kind # "hooks" /\ Collected(i) THEN i.owner.by ELSE None

Owned == INSTANCE Ownership WITH
           wishes <- [p \in Plugins |-> [k \in Keys |-> Wish(asked[p][k])]],
           holder <- [k \in Keys |-> Holder(item[k])],
           outcome <- status,
           Nobody <- None

ImplementsOwnership == Owned!Spec

\* What the last plugin with something to say about an item asked for.
LastWord(k) ==
    LET speakers == {p \in Plugins : asked[p][k] # "keep"}
    IN IF speakers = {} THEN given[k]
       ELSE LET last == CHOOSE p \in speakers : \A q \in speakers : q <= p
            IN IF Sets(asked[last][k]) THEN last ELSE None

\* The created container has what the last plugin to touch an item asked for.
LastWordWins == status = "created" => \A k \in Keys : created[k] = LastWord(k)

\* The kinds whose settings and removals all reach the Spec, in the order made.
InOrder == {"mounts", "args", "namespaces", "resources"}

\* Of a list that is not dropped, the created container has what the last plugin to
\* touch an item asked for, if that was to set it or if marks of removals reach the
\* runtime: the reply loses neither although it is collected apart from the
\* container shown to plugins (adjustMounts, adjustRdt).
OrderedLastWordWins ==
    status = "created" /\ kind \in Listed \ Dropped =>
        \A k \in Keys : kind \in InOrder \/ LastWord(k) \in Plugins => created[k] = LastWord(k)

\* Of a kind of which everything reaches the Spec, a plugin is shown the
\* container exactly as it would be created if no later plugin asked for
\* anything: the two copies kept by adjustMounts, create.Container and
\* reply.adjust, never diverge.
PluginsSeeOutcome ==
    kind \in InOrder /\ status = "merging" =>
        \A k \in Keys : Generated(k) = {item[k].request}

\* No response makes the runtime panic: SetLinuxSysctl (adjustment.go:355) does.
RuntimeSurvives == status # "panicked"
=============================================================================
