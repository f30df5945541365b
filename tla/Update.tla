------------------------------- MODULE Update -------------------------------
(***************************************************************************)
(* Collecting the container updates that plugins 1..N, in this order, ask  *)
(* for in response to the creation, update or stopping of a container, the *)
(* target.  A response is a list of updates, here taken one by one.  An    *)
(* update sets some of the resources of one container; what matters of a   *)
(* value is whose it is.  If the plugin allows it, an update that fails is *)
(* skipped; otherwise it fails the request.                                *)
(***************************************************************************)
EXTENDS Naturals, Sequences, FiniteSets

CONSTANTS
    N,          \* number of plugins
    Containers, \* container ids
    Target,     \* the container created, updated or stopped
    F,          \* resources 1..F, in the order they are claimed in
    Requests,   \* the resources the runtime may ask an update of
    SetsOf,     \* the sets of resources an update may set
    Listed,     \* the resources given as a list (hugepage limits, by size)
    MaxUpdates, \* bound on the updates in all responses together
    Runtime,    \* whose the values are that the runtime asked for
    None        \* no value, no owner, no update

Plugins == 1..N
Resources == 1..F
Pids == F  \* the pids limit is claimed last
Settings == Plugins \cup {Runtime, None}

\* The collected update of a container.
Collected == [resources : [Resources -> Settings], ignoreFailure : BOOLEAN]

ASSUME ConstantsAssumption ==
    /\ N \in Nat /\ F \in Nat \ {0} /\ MaxUpdates \in Nat
    /\ Target \in Containers
    /\ Requests \subseteq SUBSET Resources /\ SetsOf \subseteq SUBSET Resources
    /\ Listed \subseteq Resources \ {Pids}
    /\ None \notin Containers
    /\ Runtime # None /\ Runtime \notin Plugins /\ None \notin Plugins
    /\ None \notin Collected

\* An update without linux resources sets nothing and changes nothing.  Its list may
\* have a resource twice: again is the one after which an earlier one follows once
\* more, 0 if none does.
ContainerUpdate ==
    {u \in [container : Containers, linux : BOOLEAN, sets : SetsOf \cup {{}},
            again : Listed \cup {0}, ignoreFailure : BOOLEAN] :
        (~u.linux => u.sets = {}) /\ u.again \in u.sets \cup {0}}

VARIABLES
    op,      \* what the runtime asked for: "create", "update" or "stop"
    request, \* the resources of an "update" request, as shown to plugins
    owner,   \* the plugin that claimed a resource of a container
    updates, \* the update collected for a container
    reply,   \* the containers of the updates in the reply, in order
    turn,    \* the plugin whose response is applied
    log,     \* the updates asked for so far and what became of them
    status   \* of the request

vars == <<op, request, owner, updates, reply, turn, log, status>>

Nothing == [f \in Resources |-> None]
-----------------------------------------------------------------------------
\* Mutant: an update collected before stays ignorable if it once was.
EntryIgnorable(u) ==
    IF updates[u.container] = None
    THEN [resources |-> Nothing, ignoreFailure |-> u.ignoreFailure]
    ELSE updates[u.container]

\* getContainerUpdate: the update collected for the container, which may fail
\* only if all who asked for it agree.
Entry(u) ==
    IF updates[u.container] = None
    THEN [resources |-> Nothing, ignoreFailure |-> u.ignoreFailure]
    ELSE [updates[u.container] EXCEPT !.ignoreFailure = @ /\ u.ignoreFailure]

\* Mutant: also the update of the target is appended at once.
InReplyAlways(u) ==
    IF updates[u.container] = None THEN Append(reply, u.container) ELSE reply

\* The update of the container to update is only added to the final response.
InReply(u) ==
    IF updates[u.container] = None /\ ~(op = "update" /\ u.container = Target)
    THEN Append(reply, u.container)
    ELSE reply

\* updateResources works on a copy of what the container is to be updated to.
Requested(u) == op = "update" /\ u.container = Target
Copy(u) == IF Requested(u) THEN request ELSE Entry(u).resources

\* The pids limit is claimed if there is one in the copy, not in the update.
Attempted(u) ==
    (u.sets \ {Pids}) \cup (IF u.linux /\ Copy(u)[Pids] # None THEN {Pids} ELSE {})

\* Mutant: the owners are looked up for the container the request is about.
ContestedOfTarget(u) == {f \in Attempted(u) : owner[Target][f] # None}

\* Claimed before, by this or another plugin.
Contested(u) == {f \in Attempted(u) : owner[u.container][f] # None}

\* A resource that is listed twice conflicts with the update's own claim.
Conflicts(u) == Contested(u) # {} \/ u.again # 0

\* Resources are claimed one after another, up to the first conflict.
Claimed(u) ==
    {f \in Attempted(u) : (\A g \in Contested(u) : f < g) /\ (u.again # 0 => f <= u.again)}

Claims(u) ==
    [owner EXCEPT ![u.container] = [f \in Resources |-> IF f \in Claimed(u) THEN turn ELSE @[f]]]

Updated(u) == [f \in Resources |-> IF f \in u.sets \ {Pids} THEN turn ELSE Copy(u)[f]]

\* Nobody may update the container that is being created.
UnderCreation(u) == op = "create" /\ u.container = Target

\* What updateContainerResponse, and the likes for the other requests, return.  If no
\* plugin asked to update the target, its update is nil.
Response ==
    IF op = "update" THEN Append(reply, IF updates[Target] = None THEN None ELSE Target)
    ELSE reply
-----------------------------------------------------------------------------
Init ==
    /\ op \in {"create", "update", "stop"}
    /\ IF op = "update"
       THEN \E asked \in Requests :
                request = [f \in Resources |-> IF f \in asked THEN Runtime ELSE None]
       ELSE request = Nothing
    /\ owner = [c \in Containers |-> Nothing]
    /\ updates = [c \in Containers |-> None]
    /\ reply = <<>>
    /\ turn = 1
    /\ log = <<>>
    /\ status = "merging"

\* The next update u in the response of the plugin whose turn it is.
Take(u, outcome) ==
    /\ status = "merging"
    /\ turn <= N
    /\ Len(log) < MaxUpdates
    /\ log' = Append(log, [by |-> turn, update |-> u, outcome |-> outcome])
    /\ UNCHANGED <<op, turn>>

\* Mutant: the reply is updated from the copy but the request is not.
MergeUnseen(u) ==
    /\ Take(u, "merged")
    /\ ~UnderCreation(u)
    /\ ~Conflicts(u)
    /\ owner' = Claims(u)
    /\ updates' = [updates EXCEPT ![u.container] =
                      IF u.linux THEN [Entry(u) EXCEPT !.resources = Updated(u)] ELSE Entry(u)]
    /\ reply' = InReply(u)
    /\ UNCHANGED <<request, status>>

Merge(u) ==
    /\ Take(u, "merged")
    /\ ~UnderCreation(u)
    /\ ~Conflicts(u)
    /\ owner' = Claims(u)
    /\ updates' = [updates EXCEPT ![u.container] =
                      IF u.linux THEN [Entry(u) EXCEPT !.resources = Updated(u)] ELSE Entry(u)]
    /\ reply' = InReply(u)
    /\ request' = IF u.linux /\ Requested(u) THEN Updated(u) ELSE request
    /\ UNCHANGED status

\* updateResources fails: earlier claims, and the entry, are not taken back.
Ignore(u) ==
    /\ Take(u, "ignored")
    /\ ~UnderCreation(u)
    /\ Conflicts(u)
    /\ u.ignoreFailure
    /\ owner' = Claims(u)
    /\ updates' = [updates EXCEPT ![u.container] = Entry(u)]
    /\ reply' = InReply(u)
    /\ UNCHANGED <<request, status>>

Fail(u) ==
    /\ Take(u, "failed")
    /\ \/ UnderCreation(u) /\ UNCHANGED <<owner, updates, reply>>
       \/ /\ ~UnderCreation(u)
          /\ Conflicts(u)
          /\ ~u.ignoreFailure
          /\ owner' = Claims(u)
          /\ updates' = [updates EXCEPT ![u.container] = Entry(u)]
          /\ reply' = InReply(u)
    /\ status' = "failed"
    /\ UNCHANGED request

NextPlugin ==
    /\ status = "merging"
    /\ turn <= N
    /\ turn' = turn + 1
    /\ status' = IF turn = N THEN "responded" ELSE "merging"
    /\ UNCHANGED <<op, request, owner, updates, reply, log>>

Next ==
    \/ \E u \in ContainerUpdate : Merge(u) \/ Ignore(u) \/ Fail(u)
    \/ NextPlugin

Spec == Init /\ [][Next]_vars
-----------------------------------------------------------------------------
(***************************************************************************)
(* Properties.                                                             *)
(***************************************************************************)

\* Every variable has its type.
TypeOK ==
    /\ op \in {"create", "update", "stop"}
    /\ request \in [Resources -> Settings]
    /\ owner \in [Containers -> [Resources -> Plugins \cup {None}]]
    /\ updates \in [Containers -> Collected \cup {None}]
    /\ reply \in Seq(Containers)
    /\ turn \in 1..(N + 1)
    /\ log \in Seq([by : Plugins, update : ContainerUpdate,
                    outcome : {"merged", "ignored", "failed"}])
    /\ status \in {"merging", "failed", "responded"}

Entries == {log[n] : n \in DOMAIN log}
Merged == {e \in Entries : e.outcome = "merged"}

\* Whatever is merged stays: no other plugin, nor an update of the same plugin,
\* replaces a value that updateResources accepted, and plugins asked later see
\* it in the request.  (The pids limit is not among what it accepts.)
MergedUpdatesTakeEffect ==
    \A e \in Merged : \A f \in e.update.sets \ {Pids} :
        /\ updates[e.update.container].resources[f] = e.by
        /\ Requested(e.update) => request[f] = e.by

AllKept == updates[Target].resources = request

\* Once resources of the container to update were merged, what the response has for
\* it is what plugins are shown in the request, the runtime's own values for
\* resources no plugin set included: the two copies updateResources stores
\* never diverge, whatever fails and is ignored, and no requested value is lost.
RequestKept ==
    op = "update" /\ (\E e \in Merged : e.update.container = Target /\ e.update.linux) =>
        AllKept

\* The same of every update in the response.  It fails if the only updates of the
\* container to update set nothing, or failed and were ignored: their entry is empty
\* although the runtime asked for values, and it goes into the response.
RequestNeverLost == op = "update" /\ updates[Target] # None => AllKept

\* An update in the response may fail only if everyone who asked for an update
\* of that container, ignored ones included, said so (getContainerUpdate).
MandatoryStaysMandatory ==
    \A c \in Containers : updates[c] # None /\ status # "failed" =>
        (updates[c].ignoreFailure <=>
            \A e \in Entries : e.update.container = c => e.update.ignoreFailure)

\* The response has an update of every container that some plugin asked to update,
\* be it one that failed and was ignored, exactly once, and of no other container.
RespondedOnce ==
    status # "failed" =>
        \A c \in Containers :
            Cardinality({n \in DOMAIN Response : Response[n] = c}) =
                IF \E e \in Entries : e.update.container = c THEN 1 ELSE 0

\* A request fails only over a value that was merged, the creation of the container,
\* or a resource listed twice: an update that failed and was ignored "will not prevent the
\* related container operation from succeeding" (SetIgnoreFailure).
IgnoredFailuresHarmless ==
    status = "failed" =>
        LET u == log[Len(log)].update
        IN \/ UnderCreation(u) \/ u.again # 0
           \/ \E e \in Merged : e.update.container = u.container /\ e.update.sets \cap u.sets # {}
=============================================================================
