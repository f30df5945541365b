---------------------------- MODULE UpdateProofs ----------------------------
(***************************************************************************)
(* What becomes of the updates that plugins ask for, whatever the number   *)
(* of plugins, containers, resources and updates.  A resource is claimed   *)
(* for good, so a value that was merged is never looked at again; and once *)
(* a container has an entry among the updates, everything goes there.      *)
(***************************************************************************)
EXTENDS Update, FiniteSetTheorems, TLAPS

\* Who has claimed a resource of a container has left an entry for it.
ClaimsHaveEntries ==
    \A c \in Containers : \A f \in Resources : owner[c][f] # None => updates[c] # None

\* What was merged is claimed.
MergedAreClaimed ==
    \A e \in Merged : \A f \in e.update.sets \ {Pids} :
        owner[e.update.container][f] # None

\* Whoever asked for an update left an entry, or failed the request.
AskedHaveEntries ==
    status # "failed" => \A e \in Entries : updates[e.update.container] # None

\* Nobody else has an entry.
EntriesAsked ==
    \A c \in Containers : updates[c] # None => \E e \in Entries : e.update.container = c

UpdateInv ==
    /\ TypeOK /\ ClaimsHaveEntries /\ MergedAreClaimed /\ AskedHaveEntries
    /\ EntriesAsked
    /\ MergedUpdatesTakeEffect /\ RequestKept /\ MandatoryStaysMandatory
\* The reply has the containers with an entry, once each, but for the container
\* to update.
ReplyInv ==
    /\ \A m, n \in DOMAIN reply : reply[m] = reply[n] => m = n
    /\ \A c \in Containers :
          (\E n \in DOMAIN reply : reply[n] = c) <=>
              updates[c] # None /\ ~(op = "update" /\ c = Target)

-----------------------------------------------------------------------------
(***************************************************************************)
(* The operators.                                                          *)
(***************************************************************************)

\* What a step computes has its type.
LEMMA OperatorTypes ==
    ASSUME TypeOK, NEW u \in ContainerUpdate, turn \in Plugins
    PROVE  /\ u.container \in Containers /\ u.sets \subseteq Resources /\ u.ignoreFailure \in BOOLEAN
           /\ u.linux \in BOOLEAN /\ (~u.linux => u.sets = {})
           /\ Pids \in Resources
           /\ Entry(u) \in Collected
           /\ Copy(u) \in [Resources -> Settings]
           /\ Updated(u) \in [Resources -> Settings]
           /\ Attempted(u) \subseteq Resources
           /\ Claims(u) \in [Containers -> [Resources -> Plugins \cup {None}]]
           /\ InReply(u) \in Seq(Containers)
<1>1. /\ u.container \in Containers /\ u.sets \subseteq Resources /\ u.ignoreFailure \in BOOLEAN
      /\ u.linux \in BOOLEAN /\ (~u.linux => u.sets = {})
  BY ConstantsAssumption DEF ContainerUpdate
<1>2. Pids \in Resources
  BY ConstantsAssumption DEF Pids, Resources
<1>3. Nothing \in [Resources -> Settings]
  BY DEF Nothing, Settings
<1>4. Entry(u) \in Collected
  BY <1>1, <1>3 DEF Entry, TypeOK, Collected
<1>5. Copy(u) \in [Resources -> Settings]
  BY <1>4 DEF Copy, TypeOK, Collected
<1>6. Updated(u) \in [Resources -> Settings]
  BY <1>5 DEF Updated, Settings
<1>7. Attempted(u) \subseteq Resources
  BY <1>1, <1>2 DEF Attempted
<1>8. Claims(u) \in [Containers -> [Resources -> Plugins \cup {None}]]
  BY <1>1 DEF Claims, TypeOK
<1>9. InReply(u) \in Seq(Containers)
  BY <1>1 DEF InReply, TypeOK
<1> QED BY <1>1, <1>2, <1>4, <1>5, <1>6, <1>7, <1>8, <1>9

\* Claims are only ever added, of resources that the update attempts and, as far
\* as it is successful, of all of them.
LEMMA ClaimsGrow ==
    ASSUME TypeOK, NEW u \in ContainerUpdate, turn \in Plugins
    PROVE  /\ \A c \in Containers : \A f \in Resources :
                owner[c][f] # None => Claims(u)[c][f] # None
           /\ \A c \in Containers \ {u.container} : Claims(u)[c] = owner[c]
           /\ ~Conflicts(u) =>
                \A f \in Attempted(u) : Claims(u)[u.container][f] # None
           /\ Attempted(u) = {} => Claims(u) = owner
<1>1. turn # None
  BY ConstantsAssumption
<1>2. \A c \in Containers \ {u.container} : Claims(u)[c] = owner[c]
  BY DEF Claims, TypeOK
<1>3. u.container \in Containers
  BY OperatorTypes
<1>4. \A f \in Resources :
        Claims(u)[u.container][f] = IF f \in Claimed(u) THEN turn ELSE owner[u.container][f]
  BY <1>3 DEF Claims, TypeOK
<1>5. ~Conflicts(u) => \A f \in Attempted(u) : f \in Claimed(u)
  BY DEF Claimed, Conflicts
<1>6. Attempted(u) \subseteq Resources
  BY OperatorTypes
<1>7. ASSUME Attempted(u) = {}
      PROVE  Claims(u) = owner
  <2>1. Claimed(u) = {}
    BY <1>7 DEF Claimed
  <2>2. [f \in Resources |-> owner[u.container][f]] = owner[u.container]
    BY <1>3 DEF TypeOK
  <2> QED BY <2>1, <2>2 DEF Claims, TypeOK
<1> QED BY <1>1, <1>2, <1>3, <1>4, <1>5, <1>6, <1>7

\* The log gets an entry.
LEMMA Logged ==
    ASSUME TypeOK, NEW u \in ContainerUpdate, NEW o \in {"merged", "ignored", "failed"}, Take(u, o)
    PROVE  /\ turn \in Plugins /\ turn' = turn /\ op' = op /\ status = "merging"
           /\ log' \in Seq([by : Plugins, update : ContainerUpdate,
                            outcome : {"merged", "ignored", "failed"}])
           /\ Entries' = Entries \cup {[by |-> turn, update |-> u, outcome |-> o]}
<1> DEFINE x == [by |-> turn, update |-> u, outcome |-> o]
           Event == [by : Plugins, update : ContainerUpdate, outcome : {"merged", "ignored", "failed"}]
<1>1. turn \in Plugins /\ turn' = turn /\ op' = op /\ status = "merging" /\ log' = Append(log, x)
  BY ConstantsAssumption DEF Take, TypeOK, Plugins
<1>2. x \in Event /\ log \in Seq(Event)
  BY <1>1 DEF TypeOK
<1> HIDE DEF x, Event
<1>3. /\ log' \in Seq(Event) /\ Len(log) \in Nat /\ DOMAIN log = 1..Len(log)
      /\ DOMAIN log' = 1..(Len(log) + 1)
      /\ log'[Len(log) + 1] = x /\ \A n \in 1..Len(log) : log'[n] = log[n]
  BY <1>1, <1>2
<1>4. DOMAIN log' = DOMAIN log \cup {Len(log) + 1}
  BY <1>3
<1>5. Entries' = Entries \cup {x}
  BY <1>3, <1>4, Zenon DEF Entries
<1> QED BY <1>1, <1>3, <1>5 DEF x, Event
\* The log is of updates that plugins can ask for.
LEMMA LogHasUpdates ==
    ASSUME TypeOK
    PROVE  \A e \in Entries : e.update \in ContainerUpdate
<1> DEFINE Event == [by : Plugins, update : ContainerUpdate, outcome : {"merged", "ignored", "failed"}]
<1>1. \A e \in Event : e.update \in ContainerUpdate
  OBVIOUS
<1>2. log \in Seq(Event)
  BY DEF TypeOK
<1> HIDE DEF Event
<1>3. \A n \in DOMAIN log : log[n] \in Event
  BY <1>2
<1> QED BY <1>1, <1>3 DEF Entries
-----------------------------------------------------------------------------
LEMMA InitUpdateInv == Init => UpdateInv
<1> SUFFICES ASSUME Init PROVE UpdateInv
  OBVIOUS
<1>1. Entries = {} /\ Merged = {}
  BY DEF Init, Entries, Merged
<1>2. TypeOK
  <2>1. request \in [Resources -> Settings]
    BY ConstantsAssumption DEF Init, Nothing, Settings
  <2>2. Nothing \in [Resources -> Plugins \cup {None}]
    BY DEF Nothing
  <2>3. turn \in 1..(N + 1)
    BY ConstantsAssumption DEF Init
  <2> QED BY <2>1, <2>2, <2>3 DEF Init, TypeOK
<1>3. \A c \in Containers : \A f \in Resources : owner[c][f] = None
  BY DEF Init, Nothing
<1>4. \A c \in Containers : updates[c] = None
  BY DEF Init
<1>5. ClaimsHaveEntries /\ RequestKept /\ EntriesAsked
  BY <1>1, <1>3, <1>4, ConstantsAssumption DEF ClaimsHaveEntries, RequestKept, EntriesAsked
<1>6. MergedAreClaimed /\ AskedHaveEntries /\ MergedUpdatesTakeEffect /\ MandatoryStaysMandatory
  BY <1>1, <1>4 DEF MergedAreClaimed, AskedHaveEntries, MergedUpdatesTakeEffect, MandatoryStaysMandatory
<1> QED BY <1>2, <1>5, <1>6 DEF UpdateInv
-----------------------------------------------------------------------------
(***************************************************************************)
(* An update u that is merged or fails, and leaves entry v.                *)
(***************************************************************************)
\* The entry says who must not be ignored.
LEMMA CollectKeeps ==
    ASSUME UpdateInv, NEW u \in ContainerUpdate,
           NEW o \in {"merged", "ignored", "failed"}, Take(u, o),
           NEW v \in Collected, v.ignoreFailure = Entry(u).ignoreFailure,
           updates' = [updates EXCEPT ![u.container] = v], owner' = Claims(u)
    PROVE  ClaimsHaveEntries' /\ AskedHaveEntries' /\ EntriesAsked' /\ MandatoryStaysMandatory'
<1> DEFINE x == [by |-> turn, update |-> u, outcome |-> o]
<1>0. TypeOK
  BY DEF UpdateInv
<1>1. /\ turn \in Plugins /\ status = "merging" /\ Entries' = Entries \cup {x}
      /\ u.container \in Containers /\ u.ignoreFailure \in BOOLEAN
  BY <1>0, Logged, OperatorTypes
<1>2. /\ updates'[u.container] = v /\ v # None /\ v.ignoreFailure \in BOOLEAN
      /\ \A c \in Containers \ {u.container} : updates'[c] = updates[c]
  BY <1>0, <1>1, ConstantsAssumption DEF TypeOK, Collected
<1>3. ClaimsHaveEntries'
  <2>1. ASSUME NEW c \in Containers, NEW f \in Resources, Claims(u)[c][f] # None
        PROVE  updates'[c] # None
    <3>1. CASE c = u.container
      BY <1>2, <3>1
    <3>2. CASE c # u.container
      <4>1. owner[c][f] # None
        BY <1>0, <1>1, <2>1, <3>2, ClaimsGrow
      <4> QED BY <1>2, <3>2, <4>1 DEF UpdateInv, ClaimsHaveEntries
    <3> QED BY <3>1, <3>2
  <2> QED BY <2>1 DEF ClaimsHaveEntries
<1>4. \A e \in Entries : updates[e.update.container] # None /\ e.update.container \in Containers
                         /\ e.update.ignoreFailure \in BOOLEAN
  <2>1. \A e \in Entries : e.update \in ContainerUpdate
    BY <1>0, LogHasUpdates
  <2> QED BY <1>1, <2>1 DEF UpdateInv, AskedHaveEntries, ContainerUpdate
<1>5. x.update = u
  OBVIOUS
<1> HIDE DEF x
<1>6. AskedHaveEntries'
  <2>1. ASSUME NEW e \in Entries'
        PROVE  updates'[e.update.container] # None
    BY <1>1, <1>2, <1>4, <1>5, <2>1
  <2> QED BY <2>1 DEF AskedHaveEntries
<1>7. EntriesAsked'
  BY <1>1, <1>2, <1>5 DEF UpdateInv, EntriesAsked
<1>8. MandatoryStaysMandatory'
  <2>1. ASSUME NEW c \in Containers, updates'[c] # None
        PROVE  updates'[c].ignoreFailure <=>
                  \A e \in Entries' : e.update.container = c => e.update.ignoreFailure
    <3>1. CASE c # u.container
      <4>1. updates'[c] = updates[c]
        BY <1>2, <3>1
      <4>2. updates[c].ignoreFailure <=>
                \A e \in Entries : e.update.container = c => e.update.ignoreFailure
        BY <1>1, <2>1, <4>1 DEF UpdateInv, MandatoryStaysMandatory
      <4> QED BY <1>1, <1>5, <3>1, <4>1, <4>2
    <3>2. CASE c = u.container /\ updates[c] = None
      <4>1. v.ignoreFailure = u.ignoreFailure
        BY <3>2 DEF Entry
      <4>2. \A e \in Entries : e.update.container # c
        BY <1>4, <3>2
      <4> QED BY <1>1, <1>2, <1>5, <3>2, <4>1, <4>2
    <3>3. CASE c = u.container /\ updates[c] # None
      <4>1. v.ignoreFailure = (updates[c].ignoreFailure /\ u.ignoreFailure)
        BY <1>0, <3>3 DEF Entry, TypeOK, Collected
      <4>2. updates[c].ignoreFailure <=>
                \A e \in Entries : e.update.container = c => e.update.ignoreFailure
        BY <1>1, <3>3 DEF UpdateInv, MandatoryStaysMandatory
      <4>3. (\A e \in Entries' : e.update.container = c => e.update.ignoreFailure) <=>
                updates[c].ignoreFailure /\ u.ignoreFailure
        BY <1>1, <1>5, <3>3, <4>2
      <4> QED BY <1>2, <3>3, <4>1, <4>3
    <3> QED BY <3>1, <3>2, <3>3
  <2> QED BY <2>1 DEF MandatoryStaysMandatory
<1> QED BY <1>3, <1>6, <1>7, <1>8

\* An update that is merged finds its resources free.
LEMMA MergeKeeps ==
    ASSUME UpdateInv, NEW u \in ContainerUpdate, Merge(u)
    PROVE  UpdateInv'
<1> DEFINE x == [by |-> turn, update |-> u, outcome |-> "merged"]
           v == IF u.linux THEN [Entry(u) EXCEPT !.resources = Updated(u)] ELSE Entry(u)
           c == u.container
<1>0. TypeOK /\ Take(u, "merged") /\ ~Conflicts(u) /\ Contested(u) = {}
  BY DEF UpdateInv, Merge, Conflicts
<1>1. /\ turn \in Plugins /\ turn' = turn /\ op' = op
      /\ log' \in Seq([by : Plugins, update : ContainerUpdate,
                         outcome : {"merged", "ignored", "failed"}])
      /\ Entries' = Entries \cup {x}
  BY <1>0, Logged
<1>2. /\ c \in Containers /\ u.sets \subseteq Resources /\ (~u.linux => u.sets = {})
      /\ Entry(u) \in Collected /\ Updated(u) \in [Resources -> Settings]
      /\ Claims(u) \in [Containers -> [Resources -> Plugins \cup {None}]]
      /\ InReply(u) \in Seq(Containers)
  BY <1>0, <1>1, OperatorTypes
<1>3. /\ v \in Collected /\ v.ignoreFailure = Entry(u).ignoreFailure
      /\ v.resources = IF u.linux THEN Updated(u) ELSE Entry(u).resources
  BY <1>2 DEF Collected
<1>4. /\ owner' = Claims(u) /\ updates' = [updates EXCEPT ![c] = v] /\ status' = status
      /\ request' = IF u.linux /\ Requested(u) THEN Updated(u) ELSE request
      /\ reply' = InReply(u)
  BY DEF Merge
<1> HIDE DEF v
<1>5. TypeOK'
  <2>1. updates' \in [Containers -> Collected \cup {None}]
    BY <1>0, <1>2, <1>3, <1>4 DEF TypeOK
  <2>2. request' \in [Resources -> Settings]
    BY <1>0, <1>2, <1>4 DEF TypeOK
  <2> QED BY <1>0, <1>1, <1>2, <1>4, <2>1, <2>2 DEF TypeOK
<1>6. ClaimsHaveEntries' /\ AskedHaveEntries' /\ EntriesAsked' /\ MandatoryStaysMandatory'
  BY <1>0, <1>3, <1>4, CollectKeeps
<1>7. updates'[c] = v /\ \A d \in Containers \ {c} : updates'[d] = updates[d]
  BY <1>0, <1>2, <1>4 DEF TypeOK
<1>8. Merged' = Merged \cup {x} /\ x.update = u /\ x.by = turn
  BY <1>1 DEF Merged
<1>9. \A e \in Merged : e.update \in ContainerUpdate
  BY <1>0, LogHasUpdates DEF Merged
<1>10. \A e \in Merged : e.update.container \in Containers /\ e.update.sets \subseteq Resources
  BY <1>9, ConstantsAssumption DEF ContainerUpdate
<1> HIDE DEF x
<1>11. MergedAreClaimed'
  <2>1. ASSUME NEW e \in Merged, NEW f \in e.update.sets \ {Pids}
        PROVE  owner'[e.update.container][f] # None
    <3>1. owner[e.update.container][f] # None
      BY DEF UpdateInv, MergedAreClaimed
    <3> QED BY <1>0, <1>1, <1>4, <1>10, <3>1, ClaimsGrow
  <2>2. \A f \in u.sets \ {Pids} : owner'[c][f] # None
    BY <1>0, <1>1, <1>4, ClaimsGrow DEF Attempted
  <2> QED BY <1>8, <2>1, <2>2 DEF MergedAreClaimed
<1>12. MergedUpdatesTakeEffect'
  <2>1. ASSUME NEW e \in Merged, NEW f \in e.update.sets \ {Pids}
        PROVE  /\ updates'[e.update.container].resources[f] = e.by
               /\ Requested(e.update)' => request'[f] = e.by
    <3>1. /\ updates[e.update.container].resources[f] = e.by
          /\ Requested(e.update) => request[f] = e.by
      BY DEF UpdateInv, MergedUpdatesTakeEffect
    <3>2. f \in Resources /\ owner[e.update.container][f] # None
      BY <1>10 DEF UpdateInv, MergedAreClaimed
    <3>3. CASE e.update.container # c
      BY <1>1, <1>4, <1>7, <1>10, <3>1, <3>3 DEF Requested
    <3>4. CASE e.update.container = c
      <4>1. f \notin u.sets
        BY <1>0, <3>2, <3>4 DEF Contested, Attempted
      <4>2. Entry(u).resources[f] = e.by
        <5>1. updates[c] # None /\ updates[c] \in Collected
          BY <1>0, <1>2, <3>2, <3>4 DEF UpdateInv, ClaimsHaveEntries, TypeOK
        <5> QED BY <3>1, <3>4, <5>1 DEF Entry, Collected
      <4>3. Requested(u) = Requested(e.update) /\ Requested(e.update)' = Requested(e.update)
        BY <1>1, <3>4 DEF Requested
      <4>4. Updated(u)[f] = e.by
        BY <3>1, <3>2, <4>1, <4>2, <4>3 DEF Updated, Copy
      <4> QED BY <1>3, <1>4, <1>7, <3>1, <3>4, <4>2, <4>3, <4>4
    <3> QED BY <3>3, <3>4
  <2>2. ASSUME NEW f \in u.sets \ {Pids}
        PROVE  updates'[c].resources[f] = turn /\ (Requested(u)' => request'[f] = turn)
    BY <1>1, <1>2, <1>3, <1>4, <1>7 DEF Updated, Requested
  <2> QED BY <1>8, <2>1, <2>2 DEF MergedUpdatesTakeEffect
<1>13. RequestKept'
  <2>1. SUFFICES ASSUME op = "update",
                        \E e \in Merged' : e.update.container = Target /\ e.update.linux
                 PROVE  updates'[Target].resources = request'
    BY <1>1 DEF RequestKept, AllKept
  <2>2. CASE c = Target /\ u.linux
    BY <1>3, <1>4, <1>7, <2>1, <2>2 DEF Requested
  <2>3. CASE ~(c = Target /\ u.linux)
    <3>1. PICK e \in Merged : e.update.container = Target /\ e.update.linux
      BY <1>8, <2>1, <2>3
    <3>2. updates[Target].resources = request /\ updates[Target] # None
      BY <1>0, <2>1, <3>1 DEF UpdateInv, RequestKept, AllKept, AskedHaveEntries, Take, Merged
    <3>3. request' = request
      BY <1>4, <2>1, <2>3 DEF Requested
    <3>4. CASE c # Target
      BY <1>7, <3>2, <3>3, <3>4, ConstantsAssumption
    <3>5. CASE c = Target
      <4>1. updates[Target] \in Collected
        BY <1>0, <3>2, ConstantsAssumption DEF TypeOK
      <4>2. Entry(u).resources = updates[Target].resources
        BY <3>2, <3>5, <4>1 DEF Entry, Collected
      <4> QED BY <1>3, <1>7, <2>3, <3>2, <3>3, <3>5, <4>2
    <3> QED BY <3>4, <3>5
  <2> QED BY <2>2, <2>3
<1> QED BY <1>5, <1>6, <1>11, <1>12, <1>13 DEF UpdateInv

\* An update that conflicts changes no value.
LEMMA FailKeeps ==
    ASSUME UpdateInv, NEW u \in ContainerUpdate, NEW o \in {"ignored", "failed"}, Take(u, o),
           owner' = Claims(u), updates' = [updates EXCEPT ![u.container] = Entry(u)],
           reply' = InReply(u), request' = request, status' \in {"merging", "failed"}
    PROVE  UpdateInv'
<1> DEFINE x == [by |-> turn, update |-> u, outcome |-> o]
           c == u.container
<1>0. TypeOK
  BY DEF UpdateInv
<1>1. /\ turn \in Plugins /\ turn' = turn /\ op' = op
      /\ log' \in Seq([by : Plugins, update : ContainerUpdate,
                         outcome : {"merged", "ignored", "failed"}])
      /\ Entries' = Entries \cup {x}
  BY <1>0, Logged
<1>2. /\ c \in Containers /\ Entry(u) \in Collected
      /\ Claims(u) \in [Containers -> [Resources -> Plugins \cup {None}]]
      /\ InReply(u) \in Seq(Containers) /\ Attempted(u) \subseteq Resources
  BY <1>0, <1>1, OperatorTypes
<1>3. TypeOK'
  <2>1. updates' \in [Containers -> Collected \cup {None}]
    BY <1>0, <1>2 DEF TypeOK
  <2> QED BY <1>0, <1>1, <1>2, <2>1 DEF TypeOK
<1>4. ClaimsHaveEntries' /\ AskedHaveEntries' /\ EntriesAsked' /\ MandatoryStaysMandatory'
  BY <1>0, <1>2, CollectKeeps
<1>5. updates'[c] = Entry(u) /\ \A d \in Containers \ {c} : updates'[d] = updates[d]
  BY <1>0, <1>2 DEF TypeOK
<1>6. \A d \in Containers : updates[d] # None => updates'[d].resources = updates[d].resources
  <2>1. updates[c] # None => updates[c] \in Collected
    BY <1>0, <1>2 DEF TypeOK
  <2>2. updates[c] # None => Entry(u).resources = updates[c].resources
    BY <2>1 DEF Entry, Collected
  <2> QED BY <1>5, <2>2
<1>7. Merged' = Merged
  BY <1>1 DEF Merged
<1>8. \A e \in Merged : e.update.container \in Containers /\ e.update.sets \subseteq Resources
  BY <1>0, LogHasUpdates, ConstantsAssumption DEF Merged, ContainerUpdate
<1>9. MergedAreClaimed'
  <2>1. \A d \in Containers : \A f \in Resources : owner[d][f] # None => owner'[d][f] # None
    BY <1>0, <1>1, ClaimsGrow
  <2> QED BY <1>7, <1>8, <2>1 DEF UpdateInv, MergedAreClaimed
<1>10. MergedUpdatesTakeEffect'
  <2>1. ASSUME NEW e \in Merged, NEW f \in e.update.sets \ {Pids}
        PROVE  /\ updates'[e.update.container].resources[f] = e.by
               /\ Requested(e.update)' => request'[f] = e.by
    <3>1. /\ updates[e.update.container].resources[f] = e.by
          /\ Requested(e.update) => request[f] = e.by
      BY DEF UpdateInv, MergedUpdatesTakeEffect
    <3>2. updates[e.update.container] # None
      BY <1>8 DEF UpdateInv, MergedAreClaimed, ClaimsHaveEntries
    <3> QED BY <1>1, <1>6, <1>8, <3>1, <3>2 DEF Requested
  <2> QED BY <1>7, <2>1 DEF MergedUpdatesTakeEffect
<1>11. RequestKept'
  <2>1. SUFFICES ASSUME op = "update",
                        \E e \in Merged : e.update.container = Target /\ e.update.linux
                 PROVE  updates'[Target].resources = request
    BY <1>1, <1>7 DEF RequestKept, AllKept
  <2>2. updates[Target].resources = request /\ updates[Target] # None
    BY <2>1 DEF UpdateInv, RequestKept, AllKept, AskedHaveEntries, Take, Merged
  <2> QED BY <1>6, <2>2, ConstantsAssumption
<1> QED BY <1>3, <1>4, <1>9, <1>10, <1>11 DEF UpdateInv

\* Nobody updates the container that is being created.
LEMMA UnderCreationKeeps ==
    ASSUME UpdateInv, NEW u \in ContainerUpdate, Take(u, "failed"), status' = "failed",
           UNCHANGED <<owner, updates, reply, request>>
    PROVE  UpdateInv'
<1>1. /\ turn' = turn /\ op' = op
      /\ log' \in Seq([by : Plugins, update : ContainerUpdate,
                         outcome : {"merged", "ignored", "failed"}])
      /\ Entries' = Entries \cup {[by |-> turn, update |-> u, outcome |-> "failed"]}
  BY Logged DEF UpdateInv
<1>2. Merged' = Merged
  BY <1>1 DEF Merged
<1>3. TypeOK'
  BY <1>1 DEF UpdateInv, TypeOK
<1>4. MergedUpdatesTakeEffect' /\ MergedAreClaimed'
  BY <1>1, <1>2 DEF UpdateInv, MergedUpdatesTakeEffect, MergedAreClaimed, Requested
<1> QED BY <1>1, <1>2, <1>3, <1>4 DEF UpdateInv, ClaimsHaveEntries, AskedHaveEntries,
                               EntriesAsked, RequestKept, AllKept, MandatoryStaysMandatory

\* A container is added to the reply with its first entry.
LEMMA ReplyKeeps ==
    ASSUME TypeOK, ReplyInv, NEW u \in ContainerUpdate, turn \in Plugins, op' = op,
           NEW v \in Collected, updates' = [updates EXCEPT ![u.container] = v], reply' = InReply(u)
    PROVE  ReplyInv'
<1> DEFINE c == u.container
           Last(d) == op = "update" /\ d = Target
<1>1. c \in Containers
  BY OperatorTypes
<1>2. /\ updates'[c] # None
      /\ \A d \in Containers \ {c} : updates'[d] = updates[d]
  BY <1>1, ConstantsAssumption DEF TypeOK
<1>3. \A d : Last(d)' = Last(d)
  OBVIOUS
<1>4. CASE updates[c] = None /\ ~Last(c)
  <2>1. reply' = Append(reply, c) /\ reply \in Seq(Containers)
    BY <1>4 DEF InReply, TypeOK
  <2>2. /\ DOMAIN reply = 1..Len(reply) /\ Len(reply) \in Nat
        /\ DOMAIN reply' = 1..(Len(reply) + 1)
        /\ reply'[Len(reply) + 1] = c /\ \A n \in DOMAIN reply : reply'[n] = reply[n]
    BY <2>1
  <2>3. DOMAIN reply' = DOMAIN reply \cup {Len(reply) + 1}
    BY <2>2
  <2>4. \A n \in DOMAIN reply : reply[n] # c
    BY <1>1, <1>4 DEF ReplyInv
  <2>5. \A m, n \in DOMAIN reply' : reply'[m] = reply'[n] => m = n
    BY <2>2, <2>3, <2>4 DEF ReplyInv
  <2>6. ASSUME NEW d \in Containers
        PROVE  (\E n \in DOMAIN reply' : reply'[n] = d) <=> updates'[d] # None /\ ~Last(d)
    <3>1. (\E n \in DOMAIN reply' : reply'[n] = d) <=> d = c \/ \E n \in DOMAIN reply : reply[n] = d
      BY <2>2, <2>3
    <3> QED BY <1>2, <1>4, <3>1 DEF ReplyInv
  <2> QED BY <1>3, <2>5, <2>6 DEF ReplyInv
<1>5. CASE ~(updates[c] = None /\ ~Last(c))
  <2>1. reply' = reply
    BY <1>5 DEF InReply
  <2> QED BY <1>2, <1>3, <1>5, <2>1 DEF ReplyInv
<1> QED BY <1>4, <1>5

\* Together they hold at first and are kept by every step.
LEMMA UpdateInvariant == Spec => [](UpdateInv /\ ReplyInv)
<1>1. Init => UpdateInv /\ ReplyInv
  BY InitUpdateInv DEF Init, ReplyInv
<1>2. UpdateInv /\ ReplyInv /\ [Next]_vars => UpdateInv' /\ ReplyInv'
  <2> SUFFICES ASSUME UpdateInv, ReplyInv, [Next]_vars PROVE UpdateInv' /\ ReplyInv'
    OBVIOUS
  <2>0. TypeOK
    BY DEF UpdateInv
  <2>1. ASSUME NEW u \in ContainerUpdate, Merge(u)
        PROVE  UpdateInv' /\ ReplyInv'
    <3>1. turn \in Plugins /\ op' = op
      BY <2>0, <2>1, Logged DEF Merge
    <3>2. (IF u.linux THEN [Entry(u) EXCEPT !.resources = Updated(u)] ELSE Entry(u)) \in Collected
      BY <2>0, <3>1, OperatorTypes DEF Collected
    <3> QED BY <2>0, <2>1, <3>1, <3>2, MergeKeeps, ReplyKeeps DEF Merge
  <2>2. ASSUME NEW u \in ContainerUpdate, NEW o \in {"ignored", "failed"}, Take(u, o),
               owner' = Claims(u),
               updates' = [updates EXCEPT ![u.container] = Entry(u)],
               reply' = InReply(u), request' = request, status' \in {"merging", "failed"}
        PROVE  UpdateInv' /\ ReplyInv'
    <3>1. turn \in Plugins /\ op' = op /\ Entry(u) \in Collected
      BY <2>0, <2>2, Logged, OperatorTypes
    <3> QED BY <2>0, <2>2, <3>1, FailKeeps, ReplyKeeps
  <2>3. ASSUME NEW u \in ContainerUpdate, Ignore(u)
        PROVE  UpdateInv' /\ ReplyInv'
    BY <2>2, <2>3 DEF Ignore, Take
  <2>4. ASSUME NEW u \in ContainerUpdate, Fail(u)
        PROVE  UpdateInv' /\ ReplyInv'
    <3>1. CASE UNCHANGED <<owner, updates, reply>>
      BY <2>4, <3>1, UnderCreationKeeps DEF Fail, Take, ReplyInv
    <3>2. CASE ~UNCHANGED <<owner, updates, reply>>
      BY <2>2, <2>4, <3>2 DEF Fail
    <3> QED BY <3>1, <3>2
  <2>5. CASE NextPlugin
    <3>1. turn' \in 1..(N + 1)
      BY <2>0, <2>5, ConstantsAssumption DEF NextPlugin, TypeOK
    <3>2. UNCHANGED <<op, request, owner, updates, reply, log>> /\ status = "merging"
          /\ status' \in {"merging", "responded"}
      BY <2>5 DEF NextPlugin
    <3> QED BY <3>1, <3>2 DEF UpdateInv, ReplyInv, TypeOK, ClaimsHaveEntries, MergedAreClaimed,
          AskedHaveEntries, EntriesAsked, MergedUpdatesTakeEffect, RequestKept, AllKept,
          MandatoryStaysMandatory, Entries, Merged, Requested
  <2>6. CASE UNCHANGED vars
    BY <2>6 DEF vars, UpdateInv, ReplyInv, TypeOK, ClaimsHaveEntries, MergedAreClaimed,
          AskedHaveEntries, EntriesAsked, MergedUpdatesTakeEffect, RequestKept, AllKept,
          MandatoryStaysMandatory, Entries, Merged, Requested
  <2> QED BY <2>1, <2>3, <2>4, <2>5, <2>6 DEF Next
<1> QED BY <1>1, <1>2, PTL DEF Spec
-----------------------------------------------------------------------------
\* No plugin's update replaces a value that was merged before, and later plugins
\* are shown it (updateResources, owners.go).
THEOREM MergedUpdatesStay == Spec => []MergedUpdatesTakeEffect
<1>1. UpdateInv => MergedUpdatesTakeEffect
  BY DEF UpdateInv
<1> QED BY <1>1, UpdateInvariant, PTL

\* What the runtime asked for survives in both copies that updateResources stores.
THEOREM RequestsAreKept == Spec => []RequestKept
<1>1. UpdateInv => RequestKept
  BY DEF UpdateInv
<1> QED BY <1>1, UpdateInvariant, PTL

\* An update that somebody depends on is not one the runtime may skip
\* (getContainerUpdate).
THEOREM MandatoryUpdatesStay == Spec => []MandatoryStaysMandatory
<1>1. UpdateInv => MandatoryStaysMandatory
  BY DEF UpdateInv
<1> QED BY <1>1, UpdateInvariant, PTL

\* The response has each container that was to be updated once, no other, and besides
\* them at most the nil of the container to update (getContainerUpdate,
\* updateContainerResponse).
THEOREM EachIsRespondedOnce == Spec => []RespondedOnce
<1>1. UpdateInv /\ ReplyInv => RespondedOnce
  <2> SUFFICES ASSUME UpdateInv, ReplyInv, status # "failed", NEW c \in Containers
               PROVE  Cardinality({n \in DOMAIN Response : Response[n] = c}) =
                        IF \E e \in Entries : e.update.container = c THEN 1 ELSE 0
    BY DEF RespondedOnce
  <2> DEFINE P == {n \in DOMAIN Response : Response[n] = c}
             last == IF updates[Target] = None THEN None ELSE Target
  <2>0. /\ (\E e \in Entries : e.update.container = c) <=> updates[c] # None
        /\ None # c
    BY ConstantsAssumption DEF UpdateInv, AskedHaveEntries, EntriesAsked
  <2>1. /\ reply \in Seq(Containers) /\ Len(reply) \in Nat /\ DOMAIN reply = 1..Len(reply)
        /\ Target \in Containers
    BY ConstantsAssumption DEF UpdateInv, TypeOK
  <2>2. \/ Response = reply /\ op # "update"
        \/ /\ op = "update"
           /\ DOMAIN Response = DOMAIN reply \cup {Len(reply) + 1}
           /\ Len(reply) + 1 \notin DOMAIN reply
           /\ Response[Len(reply) + 1] = last /\ \A n \in DOMAIN reply : Response[n] = reply[n]
    <3>1. CASE op # "update"
      BY <3>1 DEF Response
    <3>2. CASE op = "update"
      <4>1. Response = Append(reply, last)
        BY <3>2 DEF Response
      <4> HIDE DEF last
      <4>2. reply \in Seq(Containers \cup {last})
        BY <2>1
      <4>3. /\ DOMAIN Response = 1..(Len(reply) + 1)
            /\ Response[Len(reply) + 1] = last /\ \A n \in 1..Len(reply) : Response[n] = reply[n]
        BY <4>1, <4>2
      <4> QED BY <2>1, <3>2, <4>3
    <3> QED BY <3>1, <3>2
  <2>3. CASE op = "update" /\ c = Target
    <3>1. \A n \in DOMAIN reply : reply[n] # c
      BY <2>1, <2>3 DEF ReplyInv
    <3>2. P = IF updates[c] # None THEN {Len(reply) + 1} ELSE {}
      BY <2>0, <2>2, <2>3, <3>1
    <3> QED BY <2>0, <3>2, FS_Singleton, FS_EmptySet
  <2>4. CASE ~(op = "update" /\ c = Target)
    <3>1. P = {n \in DOMAIN reply : reply[n] = c}
      BY <2>0, <2>2, <2>4
    <3>2. CASE updates[c] # None
      <4>1. PICK m \in DOMAIN reply : reply[m] = c
        BY <2>4, <3>2 DEF ReplyInv
      <4>2. P = {m}
        BY <3>1, <4>1 DEF ReplyInv
      <4> QED BY <2>0, <3>2, <4>2, FS_Singleton
    <3>3. CASE updates[c] = None
      <4>1. P = {}
        BY <2>4, <3>1, <3>3 DEF ReplyInv
      <4> QED BY <2>0, <3>3, <4>1, FS_EmptySet
    <3> QED BY <3>2, <3>3
  <2> QED BY <2>3, <2>4
<1> QED BY <1>1, UpdateInvariant, PTL
=============================================================================
