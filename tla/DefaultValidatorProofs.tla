----------------------- MODULE DefaultValidatorProofs -----------------------
(***************************************************************************)
(* No unintentional conflict goes unnoticed, and what the default          *)
(* validator is to reject never reaches a container: for any plugins,      *)
(* items, configurations and annotations.                                  *)
(***************************************************************************)
EXTENDS DefaultValidator, FiniteSetTheorems, TLAPS

(***************************************************************************)
(* The merging, by itself.  What makes conflicts noticed, in every         *)
(* collection but hooks, which have none: who set an item is recorded      *)
(* until someone clears the record, the one who did then is on record, and *)
(* only plugins that have had their turn are.                              *)
(***************************************************************************)
\* The response of each plugin is one it can give, and none before its turn.
Turns ==
    /\ kind \in Kinds
    /\ turn \in 0..N
    /\ asked \in [Plugins -> [Keys -> Acts]]
    /\ \A p \in Plugins, k \in Keys : p > turn => asked[p][k] = "keep"

\* An item that a plugin has set is never without an owner again.
Recorded ==
    \A k \in Keys :
        /\ item[k].owner \in {Unowned} \cup [by : 1..turn, cleared : BOOLEAN]
        /\ \A p \in Plugins : Sets(asked[p][k]) => item[k].owner # Unowned

OwnerInv ==
    Turns /\ (status \in {"merging", "created"} /\ kind # "hooks" => Recorded /\ NoSilentOverride)
-----------------------------------------------------------------------------
\* A successful claim: the item had no owner or the claimer had cleared it.
LEMMA ClaimSucceeds ==
    ASSUME NEW o, NEW p \in Plugins, claim(o, p) # Contested
    PROVE  claim(o, p) = OwnedBy(p) /\ o \in {Unowned, ClearedBy(p)}
BY DEF claim

\* A plugin that sets an item ends up its owner; unless it removed the item
\* first, the item was free or the plugin's own before.
LEMMA AdjustOwner ==
    ASSUME NEW i, NEW act \in Acts, NEW p \in Plugins, kind \in Kinds,
           NEW any, kind # "hooks", kind = "sysctl" => ~Sets(act),
           adjust(i, act, p, any).owner # Contested
    PROVE  /\ adjust(i, act, p, any).owner \in {i.owner, OwnedBy(p), ClearedBy(p)}
           /\ Sets(act) => adjust(i, act, p, any).owner = OwnedBy(p)
           /\ act = "set" => i.owner \in {Unowned, ClearedBy(p)}
<1> DEFINE Obliged(j) ==
        j.owner # Contested =>
            /\ j.owner \in {i.owner, OwnedBy(p), ClearedBy(p)}
            /\ Sets(act) => j.owner = OwnedBy(p)
            /\ act = "set" => i.owner \in {Unowned, ClearedBy(p)}
<1>0. /\ Contested # OwnedBy(p) /\ Contested # Unowned /\ Contested # ClearedBy(p)
      /\ OwnedBy(p) # Unowned /\ OwnedBy(p) # ClearedBy(p)
  BY ConstantsAssumption DEF Contested, OwnedBy, ClearedBy, Unowned
<1>1. Obliged(adjustMounts(i, act, p))
  BY <1>0 DEF adjustMounts, Unlisted, Appended, Replying, claim, Acts, Sets, Removes
<1>2. Obliged(adjustDevices(i, act, p)) /\ Obliged(adjustEnv(i, act, p))
  BY <1>0 DEF adjustDevices, adjustEnv, Unlisted, Appended, claim, Acts, Sets, Removes
<1>3. Obliged(adjustArgs(i, act, p))
  BY <1>0 DEF adjustArgs, claim, Acts, Sets, Removes
<1>4. Obliged(adjustNamespaces(i, act, p))
  BY <1>0 DEF adjustNamespaces, Appended, claim, Acts, Sets, Removes
<1>5. Obliged(adjustResources(i, act, p))
  BY <1>0 DEF adjustResources, Appended, claim, Acts, Sets, Removes
<1>6. Obliged(adjustAnnotations(i, act, p)) /\ Obliged(adjustLinuxNetDevices(i, act, p))
  BY <1>0 DEF adjustAnnotations, adjustLinuxNetDevices, Replying, claim, Acts, Sets, Removes
<1>7. Obliged(adjustCDIDevices(i, act, p))
  BY <1>0 DEF adjustCDIDevices, Appended, claim, Acts, Sets, Removes
<1>8. Obliged(adjustRdt(i, act, p, any))
  BY <1>0 DEF adjustRdt, Replying, claim, Acts, Sets, Removes
<1>9. kind = "sysctl" => Obliged(adjustSysctl(i, act, p))
  BY DEF adjustSysctl, Sets
<1>10. kind \in {"mounts", "devices", "env", "args", "namespaces", "resources",
                  "memory", "annotations", "netdevices", "cdi", "rdt", "sysctl"}
  BY ConstantsAssumption DEF Listed, Mapped
<1>11. Obliged(adjust(i, act, p, any))
  BY <1>1, <1>2, <1>3, <1>4, <1>5, <1>6, <1>7, <1>8, <1>9, <1>10 DEF adjust
<1> QED  BY <1>11

\* An item has an owner, entries and a setting whatever is asked of it.
LEMMA AdjustShape ==
    ASSUME NEW i, i = [owner |-> i.owner, reply |-> i.reply, request |-> i.request],
           NEW act \in Acts, NEW p, NEW any, kind \in Kinds
    PROVE  LET j == adjust(i, act, p, any)
           IN j = [owner |-> j.owner, reply |-> j.reply, request |-> j.request]
<1> DEFINE Shaped(j) == j = [owner |-> j.owner, reply |-> j.reply, request |-> j.request]
<1>1. Shaped(adjustMounts(i, act, p)) /\ Shaped(adjustDevices(i, act, p))
      /\ Shaped(adjustEnv(i, act, p))
  BY DEF adjustMounts, adjustDevices, adjustEnv, Unlisted, Appended, Replying
<1>2. Shaped(adjustArgs(i, act, p)) /\ Shaped(adjustNamespaces(i, act, p))
      /\ Shaped(adjustResources(i, act, p))
  BY DEF adjustArgs, adjustNamespaces, adjustResources, Appended
<1>3. Shaped(adjustAnnotations(i, act, p)) /\ Shaped(adjustLinuxNetDevices(i, act, p))
  BY DEF adjustAnnotations, adjustLinuxNetDevices, Replying, Acts
<1>4. Shaped(adjustCDIDevices(i, act, p)) /\ Shaped(adjustSysctl(i, act, p))
  BY DEF adjustCDIDevices, adjustSysctl, Appended
<1>5. Shaped(adjustHooks(i, act, p, any))
  <2>1. \A x : Shaped([i EXCEPT !.owner = x])
    <3> TAKE x
    <3>1. [i EXCEPT !.owner = x] = [owner |-> x, reply |-> i.reply, request |-> i.request]
      OBVIOUS
    <3> QED BY <3>1
  <2>2. \A x : Shaped([Appended(i, p) EXCEPT !.owner = x])
    BY DEF Appended
  <2> HIDE DEF Shaped
  <2> QED BY <2>1, <2>2 DEF adjustHooks
<1>6. Shaped(adjustRdt(i, act, p, any))
  BY DEF adjustRdt, Replying
<1>7. kind \in Listed \cup Mapped
  BY ConstantsAssumption
<1>8. Shaped(adjust(i, act, p, any))
  <2> HIDE DEF Shaped
  <2> QED BY <1>1, <1>2, <1>3, <1>4, <1>5, <1>6, <1>7 DEF adjust, Listed, Mapped
<1> QED BY <1>8
-----------------------------------------------------------------------------
LEMMA OwnerInit == Init => OwnerInv
<1> SUFFICES ASSUME Init PROVE OwnerInv
  OBVIOUS
<1>1. Turns
  BY ConstantsAssumption DEF Init, Turns, Acts, Plugins
<1>2. \A p \in Plugins, k \in Keys : ~Sets(asked[p][k])
  BY DEF Init, Sets
<1>3. Recorded
  BY <1>2 DEF Init, Recorded
<1>4. NoSilentOverride
  BY <1>2 DEF NoSilentOverride
<1> QED  BY <1>1, <1>3, <1>4 DEF OwnerInv

\* The next plugin responds with something it can ask for.
LEMMA RespondsTurns ==
    ASSUME Turns, NEW response \in Responses, Responds(response)
    PROVE  /\ Turns'
           /\ turn + 1 \in Plugins /\ turn' = turn + 1
           /\ response \in [Keys -> Acts]
           /\ \A k \in Keys : asked'[turn + 1][k] = response[k]
           /\ \A p \in Plugins, k \in Keys : p # turn + 1 => asked'[p][k] = asked[p][k]
<1>1. turn + 1 \in Plugins /\ turn' = turn + 1 /\ kind' = kind
  BY ConstantsAssumption DEF Responds, Turns, Plugins
<1>2. response \in [Keys -> Acts]
  BY DEF Responses, ActsOn, Acts
<1>3. asked' = [asked EXCEPT ![turn + 1] = response]
  BY DEF Responds
<1>4. /\ asked' \in [Plugins -> [Keys -> Acts]]
      /\ \A k \in Keys : asked'[turn + 1][k] = response[k]
      /\ \A p \in Plugins, k \in Keys : p # turn + 1 => asked'[p][k] = asked[p][k]
  BY <1>1, <1>2, <1>3 DEF Turns
<1>5. turn' \in 0..N
  BY <1>1, ConstantsAssumption DEF Turns, Plugins
<1>6. \A p \in Plugins, k \in Keys : p > turn' => asked'[p][k] = "keep"
  BY <1>1, <1>4, ConstantsAssumption DEF Turns, Plugins
<1> QED  BY <1>1, <1>2, <1>4, <1>5, <1>6 DEF Turns

\* A response that is merged leaves every conflict detectable.
LEMMA ApplyOwners ==
    ASSUME OwnerInv, NEW response \in Responses, Apply(response), kind # "hooks"
    PROVE  OwnerInv'
<1> DEFINE me == turn + 1
           any == SetsAny(response)
<1>1. Turns /\ Recorded /\ NoSilentOverride /\ status = "merging" /\ status' = "merging"
  BY DEF OwnerInv, Apply, Responds
<1>2. /\ Turns'
      /\ me \in Plugins /\ turn' = me
      /\ response \in [Keys -> Acts]
      /\ \A k \in Keys : asked'[me][k] = response[k]
      /\ \A p \in Plugins, k \in Keys : p # me => asked'[p][k] = asked[p][k]
  BY <1>1, RespondsTurns DEF Apply
<1>3. \A k \in Keys : item'[k] = adjust(item[k], response[k], me, any)
  BY DEF Apply, Adjusted
<1>4. \A k \in Keys : item'[k].owner # Contested
  BY <1>3 DEF Apply, Conflict, Adjusted
<1>5. kind \in Kinds
  BY <1>1 DEF Turns
<1>6. ASSUME NEW k \in Keys
      PROVE  /\ item'[k].owner \in {item[k].owner, OwnedBy(me), ClearedBy(me)}
             /\ Sets(response[k]) => item'[k].owner = OwnedBy(me)
             /\ response[k] = "set" => item[k].owner \in {Unowned, ClearedBy(me)}
  <2>1. response[k] \in Acts /\ adjust(item[k], response[k], me, any).owner # Contested
    BY <1>2, <1>3, <1>4
  <2>2. me \in Plugins
    BY <1>2
  <2>7. kind = "sysctl" => ~Sets(response[k])
    BY DEF Apply, Panics, SetsAny
  <2> HIDE DEF me, any
  <2> DEFINE i == item[k]
             act == response[k]
  <2>3. act \in Acts /\ adjust(i, act, me, any).owner # Contested
    BY <2>1
  <2>8. kind = "sysctl" => ~Sets(act)
    BY <2>7
  <2> HIDE DEF i, act
  <2>4. /\ adjust(i, act, me, any).owner \in {i.owner, OwnedBy(me), ClearedBy(me)}
        /\ Sets(act) => adjust(i, act, me, any).owner = OwnedBy(me)
        /\ act = "set" => i.owner \in {Unowned, ClearedBy(me)}
    BY <1>5, <2>2, <2>3, <2>8, AdjustOwner
  <2>5. item'[k] = adjust(i, act, me, any)
    BY <1>3 DEF i, act
  <2>6. /\ item'[k].owner \in {i.owner, OwnedBy(me), ClearedBy(me)}
        /\ Sets(act) => item'[k].owner = OwnedBy(me)
        /\ act = "set" => i.owner \in {Unowned, ClearedBy(me)}
    BY <2>4, <2>5
  <2> QED  BY <2>6 DEF i, act
<1>7. \A p \in Plugins, k \in Keys : p > turn => asked[p][k] = "keep"
  BY <1>1 DEF Turns
<1>8. Recorded'
  <2> SUFFICES ASSUME NEW k \in Keys
               PROVE  /\ item'[k].owner \in {Unowned} \cup [by : 1..turn', cleared : BOOLEAN]
                      /\ \A p \in Plugins : Sets(asked'[p][k]) => item'[k].owner # Unowned
    BY DEF Recorded
  <2>1. OwnedBy(me) # Unowned /\ ClearedBy(me) # Unowned
    BY <1>2, ConstantsAssumption DEF OwnedBy, ClearedBy, Unowned
  <2>2. me \in 1..turn' /\ 1..turn \subseteq 1..turn'
    BY <1>1, <1>2 DEF Turns, Plugins
  <2>3. {OwnedBy(me), ClearedBy(me)} \subseteq [by : 1..turn', cleared : BOOLEAN]
    BY <2>2 DEF OwnedBy, ClearedBy
  <2>4. item[k].owner \in {Unowned} \cup [by : 1..turn', cleared : BOOLEAN]
    BY <1>1, <2>2 DEF Recorded
  <2>5. item'[k].owner \in {Unowned} \cup [by : 1..turn', cleared : BOOLEAN]
    BY <1>6, <2>3, <2>4
  <2>6. ASSUME NEW p \in Plugins, Sets(asked'[p][k]) PROVE item'[k].owner # Unowned
    <3>1. CASE p = me
      BY <1>2, <1>6, <2>1, <2>6, <3>1
    <3>2. CASE p # me
      BY <1>1, <1>2, <1>6, <2>1, <2>6, <3>2 DEF Recorded
    <3> QED  BY <3>1, <3>2
  <2> QED  BY <2>5, <2>6
<1>9. NoSilentOverride'
  <2> SUFFICES ASSUME NEW p \in Plugins, NEW q \in Plugins, NEW k \in Keys,
                      p < q, Sets(asked'[p][k]), Sets(asked'[q][k])
               PROVE  asked'[q][k] = "replace"
    BY DEF NoSilentOverride
  <2>1. ~Sets("keep")
    BY DEF Sets
  <2>2. p <= me /\ q <= me
    BY <1>1, <1>2, <1>7, <2>1 DEF Turns, Plugins
  <2>3. CASE q # me
    BY <1>1, <1>2, <2>2, <2>3 DEF NoSilentOverride, Plugins
  <2>4. CASE q = me
    <3>1. item[k].owner # Unowned
      BY <1>1, <1>2, <2>4 DEF Recorded, Plugins
    <3>2. item[k].owner \in [by : 1..turn, cleared : BOOLEAN]
      BY <1>1, <3>1 DEF Recorded
    <3>3. item[k].owner # ClearedBy(me)
      BY <1>1, <1>2, <3>2 DEF ClearedBy, Turns, Plugins
    <3>4. response[k] # "set"
      BY <1>6, <3>1, <3>3
    <3> QED  BY <1>2, <2>4, <3>4 DEF Sets
  <2> QED  BY <2>3, <2>4
<1> QED  BY <1>2, <1>8, <1>9 DEF OwnerInv

LEMMA OwnerNext == OwnerInv /\ [Next]_vars => OwnerInv'
<1> SUFFICES ASSUME OwnerInv, [Next]_vars PROVE OwnerInv'
  OBVIOUS
<1>1. CASE \E response \in Responses : Apply(response)
  <2>1. PICK response \in Responses : Apply(response)
    BY <1>1
  <2>2. CASE kind # "hooks"
    BY <2>1, <2>2, ApplyOwners
  <2>3. CASE kind = "hooks"
    <3>1. Turns' /\ kind' = kind
      BY <2>1, RespondsTurns DEF Apply, OwnerInv, Responds
    <3> QED  BY <2>3, <3>1 DEF OwnerInv
  <2> QED  BY <2>2, <2>3
<1>2. CASE \E response \in Responses : Refuse(response)
  <2>1. PICK response \in Responses : Refuse(response)
    BY <1>2
  <2>2. Turns'
    BY <2>1, RespondsTurns DEF Refuse, OwnerInv
  <2>3. status' = "failed"
    BY <2>1 DEF Refuse
  <2> QED  BY <2>2, <2>3 DEF OwnerInv
<1>3. CASE Generate
  <2>1. UNCHANGED <<kind, turn, asked, item>> /\ status = "merging"
    BY <1>3 DEF Generate
  <2>2. Turns'
    BY <2>1 DEF OwnerInv, Turns
  <2>3. CASE kind # "hooks"
    <3>1. Recorded /\ NoSilentOverride
      BY <2>1, <2>3 DEF OwnerInv
    <3>2. Recorded' /\ NoSilentOverride'
      BY <2>1, <2>3, <3>1 DEF Recorded, NoSilentOverride
    <3> QED  BY <2>2, <3>2 DEF OwnerInv
  <2>4. CASE kind = "hooks"
    BY <2>1, <2>2, <2>4 DEF OwnerInv
  <2> QED  BY <2>3, <2>4
<1>4. CASE \E response \in Responses : Panic(response)
  <2>1. PICK response \in Responses : Panic(response)
    BY <1>4
  <2>2. Turns'
    BY <2>1, RespondsTurns DEF Panic, OwnerInv
  <2>3. status' = "panicked"
    BY <2>1 DEF Panic
  <2> QED  BY <2>2, <2>3 DEF OwnerInv
<1>5. CASE UNCHANGED vars
  BY <1>5 DEF vars, OwnerInv, Turns, Recorded, NoSilentOverride
<1> QED  BY <1>1, <1>2, <1>3, <1>4, <1>5 DEF Next

\* If two plugins set the same item and the creation did not fail, the later
\* one removed it first: the conflict detection of claimSimple and
\* claimCompound is complete, for any number of plugins and items.
THEOREM ConflictsAreDetected == Spec => []NoSilentOverride
<1>1. OwnerInv => NoSilentOverride
  BY DEF OwnerInv, NoSilentOverride
<1> QED  BY OwnerInit, OwnerNext, <1>1, PTL DEF Spec
-----------------------------------------------------------------------------
(***************************************************************************)
(* What a container is created with.  Every entry of the reply tells whose *)
(* it is, its last entry is what the last plugin to touch the item asked   *)
(* for, and so is the container shown to the next plugin.                  *)
(***************************************************************************)
\* Only the owner of an item has entries in the reply.
EntriesOwned(i) ==
    \A e \in DOMAIN i.reply : i.reply[e] # None => i.owner = OwnedBy(i.reply[e])

\* What a list makes of an item, of which the runtime asked for g.
Outcome(i, g) == IF i.reply = <<>> THEN g ELSE i.reply[Len(i.reply)]

\* The last plugin to touch item k, if any did, asked for w.
Heard(k, w) ==
    \/ w = given[k] /\ \A p \in Plugins : asked[p][k] = "keep"
    \/ \E p \in Plugins :
         /\ asked[p][k] # "keep" /\ w = (IF Sets(asked[p][k]) THEN p ELSE None)
         /\ \A q \in Plugins : asked[q][k] # "keep" => q <= p

\* The copy shown to plugins and the reply agree with what was heard.
Agreed(k, w) ==
    /\ kind \in InOrder => item[k].request = w /\ Outcome(item[k], given[k]) = w
    /\ kind \in Listed /\ w \in Plugins => item[k].reply # <<>> /\ Outcome(item[k], given[k]) = w

OutcomeInv ==
    /\ TypeOK /\ Turns
    /\ kind # "hooks" => \A k \in Keys : EntriesOwned(item[k])
    /\ status \in {"merging", "created"} =>
           \A k \in Keys : \E w \in Settings : Heard(k, w) /\ Agreed(k, w)
    /\ status = "created" /\ kind \in Listed \ Dropped =>
           \A k \in Keys : created[k] = Outcome(item[k], given[k])
-----------------------------------------------------------------------------
\* What is left of a reply once the settings of plugins are dropped.
LEMMA MarksAreMarks ==
    ASSUME NEW i, i.reply \in Seq(Plugins \cup {None})
    PROVE  /\ Marks(i) \in Seq(Plugins \cup {None})
           /\ \A e \in DOMAIN Marks(i) : Marks(i)[e] = None
<1> DEFINE marks == {e \in DOMAIN i.reply : i.reply[e] = None}
<1>1. DOMAIN i.reply = 1..Len(i.reply) /\ Len(i.reply) \in Nat
  OBVIOUS
<1>2. IsFiniteSet(1..Len(i.reply)) /\ marks \subseteq 1..Len(i.reply)
  BY <1>1, FS_Interval
<1>3. IsFiniteSet(marks)
  BY <1>2, FS_Subset
<1>4. Cardinality(marks) \in Nat
  BY <1>3, FS_CardinalityType
<1>5. Marks(i) = [m \in 1..Cardinality(marks) |-> None]
  BY DEF Marks
<1> HIDE DEF marks
<1> QED  BY <1>4, <1>5

\* A list of entries and one more.
LEMMA OneMore ==
    ASSUME NEW s \in Seq(Plugins \cup {None}), NEW x \in Plugins \cup {None}
    PROVE  /\ Append(s, x) \in Seq(Plugins \cup {None}) /\ Append(s, x) # <<>>
           /\ Append(s, x)[Len(Append(s, x))] = x
           /\ \A e \in DOMAIN Append(s, x) : Append(s, x)[e] = x \/ (e \in DOMAIN s /\ Append(s, x)[e] = s[e])
OBVIOUS

\* The entries of a map.
LEMMA MapEntries ==
    ASSUME NEW x \in Plugins \cup {None}, NEW marked \in BOOLEAN
    PROVE  /\ Entries(marked, x) \in Seq(Plugins \cup {None})
           /\ \A e \in DOMAIN Entries(marked, x) : Entries(marked, x)[e] \in {x, None}
<1>1. CASE marked /\ x = None
  <2>1. Entries(marked, x) = <<None>>
    BY <1>1 DEF Entries
  <2> QED  BY <2>1
<1>2. CASE marked /\ x # None
  <2> DEFINE both == <<None>> \o <<x>>
  <2>1. Entries(marked, x) = both
    BY <1>2 DEF Entries
  <2>2. both \in Seq(Plugins \cup {None}) /\ Len(both) = 2 /\ both[1] = None /\ both[2] = x
    OBVIOUS
  <2> HIDE DEF both
  <2> QED  BY <2>1, <2>2
<1>3. CASE ~marked /\ x = None
  <2>1. Entries(marked, x) = <<>>
    BY <1>3 DEF Entries
  <2> QED  BY <2>1
<1>4. CASE ~marked /\ x # None
  <2>1. Entries(marked, x) = <<x>>
    BY <1>4 DEF Entries
  <2> QED  BY <2>1
<1> QED  BY <1>1, <1>2, <1>3, <1>4

\* What one adjustment does to one item of a list.
Says(i, j, act, p) ==
    /\ Sets(act) => j.reply # <<>> /\ j.reply[Len(j.reply)] = p
    /\ act = "keep" => j.reply = i.reply \/ (j.reply = <<>> /\ ~Collected(i))
    /\ kind \in InOrder =>
          /\ act = "keep" => j.reply = i.reply /\ j.request = i.request
          /\ Sets(act) => j.request = p
          /\ act = "remove" => /\ j.request = None
                               /\ j.reply # <<>> /\ j.reply[Len(j.reply)] = None

Typed(i) ==
    /\ i.reply \in Seq(Plugins \cup {None}) /\ i.request \in Settings

\* Merging what one plugin asks of one item keeps every entry its owner's, and
\* makes what it asks for the last entry.
LEMMA AdjustEntries ==
    ASSUME NEW i, Typed(i), NEW act \in ActsOn(kind), NEW p \in Plugins,
           kind \in Kinds, NEW any \in BOOLEAN,
           adjust(i, act, p, any).owner # Contested
    PROVE  LET j == adjust(i, act, p, any)
           IN /\ Typed(j)
              /\ kind # "hooks" /\ EntriesOwned(i) => EntriesOwned(j)
              /\ kind \in Listed => Says(i, j, act, p)
<1> DEFINE Obliged(j) == j.owner # Contested => Typed(j) /\ (EntriesOwned(i) => EntriesOwned(j))
           Told(j) == Says(i, j, act, p)
           un == Unlisted(i, p)
<1>0. /\ \A q, r \in Plugins : ClearedBy(q) # OwnedBy(r) /\ Unowned # OwnedBy(r)
      /\ None \notin Plugins /\ Plugins \subseteq Settings /\ None \in Settings
  BY ConstantsAssumption DEF ClearedBy, OwnedBy, Unowned, Settings
<1>1. /\ act \in Acts
      /\ ~(Sets(act) /\ act = "keep") /\ ~Removes("keep") /\ ~Removes("set")
      /\ ~Sets("keep") /\ ~Sets("remove") /\ Sets("set") /\ Sets("replace") /\ Removes("remove") /\ Removes("replace")
  BY DEF ActsOn, Acts, Sets, Removes
\* Claiming an item and adding an entry to it.
<1>2. ASSUME NEW h, Typed(h)
      PROVE  LET j == Appended(h, p)
             IN /\ Typed(j) /\ j.reply # <<>> /\ j.reply[Len(j.reply)] = p /\ j.request = p
                /\ j.owner # Contested /\ EntriesOwned(h) => EntriesOwned(j)
  <2> DEFINE j == Appended(h, p)
  <2>1. j.owner = claim(h.owner, p) /\ j.reply = Append(h.reply, p) /\ j.request = p
    BY DEF Appended
  <2>2. h.reply \in Seq(Plugins \cup {None}) /\ p \in Plugins \cup {None}
    BY <1>2 DEF Typed
  <2>3. Typed(j) /\ j.reply # <<>> /\ j.reply[Len(j.reply)] = p
    BY <2>1, <2>2, <1>0, OneMore DEF Typed
  <2>4. ASSUME j.owner # Contested, EntriesOwned(h)
        PROVE  EntriesOwned(j)
    <3>1. j.owner = OwnedBy(p) /\ h.owner \in {Unowned, ClearedBy(p)}
      BY <2>1, <2>4, ClaimSucceeds
    <3>2. \A e \in DOMAIN h.reply : h.reply[e] = None
      BY <1>0, <2>2, <2>4, <3>1 DEF EntriesOwned
    <3>3. \A e \in DOMAIN j.reply : j.reply[e] \in {None, p}
      BY <2>1, <2>2, <3>2, OneMore
    <3> QED  BY <3>1, <3>3 DEF EntriesOwned
  <2> QED  BY <2>1, <2>3, <2>4
<1>3. Typed(un) /\ EntriesOwned(un) /\ un.request = None
  BY <1>0, MarksAreMarks DEF Unlisted, Typed, EntriesOwned
<1>4. Obliged(i) /\ Obliged(Appended(i, p)) /\ Obliged(Appended(un, p))
  BY <1>2, <1>3
<1>5. Obliged(adjustMounts(i, act, p)) /\ Told(adjustMounts(i, act, p))
  <2>1. CASE Sets(act)
    BY <1>1, <1>2, <1>3, <1>4, <2>1 DEF adjustMounts, Says, Acts
  <2>2. CASE act = "keep"
    BY <1>1, <1>4, <2>2 DEF adjustMounts, Says
  <2>3. CASE act = "remove"
    <3> DEFINE j == Replying(un, Append(un.reply, None))
    <3>1. j = adjustMounts(i, act, p)
      BY <1>1, <2>3 DEF adjustMounts
    <3>2. j.request = None /\ j.reply = Append(un.reply, None) /\ j.owner = un.owner
      BY <1>3 DEF Replying
    <3>3. un.reply \in Seq(Plugins \cup {None}) /\ \A e \in DOMAIN un.reply : un.reply[e] = None
      BY MarksAreMarks DEF Unlisted, Typed
    <3>4. /\ j.reply \in Seq(Plugins \cup {None}) /\ j.reply # <<>> /\ j.reply[Len(j.reply)] = None
          /\ \A e \in DOMAIN j.reply : j.reply[e] = None
      BY <3>2, <3>3, OneMore
    <3>5. Typed(j) /\ EntriesOwned(j)
      BY <1>0, <3>2, <3>4 DEF Typed, EntriesOwned
    <3>6. Told(j)
      BY <1>1, <2>3, <3>2, <3>4 DEF Says
    <3> QED  BY <3>1, <3>5, <3>6
  <2> QED  BY <1>1, <2>1, <2>2, <2>3 DEF Acts, Sets
<1>6. /\ kind \notin InOrder => Obliged(adjustDevices(i, act, p)) /\ Told(adjustDevices(i, act, p))
      /\ kind \notin InOrder => Obliged(adjustEnv(i, act, p)) /\ Told(adjustEnv(i, act, p))
  <2>1. CASE Sets(act)
    BY <1>1, <1>2, <1>3, <1>4, <2>1 DEF adjustDevices, adjustEnv, Says, Acts
  <2>2. CASE ~Sets(act)
    BY <1>1, <1>3, <1>4, <2>2 DEF adjustDevices, adjustEnv, Says, Acts
  <2> QED  BY <2>1, <2>2
<1>7. kind = "args" => Obliged(adjustArgs(i, act, p)) /\ Told(adjustArgs(i, act, p))
  <2>1. CASE Sets(act)
    <3> DEFINE cleared == IF Removes(act) THEN ClearedBy(p) ELSE i.owner
               j == adjustArgs(i, act, p)
    <3>1. j.owner = claim(cleared, p) /\ j.reply = <<p>> /\ j.request = p
      BY <2>1 DEF adjustArgs
    <3>2. j.owner # Contested => j.owner = OwnedBy(p)
      BY <3>1, ClaimSucceeds
    <3>3. j.reply \in Seq(Plugins \cup {None}) /\ j.reply # <<>> /\ j.reply[Len(j.reply)] = p
          /\ \A e \in DOMAIN j.reply : j.reply[e] = p
      BY <3>1
    <3> HIDE DEF j
    <3>4. Obliged(j)
      BY <1>0, <3>1, <3>2, <3>3 DEF Typed, EntriesOwned
    <3>5. Told(j)
      BY <1>1, <2>1, <3>1, <3>3 DEF Says
    <3> QED  BY <3>4, <3>5 DEF j
  <2>2. CASE ~Sets(act)
    BY <1>1, <1>4, <2>2 DEF adjustArgs, Says, ActsOn, Acts
  <2> QED  BY <2>1, <2>2
<1>8. Obliged(adjustNamespaces(i, act, p)) /\ (adjustNamespaces(i, act, p).owner # Contested => Told(adjustNamespaces(i, act, p)))
  <2> DEFINE r == [owner |-> claim(i.owner, p), reply |-> Append(i.reply, None), request |-> None]
  <2>1. r.owner = claim(i.owner, p) /\ r.reply = Append(i.reply, None) /\ r.request = None
    OBVIOUS
  <2>2. Typed(r) /\ r.reply # <<>> /\ r.reply[Len(r.reply)] = None
    BY <1>0, <2>1, OneMore DEF Typed
  <2>3. ASSUME r.owner # Contested, EntriesOwned(i)
        PROVE  EntriesOwned(r)
    <3>1. i.owner \in {Unowned, ClearedBy(p)}
      BY <2>1, <2>3, ClaimSucceeds
    <3>2. \A e \in DOMAIN i.reply : i.reply[e] = None
      BY <1>0, <2>3, <3>1 DEF EntriesOwned, Typed
    <3>3. \A e \in DOMAIN r.reply : r.reply[e] = None
      BY <2>1, <3>2, OneMore DEF Typed
    <3> QED  BY <3>3 DEF EntriesOwned
  <2> HIDE DEF r
  <2>4. CASE act = "keep"
    BY <1>1, <1>4, <2>4 DEF adjustNamespaces, Says
  <2>5. CASE act = "set"
    BY <1>1, <1>2, <1>4, <2>5 DEF adjustNamespaces, Says
  <2>6. CASE act = "remove"
    <3>1. adjustNamespaces(i, act, p) = r
      BY <1>1, <2>6 DEF adjustNamespaces, r
    <3> QED  BY <1>1, <2>1, <2>2, <2>3, <2>6, <3>1 DEF Says
  <2>7. CASE act = "replace"
    <3>1. adjustNamespaces(i, act, p) = Appended(r, p)
      BY <1>1, <2>7 DEF adjustNamespaces, r
    <3>2. Appended(r, p).owner = claim(claim(i.owner, p), p)
      BY <2>1 DEF Appended
    <3>3. claim(claim(i.owner, p), p) = Contested
      BY ConstantsAssumption DEF claim, Contested, OwnedBy, ClearedBy, Unowned
    <3> QED  BY <3>1, <3>2, <3>3
  <2> QED  BY <1>1, <2>4, <2>5, <2>6, <2>7 DEF Acts
<1>9. kind \in {"resources", "memory", "cdi", "hooks"} => act \in {"keep", "set"}
  BY DEF ActsOn
<1>10. kind \in {"resources", "memory"} => Obliged(adjustResources(i, act, p)) /\ Told(adjustResources(i, act, p))
  BY <1>1, <1>2, <1>4, <1>9 DEF adjustResources, Says
<1>11. kind = "cdi" => Obliged(adjustCDIDevices(i, act, p)) /\ Told(adjustCDIDevices(i, act, p))
  <2> DEFINE a == Appended(i, p)
             j == [a EXCEPT !.request = i.request]
  <2>1. j.owner = a.owner /\ j.reply = a.reply /\ j.request = i.request
    BY DEF Appended
  <2> HIDE DEF j
  <2>2. Obliged(j) /\ j.reply # <<>> /\ j.reply[Len(j.reply)] = p
    BY <1>2, <1>4, <2>1 DEF Typed, EntriesOwned
  <2>3. CASE act = "set"
    <3>1. adjustCDIDevices(i, act, p) = j
      BY <1>1, <2>3 DEF adjustCDIDevices, j
    <3> QED  BY <1>1, <2>2, <2>3, <3>1 DEF Says, InOrder
  <2>4. CASE act = "keep"
    BY <1>1, <1>4, <2>4 DEF adjustCDIDevices, Says
  <2> QED  BY <1>9, <2>3, <2>4
<1>12. kind = "hooks" => Typed(adjustHooks(i, act, p, any)) /\ Told(adjustHooks(i, act, p, any))
  <2> DEFINE r == IF Sets(act) THEN Appended(i, p) ELSE i
             j == adjustHooks(i, act, p, any)
  <2>1. j.reply = r.reply /\ j.request = r.request
    BY DEF adjustHooks
  <2>2. Typed(r)
    BY <1>2
  <2>3. Typed(j)
    BY <2>1, <2>2 DEF Typed
  <2>4. Sets(act) => r.reply # <<>> /\ r.reply[Len(r.reply)] = p
    BY <1>2
  <2>5. ~Sets(act) => r = i
    OBVIOUS
  <2> HIDE DEF r, j
  <2> QED  BY <1>1, <1>9, <2>1, <2>3, <2>4, <2>5 DEF Says, InOrder, j
<1>13. kind = "rdt" => Obliged(adjustRdt(i, act, p, any)) /\ Told(adjustRdt(i, act, p, any))
  <2> DEFINE r == IF Removes(act)
                  THEN [owner |-> ClearedBy(p), reply |-> <<None>>, request |-> i.request]
                  ELSE i
             j == adjustRdt(i, act, p, any)
  <2>1. Typed(r) /\ (EntriesOwned(i) => EntriesOwned(r))
    BY DEF Typed, EntriesOwned
  <2>2. CASE Sets(act)
    <3>1. j.owner = claim(r.owner, p) /\ j.reply = <<p>> /\ j.request = i.request
      BY <2>2 DEF adjustRdt
    <3>2. j.owner # Contested => j.owner = OwnedBy(p)
      BY <3>1, ClaimSucceeds
    <3>3. j.reply \in Seq(Plugins \cup {None}) /\ j.reply # <<>> /\ j.reply[Len(j.reply)] = p
          /\ \A e \in DOMAIN j.reply : j.reply[e] = p
      BY <3>1
    <3> HIDE DEF j
    <3> QED  BY <1>1, <2>2, <3>1, <3>2, <3>3 DEF Typed, EntriesOwned, Says, InOrder, j
  <2>3. CASE ~Sets(act)
    <3> DEFINE entries == IF any /\ ~Collected(r) THEN <<>> ELSE r.reply
    <3>1. j = Replying(r, entries)
      BY <2>3 DEF adjustRdt
    <3>2. j.owner = r.owner /\ j.reply = entries /\ j.request = r.request
      BY <3>1 DEF Replying
    <3>3. Obliged(j)
      BY <2>1, <3>2 DEF Typed, EntriesOwned
    <3>4. act = "keep" => r = i
      BY <1>1
    <3>5. kind = "rdt" => Told(j)
      BY <2>3, <3>2, <3>4 DEF Says, InOrder
    <3> QED  BY <3>3, <3>5
  <2> QED  BY <2>2, <2>3
<1>14. Obliged(adjustAnnotations(i, act, p))
  <2> DEFINE j == adjustAnnotations(i, act, p)
  <2>0. Marked(i) \in BOOLEAN /\ Setting(i) \in Plugins \cup {None} /\ p \in Plugins \cup {None}
    BY DEF Marked, Setting, Typed, Collected
  <2>1. CASE act = "keep"
    BY <1>4, <2>1 DEF adjustAnnotations
  <2>2. CASE act = "remove"
    <3>1. j.owner = i.owner /\ j.reply = Entries(TRUE, Setting(i)) /\ j.request = i.request
      BY <2>2 DEF adjustAnnotations, Replying
    <3>2. EntriesOwned(i) => Setting(i) = None \/ i.owner = OwnedBy(Setting(i))
      BY DEF EntriesOwned, Setting, Typed, Collected
    <3> HIDE DEF j
    <3> QED  BY <2>0, <3>1, <3>2, MapEntries DEF Typed, EntriesOwned, j
  <2>3. CASE act \in {"set", "replace"}
    <3> DEFINE before == IF act = "set" THEN i.owner ELSE ClearedBy(p)
               marked == IF act = "set" THEN Marked(i) ELSE TRUE
    <3>1. j.owner = claim(before, p) /\ j.reply = Entries(marked, p) /\ j.request = p
      BY <2>3 DEF adjustAnnotations
    <3>2. j.owner # Contested => j.owner = OwnedBy(p)
      BY <3>1, ClaimSucceeds
    <3>3. marked \in BOOLEAN
      BY <2>0
    <3> HIDE DEF j, before, marked
    <3> QED  BY <1>0, <2>0, <3>1, <3>2, <3>3, MapEntries DEF Typed, EntriesOwned, j
  <2> QED  BY <1>1, <2>1, <2>2, <2>3 DEF Acts
<1>15. Obliged(adjustLinuxNetDevices(i, act, p)) /\ Obliged(adjustSysctl(i, act, p))
  BY <1>4, <1>14 DEF adjustLinuxNetDevices, adjustSysctl
<1>16. kind \in Listed \cup Mapped
  BY ConstantsAssumption
<1> HIDE DEF Obliged, Told
<1>17. kind # "hooks" => Obliged(adjust(i, act, p, any))
  BY <1>5, <1>6, <1>7, <1>8, <1>10, <1>11, <1>13, <1>14, <1>15, <1>16 DEF adjust, Listed, Mapped, InOrder
<1>18. kind \in Listed => Told(adjust(i, act, p, any))
  BY <1>5, <1>6, <1>7, <1>8, <1>10, <1>11, <1>12, <1>13, <1>16 DEF adjust, Listed, Mapped, InOrder
<1>19. kind = "hooks" => Typed(adjust(i, act, p, any))
  BY <1>12 DEF adjust
<1> QED  BY <1>17, <1>18, <1>19 DEF Obliged, Told
-----------------------------------------------------------------------------
\* Merging keeps the types of items.
LEMMA AdjustTyped ==
    ASSUME NEW i \in Item, NEW act \in ActsOn(kind), NEW p \in Plugins, kind \in Kinds,
           NEW any \in BOOLEAN, kind = "sysctl" => ~Sets(act),
           adjust(i, act, p, any).owner # Contested
    PROVE  adjust(i, act, p, any) \in Item
<1> DEFINE j == adjust(i, act, p, any)
           owners == {Unowned} \cup [by : Plugins, cleared : BOOLEAN]
<1>1. i = [owner |-> i.owner, reply |-> i.reply, request |-> i.request] /\ Typed(i) /\ i.owner \in owners
  BY DEF Item, Typed
<1>2. act \in Acts
  BY DEF ActsOn, Acts
<1>3. j = [owner |-> j.owner, reply |-> j.reply, request |-> j.request]
  BY <1>1, <1>2, AdjustShape
<1>4. Typed(j)
  BY <1>1, AdjustEntries
<1>5. OwnedBy(p) \in owners /\ ClearedBy(p) \in owners
  BY DEF OwnedBy, ClearedBy
<1>6. j.owner \in owners
  <2>1. CASE kind # "hooks"
    <3>1. j.owner \in {i.owner, OwnedBy(p), ClearedBy(p)}
      BY <1>2, <2>1, AdjustOwner
    <3> QED  BY <1>1, <1>5, <3>1
  <2>2. CASE kind = "hooks"
    <3> DEFINE r == IF Sets(act) THEN Appended(i, p) ELSE i
               o == IF any THEN ClaimHooks(i.owner, p) ELSE i.owner
    <3>1. j = [r EXCEPT !.owner = o]
      BY <2>2 DEF adjust, adjustHooks
    <3>2. "owner" \in DOMAIN r
      BY <1>1 DEF Appended
    <3>3. j.owner = o
      BY <3>1, <3>2
    <3> QED  BY <1>1, <1>5, <3>3 DEF ClaimHooks
  <2> QED  BY <2>1, <2>2
<1> QED  BY <1>3, <1>4, <1>6 DEF Item, Typed

\* What was heard is what the last plugin asked for.
LEMMA HeardIsLast ==
    ASSUME Turns, NEW k \in Keys, NEW w, Heard(k, w)
    PROVE  w = LastWord(k)
<1> DEFINE speakers == {p \in Plugins : asked[p][k] # "keep"}
<1>1. CASE w = given[k] /\ \A p \in Plugins : asked[p][k] = "keep"
  <2>1. speakers = {}
    BY <1>1
  <2> QED  BY <1>1, <2>1 DEF LastWord
<1>2. CASE \E p \in Plugins :
               /\ asked[p][k] # "keep" /\ w = (IF Sets(asked[p][k]) THEN p ELSE None)
               /\ \A q \in Plugins : asked[q][k] # "keep" => q <= p
  <2>1. PICK p \in Plugins :
               /\ asked[p][k] # "keep" /\ w = (IF Sets(asked[p][k]) THEN p ELSE None)
               /\ \A q \in Plugins : asked[q][k] # "keep" => q <= p
    BY <1>2
  <2> DEFINE last == CHOOSE r \in speakers : \A q \in speakers : q <= r
  <2>2. p \in speakers /\ \A q \in speakers : q <= p
    BY <2>1
  <2>3. last \in speakers /\ \A q \in speakers : q <= last
    BY <2>2
  <2>4. last = p
    BY <2>2, <2>3, ConstantsAssumption DEF Plugins
  <2> QED  BY <2>1, <2>2, <2>4 DEF LastWord
<1> QED  BY <1>1, <1>2 DEF Heard

\* The response of the next plugin is the last word about what it touches.
LEMMA HeardNext ==
    ASSUME Turns, NEW response \in Responses, Responds(response),
           NEW k \in Keys, NEW w, Heard(k, w), NEW said,
           said = IF response[k] = "keep" THEN w
                  ELSE IF Sets(response[k]) THEN turn + 1 ELSE None
    PROVE  Heard(k, said)'
<1> DEFINE me == turn + 1
<1>1. /\ me \in Plugins
      /\ asked'[me][k] = response[k]
      /\ \A p \in Plugins : p # me => asked'[p][k] = asked[p][k]
      /\ given' = given /\ turn' = me
  BY RespondsTurns DEF Responds
<1>2. \A p \in Plugins : p >= me => asked[p][k] = "keep"
  BY <1>1, ConstantsAssumption DEF Turns, Plugins
<1>3. CASE response[k] = "keep"
  <2>1. \A p \in Plugins : asked'[p][k] = asked[p][k]
    BY <1>1, <1>2, <1>3, ConstantsAssumption DEF Plugins, Turns
  <2>2. (w = given[k] /\ \A p \in Plugins : asked[p][k] = "keep") => Heard(k, w)'
    BY <1>1, <2>1 DEF Heard
  <2>3. ASSUME NEW p \in Plugins, asked[p][k] # "keep",
               w = (IF Sets(asked[p][k]) THEN p ELSE None),
               \A q \in Plugins : asked[q][k] # "keep" => q <= p
        PROVE  Heard(k, w)'
    BY <1>1, <2>1, <2>3 DEF Heard
  <2>4. Heard(k, w)'
    BY <2>2, <2>3 DEF Heard
  <2> QED  BY <1>3, <2>4
<1>4. CASE response[k] # "keep"
  <2>1. \A q \in Plugins : asked'[q][k] # "keep" => q <= me
    BY <1>1, <1>2, ConstantsAssumption DEF Plugins, Turns
  <2>2. \E p \in Plugins :
           /\ asked'[p][k] # "keep" /\ said = (IF Sets(asked'[p][k]) THEN p ELSE None)
           /\ \A q \in Plugins : asked'[q][k] # "keep" => q <= p
    BY <1>1, <1>4, <2>1
  <2> QED  BY <2>2 DEF Heard
<1> QED  BY <1>3, <1>4
-----------------------------------------------------------------------------
LEMMA OutcomeInit == Init => OutcomeInv
<1> SUFFICES ASSUME Init PROVE OutcomeInv
  OBVIOUS
<1>1. Turns
  BY OwnerInit DEF OwnerInv
<1>2. ASSUME NEW k \in Keys
      PROVE  /\ item[k].owner = Unowned /\ item[k].reply = <<>> /\ item[k].request = given[k]
             /\ item[k] \in Item
             /\ given[k] \in Settings /\ given[k] \notin Plugins
  <2>1. item[k] = [owner |-> Unowned, reply |-> <<>>, request |-> given[k]]
    BY DEF Init
  <2>2. given[k] \in Settings /\ given[k] \notin Plugins
    BY ConstantsAssumption DEF Init, Settings
  <2> QED  BY <2>1, <2>2 DEF Item
<1>3. TypeOK
  <2>1. item \in [Keys -> Item]
    BY <1>2 DEF Init
  <2>2. given \in [Keys -> Settings]
    BY DEF Init, Settings
  <2> QED  BY <1>1, <2>1, <2>2 DEF Init, TypeOK, Turns
<1>4. \A k \in Keys : EntriesOwned(item[k])
  BY <1>2 DEF EntriesOwned
<1>5. ASSUME NEW k \in Keys
      PROVE  \E w \in Settings : Heard(k, w) /\ Agreed(k, w)
  <2>1. Heard(k, given[k])
    BY DEF Init, Heard
  <2>2. Agreed(k, given[k])
    BY <1>2 DEF Agreed, Outcome
  <2> QED  BY <1>2, <2>1, <2>2
<1> QED  BY <1>1, <1>3, <1>4, <1>5 DEF Init, OutcomeInv

\* A response that is merged is the last word in the reply and to the next plugin.
LEMMA OutcomeApply ==
    ASSUME OutcomeInv, NEW response \in Responses, Apply(response)
    PROVE  OutcomeInv'
<1> DEFINE me == turn + 1
           any == SetsAny(response)
<1>1. /\ TypeOK /\ Turns /\ kind \in Kinds
      /\ status = "merging" /\ status' = "merging" /\ kind' = kind /\ given' = given /\ created' = created
  BY DEF OutcomeInv, Apply, Responds, Turns
<1>2. /\ Turns' /\ me \in Plugins
      /\ \A k \in Keys : response[k] \in ActsOn(kind)
  BY <1>1, RespondsTurns DEF Apply, Responses
<1>3. any \in BOOLEAN /\ (kind = "sysctl" => \A k \in Keys : ~Sets(response[k]))
  BY DEF SetsAny, Apply, Panics
<1>4. /\ item' = [k \in Keys |-> adjust(item[k], response[k], me, any)]
      /\ \A k \in Keys : adjust(item[k], response[k], me, any).owner # Contested
  BY DEF Apply, Adjusted, Conflict
<1>5. ASSUME NEW k \in Keys
      PROVE  /\ item'[k] \in Item /\ Typed(item'[k])
             /\ kind # "hooks" => EntriesOwned(item'[k])
             /\ kind \in Listed => Says(item[k], item'[k], response[k], me)
  <2> DEFINE i == item[k]
             act == response[k]
  <2>1. i \in Item /\ act \in ActsOn(kind) /\ (kind = "sysctl" => ~Sets(act))
    BY <1>1, <1>2, <1>3 DEF TypeOK
  <2>2. adjust(i, act, me, any).owner # Contested /\ item'[k] = adjust(i, act, me, any)
    BY <1>4
  <2>3. Typed(i)
    BY <2>1 DEF Item, Typed
  <2>4. kind # "hooks" => EntriesOwned(i)
    BY DEF OutcomeInv
  <2> HIDE DEF i, act, me, any
  <2>5. adjust(i, act, me, any) \in Item
    BY <1>1, <1>2, <1>3, <2>1, <2>2, AdjustTyped
  <2>6. /\ Typed(adjust(i, act, me, any))
        /\ kind # "hooks" => EntriesOwned(adjust(i, act, me, any))
        /\ kind \in Listed => Says(i, adjust(i, act, me, any), act, me)
    BY <1>1, <1>2, <1>3, <2>1, <2>2, <2>3, <2>4, AdjustEntries
  <2> QED  BY <2>2, <2>5, <2>6 DEF i, act
<1>6. TypeOK'
  <2>1. item' \in [Keys -> Item]
    BY <1>4, <1>5
  <2> QED  BY <1>1, <1>2, <2>1 DEF TypeOK, Turns
<1>7. ASSUME NEW k \in Keys
      PROVE  \E w \in Settings : Heard(k, w)' /\ Agreed(k, w)'
  <2>1. PICK w \in Settings : Heard(k, w) /\ Agreed(k, w)
    BY <1>1 DEF OutcomeInv
  <2> DEFINE act == response[k]
  <2>0. PICK said : said = IF act = "keep" THEN w ELSE IF Sets(act) THEN me ELSE None
    OBVIOUS
  <2>2. Heard(k, said)'
    BY <1>1, <2>0, <2>1, HeardNext DEF Apply
  <2>3. said \in Settings
    BY <1>2, <2>0, <2>1 DEF Settings
  <2>4. Typed(item[k]) /\ Typed(item'[k])
    BY <1>1, <1>5 DEF TypeOK, Item, Typed
  <2>5. act \in {"keep", "remove"} \/ Sets(act)
    BY <1>2 DEF ActsOn, Acts, Sets
  <2>6. ~Sets("keep") /\ ~Sets("remove")
    BY DEF Sets
  <2>7. kind \in InOrder => kind \in Listed
    BY DEF InOrder, Listed
  <2>8. CASE act = "keep"
    <3>1. said = w
      BY <2>0, <2>8
    <3>2. kind \in InOrder => item'[k].reply = item[k].reply /\ item'[k].request = item[k].request
      BY <1>5, <2>7, <2>8 DEF Says
    <3>3. kind \in Listed /\ w \in Plugins => item'[k].reply = item[k].reply
      <4> SUFFICES ASSUME kind \in Listed, w \in Plugins PROVE item'[k].reply = item[k].reply
        OBVIOUS
      <4>1. item[k].reply # <<>> /\ item[k].reply[Len(item[k].reply)] = w
        BY <2>1 DEF Agreed, Outcome
      <4>2. Len(item[k].reply) \in DOMAIN item[k].reply /\ w # None
        BY <2>4, <4>1, ConstantsAssumption DEF Typed
      <4>3. Collected(item[k])
        BY <4>1, <4>2 DEF Collected
      <4> QED  BY <1>5, <2>8, <4>3 DEF Says
    <3>4. Agreed(k, said)'
      BY <1>1, <2>1, <3>1, <3>2, <3>3 DEF Agreed, Outcome
    <3> QED  BY <2>2, <2>3, <3>4
  <2>9. CASE act = "remove"
    <3>1. said = None /\ None \notin Plugins
      BY <2>0, <2>6, <2>9, ConstantsAssumption
    <3>2. kind \in InOrder => /\ item'[k].request = None
                              /\ item'[k].reply # <<>> /\ item'[k].reply[Len(item'[k].reply)] = None
      BY <1>5, <2>7, <2>9 DEF Says
    <3>3. Agreed(k, said)'
      BY <1>1, <3>1, <3>2 DEF Agreed, Outcome
    <3> QED  BY <2>2, <2>3, <3>3
  <2>10. CASE Sets(act)
    <3>1. said = me
      BY <2>0, <2>6, <2>10
    <3>2. /\ kind \in InOrder => item'[k].request = me
          /\ kind \in Listed => item'[k].reply # <<>> /\ item'[k].reply[Len(item'[k].reply)] = me
      BY <1>5, <2>7, <2>10 DEF Says
    <3>3. Agreed(k, said)'
      BY <1>1, <2>7, <3>1, <3>2 DEF Agreed, Outcome
    <3> QED  BY <2>2, <2>3, <3>3
  <2> QED  BY <2>5, <2>8, <2>9, <2>10
<1> QED  BY <1>1, <1>2, <1>5, <1>6, <1>7 DEF OutcomeInv

LEMMA OutcomeNext == OutcomeInv /\ [Next]_vars => OutcomeInv'
<1> SUFFICES ASSUME OutcomeInv, [Next]_vars PROVE OutcomeInv'
  OBVIOUS
<1>1. ASSUME NEW response \in Responses, Apply(response)
      PROVE  OutcomeInv'
  BY <1>1, OutcomeApply
<1>2. ASSUME NEW response \in Responses, Refuse(response) \/ Panic(response)
      PROVE  OutcomeInv'
  <2>1. Turns' /\ Responds(response)
    BY <1>2, RespondsTurns DEF Refuse, Panic, OutcomeInv
  <2>2. UNCHANGED <<kind, given, item, created>> /\ status' \in {"failed", "panicked"}
    BY <1>2 DEF Refuse, Panic, Responds
  <2>3. TypeOK'
    BY <2>1, <2>2 DEF OutcomeInv, TypeOK, Turns
  <2>4. kind' # "hooks" => \A k \in Keys : EntriesOwned(item'[k])
    BY <2>2 DEF OutcomeInv
  <2> QED  BY <2>1, <2>2, <2>3, <2>4 DEF OutcomeInv
<1>3. CASE Generate
  <2>1. UNCHANGED <<kind, given, item, turn, asked>> /\ status = "merging" /\ status' = "created"
    BY <1>3 DEF Generate
  <2>2. TypeOK' /\ Turns'
    BY <1>3, <2>1 DEF OutcomeInv, TypeOK, Turns, Generate
  <2>3. \A k \in Keys : \E w \in Settings : Heard(k, w)' /\ Agreed(k, w)'
    BY <2>1 DEF OutcomeInv, Heard, Agreed
  <2>4. kind \in Listed => kind \notin Mapped
    BY DEF Listed, Mapped
  <2>5. kind \in Listed \ Dropped => \A k \in Keys : created'[k] = Outcome(item[k], given[k])
    BY <1>3, <2>4 DEF Generate, Generated, AppliedInOrder, Outcome
  <2>6. kind' # "hooks" => \A k \in Keys : EntriesOwned(item'[k])
    BY <2>1 DEF OutcomeInv
  <2> QED  BY <2>1, <2>2, <2>3, <2>5, <2>6 DEF OutcomeInv
<1>4. CASE UNCHANGED vars
  <2>1. UNCHANGED <<kind, given, item, turn, asked, status, created>>
    BY <1>4 DEF vars
  <2>2. TypeOK' /\ Turns'
    BY <2>1 DEF OutcomeInv, TypeOK, Turns
  <2> QED  BY <2>1, <2>2 DEF OutcomeInv, Heard, Agreed
<1> QED  BY <1>1, <1>2, <1>3, <1>4 DEF Next

LEMMA OutcomeInvariant == Spec => []OutcomeInv
BY OutcomeInit, OutcomeNext, PTL DEF Spec

\* Whatever plugins ask for, the items, the record of what was asked and the OCI
\* Spec stay what they are declared to be; in particular no contested item is merged.
THEOREM MergingIsTyped == Spec => []TypeOK
<1>1. OutcomeInv => TypeOK
  BY DEF OutcomeInv
<1> QED  BY <1>1, OutcomeInvariant, PTL

\* Who has a setting in the reply is the recorded owner of the item, so the
\* conflict check and the validators, which go by the records (claimCompound,
\* clearCompound), are right about it.
THEOREM OwnersAreRight == Spec => []OwnersMatchReply
<1>1. OutcomeInv => OwnersMatchReply
  BY DEF OutcomeInv, EntriesOwned, OwnersMatchReply
<1> QED  BY <1>1, OutcomeInvariant, PTL

\* The container shown to the next plugin is the one that would be created if
\* nobody asked for more (create.Container and reply.adjust agree).
THEOREM ShownIsOutcome == Spec => []PluginsSeeOutcome
<1>1. OutcomeInv => PluginsSeeOutcome
  <2> SUFFICES ASSUME OutcomeInv, kind \in InOrder, status = "merging", NEW k \in Keys
               PROVE  Generated(k) = {item[k].request}
    BY DEF PluginsSeeOutcome
  <2>1. Outcome(item[k], given[k]) = item[k].request
    BY DEF OutcomeInv, Agreed
  <2>2. kind \notin Mapped /\ kind \notin Dropped
    BY DEF InOrder, Mapped, Dropped
  <2> QED  BY <2>1, <2>2 DEF Outcome, Generated, AppliedInOrder
<1> QED  BY <1>1, OutcomeInvariant, PTL

\* The created container has what the last plugin to touch an item of a list asked
\* for: a setting always, a removal where its mark reaches the runtime.
THEOREM LastSettingWins == Spec => []OrderedLastWordWins
<1>1. OutcomeInv => OrderedLastWordWins
  <2> SUFFICES ASSUME OutcomeInv, status = "created", kind \in Listed \ Dropped, NEW k \in Keys,
                      kind \in InOrder \/ LastWord(k) \in Plugins
               PROVE  created[k] = LastWord(k)
    BY DEF OrderedLastWordWins
  <2>1. PICK w \in Settings : Heard(k, w) /\ Agreed(k, w)
    BY DEF OutcomeInv
  <2>2. w = LastWord(k)
    BY <2>1, HeardIsLast DEF OutcomeInv
  <2>3. created[k] = Outcome(item[k], given[k])
    BY DEF OutcomeInv
  <2> QED  BY <2>1, <2>2, <2>3 DEF Agreed
<1> QED  BY <1>1, OutcomeInvariant, PTL
-----------------------------------------------------------------------------
(***************************************************************************)
(* The refinement of Ownership.  The setting of a map comes after its mark *)
(* of removal, sysctls have none, and on record for an item is a plugin    *)
(* that asked something about it.                                          *)
(***************************************************************************)
MapEnds(i) ==
    /\ kind \in Mapped /\ Collected(i) => i.reply[Len(i.reply)] # None
    /\ kind = "sysctl" => ~Collected(i)

Blamed(k) ==
    item[k].owner # Unowned =>
        \E q \in Plugins : /\ item[k].owner \in {OwnedBy(q), ClearedBy(q)}
                          /\ Wish(asked[q][k]) # "keep"

OwnedInv ==
    /\ OwnerInv /\ OutcomeInv
    /\ status \in {"merging", "created"} /\ kind # "hooks" =>
           \A k \in Keys : MapEnds(item[k]) /\ Blamed(k)

\* What a plugin asks of an item decides who has it, and an item is refused only if
\* it is on record as another one's.
Rules(i, j, act, p) ==
    /\ j.owner = Contested =>
          Wish(act) # "keep" /\ (Wish(act) = "twice" \/ i.owner # Unowned)
    /\ j.owner # Contested =>
          /\ Wish(act) # "twice"
          /\ j.owner = i.owner \/ (j.owner \in {OwnedBy(p), ClearedBy(p)} /\ Wish(act) # "keep")
          /\ Holder(j) = IF Wish(act) \in Owned!Setting THEN p
                         ELSE IF Wish(act) = "remove" THEN None ELSE Holder(i)
          /\ MapEnds(j)

LEMMA AdjustHolds ==
    ASSUME NEW i, Typed(i), EntriesOwned(i), MapEnds(i), i.owner # Contested,
           NEW act \in ActsOn(kind), NEW p \in Plugins, kind \in Kinds, kind # "hooks",
           NEW any \in BOOLEAN, kind = "sysctl" => ~Sets(act)
    PROVE  Rules(i, adjust(i, act, p, any), act, p)
<1> DEFINE un == Unlisted(i, p)
<1>0. /\ \A q, s \in Plugins : ClearedBy(q) # OwnedBy(s) /\ Unowned # OwnedBy(s)
      /\ None \notin Plugins /\ p # None /\ OwnedBy(p).by = p /\ act \in Acts
      /\ Contested # OwnedBy(p) /\ Contested # Unowned /\ Contested # ClearedBy(p)
      /\ OwnedBy(p) # Unowned /\ OwnedBy(p) # ClearedBy(p) /\ Unowned # ClearedBy(p)
      /\ i.reply \in Seq(Plugins \cup {None})
  BY ConstantsAssumption DEF ClearedBy, OwnedBy, Unowned, Contested, ActsOn, Acts, Typed
\* An entry added to an item.
<1>1. ASSUME NEW h, h.reply \in Seq(Plugins \cup {None}), NEW x \in Plugins \cup {None},
             NEW o, NEW s
      PROVE  LET j == [owner |-> o, reply |-> Append(h.reply, x), request |-> s]
             IN Collected(j) <=> x # None \/ Collected(h)
  <2> DEFINE j == [owner |-> o, reply |-> Append(h.reply, x), request |-> s]
  <2>1. j.reply = Append(h.reply, x)
    OBVIOUS
  <2>2. /\ DOMAIN j.reply = 1..(Len(h.reply) + 1) /\ j.reply[Len(h.reply) + 1] = x
        /\ DOMAIN h.reply = 1..Len(h.reply) /\ Len(h.reply) \in Nat
        /\ \A e \in 1..Len(h.reply) : j.reply[e] = h.reply[e]
    BY <1>1, <2>1
  <2> HIDE DEF j
  <2>3. \A e \in 1..(Len(h.reply) + 1) : e \in 1..Len(h.reply) \/ e = Len(h.reply) + 1
    BY <2>2
  <2>4. Len(h.reply) + 1 \in 1..(Len(h.reply) + 1) /\ 1..Len(h.reply) \subseteq 1..(Len(h.reply) + 1)
    BY <2>2
  <2>5. Collected(j) <=> x # None \/ Collected(h)
    BY <2>2, <2>3, <2>4 DEF Collected
  <2> QED  BY <2>5 DEF j
<1>2. un.reply \in Seq(Plugins \cup {None}) /\ ~Collected(un)
      /\ un.owner = IF Collected(i) THEN ClearedBy(p) ELSE i.owner
  BY <1>0, MarksAreMarks DEF Unlisted, Collected
<1>3. i.owner \in {Unowned, ClearedBy(p)} => ~Collected(i)
  BY <1>0 DEF EntriesOwned, Collected, Typed
\* A claim of an item, with an entry for it.
<1>4. ASSUME NEW h, h.reply \in Seq(Plugins \cup {None})
      PROVE  /\ Appended(h, p).owner = claim(h.owner, p)
             /\ Collected(Appended(h, p))
  BY <1>0, <1>1, <1>4 DEF Appended
<1>5. CASE kind = "mounts"
  <2>1. /\ ~Collected(Replying(un, Append(un.reply, None)))
        /\ Replying(un, Append(un.reply, None)).owner = un.owner
    BY <1>0, <1>1, <1>2 DEF Replying
  <2>2. adjust(i, act, p, any) = adjustMounts(i, act, p)
    BY <1>5 DEF adjust
  <2> QED
    BY <1>0, <1>2, <1>4, <1>5, <2>1, <2>2
       DEF adjustMounts, Rules, Wish, Holder, Acts, Sets, Removes, claim, MapEnds, Mapped,
           Owned!Setting
<1>6. CASE kind \in {"devices", "env"}
  <2>1. adjust(i, act, p, any) = adjustDevices(i, act, p)
    BY <1>6 DEF adjust, adjustDevices, adjustEnv
  <2> QED
    BY <1>0, <1>2, <1>4, <1>6, <2>1
       DEF adjustDevices, Rules, Wish, Holder, Acts, Sets, Removes, claim, MapEnds, Mapped,
           Owned!Setting
<1>7. CASE kind = "args"
  <2>1. adjust(i, act, p, any) = adjustArgs(i, act, p) /\ act \in {"keep", "set", "replace"}
    BY <1>7 DEF adjust, ActsOn, Acts
  <2>2. \A o : Collected([owner |-> o, reply |-> <<p>>, request |-> p])
    BY <1>0 DEF Collected
  <2> QED
    BY <1>0, <1>7, <2>1, <2>2
       DEF adjustArgs, Rules, Wish, Holder, Sets, Removes, claim, MapEnds, Mapped, Owned!Setting
<1>8. CASE kind = "namespaces"
  <2> DEFINE r == [owner |-> claim(i.owner, p), reply |-> Append(i.reply, None), request |-> None]
  <2>1. /\ adjust(i, act, p, any) = adjustNamespaces(i, act, p)
        /\ r.reply \in Seq(Plugins \cup {None}) /\ r.owner = claim(i.owner, p)
        /\ Collected(r) <=> Collected(i)
    BY <1>0, <1>1, <1>8 DEF adjust
  <2> QED
    BY <1>0, <1>3, <1>4, <1>8, <2>1
       DEF adjustNamespaces, Rules, Wish, Holder, Acts, Sets, Removes, claim, MapEnds, Mapped,
           Owned!Setting
<1>9. CASE kind \in {"resources", "memory", "cdi"}
  <2> DEFINE j == adjust(i, act, p, any)
  <2>1. /\ act \in {"keep", "set"}
        /\ act = "keep" => j = i
        /\ act = "set" => j.owner = claim(i.owner, p) /\ j.reply = Append(i.reply, p)
    BY <1>9 DEF adjust, adjustResources, adjustCDIDevices, ActsOn, Sets, Appended
  <2>2. act = "set" => Collected(j)
    BY <1>0, <1>4, <2>1 DEF Appended, Collected
  <2> HIDE DEF j
  <2>3. Rules(i, j, act, p)
    BY <1>0, <1>9, <2>1, <2>2
       DEF Rules, Wish, Holder, claim, MapEnds, Mapped, Owned!Setting
  <2> QED  BY <2>3 DEF j
<1>10. CASE kind \in {"annotations", "netdevices"}
  <2>0. PICK j : j = adjust(i, act, p, any)
    OBVIOUS
  <2> SUFFICES Rules(i, j, act, p)
    BY <2>0
  <2>1. /\ act = "keep" => j = i
        /\ act = "remove" => j.owner = i.owner /\ j.reply = Entries(TRUE, Setting(i))
        /\ act = "set" => j.owner = claim(i.owner, p) /\ j.reply = Entries(Marked(i), p)
        /\ act = "replace" => j.owner = claim(ClearedBy(p), p) /\ j.reply = Entries(TRUE, p)
    BY <1>10, <2>0 DEF adjust, adjustAnnotations, adjustLinuxNetDevices, Replying
  <2>2. ASSUME NEW marked \in BOOLEAN, NEW x \in Plugins, j.reply = Entries(marked, x)
        PROVE  Collected(j) /\ j.reply[Len(j.reply)] # None
    <3>1. CASE marked
      <4>1. j.reply = <<None>> \o <<x>>
        BY <1>0, <2>2, <3>1 DEF Entries
      <4>2. 2 \in DOMAIN j.reply /\ Len(j.reply) = 2 /\ j.reply[2] = x
        BY <4>1
      <4> QED  BY <1>0, <4>2 DEF Collected
    <3>2. CASE ~marked
      <4>1. j.reply = <<x>>
        BY <1>0, <2>2, <3>2 DEF Entries
      <4> QED  BY <1>0, <4>1 DEF Collected
    <3> QED  BY <3>1, <3>2
  <2>3. ASSUME j.reply = Entries(TRUE, None)
        PROVE  ~Collected(j)
    BY <2>3, MapEntries DEF Collected
  <2>4. Marked(i) \in BOOLEAN
    BY DEF Marked
  <2>5. CASE act = "keep"
    BY <1>0, <1>10, <2>1, <2>5 DEF Rules, Wish, Owned!Setting
  <2>6. CASE act = "remove"
    <3>1. CASE Collected(i)
      <4>1. Setting(i) \in Plugins
        <5>1. i.reply[Len(i.reply)] # None
          BY <1>10, <3>1 DEF MapEnds, Mapped
        <5>2. Len(i.reply) \in DOMAIN i.reply
          BY <1>0, <3>1 DEF Collected
        <5> QED  BY <1>0, <3>1, <5>1, <5>2 DEF Setting
      <4>2. Collected(j) /\ j.reply[Len(j.reply)] # None
        BY <2>1, <2>2, <2>6, <4>1
      <4> QED  BY <1>0, <1>10, <2>1, <2>6, <3>1, <4>2 DEF Rules, Wish, Holder, MapEnds, Owned!Setting
    <3>2. CASE ~Collected(i)
      <4>1. ~Collected(j)
        BY <2>1, <2>3, <2>6, <3>2 DEF Setting
      <4> QED  BY <1>0, <1>10, <2>1, <2>6, <3>2, <4>1 DEF Rules, Wish, Holder, MapEnds, Owned!Setting
    <3> QED  BY <3>1, <3>2
  <2>7. CASE Sets(act)
    <3>1. Collected(j) /\ j.reply[Len(j.reply)] # None
      BY <2>1, <2>2, <2>4, <2>7 DEF Sets
    <3> QED
      BY <1>0, <1>10, <2>1, <2>7, <3>1 DEF Rules, Wish, Holder, Sets, claim, MapEnds, Owned!Setting
  <2> QED  BY <1>0, <2>5, <2>6, <2>7 DEF Acts, Sets
<1>11. CASE kind = "rdt"
  <2>0. PICK j : j = adjust(i, act, p, any)
    OBVIOUS
  <2> SUFFICES Rules(i, j, act, p)
    BY <2>0
  <2>1. /\ Sets(act) => /\ j.owner = claim(IF Removes(act) THEN ClearedBy(p) ELSE i.owner, p)
                        /\ j.reply = <<p>>
        /\ act = "remove" => j.owner = ClearedBy(p) /\ j.reply \in {<<>>, <<None>>}
        /\ act = "keep" => j.owner = i.owner /\ (j.reply = i.reply \/ (j.reply = <<>> /\ ~Collected(i)))
    <3>1. j = adjustRdt(i, act, p, any)
      BY <1>11, <2>0 DEF adjust
    <3>2. CASE Sets(act)
      <4>1. CASE act = "set"
        BY <3>1, <4>1 DEF adjustRdt, Sets, Removes
      <4>2. CASE act = "replace"
        BY <3>1, <4>2 DEF adjustRdt, Sets, Removes
      <4> QED  BY <3>2, <4>1, <4>2 DEF Sets
    <3>3. CASE act = "remove"
      <4> DEFINE cleared == [owner |-> ClearedBy(p), reply |-> <<None>>, request |-> i.request]
      <4>1. j = Replying(cleared, IF any /\ ~Collected(cleared) THEN <<>> ELSE cleared.reply)
        BY <3>1, <3>3 DEF adjustRdt, Sets, Removes
      <4> QED  BY <3>3, <4>1 DEF Replying, Sets
    <3>4. CASE act = "keep"
      <4>1. j = Replying(i, IF any /\ ~Collected(i) THEN <<>> ELSE i.reply)
        BY <3>1, <3>4 DEF adjustRdt, Sets, Removes
      <4> QED  BY <3>4, <4>1 DEF Replying, Sets
    <3> QED  BY <1>0, <3>2, <3>3, <3>4 DEF Acts, Sets
  <2>2. /\ Sets(act) => Collected(j)
        /\ act = "remove" => ~Collected(j)
        /\ act = "keep" => (Collected(j) <=> Collected(i))
    BY <1>0, <2>1 DEF Collected
  <2> QED  BY <1>0, <1>11, <2>1, <2>2
       DEF Rules, Wish, Holder, Acts, Sets, Removes, claim, MapEnds, Mapped, Owned!Setting
<1>12. CASE kind = "sysctl"
  BY <1>0, <1>12 DEF adjust, adjustSysctl, Rules, Wish, Holder, Acts, Sets, MapEnds, Owned!Setting
<1> QED
  BY <1>5, <1>6, <1>7, <1>8, <1>9, <1>10, <1>11, <1>12, ConstantsAssumption DEF Listed, Mapped

\* What a response that is merged does to every item.
LEMMA ApplyHolds ==
    ASSUME OwnedInv, kind # "hooks", status = "merging", NEW response \in Responses,
           Responds(response), ~Panics(response), NEW k \in Keys
    PROVE  /\ Rules(item[k], Adjusted(response)[k], response[k], turn + 1)
           /\ item[k].owner # Contested /\ turn + 1 \in Plugins
<1> DEFINE any == SetsAny(response)
<1>1. /\ TypeOK /\ Turns /\ kind \in Kinds /\ EntriesOwned(item[k]) /\ MapEnds(item[k])
  BY DEF OwnedInv, OutcomeInv, Turns
<1>2. turn + 1 \in Plugins /\ response[k] \in ActsOn(kind)
  BY <1>1, RespondsTurns DEF Responses
<1>3. any \in BOOLEAN /\ (kind = "sysctl" => ~Sets(response[k]))
  BY DEF SetsAny, Panics
<1>4. PICK i, act, me : i = item[k] /\ act = response[k] /\ me = turn + 1
  OBVIOUS
<1>5. Typed(i) /\ i.owner # Contested
  BY <1>1, <1>4, ConstantsAssumption DEF TypeOK, Item, Typed, Contested, Unowned
<1>6. Rules(i, adjust(i, act, me, any), act, me)
  <2> HIDE DEF any
  <2> QED  BY <1>1, <1>2, <1>3, <1>4, <1>5, AdjustHolds
<1> QED  BY <1>2, <1>4, <1>5, <1>6 DEF Adjusted

LEMMA OwnedInit == Init => OwnedInv
<1> SUFFICES ASSUME Init PROVE OwnedInv
  OBVIOUS
<1>1. OwnerInv /\ OutcomeInv
  BY OwnerInit, OutcomeInit
<1>2. \A k \in Keys : MapEnds(item[k]) /\ Blamed(k)
  BY DEF Init, MapEnds, Blamed, Collected
<1> QED  BY <1>1, <1>2 DEF OwnedInv

LEMMA OwnedNext == OwnedInv /\ [Next]_vars => OwnedInv'
<1> SUFFICES ASSUME OwnedInv, [Next]_vars PROVE OwnedInv'
  OBVIOUS
<1>1. OwnerInv' /\ OutcomeInv'
  BY OwnerNext, OutcomeNext DEF OwnedInv
<1>2. SUFFICES ASSUME status' \in {"merging", "created"}, kind' # "hooks", NEW k \in Keys
               PROVE  MapEnds(item[k])' /\ Blamed(k)'
  BY <1>1 DEF OwnedInv
<1>3. ASSUME NEW response \in Responses, Apply(response)
      PROVE  MapEnds(item[k])' /\ Blamed(k)'
  <2>1. /\ status = "merging" /\ kind' = kind /\ Responds(response) /\ ~Panics(response)
        /\ item' = Adjusted(response) /\ ~Conflict(Adjusted(response))
    BY <1>3 DEF Apply, Responds
  <2>2. /\ Rules(item[k], item'[k], response[k], turn + 1)
        /\ turn + 1 \in Plugins
    BY <1>2, <2>1, ApplyHolds
  <2>3. item'[k].owner # Contested
    BY <2>1 DEF Conflict
  <2>4. Blamed(k) /\ Turns
    BY <1>2, <2>1 DEF OwnedInv, OwnerInv
  <2>5. /\ asked'[turn + 1][k] = response[k]
        /\ \A p \in Plugins : p # turn + 1 => asked'[p][k] = asked[p][k]
        /\ asked[turn + 1][k] = "keep"
    BY <2>1, <2>2, <2>4, RespondsTurns DEF Turns, Plugins
  <2>6. MapEnds(item[k])'
    BY <2>1, <2>2, <2>3 DEF Rules, MapEnds
  <2>7. \A q \in Plugins : Wish(asked[q][k])' = IF q = turn + 1 THEN Wish(response[k])
                                                               ELSE Wish(asked[q][k])
    BY <2>1, <2>5 DEF Wish
  <2>8. Wish(asked[turn + 1][k]) = "keep"
    BY <2>5 DEF Wish
  <2>9. ASSUME item'[k].owner # Unowned
        PROVE  \E q \in Plugins : /\ item'[k].owner \in {OwnedBy(q), ClearedBy(q)}
                                  /\ Wish(asked[q][k])' # "keep"
    <3>1. CASE item'[k].owner = item[k].owner
      <4>1. PICK q \in Plugins : /\ item[k].owner \in {OwnedBy(q), ClearedBy(q)}
                                 /\ Wish(asked[q][k]) # "keep"
        BY <2>4, <2>9, <3>1 DEF Blamed
      <4>2. q # turn + 1
        BY <2>8, <4>1
      <4>3. Wish(asked[q][k])' # "keep"
        BY <2>7, <4>1, <4>2
      <4> QED  BY <3>1, <4>1, <4>3
    <3>2. CASE item'[k].owner # item[k].owner
      <4>1. /\ item'[k].owner \in {OwnedBy(turn + 1), ClearedBy(turn + 1)}
            /\ Wish(response[k]) # "keep"
        BY <2>2, <2>3, <3>2 DEF Rules
      <4>2. PICK me \in Plugins : me = turn + 1
        BY <2>2
      <4>3. Wish(asked[me][k])' # "keep"
        BY <2>7, <4>1, <4>2
      <4> QED  BY <4>1, <4>2, <4>3
    <3> QED  BY <3>1, <3>2
  <2>10. Blamed(k)'
    BY <2>9 DEF Blamed
  <2> QED  BY <2>6, <2>10
<1>4. ASSUME NEW response \in Responses, Refuse(response) \/ Panic(response)
      PROVE  MapEnds(item[k])' /\ Blamed(k)'
  BY <1>2, <1>4 DEF Refuse, Panic
<1>5. CASE Generate \/ UNCHANGED vars
  <2>1. UNCHANGED <<kind, item, asked>> /\ status \in {"merging", "created"}
    BY <1>2, <1>5 DEF Generate, vars
  <2>2. MapEnds(item[k]) /\ Blamed(k)
    BY <1>2, <2>1 DEF OwnedInv
  <2> QED  BY <2>1, <2>2 DEF MapEnds, Blamed, Wish, Collected
<1> QED  BY <1>3, <1>4, <1>5 DEF Next

\* The wish of a response.
LEMMA WishKept ==
    ASSUME OwnedInv, NEW response \in Responses, Responds(response)
    PROVE  LET wish == [k \in Keys |-> Wish(response[k])]
           IN /\ wish \in [Keys -> Owned!Wishes]
              /\ [p \in Plugins |-> [k \in Keys |-> Wish(asked[p][k])]]' =
                    [[p \in Plugins |-> [k \in Keys |-> Wish(asked[p][k])]] EXCEPT ![turn + 1] = wish]
<1>1. Turns /\ kind' = kind
  BY DEF OwnedInv, OwnerInv, Responds
<1>2. /\ turn + 1 \in Plugins /\ response \in [Keys -> Acts]
      /\ \A k \in Keys : asked'[turn + 1][k] = response[k]
      /\ \A p \in Plugins, k \in Keys : p # turn + 1 => asked'[p][k] = asked[p][k]
  BY <1>1, RespondsTurns
<1>3. \A act : Wish(act)' = Wish(act)
  BY <1>1 DEF Wish
<1>4. \A act \in Acts : Wish(act) \in Owned!Wishes
  BY DEF Wish, Acts, Owned!Wishes
<1> QED  BY <1>2, <1>3, <1>4

\* A response that is merged is granted, and the items are held accordingly.
LEMMA ApplyGrants ==
    ASSUME OwnedInv, OwnedInv', NEW response \in Responses, Apply(response)
    PROVE  Owned!Next
<1>0. /\ Responds(response) /\ status = "merging" /\ turn < N /\ turn' = turn + 1
      /\ UNCHANGED <<kind, status>> /\ ~Panics(response)
      /\ item' = Adjusted(response) /\ ~Conflict(Adjusted(response))
  BY DEF Apply, Responds
<1>1. Turns /\ (kind # "hooks" => NoSilentOverride')
  BY <1>0 DEF OwnedInv, OwnerInv
<1>2. PICK wish \in [Keys -> Owned!Wishes] :
        /\ wish = [k \in Keys |-> Wish(response[k])]
        /\ [p \in Plugins |-> [k \in Keys |-> Wish(asked[p][k])]]' =
              [[p \in Plugins |-> [k \in Keys |-> Wish(asked[p][k])]] EXCEPT ![turn + 1] = wish]
  BY <1>0, WishKept
<1>3. Owned!Ask(wish)
  BY <1>0, <1>2 DEF Owned!Ask
<1>4. ASSUME NEW k \in Keys
      PROVE  /\ wish[k] # "twice"
             /\ Holder(item[k])' = IF wish[k] \in Owned!Setting THEN turn + 1
                                   ELSE IF wish[k] = "remove" THEN None ELSE Holder(item[k])
  <2>1. CASE kind = "hooks"
    BY <1>0, <1>2, <2>1 DEF Wish, Holder, Owned!Setting
  <2>2. CASE kind # "hooks"
    <3>1. Rules(item[k], item'[k], response[k], turn + 1)
      BY <1>0, <2>2, ApplyHolds
    <3>2. item'[k].owner # Contested
      BY <1>0 DEF Conflict
    <3>3. Holder(item[k])' = Holder(item'[k])
      BY <1>0 DEF Holder, Collected
    <3> QED  BY <1>2, <3>1, <3>2, <3>3 DEF Rules
  <2> QED  BY <2>1, <2>2
<1>5. ASSUME NEW k \in Keys, wish[k] = "set", NEW p \in Plugins,
             Wish(asked[p][k]) \in Owned!Setting
      PROVE  FALSE
  <2>1. kind # "hooks" /\ response[k] = "set" /\ Sets(asked[p][k])
    BY <1>2, <1>5 DEF Wish, Owned!Setting, Sets
  <2>2. /\ p \in Nat /\ p < turn + 1 /\ turn + 1 \in Plugins
        /\ asked'[p][k] = asked[p][k] /\ asked'[turn + 1][k] = response[k]
    <3>1. /\ turn + 1 \in Plugins /\ asked'[turn + 1][k] = response[k]
          /\ p # turn + 1 => asked'[p][k] = asked[p][k]
      BY <1>0, <1>1, RespondsTurns
    <3>2. asked[p][k] # "keep"
      BY <2>1 DEF Sets
    <3>3. ~(p > turn)
      BY <1>1, <3>2 DEF Turns
    <3> QED  BY <1>1, <3>1, <3>3, ConstantsAssumption DEF Turns, Plugins
  <2>3. NoSilentOverride' /\ status' = "merging" /\ kind' # "hooks"
    BY <1>0, <1>1, <2>1
  <2>4. \A q, r \in Plugins : q < r /\ Sets(asked'[q][k]) /\ Sets(asked'[r][k])
                                => asked'[r][k] = "replace"
    BY <2>3 DEF NoSilentOverride, Sets
  <2> QED  BY <2>1, <2>2, <2>4 DEF Sets
<1>6. Owned!Grant(wish)
  <2>1. \A k \in Keys : wish[k] = "set" => ~Owned!SetBefore(k)
    BY <1>5 DEF Owned!SetBefore, Owned!Plugins, Plugins
  <2> QED  BY <1>0, <1>3, <1>4, <2>1 DEF Owned!Grant
<1> QED  BY <1>6 DEF Owned!Next

\* A conflict is over an item that was asked for.
LEMMA RefusalRefuses ==
    ASSUME OwnedInv, NEW response \in Responses, Refuse(response)
    PROVE  Owned!Next
<1>0. /\ Responds(response) /\ status = "merging" /\ turn < N /\ turn' = turn + 1
      /\ status' = "failed" /\ UNCHANGED <<kind, item>>
  BY DEF Refuse, Responds
<1>1. PICK wish \in [Keys -> Owned!Wishes] :
        /\ wish = [k \in Keys |-> Wish(response[k])]
        /\ [p \in Plugins |-> [k \in Keys |-> Wish(asked[p][k])]]' =
              [[p \in Plugins |-> [k \in Keys |-> Wish(asked[p][k])]] EXCEPT ![turn + 1] = wish]
  BY <1>0, WishKept
<1>2. Owned!Ask(wish)
  BY <1>0, <1>1 DEF Owned!Ask
<1>3. PICK k \in Keys : Adjusted(response)[k].owner = Contested
  BY DEF Refuse, Conflict
<1>4. /\ TypeOK /\ Turns /\ kind \in Kinds
  BY DEF OwnedInv, OutcomeInv, Turns
<1>5. /\ item[k].owner # Contested /\ turn + 1 \in Plugins
      /\ item[k] = [owner |-> item[k].owner, reply |-> item[k].reply, request |-> item[k].request]
  <2>1. item[k].owner # Contested
    BY <1>4, ConstantsAssumption DEF TypeOK, Item, Contested, Unowned
  <2>2. turn + 1 \in Plugins
    BY <1>0, <1>4, RespondsTurns
  <2> QED  BY <1>4, <2>1, <2>2 DEF TypeOK, Item
<1>6. kind # "sysctl"
  BY <1>3, <1>5 DEF Adjusted, adjust, adjustSysctl
<1>7. kind # "hooks"
  <2> SUFFICES ASSUME kind = "hooks" PROVE FALSE
    OBVIOUS
  <2> DEFINE p == turn + 1
             any == SetsAny(response)
             r == IF Sets(response[k]) THEN Appended(item[k], p) ELSE item[k]
             o == IF any THEN ClaimHooks(item[k].owner, p) ELSE item[k].owner
  <2>1. Adjusted(response)[k] = [r EXCEPT !.owner = o]
    BY DEF Adjusted, adjust, adjustHooks
  <2>2. "owner" \in DOMAIN r
    BY <1>5 DEF Appended
  <2>3. o # Contested
    BY <1>5, ConstantsAssumption DEF ClaimHooks, OwnedBy, ClearedBy, Contested
  <2> HIDE DEF r, o
  <2>4. [r EXCEPT !.owner = o].owner = o
    BY <2>2
  <2> QED  BY <1>3, <2>1, <2>3, <2>4
<1>8. Rules(item[k], Adjusted(response)[k], response[k], turn + 1)
  BY <1>0, <1>6, <1>7, ApplyHolds DEF Panics
<1>9. wish[k] = "twice" \/ (wish[k] # "keep" /\ item[k].owner # Unowned)
  BY <1>1, <1>3, <1>8 DEF Rules
<1>10. item[k].owner # Unowned => Owned!Touched(k)
  <2>1. Blamed(k)
    BY <1>0, <1>7 DEF OwnedInv
  <2> QED  BY <2>1 DEF Blamed, Owned!Touched, Owned!Plugins, Plugins
<1>11. [l \in Keys |-> Holder(item[l])]' = [l \in Keys |-> Holder(item[l])]
  BY <1>0 DEF Holder, Collected
<1>12. Owned!Refuse(wish)
  BY <1>0, <1>2, <1>9, <1>10, <1>11 DEF Owned!Refuse
<1> QED  BY <1>12 DEF Owned!Next

LEMMA PanicCrashes ==
    ASSUME OwnedInv, NEW response \in Responses, Panic(response)
    PROVE  Owned!Next
<1>0. /\ Responds(response) /\ status = "merging" /\ turn < N /\ turn' = turn + 1
      /\ status' = "panicked" /\ UNCHANGED <<kind, item>> /\ kind = "sysctl"
  BY DEF Panic, Panics, Responds
<1>1. PICK wish \in [Keys -> Owned!Wishes] :
        /\ wish = [k \in Keys |-> Wish(response[k])]
        /\ [p \in Plugins |-> [k \in Keys |-> Wish(asked[p][k])]]' =
              [[p \in Plugins |-> [k \in Keys |-> Wish(asked[p][k])]] EXCEPT ![turn + 1] = wish]
  BY <1>0, WishKept
<1>2. Owned!Ask(wish)
  BY <1>0, <1>1 DEF Owned!Ask
<1>3. \E k \in Keys : wish[k] \in Owned!Setting
  BY <1>0, <1>1 DEF Panic, Panics, SetsAny, Sets, Wish, Owned!Setting
<1>4. [l \in Keys |-> Holder(item[l])]' = [l \in Keys |-> Holder(item[l])]
  BY <1>0 DEF Holder, Collected
<1>5. Owned!Crash(wish)
  BY <1>0, <1>2, <1>3, <1>4 DEF Owned!Crash
<1> QED  BY <1>5 DEF Owned!Next

\* For any plugins, items and collection: merging is the granting of wishes in
\* turn, where a setting is lost only to one who asks for its removal and a creation
\* fails only over an item asked for before (claimSimple, claimCompound,
\* clearCompound and the adjust functions of result).
THEOREM MergingImplementsOwnership == Spec => ImplementsOwnership
<1>1. Init => Owned!Init
  BY DEF Init, Owned!Init, Wish, Holder, Collected, Owned!Plugins, Plugins
<1>2. OwnedInv /\ OwnedInv' /\ [Next]_vars => [Owned!Next]_(Owned!vars)
  <2> SUFFICES ASSUME OwnedInv, OwnedInv', [Next]_vars
               PROVE  Owned!Next \/ UNCHANGED Owned!vars
    OBVIOUS
  <2>1. ASSUME NEW response \in Responses, Apply(response) \/ Refuse(response) \/ Panic(response)
        PROVE  Owned!Next
    BY <2>1, ApplyGrants, RefusalRefuses, PanicCrashes
  <2>2. CASE Generate
    <3>1. UNCHANGED <<kind, item, turn, asked>> /\ status = "merging" /\ turn = N /\ status' = "created"
      BY <2>2 DEF Generate
    <3>2. Owned!Finish
      BY <3>1 DEF Owned!Finish, Wish, Holder, Collected
    <3> QED  BY <3>2 DEF Owned!Next
  <2>3. CASE UNCHANGED vars
    BY <2>3 DEF vars, Owned!vars, Wish, Holder, Collected
  <2> QED  BY <2>1, <2>2, <2>3 DEF Next
<1> QED
  BY <1>1, <1>2, OwnedInit, OwnedNext, PTL DEF Spec, ImplementsOwnership, Owned!Spec

-----------------------------------------------------------------------------
(***************************************************************************)
(* The default validator, on top of it.                                    *)
(***************************************************************************)
\* The validator looks at records of owners.  They tell of every entry in the
\* reply, and sysctls have none.
Restricted == {"hooks", "resources", "namespaces", "sysctl"}

ItemShape ==
    \A k \in Keys :
        item[k] = [owner |-> item[k].owner, reply |-> item[k].reply, request |-> item[k].request]

EntriesClaimed ==
    kind \in Restricted =>
        \A k \in Keys : item[k].reply # <<>> => Claimed(k) /\ kind # "sysctl"

\* What the validator has accepted.
Untouched ==
    /\ kind \in config.reject => kind \notin Dropped /\ \A k \in Keys : item[k].reply = <<>>
    /\ kind = "resources" /\ "seccomp" \in config.reject => item[SeccompPolicy].reply = <<>>

Closest(annotation, value) ==
    \/ "container" \in DOMAIN annotation /\ annotation["container"] = value
    \/ /\ "container" \notin DOMAIN annotation
       /\ \/ "pod" \in DOMAIN annotation /\ annotation["pod"] = value
          \/ /\ "pod" \notin DOMAIN annotation
             /\ "key" \in DOMAIN annotation /\ annotation["key"] = value

RequiredPresent ==
    ~(config.toleration /\ Closest(pod.tolerate, TRUE)) =>
        /\ Absent \notin config.required
        /\ ~Closest(pod.required, {Absent}) /\ ~Closest(pod.required, Garbage)

ValidatorInv ==
    /\ kind \in Kinds /\ given \in [Keys -> {Runtime, None}] /\ turn \in 0..N
    /\ ItemShape /\ EntriesClaimed
    /\ status = "created" => verdict = "accepted"
    /\ verdict # "none" => turn = N
    /\ verdict = "accepted" => Untouched /\ RequiredPresent
    /\ RestrictedIsUntouched
-----------------------------------------------------------------------------
\* The annotation that applies is the one of the closest scope.
LEMMA EffectiveIsClosest ==
    ASSUME NEW annotation, NEW value
    PROVE  Closest(annotation, value) <=> GetEffectiveAnnotation(annotation) = {value}
<1> DEFINE set == {s \in 1..3 : Scopes[s] \in DOMAIN annotation}
           first == CHOOSE s \in set : \A r \in set : s <= r
<1>1. Scopes[1] = "container" /\ Scopes[2] = "pod" /\ Scopes[3] = "key"
  BY DEF Scopes
<1>2. \A s \in 1..3 : s = 1 \/ s = 2 \/ s = 3
  OBVIOUS
<1>3. ASSUME NEW n \in set, \A r \in set : n <= r
      PROVE  first = n
  <2>1. first \in set /\ \A r \in set : first <= r
    BY <1>3
  <2> QED BY <1>3, <2>1
<1>4. \A n \in set : (\A r \in set : n <= r) => GetEffectiveAnnotation(annotation) = {annotation[Scopes[n]]}
  BY <1>3 DEF GetEffectiveAnnotation
<1>5. CASE "container" \in DOMAIN annotation
  <2>1. 1 \in set /\ \A r \in set : 1 <= r
    BY <1>1, <1>5
  <2> QED BY <1>1, <1>4, <1>5, <2>1 DEF Closest
<1>6. CASE "container" \notin DOMAIN annotation /\ "pod" \in DOMAIN annotation
  <2>1. 2 \in set /\ \A r \in set : 2 <= r
    BY <1>1, <1>2, <1>6
  <2> QED BY <1>1, <1>4, <1>6, <2>1 DEF Closest
<1>7. CASE /\ "container" \notin DOMAIN annotation /\ "pod" \notin DOMAIN annotation
           /\ "key" \in DOMAIN annotation
  <2>1. 3 \in set /\ \A r \in set : 3 <= r
    BY <1>1, <1>2, <1>7
  <2> QED BY <1>1, <1>4, <1>7, <2>1 DEF Closest
<1>8. CASE /\ "container" \notin DOMAIN annotation /\ "pod" \notin DOMAIN annotation
           /\ "key" \notin DOMAIN annotation
  <2>1. set = {}
    BY <1>1, <1>2, <1>8
  <2>2. GetEffectiveAnnotation(annotation) = {}
    BY <2>1 DEF GetEffectiveAnnotation
  <2> QED BY <1>8, <2>2 DEF Closest
<1> QED BY <1>5, <1>6, <1>7, <1>8

\* A plugin that adds to the reply leaves a record.
LEMMA AdjustClaims ==
    ASSUME NEW i, i = [owner |-> i.owner, reply |-> i.reply, request |-> i.request],
           NEW act \in Acts, NEW p \in Plugins, NEW any \in BOOLEAN, Sets(act) => any,
           kind \in Restricted, i.reply # <<>> => i.owner # Unowned /\ kind # "sysctl"
    PROVE  adjust(i, act, p, any).reply # <<>> =>
               adjust(i, act, p, any).owner # Unowned /\ kind # "sysctl"
<1>1. OwnedBy(p) # Unowned /\ ClearedBy(p) # Unowned /\ Contested # Unowned
  BY ConstantsAssumption DEF OwnedBy, ClearedBy, Contested, Unowned
<1>2. claim(i.owner, p) # Unowned /\ claim(claim(i.owner, p), p) # Unowned
  BY <1>1 DEF claim
<1>3. CASE kind = "hooks"
  BY <1>1, <1>3 DEF adjust, adjustHooks, ClaimHooks, Appended, Sets
<1>4. CASE kind = "resources"
  BY <1>2, <1>4 DEF adjust, adjustResources, Appended
<1>5. CASE kind = "namespaces"
  BY <1>2, <1>5 DEF adjust, adjustNamespaces, Appended
<1>6. CASE kind = "sysctl"
  BY <1>6 DEF adjust, adjustSysctl
<1> QED BY <1>3, <1>4, <1>5, <1>6 DEF Restricted
-----------------------------------------------------------------------------
\* The response of the next plugin leaves items with entries claimed.
LEMMA ApplyKeeps ==
    ASSUME ValidatorInv, NEW response \in Responses, Apply(response), UNCHANGED validatorVars
    PROVE  ValidatorInv'
<1>1. verdict = "none" /\ verdict' = "none" /\ turn' \in 0..N
  BY ConstantsAssumption DEF Apply, Responds, ValidatorInv, validatorVars
<1>2. kind' = kind /\ given' = given /\ status' = status /\ status = "merging"
  BY DEF Apply, Responds
<1>3. turn + 1 \in Plugins
  BY ConstantsAssumption DEF Apply, Responds, ValidatorInv, Plugins
<1>4. item' = [k \in Keys |-> adjust(item[k], response[k], turn + 1, SetsAny(response))]
  BY DEF Apply, Adjusted
<1>5. SetsAny(response) \in BOOLEAN /\ \A k \in Keys : response[k] \in Acts
  BY DEF SetsAny, Responses, ActsOn, Acts
<1>6. \A k \in Keys : Sets(response[k]) => SetsAny(response)
  BY DEF SetsAny
<1>7. ItemShape'
  <2>1. ASSUME NEW k \in Keys
        PROVE  LET j == item'[k] IN j = [owner |-> j.owner, reply |-> j.reply, request |-> j.request]
    <3>1. item[k] = [owner |-> item[k].owner, reply |-> item[k].reply, request |-> item[k].request]
      BY DEF ValidatorInv, ItemShape
    <3>2. item'[k] = adjust(item[k], response[k], turn + 1, SetsAny(response))
      BY <1>4
    <3> QED BY <1>5, <3>1, <3>2, AdjustShape DEF ValidatorInv
  <2> QED BY <2>1 DEF ItemShape
<1>8. EntriesClaimed'
  <2>1. ASSUME kind \in Restricted, NEW k \in Keys
        PROVE  LET j == item'[k] IN j.reply # <<>> => j.owner # Unowned /\ kind # "sysctl"
    <3>1. item[k] = [owner |-> item[k].owner, reply |-> item[k].reply, request |-> item[k].request]
      BY DEF ValidatorInv, ItemShape
    <3>2. item[k].reply # <<>> => item[k].owner # Unowned /\ kind # "sysctl"
      BY <2>1 DEF ValidatorInv, EntriesClaimed, Claimed
    <3>3. item'[k] = adjust(item[k], response[k], turn + 1, SetsAny(response))
      BY <1>4
    <3> QED BY <1>3, <1>5, <1>6, <2>1, <3>1, <3>2, <3>3, AdjustClaims
  <2> QED BY <1>2, <2>1 DEF EntriesClaimed, Claimed
<1> QED BY <1>1, <1>2, <1>7, <1>8 DEF ValidatorInv, RestrictedIsUntouched

\* What the validator accepts is as ValidatorInv says.
LEMMA ValidateKeeps ==
    ASSUME ValidatorInv, Validate
    PROVE  ValidatorInv'
<1>1. UNCHANGED <<kind, given, item, turn, status>> /\ status = "merging" /\ turn = N
  BY DEF Validate, vars
<1>2. ItemShape' /\ EntriesClaimed'
  BY <1>1 DEF ValidatorInv, ItemShape, EntriesClaimed, Claimed
<1>3. ASSUME verdict' = "accepted"
      PROVE  Untouched'
  <2>1. /\ validateOCIHooks /\ validateSeccompPolicy /\ validateNamespaces
    BY <1>3 DEF Validate
  <2>2. config'.reject \subseteq Options /\ SeccompPolicy \in Keys
    BY ValidatorAssumption DEF Validate, ValidatorInv
  <2>3. \A k \in Keys : kind \in Restricted /\ item[k].reply # <<>> => Claimed(k) /\ kind # "sysctl"
    BY DEF ValidatorInv, EntriesClaimed
  <2>4. kind # "seccomp" /\ (kind \in Options => kind \notin Dropped)
    BY ConstantsAssumption DEF ValidatorInv, Listed, Mapped, Options, Dropped
  <2>5. kind \in config'.reject => \A k \in Keys : item[k].reply = <<>>
    BY <2>1, <2>2, <2>3, <2>4 DEF validateOCIHooks, validateNamespaces, Rejects, Options, Restricted
  <2>6. kind = "resources" /\ "seccomp" \in config'.reject => item[SeccompPolicy].reply = <<>>
    BY <2>1, <2>2, <2>3 DEF validateSeccompPolicy, Rejects, Restricted
  <2> QED BY <1>1, <2>2, <2>4, <2>5, <2>6 DEF Untouched
<1>4. ASSUME verdict' = "accepted"
      PROVE  RequiredPresent'
  <2> DEFINE tolerate == IF config'.toleration THEN GetEffectiveAnnotation(pod'.tolerate) ELSE {}
             annotated == GetEffectiveAnnotation(pod'.required)
             tolerated == config'.toleration /\ Closest(pod'.tolerate, TRUE)
  <2>1. tolerate = {TRUE} \/ (annotated # {Garbage} /\ config'.required \cup UNION annotated \subseteq Plugins)
    BY <1>4 DEF Validate, validateRequiredPlugins
  <2>2. tolerate = {TRUE} => tolerated
    BY EffectiveIsClosest
  <2>3. ASSUME ~tolerated
        PROVE  /\ Absent \notin config'.required
               /\ ~Closest(pod'.required, {Absent}) /\ ~Closest(pod'.required, Garbage)
    <3>1. annotated # {Garbage} /\ config'.required \cup UNION annotated \subseteq Plugins
      BY <2>1, <2>2, <2>3
    <3>2. Absent \notin config'.required /\ Absent \notin UNION annotated
      BY <3>1, ValidatorAssumption
    <3>3. annotated # {{Absent}}
      BY <3>2
    <3> QED BY <3>1, <3>2, <3>3, EffectiveIsClosest
  <2> QED BY <2>3 DEF RequiredPresent, Closest
<1> QED BY <1>1, <1>2, <1>3, <1>4 DEF ValidatorInv, RestrictedIsUntouched

\* What the runtime creates is what was accepted.
LEMMA GenerateKeeps ==
    ASSUME ValidatorInv, verdict = "accepted", Generate, UNCHANGED validatorVars
    PROVE  ValidatorInv'
<1>1. UNCHANGED <<kind, given, item, turn, config, pod, verdict>>
  BY DEF Generate, validatorVars
<1>2. kind \notin Dropped => \A k \in Keys : item[k].reply = <<>> => created'[k] = given[k]
  BY DEF Generate, Generated
<1>3. created' \in [Keys -> Settings] /\ given \in [Keys -> {Runtime, None}]
  BY DEF Generate, ValidatorInv
<1>4. kind \in config.reject => created' = given
  <2>1. ASSUME kind \in config.reject
        PROVE  created' = given
    <3>1. \A k \in Keys : created'[k] = given[k]
      BY <1>2, <2>1 DEF ValidatorInv, Untouched
    <3> QED BY <1>3, <3>1
  <2> QED BY <2>1
<1>5. kind = "resources" /\ "seccomp" \in config.reject => created'[SeccompPolicy] = given[SeccompPolicy]
  BY <1>2, ValidatorAssumption DEF ValidatorInv, Untouched, Dropped
<1>6. RestrictedIsUntouched'
  BY <1>1, <1>4, <1>5 DEF RestrictedIsUntouched
<1>7. ItemShape' /\ EntriesClaimed' /\ (Untouched /\ RequiredPresent => Untouched' /\ RequiredPresent')
  BY <1>1 DEF ValidatorInv, ItemShape, EntriesClaimed, Claimed, Untouched, RequiredPresent, Closest
<1> QED BY <1>1, <1>6, <1>7 DEF ValidatorInv

\* The invariant holds at first and is kept by every step.
LEMMA ValidatorInvariant == ValidatedSpec => []ValidatorInv
<1>1. ValidatedInit => ValidatorInv
  <2> SUFFICES ASSUME ValidatedInit PROVE ValidatorInv
    OBVIOUS
  <2>1. \A k \in Keys : item[k] = [owner |-> Unowned, reply |-> <<>>, request |-> given[k]]
    BY DEF ValidatedInit, Init
  <2>2. ASSUME NEW k \in Keys
        PROVE  /\ item[k] = [owner |-> item[k].owner, reply |-> item[k].reply, request |-> item[k].request]
               /\ item[k].reply = <<>>
    <3>1. item[k] = [owner |-> Unowned, reply |-> <<>>, request |-> given[k]]
      BY <2>1
    <3>2. item[k].owner = Unowned
      BY <3>1
    <3>3. item[k].reply = <<>>
      BY <3>1
    <3>4. item[k].request = given[k]
      BY <3>1
    <3> QED BY <3>1, <3>2, <3>3, <3>4
  <2>3. ItemShape
    BY <2>2 DEF ItemShape
  <2>4. EntriesClaimed
    BY <2>2 DEF EntriesClaimed
  <2> QED BY <2>3, <2>4, ConstantsAssumption DEF ValidatedInit, Init, ValidatorInv, RestrictedIsUntouched
<1>2. ValidatorInv /\ [ValidatedNext]_<<vars, validatorVars>> => ValidatorInv'
  <2> SUFFICES ASSUME ValidatorInv, [ValidatedNext]_<<vars, validatorVars>> PROVE ValidatorInv'
    OBVIOUS
  <2>1. ASSUME NEW response \in Responses, Apply(response), UNCHANGED validatorVars
        PROVE  ValidatorInv'
    BY <2>1, ApplyKeeps
  <2>2. ASSUME NEW response \in Responses, Refuse(response) \/ Panic(response), UNCHANGED validatorVars
        PROVE  ValidatorInv'
    <3>1. verdict = "none" /\ verdict' = "none" /\ turn' \in 0..N
      BY <2>2, ConstantsAssumption DEF Refuse, Panic, Responds, ValidatorInv, validatorVars
    <3>2. UNCHANGED <<kind, given, item>> /\ status' # "created"
      BY <2>2 DEF Refuse, Panic, Responds
    <3>3. ItemShape' /\ EntriesClaimed'
      BY <3>2 DEF ValidatorInv, ItemShape, EntriesClaimed, Claimed
    <3> QED BY <3>1, <3>2, <3>3 DEF ValidatorInv, RestrictedIsUntouched
  <2>3. CASE Validate
    BY <2>3, ValidateKeeps
  <2>4. CASE verdict = "accepted" /\ Generate /\ UNCHANGED validatorVars
    BY <2>4, GenerateKeeps
  <2>5. CASE UNCHANGED <<vars, validatorVars>>
    BY <2>5 DEF ValidatorInv, vars, validatorVars, ItemShape, EntriesClaimed, Claimed,
                Untouched, RequiredPresent, RestrictedIsUntouched
  <2> QED BY <2>1, <2>2, <2>3, <2>4, <2>5 DEF ValidatedNext
<1> QED BY <1>1, <1>2, PTL DEF ValidatedSpec

\* What the validator is told to reject is, in every container created, as the
\* runtime asked for it (validateOCIHooks, validateSeccompPolicy, ...).
THEOREM RestrictedStaysUntouched == ValidatedSpec => []RestrictedIsUntouched
<1>1. ValidatorInv => RestrictedIsUntouched
  BY DEF ValidatorInv
<1> QED BY <1>1, ValidatorInvariant, PTL

\* No container is created without the plugins required for it, unless tolerated
\* (validateRequiredPlugins, GetEffectiveAnnotation).
THEOREM RequiredPluginsAreThere == ValidatedSpec => []RequiredPluginsTookPart
<1>1. ValidatorInv => RequiredPluginsTookPart
  BY DEF ValidatorInv, RequiredPresent, Closest, RequiredPluginsTookPart
<1> QED BY <1>1, ValidatorInvariant, PTL

\* With the default validator in place, merging is what it is without: the
\* validator only keeps some containers from being created (applyAdjustment), and
\* all that is proved of Spec holds of ValidatedSpec.
THEOREM ValidationIsMerging == ValidatedSpec => Spec
<1>1. ValidatedInit => Init
  BY DEF ValidatedInit
<1>2. [ValidatedNext]_<<vars, validatorVars>> => [Next]_vars
  BY DEF ValidatedNext, Next, Validate
<1> QED  BY <1>1, <1>2, PTL DEF ValidatedSpec, Spec

\* The properties of merging, of the system with its validator.
THEOREM ValidatedMerging ==
    ValidatedSpec => [](TypeOK /\ NoSilentOverride /\ OwnersMatchReply
                        /\ PluginsSeeOutcome /\ OrderedLastWordWins)
                     /\ ImplementsOwnership
BY ValidationIsMerging, MergingImplementsOwnership, MergingIsTyped, ConflictsAreDetected, OwnersAreRight,
   ShownIsOutcome, LastSettingWins, PTL
=============================================================================
