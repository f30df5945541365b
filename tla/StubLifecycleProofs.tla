------------------------ MODULE StubLifecycleProofs ------------------------
(***************************************************************************)
(* Proofs about StubLifecycle: a stub that counts as started was           *)
(* configured in this very session, and one that does not holds nothing    *)
(* open.                                                                   *)
(***************************************************************************)
EXTENDS StubLifecycle, FiniteSetTheorems, TLAPS

(***************************************************************************)
(* The inductive invariant.                                                *)
(***************************************************************************)
\* Every call of Start leaves room for its session.
Room == starts + Cardinality(Starting) <= MaxStarts

Keeping == {"connect", "register", "configure", "closing"}

\* The lock is held by who is in a method that keeps it, or in the callback.
LockHeld ==
    /\ \A t \in Thread : pc[t] \in Keeping <=> lock = t
    /\ \A s \in Session : client[s] = "closing" <=> lock = s

\* Nothing is there of a session that has not begun.
Untouched(s) == /\ trunk[s] = None /\ serving[s] = "none" /\ client[s] = "none"
                /\ reg[s] = "none" /\ cfgErr[s] = "none"

Fresh ==
    /\ doneC = IF starts = 0 THEN None ELSE starts
    /\ \A s \in Session : s > starts => Untouched(s)
    /\ errC # None => errC <= starts

\* How far a Start is.
Begun(t) ==
    /\ pc[t] = "connect" => doneC # None /\ errC # doneC /\ Untouched(doneC)
    /\ pc[t] \in {"register", "configure"} => doneC # None /\ serving[doneC] = "serving"
    /\ pc[t] = "configure" => reg[doneC] # "none"
    /\ pc[t] \in {"connect", "register", "configure"} => ~started

\* Only the session of the fields is served, while it is started or running.
Current ==
    \A s \in Session : serving[s] = "serving" =>
       /\ s = doneC /\ s = errC /\ s = rpc /\ trunk[s] = conn /\ conn # None
       /\ started \/ \E t \in Thread : pc[t] \in {"register", "configure"}

\* What the stub keeps while it is started.
Held ==
    started => /\ rpc # None /\ doneC = rpc /\ errC = rpc /\ reg[rpc] = "configured"
               /\ trunk[rpc] # None

Clients == \A s \in Session : client[s] = "open" => serving[s] = "serving"

Links ==
    /\ \A c \in Connection \ {Given} :
         link[c] = "up" => \E s \in Session : serving[s] = "serving" /\ trunk[s] = c

\* Closing has begun with what is to be closed.
Closing ==
    (\E t \in Thread : pc[t] = "closing") \/ (\E s \in Session : client[s] = "closing")
       => started /\ serving[doneC] # "serving"

\* The runtime owes a configuration, or the stub an answer to one.
Unanswered(s) == reg[s] \in {"accepted", "configuring"}

\* An earlier session that was not answered failed, and its connection with it, which
\* the stub keeps.
Earlier ==
    \A s \in Session : Unanswered(s) =>
       /\ errC # None /\ ~started
       /\ serving[s] = "serving" \/ (conn # None /\ link[conn] = "down")
       /\ \A d \in Session : d # s /\ serving[d] = "serving" => reg[d] = "none"

\* What Start finds in its channel is the answer of its own session.
Answered ==
    \A d \in Session : serving[d] = "serving" /\ ~started /\ cfgErr[d] = "ok" =>
       reg[d] = "configured" \/ (reg[d] = "none" /\ link[conn] = "down")

StubInv ==
    /\ TypeOK /\ Room /\ LockHeld /\ Fresh /\ Current /\ Held /\ Clients /\ Links
    /\ Closing /\ Earlier /\ Answered
    /\ \A t \in Thread : Begun(t)

-----------------------------------------------------------------------------
LEMMA Sets ==
    /\ Session \subseteq Nat /\ None \notin Session /\ None \notin Thread
    /\ Thread \cap Session = {} /\ Given \notin Session /\ None \notin Connection
    /\ Session \subseteq Connection /\ Connection = {Given} \cup Session
BY StubAssumption DEF Session, Connection, Given

\* Only one thread or callback keeps the lock.
LEMMA OneKeeper ==
    ASSUME LockHeld
    PROVE  /\ \A t, u \in Thread : pc[t] \in Keeping /\ pc[u] \in Keeping => t = u
           /\ \A t \in Thread, s \in Session : ~(pc[t] \in Keeping /\ client[s] = "closing")
           /\ \A r, s \in Session : client[r] = "closing" /\ client[s] = "closing" => r = s
           /\ lock = None => /\ \A t \in Thread : pc[t] \notin Keeping
                             /\ \A s \in Session : client[s] # "closing"
BY Sets DEF LockHeld

LEMMA FiniteStarting ==
    ASSUME TypeOK
    PROVE  /\ IsFiniteSet(Starting) /\ Cardinality(Starting) \in Nat
           /\ \A t \in Starting : Cardinality(Starting) >= 1
           /\ starts \in Nat /\ MaxStarts \in Nat
<1>1. IsFiniteSet(Starting)
  BY StubAssumption, FS_Subset DEF Starting
<1>2. Cardinality(Starting) \in Nat
  BY <1>1, FS_CardinalityType
<1>3. Starting # {} => Cardinality(Starting) # 0
  BY <1>1, FS_EmptySet
<1>4. QED
  BY <1>1, <1>2, <1>3, StubAssumption DEF TypeOK

(***************************************************************************)
(* The sessions fit their bound.                                           *)
(***************************************************************************)
LEMMA RoomKept ==
    ASSUME TypeOK, Room, starts' = starts, Starting' \subseteq Starting
    PROVE  Room'
<1>1. IsFiniteSet(Starting) /\ Cardinality(Starting) \in Nat
  BY FiniteStarting
<1>2. IsFiniteSet(Starting') /\ Cardinality(Starting') <= Cardinality(Starting)
  BY <1>1, FS_Subset
<1>3. Cardinality(Starting') \in Nat
  BY <1>2, FS_CardinalityType
<1>4. QED
  BY <1>1, <1>2, <1>3, FiniteStarting DEF Room

LEMMA RoomCall ==
    ASSUME TypeOK, Room, NEW t \in Thread, NEW m \in Methods, Call(t, m)
    PROVE  Room'
<1>1. /\ pc[t] = "idle" /\ pc' = [pc EXCEPT ![t] = m] /\ starts' = starts
      /\ m = "start" => starts + Cardinality(Starting) < MaxStarts
      /\ pc \in [Thread -> PC]
  BY DEF Call, Goto, TypeOK
<1>2. CASE m # "start"
  <2>1. Starting' \subseteq Starting
    BY <1>1, <1>2 DEF Starting
  <2>2. QED
    BY <1>1, <2>1, RoomKept
<1>3. CASE m = "start"
  <2>1. Starting' = Starting \cup {t} /\ t \notin Starting
    BY <1>1, <1>3 DEF Starting
  <2>2. Cardinality(Starting') = Cardinality(Starting) + 1
    BY <2>1, FiniteStarting, FS_AddElement
  <2>3. QED
    BY <1>1, <1>3, <2>2, FiniteStarting DEF Room
<1>4. QED
  BY <1>2, <1>3

LEMMA RoomStartBegins ==
    ASSUME TypeOK, Room, NEW t \in Thread, StartBegins(t)
    PROVE  Room' /\ starts + 1 \in Session /\ starts' = starts + 1
<1>1. /\ pc[t] = "start" /\ pc' = [pc EXCEPT ![t] = "connect"] /\ starts' = starts + 1
      /\ pc \in [Thread -> PC]
  BY DEF StartBegins, At, Goto, TypeOK
<1>2. Starting' = Starting \ {t} /\ t \in Starting
  BY <1>1 DEF Starting
<1>3. Cardinality(Starting') = Cardinality(Starting) - 1
  BY <1>2, FiniteStarting, FS_RemoveElement
<1>4. QED
  BY <1>1, <1>2, <1>3, FiniteStarting DEF Room, Session

(***************************************************************************)
(* What most steps of threads leave alone.                                 *)
(***************************************************************************)
Same == UNCHANGED <<lock, fieldVars, starts, link, trunk, serving, client, reg, cfgErr>>

Quiet(t) == \/ \E m \in Methods : Call(t, m)
            \/ AlreadyStarted(t) \/ NothingToStop(t) \/ WaitChecks(t)
            \/ StartReturns(t) \/ RunWaits(t) \/ RunReturns(t) \/ WaitWaits(t) \/ WaitReturns(t)

LEMMA QuietStep ==
    ASSUME TypeOK, Room, NEW t \in Thread, Quiet(t)
    PROVE  /\ Same /\ Room'
           /\ pc \in [Thread -> PC] /\ pc[t] \notin Keeping
           /\ \E l \in PC \ Keeping : pc' = [pc EXCEPT ![t] = l]
           /\ chan' \in [Thread -> Session \cup {None}] /\ srvErr' \in [Session -> BOOLEAN]
<1> USE DEF Same, Goto, At, Keeping, PC, Methods, sessionVars
<1>1. ASSUME NEW m \in Methods, Call(t, m)
      PROVE  /\ Same /\ pc[t] \notin Keeping
             /\ \E l \in PC \ Keeping : pc' = [pc EXCEPT ![t] = l]
             /\ chan' = chan /\ srvErr' = srvErr
  BY <1>1 DEF Call
<1>2. ASSUME NEW l, l \in (PC \ Keeping) \ {"start"}, pc' = [pc EXCEPT ![t] = l], starts' = starts
      PROVE  Room'
  <2>1. Starting' \subseteq Starting
    BY <1>2 DEF Starting, TypeOK
  <2>2. QED
    BY <1>2, <2>1, RoomKept
<1>3. CASE AlreadyStarted(t) \/ NothingToStop(t) \/ StartReturns(t)
  <2>1. /\ Same /\ pc[t] \notin Keeping
        /\ pc' = [pc EXCEPT ![t] = "idle"]
        /\ chan' = chan /\ srvErr' = srvErr
    BY <1>3 DEF AlreadyStarted, NothingToStop, StartReturns
  <2>2. QED
    BY <1>2, <2>1 DEF TypeOK
<1>4. CASE WaitChecks(t)
  <2>1. /\ Same /\ pc[t] \notin Keeping
        /\ pc' = [pc EXCEPT ![t] = "checked"] \/ pc' = [pc EXCEPT ![t] = "idle"]
        /\ chan' = chan /\ srvErr' = srvErr
    BY <1>4 DEF WaitChecks
  <2>2. QED
    BY <1>2, <2>1 DEF TypeOK
<1>5. CASE RunWaits(t) \/ WaitWaits(t)
  <2>1. /\ Same /\ pc[t] \notin Keeping /\ srvErr' = srvErr
        /\ pc' = [pc EXCEPT ![t] = "running"] \/ pc' = [pc EXCEPT ![t] = "waiting"]
        /\ chan' = [chan EXCEPT ![t] = errC] \/ chan' = [chan EXCEPT ![t] = doneC]
    BY <1>5 DEF RunWaits, WaitWaits
  <2>2. QED
    BY <1>2, <2>1 DEF TypeOK
<1>6. CASE RunReturns(t)
  <2>1. /\ Same /\ pc[t] \notin Keeping
        /\ pc' = [pc EXCEPT ![t] = "idle"]
        /\ chan' = [chan EXCEPT ![t] = None]
        /\ srvErr' = [srvErr EXCEPT ![chan[t]] = FALSE]
    BY <1>6 DEF RunReturns
  <2>2. QED
    BY <1>2, <2>1 DEF TypeOK
<1>7. CASE WaitReturns(t)
  <2>1. /\ Same /\ pc[t] \notin Keeping /\ srvErr' = srvErr
        /\ pc' = [pc EXCEPT ![t] = "idle"]
        /\ chan' = [chan EXCEPT ![t] = None]
    BY <1>7 DEF WaitReturns
  <2>2. QED
    BY <1>2, <2>1 DEF TypeOK
<1>8. QED
  BY <1>1, <1>3, <1>4, <1>5, <1>6, <1>7, RoomCall DEF Quiet, TypeOK

(***************************************************************************)
(* Steps that change neither the fields nor which session is served, and   *)
(* take or give back no lock.                                              *)
(***************************************************************************)
LEMMA Undisturbed ==
    ASSUME StubInv, TypeOK', Room',
           UNCHANGED <<lock, fieldVars, starts, link, trunk, reg, cfgErr>>,
           \A u \in Thread, k \in Keeping : pc'[u] = k <=> pc[u] = k,
           \A d \in Session : /\ serving'[d] = "serving" <=> serving[d] = "serving"
                              /\ serving[d] = "none" => serving'[d] = "none"
                              /\ client'[d] = "closing" <=> client[d] = "closing"
                              /\ client'[d] = "open" => client[d] = "open"
                              /\ client[d] = "none" => client'[d] = "none"
    PROVE  StubInv'
<1> USE DEF fieldVars
<1>1. LockHeld'
  BY DEF StubInv, LockHeld, Keeping
<1>2. \A d \in Session : Untouched(d) => Untouched(d)'
  BY DEF Untouched
<1>3. Fresh'
  BY <1>2 DEF StubInv, Fresh
<1>4. \A t \in Thread : Begun(t)'
  <2> TAKE t \in Thread
  <2>1. Begun(t) /\ TypeOK
    BY DEF StubInv
  <2>2. \A k \in {"connect", "register", "configure"} : pc'[t] = k <=> pc[t] = k
    BY DEF Keeping
  <2>3. doneC # None => doneC \in Session
    BY <2>1 DEF TypeOK
  <2>4. QED
    BY <1>2, <2>1, <2>2, <2>3 DEF Begun
<1>5. Current'
  <2>1. \A t \in Thread : pc[t] \in {"register", "configure"} => pc'[t] \in {"register", "configure"}
    BY DEF Keeping
  <2>2. Current
    BY DEF StubInv
  <2>3. QED
    BY <2>1, <2>2 DEF Current
<1>6. Held' /\ Clients' /\ Links'
  BY DEF StubInv, Held, Clients, Links
<1>7. Closing'
  <2>1. started => doneC \in Session
    BY DEF StubInv, Held, TypeOK
  <2>2. QED
    BY <2>1 DEF StubInv, Closing, Keeping
<1>8. Earlier' /\ Answered'
  BY DEF StubInv, Earlier, Answered, Unanswered
<1>9. QED
  BY <1>1, <1>3, <1>4, <1>5, <1>6, <1>7, <1>8 DEF StubInv

LEMMA QuietInv ==
    ASSUME StubInv, NEW t \in Thread, Quiet(t)
    PROVE  StubInv'
<1>1. TypeOK /\ Room /\ LockHeld
  BY DEF StubInv
<1>2. /\ Same /\ Room' /\ pc \in [Thread -> PC] /\ pc[t] \notin Keeping
      /\ chan' \in [Thread -> Session \cup {None}] /\ srvErr' \in [Session -> BOOLEAN]
  BY <1>1, QuietStep
<1>3. PICK l \in PC \ Keeping : pc' = [pc EXCEPT ![t] = l]
  BY <1>1, QuietStep
<1>4. \A u \in Thread, k \in Keeping : pc'[u] = k <=> pc[u] = k
  BY <1>2, <1>3
<1>5. TypeOK'
  <2>1. pc' \in [Thread -> PC]
    BY <1>2, <1>3
  <2>2. lock \in Thread => pc'[lock] \in {"connect", "register", "configure", "closing"}
    BY <1>1, <1>4 DEF LockHeld, Keeping
  <2>3. QED
    BY <1>1, <1>2, <2>1, <2>2 DEF TypeOK, Same, fieldVars
<1>6. QED
  BY <1>2, <1>4, <1>5, Undisturbed DEF Same

LEMMA ServesInv ==
    ASSUME StubInv, NEW s \in Session, Serves(s)
    PROVE  StubInv'
<1>1. TypeOK /\ Room
  BY DEF StubInv
<1>2. /\ UNCHANGED <<lock, fieldVars, starts, link, trunk, client, reg, cfgErr, threadVars>>
      /\ srvErr' \in [Session -> BOOLEAN]
      /\ serving[s] \in {"closing", "sent"}
      /\ \E x \in {"sent", "done"} : serving' = [serving EXCEPT ![s] = x]
  BY <1>1 DEF Serves, ServeReturns, ServerDone, TypeOK
<1>3. TypeOK' /\ Room'
  BY <1>1, <1>2 DEF TypeOK, Room, Starting, fieldVars, threadVars
<1>4. \A d \in Session : /\ serving'[d] = "serving" <=> serving[d] = "serving"
                         /\ serving[d] = "none" => serving'[d] = "none"
  BY <1>1, <1>2 DEF TypeOK
<1>5. QED
  BY <1>2, <1>3, <1>4, Undisturbed DEF threadVars

LEMMA ClientInv ==
    ASSUME StubInv, NEW s \in Session,
           ClientCloses(s) \/ (ConnClosed(s) /\ ~started)
    PROVE  StubInv'
<1>1. TypeOK /\ Room
  BY DEF StubInv
<1>2. /\ UNCHANGED <<lock, fieldVars, starts, link, trunk, serving, reg, cfgErr, srvErr, threadVars>>
      /\ client[s] \in {"open", "closed"}
      /\ \E x \in {"closed", "over"} : client' = [client EXCEPT ![s] = x]
  BY DEF ClientCloses, ConnClosed
<1>3. TypeOK' /\ Room'
  <2>1. client' \in [Session -> {"none", "open", "closed", "closing", "over"}]
    BY <1>1, <1>2 DEF TypeOK
  <2>2. lock \in Session => client'[lock] = "closing"
    BY <1>1, <1>2 DEF TypeOK
  <2>3. QED
    BY <1>1, <1>2, <2>1, <2>2 DEF TypeOK, Room, Starting, fieldVars, threadVars
<1>4. \A d \in Session : /\ client'[d] = "closing" <=> client[d] = "closing"
                         /\ client'[d] = "open" => client[d] = "open"
                         /\ client[d] = "none" => client'[d] = "none"
  BY <1>1, <1>2 DEF TypeOK
<1>5. QED
  BY <1>2, <1>3, <1>4, Undisturbed DEF threadVars

(***************************************************************************)
(* Who keeps the lock, and what is served then.                            *)
(***************************************************************************)
LEMMA Parts ==
    ASSUME StubInv
    PROVE  /\ TypeOK /\ Room /\ LockHeld /\ Fresh /\ Current /\ Held /\ Clients /\ Links
           /\ Closing /\ Earlier /\ Answered
           /\ \A t \in Thread : Begun(t)
           /\ doneC # None => doneC = starts /\ doneC \in Session
           /\ errC # None => errC \in Session
           /\ rpc # None => rpc \in Session
           /\ conn # None => conn \in Connection
BY DEF StubInv, Fresh, TypeOK

LEMMA Keeper ==
    ASSUME StubInv, NEW t \in Thread, pc[t] \in Keeping
    PROVE  /\ lock = t
           /\ \A u \in Thread : pc[u] \in Keeping => u = t
           /\ \A s \in Session : client[s] # "closing"
BY Sets DEF StubInv, LockHeld

LEMMA NoKeeper ==
    ASSUME StubInv, lock = None
    PROVE  /\ \A u \in Thread : pc[u] \notin Keeping
           /\ \A s \in Session : client[s] # "closing"
BY Sets DEF StubInv, LockHeld

LEMMA NothingServed ==
    ASSUME StubInv, ~started,
           \A t \in Thread : pc[t] \notin {"register", "configure"}
    PROVE  /\ \A s \in Session : serving[s] # "serving" /\ client[s] # "open"
           /\ \A c \in Connection \ {Given} : link[c] # "up"
BY DEF StubInv, Current, Clients, Links

LEMMA StartBeginsInv ==
    ASSUME StubInv, NEW t \in Thread, StartBegins(t)
    PROVE  StubInv'
<1> USE DEF fieldVars, sessionVars
<1>1. /\ pc[t] = "start" /\ lock = None /\ ~started
      /\ lock' = t /\ starts' = starts + 1 /\ doneC' = starts + 1
      /\ pc' = [pc EXCEPT ![t] = "connect"]
      /\ UNCHANGED <<started, conn, errC, rpc, link, sessionVars, chan>>
  BY DEF StartBegins, At, Goto
<1>2. Room' /\ starts + 1 \in Session
  BY Parts, RoomStartBegins
<1>3. pc \in [Thread -> PC] /\ starts \in Nat
  BY Parts DEF TypeOK
<1>4. /\ \A u \in Thread : pc[u] \notin Keeping
      /\ \A s \in Session : client[s] # "closing"
  BY <1>1, NoKeeper
<1>5. \A u \in Thread : u # t => pc'[u] = pc[u] /\ pc'[u] \notin Keeping
  BY <1>1, <1>3, <1>4
<1>6. pc'[t] = "connect"
  BY <1>1, <1>3
<1>7. \A s \in Session : serving[s] # "serving"
  BY <1>1, <1>4, NothingServed DEF Keeping
<1>8. TypeOK'
  BY <1>1, <1>2, <1>6, Parts, Sets DEF TypeOK, Session, PC
<1>9. LockHeld'
  BY <1>1, <1>4, <1>5, <1>6, Sets DEF LockHeld, Keeping
<1>10. \A s \in Session : s > starts => Untouched(s)'
  BY <1>1, Parts DEF Fresh, Untouched
<1>11. Fresh'
  <2>1. \A s \in Session : s > starts + 1 => s > starts
    BY <1>3, Sets
  <2>2. errC # None => errC \in Nat /\ errC <= starts
    BY Parts, Sets DEF Fresh
  <2>3. errC # None => errC <= starts + 1
    BY <1>3, <2>2
  <2>4. QED
    BY <1>1, <1>3, <1>10, <2>1, <2>3 DEF Fresh
<1>12. \A u \in Thread : Begun(u)'
  <2>1. doneC' # None /\ errC' # doneC' /\ Untouched(doneC)'
    <3>1. errC # None => errC \in Nat /\ errC <= starts
      BY Parts, Sets DEF Fresh
    <3>2. errC # starts + 1
      BY <1>2, <1>3, <3>1, Sets
    <3>3. starts + 1 > starts
      BY <1>3
    <3>4. Untouched(starts + 1)
      BY <1>2, <3>3, Parts DEF Fresh
    <3>5. QED
      BY <1>1, <1>2, <3>2, <3>4, Sets DEF Untouched
  <2>2. Begun(t)'
    BY <1>1, <1>6, <2>1 DEF Begun
  <2>3. \A u \in Thread : u # t => Begun(u)'
    BY <1>5 DEF Begun, Keeping
  <2>4. QED
    BY <2>2, <2>3
<1>13. Current' /\ Held' /\ Clients' /\ Links' /\ Answered'
  BY <1>1, <1>7, Parts DEF Current, Held, Clients, Links, Answered
<1>14. Closing' /\ Earlier'
  BY <1>1, <1>4, <1>5, <1>6, Parts DEF Closing, Earlier, Unanswered, Keeping
<1>15. QED
  BY <1>2, <1>8, <1>9, <1>11, <1>12, <1>13, <1>14 DEF StubInv

LEMMA ConnectInv ==
    ASSUME StubInv, NEW t \in Thread, Connect(t)
    PROVE  StubInv'
<1> DEFINE s == doneC
           c == IF conn = None THEN s ELSE conn
<1>1. /\ pc[t] = "connect"
      /\ conn' = c
      /\ link' = [link EXCEPT ![c] = IF conn = None THEN "up" ELSE @]
      /\ trunk' = [trunk EXCEPT ![s] = c]
      /\ serving' = [serving EXCEPT ![s] = "serving"]
      /\ client' = [client EXCEPT ![s] = "open"]
      /\ errC' = s /\ rpc' = s
      /\ pc' = [pc EXCEPT ![t] = "register"]
      /\ UNCHANGED <<lock, started, doneC, starts, reg, cfgErr, srvErr, chan>>
  BY DEF Connect, Goto
<1>2. TypeOK
  BY Parts
<1>3. /\ s \in Session /\ s = starts /\ Untouched(s) /\ errC # s /\ ~started
      /\ c \in Connection
  BY <1>1, Parts, Sets DEF Begun
<1>4. /\ lock = t /\ \A u \in Thread : pc[u] \in Keeping => u = t
      /\ \A d \in Session : client[d] # "closing"
  BY <1>1, Keeper DEF Keeping
<1>5. /\ \A d \in Session : serving[d] # "serving" /\ client[d] # "open"
      /\ \A b \in Connection \ {Given} : link[b] # "up"
  BY <1>1, <1>3, <1>4, NothingServed DEF Keeping
<1> HIDE DEF s, c
<1>6. /\ \A d \in Session : /\ serving'[d] = "serving" <=> d = s
                            /\ client'[d] = "open" => d = s
                            /\ client'[d] # "closing"
                            /\ d # s => /\ serving'[d] = serving[d] /\ client'[d] = client[d]
                                        /\ trunk'[d] = trunk[d]
      /\ trunk'[s] = c /\ conn' = c
  BY <1>1, <1>2, <1>3, <1>4, <1>5 DEF TypeOK
<1>7. pc'[t] = "register" /\ \A u \in Thread : u # t => pc'[u] = pc[u] /\ pc'[u] \notin Keeping
  BY <1>1, <1>2, <1>4 DEF TypeOK
<1>8. Room'
  <2>1. Starting' \subseteq Starting
    BY <1>7 DEF Starting
  <2>2. QED
    BY <1>1, <2>1, RoomKept, Parts
<1>9. TypeOK'
  <2>1. link' \in [Connection -> {"none", "up", "down"}]
    BY <1>1, <1>2, <1>3 DEF TypeOK
  <2>2. pc' \in [Thread -> PC]
    BY <1>1, <1>2 DEF TypeOK, PC
  <2>3. /\ trunk' \in [Session -> Connection \cup {None}]
        /\ serving' \in [Session -> {"none", "serving", "closing", "sent", "done"}]
        /\ client' \in [Session -> {"none", "open", "closed", "closing", "over"}]
    BY <1>1, <1>2, <1>3 DEF TypeOK
  <2>4. lock' = t /\ t \notin Session
    BY <1>1, <1>4, Sets
  <2>5. /\ UNCHANGED <<started, doneC, starts, reg, cfgErr, srvErr, chan>>
        /\ conn' = c /\ errC' = s /\ rpc' = s
    BY <1>1
  <2>6. QED
    BY <1>2, <1>3, <1>7, <2>1, <2>2, <2>3, <2>4, <2>5 DEF TypeOK
<1>10. LockHeld'
  BY <1>1, <1>4, <1>6, <1>7, Sets DEF LockHeld, Keeping
<1>11. Fresh'
  <2>1. \A d \in Session : d > starts => d # s
    BY <1>3, Sets
  <2>2. \A d \in Session : d > starts => Untouched(d)'
    BY <1>1, <1>6, <2>1, Parts DEF Fresh, Untouched
  <2>3. s <= starts
    BY <1>3, Sets
  <2>4. QED
    BY <1>1, <2>2, <2>3, Parts DEF Fresh
<1>12. \A u \in Thread : Begun(u)'
  BY <1>1, <1>3, <1>6, <1>7, Sets DEF Begun, Keeping, s
<1>13. Current'
  BY <1>1, <1>3, <1>6, <1>7, Sets DEF Current, s
<1>14. Held' /\ Clients'
  BY <1>1, <1>3, <1>6 DEF Held, Clients
<1>15. Links'
  <2>1. \A b \in Connection \ {Given} : link'[b] = "up" => b = c
    BY <1>1, <1>2, <1>3, <1>5 DEF TypeOK
  <2>2. QED
    BY <1>3, <1>6, <2>1 DEF Links
<1>16. Closing'
  BY <1>6, <1>7 DEF Closing, Keeping
<1>17. Earlier'
  <2> SUFFICES ASSUME NEW d \in Session, Unanswered(d)'
               PROVE  /\ errC' # None /\ ~started'
                      /\ conn' # None /\ link'[conn'] = "down"
                      /\ \A e \in Session : e # d /\ serving'[e] = "serving" => reg'[e] = "none"
    BY DEF Earlier
  <2>1. conn # None /\ link[conn] = "down"
    BY <1>1, <1>5, Parts DEF Earlier, Unanswered
  <2>2. conn' = conn /\ link'[conn] = "down"
    BY <1>1, <1>2, <2>1 DEF c, TypeOK
  <2>3. \A e \in Session : serving'[e] = "serving" => reg'[e] = "none"
    BY <1>1, <1>3, <1>6 DEF Untouched
  <2>4. QED
    BY <1>1, <1>3, <2>1, <2>2, <2>3, Sets
<1>18. Answered'
  BY <1>1, <1>3, <1>6 DEF Answered, Untouched
<1>19. QED
  BY <1>8, <1>9, <1>10, <1>11, <1>12, <1>13, <1>14, <1>15, <1>16, <1>17, <1>18 DEF StubInv

LEMMA ConnectFailsInv ==
    ASSUME StubInv, NEW t \in Thread, ConnectFails(t)
    PROVE  StubInv'
<1> USE DEF fieldVars, sessionVars
<1>1. /\ pc[t] = "connect" /\ lock' = None /\ pc' = [pc EXCEPT ![t] = "idle"]
      /\ UNCHANGED <<fieldVars, starts, link, sessionVars, chan>>
  BY DEF ConnectFails, Goto
<1>2. /\ lock = t /\ \A u \in Thread : pc[u] \in Keeping => u = t
      /\ \A d \in Session : client[d] # "closing"
  BY <1>1, Keeper DEF Keeping
<1>3. \A u \in Thread : pc'[u] \notin Keeping /\ (pc'[u] = "start" => pc[u] = "start")
  BY <1>1, <1>2, Parts DEF TypeOK, Keeping
<1>4. ~started /\ \A d \in Session : serving[d] # "serving"
  BY <1>1, <1>2, Parts, NothingServed DEF Begun, Keeping
<1>5. Room'
  <2>1. Starting' \subseteq Starting
    BY <1>3 DEF Starting
  <2>2. QED
    BY <1>1, <2>1, RoomKept, Parts
<1>6. TypeOK'
  BY <1>1, Parts, Sets DEF TypeOK, PC
<1>7. LockHeld'
  BY <1>1, <1>2, <1>3, Sets DEF LockHeld
<1>8. Fresh'
  BY <1>1, Parts DEF Fresh, Untouched
<1>9. \A u \in Thread : Begun(u)'
  BY <1>3 DEF Begun, Keeping
<1>10. Current' /\ Held' /\ Clients' /\ Links' /\ Answered'
  BY <1>1, <1>4, Parts DEF Current, Held, Clients, Links, Answered
<1>11. Closing' /\ Earlier'
  BY <1>1, <1>2, <1>3, Parts DEF Closing, Earlier, Unanswered, Keeping
<1>12. QED
  BY <1>5, <1>6, <1>7, <1>8, <1>9, <1>10, <1>11 DEF StubInv

LEMMA RegisteredInv ==
    ASSUME StubInv, NEW t \in Thread, Registered(t)
    PROVE  StubInv'
<1> USE DEF fieldVars, sessionVars
<1>1. /\ pc[t] = "register" /\ reg[doneC] # "none" /\ pc' = [pc EXCEPT ![t] = "configure"]
      /\ UNCHANGED <<lock, fieldVars, starts, link, sessionVars, chan>>
  BY DEF Registered, Goto
<1>2. \A u \in Thread : /\ u # t => pc'[u] = pc[u]
                        /\ pc'[t] = "configure"
                        /\ pc'[u] \in Keeping <=> pc[u] \in Keeping
                        /\ pc'[u] \in {"register", "configure"} <=> pc[u] \in {"register", "configure"}
                        /\ pc'[u] = "start" => pc[u] = "start"
                        /\ pc'[u] = "closing" => pc[u] = "closing"
  BY <1>1, Parts DEF TypeOK, Keeping
<1>3. Room'
  <2>1. Starting' \subseteq Starting
    BY <1>2 DEF Starting
  <2>2. QED
    BY <1>1, <2>1, RoomKept, Parts
<1>4. LockHeld'
  BY <1>1, <1>2, Parts DEF LockHeld
<1>5. TypeOK'
  <2>1. lock \in Thread => pc'[lock] \in Keeping
    BY <1>2, Parts DEF LockHeld
  <2>2. pc' \in [Thread -> PC]
    BY <1>1, Parts DEF TypeOK, PC
  <2>3. QED
    BY <1>1, <2>1, <2>2, Parts DEF TypeOK, Keeping
<1>6. Fresh'
  BY <1>1, Parts DEF Fresh, Untouched
<1>7. \A u \in Thread : Begun(u)'
  <2>1. Begun(t)'
    BY <1>1, <1>2, Parts DEF Begun
  <2>2. \A u \in Thread : u # t => Begun(u)'
    BY <1>1, <1>2, Parts DEF Begun, Untouched
  <2>3. QED
    BY <2>1, <2>2
<1>8. Current'
  <2>1. Current
    BY Parts
  <2>2. (\E u \in Thread : pc[u] \in {"register", "configure"})
        => \E u \in Thread : pc'[u] \in {"register", "configure"}
    BY <1>2
  <2>3. QED
    BY <1>1, <2>1, <2>2 DEF Current
<1>9. Held' /\ Clients' /\ Links' /\ Answered'
  BY <1>1, Parts DEF Held, Clients, Links, Answered
<1>10. Closing' /\ Earlier'
  BY <1>1, <1>2, Parts DEF Closing, Earlier, Unanswered
<1>11. QED
  BY <1>3, <1>4, <1>5, <1>6, <1>7, <1>8, <1>9, <1>10 DEF StubInv

LEMMA FailStartInv ==
    ASSUME StubInv, NEW t \in Thread, RegisterFails(t) \/ ConfigureFailed(t)
    PROVE  StubInv'
<1> DEFINE s == doneC
           c == conn
<1>1. /\ pc[t] \in {"register", "configure"}
      /\ serving' = [serving EXCEPT ![s] = "closing"]
      /\ link' = [link EXCEPT ![trunk[s]] = "down"]
      /\ client' = [client EXCEPT ![s] = IF @ = "open" THEN "closed" ELSE @]
      /\ rpc' = None /\ lock' = None
      /\ pc' = [pc EXCEPT ![t] = "idle"]
      /\ UNCHANGED <<started, conn, doneC, errC, starts, trunk, reg, srvErr, chan>>
      /\ cfgErr' = cfgErr \/ cfgErr' = [cfgErr EXCEPT ![errC] = "none"]
  BY DEF RegisterFails, ConfigureFailed, FailStart, Shut, Disconnected, Goto
<1>2. TypeOK
  BY Parts
<1>3. /\ s \in Session /\ s = starts /\ ~started /\ serving[s] = "serving"
      /\ errC = s /\ trunk[s] = c /\ c # None /\ c \in Connection
      /\ \A d \in Session : serving[d] = "serving" => d = s
  BY <1>1, Parts DEF Begun, Current
<1>4. /\ lock = t /\ \A u \in Thread : pc[u] \in Keeping => u = t
      /\ \A d \in Session : client[d] # "closing"
  BY <1>1, Keeper DEF Keeping
<1> HIDE DEF s, c
<1>5. \A u \in Thread : pc'[u] \notin Keeping /\ (pc'[u] = "start" => pc[u] = "start")
  BY <1>1, <1>2, <1>4 DEF TypeOK, Keeping
<1>6. \A d \in Session : /\ serving'[d] # "serving" /\ client'[d] # "closing" /\ client'[d] # "open"
                         /\ d # s => /\ serving'[d] = serving[d] /\ client'[d] = client[d]
                                     /\ cfgErr'[d] = cfgErr[d]
  <2>1. Clients
    BY Parts
  <2>2. \A d \in Session : d # s => serving[d] # "serving" /\ client[d] # "open"
    BY <1>3, <2>1 DEF Clients
  <2>3. \A d \in Session : d # s => serving'[d] = serving[d] /\ client'[d] = client[d]
    BY <1>1, <1>2 DEF TypeOK
  <2>4. \A d \in Session : d # s => cfgErr'[d] = cfgErr[d]
    BY <1>1, <1>2, <1>3 DEF TypeOK
  <2>5. serving'[s] = "closing" /\ client'[s] # "open" /\ client'[s] # "closing"
    BY <1>1, <1>2, <1>3, <1>4 DEF TypeOK
  <2>6. QED
    BY <1>4, <2>2, <2>3, <2>4, <2>5
<1>7. \A b \in Connection : link'[b] = IF b = c THEN "down" ELSE link[b]
  BY <1>1, <1>2, <1>3 DEF TypeOK
<1>8. Room'
  <2>1. Starting' \subseteq Starting
    BY <1>5 DEF Starting
  <2>2. QED
    BY <1>1, <2>1, RoomKept, Parts
<1>9. TypeOK'
  <2>1. link' \in [Connection -> {"none", "up", "down"}]
    BY <1>1, <1>2, <1>3 DEF TypeOK
  <2>2. pc' \in [Thread -> PC]
    BY <1>1, <1>2 DEF TypeOK, PC
  <2>3. /\ serving' \in [Session -> {"none", "serving", "closing", "sent", "done"}]
        /\ client' \in [Session -> {"none", "open", "closed", "closing", "over"}]
    BY <1>1, <1>2, <1>3 DEF TypeOK
  <2>4. cfgErr' \in [Session -> {"none", "ok", "error"}]
    BY <1>1, <1>2, <1>3 DEF TypeOK
  <2>5. /\ UNCHANGED <<started, conn, doneC, errC, starts, trunk, reg, srvErr, chan>>
        /\ rpc' = None /\ lock' = None
    BY <1>1
  <2>6. QED
    BY <1>2, <2>1, <2>2, <2>3, <2>4, <2>5, Sets DEF TypeOK
<1>10. LockHeld'
  BY <1>1, <1>5, <1>6, Sets DEF LockHeld
<1>11. Fresh'
  <2>1. \A d \in Session : d > starts => d # s
    BY <1>3, Sets
  <2>2. \A d \in Session : d > starts => Untouched(d)'
    BY <1>1, <1>6, <2>1, Parts DEF Fresh, Untouched
  <2>3. QED
    BY <1>1, <2>2, Parts DEF Fresh
<1>12. \A u \in Thread : Begun(u)'
  BY <1>5 DEF Begun, Keeping
<1>13. Current' /\ Held' /\ Clients' /\ Answered'
  BY <1>1, <1>3, <1>6 DEF Current, Held, Clients, Answered
<1>14. Links'
  <2>1. \A b \in Connection \ {Given} : link'[b] # "up"
    BY <1>3, <1>7, Parts DEF Links
  <2>2. QED
    BY <2>1 DEF Links
<1>15. Closing'
  BY <1>5, <1>6 DEF Closing, Keeping
<1>16. Earlier'
  <2> SUFFICES ASSUME NEW d \in Session, Unanswered(d)'
               PROVE  errC' # None /\ ~started' /\ conn' # None /\ link'[conn'] = "down"
    BY <1>6 DEF Earlier
  <2>1. conn' = c /\ link'[c] = "down"
    BY <1>1, <1>3, <1>7 DEF c
  <2>2. QED
    BY <1>1, <1>3, <2>1, Sets
<1>17. QED
  BY <1>8, <1>9, <1>10, <1>11, <1>12, <1>13, <1>14, <1>15, <1>16 DEF StubInv

LEMMA ConfiguredInv ==
    ASSUME StubInv, NEW t \in Thread, Configured(t)
    PROVE  StubInv'
<1> DEFINE s == doneC
<1>1. /\ pc[t] = "configure" /\ cfgErr[errC] = "ok"
      /\ cfgErr' = [cfgErr EXCEPT ![errC] = "none"]
      /\ started' = TRUE /\ lock' = None
      /\ pc' = [pc EXCEPT ![t] = "started"]
      /\ UNCHANGED <<conn, doneC, errC, rpc, starts, link, trunk, serving, client, reg, srvErr, chan>>
  BY DEF Configured, Goto
<1>2. TypeOK
  BY Parts
<1>3. /\ s \in Session /\ s = starts /\ ~started /\ serving[s] = "serving" /\ reg[s] # "none"
      /\ errC = s /\ rpc = s /\ trunk[s] = conn /\ conn # None
      /\ \A d \in Session : serving[d] = "serving" => d = s
  BY <1>1, Parts DEF Begun, Current
<1>4. /\ lock = t /\ \A u \in Thread : pc[u] \in Keeping => u = t
      /\ \A d \in Session : client[d] # "closing"
  BY <1>1, Keeper DEF Keeping
<1>5. \A u \in Thread : pc'[u] \notin Keeping /\ (pc'[u] = "start" => pc[u] = "start")
  BY <1>1, <1>2, <1>4 DEF TypeOK, Keeping
<1>6. reg[s] = "configured"
  BY <1>1, <1>3, Parts DEF Answered
<1>7. \A d \in Session : ~Unanswered(d)
  <2>1. ~Unanswered(s)
    BY <1>6 DEF Unanswered
  <2>2. \A d \in Session : d # s => ~Unanswered(d)
    BY <1>3, Parts DEF Earlier
  <2>3. QED
    BY <2>1, <2>2
<1>8. Room'
  <2>1. Starting' \subseteq Starting
    BY <1>5 DEF Starting
  <2>2. QED
    BY <1>1, <2>1, RoomKept, Parts
<1>9. TypeOK'
  <2>1. pc' \in [Thread -> PC]
    BY <1>1, <1>2 DEF TypeOK, PC
  <2>2. cfgErr' \in [Session -> {"none", "ok", "error"}]
    BY <1>1, <1>2 DEF TypeOK
  <2>3. QED
    BY <1>1, <1>2, <2>1, <2>2, Sets DEF TypeOK
<1>10. LockHeld'
  BY <1>1, <1>4, <1>5, Sets DEF LockHeld
<1>11. Fresh'
  <2>1. \A d \in Session : d > starts => d # s
    BY <1>3, Sets
  <2>2. \A d \in Session : d # s => cfgErr'[d] = cfgErr[d]
    BY <1>1, <1>2, <1>3 DEF TypeOK
  <2>3. \A d \in Session : d > starts => Untouched(d)'
    BY <1>1, <2>1, <2>2, Parts DEF Fresh, Untouched
  <2>4. QED
    BY <1>1, <2>3, Parts DEF Fresh
<1>12. \A u \in Thread : Begun(u)'
  BY <1>5 DEF Begun, Keeping
<1>13. Current'
  BY <1>1, Parts DEF Current
<1>14. Held'
  BY <1>1, <1>3, <1>6, Sets DEF Held
<1>15. Clients' /\ Links' /\ Answered'
  BY <1>1, Parts DEF Clients, Links, Answered
<1>16. Closing' /\ Earlier'
  BY <1>1, <1>4, <1>5, <1>7 DEF Closing, Earlier, Unanswered, Keeping
<1>17. QED
  BY <1>8, <1>9, <1>10, <1>11, <1>12, <1>13, <1>14, <1>15, <1>16 DEF StubInv

(***************************************************************************)
(* stub.close begins: whoever takes the lock shuts the session of the      *)
(* fields, which is the only one served.                                   *)
(***************************************************************************)
LEMMA CloseBegins ==
    ASSUME StubInv, started, lock = None, Shut(rpc), TypeOK', Room',
           NEW k \in Thread \cup Session, lock' = k,
           UNCHANGED <<fieldVars, starts, trunk, reg, cfgErr>>,
           \A u \in Thread : pc'[u] \in Keeping => pc'[u] = "closing",
           \A u \in Thread : pc'[u] \in Keeping <=> u = k,
           \A d \in Session : /\ client'[d] = "closing" <=> d = k
                              /\ client'[d] # "open"
                              /\ client[d] = "none" => client'[d] = "none"
    PROVE  StubInv'
<1> USE DEF fieldVars
<1>1. /\ rpc \in Session /\ rpc = starts /\ doneC = rpc /\ errC = rpc
      /\ trunk[rpc] \in Connection /\ TypeOK
  BY Parts, Sets DEF Held, TypeOK
<1>2. /\ \A d \in Session : serving'[d] = IF d = rpc THEN "closing" ELSE serving[d]
      /\ \A c \in Connection : link'[c] = IF c = trunk[rpc] THEN "down" ELSE link[c]
  BY <1>1 DEF Shut, TypeOK
<1>3. \A d \in Session : serving'[d] # "serving"
  BY <1>1, <1>2, Parts DEF Current
<1>4. LockHeld'
  BY DEF LockHeld
<1>5. Fresh'
  <2>1. \A d \in Session : d > starts => d # rpc
    BY <1>1, Sets
  <2>2. \A d \in Session : d > starts => Untouched(d)'
    BY <1>1, <1>2, <2>1, Parts DEF Fresh, Untouched
  <2>3. QED
    BY <1>1, <2>2, Parts DEF Fresh
<1>6. \A u \in Thread : Begun(u)'
  BY DEF Begun, Keeping
<1>7. Current' /\ Clients' /\ Answered'
  BY <1>3 DEF Current, Clients, Answered
<1>8. Held'
  BY Parts DEF Held
<1>9. Links'
  <2>1. \A c \in Connection \ {Given} : link'[c] # "up"
    BY <1>1, <1>2, Parts DEF Links, Current
  <2>2. QED
    BY <2>1 DEF Links
<1>10. Closing'
  BY <1>1, <1>3 DEF Closing
<1>11. Earlier'
  BY Parts DEF Earlier, Unanswered
<1>12. QED
  BY <1>4, <1>5, <1>6, <1>7, <1>8, <1>9, <1>10, <1>11 DEF StubInv

LEMMA StopBeginsInv ==
    ASSUME StubInv, NEW t \in Thread, StopBegins(t)
    PROVE  StubInv'
<1>1. /\ pc[t] = "stop" /\ lock = None /\ started /\ lock' = t /\ Shut(rpc)
      /\ client' = [client EXCEPT ![rpc] = IF @ = "open" THEN "closed" ELSE @]
      /\ pc' = [pc EXCEPT ![t] = "closing"]
      /\ UNCHANGED <<fieldVars, starts, trunk, reg, cfgErr, srvErr, chan>>
  BY DEF StopBegins, At, Goto, Disconnected
<1>2. TypeOK /\ rpc \in Session /\ trunk[rpc] \in Connection
  BY <1>1, Parts, Sets DEF Held, TypeOK
<1>3. /\ \A u \in Thread : pc[u] \notin Keeping
      /\ \A d \in Session : client[d] # "closing"
  BY <1>1, NoKeeper
<1>4. \A u \in Thread : /\ pc'[u] \in Keeping => pc'[u] = "closing"
                        /\ pc'[u] \in Keeping <=> u = t
                        /\ pc'[u] = "start" => pc[u] = "start"
  BY <1>1, <1>2, <1>3 DEF TypeOK, Keeping
<1>5. \A d \in Session : client[d] = "open" => d = rpc
  BY Parts DEF Clients, Current
<1>6. \A d \in Session : /\ client'[d] # "closing" /\ client'[d] # "open"
                         /\ client[d] = "none" => client'[d] = "none"
  BY <1>1, <1>2, <1>3, <1>5 DEF TypeOK
<1>7. Room'
  <2>1. Starting' \subseteq Starting
    BY <1>4 DEF Starting
  <2>2. QED
    BY <1>1, <2>1, RoomKept, Parts
<1>8. TypeOK'
  <2>1. link' \in [Connection -> {"none", "up", "down"}]
    BY <1>1, <1>2 DEF TypeOK, Shut
  <2>2. pc' \in [Thread -> PC]
    BY <1>1, <1>2 DEF TypeOK, PC
  <2>3. /\ serving' \in [Session -> {"none", "serving", "closing", "sent", "done"}]
        /\ client' \in [Session -> {"none", "open", "closed", "closing", "over"}]
    BY <1>1, <1>2 DEF TypeOK, Shut
  <2>4. lock' = t /\ t \notin Session /\ pc'[t] = "closing"
    BY <1>1, <1>2, Sets DEF TypeOK
  <2>5. UNCHANGED <<started, conn, doneC, errC, rpc, starts, trunk, reg, cfgErr, srvErr, chan>>
    BY <1>1 DEF fieldVars
  <2>6. QED
    BY <1>2, <2>1, <2>2, <2>3, <2>4, <2>5 DEF TypeOK
<1>9. t \notin Session
  BY Sets
<1>10. QED
  BY <1>1, <1>4, <1>6, <1>7, <1>8, <1>9, CloseBegins

LEMMA ConnClosedInv ==
    ASSUME StubInv, NEW s \in Session, ConnClosed(s), started
    PROVE  StubInv'
<1>1. /\ client[s] = "closed" /\ lock = None /\ lock' = s /\ Shut(rpc)
      /\ client' = [[client EXCEPT ![rpc] = IF @ = "open" THEN "closed" ELSE @]
                      EXCEPT ![s] = "closing"]
      /\ UNCHANGED <<fieldVars, starts, trunk, reg, cfgErr, srvErr, threadVars>>
  BY DEF ConnClosed, Disconnected
<1>2. TypeOK /\ rpc \in Session /\ trunk[rpc] \in Connection
  BY Parts, Sets DEF Held, TypeOK
<1>3. /\ \A u \in Thread : pc[u] \notin Keeping
      /\ \A d \in Session : client[d] # "closing"
  BY <1>1, NoKeeper
<1>4. \A u \in Thread : pc'[u] \notin Keeping /\ u # s
  BY <1>1, <1>3, Sets DEF threadVars
<1>5. \A d \in Session : client[d] = "open" => d = rpc
  BY Parts DEF Clients, Current
<1>6. \A d \in Session : /\ client'[d] = "closing" <=> d = s
                         /\ client'[d] # "open"
                         /\ client[d] = "none" => client'[d] = "none"
  BY <1>1, <1>2, <1>3, <1>5 DEF TypeOK
<1>7. Room'
  BY <1>1, Parts DEF Room, Starting, threadVars
<1>8. TypeOK'
  <2>1. link' \in [Connection -> {"none", "up", "down"}]
    BY <1>1, <1>2 DEF TypeOK, Shut
  <2>3. /\ serving' \in [Session -> {"none", "serving", "closing", "sent", "done"}]
        /\ client' \in [Session -> {"none", "open", "closed", "closing", "over"}]
    BY <1>1, <1>2 DEF TypeOK, Shut
  <2>4. lock' = s /\ s \notin Thread /\ client'[s] = "closing"
    BY <1>1, <1>6, Sets
  <2>5. UNCHANGED <<started, conn, doneC, errC, rpc, starts, trunk, reg, cfgErr, srvErr, pc, chan>>
    BY <1>1 DEF fieldVars, threadVars
  <2>6. QED
    BY <1>2, <2>1, <2>3, <2>4, <2>5 DEF TypeOK
<1>9. QED
  BY <1>1, <1>4, <1>6, <1>7, <1>8, CloseBegins

(***************************************************************************)
(* stub.close returns: nothing is served, and nobody awaits an answer.     *)
(***************************************************************************)
LEMMA CloseEnds ==
    ASSUME StubInv, TypeOK', Room', CloseReturns,
           (\E u \in Thread : pc[u] = "closing") \/ (\E d \in Session : client[d] = "closing"),
           UNCHANGED <<doneC, errC, rpc, starts, link, trunk, serving, reg, cfgErr>>,
           \A u \in Thread : pc'[u] \notin Keeping,
           \A d \in Session : /\ client'[d] # "closing"
                              /\ client'[d] = "open" => client[d] = "open"
                              /\ client[d] = "none" => client'[d] = "none"
    PROVE  StubInv'
<1>1. /\ started /\ serving[doneC] = "done"
      /\ started' = FALSE /\ conn' = None /\ lock' = None
  BY Parts DEF Closing, CloseReturns
<1>2. \A d \in Session : serving[d] # "serving" /\ client[d] # "open" /\ ~Unanswered(d)
  BY <1>1, Parts DEF Current, Clients, Earlier
<1>3. LockHeld'
  BY <1>1, Sets DEF LockHeld
<1>4. Fresh'
  BY Parts DEF Fresh, Untouched
<1>5. \A u \in Thread : Begun(u)'
  BY DEF Begun, Keeping
<1>6. Current' /\ Clients' /\ Answered' /\ Held'
  BY <1>1, <1>2 DEF Current, Clients, Answered, Held
<1>7. Links'
  BY <1>2, Parts DEF Links
<1>8. Closing' /\ Earlier'
  BY <1>2 DEF Closing, Earlier, Unanswered, Keeping
<1>9. QED
  BY <1>3, <1>4, <1>5, <1>6, <1>7, <1>8 DEF StubInv

LEMMA StopReturnsInv ==
    ASSUME StubInv, NEW t \in Thread, StopReturns(t)
    PROVE  StubInv'
<1> USE DEF sessionVars
<1>1. /\ pc[t] = "closing" /\ CloseReturns /\ pc' = [pc EXCEPT ![t] = "idle"]
      /\ UNCHANGED <<doneC, errC, rpc, starts, link, sessionVars, chan>>
  BY DEF StopReturns, Goto
<1>2. /\ \A u \in Thread : pc[u] \in Keeping => u = t
      /\ \A d \in Session : client[d] # "closing"
  BY <1>1, Keeper DEF Keeping
<1>3. \A u \in Thread : pc'[u] \notin Keeping /\ (pc'[u] = "start" => pc[u] = "start")
  BY <1>1, <1>2, Parts DEF TypeOK, Keeping
<1>4. Room'
  <2>1. Starting' \subseteq Starting
    BY <1>3 DEF Starting
  <2>2. QED
    BY <1>1, <2>1, RoomKept, Parts
<1>5. TypeOK'
  <2>1. pc' \in [Thread -> PC]
    BY <1>1, Parts DEF TypeOK, PC
  <2>2. started' = FALSE /\ conn' = None /\ lock' = None
    BY <1>1 DEF CloseReturns
  <2>3. QED
    BY <1>1, <2>1, <2>2, Parts, Sets DEF TypeOK
<1>6. QED
  BY <1>1, <1>2, <1>3, <1>4, <1>5, CloseEnds

LEMMA ConnClosedReturnsInv ==
    ASSUME StubInv, NEW s \in Session, ConnClosedReturns(s)
    PROVE  StubInv'
<1> USE DEF threadVars
<1>1. /\ client[s] = "closing" /\ CloseReturns /\ client' = [client EXCEPT ![s] = "over"]
      /\ UNCHANGED <<doneC, errC, rpc, starts, link, trunk, serving, reg, cfgErr, srvErr, threadVars>>
  BY DEF ConnClosedReturns
<1>2. LockHeld /\ TypeOK
  BY Parts
<1>3. \A u \in Thread : pc'[u] \notin Keeping
  BY <1>1, <1>2, OneKeeper
<1>4. \A d \in Session : d # s => client[d] # "closing"
  BY <1>1, <1>2, OneKeeper
<1>5. \A d \in Session : /\ client'[d] # "closing"
                         /\ client'[d] = "open" => client[d] = "open"
                         /\ client[d] = "none" => client'[d] = "none"
  BY <1>1, <1>2, <1>4 DEF TypeOK
<1>6. Room'
  BY <1>1, Parts DEF Room, Starting
<1>7. TypeOK'
  <2>1. client' \in [Session -> {"none", "open", "closed", "closing", "over"}]
    BY <1>1, <1>2 DEF TypeOK
  <2>2. started' = FALSE /\ conn' = None /\ lock' = None
    BY <1>1 DEF CloseReturns
  <2>3. QED
    BY <1>1, <1>2, <2>1, <2>2, Sets DEF TypeOK
<1>8. QED
  BY <1>1, <1>3, <1>5, <1>6, <1>7, CloseEnds

(***************************************************************************)
(* The runtime answers, and the connection may break.                      *)
(***************************************************************************)
LEMMA RuntimeInv ==
    ASSUME StubInv, NEW s \in Session, Runtime(s)
    PROVE  StubInv'
<1> USE DEF fieldVars, threadVars
<1>1. /\ UNCHANGED <<lock, fieldVars, starts, link, trunk, serving, client, cfgErr, srvErr, threadVars>>
      /\ reg[s] # "configured"
      /\ reg[s] = "none" => serving[s] = "serving"
      /\ reg[s] \in {"none", "accepted"} /\ link[trunk[s]] = "up"
      /\ reg' = [reg EXCEPT ![s] = "accepted"] \/ reg' = [reg EXCEPT ![s] = "configuring"]
  BY DEF Runtime, RuntimeAccepts, RuntimeConfigures
<1>2. TypeOK
  BY Parts
<1>3. \A d \in Session : /\ d # s => reg'[d] = reg[d]
                         /\ reg'[s] \in {"accepted", "configuring"}
  BY <1>1, <1>2 DEF TypeOK
<1>4. TypeOK' /\ Room'
  BY <1>1, <1>2, Parts DEF TypeOK, Room, Starting
<1>5. serving[s] = "serving" => /\ ~started /\ s = errC /\ s = doneC /\ trunk[s] = conn
                                /\ \A d \in Session : serving[d] = "serving" => d = s
  BY <1>1, Parts DEF Current, Held
<1>6. LockHeld'
  BY <1>1, Parts DEF LockHeld
<1>7. Fresh'
  <2>1. \A d \in Session : Untouched(d) => d # s \/ serving[s] = "none"
    BY DEF Untouched
  <2>2. \A d \in Session : Untouched(d) => Untouched(d)'
    BY <1>1, <1>3 DEF Untouched
  <2>3. QED
    BY <1>1, <2>2, Parts DEF Fresh
<1>8. \A u \in Thread : Begun(u)'
  <2>1. \A d \in Session : Untouched(d) => Untouched(d)'
    BY <1>1, <1>3 DEF Untouched
  <2>2. \A d \in Session : reg[d] # "none" => reg'[d] # "none"
    BY <1>3
  <2>3. QED
    BY <1>1, <2>1, <2>2, Parts DEF Begun
<1>9. Current' /\ Clients' /\ Links'
  BY <1>1, Parts DEF Current, Clients, Links
<1>10. Held'
  BY <1>1, <1>3, Parts DEF Held
<1>11. Closing'
  BY <1>1, Parts DEF Closing
<1>12. Earlier'
  <2>1. CASE reg[s] = "none"
    <3>1. \A d \in Session : d # s => ~Unanswered(d)
      <4> SUFFICES ASSUME NEW d \in Session, d # s, Unanswered(d)
                   PROVE  FALSE
        OBVIOUS
      <4>1. serving[d] = "serving" \/ link[conn] = "down"
        BY Parts DEF Earlier
      <4>2. QED
        BY <1>1, <1>5, <2>1, <4>1
    <3>2. \A d \in Session : Unanswered(d)' => d = s
      BY <1>3, <3>1 DEF Unanswered
    <3>3. QED
      BY <1>1, <1>5, <2>1, <3>2, Sets DEF Earlier
  <2>2. CASE reg[s] = "accepted"
    <3>1. \A d \in Session : Unanswered(d)' <=> Unanswered(d)
      BY <1>3, <2>2 DEF Unanswered
    <3>2. \A d \in Session : reg[d] = "none" => reg'[d] = "none"
      BY <1>3, <2>2
    <3>3. QED
      BY <1>1, <3>1, <3>2, Parts DEF Earlier
  <2>3. QED
    BY <1>1, <2>1, <2>2
<1>13. Answered'
  <2> SUFFICES ASSUME serving[s] = "serving", ~started, cfgErr[s] = "ok"
               PROVE  FALSE
    BY <1>1, <1>3, Parts DEF Answered
  <2>1. reg[s] = "none" /\ link[conn] = "down"
    BY <1>1, Parts DEF Answered
  <2>2. QED
    BY <1>1, <1>5, <2>1
<1>14. QED
  BY <1>4, <1>6, <1>7, <1>8, <1>9, <1>10, <1>11, <1>12, <1>13 DEF StubInv

(***************************************************************************)
(* An answer goes to the channel of the fields: if it is one to an earlier *)
(* session, then the connection the stub keeps is down, and the session    *)
(* that finds the answer can never be registered.                          *)
(***************************************************************************)
LEMMA ConfigureReturnsInv ==
    ASSUME StubInv, NEW s \in Session, ConfigureReturns(s)
    PROVE  StubInv'
<1> USE DEF fieldVars, threadVars
<1>1. PICK r \in {"ok", "error"} :
         /\ cfgErr' = [cfgErr EXCEPT ![errC] = r]
         /\ reg' = [reg EXCEPT ![s] = IF r = "ok" THEN "configured" ELSE "refused"]
  BY DEF ConfigureReturns
<1>2. /\ UNCHANGED <<lock, fieldVars, starts, link, trunk, serving, client, srvErr, threadVars>>
      /\ reg[s] = "configuring" /\ cfgErr[errC] = "none"
  BY DEF ConfigureReturns
<1>3. TypeOK
  BY Parts
<1>4. /\ errC \in Session /\ ~started
      /\ serving[s] = "serving" \/ link[conn] = "down"
      /\ \A d \in Session : d # s /\ serving[d] = "serving" => reg[d] = "none"
  BY <1>2, Parts DEF Earlier, Unanswered
<1>5. \A d \in Session : /\ d # s => reg'[d] = reg[d]
                         /\ d # errC => cfgErr'[d] = cfgErr[d]
                         /\ cfgErr'[errC] = r
                         /\ reg'[s] = IF r = "ok" THEN "configured" ELSE "refused"
  BY <1>1, <1>3, <1>4 DEF TypeOK
<1>6. TypeOK' /\ Room'
  <2>1. /\ reg' \in [Session -> {"none", "accepted", "configuring", "configured", "refused"}]
        /\ cfgErr' \in [Session -> {"none", "ok", "error"}]
    BY <1>1, <1>3, <1>4 DEF TypeOK
  <2>2. QED
    BY <1>2, <1>3, <2>1, Parts DEF TypeOK, Room, Starting
<1>7. LockHeld'
  BY <1>2, Parts DEF LockHeld
<1>8. \A d \in Session : Untouched(d) /\ d # errC => Untouched(d)'
  BY <1>2, <1>5 DEF Untouched
<1>9. Fresh'
  <2>1. errC <= starts
    BY <1>4, Parts, Sets DEF Fresh
  <2>2. \A d \in Session : d > starts => d # errC
    BY <1>3, <1>4, <2>1, Sets DEF TypeOK
  <2>3. QED
    BY <1>2, <1>8, <2>2, Parts DEF Fresh
<1>10. \A u \in Thread : Begun(u)'
  <2>1. \A d \in Session : reg[d] # "none" => reg'[d] # "none"
    BY <1>5
  <2>2. QED
    BY <1>2, <1>8, <2>1, Parts DEF Begun
<1>11. Current' /\ Held' /\ Clients' /\ Links' /\ Closing'
  BY <1>2, <1>4, Parts DEF Current, Held, Clients, Links, Closing
<1>12. Earlier'
  <2>1. \A d \in Session : Unanswered(d)' => Unanswered(d) /\ d # s
    BY <1>5 DEF Unanswered
  <2>2. \A d \in Session : Unanswered(d) /\ d # s => serving[s] # "serving"
    BY <1>2, Parts DEF Earlier
  <2>3. \A d, e \in Session : Unanswered(d)' /\ e # d /\ serving[e] = "serving" => reg'[e] = "none"
    BY <1>5, <2>1, <2>2, Parts DEF Earlier
  <2>4. QED
    BY <1>2, <2>1, <2>3, Parts DEF Earlier
<1>13. Answered'
  <2> SUFFICES ASSUME NEW d \in Session, serving[d] = "serving", cfgErr'[d] = "ok"
               PROVE  reg'[d] = "configured" \/ (reg'[d] = "none" /\ link[conn] = "down")
    BY <1>2 DEF Answered
  <2>1. d = errC /\ r = "ok"
    BY <1>5, Parts DEF Current
  <2>2. CASE d = s
    BY <1>5, <2>1, <2>2
  <2>3. CASE d # s
    <3>1. serving[s] # "serving"
      BY <2>3, Parts DEF Current
    <3>2. QED
      BY <1>4, <1>5, <2>3, <3>1
  <2>4. QED
    BY <2>2, <2>3
<1>14. QED
  BY <1>6, <1>7, <1>9, <1>10, <1>11, <1>12, <1>13 DEF StubInv

LEMMA ConnectionLostInv ==
    ASSUME StubInv, NEW c \in Connection, ConnectionLost(c)
    PROVE  StubInv'
<1> USE DEF fieldVars, sessionVars, threadVars
<1>1. /\ link' = [link EXCEPT ![c] = "down"]
      /\ UNCHANGED <<lock, fieldVars, starts, sessionVars, threadVars>>
  BY DEF ConnectionLost
<1>2. TypeOK
  BY Parts
<1>3. \A b \in Connection : link'[b] = "down" \/ link'[b] = link[b]
  BY <1>1, <1>2 DEF TypeOK
<1>4. TypeOK' /\ Room'
  BY <1>1, <1>2, Parts DEF TypeOK, Room, Starting
<1>5. LockHeld' /\ Fresh' /\ Current' /\ Held' /\ Clients' /\ Closing'
  BY <1>1, Parts DEF LockHeld, Fresh, Untouched, Current, Held, Clients, Closing
<1>6. \A u \in Thread : Begun(u)'
  BY <1>1, Parts DEF Begun, Untouched
<1>7. Links'
  BY <1>1, <1>3, Parts DEF Links
<1>8. conn # None /\ link[conn] = "down" => link'[conn] = "down"
  BY <1>3, Parts
<1>9. Earlier'
  <2>1. \A d \in Session : Unanswered(d)' => Unanswered(d)
    BY <1>1 DEF Unanswered
  <2>2. QED
    BY <1>1, <1>8, <2>1, Parts DEF Earlier
<1>10. Answered'
  <2>1. \A d \in Session : serving[d] = "serving" => conn # None
    BY Parts DEF Current
  <2>2. QED
    BY <1>1, <1>8, <2>1, Parts DEF Answered
<1>11. QED
  BY <1>4, <1>5, <1>6, <1>7, <1>9, <1>10 DEF StubInv

LEMMA StutterInv ==
    ASSUME StubInv, UNCHANGED vars
    PROVE  StubInv'
<1> USE DEF vars, sessionVars, threadVars
<1>1. TypeOK' /\ Room'
  BY Parts DEF TypeOK, Room, Starting, fieldVars
<1>2. QED
  BY <1>1, Undisturbed

-----------------------------------------------------------------------------
LEMMA StubInit == Init => StubInv
<1> SUFFICES ASSUME Init
             PROVE  StubInv
  OBVIOUS
<1> USE DEF Init
<1>1. TypeOK
  <2>1. conn \in Connection \cup {None} /\ lock = None /\ None \notin Thread \cup Session
    BY Sets DEF Connection
  <2>2. /\ starts \in 0 .. MaxStarts
        /\ pc \in [Thread -> PC] /\ chan \in [Thread -> Session \cup {None}]
    BY StubAssumption DEF PC
  <2>3. link \in [Connection -> {"none", "up", "down"}]
    OBVIOUS
  <2>4. QED
    BY <2>1, <2>2, <2>3 DEF TypeOK
<1>2. Room
  <2>1. Starting = {}
    BY DEF Starting
  <2>2. Cardinality(Starting) = 0
    BY <2>1, FS_EmptySet
  <2>3. QED
    BY <2>2, StubAssumption DEF Room
<1>3. LockHeld
  BY Sets DEF LockHeld, Keeping
<1>4. Fresh /\ \A t \in Thread : Begun(t)
  BY DEF Fresh, Untouched, Begun
<1>5. Current /\ Held /\ Clients
  BY DEF Current, Held, Clients
<1>6. Links
  BY Sets DEF Links
<1>7. Closing /\ Earlier /\ Answered
  BY DEF Closing, Earlier, Answered, Unanswered
<1>8. QED
  BY <1>1, <1>2, <1>3, <1>4, <1>5, <1>6, <1>7 DEF StubInv

LEMMA StubNext == StubInv /\ [Next]_vars => StubInv'
<1> SUFFICES ASSUME StubInv, [Next]_vars
             PROVE  StubInv'
  OBVIOUS
<1>1. ASSUME NEW t \in Thread, \/ \E m \in Methods : Call(t, m)
                               \/ TakesLock(t) \/ Proceeds(t)
      PROVE  StubInv'
  <2>1. CASE Quiet(t)
    BY <2>1, QuietInv
  <2>2. CASE StartBegins(t)
    BY <2>2, StartBeginsInv
  <2>3. CASE StopBegins(t)
    BY <2>3, StopBeginsInv
  <2>4. CASE StopReturns(t)
    BY <2>4, StopReturnsInv
  <2>5. CASE Starts(t)
    BY <2>5, ConnectInv, ConnectFailsInv, RegisteredInv, FailStartInv, ConfiguredInv DEF Starts
  <2>6. QED
    BY <1>1, <2>1, <2>2, <2>3, <2>4, <2>5 DEF TakesLock, Proceeds, Quiet
<1>2. ASSUME NEW s \in Session, \/ Serves(s) \/ ClientCloses(s) \/ ConnClosed(s)
                                \/ ConnClosedReturns(s) \/ Runtime(s) \/ ConfigureReturns(s)
      PROVE  StubInv'
  <2>1. CASE Serves(s)
    BY <2>1, ServesInv
  <2>2. CASE ClientCloses(s)
    BY <2>2, ClientInv
  <2>3. CASE ConnClosed(s)
    BY <2>3, ClientInv, ConnClosedInv
  <2>4. CASE ConnClosedReturns(s)
    BY <2>4, ConnClosedReturnsInv
  <2>5. CASE Runtime(s)
    BY <2>5, RuntimeInv
  <2>6. CASE ConfigureReturns(s)
    BY <2>6, ConfigureReturnsInv
  <2>7. QED
    BY <1>2, <2>1, <2>2, <2>3, <2>4, <2>5, <2>6
<1>3. QED
  BY <1>1, <1>2, ConnectionLostInv, StutterInv DEF Next

(***************************************************************************)
(* The stub keeps to the invariant: who holds its lock, what is served,    *)
(* what its fields refer to and which answers are still owed to whom.      *)
(***************************************************************************)
THEOREM StubInvariant == Spec => []StubInv
BY StubInit, StubNext, PTL DEF Spec

(***************************************************************************)
(* stub.Start sets stub.started only when this session was configured: an  *)
(* answer of an earlier session's handler, which stub.Configure sends to   *)
(* the channel of the fields, never counts for it.                         *)
(***************************************************************************)
THEOREM StartedWasConfigured == Spec => []StartedIsConfigured
<1>1. StubInv => StartedIsConfigured
  BY DEF StubInv, Held, StartedIsConfigured
<1>2. QED
  BY <1>1, StubInvariant, PTL

(***************************************************************************)
(* Whatever Start failed at, and however the stub was closed (stub.close,  *)
(* the deferred functions of stub.Start), nothing stays open.              *)
(***************************************************************************)
THEOREM NothingIsLeaked == Spec => []NothingLeaks
<1>1. ASSUME StubInv
      PROVE  NothingLeaks
  BY <1>1, NoKeeper, NothingServed DEF NothingLeaks, Keeping
<1>2. QED
  BY <1>1, StubInvariant, PTL
-----------------------------------------------------------------------------
(***************************************************************************)
(* The handshake.  What is asked of, or heard in, a session presupposes    *)
(* that it was served.                                                     *)
(***************************************************************************)
Spoken == \A s \in Session : reg[s] # "none" => serving[s] # "none"

Phase(s) == CASE serving[s] = "none" -> "none"
              [] serving[s] = "serving" -> IF started THEN "up" ELSE "starting"
              [] OTHER -> "closed"

\* Only the goroutine, or who begins or ends a session, changes what is served.
LEMMA ServingChanges ==
    ASSUME StubInv, [Next]_vars
    PROVE  \/ serving' = serving
           \/ \E t \in Thread :
                Connect(t) \/ RegisterFails(t) \/ ConfigureFailed(t) \/ StopBegins(t)
           \/ \E s \in Session : ConnClosed(s) \/ Serves(s)
<1> USE DEF sessionVars, vars
<1>1. ASSUME NEW t \in Thread, NEW m \in Methods, Call(t, m)
      PROVE  serving' = serving
  BY <1>1 DEF Call
<1>2. ASSUME NEW t \in Thread, TakesLock(t)
      PROVE  serving' = serving \/ StopBegins(t)
  BY <1>2 DEF TakesLock, StartBegins, AlreadyStarted, NothingToStop, WaitChecks
<1>3. ASSUME NEW t \in Thread, Proceeds(t)
      PROVE  serving' = serving \/ Connect(t) \/ RegisterFails(t) \/ ConfigureFailed(t)
  BY <1>3 DEF Proceeds, Starts, ConnectFails, Registered, Configured, StartReturns, RunWaits,
              RunReturns, WaitWaits, WaitReturns, StopReturns
<1>4. ASSUME NEW s \in Session, \/ ClientCloses(s) \/ ConnClosedReturns(s)
                                \/ Runtime(s) \/ ConfigureReturns(s)
      PROVE  serving' = serving
  BY <1>4 DEF ClientCloses, ConnClosedReturns, Runtime, RuntimeAccepts, RuntimeConfigures,
              ConfigureReturns
<1>5. ASSUME NEW c \in Connection, ConnectionLost(c)
      PROVE  serving' = serving
  BY <1>5 DEF ConnectionLost
<1> QED
  BY <1>1, <1>2, <1>3, <1>4, <1>5 DEF Next

\* The runtime's answers change with its steps and those of the handler.
LEMMA RegChanges ==
    ASSUME StubInv, [Next]_vars
    PROVE  reg' = reg \/ \E s \in Session : Runtime(s) \/ ConfigureReturns(s)
<1> USE DEF sessionVars, vars
<1>1. ASSUME NEW t \in Thread, NEW m \in Methods, Call(t, m)
      PROVE  reg' = reg
  BY <1>1 DEF Call
<1>2. ASSUME NEW t \in Thread, TakesLock(t)
      PROVE  reg' = reg
  BY <1>2 DEF TakesLock, StartBegins, AlreadyStarted, NothingToStop, WaitChecks, StopBegins
<1>3. ASSUME NEW t \in Thread, Proceeds(t)
      PROVE  reg' = reg
  BY <1>3 DEF Proceeds, Starts, Connect, ConnectFails, Registered, RegisterFails, ConfigureFailed,
              FailStart, Configured, StartReturns, RunWaits, RunReturns, WaitWaits, WaitReturns,
              StopReturns
<1>4. ASSUME NEW s \in Session, \/ Serves(s) \/ ClientCloses(s) \/ ConnClosed(s)
                                \/ ConnClosedReturns(s)
      PROVE  reg' = reg
  BY <1>4 DEF Serves, ServeReturns, ServerDone, ClientCloses, ConnClosed, ConnClosedReturns
<1>5. ASSUME NEW c \in Connection, ConnectionLost(c)
      PROVE  reg' = reg
  BY <1>5 DEF ConnectionLost
<1> QED
  BY <1>1, <1>2, <1>3, <1>4, <1>5 DEF Next

\* A session that was served is not as if it had not been.
LEMMA ServedStaysServed ==
    ASSUME StubInv, Spoken, [Next]_vars, NEW s \in Session, serving[s] # "none"
    PROVE  serving'[s] # "none"
<1>0. serving = [r \in Session |-> serving[r]]
  BY DEF StubInv, TypeOK
<1>1. ASSUME NEW r, NEW v, serving' = [serving EXCEPT ![r] = v], v # "none"
      PROVE  serving'[s] # "none"
  BY <1>0, <1>1
<1>2. ASSUME NEW t \in Thread,
             Connect(t) \/ RegisterFails(t) \/ ConfigureFailed(t) \/ StopBegins(t)
      PROVE  serving'[s] # "none"
  BY <1>1, <1>2 DEF Connect, RegisterFails, ConfigureFailed, FailStart, StopBegins, Shut
<1>3. ASSUME NEW r \in Session, ConnClosed(r) \/ Serves(r)
      PROVE  serving'[s] # "none"
  BY <1>1, <1>3 DEF ConnClosed, Serves, ServeReturns, ServerDone, Shut
<1> QED
  BY <1>2, <1>3, ServingChanges

LEMMA SpokenNext ==
    ASSUME StubInv, Spoken, [Next]_vars
    PROVE  Spoken'
<1> SUFFICES ASSUME NEW s \in Session, reg'[s] # "none"
             PROVE  serving'[s] # "none"
  BY DEF Spoken
<1>1. reg[s] # "none" \/ serving[s] # "none"
  <2>1. CASE reg' = reg
    BY <2>1
  <2>2. ASSUME NEW r \in Session, Runtime(r) \/ ConfigureReturns(r)
        PROVE  reg[s] # "none" \/ serving[s] # "none"
    BY <2>2 DEF Runtime, RuntimeAccepts, RuntimeConfigures, ConfigureReturns, StubInv, TypeOK
  <2> QED
    BY <2>1, <2>2, RegChanges
<1> QED
  BY <1>1, ServedStaysServed DEF Spoken

\* A step is one of the handshake if it is so for each session.
LEMMA NothingShakes ==
    ASSUME \A s \in Session : Phase(s)' = Phase(s),
           \A s \in Session : reg'[s] = "configured" <=> reg[s] = "configured"
    PROVE  UNCHANGED Contract!vars
BY DEF Contract!vars, Phase

LEMMA OneBecomes ==
    ASSUME NEW s \in Session, NEW p, Phase(s)' = p,
           \A r \in Session \ {s} : Phase(r)' = Phase(r), reg' = reg
    PROVE  Contract!Become(s, p)
<1>1. [r \in Session |-> Phase(r)'] = [[r \in Session |-> Phase(r)] EXCEPT ![s] = p]
  OBVIOUS
<1>2. {r \in Session : reg'[r] = "configured"} = {r \in Session : reg[r] = "configured"}
  OBVIOUS
<1> QED
  BY <1>1, <1>2 DEF Contract!Become, Phase

\* What opens, closes, establishes and is heard.
LEMMA Opens ==
    ASSUME StubInv, NEW t \in Thread, Connect(t)
    PROVE  Contract!Next
<1>1. PICK d \in Session : d = doneC
  BY DEF StubInv, TypeOK, Begun, Connect
<1>2. /\ serving' = [serving EXCEPT ![d] = "serving"] /\ reg' = reg /\ started' = started
      /\ ~started /\ serving[d] = "none" /\ d = starts
  BY <1>1 DEF Connect, StubInv, Begun, Untouched, Fresh
<1>3. serving = [r \in Session |-> serving[r]]
  BY DEF StubInv, TypeOK
<1>4. \A r \in Session : Phase(r) \in IF r < d THEN {"none", "closed"} ELSE {"none"}
  <2> TAKE r \in Session
  <2>1. serving[r] # "serving"
    BY <1>1, <1>2 DEF StubInv, Current
  <2>2. r > d => serving[r] = "none"
    BY <1>2 DEF StubInv, Fresh, Untouched
  <2>3. r < d \/ r = d \/ r > d
    BY Sets
  <2> QED
    BY <1>2, <2>1, <2>2, <2>3 DEF Phase
<1>5. Phase(d)' = "starting" /\ \A r \in Session \ {d} : Phase(r)' = Phase(r)
  BY <1>2, <1>3 DEF Phase
<1>6. Contract!Become(d, "starting")
  BY <1>2, <1>5, OneBecomes
<1>7. \A r \in Session : [q \in Session |-> Phase(q)][r] = Phase(r)
  OBVIOUS
<1> QED
  BY <1>4, <1>6 DEF Contract!Next, Contract!Open, Phase

LEMMA Closes ==
    ASSUME StubInv, Spoken, NEW s \in Session, serving' = [serving EXCEPT ![s] = "closing"],
           serving[s] # "none", started' = started, reg' = reg
    PROVE  Contract!Next \/ UNCHANGED Contract!vars
<1>1. serving = [r \in Session |-> serving[r]]
  BY DEF StubInv, TypeOK
<1>2. Phase(s)' = "closed" /\ \A r \in Session \ {s} : Phase(r)' = Phase(r)
  BY <1>1 DEF Phase
<1>3. CASE serving[s] = "serving"
  <2>1. Contract!Become(s, "closed")
    BY <1>2, OneBecomes
  <2>2. Phase(s) \in {"starting", "up"}
    BY <1>3 DEF Phase
  <2> QED
    BY <2>1, <2>2 DEF Contract!Next, Contract!Close, Phase
<1>4. CASE serving[s] # "serving"
  <2>1. Phase(s) = "closed"
    BY <1>4 DEF Phase
  <2> QED
    BY <1>2, <2>1, NothingShakes
<1> QED
  BY <1>3, <1>4

LEMMA Establishes ==
    ASSUME StubInv, NEW t \in Thread, Configured(t)
    PROVE  Contract!Next
<1>1. PICK d \in Session : d = doneC
  BY DEF StubInv, TypeOK, Begun, Configured
<1>2. /\ serving' = serving /\ reg' = reg /\ started' /\ ~started
      /\ serving[d] = "serving" /\ reg[d] # "none" /\ cfgErr[errC] = "ok" /\ errC = d
  BY <1>1 DEF Configured, StubInv, Begun, Current
<1>3. reg[d] = "configured"
  BY <1>2 DEF StubInv, Answered
<1>4. \A r \in Session \ {d} : serving[r] # "serving"
  BY <1>1 DEF StubInv, Current
<1>5. Phase(d)' = "up" /\ Phase(d) = "starting" /\ \A r \in Session \ {d} : Phase(r)' = Phase(r)
  BY <1>2, <1>4 DEF Phase
<1>6. Contract!Become(d, "up")
  BY <1>2, <1>5, OneBecomes
<1> QED
  BY <1>3, <1>5, <1>6 DEF Contract!Next, Contract!Establish, Phase

LEMMA Hears ==
    ASSUME StubInv, Spoken, NEW s \in Session, ConfigureReturns(s)
    PROVE  Contract!Next \/ UNCHANGED Contract!vars
<1>1. serving' = serving /\ started' = started /\ ~started /\ serving[s] # "none"
  BY DEF ConfigureReturns, StubInv, Earlier, Unanswered, Spoken, fieldVars
<1>2. PICK v \in {"configured", "refused"} : reg' = [reg EXCEPT ![s] = v]
  BY DEF ConfigureReturns
<1>3. \A r \in Session : Phase(r)' = Phase(r)
  BY <1>1 DEF Phase
<1>4. reg = [r \in Session |-> reg[r]] /\ reg[s] = "configuring"
  BY DEF StubInv, TypeOK, ConfigureReturns
<1>5. CASE v = "configured"
  <2>1. Phase(s) \in {"starting", "closed"}
    BY <1>1 DEF Phase
  <2>2. {r \in Session : reg'[r] = "configured"} = {r \in Session : reg[r] = "configured"} \cup {s}
    BY <1>2, <1>4, <1>5
  <2> QED
    BY <1>3, <2>1, <2>2 DEF Contract!Next, Contract!Hear, Phase
<1>6. CASE v = "refused"
  <2>1. \A r \in Session : reg'[r] = "configured" <=> reg[r] = "configured"
    BY <1>2, <1>4, <1>6
  <2> QED
    BY <1>3, <2>1, NothingShakes
<1> QED
  BY <1>5, <1>6

\* The stub's fields change their meaning only when nothing is being served.
LEMMA StopsQuietly ==
    ASSUME StubInv, CloseReturns, serving' = serving, reg' = reg
    PROVE  UNCHANGED Contract!vars
<1>1. \A s \in Session : serving[s] # "serving"
  BY DEF StubInv, Current, CloseReturns
<1>2. \A s \in Session : Phase(s)' = Phase(s)
  BY <1>1 DEF Phase
<1> QED
  BY <1>2, NothingShakes

LEMMA StubStepShakes ==
    ASSUME StubInv, Spoken, [Next]_vars
    PROVE  Contract!Next \/ UNCHANGED Contract!vars
<1> USE DEF sessionVars, fieldVars, vars
<1>1. ASSUME serving' = serving, reg' = reg, started' = started
      PROVE  UNCHANGED Contract!vars
  BY <1>1, NothingShakes DEF Phase
<1>2. ASSUME NEW t \in Thread, NEW m \in Methods, Call(t, m)
      PROVE  UNCHANGED Contract!vars
  BY <1>1, <1>2 DEF Call
<1>3. ASSUME NEW t \in Thread, TakesLock(t)
      PROVE  Contract!Next \/ UNCHANGED Contract!vars
  <2>1. CASE StopBegins(t)
    <3>1. rpc \in Session /\ serving[rpc] # "none"
      BY <2>1 DEF StopBegins, StubInv, Held, TypeOK, Spoken
    <3> QED
      BY <2>1, <3>1, Closes DEF StopBegins, Shut
  <2>2. CASE ~StopBegins(t)
    BY <1>1, <1>3, <2>2 DEF TakesLock, StartBegins, AlreadyStarted, NothingToStop, WaitChecks
  <2> QED
    BY <2>1, <2>2
<1>4. ASSUME NEW t \in Thread, Proceeds(t)
      PROVE  Contract!Next \/ UNCHANGED Contract!vars
  <2>1. CASE RegisterFails(t) \/ ConfigureFailed(t)
    <3>1. doneC \in Session /\ serving[doneC] # "none"
      BY <2>1 DEF RegisterFails, ConfigureFailed, StubInv, Begun, TypeOK
    <3>2. /\ serving' = [serving EXCEPT ![doneC] = "closing"]
          /\ started' = started /\ reg' = reg
      BY <2>1 DEF RegisterFails, ConfigureFailed, FailStart, Shut
    <3> QED
      BY <3>1, <3>2, Closes
  <2>2. CASE StopReturns(t)
    BY <2>2, StopsQuietly DEF StopReturns
  <2>3. CASE \/ ConnectFails(t) \/ Registered(t) \/ StartReturns(t) \/ RunWaits(t)
             \/ RunReturns(t) \/ WaitWaits(t) \/ WaitReturns(t)
    BY <1>1, <2>3 DEF ConnectFails, Registered, StartReturns, RunWaits, RunReturns, WaitWaits,
                      WaitReturns
  <2> QED
    BY <1>4, <2>1, <2>2, <2>3, Opens, Establishes DEF Proceeds, Starts
<1>5. ASSUME NEW s \in Session, \/ Serves(s) \/ ClientCloses(s) \/ ConnClosed(s)
                                \/ ConnClosedReturns(s) \/ Runtime(s) \/ ConfigureReturns(s)
      PROVE  Contract!Next \/ UNCHANGED Contract!vars
  <2>1. CASE Serves(s)
    <3>1. serving = [r \in Session |-> serving[r]]
      BY DEF StubInv, TypeOK
    <3>2. \A r \in Session : Phase(r)' = Phase(r)
      BY <2>1, <3>1 DEF Serves, ServeReturns, ServerDone, Phase
    <3>3. reg' = reg
      BY <2>1 DEF Serves, ServeReturns, ServerDone
    <3> QED
      BY <3>2, <3>3, NothingShakes
  <2>2. CASE ClientCloses(s)
    BY <1>1, <2>2 DEF ClientCloses
  <2>3. CASE ConnClosed(s)
    <3>1. CASE started
      <4>1. rpc \in Session /\ serving[rpc] # "none"
        BY <3>1 DEF StubInv, Held, TypeOK, Spoken
      <4> QED
        BY <2>3, <3>1, <4>1, Closes DEF ConnClosed, Shut
    <3>2. CASE ~started
      BY <1>1, <2>3, <3>2 DEF ConnClosed
    <3> QED
      BY <3>1, <3>2
  <2>4. CASE ConnClosedReturns(s)
    BY <2>4, StopsQuietly DEF ConnClosedReturns
  <2>5. CASE Runtime(s)
    <3>1. \A r \in Session : reg'[r] = "configured" <=> reg[r] = "configured"
      BY <2>5 DEF Runtime, RuntimeAccepts, RuntimeConfigures, StubInv, TypeOK
    <3>2. serving' = serving /\ started' = started
      BY <2>5 DEF Runtime, RuntimeAccepts, RuntimeConfigures
    <3> QED
      BY <3>1, <3>2, NothingShakes DEF Phase
  <2> QED
    BY <1>5, <2>1, <2>2, <2>3, <2>4, <2>5, Hears
<1>6. ASSUME NEW c \in Connection, ConnectionLost(c)
      PROVE  UNCHANGED Contract!vars
  BY <1>1, <1>6 DEF ConnectionLost
<1>7. ASSUME UNCHANGED vars
      PROVE  UNCHANGED Contract!vars
  BY <1>1, <1>7
<1> QED
  BY <1>2, <1>3, <1>4, <1>5, <1>6, <1>7 DEF Next

(***************************************************************************)
(* For any number of threads, and of sessions of one stub: the stub keeps  *)
(* to its part of the handshake (stub.Start, stub.Configure, stub.close,   *)
(* stub.connClosed).                                                       *)
(***************************************************************************)
THEOREM StubImplementsHandshake == Spec => ImplementsHandshake
<1>1. Init => Contract!Init /\ Spoken
  BY DEF Init, Contract!Init, Spoken
<1>2. Spec => []Spoken
  BY <1>1, SpokenNext, StubInvariant, PTL DEF Spec
<1>3. StubInv /\ Spoken /\ [Next]_vars => [Contract!Next]_(Contract!vars)
  BY StubStepShakes
<1> QED
  BY <1>1, <1>2, <1>3, StubInvariant, PTL DEF Spec, ImplementsHandshake, Contract!Spec
=============================================================================
