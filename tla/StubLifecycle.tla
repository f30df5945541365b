--------------------------- MODULE StubLifecycle ---------------------------
(***************************************************************************)
(* The life cycle of a plugin's stub (pkg/stub/stub.go): Start, Run, Stop, *)
(* Wait and the callback for a lost connection, over several sessions.     *)
(*                                                                         *)
(* Every Start that finds the stub stopped makes a session of its own: a   *)
(* multiplexer, a server with a listener and a serving goroutine, a client *)
(* whose OnClose callback is stub.connClosed, and the channels doneC,      *)
(* srvErrC and cfgErrC.  The stub's fields refer to those of one session;  *)
(* goroutines, callbacks and handlers of earlier ones may still run.       *)
(* Threads of the plugin call the stub's methods in any order; the runtime *)
(* registers and configures the plugin, or not; connections break at any   *)
(* time.                                                                   *)
(***************************************************************************)
EXTENDS Naturals, FiniteSets

CONSTANTS
    Thread,      \* threads of the plugin
    MaxStarts,   \* bound on calls of Start and Run
    None         \* no thread, no session, no connection

ASSUME StubAssumption ==
    /\ IsFiniteSet(Thread) /\ MaxStarts \in Nat
    /\ None \notin Thread \cup Nat
    /\ Thread \cap Nat = {}

Session == 1 .. MaxStarts

\* The connection each session dials, and one given with WithConnection.
Given == 0
Connection == {Given} \cup Session

VARIABLES
    lock,       \* the holder of stub.Mutex, a thread or the callback of a session
    started,    \* stub.started
    conn,       \* stub.conn
    doneC,      \* the session whose channel is stub.doneC
    errC,       \* the session whose channels are stub.srvErrC and stub.cfgErrC
    rpc,        \* the session of stub.rpcm, rpcl, rpcs and rpcc
    starts,     \* number of sessions so far
    link,       \* each connection: "none", "up" or "down"
    trunk,      \* the connection a session runs over
    serving,    \* a session's goroutine: "none", "serving", "closing" (its listener
                \* is closed), "sent" (to srvErrC) or "done" (doneC is closed)
    client,     \* a session's client: "none", "open", "closed" (its callback waits
                \* for the lock), "closing" (it has it) or "over"
    reg,        \* the runtime's view: "none", "accepted", "configuring" (the handler
                \* runs), "configured" or "refused"
    cfgErr,     \* what is in the channel cfgErrC: "none", "ok" or "error"
    srvErr,     \* whether there is an error in the channel srvErrC
    pc,         \* each thread's control state
    chan        \* the session whose channel a thread's Run or Wait receives from

fieldVars   == <<started, conn, doneC, errC, rpc>>
sessionVars == <<trunk, serving, client, reg, cfgErr, srvErr>>
threadVars  == <<pc, chan>>
vars == <<lock, fieldVars, starts, link, sessionVars, threadVars>>

\* Run begins like Start; Methods are the states of waiting for the lock.
Methods == {"start", "stop", "wait"}
PC == Methods \cup {"idle", "connect", "register", "configure", "started", "running",
                    "closing", "checked", "waiting"}

Init ==
    /\ lock = None /\ started = FALSE
    /\ conn \in {None, Given}
    /\ doneC = None /\ errC = None /\ rpc = None
    /\ starts = 0
    /\ link = [c \in Connection |-> IF c = conn THEN "up" ELSE "none"]
    /\ trunk = [s \in Session |-> None]
    /\ serving = [s \in Session |-> "none"]
    /\ client = [s \in Session |-> "none"]
    /\ reg = [s \in Session |-> "none"]
    /\ cfgErr = [s \in Session |-> "none"]
    /\ srvErr = [s \in Session |-> FALSE]
    /\ pc = [t \in Thread |-> "idle"]
    /\ chan = [t \in Thread |-> None]
-----------------------------------------------------------------------------
Goto(t, l) == pc' = [pc EXCEPT ![t] = l]

\* Closing the listener, the server, the client and the multiplexer of a session.
Disconnected(s) == [client EXCEPT ![s] = IF @ = "open" THEN "closed" ELSE @]
Shut(s) ==
    /\ serving' = [serving EXCEPT ![s] = "closing"]
    /\ link' = [link EXCEPT ![trunk[s]] = "down"]

Starting == {t \in Thread : pc[t] = "start"}

\* A thread calls a method of the stub; all of them begin by taking the lock.
Call(t, m) ==
    /\ pc[t] = "idle"
    /\ m = "start" => starts + Cardinality(Starting) < MaxStarts
    /\ Goto(t, m)
    /\ UNCHANGED <<lock, fieldVars, starts, link, sessionVars, chan>>

At(t, m) == pc[t] = m /\ lock = None
-----------------------------------------------------------------------------
\* stub.Start, which keeps the lock until it returns.
StartBegins(t) ==
    /\ At(t, "start") /\ ~started
    /\ lock' = t
    /\ starts' = starts + 1
    /\ doneC' = starts + 1
    /\ Goto(t, "connect")
    /\ UNCHANGED <<started, conn, errC, rpc, link, sessionVars, chan>>

AlreadyStarted(t) ==
    /\ At(t, "start") /\ started
    /\ Goto(t, "idle")
    /\ UNCHANGED <<lock, fieldVars, starts, link, sessionVars, chan>>

\* stub.connect, which keeps a connection it finds, and the set-up of the session.
Connect(t) == LET s == doneC
                  c == IF conn = None THEN s ELSE conn IN
    /\ pc[t] = "connect"
    /\ conn' = c
    /\ link' = [link EXCEPT ![c] = IF conn = None THEN "up" ELSE @]
    /\ trunk' = [trunk EXCEPT ![s] = c]
    /\ serving' = [serving EXCEPT ![s] = "serving"]
    /\ client' = [client EXCEPT ![s] = "open"]
    /\ errC' = s /\ rpc' = s
    /\ Goto(t, "register")
    /\ UNCHANGED <<lock, started, doneC, starts, reg, cfgErr, srvErr, chan>>

ConnectFails(t) ==
    /\ pc[t] = "connect" /\ conn = None
    /\ lock' = None
    /\ Goto(t, "idle")
    /\ UNCHANGED <<fieldVars, starts, link, sessionVars, chan>>

Registered(t) ==
    /\ pc[t] = "register"
    /\ reg[doneC] # "none" /\ link[trunk[doneC]] = "up"
    /\ Goto(t, "configure")
    /\ UNCHANGED <<lock, fieldVars, starts, link, sessionVars, chan>>

\* Mutant: the deferred functions leave the multiplexer, and its trunk, open.
FailStartKeepsTrunk(t) ==
    /\ serving' = [serving EXCEPT ![doneC] = "closing"]
    /\ client' = Disconnected(doneC)
    /\ rpc' = None
    /\ lock' = None
    /\ Goto(t, "idle")
    /\ UNCHANGED <<started, conn, doneC, errC, starts, link, trunk, reg, srvErr, chan>>

\* Mutant: a failed Start also forgets its connection, so that the next one dials.
FailStartForgetsConn(t) ==
    /\ Shut(doneC)
    /\ client' = Disconnected(doneC)
    /\ rpc' = None /\ conn' = None
    /\ lock' = None
    /\ Goto(t, "idle")
    /\ UNCHANGED <<started, doneC, errC, starts, trunk, reg, srvErr, chan>>

(***************************************************************************)
(* Start returns an error: its deferred functions close the session and    *)
(* forget its fields, but stub.close, called while the stub is not         *)
(* started, does nothing, so that stub.conn stays.                         *)
(***************************************************************************)
FailStart(t) ==
    /\ Shut(doneC)
    /\ client' = Disconnected(doneC)
    /\ rpc' = None
    /\ lock' = None
    /\ Goto(t, "idle")
    /\ UNCHANGED <<started, conn, doneC, errC, starts, trunk, reg, srvErr, chan>>

\* Refused by the runtime, timed out, or the connection is lost.
RegisterFails(t) == pc[t] = "register" /\ FailStart(t) /\ UNCHANGED cfgErr

\* Start receives from cfgErrC, without a timeout.
ConfigureFailed(t) ==
    /\ pc[t] = "configure" /\ cfgErr[errC] = "error"
    /\ cfgErr' = [cfgErr EXCEPT ![errC] = "none"]
    /\ FailStart(t)

Configured(t) ==
    /\ pc[t] = "configure" /\ cfgErr[errC] = "ok"
    /\ cfgErr' = [cfgErr EXCEPT ![errC] = "none"]
    /\ started' = TRUE
    /\ lock' = None
    /\ Goto(t, "started")
    /\ UNCHANGED <<conn, doneC, errC, rpc, starts, link, trunk, serving, client, reg,
                   srvErr, chan>>
-----------------------------------------------------------------------------
\* The thread was in Start, or it is in Run.
StartReturns(t) ==
    /\ pc[t] = "started"
    /\ Goto(t, "idle")
    /\ UNCHANGED <<lock, fieldVars, starts, link, sessionVars, chan>>

\* stub.Run after Start: receive from stub.srvErrC, which is read without the lock.
RunWaits(t) ==
    /\ pc[t] = "started"
    /\ chan' = [chan EXCEPT ![t] = errC]
    /\ Goto(t, "running")
    /\ UNCHANGED <<lock, fieldVars, starts, link, sessionVars>>

RunReturns(t) ==
    /\ pc[t] = "running" /\ srvErr[chan[t]]
    /\ srvErr' = [srvErr EXCEPT ![chan[t]] = FALSE]
    /\ chan' = [chan EXCEPT ![t] = None]
    /\ Goto(t, "idle")
    /\ UNCHANGED <<lock, fieldVars, starts, link, trunk, serving, client, reg, cfgErr>>

\* stub.Wait: IsStarted takes the lock, the receive from stub.doneC does not.
WaitChecks(t) ==
    /\ At(t, "wait")
    /\ Goto(t, IF started THEN "checked" ELSE "idle")
    /\ UNCHANGED <<lock, fieldVars, starts, link, sessionVars, chan>>

WaitWaits(t) ==
    /\ pc[t] = "checked"
    /\ chan' = [chan EXCEPT ![t] = doneC]
    /\ Goto(t, "waiting")
    /\ UNCHANGED <<lock, fieldVars, starts, link, sessionVars>>

WaitReturns(t) ==
    /\ pc[t] = "waiting" /\ serving[chan[t]] = "done"
    /\ chan' = [chan EXCEPT ![t] = None]
    /\ Goto(t, "idle")
    /\ UNCHANGED <<lock, fieldVars, starts, link, sessionVars>>
-----------------------------------------------------------------------------
(***************************************************************************)
(* stub.close, called with the lock held.  It closes the session of the    *)
(* fields, waits for its goroutine and resets the stub.                    *)
(***************************************************************************)
CloseReturns == serving[doneC] = "done" /\ started' = FALSE /\ conn' = None /\ lock' = None

StopBegins(t) ==
    /\ At(t, "stop") /\ started
    /\ lock' = t
    /\ Shut(rpc)
    /\ client' = Disconnected(rpc)
    /\ Goto(t, "closing")
    /\ UNCHANGED <<fieldVars, starts, trunk, reg, cfgErr, srvErr, chan>>

NothingToStop(t) ==
    /\ At(t, "stop") /\ ~started
    /\ Goto(t, "idle")
    /\ UNCHANGED <<lock, fieldVars, starts, link, sessionVars, chan>>

StopReturns(t) ==
    /\ pc[t] = "closing"
    /\ CloseReturns
    /\ Goto(t, "idle")
    /\ UNCHANGED <<doneC, errC, rpc, starts, link, sessionVars, chan>>

\* The client's receive loop ends with its connection; then its callback runs.
ClientCloses(s) ==
    /\ client[s] = "open" /\ link[trunk[s]] = "down"
    /\ client' = [client EXCEPT ![s] = "closed"]
    /\ UNCHANGED <<lock, fieldVars, starts, link, trunk, serving, reg, cfgErr, srvErr, threadVars>>

\* Mutant: the callback does not wait for the lock.
ConnClosedTry(s) ==
    /\ client[s] = "closed"
    /\ IF started /\ lock = None
       THEN /\ lock' = s
            /\ Shut(rpc)
            /\ client' = [Disconnected(rpc) EXCEPT ![s] = "closing"]
       ELSE /\ client' = [client EXCEPT ![s] = "over"]
            /\ UNCHANGED <<lock, serving, link>>
    /\ UNCHANGED <<fieldVars, starts, trunk, reg, cfgErr, srvErr, threadVars>>

\* stub.connClosed as called back by the client of session s, whatever stub.close
\* finds in the fields by then.
ConnClosed(s) ==
    /\ client[s] = "closed" /\ lock = None
    /\ IF started
       THEN /\ lock' = s
            /\ Shut(rpc)
            /\ client' = [Disconnected(rpc) EXCEPT ![s] = "closing"]
       ELSE /\ client' = [client EXCEPT ![s] = "over"]
            /\ UNCHANGED <<lock, serving, link>>
    /\ UNCHANGED <<fieldVars, starts, trunk, reg, cfgErr, srvErr, threadVars>>

ConnClosedReturns(s) ==
    /\ client[s] = "closing"
    /\ CloseReturns
    /\ client' = [client EXCEPT ![s] = "over"]
    /\ UNCHANGED <<doneC, errC, rpc, starts, link, trunk, serving, reg, cfgErr, srvErr, threadVars>>
-----------------------------------------------------------------------------
\* Mutant: srvErrC is not buffered, so that the error waits for somebody to Run.
ServeReturnsUnbuffered(s) ==
    /\ serving[s] = "closing"
    /\ \E t \in Thread : pc[t] = "running" /\ chan[t] = s
    /\ serving' = [serving EXCEPT ![s] = "sent"]
    /\ srvErr' = [srvErr EXCEPT ![s] = TRUE]
    /\ UNCHANGED <<lock, fieldVars, starts, link, trunk, client, reg, cfgErr, threadVars>>

\* The goroutine of a session: Serve returns when its listener is closed, its error
\* goes to the session's srvErrC, which has room for it, and doneC is closed.
ServeReturns(s) ==
    /\ serving[s] = "closing"
    /\ serving' = [serving EXCEPT ![s] = "sent"]
    /\ srvErr' = [srvErr EXCEPT ![s] = TRUE]
    /\ UNCHANGED <<lock, fieldVars, starts, link, trunk, client, reg, cfgErr, threadVars>>

ServerDone(s) ==
    /\ serving[s] = "sent"
    /\ serving' = [serving EXCEPT ![s] = "done"]
    /\ UNCHANGED <<lock, fieldVars, starts, link, trunk, client, reg, cfgErr, srvErr, threadVars>>
-----------------------------------------------------------------------------
\* The runtime accepts the registration and configures the plugin right away, in
\* whatever order the stub sees the answer and the request.
RuntimeAccepts(s) ==
    /\ serving[s] = "serving" /\ reg[s] = "none" /\ link[trunk[s]] = "up"
    /\ reg' = [reg EXCEPT ![s] = "accepted"]
    /\ UNCHANGED <<lock, fieldVars, starts, link, trunk, serving, client, cfgErr, srvErr, threadVars>>

RuntimeConfigures(s) ==
    /\ reg[s] = "accepted" /\ link[trunk[s]] = "up"
    /\ reg' = [reg EXCEPT ![s] = "configuring"]
    /\ UNCHANGED <<lock, fieldVars, starts, link, trunk, serving, client, cfgErr, srvErr, threadVars>>

(***************************************************************************)
(* stub.Configure returns: it sends to the channel that stub.cfgErrC is by *)
(* then, read without the lock, if there is room.                          *)
(***************************************************************************)
ConfigureReturns(s) ==
    /\ reg[s] = "configuring" /\ cfgErr[errC] = "none"
    /\ \E r \in {"ok", "error"} :
          /\ cfgErr' = [cfgErr EXCEPT ![errC] = r]
          /\ reg' = [reg EXCEPT ![s] = IF r = "ok" THEN "configured" ELSE "refused"]
    /\ UNCHANGED <<lock, fieldVars, starts, link, trunk, serving, client, srvErr, threadVars>>

\* The runtime or the system closes a connection.
ConnectionLost(c) ==
    /\ link[c] = "up"
    /\ link' = [link EXCEPT ![c] = "down"]
    /\ UNCHANGED <<lock, fieldVars, starts, sessionVars, threadVars>>
-----------------------------------------------------------------------------
TakesLock(t) == \/ StartBegins(t) \/ AlreadyStarted(t)
                \/ StopBegins(t) \/ NothingToStop(t) \/ WaitChecks(t)

Starts(t) == \/ Connect(t) \/ ConnectFails(t) \/ Registered(t) \/ RegisterFails(t)
             \/ Configured(t) \/ ConfigureFailed(t)

Proceeds(t) == Starts(t) \/ StartReturns(t) \/ RunWaits(t) \/ RunReturns(t) \/ WaitWaits(t) \/ WaitReturns(t)
               \/ StopReturns(t)

Serves(s) == ServeReturns(s) \/ ServerDone(s)

Runtime(s) == RuntimeAccepts(s) \/ RuntimeConfigures(s)

Next ==
    \/ \E t \in Thread : (\E m \in Methods : Call(t, m)) \/ TakesLock(t) \/ Proceeds(t)
    \/ \E s \in Session : \/ Serves(s) \/ ClientCloses(s) \/ ConnClosed(s)
                          \/ ConnClosedReturns(s) \/ Runtime(s) \/ ConfigureReturns(s)
    \/ \E c \in Connection : ConnectionLost(c)

Spec == Init /\ [][Next]_vars

(***************************************************************************)
(* Fairness.  Goroutines keep running and a mutex is handed to whoever     *)
(* waits for it long enough.  Registering ends, because it has a timeout.  *)
(* The runtime need not accept or configure anybody and the plugin's       *)
(* handler need not return.                                                *)
(***************************************************************************)
FairSpec ==
    /\ Spec
    /\ \A t \in Thread : SF_vars(TakesLock(t)) /\ WF_vars(Proceeds(t))
    /\ \A s \in Session : /\ WF_vars(Serves(s)) /\ WF_vars(ClientCloses(s))
                          /\ SF_vars(ConnClosed(s)) /\ WF_vars(ConnClosedReturns(s))
-----------------------------------------------------------------------------
TypeOK ==
    /\ lock \in Thread \cup Session \cup {None}
    /\ lock \in Thread => pc[lock] \in {"connect", "register", "configure", "closing"}
    /\ lock \in Session => client[lock] = "closing"
    /\ started \in BOOLEAN
    /\ conn \in Connection \cup {None}
    /\ doneC \in Session \cup {None} /\ errC \in Session \cup {None}
    /\ rpc \in Session \cup {None}
    /\ starts \in 0 .. MaxStarts
    /\ link \in [Connection -> {"none", "up", "down"}]
    /\ trunk \in [Session -> Connection \cup {None}]
    /\ serving \in [Session -> {"none", "serving", "closing", "sent", "done"}]
    /\ client \in [Session -> {"none", "open", "closed", "closing", "over"}]
    /\ reg \in [Session -> {"none", "accepted", "configuring", "configured", "refused"}]
    /\ cfgErr \in [Session -> {"none", "ok", "error"}]
    /\ srvErr \in [Session -> BOOLEAN]
    /\ pc \in [Thread -> PC]
    /\ chan \in [Thread -> Session \cup {None}]

(***************************************************************************)
(* The stub counts as started only after the runtime has configured this   *)
(* very session: the answer of a configuration handler of an earlier one,  *)
(* still running when that one failed, is not taken for it.                *)
(***************************************************************************)
StartedIsConfigured ==
    started => rpc # None /\ doneC = rpc /\ errC = rpc /\ reg[rpc] = "configured"

(***************************************************************************)
(* A stub that is not started, and not just starting, holds nothing open:  *)
(* whatever step a Start failed at, it left no listener, no client and no  *)
(* connection behind but one it was given and never used.                  *)
(***************************************************************************)
NothingLeaks ==
    ~started /\ lock = None =>
       /\ \A s \in Session : serving[s] # "serving" /\ client[s] # "open"
       /\ \A c \in Connection \ {Given} : link[c] # "up"

(***************************************************************************)
(* The stub keeps to its part of the handshake: one session at a time, up  *)
(* only when the runtime has configured this very one, whichever session's *)
(* handlers and callbacks still run, and never up again once Stop, a lost  *)
(* connection or a failed Start has closed it (stub.Start, stub.Configure, *)
(* stub.close, stub.connClosed).                                           *)
(***************************************************************************)
Contract == INSTANCE Handshake WITH
              Sessions <- Session,
              phase <- [s \in Session |->
                          CASE serving[s] = "none" -> "none"
                            [] serving[s] = "serving" -> IF started THEN "up" ELSE "starting"
                            [] OTHER -> "closed"],
              heard <- {s \in Session : reg[s] = "configured"}

ImplementsHandshake == Contract!Spec

(***************************************************************************)
(* Stop, once it has the lock, returns: the goroutine it waits for ends    *)
(* even if nobody Runs the stub to receive its error.                      *)
(***************************************************************************)
StopComesBack == \A t \in Thread : pc[t] = "closing" ~> pc[t] = "idle"

(***************************************************************************)
(* A started stub whose connection is lost becomes restartable: its        *)
(* callback closes it, whatever the plugin's threads are doing.            *)
(***************************************************************************)
LossStops == \A s \in Session : started /\ rpc = s /\ link[trunk[s]] = "down" ~> ~started

(***************************************************************************)
(* Wait returns after the session it waits for was closed.                 *)
(***************************************************************************)
WaitersWake ==
    \A t \in Thread, s \in Session :
       pc[t] = "waiting" /\ chan[t] = s /\ serving[s] = "closing" ~> pc[t] = "idle"

(***************************************************************************)
(* stub.go:364 waits for getting configured; Run (stub.go:158) waits for   *)
(* the plugin service to exit, either due to a critical error or an        *)
(* explicit call to Stop.  So Start and Run return when the connection is  *)
(* lost before the configuration arrived.                                  *)
(***************************************************************************)
LossEndsStart ==
    \A t \in Thread :
       pc[t] = "configure" /\ link[trunk[doneC]] = "down" /\ reg[doneC] = "accepted"
       ~> pc[t] # "configure"
=============================================================================
