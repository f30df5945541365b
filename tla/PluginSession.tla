---------------------------- MODULE PluginSession ----------------------------
(***************************************************************************)
(* The runtime's end of the connection to one ttrpc plugin, launched by    *)
(* the runtime or external, from connect until nothing is left of it       *)
(* (pkg/adaptation/plugin.go): the thread in start, the serving goroutine, *)
(* the callback for a lost connection, and a goroutine for every           *)
(* RegisterPlugin call the plugin makes, of which it owes one.             *)
(***************************************************************************)

CONSTANTS
    Registrations,     \* RegisterPlugin calls a plugin may make
    Nobody     \* no process of our own: an external plugin

ASSUME ProcessAssumption == Nobody \notin {"running", "killed"}

VARIABLES
    start,     \* where the thread in start is; "unconnected" if connect failed
    process,   \* of a launched plugin
    peer,      \* whether the plugin holds its end of the connection
    mux,       \* "blocked" before it reads, "open", "closed"
    rpcc,      \* whether the client is open
    rpcs,      \* the server with its listener: "idle", "serving", "closed", "done"
    onClose,   \* the client's callback: "armed", "called", "done", "panic"
    closed,    \* p.closed
    closeC,    \* whether this channel is closed
    regC,      \* a channel of capacity one: "empty", or how a registration ended
    register   \* per call: "none", "sending" to regC, or its result

sessionVars ==
    <<start, process, peer, mux, rpcc, rpcs, onClose, closed, closeC, regC, register>>

SessionInit ==
    /\ start = "none" /\ process = Nobody /\ peer = "none"
    /\ mux = "closed" /\ rpcc = FALSE /\ rpcs = "done" /\ onClose = "done"
    /\ closed = FALSE /\ closeC = FALSE /\ regC = "empty"
    /\ register = [c \in Registrations |-> "none"]

\* newLaunchedPlugin or newExternalPlugin, with a socket that is connected.
Connect ==
    /\ start = "none"
    /\ start' = "connected"
    /\ process' \in {"running", Nobody}
    /\ peer' = "alive" /\ mux' = "blocked" /\ rpcc' = TRUE /\ rpcs' = "idle"
    /\ onClose' = "armed"
    /\ UNCHANGED <<closed, closeC, regC, register>>

\* The server cannot be made (of the options the runtime gives it).  The process has
\* been launched, nobody kills it; the client, closed again, has its callback.
ConnectFails ==
    /\ start = "none"
    /\ start' = "unconnected"
    /\ process' \in {"running", Nobody}
    /\ peer' = "alive" /\ onClose' = "armed"
    /\ UNCHANGED <<mux, rpcc, rpcs, closed, closeC, regC, register>>
-----------------------------------------------------------------------------
\* Closes the connections of the plugin, unless that is done.
Close ==
    /\ closed' = TRUE
    /\ IF closed THEN UNCHANGED <<mux, rpcc>> ELSE mux' = "closed" /\ rpcc' = FALSE

CloseServer(s) == IF closed \/ s = "done" THEN s ELSE "closed"

Kill == process' = IF process = "running" THEN "killed" ELSE process

\* Serves the runtime's side in a goroutine and lets the plugin speak.
Start ==
    /\ start = "connected"
    /\ start' = "registering"
    /\ rpcs' = IF rpcs = "idle" THEN "serving" ELSE rpcs
    /\ mux' = IF mux = "blocked" THEN "open" ELSE mux
    /\ UNCHANGED <<process, peer, rpcc, onClose, closed, closeC, regC, register>>

\* The three cases of the select, of which any may be taken that is ready.
RegistrationArrives ==
    /\ start = "registering" /\ regC # "empty"
    /\ start' = IF regC = "ok" THEN "configuring" ELSE "failed"
    /\ regC' = "empty"
    /\ UNCHANGED <<process, peer, mux, rpcc, rpcs, onClose, closed, closeC, register>>

StartLost ==
    /\ start = "registering" /\ closeC
    /\ start' = "failed"
    /\ UNCHANGED <<process, peer, mux, rpcc, rpcs, onClose, closed, closeC, regC, register>>

\* Mutant: no stop() on a time-out.
RegistrationTimesOutAlive ==
    /\ start = "registering"
    /\ start' = "failed"
    /\ Close /\ rpcs' = CloseServer(rpcs)
    /\ UNCHANGED <<process, peer, onClose, closeC, regC, register>>

RegistrationTimesOut ==
    /\ start = "registering"
    /\ start' = "failed"
    /\ Close /\ rpcs' = CloseServer(rpcs) /\ Kill
    /\ UNCHANGED <<peer, onClose, closeC, regC, register>>

Configured ==
    /\ start = "configuring"
    /\ rpcc /\ mux = "open" /\ peer = "alive"
    /\ start' = "started"
    /\ UNCHANGED <<process, peer, mux, rpcc, rpcs, onClose, closed, closeC, regC, register>>

\* An error, events that do not exist, the end of the connection or a time-out.
ConfigureFails ==
    /\ start = "configuring"
    /\ start' = "failed"
    /\ Close /\ rpcs' = CloseServer(rpcs) /\ Kill
    /\ UNCHANGED <<peer, onClose, closeC, regC, register>>

\* A request or the synchronization is not answered in time.
CallTimesOut ==
    /\ start = "started"
    /\ Close /\ rpcs' = CloseServer(rpcs)
    /\ UNCHANGED <<start, process, peer, onClose, closeC, regC, register>>

\* The runtime stops, cannot synchronize a plugin it launched, or drops one that is
\* closed from its registry (removeClosedPlugins).
StopPlugin ==
    /\ start = "started" /\ process = "running"
    /\ Kill
    /\ UNCHANGED <<start, peer, mux, rpcc, rpcs, onClose, closed, closeC, regC, register>>
-----------------------------------------------------------------------------
\* A call of RegisterPlugin arrives, however many there were before.
RegisterPlugin(c) ==
    /\ rpcs = "serving" /\ mux = "open" /\ peer = "alive"
    /\ register[c] = "none"
    /\ register' = [register EXCEPT ![c] = "sending"]
    /\ UNCHANGED <<start, process, peer, mux, rpcc, rpcs, onClose, closed, closeC, regC>>

\* How a registration ends: index and name are valid, or not.
Results == {"ok", "error"}

\* Mutant: regC has no room, so that somebody has to receive.
RegisterReturnsUnbuffered(c, result) ==
    /\ register[c] = "sending"
    /\ regC = "empty" /\ start = "registering"
    /\ regC' = result
    /\ register' = [register EXCEPT ![c] = result]
    /\ UNCHANGED <<start, process, peer, mux, rpcc, rpcs, onClose, closed, closeC>>

\* The name and index of an external plugin may be unacceptable; a launched one has
\* them from its file.  The call returns when regC has taken the outcome.
RegisterReturns(c, result) ==
    /\ register[c] = "sending"
    /\ result = "ok" \/ process = Nobody
    /\ regC = "empty"
    /\ regC' = result
    /\ register' = [register EXCEPT ![c] = result]
    /\ UNCHANGED <<start, process, peer, mux, rpcc, rpcs, onClose, closed, closeC>>

\* The plugin ends, or closes the connection.
PluginLeaves ==
    /\ peer = "alive"
    /\ peer' = "gone"
    /\ UNCHANGED <<start, process, mux, rpcc, rpcs, onClose, closed, closeC, regC, register>>

\* The multiplexer reads the end of the trunk, which ends its connections, too.
TrunkEnds ==
    /\ mux = "open"
    /\ peer = "gone" \/ process = "killed"
    /\ mux' = "closed"
    /\ UNCHANGED <<start, process, peer, rpcc, rpcs, onClose, closed, closeC, regC, register>>

\* Mutant: a plugin that is closed already is left alone.
OnCloseOnce ==
    /\ onClose = "armed" /\ (mux = "closed" \/ ~rpcc)
    /\ onClose' = "called"
    /\ closeC' = ~closed
    /\ UNCHANGED <<start, process, peer, mux, rpcc, rpcs, closed, regC, register>>

\* The client calls back once, when it or its connection is closed...
OnClose ==
    /\ onClose = "armed" /\ (mux = "closed" \/ ~rpcc)
    /\ onClose' = "called"
    /\ closeC' = TRUE
    /\ UNCHANGED <<start, process, peer, mux, rpcc, rpcs, closed, regC, register>>

\* ...which closes the plugin, too.
OnCloseReturns ==
    /\ onClose = "called" /\ start # "unconnected"
    /\ onClose' = "done"
    /\ Close /\ rpcs' = CloseServer(rpcs)
    /\ UNCHANGED <<start, process, peer, closeC, regC, register>>

\* ...and ends the runtime if connect failed: close looks into p.impl, which is nil.
OnClosePanics ==
    /\ onClose = "called" /\ start = "unconnected"
    /\ onClose' = "panic"
    /\ UNCHANGED <<start, process, peer, mux, rpcc, rpcs, closed, closeC, regC, register>>

\* The serving goroutine, when the server or the connection behind its listener is
\* closed.
ServeReturns ==
    /\ rpcs = "closed" \/ (rpcs = "serving" /\ mux = "closed")
    /\ rpcs' = "done"
    /\ Close
    /\ UNCHANGED <<start, process, peer, onClose, closeC, regC, register>>
-----------------------------------------------------------------------------
Runtime ==
    \/ Start \/ RegistrationArrives \/ StartLost \/ RegistrationTimesOut \/ ConfigureFails
    \/ \E c \in Registrations, result \in Results : RegisterReturns(c, result)
    \/ TrunkEnds \/ OnClose \/ OnCloseReturns \/ OnClosePanics \/ ServeReturns

SessionNext ==
    \/ Connect \/ ConnectFails \/ Runtime
    \/ Configured \/ CallTimesOut \/ StopPlugin
    \/ \E c \in Registrations : RegisterPlugin(c)
    \/ PluginLeaves

\* Every goroutine of the runtime goes on, and both time-outs pass; the plugin owes
\* nothing.  Whichever sender of several is served, so only one alone can count on it.
SessionFairness ==
    /\ WF_sessionVars(Start)
    /\ WF_sessionVars(RegistrationArrives \/ StartLost \/ RegistrationTimesOut)
    /\ WF_sessionVars(Configured \/ ConfigureFails)
    /\ WF_sessionVars(\E c \in Registrations, result \in Results : RegisterReturns(c, result))
    /\ WF_sessionVars(TrunkEnds) /\ WF_sessionVars(OnClose)
    /\ WF_sessionVars(OnCloseReturns \/ OnClosePanics)
    /\ WF_sessionVars(ServeReturns)

SessionSpec == SessionInit /\ [][SessionNext]_sessionVars /\ SessionFairness
-----------------------------------------------------------------------------
(***************************************************************************)
(* Properties.                                                             *)
(***************************************************************************)

\* However a session ends, by whichever of start, callback and serving goroutine
\* first, nothing is left of it: start has returned, the plugin is closed with its
\* client, server and connection, and closeC tells so (plugin.close, connect).  Where
\* connect failed there is no session, and the runtime itself ends.
SessionEnds ==
    start # "unconnected" /\ (peer = "gone" \/ process = "killed" \/ closed) ~>
        /\ closed /\ closeC /\ onClose = "done"
        /\ mux = "closed" /\ ~rpcc /\ rpcs = "done"
        /\ start \notin {"connected", "registering", "configuring"}

\* A plugin that registers once gets an answer although start may have given up on
\* it: that is what regC has room for one for.  Further calls may wait for ever.
OneRegistrationReturns ==
    \A c \in Registrations :
        LET alone == \A d \in Registrations \ {c} : register[d] = "none"
        IN register[c] = "sending" /\ alone ~> register[c] \in Results \/ ~alone

\* A launched plugin that was connected but could not be started does not go on
\* running, unless it was the plugin that closed the connection: nobody kills it then
\* (plugin.start).
NoOrphans == start = "failed" /\ process = "running" => peer = "gone"

\* The same of every launched plugin.  It fails where connect does (newLaunchedPlugin).
NoOrphansAtAll ==
    start \in {"failed", "unconnected"} /\ process = "running" => peer = "gone"

\* No plugin ends the runtime.  It fails there, too.
NoPanic == onClose # "panic"

\* A plugin that counts as closed holds nothing open: its client and multiplexer are
\* closed and its server is, or will return at once.  The runtime drops such a plugin
\* from its registry without another look (removeClosedPlugins).
ClosedHoldsNothing == closed => mux = "closed" /\ ~rpcc /\ rpcs \in {"closed", "done"}

\* A plugin that is being configured or is started has registered, with a name and
\* an index that are acceptable (plugin.start, RegisterPlugin).
StartedHasRegistered ==
    start \in {"configuring", "started"} => \E c \in Registrations : register[c] = "ok"

\* The runtime keeps to its part of the handshake: a plugin is up only when it has
\* registered, and once closed, by callback, serving goroutine or time-out, it does
\* not come up, although start may go on (plugin.start, RegisterPlugin, close).
Contract == INSTANCE Handshake WITH
              Sessions <- {1},
              phase <- [s \in {1} |-> CASE start \in {"none", "unconnected"} -> "none"
                                        [] start \notin {"none", "unconnected"} /\ closed
                                             -> "closed"
                                        [] start = "started" /\ ~closed -> "up"
                                        [] OTHER -> "starting"],
              heard <- {s \in {1} : \E c \in Registrations : register[c] = "ok"}

ImplementsHandshake == Contract!Spec
=============================================================================
