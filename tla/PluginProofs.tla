---------------------------- MODULE PluginProofs ----------------------------
(***************************************************************************)
(* A plugin and the runtime, for any messages, registrations, handlers and *)
(* subscriptions: no process outlives its failed start, calls to a         *)
(* WebAssembly plugin return what its handlers replied and leave nothing   *)
(* behind, and events end up at the handlers they are wanted by.           *)
(***************************************************************************)
EXTENDS WasmPlugin, PluginSession, EventDispatch, TLAPS

(***************************************************************************)
(* The session of a plugin with a connection.  No launched plugin outlives *)
(* its failed start, for any number of RegisterPlugin calls and whichever  *)
(* of timer, callback, serving goroutine and registration comes first.     *)
(***************************************************************************)
\* regC is a channel of capacity one.
Channel ==
    /\ regC \in {"empty", "ok", "error"}
    /\ rpcc \in BOOLEAN /\ closed \in BOOLEAN /\ closeC \in BOOLEAN

\* Before connect, there is nothing that could take a step.
NothingYet ==
    start = "none" =>
        /\ peer = "none" /\ mux = "closed" /\ ~rpcc /\ rpcs = "done" /\ onClose = "done"
        /\ ~closed /\ ~closeC /\ regC = "empty"
        /\ \A c \in Registrations : register[c] = "none"

\* After a connect that failed there is only the client's callback.
NotConnected ==
    start = "unconnected" =>
        /\ mux = "closed" /\ ~rpcc /\ rpcs = "done" /\ ~closed /\ regC = "empty"
        /\ \A c \in Registrations : register[c] = "none"

\* Only an external plugin is ever refused.
RefusedIsExternal == regC = "error" => process # "running"

\* As long as start is at it, nothing but the plugin's own end, or its killing,
\* closes any part of the connection.
Starting == start \in {"connected", "registering", "configuring"}
Broken ==
    \/ mux = "closed" \/ ~rpcc \/ rpcs \in {"closed", "done"}
    \/ onClose # "armed" \/ closed \/ closeC
BreakHasCause == Starting /\ Broken => peer = "gone" \/ process # "running"

IInv == Channel /\ NothingYet /\ NotConnected /\ RefusedIsExternal /\ BreakHasCause /\ NoOrphans

LEMMA InitIInv == SessionInit => IInv
<1> SUFFICES ASSUME SessionInit PROVE IInv
  OBVIOUS
<1> USE DEF SessionInit
<1>1. Channel
  BY DEF Channel
<1>2. NothingYet
  BY DEF NothingYet
<1>3. RefusedIsExternal /\ NotConnected
  BY DEF RefusedIsExternal, NotConnected
<1>4. BreakHasCause /\ NoOrphans
  BY DEF BreakHasCause, Starting, NoOrphans
<1> QED BY <1>1, <1>2, <1>3, <1>4 DEF IInv

\* The steps of the thread in start.
LEMMA StartPreserves ==
  ASSUME IInv,
         \/ Connect \/ ConnectFails \/ Start \/ RegistrationArrives \/ StartLost \/ RegistrationTimesOut
         \/ Configured \/ ConfigureFails
  PROVE  IInv'
<1> USE DEF IInv, Channel, NothingYet, NotConnected, RefusedIsExternal, BreakHasCause,
            Starting, Broken, NoOrphans
<1>1. CASE Connect
  BY <1>1 DEF Connect
<1>2. CASE Start
  BY <1>2 DEF Start
<1>3. CASE RegistrationArrives
  BY <1>3 DEF RegistrationArrives
<1>4. CASE StartLost
  BY <1>4 DEF StartLost
<1>5. CASE RegistrationTimesOut
  BY <1>5 DEF RegistrationTimesOut, Close, CloseServer, Kill
<1>6. CASE Configured
  BY <1>6 DEF Configured
<1>7. CASE ConfigureFails
  BY <1>7 DEF ConfigureFails, Close, CloseServer, Kill
<1>8. CASE ConnectFails
  BY <1>8 DEF ConnectFails
<1> QED BY <1>1, <1>2, <1>3, <1>4, <1>5, <1>6, <1>7, <1>8

\* Everything else that happens to a session.
LEMMA OthersPreserve ==
  ASSUME IInv,
         \/ CallTimesOut \/ StopPlugin \/ PluginLeaves \/ TrunkEnds
         \/ OnClose \/ OnCloseReturns \/ OnClosePanics \/ ServeReturns
         \/ \E c \in Registrations : RegisterPlugin(c)
         \/ \E c \in Registrations, result \in Results : RegisterReturns(c, result)
  PROVE  IInv'
<1> USE DEF IInv, Channel, NothingYet, NotConnected, RefusedIsExternal, BreakHasCause,
            Starting, Broken, NoOrphans
<1>1. CASE CallTimesOut
  BY <1>1 DEF CallTimesOut, Close, CloseServer
<1>2. CASE StopPlugin
  BY <1>2 DEF StopPlugin, Kill
<1>3. CASE PluginLeaves
  BY <1>3 DEF PluginLeaves
<1>4. CASE TrunkEnds
  BY <1>4 DEF TrunkEnds
<1>5. CASE OnClose
  BY <1>5 DEF OnClose
<1>6. CASE OnCloseReturns
  BY <1>6 DEF OnCloseReturns, Close, CloseServer
<1>7. CASE OnClosePanics
  BY <1>7 DEF OnClosePanics
<1>8. CASE ServeReturns
  BY <1>8 DEF ServeReturns, Close
<1>9. CASE \E c \in Registrations : RegisterPlugin(c)
  BY <1>9 DEF RegisterPlugin
<1>10. CASE \E c \in Registrations, result \in Results : RegisterReturns(c, result)
  BY <1>10, ProcessAssumption DEF RegisterReturns, Results
<1> QED BY <1>1, <1>2, <1>3, <1>4, <1>5, <1>6, <1>7, <1>8, <1>9, <1>10

LEMMA StutterPreserves == IInv /\ UNCHANGED sessionVars => IInv'
  BY DEF sessionVars, IInv, Channel, NothingYet, NotConnected, RefusedIsExternal,
         BreakHasCause, Starting, Broken, NoOrphans

\* A launched plugin that was connected and whose start failed has been killed, or has
\* itself closed the connection (plugin.start, plugin.stop).
THEOREM NoPluginIsOrphaned == SessionSpec => []NoOrphans
<1>1. IInv /\ [SessionNext]_sessionVars => IInv'
  BY StartPreserves, OthersPreserve, StutterPreserves DEF SessionNext, Runtime
<1>2. IInv => NoOrphans
  BY DEF IInv
<1> QED BY InitIInv, <1>1, <1>2, PTL DEF SessionSpec

\* An acceptable registration that start has yet to receive, or has gone on with.
Acknowledged ==
    regC = "ok" \/ start \in {"configuring", "started"} =>
        \E c \in Registrations : register[c] = "ok"

SessionInv ==
    /\ Channel /\ NothingYet /\ NotConnected /\ ClosedHoldsNothing /\ Acknowledged
    /\ register = [c \in Registrations |-> register[c]]

LEMMA SessionInitInv == SessionInit => SessionInv
BY DEF SessionInit, SessionInv, Channel, NothingYet, NotConnected, ClosedHoldsNothing, Acknowledged

\* Registrations that have been answered stay answered.
LEMMA AnswersStay ==
  ASSUME SessionInv, NEW c \in Registrations, NEW v,
         register[c] \in {"none", "sending"}, register' = [register EXCEPT ![c] = v]
  PROVE  /\ register' = [d \in Registrations |-> register'[d]]
         /\ register'[c] = v
         /\ \A d \in Registrations : register[d] = "ok" => register'[d] = "ok"
BY DEF SessionInv

LEMMA SessionNextInv == SessionInv /\ [SessionNext]_sessionVars => SessionInv'
<1> SUFFICES ASSUME SessionInv, [SessionNext]_sessionVars PROVE SessionInv'
  OBVIOUS
<1> USE DEF SessionInv, Channel, NothingYet, NotConnected, ClosedHoldsNothing, Acknowledged
<1>1. CASE Connect \/ ConnectFails
  <2>1. CASE Connect
    BY <2>1 DEF Connect
  <2>2. CASE ConnectFails
    BY <2>2 DEF ConnectFails
  <2> QED  BY <1>1, <2>1, <2>2
<1>2. CASE Start
  BY <1>2 DEF Start
<1>3. CASE RegistrationArrives \/ StartLost
  BY <1>3 DEF RegistrationArrives, StartLost
<1>4. CASE RegistrationTimesOut \/ ConfigureFails \/ CallTimesOut
  BY <1>4 DEF RegistrationTimesOut, ConfigureFails, CallTimesOut, Close, CloseServer, Kill
<1>5. CASE Configured \/ StopPlugin \/ PluginLeaves \/ TrunkEnds \/ OnClose
  <2>1. CASE Configured
    BY <2>1 DEF Configured
  <2>2. CASE StopPlugin
    BY <2>2 DEF StopPlugin, Kill
  <2>3. CASE PluginLeaves
    BY <2>3 DEF PluginLeaves
  <2>4. CASE TrunkEnds
    BY <2>4 DEF TrunkEnds
  <2>5. CASE OnClose
    BY <2>5 DEF OnClose
  <2> QED  BY <1>5, <2>1, <2>2, <2>3, <2>4, <2>5
<1>6. CASE OnCloseReturns \/ OnClosePanics \/ ServeReturns
  <2>1. CASE OnCloseReturns
    BY <2>1 DEF OnCloseReturns, Close, CloseServer
  <2>2. CASE OnClosePanics
    BY <2>2 DEF OnClosePanics
  <2>3. CASE ServeReturns
    BY <2>3 DEF ServeReturns, Close
  <2> QED  BY <1>6, <2>1, <2>2, <2>3
<1>7. ASSUME NEW c \in Registrations, RegisterPlugin(c)
      PROVE  SessionInv'
  <2>1. /\ UNCHANGED <<start, peer, mux, rpcc, rpcs, onClose, closed, closeC, regC>>
        /\ register[c] = "none" /\ register' = [register EXCEPT ![c] = "sending"]
        /\ rpcs = "serving"
    BY <1>7 DEF RegisterPlugin
  <2>2. /\ register' = [d \in Registrations |-> register'[d]]
        /\ \A d \in Registrations : register[d] = "ok" => register'[d] = "ok"
    BY <2>1, AnswersStay
  <2> QED  BY <2>1, <2>2
<1>8. ASSUME NEW c \in Registrations, NEW result \in Results, RegisterReturns(c, result)
      PROVE  SessionInv'
  <2>1. /\ UNCHANGED <<start, peer, mux, rpcc, rpcs, onClose, closed, closeC>>
        /\ register[c] = "sending" /\ register' = [register EXCEPT ![c] = result]
        /\ regC' = result /\ result \in {"ok", "error"}
    BY <1>8 DEF RegisterReturns, Results
  <2>2. /\ register' = [d \in Registrations |-> register'[d]] /\ register'[c] = result
        /\ \A d \in Registrations : register[d] = "ok" => register'[d] = "ok"
    BY <2>1, AnswersStay
  <2> QED  BY <2>1, <2>2
<1>9. CASE UNCHANGED sessionVars
  BY <1>9 DEF sessionVars
<1> QED
  BY <1>1, <1>2, <1>3, <1>4, <1>5, <1>6, <1>7, <1>8, <1>9 DEF SessionNext, Runtime

\* Whoever closes a plugin first, its client, server and connection are closed with
\* it and none is opened again (plugin.close): a plugin that removeClosedPlugins
\* forgets leaves nothing behind.
THEOREM ClosedPluginsHoldNothing == SessionSpec => []ClosedHoldsNothing
<1>1. SessionInv => ClosedHoldsNothing
  BY DEF SessionInv
<1> QED  BY SessionInitInv, SessionNextInv, <1>1, PTL DEF SessionSpec

\* Only a plugin that has registered is configured, whatever else arrives on regC
\* and however many registrations wait for it.
THEOREM StartedPluginsHaveRegistered == SessionSpec => []StartedHasRegistered
<1>1. SessionInv => StartedHasRegistered
  BY DEF SessionInv, Acknowledged, StartedHasRegistered
<1> QED  BY SessionInitInv, SessionNextInv, <1>1, PTL DEF SessionSpec

\* What a step of the session is in the handshake.
Phase == CASE start \in {"none", "unconnected"} -> "none"
           [] start \notin {"none", "unconnected"} /\ closed -> "closed"
           [] start = "started" /\ ~closed -> "up"
           [] OTHER -> "starting"
HasRegistered == \E c \in Registrations : register[c] = "ok"

LEMMA PhaseIsEnough ==
  ASSUME \/ Phase' = Phase /\ HasRegistered' = HasRegistered
         \/ Phase = "none" /\ Phase' = "starting" /\ HasRegistered' = HasRegistered
         \/ Phase' = Phase /\ Phase \in {"starting", "closed"} /\ HasRegistered'
         \/ Phase = "starting" /\ HasRegistered /\ Phase' = "up" /\ HasRegistered' = HasRegistered
         \/ Phase \in {"starting", "up"} /\ Phase' = "closed" /\ HasRegistered' = HasRegistered
  PROVE  [Contract!Next]_(Contract!vars)
<1>1. CASE Phase' = Phase /\ HasRegistered' = HasRegistered
  BY <1>1 DEF Contract!vars, Phase, HasRegistered
<1>2. CASE Phase = "none" /\ Phase' = "starting" /\ HasRegistered' = HasRegistered
  BY <1>2 DEF Contract!Next, Contract!Open, Contract!Become, Phase, HasRegistered
<1>3. CASE Phase' = Phase /\ Phase \in {"starting", "closed"} /\ HasRegistered'
  BY <1>3 DEF Contract!Next, Contract!Hear, Phase, HasRegistered
<1>4. CASE Phase = "starting" /\ HasRegistered /\ Phase' = "up" /\ HasRegistered' = HasRegistered
  BY <1>4 DEF Contract!Next, Contract!Establish, Contract!Become, Phase, HasRegistered
<1>5. CASE Phase \in {"starting", "up"} /\ Phase' = "closed" /\ HasRegistered' = HasRegistered
  BY <1>5 DEF Contract!Next, Contract!Close, Contract!Become, Phase, HasRegistered
<1> QED  BY <1>1, <1>2, <1>3, <1>4, <1>5

LEMMA SessionStepShakes ==
  ASSUME SessionInv, [SessionNext]_sessionVars
  PROVE  \/ Phase' = Phase /\ HasRegistered' = HasRegistered
         \/ Phase = "none" /\ Phase' = "starting" /\ HasRegistered' = HasRegistered
         \/ Phase' = Phase /\ Phase \in {"starting", "closed"} /\ HasRegistered'
         \/ Phase = "starting" /\ HasRegistered /\ Phase' = "up" /\ HasRegistered' = HasRegistered
         \/ Phase \in {"starting", "up"} /\ Phase' = "closed" /\ HasRegistered' = HasRegistered
<1> USE DEF Phase, HasRegistered
<1>1. CASE Connect \/ ConnectFails \/ OnClosePanics
  BY <1>1 DEF Connect, ConnectFails, OnClosePanics, SessionInv, NothingYet
<1>2. CASE Start \/ RegistrationArrives \/ StartLost
  BY <1>2 DEF Start, RegistrationArrives, StartLost
<1>3. CASE RegistrationTimesOut \/ ConfigureFails \/ CallTimesOut
  BY <1>3 DEF RegistrationTimesOut, ConfigureFails, CallTimesOut, Close, CloseServer, Kill
<1>4. CASE Configured
  BY <1>4 DEF Configured, SessionInv, ClosedHoldsNothing, Acknowledged
<1>5. CASE OnCloseReturns \/ ServeReturns
  <2>1. start \notin {"none", "unconnected"}
    BY <1>5 DEF OnCloseReturns, ServeReturns, SessionInv, NothingYet, NotConnected
  <2> QED  BY <1>5, <2>1 DEF OnCloseReturns, ServeReturns, Close, SessionInv, Channel
<1>6. ASSUME NEW c \in Registrations, RegisterPlugin(c)
      PROVE  Phase' = Phase /\ HasRegistered' = HasRegistered
  <2>1. \A d \in Registrations : register'[d] = "ok" <=> register[d] = "ok"
    BY <1>6 DEF RegisterPlugin, SessionInv
  <2> QED  BY <1>6, <2>1 DEF RegisterPlugin
<1>7. ASSUME NEW c \in Registrations, NEW result \in Results, RegisterReturns(c, result)
      PROVE  \/ Phase' = Phase /\ HasRegistered' = HasRegistered
             \/ Phase' = Phase /\ Phase \in {"starting", "closed"} /\ HasRegistered'
  <2>1. start \notin {"none", "unconnected"}
    BY <1>7 DEF RegisterReturns, SessionInv, NothingYet, NotConnected
  <2>2. Phase' = Phase
    BY <1>7 DEF RegisterReturns
  <2>3. CASE result = "ok"
    <3>1. HasRegistered'
      BY <1>7, <2>3 DEF RegisterReturns, SessionInv
    <3>2. Phase = "up" => HasRegistered
      BY DEF SessionInv, Acknowledged
    <3> QED  BY <2>1, <2>2, <3>1, <3>2
  <2>4. CASE result # "ok"
    <3>1. \A d \in Registrations : register'[d] = "ok" <=> register[d] = "ok"
      BY <1>7, <2>4 DEF RegisterReturns, SessionInv
    <3> QED  BY <2>2, <3>1
  <2> QED  BY <2>3, <2>4
<1>8. CASE StopPlugin \/ PluginLeaves \/ TrunkEnds \/ OnClose \/ UNCHANGED sessionVars
  BY <1>8 DEF StopPlugin, PluginLeaves, TrunkEnds, OnClose, sessionVars
<1> QED
  BY <1>1, <1>2, <1>3, <1>4, <1>5, <1>6, <1>7, <1>8 DEF SessionNext, Runtime

\* The runtime's end of any connection keeps to its part of the handshake, however
\* often the plugin registers and whichever of time-out, callback and serving
\* goroutine closes it (plugin.start, RegisterPlugin, plugin.close).
THEOREM RuntimeImplementsHandshake == SessionSpec => ImplementsHandshake
<1>1. SessionInit => Contract!Init
  BY DEF SessionInit, Contract!Init
<1>2. SessionInv /\ [SessionNext]_sessionVars => [Contract!Next]_(Contract!vars)
  BY PhaseIsEnough, SessionStepShakes
<1> QED
  BY <1>1, <1>2, SessionInitInv, SessionNextInv, PTL DEF SessionSpec, ImplementsHandshake, Contract!Spec
-----------------------------------------------------------------------------
(***************************************************************************)
(* Calls to a WebAssembly plugin.  The memory of a live module holds the   *)
(* blocks of the call in progress and nothing else, each with the message  *)
(* the other side is to read; between calls it is empty.                   *)
(***************************************************************************)
\* The blocks in use, depending on how far the call is.
LiveBlocks ==
    CASE pc \in {"idle", "request"} -> {}
      [] pc \in {"call", "handler"} -> {dataPtr}
      [] pc = "log"                 -> {dataPtr, logPtr}
      [] pc = "response"            -> {dataPtr, response.ptr}

MemoryInUse ==
    /\ module \in {"none", "open"} => DOMAIN heap = LiveBlocks \ {0, -1}
    /\ heap = [p \in DOMAIN heap |-> heap[p]]
    /\ pc = "request" => dataPtr = 0
    /\ module \in {"none", "open"} /\ pc # "log" => logPtr = 0
    /\ pc = "log" => logPtr # dataPtr \/ logPtr = 0
    /\ pc \in {"request", "call", "handler", "log"} => response = NoResponse

\* What each side has left for the other, and what the handler was given and gave.
Handed ==
    /\ pc # "idle" => request \in Inputs[RequestType]
    /\ pc = "call" => Bytes(dataPtr) = Encoded[RequestType][request]
    /\ pc \in {"handler", "log"} => handled.request = Meant(RequestType, request)
    /\ pc = "response" /\ ~response.err /\ response.ptr # -1 =>
          /\ handled.request = Meant(RequestType, request)
          /\ \E m \in Inputs[ResponseType] :
               handled.reply = Reply(m) /\ Bytes(response.ptr) = Encoded[ResponseType][m]

\* Only a live module gets further than the beginning of a call, and a call that
\* found the module closed on a time-out ends with the plugin dropped.
Alive ==
    /\ pc \in {"call", "handler", "log", "response"} => module = "open"
    /\ pc = "request" => module # "none"
    /\ found = "closed" => module = "closed" /\ (pc = "request" \/ (pc = "idle" /\ dropped))
    /\ DOMAIN handled = {"request", "reply"} /\ handled = [request |-> handled.request, reply |-> handled.reply]

WasmInv == TypeOK /\ MemoryInUse /\ Handed /\ Alive /\ RepliesAreTheHandlers
-----------------------------------------------------------------------------
\* Encoding and decoding, of the requests and responses of the methods.
LEMMA CodecWorks ==
    ASSUME NEW t \in DOMAIN Inputs, NEW m \in Inputs[t]
    PROVE  /\ Decoded[t][Encoded[t][m]].ok
           /\ Decoded[t][Encoded[t][m]].value = Meant(t, m)
<1>1. Encoded[t][m] = Encode(t, m)
  BY DEF Encoded
<1>2. Decoded[t][Encoded[t][m]] = Decode(t, Encode(t, m))
  BY <1>1 DEF Decoded
<1> QED  BY <1>2, CodecAssumption

LEMMA MethodTypes ==
    ASSUME method \in DOMAIN Signature
    PROVE  RequestType \in DOMAIN Inputs /\ ResponseType \in DOMAIN Inputs
BY TypesAssumption DEF RequestType, ResponseType

\* A new block leaves the others alone.
LEMMA AllocatedBlock ==
    ASSUME NEW p, NEW bytes, heap' = Allocated(p, bytes)
    PROVE  /\ heap' = [q \in DOMAIN heap' |-> heap'[q]]
           /\ DOMAIN heap' = DOMAIN heap \cup {p} /\ heap'[p] = bytes
BY DEF Allocated

LEMMA NewBlock ==
    ASSUME TypeOK, NEW p \in FirstFit
    PROVE  p \in Address /\ p \notin DOMAIN heap /\ p \in Nat /\ p # 0 /\ p # -1
BY AddressAssumption DEF FirstFit, Unused

\* A method that frees all blocks in use leaves an empty memory or a closed module.
LEMMA FreedMemory ==
    ASSUME NEW blocks, DOMAIN heap = blocks, heap = [p \in DOMAIN heap |-> heap[p]],
           module = "open", Frees(blocks)
    PROVE  /\ module' = "open" => DOMAIN heap' = {}
           /\ module' \in {"open", "closed"} /\ DOMAIN heap' \subseteq DOMAIN heap
           /\ heap' = [p \in DOMAIN heap' |-> heap'[p]]
BY DEF Frees

LEMMA WasmInit == Init => WasmInv
<1> SUFFICES ASSUME Init PROVE WasmInv
  OBVIOUS
<1>1. TypeOK
  <2>1. "Configure" \in DOMAIN Signature
    BY DEF Signature
  <2>2. DOMAIN heap = {} /\ response.ptr = 0 /\ outcome.kind = "error"
    BY DEF Init, NoResponse, Error
  <2> QED  BY <2>1, <2>2 DEF Init, TypeOK
<1>2. MemoryInUse
  BY DEF Init, MemoryInUse, LiveBlocks
<1>3. Handed /\ Alive /\ RepliesAreTheHandlers
  BY DEF Init, Handed, Alive, RepliesAreTheHandlers, Nothing, Error
<1> QED  BY <1>1, <1>2, <1>3 DEF WasmInv

\* That a time-out has passed is of no consequence by itself.
LEMMA UnchangedPreserves ==
    ASSUME WasmInv,
           UNCHANGED <<logPtr, module, dropped, pc, method, request, found, heap, dataPtr, response,
                       handled, outcome>>
    PROVE  WasmInv'
<1>1. TypeOK' /\ MemoryInUse'
  BY DEF WasmInv, TypeOK, MemoryInUse, LiveBlocks
<1>2. \A p : Bytes(p)' = Bytes(p)
  BY DEF Bytes
<1>3. RequestType' = RequestType /\ ResponseType' = ResponseType
  BY DEF RequestType, ResponseType
<1>4. Handed'
  BY <1>2, <1>3 DEF WasmInv, Handed
<1>5. Alive' /\ RepliesAreTheHandlers'
  BY <1>3 DEF WasmInv, Alive, RepliesAreTheHandlers
<1> QED  BY <1>1, <1>4, <1>5 DEF WasmInv

\* A call begins.
LEMMA CallsPreserves ==
    ASSUME WasmInv, NEW m \in DOMAIN Signature, Calls(m)
    PROVE  WasmInv'
<1>1. /\ pc = "idle" /\ module # "none" /\ ~dropped /\ pc' = "request" /\ method' = m
      /\ request' \in Inputs[Signature[m][1]]
      /\ found' = module /\ dataPtr' = 0 /\ response' = NoResponse
      /\ handled' = Nothing /\ outcome' = Error
      /\ UNCHANGED <<logPtr, module, dropped, heap>>
  BY DEF Calls
<1>2. TypeOK'
  BY <1>1 DEF WasmInv, TypeOK, NoResponse, Error
<1>3. MemoryInUse'
  BY <1>1 DEF WasmInv, MemoryInUse, LiveBlocks
<1>4. Handed' /\ Alive' /\ RepliesAreTheHandlers'
  BY <1>1 DEF WasmInv, Handed, Alive, RepliesAreTheHandlers, RequestType, Nothing, Error
<1> QED  BY <1>2, <1>3, <1>4 DEF WasmInv

\* A method returns an error, and frees all blocks in use.
LEMMA ErrorReturnPreserves ==
    ASSUME WasmInv, NEW blocks, module = "open", pc # "idle", Returns(Error, blocks),
           DOMAIN heap = blocks \ {0, -1}
    PROVE  WasmInv'
<1>1. /\ outcome' = Error /\ dropped' \in BOOLEAN
      /\ Frees(blocks \ {0, -1}) /\ pc' = "idle" /\ logPtr' = 0
      /\ UNCHANGED <<method, request, found, expired, dataPtr, response, handled>>
  BY DEF Returns, Ends
<1>2. /\ module' = "open" => DOMAIN heap' = {}
      /\ module' \in {"open", "closed"} /\ DOMAIN heap' \subseteq DOMAIN heap
      /\ heap' = [p \in DOMAIN heap' |-> heap'[p]]
  BY <1>1, FreedMemory DEF WasmInv, MemoryInUse
<1>3. TypeOK'
  BY <1>1, <1>2 DEF WasmInv, TypeOK, Error
<1>4. MemoryInUse'
  BY <1>1, <1>2 DEF WasmInv, MemoryInUse, LiveBlocks
<1>5. found # "closed"
  BY DEF WasmInv, Alive
<1>6. Handed' /\ Alive' /\ RepliesAreTheHandlers'
  BY <1>1, <1>5 DEF WasmInv, Handed, Alive, RepliesAreTheHandlers, Error
<1> QED  BY <1>3, <1>4, <1>6 DEF WasmInv

\* The host's steps before the plugin is called.
LEMMA HostPreserves ==
    ASSUME WasmInv, Load \/ AllocateRequest \/ WriteFails \/ ModuleIsClosed \/ ModuleHasExited \/ TimeOut
    PROVE  WasmInv'
<1>1. CASE Load
  <2>1. module = "none" /\ module' = "open" /\ pc = "idle"
        /\ UNCHANGED <<logPtr, dropped, pc, method, request, found, expired, heap, dataPtr, response,
                       handled, outcome>>
    BY <1>1 DEF Load, WasmInv, Alive, TypeOK
  <2> QED  BY <2>1 DEF WasmInv, TypeOK, MemoryInUse, LiveBlocks, Handed, Alive,
                       RepliesAreTheHandlers, RequestType, ResponseType
<1>2. CASE AllocateRequest
  <2> DEFINE data == Encoded[RequestType][request]
  <2>1. /\ pc = "request" /\ module = "open" /\ pc' = "call" /\ dataPtr = 0 /\ DOMAIN heap = {}
        /\ UNCHANGED <<logPtr, module, dropped, method, request, found, response, handled, outcome>>
    BY <1>2 DEF AllocateRequest, WasmInv, MemoryInUse, LiveBlocks
  <2>2. /\ DOMAIN heap' = {dataPtr'} \ {0, -1} /\ heap' = [p \in DOMAIN heap' |-> heap'[p]]
        /\ dataPtr' \in Address \cup {0} /\ DOMAIN heap' \subseteq Address
        /\ Bytes(dataPtr)' = data
    <3>1. CASE data = <<>>
      <4>1. UNCHANGED <<heap, dataPtr>>
        BY <1>2, <3>1 DEF AllocateRequest
      <4> QED  BY <2>1, <3>1, <4>1 DEF WasmInv, MemoryInUse, Bytes
    <3>2. CASE data # <<>>
      <4>1. PICK p \in FirstFit : heap' = Allocated(p, data) /\ dataPtr' = p
        BY <1>2, <3>2 DEF AllocateRequest
      <4>2. p \in Address /\ p # 0 /\ p # -1
        BY NewBlock DEF WasmInv
      <4> HIDE DEF data
      <4> QED  BY <2>1, <4>1, <4>2, AllocatedBlock DEF Bytes
    <3> QED  BY <3>1, <3>2
  <2>3. TypeOK'
    BY <2>1, <2>2 DEF WasmInv, TypeOK
  <2>4. MemoryInUse'
    BY <2>1, <2>2 DEF WasmInv, MemoryInUse, LiveBlocks
  <2>5. Handed' /\ Alive' /\ RepliesAreTheHandlers'
    BY <2>1, <2>2 DEF WasmInv, Handed, Alive, RepliesAreTheHandlers, RequestType, ResponseType
  <2> QED  BY <2>3, <2>4, <2>5 DEF WasmInv
<1>3. CASE WriteFails
  <2>1. pc = "request" /\ module = "open" /\ Returns(Error, {}) /\ DOMAIN heap = {}
    BY <1>3 DEF WriteFails, WasmInv, MemoryInUse, LiveBlocks
  <2>2. DOMAIN heap = {} \ {0, -1} /\ pc # "idle"
    BY <2>1
  <2> QED  BY <2>1, <2>2, ErrorReturnPreserves
<1>4. CASE ModuleIsClosed
  <2>1. /\ module' = "closed" /\ outcome' = Dropped /\ dropped' = TRUE /\ pc' = "idle"
        /\ UNCHANGED <<logPtr, method, request, found, expired, heap, dataPtr, response, handled>>
    BY <1>4 DEF ModuleIsClosed
  <2>2. TypeOK' /\ MemoryInUse'
    BY <2>1 DEF WasmInv, TypeOK, MemoryInUse, Dropped
  <2>3. Handed' /\ Alive' /\ RepliesAreTheHandlers'
    BY <2>1 DEF WasmInv, Handed, Alive, RepliesAreTheHandlers, Dropped
  <2> QED  BY <2>2, <2>3 DEF WasmInv
<1>6. CASE ModuleHasExited
  <2>1. /\ module = "exited" /\ outcome' = Error /\ dropped' \in BOOLEAN /\ pc' = "idle"
        /\ logPtr' = 0
        /\ UNCHANGED <<module, method, request, found, expired, heap, dataPtr, response, handled>>
    BY <1>6 DEF ModuleHasExited, Ends
  <2>2. TypeOK' /\ MemoryInUse'
    BY <2>1 DEF WasmInv, TypeOK, MemoryInUse, Error
  <2>3. Handed' /\ Alive' /\ RepliesAreTheHandlers'
    BY <2>1 DEF WasmInv, Handed, Alive, RepliesAreTheHandlers, Error
  <2> QED  BY <2>2, <2>3 DEF WasmInv
<1>5. CASE TimeOut
  <2>1. UNCHANGED <<logPtr, module, dropped, pc, method, request, found, heap, dataPtr, response,
                    handled, outcome>>
    BY <1>5 DEF TimeOut
  <2> QED  BY <2>1, UnchangedPreserves
<1> QED  BY <1>1, <1>2, <1>3, <1>4, <1>5, <1>6

\* The plugin's side.
LEMMA PluginPreserves ==
    ASSUME WasmInv, PluginSide
    PROVE  WasmInv'
<1>0. method \in DOMAIN Signature /\ RequestType \in DOMAIN Inputs /\ ResponseType \in DOMAIN Inputs
  BY MethodTypes DEF WasmInv, TypeOK
<1>1. CASE PluginCalled
  <2> DEFINE r == Decoded[RequestType][Bytes(dataPtr)]
  <2>1. pc = "call" /\ module = "open" /\ request \in Inputs[RequestType]
        /\ Bytes(dataPtr) = Encoded[RequestType][request]
    BY <1>1 DEF PluginCalled, WasmInv, Handed
  <2>2. r.ok /\ r.value = Meant(RequestType, request)
    BY <1>0, <2>1, CodecWorks
  <2>3. /\ handled' = [handled EXCEPT !.request = r.value] /\ pc' = "handler"
        /\ UNCHANGED <<response, logPtr, module, dropped, method, request, found, heap, dataPtr, outcome>>
    BY <1>1, <2>2 DEF PluginCalled
  <2>4. handled'.request = Meant(RequestType, request) /\ DOMAIN handled' = {"request", "reply"}
        /\ handled' = [request |-> handled'.request, reply |-> handled'.reply]
    <3>1. handled = [request |-> handled.request, reply |-> handled.reply]
      BY DEF WasmInv, Alive
    <3> HIDE DEF r
    <3> QED  BY <2>2, <2>3, <3>1
  <2> QED  BY <2>1, <2>3, <2>4 DEF WasmInv, TypeOK, MemoryInUse, LiveBlocks, Handed, Alive,
                       RepliesAreTheHandlers, RequestType, ResponseType
<1>2. ASSUME NEW bytes, NEW err \in BOOLEAN, NEW reply, PluginReturns(bytes, err, reply),
             ~err => \E m \in Inputs[ResponseType] : reply = Reply(m) /\ bytes = Encoded[ResponseType][m]
      PROVE  WasmInv'
  <2>1. /\ pc = "handler" /\ module = "open" /\ pc' = "response" /\ handled' = [handled EXCEPT !.reply = reply]
        /\ UNCHANGED <<logPtr, module, dropped, method, request, found, dataPtr, outcome>>
    BY <1>2 DEF PluginReturns
  <2>2. DOMAIN heap = {dataPtr} \ {0, -1} /\ heap = [p \in DOMAIN heap |-> heap[p]] /\ DOMAIN heap \subseteq Address
    BY <2>1 DEF WasmInv, MemoryInUse, LiveBlocks, TypeOK
  <2>3. /\ response'.err = err /\ response'.ptr \in Address \cup {-1, 0}
        /\ DOMAIN heap' = {dataPtr, response'.ptr} \ {0, -1} /\ heap' = [p \in DOMAIN heap' |-> heap'[p]]
        /\ DOMAIN heap' \subseteq Address
        /\ Bytes(response.ptr)' = bytes
    <3>1. CASE bytes = <<>>
      <4>1. response' = [NoResponse EXCEPT !.err = err] /\ UNCHANGED heap
        BY <1>2, <3>1 DEF PluginReturns
      <4>2. response'.ptr = 0 /\ response'.err = err
        BY <4>1 DEF NoResponse
      <4>3. 0 \notin DOMAIN heap
        BY <2>2
      <4> QED  BY <2>2, <3>1, <4>1, <4>2, <4>3 DEF Bytes
    <3>2. CASE bytes # <<>>
      <4>1. PICK p \in FirstFit : heap' = Allocated(p, bytes)
                                  /\ response' = [ptr |-> p, size |-> Len(bytes), err |-> err]
        BY <1>2, <3>2 DEF PluginReturns
      <4>2. p \in Address /\ p # 0 /\ p # -1 /\ response'.ptr = p /\ response'.err = err
        BY <4>1, NewBlock DEF WasmInv
      <4>3. /\ DOMAIN heap' = DOMAIN heap \cup {p} /\ heap'[p] = bytes
            /\ heap' = [q \in DOMAIN heap' |-> heap'[q]]
        BY <4>1, AllocatedBlock
      <4> QED  BY <2>2, <4>2, <4>3 DEF Bytes
    <3> QED  BY <3>1, <3>2
  <2>4. /\ handled'.request = handled.request /\ handled'.reply = reply
        /\ DOMAIN handled' = {"request", "reply"}
        /\ handled' = [request |-> handled'.request, reply |-> handled'.reply]
    <3>1. handled = [request |-> handled.request, reply |-> handled.reply]
      BY DEF WasmInv, Alive
    <3> QED  BY <2>1, <3>1
  <2>5. handled.request = Meant(RequestType, request) /\ request \in Inputs[RequestType]
    BY <2>1 DEF WasmInv, Handed
  <2>6. TypeOK'
    BY <2>1, <2>3 DEF WasmInv, TypeOK
  <2>7. MemoryInUse'
    BY <2>1, <2>3 DEF WasmInv, MemoryInUse, LiveBlocks
  <2>8. Handed'
    <3>1. RequestType' = RequestType /\ ResponseType' = ResponseType
      BY <2>1 DEF RequestType, ResponseType
    <3> QED  BY <1>2, <2>1, <2>3, <2>4, <2>5, <3>1 DEF Handed
  <2>9. Alive' /\ RepliesAreTheHandlers'
    BY <2>1, <2>4 DEF WasmInv, Alive, RepliesAreTheHandlers
  <2> QED  BY <2>6, <2>7, <2>8, <2>9 DEF WasmInv
<1>3. CASE HandlerSucceeds
  <2>1. PICK m \in Inputs[ResponseType] : PluginReturns(Encoded[ResponseType][m], FALSE, Reply(m))
    BY <1>3 DEF HandlerSucceeds
  <2> QED  BY <1>2, <2>1
<1>4. CASE HandlerFails
  <2>1. PICK text \in ErrorTexts : PluginReturns(text, TRUE, Error)
    BY <1>4 DEF HandlerFails
  <2> QED  BY <1>2, <2>1
<1>5. CASE HandlerTraps
  <2>1. pc = "handler" /\ module = "open" /\ Returns(Error, {dataPtr}) /\ DOMAIN heap = {dataPtr} \ {0, -1}
    BY <1>5 DEF HandlerTraps, WasmInv, MemoryInUse, LiveBlocks
  <2> QED  BY <2>1, ErrorReturnPreserves
<1>9. CASE HandlerExits
  <2>1. /\ pc = "handler" /\ module = "open" /\ module' = "exited" /\ outcome' = Error
        /\ dropped' \in BOOLEAN /\ pc' = "idle" /\ logPtr' = 0
        /\ UNCHANGED <<method, request, found, expired, heap, dataPtr, response, handled>>
    BY <1>9 DEF HandlerExits, Ends
  <2>2. TypeOK' /\ MemoryInUse'
    BY <2>1 DEF WasmInv, TypeOK, MemoryInUse, Error
  <2>3. Handed' /\ Alive' /\ RepliesAreTheHandlers'
    BY <2>1 DEF WasmInv, Handed, Alive, RepliesAreTheHandlers, Error
  <2> QED  BY <2>2, <2>3 DEF WasmInv
<1>6. CASE HandlerLogs
  <2>1. /\ pc = "handler" /\ module = "open" /\ pc' = "log" /\ logPtr = 0
        /\ DOMAIN heap = {dataPtr} \ {0, -1} /\ heap = [p \in DOMAIN heap |-> heap[p]]
        /\ DOMAIN heap \subseteq Address
        /\ UNCHANGED <<module, dropped, method, request, found, dataPtr, response, handled, outcome>>
    BY <1>6 DEF HandlerLogs, WasmInv, MemoryInUse, LiveBlocks, TypeOK
  <2>2. /\ DOMAIN heap' = {dataPtr, logPtr'} \ {0, -1} /\ heap' = [p \in DOMAIN heap' |-> heap'[p]]
        /\ DOMAIN heap' \subseteq Address /\ logPtr' \in Address \cup {0}
        /\ logPtr' # dataPtr \/ logPtr' = 0
    <3>1. PICK m \in Inputs["LogRequest"] :
            LET data == Encoded["LogRequest"][m]
            IN  IF data = <<>> THEN UNCHANGED <<heap, logPtr>>
                ELSE \E p \in FirstFit : heap' = Allocated(p, data) /\ logPtr' = p
      BY <1>6 DEF HandlerLogs
    <3> DEFINE data == Encoded["LogRequest"][m]
    <3>2. CASE data = <<>>
      BY <2>1, <3>1, <3>2
    <3>3. CASE data # <<>>
      <4>1. PICK p \in FirstFit : heap' = Allocated(p, data) /\ logPtr' = p
        BY <3>1, <3>3
      <4>2. p \in Address /\ p # 0 /\ p # -1 /\ p \notin DOMAIN heap
        BY NewBlock DEF WasmInv
      <4> HIDE DEF data
      <4>3. DOMAIN heap' = DOMAIN heap \cup {p} /\ heap' = [q \in DOMAIN heap' |-> heap'[q]]
        BY <4>1, AllocatedBlock
      <4> QED  BY <2>1, <4>1, <4>2, <4>3, AddressAssumption
    <3> QED  BY <3>2, <3>3
  <2> QED  BY <2>1, <2>2 DEF WasmInv, TypeOK, MemoryInUse, LiveBlocks, Handed, Alive,
                       RepliesAreTheHandlers, RequestType, ResponseType
<1>7. CASE Log
  <2>1. /\ pc = "log" /\ module = "open" /\ pc' = "handler" /\ logPtr' = 0
        /\ heap' = [p \in DOMAIN heap \ {logPtr} |-> heap[p]]
        /\ UNCHANGED <<module, dropped, method, request, found, dataPtr, response, handled, outcome>>
    BY <1>7 DEF Log
  <2>2. DOMAIN heap = {dataPtr, logPtr} \ {0, -1} /\ (logPtr # dataPtr \/ logPtr = 0)
        /\ DOMAIN heap \subseteq Address
    BY <2>1 DEF WasmInv, MemoryInUse, LiveBlocks, TypeOK
  <2>3. /\ DOMAIN heap' = {dataPtr} \ {0, -1} /\ heap' = [p \in DOMAIN heap' |-> heap'[p]]
        /\ DOMAIN heap' \subseteq Address
    BY <2>1, <2>2
  <2> QED  BY <2>1, <2>3 DEF WasmInv, TypeOK, MemoryInUse, LiveBlocks, Handed, Alive,
                       RepliesAreTheHandlers, RequestType, ResponseType
<1>8. CASE BadResponse
  <2>1. /\ pc = "handler" /\ module = "open" /\ pc' = "response" /\ response'.ptr = -1
        /\ handled' = [handled EXCEPT !.reply = Error]
        /\ UNCHANGED <<logPtr, module, dropped, method, request, found, heap, dataPtr, outcome>>
    BY <1>8 DEF BadResponse
  <2>2. DOMAIN heap = {dataPtr} \ {0, -1}
    BY <2>1 DEF WasmInv, MemoryInUse, LiveBlocks
  <2>3. DOMAIN handled' = {"request", "reply"}
        /\ handled' = [request |-> handled'.request, reply |-> handled'.reply]
    <3>1. handled = [request |-> handled.request, reply |-> handled.reply]
      BY DEF WasmInv, Alive
    <3> QED  BY <2>1, <3>1
  <2> QED  BY <2>1, <2>2, <2>3 DEF WasmInv, TypeOK, MemoryInUse, LiveBlocks, Handed, Alive,
                       RepliesAreTheHandlers, RequestType, ResponseType
<1> QED  BY <1>1, <1>3, <1>4, <1>5, <1>6, <1>7, <1>8, <1>9 DEF PluginSide

\* The host reads the response.
LEMMA ReturnPreserves ==
    ASSUME WasmInv, MethodReturns
    PROVE  WasmInv'
<1> DEFINE r == Decoded[ResponseType][Bytes(response.ptr)]
           blocks == {dataPtr, response.ptr}
           good == response.ptr # -1 /\ ~response.err /\ r.ok
<1>1. pc = "response" /\ module = "open" /\ DOMAIN heap = blocks \ {0, -1}
  BY DEF MethodReturns, WasmInv, Alive, MemoryInUse, LiveBlocks
<1>2. CASE ~good
  <2>1. Returns(Error, blocks)
    BY <1>2 DEF MethodReturns
  <2> QED  BY <1>1, <2>1, ErrorReturnPreserves
<1>3. CASE good
  <2>1. /\ outcome' = Reply(r.value) /\ dropped' \in BOOLEAN /\ Frees(blocks \ {0, -1})
        /\ pc' = "idle" /\ logPtr' = 0
        /\ UNCHANGED <<method, request, found, expired, dataPtr, response, handled>>
    BY <1>3 DEF MethodReturns, Returns, Ends
  <2>2. /\ module' = "open" => DOMAIN heap' = {}
        /\ module' \in {"open", "closed"} /\ DOMAIN heap' \subseteq DOMAIN heap
        /\ heap' = [p \in DOMAIN heap' |-> heap'[p]]
    BY <1>1, <2>1, FreedMemory DEF WasmInv, MemoryInUse
  <2>3. handled.request = Meant(RequestType, request)
    BY <1>1, <1>3 DEF WasmInv, Handed
  <2>4. PICK m \in Inputs[ResponseType] :
          handled.reply = Reply(m) /\ Bytes(response.ptr) = Encoded[ResponseType][m]
    BY <1>1, <1>3 DEF WasmInv, Handed
  <2>5. ResponseType \in DOMAIN Inputs
    BY MethodTypes DEF WasmInv, TypeOK
  <2>6. r.value = Meant(ResponseType, m)
    BY <2>4, <2>5, CodecWorks
  <2>7. handled.reply.kind = "reply" /\ handled.reply.value = m
    BY <2>4 DEF Reply
  <2>8. outcome'.kind = "reply" /\ outcome'.value = r.value
    BY <2>1 DEF Reply
  <2> HIDE DEF r
  <2>9. RepliesAreTheHandlers'
    BY <2>1, <2>3, <2>6, <2>7, <2>8 DEF RepliesAreTheHandlers, RequestType, ResponseType
  <2>10. TypeOK'
    BY <2>1, <2>2, <2>8 DEF WasmInv, TypeOK
  <2>11. MemoryInUse'
    BY <2>1, <2>2 DEF WasmInv, MemoryInUse, LiveBlocks
  <2>12. found # "closed"
    BY <1>1 DEF WasmInv, Alive
  <2>13. Handed' /\ Alive'
    BY <2>1, <2>12 DEF WasmInv, Handed, Alive
  <2> QED  BY <2>9, <2>10, <2>11, <2>13 DEF WasmInv
<1> QED  BY <1>2, <1>3

LEMMA WasmNext == WasmInv /\ [Next]_vars => WasmInv'
<1> SUFFICES ASSUME WasmInv, [Next]_vars PROVE WasmInv'
  OBVIOUS
<1>1. ASSUME NEW m \in DOMAIN Signature, Calls(m) PROVE WasmInv'
  BY <1>1, CallsPreserves
<1>2. {"Configure", "Synchronize", "CreateContainer", "UpdateContainer", "StopContainer",
       "UpdatePodSandbox", "StateChange", "ValidateContainerAdjustment"} \subseteq DOMAIN Signature
  BY DEF Signature
<1>3. CASE \/ Configure \/ Synchronize \/ CreateContainer \/ UpdateContainer
           \/ StopContainer \/ UpdatePodSandbox \/ StateChange \/ ValidateContainerAdjustment
  BY <1>1, <1>2, <1>3 DEF Configure, Synchronize, CreateContainer, UpdateContainer,
         StopContainer, UpdatePodSandbox, StateChange, ValidateContainerAdjustment
<1>4. CASE Load \/ AllocateRequest \/ WriteFails \/ ModuleIsClosed \/ ModuleHasExited \/ TimeOut
  BY <1>4, HostPreserves
<1>5. CASE PluginSide \/ MethodReturns
  BY <1>5, PluginPreserves, ReturnPreserves
<1>6. CASE UNCHANGED vars
  BY <1>6, UnchangedPreserves DEF vars
<1> QED  BY <1>3, <1>4, <1>5, <1>6 DEF Next

LEMMA WasmInvariant == Spec => []WasmInv
BY WasmInit, WasmNext, PTL DEF Spec

\* Whatever the handlers of a plugin do, however large its messages are and
\* whenever time runs out, nothing of a call is left in the memory of a module that
\* lives on (the deferred calls of free, ptrSize).
THEOREM CallsLeaveNothing == Spec => []NothingLeaks
<1>1. WasmInv => NothingLeaks
  <2> SUFFICES ASSUME WasmInv, pc = "idle", module = "open" PROVE heap = <<>>
    BY DEF NothingLeaks
  <2>1. DOMAIN heap = {} /\ heap = [p \in DOMAIN heap |-> heap[p]]
    BY DEF WasmInv, MemoryInUse, LiveBlocks
  <2> QED  BY <2>1
<1> QED  BY <1>1, WasmInvariant, PTL

\* What the runtime takes for a reply is what the handler of the plugin replied to
\* that request: no stale block, no error text and no failure of the codec is.
THEOREM RepliesAreGenuine == Spec => []RepliesAreTheHandlers
<1>1. WasmInv => RepliesAreTheHandlers
  BY DEF WasmInv
<1> QED  BY <1>1, WasmInvariant, PTL

\* A plugin whose module a time-out closed, perhaps behind a successful call, is
\* dropped by the next call that is made to it.
THEOREM TimedOutModulesAreDropped == Spec => []TimedOutModuleIsDropped
<1>1. WasmInv => TimedOutModuleIsDropped
  BY DEF WasmInv, Alive, TimedOutModuleIsDropped
<1> QED  BY <1>1, WasmInvariant, PTL

\* The handler has not been called before the request is read, nor has it replied
\* before it returns.
Untouched ==
    /\ pc \in {"request", "call"} => handled = Nothing
    /\ pc \in {"handler", "log"} => handled.reply = Error

LEMMA UntouchedNext == WasmInv /\ Untouched /\ [Next]_vars => Untouched'
<1> SUFFICES ASSUME WasmInv, Untouched, [Next]_vars PROVE Untouched'
  OBVIOUS
<1>0. handled = [request |-> handled.request, reply |-> handled.reply]
  BY DEF WasmInv, Alive
<1>1. ASSUME NEW m, Calls(m) PROVE Untouched'
  BY <1>1 DEF Calls, Untouched
<1>2. CASE \/ Configure \/ Synchronize \/ CreateContainer \/ UpdateContainer
           \/ StopContainer \/ UpdatePodSandbox \/ StateChange \/ ValidateContainerAdjustment
  BY <1>1, <1>2 DEF Configure, Synchronize, CreateContainer, UpdateContainer,
         StopContainer, UpdatePodSandbox, StateChange, ValidateContainerAdjustment
<1>3. CASE Load \/ TimeOut \/ UNCHANGED vars
  BY <1>3 DEF Load, TimeOut, vars, Untouched
<1>4. CASE AllocateRequest \/ HandlerLogs \/ Log
  BY <1>4 DEF AllocateRequest, HandlerLogs, Log, Untouched
<1>5. CASE PluginCalled
  <2>1. pc = "call" /\ handled = Nothing
    BY <1>5 DEF PluginCalled, Untouched
  <2>2. \/ pc' = "response"
        \/ pc' = "handler" /\ \E v : handled' = [handled EXCEPT !.request = v]
    BY <1>5 DEF PluginCalled
  <2> QED  BY <2>1, <2>2 DEF Untouched, Nothing
<1>6. CASE WriteFails \/ ModuleIsClosed \/ ModuleHasExited \/ HandlerTraps \/ HandlerExits
          \/ MethodReturns
  <2>1. pc' = "idle"
    BY <1>6 DEF WriteFails, ModuleIsClosed, ModuleHasExited, HandlerTraps, HandlerExits,
                MethodReturns, Returns, Ends
  <2> QED  BY <2>1 DEF Untouched
<1>7. CASE HandlerSucceeds \/ HandlerFails \/ BadResponse
  <2>1. pc' = "response"
    BY <1>7 DEF HandlerSucceeds, HandlerFails, BadResponse, PluginReturns
  <2> QED  BY <2>1 DEF Untouched
<1> QED  BY <1>2, <1>3, <1>4, <1>5, <1>6, <1>7 DEF Next, PluginSide

\* The state that RemoteCall speaks of.
CallState == <<pc # "idle", Understood, {handled.request} \ {NoMessage}, Answered, Obtained>>

\* Steps that only the two ends of the call know about.
LEMMA InternalStep ==
    ASSUME UNCHANGED <<method, request, handled, outcome>>, (pc' = "idle") <=> (pc = "idle")
    PROVE  UNCHANGED CallState
BY DEF CallState, Understood, RequestType, ResponseType, Answered, Obtained

\* A step that ends a call without a reply, or with the handler's.
LEMMA ReturnStep ==
    ASSUME pc # "idle", pc' = "idle", UNCHANGED <<method, request, handled>>,
           outcome'.kind # "reply" \/ Obtained' \subseteq Answered
    PROVE  Service!Return
<1>1. UNCHANGED <<Understood, {handled.request} \ {NoMessage}, Answered>>
  BY DEF Understood, RequestType, ResponseType, Answered
<1>2. Obtained' \in SUBSET Answered
  BY DEF Obtained
<1> QED  BY <1>1, <1>2 DEF Service!Return

\* The handler returns.
LEMMA AnswerStep ==
    ASSUME WasmInv, Untouched, pc = "handler", pc' = "response", NEW reply,
           handled' = [handled EXCEPT !.reply = reply],
           reply = Error \/ \E m : reply = Reply(m),
           UNCHANGED <<method, request, outcome>>
    PROVE  Service!Answer \/ UNCHANGED CallState
<1>1. /\ handled = [request |-> handled.request, reply |-> handled.reply]
      /\ handled.reply = Error
      /\ handled.request = Meant(RequestType, request) /\ request \in Inputs[RequestType]
  BY DEF WasmInv, Alive, Handed, Untouched
<1>2. handled'.request = handled.request /\ handled'.reply = reply
  BY <1>1
<1>3. CASE reply = Error
  <2>1. handled' = handled
    BY <1>1, <1>2, <1>3
  <2> QED  BY <2>1, InternalStep
<1>4. CASE \E m : reply = Reply(m)
  <2>1. PICK m : reply = Reply(m)
    BY <1>4
  <2>2. Answered = {} /\ Answered' = {Meant(ResponseType, m)}
    BY <1>1, <1>2, <2>1 DEF Answered, ResponseType, Error, Reply
  <2>3. handled.request # NoMessage
    BY <1>1, MethodTypes, NoMessageAssumption DEF WasmInv, TypeOK
  <2>4. UNCHANGED <<Understood, {handled.request} \ {NoMessage}, Obtained>>
    BY <1>2 DEF Understood, RequestType, Obtained
  <2> QED  BY <2>2, <2>3, <2>4 DEF Service!Answer
<1> QED  BY <1>3, <1>4

LEMMA CallStep ==
    ASSUME WasmInv, WasmInv', Untouched, [Next]_vars
    PROVE  Service!Next \/ UNCHANGED CallState
<1>1. ASSUME NEW m, Calls(m) PROVE Service!Call
  <2>1. pc = "idle" /\ pc' = "request" /\ handled' = Nothing /\ outcome' = Error
    BY <1>1 DEF Calls
  <2>2. {handled'.request} \ {NoMessage} = {} /\ Answered' = {} /\ Obtained' = {}
    BY <2>1 DEF Nothing, Error, Answered, Obtained
  <2> QED  BY <2>1, <2>2 DEF Service!Call
<1>2. CASE \/ Configure \/ Synchronize \/ CreateContainer \/ UpdateContainer
           \/ StopContainer \/ UpdatePodSandbox \/ StateChange \/ ValidateContainerAdjustment
  BY <1>1, <1>2 DEF Service!Next, Configure, Synchronize, CreateContainer, UpdateContainer,
         StopContainer, UpdatePodSandbox, StateChange, ValidateContainerAdjustment
<1>3. CASE Load \/ TimeOut \/ AllocateRequest \/ HandlerLogs \/ Log \/ UNCHANGED vars
  <2>1. UNCHANGED <<method, request, handled, outcome>> /\ ((pc' = "idle") <=> (pc = "idle"))
    BY <1>3 DEF Load, TimeOut, AllocateRequest, HandlerLogs, Log, vars
  <2> QED  BY <2>1, InternalStep
<1>4. CASE PluginCalled
  <2> DEFINE r == Decoded[RequestType][Bytes(dataPtr)]
  <2>1. /\ pc = "call" /\ handled = Nothing /\ request \in Inputs[RequestType]
        /\ Bytes(dataPtr) = Encoded[RequestType][request]
    BY <1>4 DEF PluginCalled, WasmInv, Handed, Untouched
  <2>2. RequestType \in DOMAIN Inputs
    BY MethodTypes DEF WasmInv, TypeOK
  <2>3. r.ok /\ r.value = Meant(RequestType, request)
    BY <2>1, <2>2, CodecWorks
  <2>4. /\ handled' = [handled EXCEPT !.request = r.value] /\ pc' = "handler"
        /\ UNCHANGED <<method, request, outcome>>
    BY <1>4, <2>3 DEF PluginCalled
  <2>5. request # NoMessage /\ r.value # NoMessage
    BY <2>1, <2>2, <2>3, NoMessageAssumption
  <2> HIDE DEF r
  <2>6. handled.request = NoMessage /\ handled'.request = r.value /\ handled'.reply = handled.reply
    BY <2>1, <2>4 DEF Nothing
  <2>7. {handled'.request} \ {NoMessage} = {Understood} /\ {handled.request} \ {NoMessage} = {}
    BY <2>3, <2>5, <2>6 DEF Understood
  <2>8. UNCHANGED <<Understood, Answered, Obtained>>
    BY <2>4, <2>6 DEF Understood, Answered, Obtained, RequestType, ResponseType
  <2> QED  BY <2>1, <2>4, <2>7, <2>8 DEF Service!Next, Service!Handle
<1>5. ASSUME NEW bytes, NEW err, NEW reply, PluginReturns(bytes, err, reply),
             reply = Error \/ \E m : reply = Reply(m)
      PROVE  Service!Answer \/ UNCHANGED CallState
  <2>1. /\ pc = "handler" /\ pc' = "response" /\ handled' = [handled EXCEPT !.reply = reply]
        /\ UNCHANGED <<method, request, outcome>>
    BY <1>5 DEF PluginReturns
  <2> QED  BY <1>5, <2>1, AnswerStep
<1>6. CASE HandlerSucceeds \/ HandlerFails
  BY <1>5, <1>6 DEF HandlerSucceeds, HandlerFails, Service!Next
<1>7. CASE BadResponse
  <2>1. /\ pc = "handler" /\ pc' = "response" /\ handled' = [handled EXCEPT !.reply = Error]
        /\ UNCHANGED <<method, request, outcome>>
    BY <1>7 DEF BadResponse
  <2> QED  BY <2>1, AnswerStep DEF Service!Next
<1>8. CASE WriteFails \/ HandlerTraps \/ HandlerExits \/ ModuleIsClosed \/ ModuleHasExited
  <2>1. /\ pc # "idle" /\ pc' = "idle" /\ UNCHANGED <<method, request, handled>>
        /\ outcome' \in {Error, Dropped}
    BY <1>8 DEF WriteFails, HandlerTraps, HandlerExits, ModuleIsClosed, ModuleHasExited, Returns, Ends
  <2>2. outcome'.kind # "reply"
    BY <2>1 DEF Error, Dropped
  <2> QED  BY <2>1, <2>2, ReturnStep DEF Service!Next
<1>9. CASE MethodReturns
  <2>1. pc = "response" /\ pc' = "idle" /\ UNCHANGED <<method, request, handled>>
    BY <1>9 DEF MethodReturns, Returns, Ends
  <2>2. outcome'.kind = "reply" =>
           handled.reply.kind = "reply" /\ outcome'.value = Meant(ResponseType, handled.reply.value)
    BY <2>1 DEF WasmInv, RepliesAreTheHandlers, ResponseType
  <2>3. outcome'.kind # "reply" \/ Obtained' \subseteq Answered
    BY <2>2 DEF Obtained, Answered
  <2> QED  BY <2>1, <2>3, ReturnStep DEF Service!Next
<1> QED  BY <1>2, <1>3, <1>4, <1>6, <1>7, <1>8, <1>9 DEF Next, PluginSide

\* Refinement: a call that goes through the memory of a module, with its encodings,
\* blocks, log lines and time-outs, is a remote call like any other.
THEOREM WasmImplementsRemoteCall == Spec => ImplementsRemoteCall
<1>1. Init => Service!Init
  BY DEF Init, Service!Init, Nothing, Error, Answered, Obtained
<1>2. Init => Untouched
  BY DEF Init, Untouched
<1>3. WasmInv /\ WasmInv' /\ Untouched /\ [Next]_vars => [Service!Next]_CallState
  BY CallStep
<1> QED
  BY <1>1, <1>2, <1>3, WasmInvariant, UntouchedNext, PTL
     DEF Spec, ImplementsRemoteCall, Service!Spec, CallState
-----------------------------------------------------------------------------
(***************************************************************************)
(* Events, from the names a plugin asks with to the handler of its stub.   *)
(***************************************************************************)
\* The names of events are no names of groups, and those without a request of
\* their own all have a case in stub.StateChange.
LEMMA EventNamesCovered ==
    ASSUME NEW e \in ValidEvents
    PROVE  /\ e \in DOMAIN EventNames
           /\ EventNames[e] \notin {"all", "pod", "podsandbox", "container"}
           /\ e \notin Requests => StubStateChange(e) = {e} \cap handlers
           /\ e \notin Requests \cup Named({"PostUpdatePodSandbox"}) =>
                 BuiltinStateChange(e) = {e} \cap handlers
<1>1. ValidEvents = 1..14 /\ DOMAIN EventNames = 1..14
  BY DEF ValidEvents, EventLast, EventNames
<1>2. \/ e = 1 \/ e = 2 \/ e = 3 \/ e = 4 \/ e = 5 \/ e = 6 \/ e = 7
      \/ e = 8 \/ e = 9 \/ e = 10 \/ e = 11 \/ e = 12 \/ e = 13 \/ e = 14
  BY <1>1
<1>3. /\ EventNames[1] = "RunPodSandbox" /\ EventNames[2] = "StopPodSandbox"
      /\ EventNames[3] = "RemovePodSandbox" /\ EventNames[4] = "CreateContainer"
      /\ EventNames[5] = "PostCreateContainer" /\ EventNames[6] = "StartContainer"
      /\ EventNames[7] = "PostStartContainer" /\ EventNames[8] = "UpdateContainer"
      /\ EventNames[9] = "PostUpdateContainer" /\ EventNames[10] = "StopContainer"
      /\ EventNames[11] = "RemoveContainer" /\ EventNames[12] = "UpdatePodSandbox"
      /\ EventNames[13] = "PostUpdatePodSandbox" /\ EventNames[14] = "ValidateContainerAdjustment"
  BY DEF EventNames
<1>4. EventNames[e] \notin {"all", "pod", "podsandbox", "container"}
  BY <1>2, <1>3
<1>5. ASSUME e \notin Requests
      PROVE  e \in Named({"RunPodSandbox", "PostUpdatePodSandbox", "StopPodSandbox",
                          "RemovePodSandbox", "PostCreateContainer", "StartContainer",
                          "PostStartContainer", "PostUpdateContainer", "RemoveContainer"})
  <2>1. EventNames[e] \notin {"CreateContainer", "UpdateContainer", "StopContainer",
                              "UpdatePodSandbox", "ValidateContainerAdjustment"}
    BY <1>1, <1>5 DEF Requests, Named
  <2>2. EventNames[e] \in {"RunPodSandbox", "PostUpdatePodSandbox", "StopPodSandbox",
                           "RemovePodSandbox", "PostCreateContainer", "StartContainer",
                           "PostStartContainer", "PostUpdateContainer", "RemoveContainer"}
    BY <1>2, <1>3, <2>1
  <2> QED  BY <1>1, <2>2 DEF Named
<1>6. e \notin Requests => StubStateChange(e) = {e} \cap handlers
  BY <1>5 DEF StubStateChange
<1>7. ASSUME e \notin Requests \cup Named({"PostUpdatePodSandbox"})
      PROVE  e \in Named({"RunPodSandbox", "StopPodSandbox", "RemovePodSandbox",
                          "PostCreateContainer", "StartContainer", "PostStartContainer",
                          "PostUpdateContainer", "RemoveContainer"})
  BY <1>1, <1>5, <1>7 DEF Named
<1>8. e \notin Requests \cup Named({"PostUpdatePodSandbox"}) =>
         BuiltinStateChange(e) = {e} \cap handlers
  BY <1>7 DEF BuiltinStateChange
<1> QED  BY <1>1, <1>4, <1>6, <1>8

\* The mask of an item that is known is the set of events it is about.
LEMMA ItemMaskIsAbout ==
    ASSUME NEW i, ItemMask(i) # {}
    PROVE  /\ ItemMask(i) = {e \in ValidEvents : About(i, e)}
           /\ ItemMask(i) \subseteq ValidEvents
<1>1. DOMAIN EventNames = ValidEvents
  BY DEF ValidEvents, EventLast, EventNames
<1>2. PodEvents \subseteq ValidEvents /\ ContainerEvents \subseteq ValidEvents
  BY <1>1 DEF PodEvents, ContainerEvents, Named
<1>3. \A e \in ValidEvents : EventNames[e] \notin {"all", "pod", "podsandbox", "container"}
  BY EventNamesCovered
<1>4. Named({i.name}) = {e \in ValidEvents : EventNames[e] = i.name}
  BY <1>1 DEF Named
<1>5. CASE i.name = "all"
  <2>1. Named({i.name}) = {}
    BY <1>3, <1>4, <1>5
  <2>2. ItemMask(i) = ValidEvents
    BY <1>5, <2>1 DEF ItemMask
  <2> QED  BY <1>5, <2>2 DEF About
<1>6. CASE i.name \in {"pod", "podsandbox"}
  <2>1. Named({i.name}) = {}
    BY <1>3, <1>4, <1>6
  <2>2. ItemMask(i) = PodEvents
    BY <1>6, <2>1 DEF ItemMask
  <2> QED  BY <1>2, <1>3, <1>6, <2>2 DEF About
<1>7. CASE i.name = "container"
  <2>1. Named({i.name}) = {}
    BY <1>3, <1>4, <1>7
  <2>2. ItemMask(i) = ContainerEvents
    BY <1>7, <2>1 DEF ItemMask
  <2> QED  BY <1>2, <1>3, <1>7, <2>2 DEF About
<1>8. CASE i.name \notin {"all", "pod", "podsandbox", "container"}
  <2>1. ItemMask(i) = Named({i.name})
    BY <1>8 DEF ItemMask
  <2> QED  BY <1>4, <1>8, <2>1 DEF About
<1> QED  BY <1>5, <1>6, <1>7, <1>8

\* A text that parses stands for some events, and for those its items are about.
LEMMA ParsedIsWanted ==
    ASSUME asked # {}, ParseEventMask(asked) # Invalid
    PROVE  /\ ParseEventMask(asked) = Wanted /\ Wanted # {}
           /\ \A i \in asked : \E e \in ValidEvents : About(i, e)
<1>1. ~\E i \in asked : ItemMask(i) = {}
  BY DEF ParseEventMask
<1>2. ParseEventMask(asked) = UNION {ItemMask(i) : i \in asked}
  BY <1>1 DEF ParseEventMask
<1>3. \A i \in asked : ItemMask(i) # {} /\ ItemMask(i) = {e \in ValidEvents : About(i, e)}
  BY <1>1, ItemMaskIsAbout
<1>4. Wanted = {e \in ValidEvents : \E i \in asked : About(i, e)}
  BY DEF Wanted
<1>5. \A e : e \in UNION {ItemMask(i) : i \in asked} <=> e \in Wanted
  BY <1>3, <1>4
<1>6. \A i \in asked : \E e \in ValidEvents : About(i, e)
  BY <1>3
<1> QED  BY <1>2, <1>4, <1>5, <1>6

\* A builtin plugin is subscribed to what it asked for, or to all it can handle.
BuiltinMask ==
    /\ ~configures => asked = {}
    /\ kind = "builtin" /\ stage \in {"replied", "configured"} =>
          mask = Wanted /\ (mask = {} => handlers = {})
    /\ kind = "builtin" /\ stage = "configured" =>
          events = IF mask = {} THEN ValidEvents ELSE mask

\* What a stub has replied, and what the runtime made of it.
DispatchInv ==
    /\ handlers \subseteq ValidEvents
    /\ kind = "stub" /\ stage \in {"created", "replied", "configured"} => handlers # {}
    /\ kind = "stub" /\ stage \in {"replied", "configured"} =>
          /\ mask = Wanted /\ Wanted # {} /\ Wanted \subseteq handlers
          /\ \A i \in asked : \E e \in ValidEvents : About(i, e)
    /\ kind = "stub" /\ stage = "configured" => events = mask
    /\ stage # "configured" => event = 0
    /\ kind = "stub" /\ event # 0 => called = {event} \cap Wanted
    /\ BuiltinMask /\ OtherBuiltinEventsArrive

LEMMA DispatchInitInv == DispatchInit => DispatchInv
BY DEF DispatchInit, DispatchInv, BuiltinMask, OtherBuiltinEventsArrive

LEMMA DispatchNextInv == DispatchInv /\ [DispatchNext]_dispatchVars => DispatchInv'
<1> SUFFICES ASSUME DispatchInv, [DispatchNext]_dispatchVars PROVE DispatchInv'
  OBVIOUS
<1>1. CASE SetupHandlers
  BY <1>1, HandlersAssumption
     DEF SetupHandlers, DispatchInv, BuiltinMask, OtherBuiltinEventsArrive
<1>2. CASE StubConfigure
  <2> DEFINE wanted == IF asked = {} THEN handlers ELSE ParseEventMask(asked)
  <2>1. /\ UNCHANGED <<kind, handlers, configures, asked, events, event, called>>
        /\ stage = "created" /\ kind = "stub"
    BY <1>2 DEF StubConfigure, Replies
  <2>2. stage' = "failed" \/ (stage' = "replied" /\ mask' = wanted /\ wanted \subseteq handlers)
    BY <1>2 DEF StubConfigure, Replies
  <2>3. handlers # {} /\ 0 \notin ValidEvents /\ handlers \subseteq ValidEvents
    BY <2>1 DEF DispatchInv, ValidEvents
  <2>4. ASSUME wanted \subseteq handlers
        PROVE  /\ wanted = Wanted /\ Wanted # {}
               /\ \A i \in asked : \E e \in ValidEvents : About(i, e)
    <3>1. CASE asked = {}
      BY <2>3, <3>1 DEF Wanted
    <3>2. CASE asked # {}
      <4>1. ParseEventMask(asked) # Invalid
        BY <2>3, <2>4, <3>2 DEF Invalid
      <4> QED  BY <3>2, <4>1, ParsedIsWanted
    <3> QED  BY <3>1, <3>2
  <2>5. Wanted' = Wanted
    BY <2>1 DEF Wanted
  <2>6. stage' = "replied" => mask' = Wanted' /\ Wanted' # {} /\ Wanted' \subseteq handlers'
                              /\ \A i \in asked' : \E e \in ValidEvents : About(i, e)
    BY <2>1, <2>2, <2>4, <2>5
  <2> QED  BY <2>1, <2>2, <2>6 DEF DispatchInv, BuiltinMask, OtherBuiltinEventsArrive
<1>3. CASE BuiltinConfigure
  <2> DEFINE wanted == IF configures THEN ParseEventMask(asked) ELSE {}
             reply  == IF wanted = {} THEN handlers ELSE wanted
  <2>1. /\ UNCHANGED <<kind, handlers, configures, asked, events, event, called>>
        /\ stage = "created" /\ kind = "builtin"
    BY <1>3 DEF BuiltinConfigure, Replies
  <2>2. stage' = "failed" \/ (stage' = "replied" /\ mask' = reply /\ reply # Invalid)
    BY <1>3 DEF BuiltinConfigure, Replies
  <2>3. ASSUME reply # Invalid PROVE reply = Wanted /\ (reply = {} => handlers = {})
    <3>1. CASE asked = {}
      <4>1. wanted = {}
        BY <3>1 DEF ParseEventMask
      <4> QED  BY <3>1, <4>1 DEF Wanted
    <3>2. CASE asked # {}
      <4>1. configures /\ wanted = ParseEventMask(asked)
        BY <3>2 DEF DispatchInv, BuiltinMask
      <4>2. ParseEventMask(asked) # Invalid
        BY <2>3, <4>1 DEF Invalid
      <4> QED  BY <3>2, <4>1, <4>2, ParsedIsWanted
    <3> QED  BY <3>1, <3>2
  <2>4. Wanted' = Wanted
    BY <2>1 DEF Wanted
  <2>5. stage' = "replied" => mask' = Wanted' /\ (mask' = {} => handlers' = {})
    BY <2>1, <2>2, <2>3, <2>4
  <2> HIDE DEF reply
  <2> QED  BY <2>1, <2>2, <2>5 DEF DispatchInv, BuiltinMask, OtherBuiltinEventsArrive
<1>4. CASE BuiltinPanics \/ OtherConfigures
  BY <1>4 DEF BuiltinPanics, OtherConfigures, Replies, DispatchInv, BuiltinMask,
              OtherBuiltinEventsArrive
<1>5. CASE Subscribed
  <2>1. /\ UNCHANGED <<kind, handlers, configures, asked, mask, event, called>> /\ stage = "replied"
        /\ stage' \in {"failed", "configured"}
        /\ events' = IF mask = {} THEN ValidEvents ELSE mask \cap ValidEvents
    BY <1>5 DEF Subscribed
  <2>2. Wanted' = Wanted
    BY <2>1 DEF Wanted
  <2>3. kind = "stub" => events' = mask
    BY <2>1 DEF DispatchInv
  <2>4. kind = "builtin" /\ stage' = "configured" => mask \cap ValidEvents = mask
    BY <1>5 DEF Subscribed
  <2> QED  BY <2>1, <2>2, <2>3, <2>4 DEF DispatchInv, BuiltinMask, OtherBuiltinEventsArrive
<1>6. ASSUME NEW e \in ValidEvents, Relay(e)
      PROVE  DispatchInv'
  <2>1. /\ UNCHANGED <<kind, handlers, configures, asked, mask, events, stage>>
        /\ stage = "configured"
        /\ event' = e /\ called' = IF e \in events THEN Dispatched(e) ELSE {}
    BY <1>6 DEF Relay
  <2>2. Wanted' = Wanted
    BY <2>1 DEF Wanted
  <2>3. ASSUME kind = "stub"
        PROVE  called' = {e} \cap Wanted
    <3>1. events = Wanted /\ Wanted \subseteq handlers
      BY <2>1, <2>3 DEF DispatchInv
    <3>2. Dispatched(e) = {e} \cap handlers
      BY <2>3, EventNamesCovered DEF Dispatched
    <3> QED  BY <2>1, <3>1, <3>2
  <2>4. ASSUME kind = "builtin", e \notin {0} \cup Named({"PostUpdatePodSandbox"})
        PROVE  called' = {e} \cap Wanted \cap handlers
    <3>1. /\ mask = Wanted
          /\ events = IF mask = {} THEN ValidEvents ELSE mask
      BY <2>1, <2>4 DEF DispatchInv, BuiltinMask
    <3>2. Dispatched(e) = {e} \cap handlers
      BY <2>4, EventNamesCovered DEF Dispatched
    <3>3. CASE mask = {}
      BY <2>1, <2>4, <3>1, <3>2, <3>3 DEF DispatchInv, BuiltinMask
    <3>4. CASE mask # {}
      BY <2>1, <3>1, <3>2, <3>4
    <3> QED  BY <3>3, <3>4
  <2> QED  BY <2>1, <2>2, <2>3, <2>4 DEF DispatchInv, BuiltinMask, OtherBuiltinEventsArrive
<1>7. CASE UNCHANGED dispatchVars
  BY <1>7 DEF dispatchVars, DispatchInv, BuiltinMask, OtherBuiltinEventsArrive, Wanted
<1> QED  BY <1>1, <1>2, <1>3, <1>4, <1>5, <1>6, <1>7 DEF DispatchNext

\* Whatever handlers a plugin has and with whatever text it asks, each event it
\* wants reaches its handler and no other event does (stub.Configure,
\* plugin.configure, stub.StateChange).
THEOREM WantedEventsArrive == DispatchSpec => []StubEventsArrive
<1>1. DispatchInv => StubEventsArrive
  BY DEF DispatchInv, StubEventsArrive
<1> QED  BY DispatchInitInv, DispatchNextInv, <1>1, PTL DEF DispatchSpec

\* A builtin plugin gets every event it wants and can handle, of any mask it asks for,
\* but for the one that BuiltinPlugin.StateChange has no case for.
THEOREM BuiltinEventsArriveButOne == DispatchSpec => []OtherBuiltinEventsArrive
<1>1. DispatchInv => OtherBuiltinEventsArrive
  BY DEF DispatchInv
<1> QED  BY DispatchInitInv, DispatchNextInv, <1>1, PTL DEF DispatchSpec
=============================================================================
