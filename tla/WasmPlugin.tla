----------------------------- MODULE WasmPlugin -----------------------------
(***************************************************************************)
(* Calls to a WebAssembly plugin: the host side (pkg/api/api_host.pb.go),  *)
(* the plugin side (pkg/api/api_plugin.pb.go) and what the runtime makes of*)
(* the outcome (pkg/adaptation/plugin.go).  Host and plugin share nothing  *)
(* but the memory of the module, in which each side leaves encoded messages*)
(* for the other, and two numbers.  Calls to one plugin follow one another,*)
(* under the lock of Adaptation; each is bounded by the request time-out,  *)
(* on which the WebAssembly runtime closes the module (wasm-enabled.go).   *)
(***************************************************************************)
EXTENDS Integers, Sequences, FiniteSets

CONSTANT Address,       \* of blocks in the memory of the module; 0 is none
         Inputs,        \* the requests and responses, by type
         NoMessage,     \* no request, no answer
         Encode(_, _),  \* the generated codec: the bytes of a message of a type,
         Decode(_, _),  \* what bytes are decoded to, [ok, value],
         Meant(_, _)    \* and what a receiver is to see of a message

VARIABLES module,     \* "none", "open", "exited", or "closed" on a time-out
          dropped,    \* p.closed: the runtime has closed the plugin
          pc,         \* where the host is in a call, "idle" between calls
          method,     \* the method called
          request,    \* its request
          found,      \* what the module was when the call began
          expired,    \* whether the time-out of the call has passed
          heap,       \* contents of the allocated blocks
          dataPtr,    \* block of the request
          logPtr,     \* block of a log line
          response,   \* [ptr, size, err]: ptrSize, as the host takes it apart
          handled,    \* [request, reply]: what the plugin's handler did in this call
          outcome     \* what the caller in the runtime gets

vars == <<module, dropped, pc, method, request, found, expired, heap, dataPtr, logPtr,
          response, handled, outcome>>

\* Request and response of each method of the plugin.
Signature ==
  [Configure       |-> <<"ConfigureRequest", "ConfigureResponse">>,
   Synchronize     |-> <<"SynchronizeRequest", "SynchronizeResponse">>,
   CreateContainer |-> <<"CreateContainerRequest", "CreateContainerResponse">>,
   UpdateContainer |-> <<"UpdateContainerRequest", "UpdateContainerResponse">>,
   StopContainer   |-> <<"StopContainerRequest", "StopContainerResponse">>,
   UpdatePodSandbox |-> <<"UpdatePodSandboxRequest", "UpdatePodSandboxResponse">>,
   StateChange     |-> <<"StateChangeEvent", "Empty">>,
   ValidateContainerAdjustment |-> <<"ValidateContainerAdjustmentRequest",
                                     "ValidateContainerAdjustmentResponse">>]
RequestType  == Signature[method][1]
ResponseType == Signature[method][2]

\* The codec on these messages: their encodings, and what these decode to.
ErrorTexts == {<<>>, <<80, 48>>}
Encoded == [t \in DOMAIN Inputs |-> [m \in Inputs[t] |-> Encode(t, m)]]
Decoded == [t \in DOMAIN Inputs |->
              [b \in {Encoded[t][m] : m \in Inputs[t]} \cup ErrorTexts |-> Decode(t, b)]]

ASSUME AddressAssumption == Address \subseteq Nat \ {0}

ASSUME TypesAssumption ==
  /\ \A m \in DOMAIN Signature : {Signature[m][1], Signature[m][2]} \subseteq DOMAIN Inputs
  /\ "LogRequest" \in DOMAIN Inputs

\* Every message survives the codec (MessageTransfer!RoundTrip).
ASSUME CodecAssumption ==
  \A t \in DOMAIN Inputs : \A m \in Inputs[t] :
    Decode(t, Encode(t, m)).ok /\ Decode(t, Encode(t, m)).value = Meant(t, m)

\* To have none is not to have an empty one.
ASSUME NoMessageAssumption ==
  \A t \in DOMAIN Inputs : \A m \in Inputs[t] : NoMessage \notin {m, Meant(t, m)}

Reply(m)  == [kind |-> "reply", value |-> m]
Error     == [kind |-> "error", value |-> NoMessage]
Dropped   == [kind |-> "dropped", value |-> NoMessage]
Nothing   == [request |-> NoMessage, reply |-> Error]
NoResponse == [ptr |-> 0, size |-> 0, err |-> FALSE]

Allocated(p, bytes) == [q \in DOMAIN heap \cup {p} |-> IF q = p THEN bytes ELSE heap[q]]
Unused == Address \ DOMAIN heap
FirstFit == {p \in Unused : \A q \in Unused : p <= q}  \* which one is all the same
Bytes(p) == IF p \notin DOMAIN heap THEN <<>> ELSE heap[p]

Init ==
  /\ module = "none" /\ dropped = FALSE
  /\ pc = "idle" /\ method = "Configure" /\ request = NoMessage
  /\ found = "none" /\ expired = FALSE
  /\ heap = <<>> /\ dataPtr = 0 /\ logPtr = 0
  /\ response = NoResponse /\ handled = Nothing /\ outcome = Error

\* The module is compiled, instantiated and checked for its version and for the
\* functions it has to export.  Otherwise there is no plugin.
Load ==
  /\ module = "none"
  /\ module' = "open"
  /\ UNCHANGED <<logPtr, dropped, pc, method, request, found, expired, heap, dataPtr, response,
                 handled, outcome>>
-----------------------------------------------------------------------------
\* The methods of the host side.  They are alike but for their messages.
Calls(m) ==
  /\ pc = "idle" /\ module # "none" /\ ~dropped
  /\ \E r \in Inputs[Signature[m][1]] : request' = r
  /\ method' = m
  /\ pc' = "request"
  /\ found' = module
  /\ expired' = FALSE /\ dataPtr' = 0 /\ response' = NoResponse
  /\ handled' = Nothing /\ outcome' = Error
  /\ UNCHANGED <<logPtr, module, dropped, heap>>

Configure       == Calls("Configure")
Synchronize     == Calls("Synchronize")
CreateContainer == Calls("CreateContainer")
UpdateContainer == Calls("UpdateContainer")
StopContainer   == Calls("StopContainer")
UpdatePodSandbox == Calls("UpdatePodSandbox")
StateChange     == Calls("StateChange")
ValidateContainerAdjustment == Calls("ValidateContainerAdjustment")

FreesMutant(blocks) ==  \* Mutant: the response is not freed
  IF blocks = {} THEN UNCHANGED <<heap, module>>
  ELSE IF expired \/ module = "closed" THEN module' = "closed" /\ UNCHANGED heap
  ELSE heap' = [p \in DOMAIN heap \ {dataPtr} |-> heap[p]] /\ UNCHANGED module

\* Blocks that the method frees when it returns; the plugin's free is called with
\* the context of the request, so once that has expired it closes the module.
Frees(blocks) ==
  IF blocks = {} THEN UNCHANGED <<heap, module>>
  ELSE IF expired \/ module = "closed" THEN module' = "closed" /\ UNCHANGED heap
  ELSE heap' = [p \in DOMAIN heap \ blocks |-> heap[p]] /\ UNCHANGED module

\* The method returns to plugin.go, which relays an error; if the plugin cannot
\* be configured or synchronized, it is closed, too.
Ends(o) ==
  /\ outcome' = o
  /\ dropped' = (o.kind = "error" /\ method \in {"Configure", "Synchronize"})
  /\ pc' = "idle" /\ logPtr' = 0
  /\ UNCHANGED <<method, request, found, expired, dataPtr, response, handled>>

Returns(o, blocks) == Ends(o) /\ Frees(blocks \ {0, -1})

\* The request is encoded; unless it is empty, a block is allocated for it and
\* filled.  The functions of a closed module return an error.
AllocateRequest ==
  /\ pc = "request" /\ module = "open" /\ ~expired
  /\ LET data == Encoded[RequestType][request]
     IN  IF data = <<>> THEN UNCHANGED <<heap, dataPtr>>
         ELSE \E p \in FirstFit : heap' = Allocated(p, data) /\ dataPtr' = p
  /\ pc' = "call"
  /\ UNCHANGED <<logPtr, module, dropped, method, request, found, expired, response, handled, outcome>>

\* A plugin may return an address beyond its memory from malloc.
WriteFails ==
  /\ pc = "request" /\ module = "open" /\ ~expired
  /\ Encoded[RequestType][request] # <<>>
  /\ Returns(Error, {})

ModuleIsClosedNever == FALSE  \* Mutant: without WithCloseOnContextDone
ModuleIsClosedNotFatal ==  \* Mutant: not recognized as a time-out
  /\ pc \in {"request", "call", "handler", "log"}
  /\ module = "closed" \/ (expired /\ module = "open")
  /\ module' = "closed" /\ UNCHANGED heap
  /\ Ends(Error)

\* The time-out ends a call to the module, or finds it closed already.  The error
\* counts as context.DeadlineExceeded: plugin.go closes the plugin.
ModuleIsClosed ==
  /\ pc \in {"request", "call", "handler", "log"}
  /\ module = "closed" \/ (expired /\ module = "open")
  /\ module' = "closed"
  /\ outcome' = Dropped /\ dropped' = TRUE
  /\ pc' = "idle"
  /\ UNCHANGED <<logPtr, method, request, found, expired, heap, dataPtr, response, handled>>

\* The functions of a module that the plugin has left return the error of its exit,
\* also when time runs out.  That is no time-out: the plugin stays, as it is.
ModuleHasExited ==
  /\ pc = "request" /\ module = "exited"
  /\ Ends(Error)
  /\ UNCHANGED <<module, heap>>

TimeOut ==
  /\ pc # "idle" /\ ~expired
  /\ expired' = TRUE
  /\ UNCHANGED <<logPtr, module, dropped, pc, method, request, found, heap, dataPtr, response,
                 handled, outcome>>
-----------------------------------------------------------------------------
\* The exported functions of the plugin side: the request is decoded and given
\* to the handler; 0 stands for failures of the codec.
PluginCalled ==
  /\ pc = "call" /\ module = "open" /\ ~expired
  /\ LET r == Decoded[RequestType][Bytes(dataPtr)]
     IN  IF r.ok
         THEN /\ handled' = [handled EXCEPT !.request = r.value]
              /\ pc' = "handler" /\ UNCHANGED response
         ELSE /\ pc' = "response" /\ response' = NoResponse /\ UNCHANGED handled
  /\ UNCHANGED <<logPtr, module, dropped, method, request, found, expired, heap, dataPtr, outcome>>

\* ByteToPtr, and the two halves of the result; the sign bit of the size marks
\* the text of an error.
PluginReturns(bytes, err, reply) ==
  /\ pc = "handler" /\ module = "open"
  /\ IF bytes = <<>>
     THEN response' = [NoResponse EXCEPT !.err = err] /\ UNCHANGED heap
     ELSE \E p \in FirstFit :
            /\ heap' = Allocated(p, bytes)
            /\ response' = [ptr |-> p, size |-> Len(bytes), err |-> err]
  /\ handled' = [handled EXCEPT !.reply = reply]
  /\ pc' = "response"
  /\ UNCHANGED <<logPtr, module, dropped, method, request, found, expired, dataPtr, outcome>>

HandlerSucceeds ==
  \E m \in Inputs[ResponseType] :
    PluginReturns(Encoded[ResponseType][m], FALSE, Reply(m))

HandlerFails == \E text \in ErrorTexts : PluginReturns(text, TRUE, Error)

\* The handler panics: the call returns an error that is no time-out, and the
\* module stays open.
HandlerTraps ==
  /\ pc = "handler" /\ module = "open"
  /\ Returns(Error, {dataPtr})

\* The plugin exits: the WebAssembly runtime closes its module, and the call
\* returns the error of the exit, which is no time-out either.
HandlerExits ==
  /\ pc = "handler" /\ module = "open"
  /\ module' = "exited"
  /\ Ends(Error)
  /\ UNCHANGED heap

\* The handler logs a line: a request and an (empty) response the other way
\* round.  The plugin allocates a block for the request, the function of the host
\* reads it (and would panic if it could not), the plugin frees it.  The host also
\* allocates for its response, which nobody frees; of no bytes, malloc makes no block.
HandlerLogs ==
  /\ pc = "handler" /\ module = "open"
  /\ \E m \in Inputs["LogRequest"] :
       LET data == Encoded["LogRequest"][m]
       IN  IF data = <<>> THEN UNCHANGED <<heap, logPtr>>
           ELSE \E p \in FirstFit : heap' = Allocated(p, data) /\ logPtr' = p
  /\ pc' = "log"
  /\ UNCHANGED <<module, dropped, method, request, found, expired, dataPtr, response, handled,
                 outcome>>

Log ==
  /\ pc = "log" /\ module = "open"
  /\ Decoded["LogRequest"][Bytes(logPtr)].ok
  /\ heap' = [p \in DOMAIN heap \ {logPtr} |-> heap[p]] /\ logPtr' = 0
  /\ pc' = "handler"
  /\ UNCHANGED <<module, dropped, method, request, found, expired, dataPtr, response, handled,
                 outcome>>

\* A plugin may return an address beyond its memory, too.
BadResponse ==
  /\ pc = "handler" /\ module = "open"
  /\ response' = [ptr |-> -1, size |-> 1, err |-> FALSE]
  /\ handled' = [handled EXCEPT !.reply = Error]
  /\ pc' = "response"
  /\ UNCHANGED <<logPtr, module, dropped, method, request, found, expired, heap, dataPtr, outcome>>
-----------------------------------------------------------------------------
MethodReturnsMutant ==  \* Mutant: the mark of errors not looked at
  /\ pc = "response"
  /\ LET r == Decoded[ResponseType][Bytes(response.ptr)]
         o == IF response.ptr = -1 \/ ~r.ok THEN Error ELSE Reply(r.value)
     IN  Returns(o, {dataPtr, response.ptr})

\* Back in the method of the host: the response is read and decoded, and both
\* blocks are freed whatever comes of it.
MethodReturns ==
  /\ pc = "response"
  /\ LET r == Decoded[ResponseType][Bytes(response.ptr)]
         o == IF response.ptr = -1 \/ response.err \/ ~r.ok THEN Error ELSE Reply(r.value)
     IN  Returns(o, {dataPtr, response.ptr})

PluginSide == PluginCalled \/ HandlerSucceeds \/ HandlerFails \/ HandlerTraps
              \/ HandlerExits \/ HandlerLogs \/ Log \/ BadResponse

Next ==
  \/ Load
  \/ Configure \/ Synchronize \/ CreateContainer \/ UpdateContainer
  \/ StopContainer \/ UpdatePodSandbox \/ StateChange \/ ValidateContainerAdjustment
  \/ AllocateRequest \/ WriteFails \/ ModuleIsClosed \/ ModuleHasExited \/ TimeOut \/ PluginSide
  \/ MethodReturns

\* Time passes, and the host and the WebAssembly runtime go on; the plugin need
\* not.
Fairness == WF_vars(TimeOut) /\ WF_vars(ModuleIsClosed \/ ModuleHasExited \/ MethodReturns)

Spec == Init /\ [][Next]_vars /\ Fairness
-----------------------------------------------------------------------------
TypeOK ==
  /\ {module, found} \subseteq {"none", "open", "exited", "closed"} /\ dropped \in BOOLEAN
  /\ pc \in {"idle", "request", "call", "handler", "log", "response"}
  /\ method \in DOMAIN Signature
  /\ DOMAIN heap \subseteq Address /\ {dataPtr, logPtr} \subseteq Address \cup {0}
  /\ response.ptr \in Address \cup {-1, 0}
  /\ outcome.kind \in {"reply", "error", "dropped"}

\* Between calls, nothing of them is left in the memory of a module that lives,
\* whether they succeeded or failed, on either side.
NothingLeaks == pc = "idle" /\ module = "open" => heap = <<>>

\* The runtime gets a reply only if the handler of the plugin was called, with
\* the very request, and gave that reply.  Errors of the handler do not become
\* replies, in particular not empty ones.
RepliesAreTheHandlers ==
  pc = "idle" /\ outcome.kind = "reply" =>
    /\ handled.request = Meant(RequestType, request)
    /\ handled.reply.kind = "reply"
    /\ outcome.value = Meant(ResponseType, handled.reply.value)

\* Memory, encodings, time-outs and log lines in between make no difference: to the
\* runtime, these are calls like those to any plugin (RemoteCall).
Understood == IF request = NoMessage THEN NoMessage ELSE Meant(RequestType, request)
Answered   == IF handled.reply.kind = "reply"
              THEN {Meant(ResponseType, handled.reply.value)} ELSE {}
Obtained   == IF outcome.kind = "reply" THEN {outcome.value} ELSE {}

Service == INSTANCE RemoteCall
    WITH calling <- pc # "idle", request <- Understood, given <- {handled.request} \ {NoMessage},
         answer <- Answered, outcome <- Obtained

ImplementsRemoteCall == Service!Spec

\* A time-out that passes after the plugin has answered and before the blocks
\* are freed closes the module behind a successful call.  The next call finds
\* out, and gets rid of the plugin.
TimedOutModuleIsDropped == pc = "idle" /\ found = "closed" => dropped

\* That a call to any dead module gets rid of the plugin; it does not if the plugin
\* has exited (isFatalError): its module stays and fails all requests relayed to it.
DeadModuleIsDropped == pc = "idle" /\ found \in {"closed", "exited"} => dropped

\* Every call returns: a plugin that computes for ever is stopped by the time-out.
CallsReturn == pc # "idle" ~> pc = "idle"
=============================================================================
