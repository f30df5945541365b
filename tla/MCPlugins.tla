------------------------------ MODULE MCPlugins ------------------------------
(***************************************************************************)
(* A plugin is either WebAssembly, with its methods called in the memory   *)
(* of the runtime, or a process with a connection (plugin.go, isWasm).     *)
(* There is room for three blocks of WebAssembly memory, more than are in  *)
(* use at once; three registrations, so that one finds regC full with      *)
(* nobody left to receive.  An empty and a full message of each type, as   *)
(* an empty message is passed without a block.                             *)
(***************************************************************************)
EXTENDS WasmPlugin, PluginSession, Codec

CONSTANTS c1, c2, c3

MCAddress == 1..3

MCEncode(t, m) == MarshalVT(t, m, FALSE)
MCDecode(t, b) == Unmarshal(t, b, <<>>, FALSE)
MCMeant(t, m)  == Normal(t, m)

Container == [Id |-> <<99>>]
Event == <<4>>
MCInputs ==
  [ConfigureRequest        |-> {<<>>, [Config |-> <<97>>, RequestTimeout |-> <<5>>]},
   ConfigureResponse       |-> {<<>>, [Events |-> <<44, 2>>]},
   SynchronizeRequest      |-> {<<>>, [Containers |-> <<Container>>, More |-> <<1>>]},
   SynchronizeResponse     |-> {<<>>, [More |-> <<1>>]},
   Empty                   |-> {<<>>},
   CreateContainerRequest  |-> {[Container |-> Container]},
   CreateContainerResponse |-> {<<>>, [Adjust |-> <<>>]},
   UpdateContainerRequest  |-> {[Container |-> Container, LinuxResources |-> <<>>]},
   UpdateContainerResponse |-> {<<>>, [Update |-> <<[ContainerId |-> <<99>>], <<>>>>]},
   StopContainerRequest    |-> {[Container |-> Container]},
   StopContainerResponse   |-> {<<>>, [Update |-> <<<<>>>>]},
   UpdatePodSandboxRequest |-> {[Pod |-> <<>>]},
   UpdatePodSandboxResponse |-> {<<>>},
   StateChangeEvent        |-> {<<>>, [Event |-> Event]},
   ValidateContainerAdjustmentRequest  |-> {[Owners |-> <<>>]},
   ValidateContainerAdjustmentResponse |-> {<<>>, [Reject |-> <<1>>]},
   LogRequest              |-> {<<>>, [Msg |-> <<97>>]}]

PluginInit == Init /\ SessionInit

PluginNext ==
  \/ start = "none" /\ Next /\ UNCHANGED sessionVars
  \/ module = "none" /\ SessionNext /\ UNCHANGED vars

PluginSpec ==
  PluginInit /\ [][PluginNext]_<<vars, sessionVars>> /\ Fairness /\ SessionFairness
=============================================================================
