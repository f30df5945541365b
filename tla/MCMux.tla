------------------------------- MODULE MCMux -------------------------------
(***************************************************************************)
(* An instance of Mux for TLC: NRI's two connections (ttrpc.go), one for   *)
(* the plugin's service and one for the runtime's.                         *)
(***************************************************************************)
EXTENDS Mux

CONSTANTS runtime, plugin, PluginServiceConn, RuntimeServiceConn

MCFrames == [e \in End |-> [c \in Conn |->
                CASE e = runtime /\ c = RuntimeServiceConn -> 2
                  [] e = plugin /\ c = RuntimeServiceConn -> 0
                  [] OTHER -> 1]]
=============================================================================
