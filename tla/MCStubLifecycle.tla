-------------------------- MODULE MCStubLifecycle --------------------------
(***************************************************************************)
(* An instance of StubLifecycle for TLC: two threads of the plugin.        *)
(***************************************************************************)
EXTENDS StubLifecycle

CONSTANTS t1, t2
=============================================================================
