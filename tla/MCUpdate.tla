------------------------------ MODULE MCUpdate ------------------------------
(***************************************************************************)
(* Two resources, the second of which may be listed twice, and the pids    *)
(* limit; three plugins, since one may fail over the first and ignore it   *)
(* and the third be the one to suffer.                                     *)
(***************************************************************************)
EXTENDS Update

CONSTANTS target, other

MCContainers == {target, other}
MCRequests == {{}, {1}, {1, 2, 3}}
MCSetsOf == {{1}, {2}, {1, 2}, {3}}
NoPids == {{}, {1, 2}}
=============================================================================
