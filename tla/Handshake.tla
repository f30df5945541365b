------------------------------ MODULE Handshake ------------------------------
(***************************************************************************)
(* What either end of the connection between the runtime and a plugin      *)
(* promises of its sessions: they come one after another and in order; one *)
(* is up only when the other end has done its part, the plugin's to        *)
(* register, the runtime's to configure it; and one that is closed, by     *)
(* whomever, stays closed whatever is still answered in it.  Connections,  *)
(* servers, locks, time-outs and goroutines are left out.                  *)
(***************************************************************************)
EXTENDS Naturals

CONSTANT Sessions  \* numbers

VARIABLES
    phase,   \* of each session: "none", "starting", "up" or "closed"
    heard    \* the sessions in which the other end has done its part

vars == <<phase, heard>>

Init ==
    /\ phase = [s \in Sessions |-> "none"]
    /\ heard = {}

Become(s, p) == phase' = [phase EXCEPT ![s] = p] /\ UNCHANGED heard

Open(s) ==
    /\ \A r \in Sessions : phase[r] \in IF r < s THEN {"none", "closed"} ELSE {"none"}
    /\ Become(s, "starting")

\* The other end may take longer than this one waits.
Hear(s) ==
    /\ phase[s] \in {"starting", "closed"}
    /\ heard' = heard \cup {s}
    /\ UNCHANGED phase

Establish(s) ==
    /\ phase[s] = "starting" /\ s \in heard
    /\ Become(s, "up")

Close(s) ==
    /\ phase[s] \in {"starting", "up"}
    /\ Become(s, "closed")

Next == \E s \in Sessions : Open(s) \/ Hear(s) \/ Establish(s) \/ Close(s)

Spec == Init /\ [][Next]_vars
=============================================================================
