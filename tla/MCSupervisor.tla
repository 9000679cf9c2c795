---------------------------- MODULE MCSupervisor ----------------------------
(* Two clients, one of whose commands is followed by get_state and a stop. *)
EXTENDS Supervisor
CONSTANTS prompt, abort, stopper
\* Every send has an id of its own.
MCId == [s \in Sends |-> s]
=============================================================================
