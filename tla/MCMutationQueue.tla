-------------------------- MODULE MCMutationQueue --------------------------
(* Instances of MutationQueue for TLC. *)
EXTENDS MutationQueue

CONSTANT real

\* One path that is its own canonical path: no symbolic link on the way.
OnePath == {real}
OneCanon == [p \in OnePath |-> p]
=============================================================================
