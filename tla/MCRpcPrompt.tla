---------------------------- MODULE MCRpcPrompt ----------------------------
(* Instances of RpcPrompt for TLC: events are numbered in push order. *)
EXTENDS RpcPrompt

MCEvents == 0 .. NumEvents + 1
MCSessionEnd == NumEvents + 2
MCError == NumEvents + 3
=============================================================================
