-------------------------- MODULE MCOperationSlot --------------------------
(* Instances of OperationSlot for TLC. *)
EXTENDS OperationSlot, TLC

CONSTANTS c1, c2, none, p1, p2, p3, k1, t1, b1, n1, r1, r2, a1

\* Everything but a prompt, from two clients; r2 switches to a session that
\* cannot be loaded.
WorkKind ==
    k1 :> "compact" @@ t1 :> "tree" @@ b1 :> "bash" @@ n1 :> "new"
    @@ r1 :> "replace" @@ r2 :> "replace" @@ a1 :> "abort"
WorkOwner ==
    [o \in DOMAIN WorkKind |-> IF o \in {k1, t1, r1} THEN c1 ELSE c2]

\* The commands of one RPC client.
RpcKind ==
    p1 :> "prompt" @@ p2 :> "prompt" @@ k1 :> "compact" @@ b1 :> "bash"
    @@ n1 :> "new" @@ a1 :> "abort"
RpcOwner == [o \in DOMAIN RpcKind |-> c1]

\* Three prompts in a row, from one client.
PromptsKind == p1 :> "prompt" @@ p2 :> "prompt" @@ p3 :> "prompt"
PromptsOwner == [o \in DOMAIN PromptsKind |-> c1]
=============================================================================
