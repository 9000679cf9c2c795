---------------------------- MODULE MessageQueue ----------------------------
(***************************************************************************)
(* The messages a user queues while the agent works (queue_t of            *)
(* src/agent/types.n) and the queue_update events that show them           *)
(* (src/agent/session.n).  Three coroutines share the queue: the client's  *)
(* enqueues and restores, the agent loop drains, and the session runner    *)
(* strikes a message off the visible queue when its message_start passes   *)
(* by.  An update is published in three steps: the queue is changed, a     *)
(* snapshot of it is taken, and the snapshot is pushed to the stream.      *)
(***************************************************************************)
EXTENDS Naturals, Sequences, FiniteSets, SequencesExt, Functions

CONSTANTS
    Msgs,           \* the user's messages
    Prompt,         \* the one that starts the run
    Text,           \* what each one says
    SteeringMode,   \* steering_mode and follow_up_mode
    FollowUpMode,
    MaxRestores     \* bound: calls of restore_queued_messages

Modes == {"one-at-a-time", "all"}

ASSUME QueueAssumption ==
    /\ Prompt \in Msgs /\ Msgs \subseteq DOMAIN Text
    /\ SteeringMode \in Modes /\ FollowUpMode \in Modes
    /\ MaxRestores \in Nat

VARIABLES
    steering, follow_up,                    \* messages not yet drained
    visible_steering, visible_follow_up,    \* their texts, until they start
    pending,        \* drained by the loop, not yet in the context
    starts,         \* message_start events on their way to the session
    client,         \* the client's call, and its snapshot
    forwarder,      \* forward_agent_stream, its message and its snapshot
    shown,          \* the last queue_update that was pushed
    started,        \* messages whose message_start was pushed, in order
    steered, followed, restored     \* history: what was queued and taken back

queues == <<steering, follow_up, visible_steering, visible_follow_up>>
history == <<steered, followed, restored>>
qvars == <<queues, pending, starts, client, forwarder, shown, started, history>>

Texts(s) == [i \in DOMAIN s |-> Text[s[i]]]
visible_snapshot == [steering |-> visible_steering, follow_up |-> visible_follow_up]
Empty == [steering |-> <<>>, follow_up |-> <<>>]
Queued == ToSet(steered) \cup ToSet(followed)

QInit ==
    /\ steering = <<>> /\ follow_up = <<>>
    /\ visible_steering = <<>> /\ visible_follow_up = <<>>
    /\ pending = <<>> /\ starts = <<Prompt>>
    /\ client = [at |-> "idle", snapshot |-> Empty]
    /\ forwarder = [at |-> "recv", msg |-> Prompt, snapshot |-> Empty]
    /\ shown = Empty
    /\ started = <<>>
    /\ steered = <<>> /\ followed = <<>> /\ restored = <<>>

----------------------------------------------------------------------------
(* The client *)

\* queue_steering
EnqueueSteering(m) ==
    /\ client.at = "idle"
    /\ m \notin Queued \cup {Prompt}
    /\ steering' = Append(steering, m)
    /\ visible_steering' = Append(visible_steering, Text[m])
    /\ steered' = Append(steered, m)
    /\ client' = [client EXCEPT !.at = "snapshot"]
    /\ UNCHANGED <<follow_up, visible_follow_up, pending, starts, forwarder, shown,
                   started, followed, restored>>

\* queue_follow_up
EnqueueFollowUp(m) ==
    /\ client.at = "idle"
    /\ m \notin Queued \cup {Prompt}
    /\ follow_up' = Append(follow_up, m)
    /\ visible_follow_up' = Append(visible_follow_up, Text[m])
    /\ followed' = Append(followed, m)
    /\ client' = [client EXCEPT !.at = "snapshot"]
    /\ UNCHANGED <<steering, visible_steering, pending, starts, forwarder, shown,
                   started, steered, restored>>

\* restore_queued_messages hands what is not drained back to the editor.
Restore ==
    /\ client.at = "idle" /\ Len(restored) < MaxRestores
    /\ restored' = Append(restored, steering \o follow_up)
    /\ steering' = <<>> /\ follow_up' = <<>>
    /\ visible_steering' = <<>> /\ visible_follow_up' = <<>>
    /\ client' = [client EXCEPT !.at = "snapshot"]
    /\ UNCHANGED <<pending, starts, forwarder, shown, started, steered, followed>>

\* emit_queue_update_for: the snapshot under the queue's lock, ...
ClientSnapshots ==
    /\ client.at = "snapshot"
    /\ client' = [at |-> "push", snapshot |-> visible_snapshot]
    /\ UNCHANGED <<queues, pending, starts, forwarder, shown, started, history>>

\* ... and then the event.
ClientPushes ==
    /\ client.at = "push"
    /\ shown' = client.snapshot
    /\ client' = [client EXCEPT !.at = "idle"]
    /\ UNCHANGED <<queues, pending, starts, forwarder, started, history>>

Client ==
    \/ \E m \in Msgs : EnqueueSteering(m) \/ EnqueueFollowUp(m)
    \/ Restore \/ ClientSnapshots \/ ClientPushes

----------------------------------------------------------------------------
(* What the agent loop does to the queue *)

\* drain
Drained(q, mode) == IF q = <<>> \/ mode = "all" THEN q ELSE <<Head(q)>>
Remaining(q, mode) == IF q = <<>> \/ mode = "all" THEN <<>> ELSE Tail(q)

\* Mutant: one message is taken, and the others are dropped.
drain_steering_drops ==
    /\ pending = <<>>
    /\ pending' = Drained(steering, SteeringMode)
    /\ steering' = <<>>
    /\ UNCHANGED <<follow_up, visible_steering, visible_follow_up, starts, client,
                   forwarder, shown, started, history>>

drain_steering ==
    /\ pending = <<>>
    /\ pending' = Drained(steering, SteeringMode)
    /\ steering' = Remaining(steering, SteeringMode)
    /\ UNCHANGED <<follow_up, visible_steering, visible_follow_up, starts, client,
                   forwarder, shown, started, history>>

drain_follow_up ==
    /\ pending = <<>>
    /\ pending' = Drained(follow_up, FollowUpMode)
    /\ follow_up' = Remaining(follow_up, FollowUpMode)
    /\ UNCHANGED <<steering, visible_steering, visible_follow_up, starts, client,
                   forwarder, shown, started, history>>

\* The message_start of the next pending message.
Announce ==
    /\ pending # <<>>
    /\ starts' = Append(starts, Head(pending))
    /\ pending' = Tail(pending)
    /\ UNCHANGED <<queues, client, forwarder, shown, started, history>>

----------------------------------------------------------------------------
(* The session runner *)

\* forward_agent_stream gets a user's message_start: mark_queue_delivered, which
\* removes the first visible entry with that text (RemoveFirst is remove_visible).
MarkDelivered ==
    /\ forwarder.at = "recv" /\ starts # <<>>
    /\ LET t == Text[Head(starts)]
       IN /\ visible_steering' = RemoveFirst(visible_steering, t)
          /\ visible_follow_up' = IF t \in ToSet(visible_steering) THEN visible_follow_up
                                  ELSE RemoveFirst(visible_follow_up, t)
          /\ forwarder' = [forwarder EXCEPT
               !.msg = Head(starts),
               !.at = IF t \in ToSet(visible_steering \o visible_follow_up)
                        THEN "snapshot" ELSE "start"]
    /\ starts' = Tail(starts)
    /\ UNCHANGED <<steering, follow_up, pending, client, shown, started, history>>

ForwarderSnapshots ==
    /\ forwarder.at = "snapshot"
    /\ forwarder' = [forwarder EXCEPT !.at = "push", !.snapshot = visible_snapshot]
    /\ UNCHANGED <<queues, pending, starts, client, shown, started, history>>

ForwarderPushes ==
    /\ forwarder.at = "push"
    /\ shown' = forwarder.snapshot
    /\ forwarder' = [forwarder EXCEPT !.at = "start"]
    /\ UNCHANGED <<queues, pending, starts, client, started, history>>

\* The message_start itself.
ForwarderStarts ==
    /\ forwarder.at = "start"
    /\ started' = Append(started, forwarder.msg)
    /\ forwarder' = [forwarder EXCEPT !.at = "recv", !.snapshot = Empty]
    /\ UNCHANGED <<queues, pending, starts, client, shown, history>>

Forwarder ==
    MarkDelivered \/ ForwarderSnapshots \/ ForwarderPushes \/ ForwarderStarts

----------------------------------------------------------------------------
(* Properties *)

Updates == [steering : Seq(Range(Text)), follow_up : Seq(Range(Text))]

\* Queues hold messages, visible queues and snapshots their texts, and the two
\* publishers of queue_update are where their code can be.
QTypeOK ==
    /\ {steering, follow_up, pending, starts, started, steered, followed} \subseteq Seq(Msgs)
    /\ restored \in Seq(Seq(Msgs))
    /\ {visible_steering, visible_follow_up} \subseteq Seq(Range(Text))
    /\ client \in [at : {"idle", "snapshot", "push"}, snapshot : Updates]
    /\ forwarder \in [at : {"recv", "snapshot", "push", "start"}, msg : Msgs,
                      snapshot : Updates]
    /\ shown \in Updates

\* The messages the loop has taken or announced, in that order.
Forwarding == IF forwarder.at = "recv" THEN <<>> ELSE <<forwarder.msg>>
Taken == started \o Forwarding \o starts \o pending

\* The messages of q come in s in the order of q, each at most once.
InOrder(s, q) ==
    \A i, j \in DOMAIN s, k, l \in DOMAIN q :
        i < j /\ s[i] = q[k] /\ s[j] = q[l] => k < l

\* The messages handed back to the editor.
Back == UNION {ToSet(r) : r \in ToSet(restored)}

\* No queued message is lost, delivered twice, handed back twice, or both
\* delivered and handed back, and each queue keeps its order (drain,
\* restore_all): what the user queued and did not take back is what the loop
\* took, then what still waits.
EachOnceInOrder ==
    /\ ToSet(steering) \subseteq ToSet(steered) /\ ToSet(follow_up) \subseteq ToSet(followed)
    /\ Queued \subseteq ToSet(Taken \o steering \o follow_up) \cup Back
    /\ Back \subseteq Queued \ ToSet(Taken \o steering \o follow_up)
    /\ InOrder(Taken \o steering, steered) /\ InOrder(Taken \o follow_up, followed)
    /\ \A r, t \in DOMAIN restored : \A i \in DOMAIN restored[r], j \in DOMAIN restored[t] :
         restored[r][i] = restored[t][j] => r = t /\ i = j

\* When every message the loop took has started and nobody is in the middle of
\* an update, the visible queues say what waits in the queues: first-match
\* removal by text (mark_delivered) struck off the right entries.
VisibleIsQueued ==
    pending = <<>> /\ starts = <<>> /\ forwarder.at = "recv"
      => visible_snapshot = [steering |-> Texts(steering), follow_up |-> Texts(follow_up)]

\* The queues and the user's view of them: every message once and in order,
\* and no entry shown for a message that is gone.
QueuesExact == EachOnceInOrder /\ VisibleIsQueued

\* The session's promise: a message whose message_start was forwarded is no
\* longer in the last queue_update a consumer saw (mark_queue_delivered comes
\* before the push in forward_agent_stream).
NotPendingOnceStarted ==
    \A m \in ToSet(started) :
        Text[m] \notin ToSet(shown.steering \o shown.follow_up)
============================================================================
