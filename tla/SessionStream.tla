--------------------------- MODULE SessionStream ---------------------------
(***************************************************************************)
(* The stream of one session operation (src/agent/session_stream.n): a     *)
(* bounded channel of events, a `done` channel that is closed once the     *)
(* outcome is known, and the acknowledgement by which an RPC worker says   *)
(* that it has written the last event.                                     *)
(*                                                                         *)
(* Any coroutine may call any method; a method that releases the stream's  *)
(* lock, waits, or touches a channel outside it is one action per stretch. *)
(* A channel (library) is a bounded sequence with a closed flag: a send to *)
(* a closed channel throws, a receive from a closed one drains it first.   *)
(***************************************************************************)
EXTENDS Naturals, Sequences

CONSTANTS
    Callers,        \* coroutines that hold a reference to the stream
    Events,         \* what push is given
    SESSION_END,    \* the terminal event
    Capacity        \* events the channel buffers (128 in the code)

ASSUME SessionStreamAssumption ==
    /\ Capacity \in Nat \ {0}
    /\ SESSION_END \notin Events

VARIABLES
    events,             \* the buffered events
    events_closed,
    done_closes,        \* how often done.close() was called
    delivery_closed,    \* delivery_done is closed
    terminal,
    ended,
    failure,            \* failure # ''
    delivery_required,
    delivery_marked,
    pc,                 \* pc[c]: where caller c stands, "idle" outside
    local,              \* local[c]: the flag c read under the lock
    event,              \* event[c]: the event c is pushing
    outcome             \* outcome[c]: what c's last result() came to

flags == <<terminal, ended, failure, delivery_required, delivery_marked>>
channels == <<events, events_closed, done_closes, delivery_closed>>
callers == <<pc, local, event, outcome>>
vars == <<flags, channels, callers>>

Goto(c, l) == pc' = [pc EXCEPT ![c] = l]

Init ==
    /\ events = <<>> /\ events_closed = FALSE
    /\ done_closes = 0 /\ delivery_closed = FALSE
    /\ terminal = FALSE /\ ended = FALSE /\ failure = FALSE
    /\ delivery_required = FALSE /\ delivery_marked = FALSE
    /\ pc = [c \in Callers |-> "idle"]
    /\ local = [c \in Callers |-> FALSE]
    /\ event = [c \in Callers |-> SESSION_END]
    /\ outcome = [c \in Callers |-> "none"]

----------------------------------------------------------------------------
(* push *)

\* The check under the lock; a stream that is over swallows the event.
PushBegin(c, e) ==
    /\ pc[c] = "idle"
    /\ ~terminal /\ ~ended
    /\ event' = [event EXCEPT ![c] = e]
    /\ Goto(c, "pushSend")
    /\ UNCHANGED <<flags, channels, local, outcome>>

\* Mutant: an event that finds the buffer full is dropped.
TrySendDropsWhenFull(c, from, e, next) ==
    /\ pc[c] = from
    /\ events' = IF events_closed \/ Len(events) = Capacity THEN events
                                                           ELSE Append(events, e)
    /\ Goto(c, next)
    /\ UNCHANGED <<flags, events_closed, done_closes, delivery_closed, local,
                   event, outcome>>

\* try_send: tried again while the buffer is full, given up when it is closed.
TrySend(c, from, e, next) ==
    /\ pc[c] = from
    /\ \/ /\ ~events_closed
          /\ Len(events) < Capacity
          /\ events' = Append(events, e)
       \/ /\ events_closed
          /\ UNCHANGED events
    /\ Goto(c, next)
    /\ UNCHANGED <<flags, events_closed, done_closes, delivery_closed, local,
                   event, outcome>>

PushSend(c) == TrySend(c, "pushSend", event[c], "idle")

----------------------------------------------------------------------------
(* finish *)

\* The outcome is committed under the lock.
FinishBegin(c) ==
    /\ pc[c] = "idle"
    /\ ~terminal /\ ~ended
    /\ terminal' = TRUE
    /\ local' = [local EXCEPT ![c] = delivery_required]
    /\ Goto(c, "finishSend")
    /\ UNCHANGED <<ended, failure, delivery_required, delivery_marked,
                   channels, event, outcome>>

FinishSend(c) == TrySend(c, "finishSend", SESSION_END, "finishDone")

\* done.close(); RPC leaves end() to mark_delivery_done.
FinishDone(c) ==
    /\ pc[c] = "finishDone"
    /\ done_closes' = done_closes + 1
    /\ Goto(c, IF local[c] THEN "idle" ELSE "end")
    /\ UNCHANGED <<flags, events, events_closed, delivery_closed, local, event,
                   outcome>>

----------------------------------------------------------------------------
(* end and fail *)

\* The first end() wins.
EndBegin(c, from) ==
    /\ pc[c] = from
    /\ ~ended
    /\ ended' = TRUE
    /\ local' = [local EXCEPT ![c] = terminal]
    /\ Goto(c, "endEvents")
    /\ UNCHANGED <<terminal, failure, delivery_required, delivery_marked,
                   channels, event, outcome>>

\* A later one returns at once.
EndAgain(c) ==
    /\ pc[c] = "end"
    /\ ended
    /\ Goto(c, "idle")
    /\ UNCHANGED <<flags, channels, local, event, outcome>>

EndEvents(c) ==
    /\ pc[c] = "endEvents"
    /\ events_closed' = TRUE
    /\ Goto(c, IF local[c] THEN "idle" ELSE "endDone")
    /\ UNCHANGED <<flags, events, done_closes, delivery_closed, local, event,
                   outcome>>

EndDone(c) ==
    /\ pc[c] = "endDone"
    /\ done_closes' = done_closes + 1
    /\ Goto(c, "idle")
    /\ UNCHANGED <<flags, events, events_closed, delivery_closed, local, event,
                   outcome>>

FailBegin(c) ==
    /\ pc[c] = "idle"
    /\ failure' = TRUE
    /\ Goto(c, "end")
    /\ UNCHANGED <<terminal, ended, delivery_required, delivery_marked,
                   channels, local, event, outcome>>

----------------------------------------------------------------------------
(* The delivery handshake *)

require_delivery(c) ==
    /\ pc[c] = "idle"
    /\ delivery_required' = TRUE
    /\ delivery_marked' = FALSE
    /\ UNCHANGED <<terminal, ended, failure, channels, callers>>

\* Mutant: the acknowledgement is noted but nobody is woken.
MarkBeginForgetsWaiters(c) ==
    /\ pc[c] = "idle"
    /\ ~delivery_marked
    /\ delivery_marked' = TRUE
    /\ UNCHANGED <<terminal, ended, failure, delivery_required, channels,
                   callers>>

\* Under the lock; only the first call goes on.
MarkBegin(c) ==
    /\ pc[c] = "idle"
    /\ ~delivery_marked
    /\ delivery_marked' = TRUE
    /\ Goto(c, IF delivery_required THEN "markClose" ELSE "idle")
    /\ UNCHANGED <<terminal, ended, failure, delivery_required, channels,
                   local, event, outcome>>

\* delivery_done.close(); an error of it or of end() is swallowed.
MarkClose(c) ==
    /\ pc[c] = "markClose"
    /\ delivery_closed' = TRUE
    /\ Goto(c, "end")
    /\ UNCHANGED <<flags, events, events_closed, done_closes, local, event,
                   outcome>>

WaitDeliveryBegin(c) ==
    /\ pc[c] = "idle"
    /\ delivery_required /\ ~delivery_marked
    /\ Goto(c, "waitDelivery")
    /\ UNCHANGED <<flags, channels, local, event, outcome>>

WaitDelivery(c) ==
    /\ pc[c] = "waitDelivery"
    /\ delivery_closed
    /\ Goto(c, "idle")
    /\ UNCHANGED <<flags, channels, local, event, outcome>>

----------------------------------------------------------------------------
(* result and recv *)

ResultBegin(c) ==
    /\ pc[c] = "idle"
    /\ Goto(c, IF terminal THEN "resultRead" ELSE "resultWait")
    /\ UNCHANGED <<flags, channels, local, event, outcome>>

ResultWait(c) ==
    /\ pc[c] = "resultWait"
    /\ done_closes > 0
    /\ Goto(c, "resultRead")
    /\ UNCHANGED <<flags, channels, local, event, outcome>>

\* Mutant: an ended stream is taken for a failed one.
ResultReadEnded(c) ==
    /\ pc[c] = "resultRead"
    /\ outcome' = [outcome EXCEPT ![c] = IF ended THEN "error" ELSE "context"]
    /\ Goto(c, "idle")
    /\ UNCHANGED <<flags, channels, local, event>>

\* The final context, or an error when the stream ended without one.
ResultRead(c) ==
    /\ pc[c] = "resultRead"
    /\ outcome' = [outcome EXCEPT ![c] = IF terminal THEN "context" ELSE "error"]
    /\ Goto(c, "idle")
    /\ UNCHANGED <<flags, channels, local, event>>

recv(c) ==
    /\ pc[c] = "idle"
    /\ events # <<>>
    /\ events' = Tail(events)
    /\ UNCHANGED <<flags, events_closed, done_closes, delivery_closed, callers>>

----------------------------------------------------------------------------
push(c) == (\E e \in Events : PushBegin(c, e)) \/ PushSend(c)
finish(c) == FinishBegin(c) \/ FinishSend(c) \/ FinishDone(c)
end(c) == EndBegin(c, "end") \/ EndAgain(c) \/ EndEvents(c) \/ EndDone(c)
mark_delivery_done(c) == MarkBegin(c) \/ MarkClose(c)
wait_delivery(c) == WaitDeliveryBegin(c) \/ WaitDelivery(c)
result(c) == ResultBegin(c) \/ ResultWait(c) \/ ResultRead(c)

Next ==
    \E c \in Callers :
        \/ push(c) \/ finish(c) \/ FailBegin(c) \/ EndBegin(c, "idle") \/ end(c)
        \/ require_delivery(c) \/ mark_delivery_done(c) \/ wait_delivery(c)
        \/ result(c) \/ recv(c)

Spec == Init /\ [][Next]_vars

----------------------------------------------------------------------------
(* Properties *)

PcSet == {"idle", "pushSend", "finishSend", "finishDone", "end", "endEvents",
          "endDone", "markClose", "waitDelivery", "resultWait", "resultRead"}

TypeOK ==
    /\ events \in Seq(Events \cup {SESSION_END})
    /\ Len(events) <= Capacity
    /\ events_closed \in BOOLEAN /\ delivery_closed \in BOOLEAN
    /\ done_closes \in Nat
    /\ terminal \in BOOLEAN /\ ended \in BOOLEAN /\ failure \in BOOLEAN
    /\ delivery_required \in BOOLEAN /\ delivery_marked \in BOOLEAN
    /\ pc \in [Callers -> PcSet]
    /\ local \in [Callers -> BOOLEAN]
    /\ event \in [Callers -> Events \cup {SESSION_END}]
    /\ outcome \in [Callers -> {"none", "context", "error"}]

\* done is closed at most once, whoever races finish, fail, end and
\* mark_delivery_done: a second close() throws out of finish or end.
DoneClosedOnce == done_closes <= 1

\* c has taken on the duty to close done.
Closing(c) ==
    \/ pc[c] \in {"finishSend", "finishDone"}
    \/ pc[c] \in {"endEvents", "endDone"} /\ ~local[c]

\* DoneClosedOnce's inductive strengthening: the duty is taken on when the
\* first of terminal and ended is set, by one caller, and done once; nobody
\* reads an outcome before that.
StreamInv ==
    /\ TypeOK
    /\ done_closes <= 1
    /\ ~terminal /\ ~ended =>
         /\ done_closes = 0
         /\ \A c \in Callers : ~Closing(c) /\ pc[c] # "resultRead"
    /\ \A c \in Callers : /\ Closing(c) => done_closes = 0
                          /\ pc[c] = "endDone" => ~local[c]
    /\ \A c, d \in Callers : Closing(c) /\ Closing(d) => c = d

\* The stream implements OneShot: terminal decides for completion, ended
\* without terminal for failure.
Outcome == INSTANCE OneShot WITH
    Readers <- Callers,
    status <- IF terminal THEN "completed" ELSE IF ended THEN "failed" ELSE "open",
    report <- outcome

\* Once decided, an outcome is never reversed, and result() never returns
\* anything else (session_stream.n finish, fail, end, result).
ImplementsOneShot == Outcome!Spec
=============================================================================
