----------------------------- MODULE AgentTurn -----------------------------
(***************************************************************************)
(* One turn of the agent, and its abort.  The loop (stream_assistant of    *)
(* src/agent/loop.n) asks a provider (anthropic_provider.n stands for all) *)
(* and reads its events from a bounded channel (ai/event_stream.n); if the *)
(* answer calls bash, it runs the command (tools/command.n).  An abort     *)
(* marks the token of the run and calls what was registered on it, which   *)
(* marks the stream and its own token, which closes the HTTP response; or  *)
(* which kills the command (ai/abort.n).  Loop, provider and aborter run   *)
(* beside each other; a callback runs in the coroutine that calls it.      *)
(*                                                                         *)
(* The network may be silent for ever once a response has arrived, and a   *)
(* command may run for ever.  A request that was sent returns: the HTTP    *)
(* client has a timeout.                                                   *)
(***************************************************************************)
EXTENDS Naturals, Sequences

CONSTANTS
    MaxRetries,     \* options.max_retries
    MaxChunks,      \* bound: the reads of one response that bring text
    Capacity        \* the room of the event channel (32 in the code)

ASSUME TurnAssumption == MaxRetries \in Nat /\ MaxChunks \in Nat /\ Capacity \in Nat \ {0}

Actors == {"loop", "provider", "aborter"}

VARIABLES
    token,          \* the run's token: aborted
    callbacks,      \* and what is registered on it: "response", "child"
    marked,         \* assistant_stream_t.aborted
    cancelled,      \* the stream's own token: aborted
    closer,         \* close_response is registered on it
    todo,           \* the callbacks each coroutine has still to run, step by step
    terminal, ended, closed,    \* the stream's flags; its channels are closed
    final,          \* final_message, by its stop reason
    events,         \* the event channel
    prov,           \* where the provider stands
    retry, chunks,  \* its counters
    event,          \* the event it is pushing
    response,       \* the HTTP response: "none", "open" or "closed"
    loop,           \* where the loop stands
    answer,         \* the stop reason of the message the loop got
    child,          \* the command
    killed,         \* SIGKILL was sent to it
    timer, timedOut,    \* it has a timeout, which has fired
    outcome,        \* what the tool reports of it
    cut,            \* history: the stream was marked when its last event was accepted
    late            \* history: text was sent after the stream was marked

tokens == <<token, callbacks, marked, cancelled, closer>>
stream == <<terminal, ended, closed, final>>
provider == <<prov, retry, chunks, event>>
command == <<child, timer, timedOut, outcome>>
history == <<cut, late>>
vars == <<tokens, todo, stream, events, provider, response, loop, answer, command, killed, history>>

Stops == {"none", "stop", "toolUse", "error", "aborted"}
Event(kind, stop) == [kind |-> kind, stop |-> stop]
Events == [kind : {"start", "text", "done", "error"}, stop : Stops]
Cleanups == {"mark", "cancel", "close", "kill"}
IsTerminal(e) == e.kind \in {"done", "error"}

TypeOK ==
    /\ token \in BOOLEAN /\ marked \in BOOLEAN /\ cancelled \in BOOLEAN /\ closer \in BOOLEAN
    /\ terminal \in BOOLEAN /\ ended \in BOOLEAN /\ closed \in BOOLEAN /\ killed \in BOOLEAN
    /\ timer \in BOOLEAN /\ timedOut \in BOOLEAN /\ cut \in BOOLEAN /\ late \in BOOLEAN
    /\ callbacks \in Seq({"response", "child"})
    /\ todo \in [Actors -> Seq(Cleanups)]
    /\ final \in Stops /\ answer \in Stops
    /\ event \in Events /\ events \in Seq(Events) /\ Len(events) <= Capacity
    /\ prov \in {"idle", "begin", "send", "request", "register", "recheck", "status",
                 "errorbody", "sleep", "read", "fail", "test", "push", "end", "close", "over"}
    /\ retry \in 0..MaxRetries /\ chunks \in 0..MaxChunks
    /\ response \in {"none", "open", "closed"}
    /\ loop \in {"ask", "register", "recheck", "recv", "result", "prepare", "execute",
                 "onabort", "rekill", "wait", "reap", "report", "ended", "failed"}
    /\ child \in {"none", "runs", "zero", "nonzero", "signalled", "killed"}
    /\ outcome \in {"none", "ok", "failed", "timed_out", "aborted"}

Init ==
    /\ token = FALSE /\ callbacks = <<>>
    /\ marked = FALSE /\ cancelled = FALSE /\ closer = FALSE
    /\ todo = [a \in Actors |-> <<>>]
    /\ terminal = FALSE /\ ended = FALSE /\ closed = FALSE /\ final = "none"
    /\ events = <<>>
    /\ prov = "idle" /\ retry = 0 /\ chunks = 0 /\ event = Event("start", "none")
    /\ response = "none"
    /\ loop = "ask" /\ answer = "none"
    /\ child = "none" /\ killed = FALSE /\ timer = FALSE /\ timedOut = FALSE
    /\ outcome = "none"
    /\ cut = FALSE /\ late = FALSE

-----------------------------------------------------------------------------
(* The tokens.  A callback takes several steps; its caller waits for them.  *)

Steps(callback) == IF callback = "response" THEN <<"mark", "cancel">> ELSE <<"kill">>
StepsOf(list) ==
    CASE list = <<>>    -> <<>>
      [] Len(list) = 1  -> Steps(list[1])
      [] OTHER          -> Steps(list[1]) \o Steps(list[2])

Idle(a) == todo[a] = <<>>
Does(a, steps) == todo' = [todo EXCEPT ![a] = steps]

\* The user aborts: the token is marked and its callbacks are taken in one
\* section, and called after it.
Abort ==
    /\ ~token /\ loop \notin {"ended", "failed"}
    /\ token' = TRUE /\ callbacks' = <<>>
    /\ Does("aborter", StepsOf(callbacks))
    /\ UNCHANGED <<marked, cancelled, closer, stream, events, provider, response, loop, answer,
                   command, killed, history>>

\* on_abort: kept for later, or called at once.
OnAbort(a, callback) ==
    IF token THEN Does(a, Steps(callback)) /\ UNCHANGED callbacks
             ELSE callbacks' = Append(callbacks, callback) /\ UNCHANGED todo

\* assistant_stream_t.abort marks the stream ...
Mark(a) ==
    /\ ~Idle(a) /\ Head(todo[a]) = "mark"
    /\ marked' = TRUE
    /\ Does(a, Tail(todo[a]))
    /\ UNCHANGED <<token, callbacks, cancelled, closer, stream, events, provider, response, loop,
                   answer, command, killed, history>>

\* ... and then its token, whose callback closes the response.
Cancel(a) ==
    /\ ~Idle(a) /\ Head(todo[a]) = "cancel"
    /\ cancelled' = TRUE /\ closer' = FALSE
    /\ Does(a, (IF closer THEN <<"close">> ELSE <<>>) \o Tail(todo[a]))
    /\ UNCHANGED <<token, callbacks, marked, stream, events, provider, response, loop, answer,
                   command, killed, history>>

CloseResponse(a) ==
    /\ ~Idle(a) /\ Head(todo[a]) = "close"
    /\ response' = "closed"
    /\ Does(a, Tail(todo[a]))
    /\ UNCHANGED <<tokens, stream, events, provider, loop, answer, command, killed, history>>

TerminateProcess(a) ==
    /\ ~Idle(a) /\ Head(todo[a]) = "kill"
    /\ killed' = TRUE
    /\ Does(a, Tail(todo[a]))
    /\ UNCHANGED <<tokens, stream, events, provider, response, loop, answer, command, history>>

Callback(a) == Mark(a) \/ Cancel(a) \/ CloseResponse(a) \/ TerminateProcess(a)

-----------------------------------------------------------------------------
(* The provider: the request and its retries. *)

IsAborted == marked \/ cancelled
ProvGoes(from, to) == Idle("provider") /\ prov = from /\ prov' = to
ProviderOnly == UNCHANGED <<token, callbacks, marked, cancelled, loop, answer, command, killed>>

Begin ==
    /\ ProvGoes("begin", IF IsAborted THEN "fail" ELSE "send")
    /\ ProviderOnly /\ UNCHANGED <<closer, todo, stream, events, retry, chunks, event, response, history>>

SendWithRetry ==
    /\ ProvGoes("send", IF IsAborted THEN "fail" ELSE "request")
    /\ ProviderOnly /\ UNCHANGED <<closer, todo, stream, events, retry, chunks, event, response, history>>

\* No response: try again, unless aborted or too often.
SendFails ==
    /\ ProvGoes("request", IF IsAborted \/ retry = MaxRetries THEN "fail" ELSE "sleep")
    /\ ProviderOnly /\ UNCHANGED <<closer, todo, stream, events, retry, chunks, event, response, history>>

SendOnce ==
    /\ ProvGoes("request", "register")
    /\ response' = "open"
    /\ ProviderOnly /\ UNCHANGED <<closer, todo, stream, events, retry, chunks, event, history>>

\* on_abort of the stream's token with close_response.
RegisterCloser ==
    /\ ProvGoes("register", "recheck")
    /\ IF cancelled THEN Does("provider", <<"close">>) /\ UNCHANGED closer
                    ELSE closer' = TRUE /\ UNCHANGED todo
    /\ ProviderOnly /\ UNCHANGED <<stream, events, retry, chunks, event, response, history>>

Recheck ==
    /\ ProvGoes("recheck", IF IsAborted THEN "fail" ELSE "status")
    /\ response' = IF IsAborted THEN "closed" ELSE response
    /\ ProviderOnly /\ UNCHANGED <<closer, todo, stream, events, retry, chunks, event, history>>

\* 2xx: the start event is pushed.
StatusOK ==
    /\ ProvGoes("status", "test")
    /\ event' = Event("start", "none")
    /\ ProviderOnly /\ UNCHANGED <<closer, todo, stream, events, retry, chunks, response, history>>

StatusBad ==
    /\ ProvGoes("status", "errorbody")
    /\ ProviderOnly /\ UNCHANGED <<closer, todo, stream, events, retry, chunks, event, response, history>>

\* The body of the error was read, or cannot be.  The closer of the refused
\* response stays registered and has nothing left to close.
ErrorBody(retryable) ==
    /\ ProvGoes("errorbody", IF retryable /\ retry < MaxRetries THEN "sleep" ELSE "fail")
    /\ closer' = FALSE
    /\ ProviderOnly /\ UNCHANGED <<todo, stream, events, retry, chunks, event, response, history>>

\* The pause is cut short by an abort.
Sleep ==
    /\ ProvGoes("sleep", IF cancelled THEN "fail" ELSE "send")
    /\ retry' = IF cancelled THEN retry ELSE retry + 1
    /\ ProviderOnly /\ UNCHANGED <<closer, todo, stream, events, chunks, event, response, history>>

-----------------------------------------------------------------------------
(* The provider: the body and the end. *)

ReadText ==
    /\ response = "open" /\ chunks < MaxChunks
    /\ ProvGoes("read", "test")
    /\ chunks' = chunks + 1 /\ event' = Event("text", "none")
    /\ ProviderOnly /\ UNCHANGED <<closer, todo, stream, events, retry, response, history>>

\* message_stop arrived, or is in what was read before the response was closed.
ReadStop(stop) ==
    /\ ProvGoes("read", "test")
    /\ event' = Event("done", stop)
    /\ ProviderOnly /\ UNCHANGED <<closer, todo, stream, events, retry, chunks, response, history>>

\* A broken connection, an end before message_stop, or a closed response.
ReadFails ==
    /\ ProvGoes("read", "fail")
    /\ ProviderOnly /\ UNCHANGED <<closer, todo, stream, events, retry, chunks, event, response, history>>

Fail ==
    /\ ProvGoes("fail", "test")
    /\ event' = Event("error", IF IsAborted THEN "aborted" ELSE "error")
    /\ ProviderOnly /\ UNCHANGED <<closer, todo, stream, events, retry, chunks, response, history>>

\* Where the provider is after the push of e.
After(e) == IF IsTerminal(e) THEN "end" ELSE "read"

\* Mutant: a normal end stays one, aborted or not.
PushTestPlain ==
    /\ Idle("provider") /\ prov = "test"
    /\ IF terminal \/ ended \/ (IsAborted /\ ~IsTerminal(event))
       THEN prov' = After(event) /\ UNCHANGED <<event, terminal, final, cut>>
       ELSE /\ prov' = "push"
            /\ UNCHANGED event
            /\ IF IsTerminal(event)
               THEN terminal' = TRUE /\ final' = event.stop /\ cut' = marked
               ELSE UNCHANGED <<terminal, final, cut>>
    /\ ProviderOnly /\ UNCHANGED <<closer, todo, ended, closed, events, retry, chunks, response, late>>

\* push, under the lock: nothing after the end, no text after an abort, and a
\* normal end becomes an aborted one.
PushTest ==
    LET e == IF IsAborted /\ event.kind = "done" THEN Event("done", "aborted") ELSE event
    IN  /\ Idle("provider") /\ prov = "test"
        /\ IF terminal \/ ended \/ (IsAborted /\ ~IsTerminal(event))
           THEN prov' = After(event) /\ UNCHANGED <<event, terminal, final, cut>>
           ELSE /\ prov' = "push" /\ event' = e
                /\ IF IsTerminal(e)
                   THEN terminal' = TRUE /\ final' = e.stop /\ cut' = marked
                   ELSE UNCHANGED <<terminal, final, cut>>
        /\ ProviderOnly /\ UNCHANGED <<closer, todo, ended, closed, events, retry, chunks, response, late>>

\* push, after the lock: the send waits for room.
PushSend ==
    /\ Len(events) < Capacity
    /\ ProvGoes("push", After(event))
    /\ events' = Append(events, event)
    /\ late' = (late \/ (marked /\ ~IsTerminal(event)))
    /\ ProviderOnly /\ UNCHANGED <<closer, todo, stream, retry, chunks, event, response, cut>>

End ==
    /\ ProvGoes("end", "close")
    /\ ended' = TRUE
    /\ ProviderOnly /\ UNCHANGED <<closer, todo, terminal, closed, final, events, retry, chunks, event,
                                   response, history>>

CloseChannels ==
    /\ ProvGoes("close", "over")
    /\ closed' = TRUE
    /\ ProviderOnly /\ UNCHANGED <<closer, todo, terminal, ended, final, events, retry, chunks, event,
                                   response, history>>

\* What the provider does by itself, and what needs the network.
Provider == Begin \/ SendWithRetry \/ SendFails \/ SendOnce \/ RegisterCloser \/ Recheck
              \/ StatusOK \/ StatusBad \/ Sleep \/ Fail \/ PushTest \/ PushSend \/ End \/ CloseChannels
Network == ReadText \/ ReadFails \/ (\E stop \in {"stop", "toolUse"} : ReadStop(stop))
              \/ (\E retryable \in BOOLEAN : ErrorBody(retryable))

-----------------------------------------------------------------------------
(* The loop: the answer. *)

LoopGoes(from, to) == Idle("loop") /\ loop = from /\ loop' = to
LoopOnly == UNCHANGED <<token, marked, cancelled, closer, stream, retry, chunks, event, response,
                        killed, history>>

Ask ==
    /\ LoopGoes("ask", "register")
    /\ prov' = "begin"
    /\ LoopOnly /\ UNCHANGED <<callbacks, todo, events, answer, command>>

\* Mutant: the loop looks at the token and does not register.
RegisterNothing ==
    /\ LoopGoes("register", "recheck")
    /\ LoopOnly /\ UNCHANGED <<callbacks, todo, events, prov, answer, command>>

Register ==
    /\ LoopGoes("register", "recheck")
    /\ OnAbort("loop", "response")
    /\ LoopOnly /\ UNCHANGED <<events, prov, answer, command>>

RecheckToken ==
    /\ LoopGoes("recheck", "recv")
    /\ IF token THEN Does("loop", Steps("response")) ELSE UNCHANGED todo
    /\ LoopOnly /\ UNCHANGED <<callbacks, events, prov, answer, command>>

\* Start and text are shown, and the last event ends the reading.  The loop also
\* stops at a closed channel, but the provider sends a last event before it
\* closes the channel, whatever happens.
Recv ==
    /\ events # <<>>
    /\ LoopGoes("recv", IF IsTerminal(Head(events)) THEN "result" ELSE "recv")
    /\ events' = Tail(events)
    /\ LoopOnly /\ UNCHANGED <<callbacks, todo, prov, answer, command>>

\* result() waits for end(), and throws when there was no last event.
Result ==
    /\ ended
    /\ LoopGoes("result", IF ~terminal THEN "failed"
                          ELSE IF final = "toolUse" THEN "prepare" ELSE "ended")
    /\ answer' = final
    /\ LoopOnly /\ UNCHANGED <<callbacks, todo, events, prov, command>>

-----------------------------------------------------------------------------
(* The loop: the command. *)

\* prepare_call looks at the token once more, and so does the tool.
Prepare ==
    /\ LoopGoes("prepare", IF token THEN "ended" ELSE "execute")
    /\ LoopOnly /\ UNCHANGED <<callbacks, todo, events, prov, answer, command>>

Execute(timed) ==
    /\ ~token /\ LoopGoes("execute", "onabort")
    /\ child' = "runs" /\ timer' = timed
    /\ LoopOnly /\ UNCHANGED <<callbacks, todo, events, prov, answer, timedOut, outcome>>

\* Aborted, or bad arguments, or no process.
ExecuteFails ==
    /\ LoopGoes("execute", "ended")
    /\ LoopOnly /\ UNCHANGED <<callbacks, todo, events, prov, answer, command>>

OnAbortKill ==
    /\ LoopGoes("onabort", "rekill")
    /\ OnAbort("loop", "child")
    /\ LoopOnly /\ UNCHANGED <<events, prov, answer, command>>

RecheckKill ==
    /\ LoopGoes("rekill", "wait")
    /\ IF token THEN Does("loop", <<"kill">>) ELSE UNCHANGED todo
    /\ LoopOnly /\ UNCHANGED <<callbacks, events, prov, answer, command>>

Finished ==
    /\ child # "runs"
    /\ LoopGoes("wait", "report") \/ LoopGoes("reap", "report")
    /\ LoopOnly /\ UNCHANGED <<callbacks, todo, events, prov, answer, command>>

TimesOut ==
    /\ timer /\ LoopGoes("wait", "reap")
    /\ timedOut' = TRUE
    /\ Does("loop", <<"kill">>)
    /\ LoopOnly /\ UNCHANGED <<callbacks, events, prov, answer, child, timer, outcome>>

\* Mutant: the tool does not look whether the command was aborted.
OutcomeOfExit ==
    CASE timedOut            -> "timed_out"
      [] child = "nonzero"   -> "failed"
      [] OTHER               -> "ok"

\* A process that a signal ended has exit code 0, and term_sig is looked at only
\* beside another exit code.
Outcome ==
    CASE token                          -> "aborted"
      [] ~token /\ timedOut             -> "timed_out"
      [] ~token /\ ~timedOut /\ child = "nonzero" -> "failed"
      [] OTHER                          -> "ok"

Report ==
    /\ LoopGoes("report", "ended")
    /\ outcome' = Outcome
    /\ LoopOnly /\ UNCHANGED <<callbacks, todo, events, prov, answer, child, timer, timedOut>>

Loop == Ask \/ Register \/ RecheckToken \/ Recv \/ Result \/ Prepare
          \/ (\E timed \in BOOLEAN : Execute(timed)) \/ ExecuteFails \/ OnAbortKill \/ RecheckKill
          \/ Finished \/ TimesOut \/ Report

\* The command exits, or a signal that the tool has not sent ends it (it crashed,
\* or somebody else has killed it) ...
ChildExits ==
    /\ child = "runs" /\ child' \in {"zero", "nonzero", "signalled"}
    /\ UNCHANGED <<tokens, todo, stream, events, provider, response, loop, answer, killed,
                   timer, timedOut, outcome, history>>

\* ... or the tool's own SIGKILL.
ChildKilled ==
    /\ child = "runs" /\ killed /\ child' = "killed"
    /\ UNCHANGED <<tokens, todo, stream, events, provider, response, loop, answer, killed,
                   timer, timedOut, outcome, history>>

-----------------------------------------------------------------------------
Next ==
    \/ Abort \/ \E a \in Actors : Callback(a)
    \/ Provider \/ Network
    \/ Loop \/ ChildExits \/ ChildKilled

Spec == Init /\ [][Next]_vars

\* The coroutines go on, a closed response wakes its reader, SIGKILL works.
\* Nothing is asked of an open connection or of the command.
FairSpec ==
    /\ Spec
    /\ \A a \in Actors : WF_vars(Callback(a))
    /\ WF_vars(Provider) /\ WF_vars(Loop)
    /\ WF_vars(response = "closed" /\ Network)
    /\ WF_vars(ChildKilled)

-----------------------------------------------------------------------------
(* What the session relies on. *)

\* An abort ends the turn wherever it falls: before the provider has started,
\* during the request, the pause or the body, between the start of the command
\* and the registration of its killer; and it leaves no command running.
AbortEnds == token ~> (loop = "ended" /\ child # "runs" /\ prov = "over")

\* What is reported of a command agrees with how it ended, though the exit, the
\* timeout and the abort race and the exit code alone does not tell: a command
\* that the tool has killed, for an abort or a timeout, is reported so and never
\* as done or failed; one reported as failed ended with a status of its own; and
\* one reported as done ended with status 0 or by a signal of somebody else.
CommandTruth ==
    /\ child = "killed" => outcome \in {"none", "timed_out", "aborted"}
    /\ outcome = "failed" => child = "nonzero"
    /\ outcome = "ok" => child \in {"zero", "signalled"}

\* The branch for a signal in bash_executor_t.execute ("Command exited with code
\* %d (signal %d)") supposes that such a command does not count as done.  It
\* does: its exit code is 0, and the branch is not reached.
DoneMeansExited == outcome = "ok" => child = "zero"

\* An answer accepted after the abort has reached the stream is not taken for
\* a complete one, whatever the provider still had in its buffer: the loop
\* neither goes on nor calls its tools.
CutTurnEnds == cut => (answer \in {"none", "aborted", "error"} /\ child = "none")

\* "once abort wins, that frame must not resurrect a live assistant turn or
\* append more text to the TUI" (event_stream.n): no text is put on the channel
\* once abort() has marked the stream.
NoLateText == ~late
=============================================================================
