----------------------------- MODULE AgentLoop -----------------------------
(***************************************************************************)
(* One run of the agent loop (run_prompt and run_loop of src/agent/loop.n):*)
(* queued messages are delivered, the model is asked, the tools it calls   *)
(* are run one after another or in parallel, their results are persisted   *)
(* and put into the context, and the model is asked again.  The queue is   *)
(* that of MessageQueue, and its client and forwarder run beside the loop. *)
(*                                                                         *)
(* The hooks before_tool_call, after_tool_call, prepare_next_turn and      *)
(* should_stop_after_turn are never set in the repository and are absent.  *)
(* A model's answer is its number, its stop reason and how many tools it   *)
(* calls; "stop" is any reason but error, aborted and length.              *)
(***************************************************************************)
EXTENDS MessageQueue

CONSTANTS
    MaxTurns,       \* bound: after so many answers the model only fails
    MaxCalls        \* bound: tool calls of one answer

ASSUME LoopAssumption == MaxTurns \in Nat /\ MaxCalls \in Nat

VARIABLES
    pc,
    context,        \* state.context.messages
    log,            \* what message_end_listener persisted
    answers,        \* the model's answers
    mode,           \* how the calls of the last one are executed
    calls,          \* their states
    next,           \* the loop index i
    finalized,      \* how many calls have an outcome in the vector finalized
    completions,    \* the channel of execute_parallel
    terminating,    \* calls whose result says terminate
    more,           \* has_more_tool_calls
    aborted,        \* the stream's cancellation
    closed          \* history: answers whose batch terminated

batch == <<mode, calls, next, finalized, completions, terminating>>
lvars == <<pc, context, log, answers, batch, more, aborted, closed>>
vars == <<qvars, lvars>>

User(m) == [role |-> "user", of |-> m]
Partial == [role |-> "partial", of |-> <<0, 0>>]
Assistant(t) == [role |-> "assistant", of |-> <<t, 0>>]
Result(t, i) == [role |-> "result", of |-> <<t, i>>]

turn == Len(answers)
Stopped == {"ended", "failed"}

\* run_prompt has put the prompt into the context and sent its message_start.
Init ==
    /\ QInit
    /\ pc = "start"
    /\ context = <<User(Prompt)>> /\ log = <<>>
    /\ answers = <<>> /\ more = TRUE
    /\ mode = "none" /\ calls = <<>> /\ next = 1 /\ finalized = 0
    /\ completions = <<>> /\ terminating = {}
    /\ aborted = FALSE /\ closed = {}

----------------------------------------------------------------------------
(* Between the answers *)

\* The prompt's message_end.
RunPrompt ==
    /\ pc = "start"
    /\ log' = Append(log, User(Prompt))
    /\ pc' = "steer"
    /\ UNCHANGED <<qvars, context, answers, batch, more, aborted, closed>>

\* Mutant: the follow-ups are drained after each turn.
DrainSteeringAndFollowUps ==
    /\ pc = "steer"
    /\ IF steering # <<>> THEN drain_steering ELSE drain_follow_up
    /\ pc' = IF more \/ pending' # <<>> THEN "deliver" ELSE "follow_up"
    /\ UNCHANGED <<context, log, answers, batch, more, aborted, closed>>

\* The steering queue is drained before the first turn and after each one.
DrainSteering ==
    /\ pc = "steer"
    /\ drain_steering
    /\ pc' = IF more \/ pending' # <<>> THEN "deliver" ELSE "follow_up"
    /\ UNCHANGED <<context, log, answers, batch, more, aborted, closed>>

\* The follow-ups are drained when there is nothing else to do.
DrainFollowUp ==
    /\ pc = "follow_up"
    /\ drain_follow_up
    /\ pc' = IF pending' # <<>> THEN "deliver" ELSE "ended"
    /\ more' = TRUE
    /\ UNCHANGED <<context, log, answers, batch, aborted, closed>>

\* Mutant: a queued message is sent and persisted but not put into the context.
DeliverNotInContext ==
    /\ pc = "deliver"
    /\ Announce
    /\ log' = Append(log, User(Head(pending)))
    /\ UNCHANGED <<pc, context, answers, batch, more, aborted, closed>>

\* The next pending message: message_start, message_end and the context.
Deliver ==
    /\ pc = "deliver"
    /\ Announce
    /\ log' = Append(log, User(Head(pending)))
    /\ context' = Append(context, User(Head(pending)))
    /\ UNCHANGED <<pc, answers, batch, more, aborted, closed>>

\* Its message_end cannot be persisted.
DeliverFails ==
    /\ pc = "deliver"
    /\ Announce
    /\ pc' = "failed"
    /\ UNCHANGED <<context, log, answers, batch, more, aborted, closed>>

----------------------------------------------------------------------------
(* The answer *)

\* stream_assistant calls the provider.
Ask ==
    /\ pc = "deliver" /\ pending = <<>>
    /\ pc' = "ask"
    /\ UNCHANGED <<qvars, context, log, answers, batch, more, aborted, closed>>

\* The first partial message goes into the context.
StreamStarts ==
    /\ pc = "ask"
    /\ context' = Append(context, Partial)
    /\ pc' = "stream"
    /\ UNCHANGED <<qvars, log, answers, batch, more, aborted, closed>>

\* The final message replaces the partial one, is persisted, and its calls are
\* looked at unless it is an error or was aborted.
StreamEnds(stop, n, m) ==
    /\ pc \in {"ask", "stream"}
    /\ stop = "aborted" => aborted
    /\ turn < MaxTurns \/ stop \in {"error", "aborted"}
    /\ context' = Append(IF pc = "stream" THEN Front(context) ELSE context,
                         Assistant(turn + 1))
    /\ log' = Append(log, Assistant(turn + 1))
    /\ answers' = Append(answers, [stop |-> stop, calls |-> n])
    /\ more' = FALSE
    /\ calls' = [i \in 1..n |-> "new"]
    /\ mode' = IF stop = "length" THEN "none" ELSE m
    /\ next' = 1 /\ finalized' = 0 /\ completions' = <<>> /\ terminating' = {}
    /\ pc' = IF stop \in {"error", "aborted"} THEN "ended"
             ELSE IF n = 0 THEN "turn_end"
             ELSE IF stop = "length" THEN "truncated" ELSE "prepare"
    /\ UNCHANGED <<qvars, aborted, closed>>

\* Any answer, its calls sequential or parallel (execute_calls).
Answered ==
    \E stop \in {"stop", "length", "error", "aborted"}, n \in 0..MaxCalls,
       m \in {"sequential", "parallel"} : StreamEnds(stop, n, m)

----------------------------------------------------------------------------
(* The tools *)

\* fail_truncated_calls: the calls of an answer that was cut off are not executed.
TruncatedResult ==
    /\ pc = "truncated"
    /\ log' = Append(log, Result(turn, next))
    /\ calls' = [calls EXCEPT ![next] = "ended"]
    /\ finalized' = next
    /\ IF next < Len(calls) THEN next' = next + 1 /\ UNCHANGED pc
                            ELSE next' = 1 /\ pc' = "collect"
    /\ UNCHANGED <<qvars, context, answers, mode, completions, terminating, more, aborted,
                   closed>>

\* prepare_call: the call fails at once when the tool or its arguments are not
\* valid or the run is aborted.
Prepare(i, state) ==
    /\ pc = "prepare" /\ i = next
    /\ aborted => state = "failed"
    /\ calls' = [calls EXCEPT ![i] =
         IF state = "ready" /\ mode = "sequential" THEN "running" ELSE state]
    /\ IF mode = "parallel" THEN pc' = "check" /\ finalized' = i
                            ELSE pc' = "record" /\ UNCHANGED finalized
    /\ UNCHANGED <<qvars, context, log, answers, mode, next, completions, terminating,
                   more, aborted, closed>>

\* A sequential call has its result persisted before the next one.
Record ==
    /\ pc = "record" /\ calls[next] \in {"failed", "returned"}
    /\ log' = Append(log, Result(turn, next))
    /\ calls' = [calls EXCEPT ![next] = "ended"]
    /\ finalized' = next
    /\ pc' = "check"
    /\ UNCHANGED <<qvars, context, answers, mode, next, completions, terminating, more,
                   aborted, closed>>

\* The end of the for loop's body: an abort leaves it early.
Check ==
    /\ pc = "check"
    /\ IF next < Len(calls) /\ ~aborted
         THEN next' = next + 1 /\ pc' = "prepare"
         ELSE next' = 1 /\ pc' = IF mode = "parallel" THEN "launch" ELSE "collect"
    /\ UNCHANGED <<qvars, context, log, answers, mode, calls, finalized, completions,
                   terminating, more, aborted, closed>>

\* execute_parallel starts a coroutine for each call that is ready.
Launch ==
    /\ pc = "launch"
    /\ calls' = [i \in DOMAIN calls |-> IF calls[i] = "ready" THEN "running" ELSE calls[i]]
    /\ pc' = "wait"
    /\ UNCHANGED <<qvars, context, log, answers, mode, next, finalized, completions,
                   terminating, more, aborted, closed>>

\* A tool returns or throws, and its result may ask the loop to terminate.
ToolReturns(i, terminate) ==
    /\ i \in DOMAIN calls /\ calls[i] = "running"
    /\ calls' = [calls EXCEPT ![i] = "returned"]
    /\ completions' = IF mode = "parallel" THEN Append(completions, i) ELSE completions
    /\ terminating' = IF terminate THEN terminating \cup {i} ELSE terminating
    /\ UNCHANGED <<qvars, pc, context, log, answers, mode, next, finalized, more, aborted,
                   closed>>

\* The next completion: its tool_execution_end.
Receive ==
    /\ pc = "wait" /\ completions # <<>>
    /\ calls' = [calls EXCEPT ![Head(completions)] = "ended"]
    /\ completions' = Tail(completions)
    /\ UNCHANGED <<qvars, pc, context, log, answers, mode, next, finalized, terminating, more,
                   aborted, closed>>

\* All that were launched have been received.
Received ==
    /\ pc = "wait"
    /\ \A i \in DOMAIN calls : calls[i] \notin {"running", "returned"}
    /\ pc' = "results"
    /\ UNCHANGED <<qvars, context, log, answers, batch, more, aborted, closed>>

\* Mutant: the results are persisted in the order the calls were completed in.
ParallelResultAnyOrder ==
    /\ pc = "results"
    /\ \E i \in 1..finalized :
         /\ Result(turn, i) \notin ToSet(log)
         /\ log' = Append(log, Result(turn, i))
    /\ IF next < finalized THEN next' = next + 1 /\ UNCHANGED pc
                           ELSE next' = 1 /\ pc' = "collect"
    /\ UNCHANGED <<qvars, context, answers, mode, calls, finalized, completions,
                   terminating, more, aborted, closed>>

\* The results of parallel calls are persisted in the order of the calls.
ParallelResult ==
    /\ pc = "results"
    /\ log' = Append(log, Result(turn, next))
    /\ IF next < finalized THEN next' = next + 1 /\ UNCHANGED pc
                           ELSE next' = 1 /\ pc' = "collect"
    /\ UNCHANGED <<qvars, context, answers, mode, calls, finalized, completions,
                   terminating, more, aborted, closed>>

\* should_terminate
should_terminate == finalized > 0 /\ 1..finalized \subseteq terminating

\* The results go into the context.
Collect ==
    /\ pc = "collect"
    /\ context' = context \o [k \in 1..finalized |-> Result(turn, k)]
    /\ more' = ~should_terminate
    /\ closed' = IF should_terminate THEN closed \cup {turn} ELSE closed
    /\ pc' = "turn_end"
    /\ UNCHANGED <<qvars, log, answers, batch, aborted>>

\* Mutant: an aborted run goes on.
TurnEndIgnoresAbort ==
    /\ pc = "turn_end"
    /\ pc' = "steer"
    /\ UNCHANGED <<qvars, context, log, answers, batch, more, aborted, closed>>

TurnEnd ==
    /\ pc = "turn_end"
    /\ pc' = IF aborted THEN "ended" ELSE "steer"
    /\ UNCHANGED <<qvars, context, log, answers, batch, more, aborted, closed>>

----------------------------------------------------------------------------
(* Abort and failure *)

Abort ==
    /\ ~aborted /\ pc \notin Stopped
    /\ aborted' = TRUE
    /\ UNCHANGED <<qvars, pc, context, log, answers, batch, more, closed>>

\* The provider cannot be called, or a message_end cannot be persisted: the
\* error leaves run_loop, and run_prompt fails the stream.
LoopFails ==
    /\ \/ pc \in {"start", "ask", "stream", "truncated", "results"}
       \/ pc = "record" /\ calls[next] \in {"failed", "returned"}
    /\ pc' = "failed"
    /\ UNCHANGED <<qvars, context, log, answers, batch, more, aborted, closed>>

Step ==
    \/ RunPrompt \/ DrainSteering \/ DrainFollowUp \/ Deliver \/ DeliverFails
    \/ Ask
    \/ \E i \in 1..MaxCalls, state \in {"ready", "failed"} : Prepare(i, state)
    \/ TruncatedResult \/ Record \/ Check \/ Launch \/ Receive \/ Received \/ ParallelResult
    \/ Collect \/ TurnEnd

Tools == \E i \in 1..MaxCalls, terminate \in BOOLEAN : ToolReturns(i, terminate)

Others == (Client \/ Forwarder) /\ UNCHANGED lvars

\* The run is over; in any other state where nothing can happen it is stuck.
Over == pc \in Stopped /\ UNCHANGED vars

Next == Step \/ StreamStarts \/ Answered \/ Tools \/ LoopFails \/ Abort \/ Others \/ Over

Spec == Init /\ [][Next]_vars

----------------------------------------------------------------------------
(* Properties *)

Entries ==
    {User(m) : m \in Msgs} \cup {Partial}
    \cup {[role |-> r, of |-> <<t, i>>] :
            r \in {"assistant", "result"}, t \in 1..MaxTurns + 1, i \in 0..MaxCalls}

\* The loop's variables have their types.
TypeOK ==
    /\ QTypeOK
    /\ pc \in {"start", "steer", "follow_up", "deliver", "ask", "stream", "truncated", "prepare",
               "record", "check", "launch", "wait", "results", "collect", "turn_end"}
              \cup Stopped
    /\ {context, log} \subseteq Seq(Entries)
    /\ answers \in Seq([stop : {"stop", "length", "error", "aborted"}, calls : 0..MaxCalls])
    /\ mode \in {"none", "sequential", "parallel"}
    /\ calls \in Seq({"new", "failed", "ready", "running", "returned", "ended"})
    /\ next \in 1..Len(calls) \cup {1}
    /\ finalized \in 0..Len(calls)
    /\ completions \in Seq(DOMAIN calls) /\ terminating \subseteq DOMAIN calls
    /\ more \in BOOLEAN /\ aborted \in BOOLEAN
    /\ closed \subseteq 1..turn

\* The model is asked about exactly what the session file holds: the context
\* and the log, filled at different places of run_loop, stream_assistant and
\* execute_*, agree on messages and order whenever a request is sent.
RequestIsPersisted == pc = "ask" => context = log

\* A request never has an answer without all of its results right behind it
\* (an abort leaves execute_sequential and execute_parallel in the middle of
\* the calls), a failed answer in it, or an answer at its end.
RequestIsComplete ==
    pc = "ask" =>
      /\ Last(context).role # "assistant"
      /\ \A k \in DOMAIN context : \A t \in 1..turn :
           context[k] = Assistant(t) =>
             /\ answers[t].stop \notin {"error", "aborted"}
             /\ Len(context) >= k + answers[t].calls
             /\ \A i \in 1..answers[t].calls : context[k + i] = Result(t, i)

\* However the run ends, what is persisted of a turn's results is the first few
\* of them in the order of the calls, right behind the answer.
ResultsInOrder ==
    \A k \in DOMAIN log : log[k].role = "result" =>
        LET t == log[k].of[1]
            i == log[k].of[2]
        IN k > i /\ log[k - i] = Assistant(t)

\* A follow-up comes only where the agent would have stopped: behind an answer
\* without calls or with calls that all asked to terminate.
FollowUpsWhenDone ==
    \A k \in DOMAIN log :
      (log[k].role = "user" /\ log[k].of \in ToSet(followed)) =>
        /\ k > 1
        /\ LET e == log[k - 1]
           IN \/ e.role = "user" /\ e.of \in ToSet(followed)
              \/ e.role # "user" /\ (answers[e.of[1]].calls = 0 \/ e.of[1] \in closed)

\* No tool outlives its turn: when the loop goes on or ends, no coroutine of
\* execute_parallel still runs.
ToolsJoined ==
    pc \notin {"record", "wait"} => \A i \in DOMAIN calls : calls[i] # "running"

\* Parallel calls leave no trace of their order: all are joined, and their
\* results are persisted in the order of the calls.
ToolsInOrder == ToolsJoined /\ ResultsInOrder
============================================================================
