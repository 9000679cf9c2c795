----------------------------- MODULE PromptRun -----------------------------
(***************************************************************************)
(* The prompts of one session, one after the other (src/agent/session.n    *)
(* run_prompt, run_prompt_inner, run_compaction): each runs the agent, and *)
(* retries it after transient errors, compacts the context when it has     *)
(* outgrown the model, or both, while the user may abort the prompt or its *)
(* retry at any moment.                                                    *)
(*                                                                         *)
(* A message is its position in `log`, the session's append-only branch,   *)
(* and its kind.                                                           *)
(* Tokens are abstracted: whether a threshold is passed, where a           *)
(* compaction may cut and whether the model was switched meanwhile         *)
(* (set_model works during a run) are free choices.                        *)
(***************************************************************************)
EXTENDS Naturals, Sequences, FiniteSets, SequencesExt, Selection

CONSTANTS
    AutoCompact,        \* compaction_settings.enabled
    RetryEnabled,       \* retry_enabled
    MaxAttempts,        \* retry_max_attempts
    Histories,          \* logs the session may be opened with
    MaxPrompts,         \* bound: operations of the session
    MaxToolRounds       \* bound: tool rounds of one prompt

ASSUME PromptRunAssumption ==
    /\ AutoCompact \in BOOLEAN /\ RetryEnabled \in BOOLEAN
    /\ MaxAttempts \in Nat /\ MaxPrompts \in Nat /\ MaxToolRounds \in Nat

VARIABLES
    log,            \* the entries of the repository, oldest first
    active,         \* active_messages: messages of the log, and a compaction's summary
    applied,        \* history: the compaction in the log that active was last built from
    pos,            \* where the prompt coroutine stands
    job,            \* the compaction under way
    attempt,        \* retry_attempt
    recovered,      \* overflow_recovery_attempted
    compacting,     \* runner_t.compacting
    cancelled,      \* output.cancellation is aborted
    token,          \* the cancellation of the agent stream or the summary
    callback,       \* abort() has still to call the callback of that token
    retry,          \* active_retry_abort
    events,         \* the lifecycle events of this prompt
    prompts, rounds \* prompts started, tool rounds of this one

convo == <<log, active, applied>>
abortion == <<cancelled, token, callback, retry>>
counters == <<prompts, rounds>>
vars == <<convo, pos, job, attempt, recovered, compacting, abortion, events,
          counters>>

----------------------------------------------------------------------------
(* Messages *)

StopError == {"err", "fatal", "toolong"}        \* STOP_ERROR
Overflow == {"over", "length", "toolong"}       \* is_context_overflow
Final == {"ok", "aborted"} \cup StopError \cup Overflow
Assistant == Final \cup {"call"}
Message == Assistant \cup {"user", "tool"}

Entry(k) == [kind |-> k, kept |-> 0]
Summary == [at |-> 0, kind |-> "summary"]
LastKind == IF active = <<>> THEN "none" ELSE Last(active).kind

\* Every entry has a kind, and a compaction keeps entries before it.
WellFormed(l) ==
    \A i \in DOMAIN l : l[i] \in [kind : Message \cup {"compaction"}, kept : 0 .. i - 1]

ASSUME HistoriesAssumption ==
    \A l \in Histories :
        l \in Seq([kind : Message \cup {"compaction"}, kept : Nat]) /\ WellFormed(l)

\* append_message and append_active_message, from the message_end listener.
AppendMessages(kinds) ==
    /\ log' = log \o [i \in DOMAIN kinds |-> Entry(kinds[i])]
    /\ active' = active \o [i \in DOMAIN kinds |-> [at |-> Len(log) + i, kind |-> kinds[i]]]
    /\ UNCHANGED applied

\* The newest position in l of an entry whose kind is in K, 0 without one.
LastOf(l, K) == SelectLastInSubSeq(l, 1, Len(l), LAMBDA e : e.kind \in K)

\* last_assistant_message
LastAssistant ==
    LET s == SelectSeq(active, LAMBDA m : m.kind \in Assistant)
    IN IF s = <<>> THEN Summary ELSE Last(s)

\* should_threshold_compact, true or false as the tokens have it, but never
\* for an assistant message that is older than the latest compaction.
MayPassThreshold ==
    AutoCompact /\ LastAssistant.at > LastOf(log, {"compaction"})

----------------------------------------------------------------------------
(* Compaction: what it keeps and how the context is rebuilt from the log *)

\* entry_messages of the entries from .. to
AsMessages(l) == [p \in DOMAIN l |-> [at |-> p, kind |-> l[p].kind]]
Messages(l, from, to) ==
    Select(AsMessages(l), {p \in DOMAIN l : p \in from .. to /\ l[p].kind \in Message})

\* The context after the compaction c of l: the summary, the retained tail
\* stored with it, the entries it kept, and those that came after it.
ContextFrom(l, c) ==
    LET kept == Messages(l, l[c].kept, c - 1)
    IN IF c = 0 THEN Messages(l, 1, Len(l))
                ELSE <<Summary>> \o kept \o kept \o Messages(l, c + 1, Len(l))

\* build_context goes by the latest compaction.
BuildContext(l) == ContextFrom(l, LastOf(l, {"compaction"}))

\* prepare: a compaction starts from what the previous one kept, and may keep
\* the entries from any message on that is no tool result, if that leaves a
\* message to summarise.
Cuts ==
    LET c == LastOf(log, {"compaction"})
        start == IF c = 0 THEN 1 ELSE log[c].kept
    IN IF log = <<>> \/ c = Len(log) THEN {}
       ELSE {i \in start + 1 .. Len(log) : log[i].kind \in Message \ {"tool"}}

----------------------------------------------------------------------------
NoJob == [reason |-> "none", will_retry |-> FALSE, pre |-> FALSE]

Init ==
    /\ log \in Histories /\ active = BuildContext(log)
    /\ applied = LastOf(log, {"compaction"})
    /\ pos = "returned" /\ job = NoJob
    /\ attempt = 0 /\ recovered = FALSE /\ compacting = FALSE
    /\ cancelled = FALSE /\ token = "none" /\ callback = FALSE /\ retry = "none"
    /\ events = <<>>
    /\ prompts = 0 /\ rounds = 0

Emit(es) == events' = events \o es

\* Mutant: a callback registered after the abort is only queued.
RegisterLate ==
    /\ token' = "open"
    /\ callback' = FALSE
    /\ UNCHANGED <<cancelled, retry>>

\* on_abort on a cancellation that is already aborted calls back at once.
Register ==
    /\ token' = IF cancelled THEN "aborted" ELSE "open"
    /\ callback' = FALSE
    /\ UNCHANGED <<cancelled, retry>>

\* A fresh session stream, and the coroutine that serves it.
StartOperation(p, j) ==
    /\ pos \in {"returned", "failed"}
    /\ prompts < MaxPrompts
    /\ prompts' = prompts + 1 /\ rounds' = 0
    /\ pos' = p /\ job' = j
    /\ attempt' = 0 /\ recovered' = FALSE
    /\ cancelled' = FALSE /\ token' = "none" /\ callback' = FALSE
    /\ retry' = "none" /\ events' = <<>>
    /\ UNCHANGED <<convo, compacting>>

StartPrompt == StartOperation("pre", NoJob)

CompactNow ==
    StartOperation("compact", [reason |-> "manual", will_retry |-> FALSE, pre |-> FALSE])

----------------------------------------------------------------------------
(* run_compaction *)

\* What becomes of the caller when run_compaction returns `done`.
ReturnPos(done) ==
    IF job.pre THEN "start"
    ELSE IF job.reason = "manual" THEN "finish"
    ELSE IF done /\ job.will_retry THEN "continue"
    ELSE "settle"

CompactionBegins ==
    /\ pos = "compact"
    /\ compacting' = TRUE
    /\ pos' = "prepare"
    /\ UNCHANGED <<convo, job, attempt, recovered, abortion, events, counters>>

\* An error of the repository: caught before a prompt, thrown after a turn.
ThrowCompaction ==
    /\ pos' = IF job.pre THEN "start" ELSE "threw"
    /\ Emit(IF job.pre THEN <<"compaction_end">> ELSE <<>>)
    /\ UNCHANGED <<job, attempt, recovered, compacting, abortion, counters>>

\* The log could not be read, or the compaction not be appended.
CompactionThrows ==
    /\ pos \in {"prepare", "append"}
    /\ ThrowCompaction
    /\ UNCHANGED convo

StoreCompaction(cut) == log' = Append(log, [kind |-> "compaction", kept |-> cut])

\* The compaction is in the log, but the context could not be built from it:
\* the session goes on with the one it had.
RebuildThrows ==
    /\ pos = "append"
    /\ \E cut \in Cuts : StoreCompaction(cut)
    /\ ThrowCompaction
    /\ UNCHANGED <<active, applied>>

NothingToCompact ==
    /\ pos = "prepare"
    /\ compacting' = FALSE
    /\ pos' = ReturnPos(FALSE)
    /\ Emit(IF job.reason = "manual" THEN <<"compaction_end">> ELSE <<>>)
    /\ UNCHANGED <<convo, job, attempt, recovered, abortion, counters>>

PrepareFinds ==
    /\ pos = "prepare"
    /\ Cuts # {}
    /\ Register
    /\ pos' = "summarize"
    /\ Emit(<<"compaction_start">>)
    /\ UNCHANGED <<convo, job, attempt, recovered, compacting, counters>>

\* The summary request failed or was cancelled.
SummaryFails ==
    /\ pos = "summarize"
    /\ compacting' = FALSE
    /\ pos' = ReturnPos(FALSE)
    /\ Emit(<<"compaction_end">>)
    /\ UNCHANGED <<convo, job, attempt, recovered, abortion, counters>>

SummaryArrives ==
    /\ pos = "summarize"
    /\ pos' = "append"
    /\ UNCHANGED <<convo, job, attempt, recovered, compacting, abortion, events,
                   counters>>

\* Mutant: any trailing answer is taken off before a retry.
AppendCompactionDropsAnswer ==
    /\ pos = "append"
    /\ \E cut \in Cuts : StoreCompaction(cut)
    /\ LET ctx == BuildContext(log')
           error == Last(ctx).kind \in Assistant
       IN active' = IF job.will_retry /\ error THEN Front(ctx) ELSE ctx
    /\ applied' = Len(log')
    /\ compacting' = FALSE
    /\ pos' = ReturnPos(TRUE)
    /\ Emit(<<"compaction_end">>)
    /\ UNCHANGED <<job, attempt, recovered, abortion, counters>>

\* append_compaction, and the context rebuilt from the log; before a retry a
\* trailing error is taken off it.
AppendCompaction ==
    /\ pos = "append"
    /\ \E cut \in Cuts : StoreCompaction(cut)
    /\ LET ctx == BuildContext(log')
           error == Last(ctx).kind \in StopError
       IN active' = IF job.will_retry /\ error THEN Front(ctx) ELSE ctx
    /\ applied' = Len(log')
    /\ compacting' = FALSE
    /\ pos' = ReturnPos(TRUE)
    /\ Emit(<<"compaction_end">>)
    /\ UNCHANGED <<job, attempt, recovered, abortion, counters>>

----------------------------------------------------------------------------
(* Before the turn *)

Compact(reason, will_retry, pre) ==
    /\ pos' = "compact"
    /\ job' = [reason |-> reason, will_retry |-> will_retry, pre |-> pre]

\* The previous answer had outgrown the context, or its threshold.
PreCompacts ==
    /\ pos = "pre"
    /\ LastAssistant # Summary
    /\ \/ /\ AutoCompact /\ LastAssistant.kind \in Overflow
          /\ Compact("overflow", LastAssistant.kind # "over", TRUE)
       \/ /\ MayPassThreshold
          /\ Compact("threshold", FALSE, TRUE)
    /\ UNCHANGED <<convo, attempt, recovered, compacting, abortion, events, counters>>

\* should_threshold_compact could not read the log.
PreThrows ==
    /\ pos = "pre"
    /\ AutoCompact /\ LastAssistant # Summary
    /\ pos' = "threw"
    /\ UNCHANGED <<convo, job, attempt, recovered, compacting, abortion, events,
                   counters>>

PreSkips ==
    /\ pos = "pre"
    /\ pos' = "start"
    /\ UNCHANGED <<convo, job, attempt, recovered, compacting, abortion, events,
                   counters>>

\* loop.prompt, and forward_agent_stream's callback.
StartAgent ==
    /\ pos = "start"
    /\ Register
    /\ pos' = "prompted"
    /\ UNCHANGED <<convo, job, attempt, recovered, compacting, events, counters>>

----------------------------------------------------------------------------
(* The agent's run, as the session sees it *)

AgentTakesPrompt ==
    /\ pos = "prompted"
    /\ AppendMessages(<<"user">>)
    /\ pos' = "agent"
    /\ UNCHANGED <<job, attempt, recovered, compacting, abortion, events, counters>>

AgentUsesTools ==
    /\ pos = "agent"
    /\ rounds < MaxToolRounds
    /\ rounds' = rounds + 1
    /\ AppendMessages(<<"call", "tool">>)
    /\ UNCHANGED <<pos, job, attempt, recovered, compacting, abortion, events,
                   prompts>>

\* Mutant: the last failure is announced as retried, too.
WillRetryOneMore(k) == RetryEnabled /\ attempt <= MaxAttempts /\ k = "err"

\* will_retry_after_agent_end
WillRetry(k) == RetryEnabled /\ attempt < MaxAttempts /\ k = "err"

AgentEnd(k) == Emit(<<IF WillRetry(k) THEN "agent_end_will_retry" ELSE "agent_end">>)

\* The last answer; "aborted" answers an abort.
AgentAnswers ==
    /\ pos = "agent"
    /\ \E k \in Final :
         /\ k = "aborted" => token = "aborted"
         /\ AppendMessages(<<k>>)
         /\ AgentEnd(k)
    /\ pos' = "decide"
    /\ UNCHANGED <<job, attempt, recovered, compacting, abortion, counters>>

\* An abort seen after a tool round ends the run without another answer.
AgentStopsAfterTools ==
    /\ pos = "agent"
    /\ token = "aborted"
    /\ LastKind = "tool"
    /\ AgentEnd("call")
    /\ pos' = "decide"
    /\ UNCHANGED <<convo, job, attempt, recovered, compacting, abortion, counters>>

\* The message_end listener could not store a message.
AgentFails ==
    /\ pos \in {"prompted", "agent"}
    /\ pos' = "threw"
    /\ UNCHANGED <<convo, job, attempt, recovered, compacting, abortion, events,
                   counters>>

----------------------------------------------------------------------------
(* After the turn *)

Answer == log[LastOf(log, Assistant)].kind

\* Aborted: neither compaction nor retry.
DecideAborted ==
    /\ pos = "decide"
    /\ cancelled \/ Answer = "aborted"
    /\ pos' = "settle"
    /\ UNCHANGED <<convo, job, attempt, recovered, compacting, abortion, events,
                   counters>>

\* Mutant: the recovery is not remembered.
DecideOverflowAgain ==
    /\ pos = "decide"
    /\ ~cancelled /\ Answer \in Overflow
    /\ LET will_retry == Answer # "over"
       IN IF will_retry /\ recovered
            THEN /\ Emit(<<"compaction_end">>)
                 /\ pos' = "settle"
                 /\ UNCHANGED <<job, recovered>>
            ELSE /\ Compact("overflow", will_retry, FALSE)
                 /\ recovered' = recovered
                 /\ UNCHANGED events
    /\ UNCHANGED <<convo, attempt, compacting, abortion, counters>>

\* The context has outgrown the model that is still selected.
DecideOverflow ==
    /\ pos = "decide"
    /\ ~cancelled /\ Answer \in Overflow
    /\ LET will_retry == Answer # "over"
       IN IF will_retry /\ recovered
            THEN /\ Emit(<<"compaction_end">>)
                 /\ pos' = "settle"
                 /\ UNCHANGED <<job, recovered>>
            ELSE /\ Compact("overflow", will_retry, FALSE)
                 /\ recovered' = (recovered \/ will_retry)
                 /\ UNCHANGED events
    /\ UNCHANGED <<convo, attempt, compacting, abortion, counters>>

\* The failed answer stays in the log but leaves the active context.
DecideRetry ==
    /\ pos = "decide"
    /\ ~cancelled /\ Answer = "err"
    /\ RetryEnabled /\ attempt < MaxAttempts
    /\ attempt' = attempt + 1
    /\ Emit(<<"retry_start">>)
    /\ active' = IF LastKind \in StopError THEN Front(active) ELSE active
    /\ pos' = "begin_retry"
    /\ UNCHANGED <<log, applied, job, recovered, compacting, abortion, counters>>

\* No further run: the outcome of the retries is reported, and a turn that
\* passed the threshold is compacted, unless finding that out fails.
DecideDone ==
    /\ pos = "decide"
    /\ ~cancelled /\ Answer # "aborted"
    /\ ~(Answer = "err" /\ RetryEnabled /\ attempt < MaxAttempts)
    /\ Emit(IF attempt > 0 \/ (Answer = "err" /\ RetryEnabled)
              THEN <<"retry_end">> ELSE <<>>)
    /\ attempt' = 0
    /\ \/ /\ MayPassThreshold
          /\ Compact("threshold", FALSE, FALSE)
       \/ /\ pos' = "settle"
          /\ UNCHANGED job
       \/ /\ AutoCompact
          /\ pos' = "threw"
          /\ UNCHANGED job
    /\ UNCHANGED <<convo, recovered, compacting, abortion, counters>>

----------------------------------------------------------------------------
(* The retry *)

BeginRetry ==
    /\ pos = "begin_retry"
    /\ retry' = "open"
    /\ pos' = "backoff"
    /\ UNCHANGED <<convo, job, attempt, recovered, compacting, cancelled, token,
                   callback, events, counters>>

\* wait_retry and end_retry
RetryElapses ==
    /\ pos = "backoff"
    /\ ~cancelled /\ retry = "open"
    /\ retry' = "none"
    /\ pos' = "continue"
    /\ UNCHANGED <<convo, job, attempt, recovered, compacting, cancelled, token,
                   callback, events, counters>>

RetryCancelled ==
    /\ pos = "backoff"
    /\ cancelled \/ retry = "aborted"
    /\ retry' = "none"
    /\ Emit(<<"retry_end">>)
    /\ pos' = "settle"
    /\ UNCHANGED <<convo, job, attempt, recovered, compacting, cancelled, token,
                   callback, counters>>

\* continue_from takes a context that ends in anything but an answer.
ContinueAgent ==
    /\ pos = "continue"
    /\ IF active = <<>> \/ LastKind \in Assistant
         THEN /\ pos' = "threw"
              /\ UNCHANGED abortion
         ELSE /\ pos' = "agent"
              /\ Register
    /\ UNCHANGED <<convo, job, attempt, recovered, compacting, events, counters>>

----------------------------------------------------------------------------
(* The end *)

Settles ==
    /\ pos = "settle"
    /\ Emit(<<"agent_settled">>)
    /\ pos' = "finish"
    /\ UNCHANGED <<convo, job, attempt, recovered, compacting, abortion, counters>>

\* end_operation and finish
Finishes ==
    /\ pos = "finish"
    /\ compacting' = FALSE /\ retry' = "none"
    /\ Emit(<<"session_end">>)
    /\ pos' = "returned"
    /\ UNCHANGED <<convo, job, attempt, recovered, cancelled, token, callback,
                   counters>>

\* Mutant: a failed prompt does not settle.
FailsUnsettled ==
    /\ pos = "threw"
    /\ compacting' = FALSE /\ retry' = "none"
    /\ Emit(<<>>)
    /\ pos' = "failed"
    /\ UNCHANGED <<convo, job, attempt, recovered, cancelled, token, callback,
                   counters>>

\* run_prompt's and run_manual_compaction's catch
Fails ==
    /\ pos = "threw"
    /\ compacting' = FALSE /\ retry' = "none"
    /\ Emit(IF job.reason = "manual" THEN <<>> ELSE <<"agent_settled">>)
    /\ pos' = "failed"
    /\ UNCHANGED <<convo, job, attempt, recovered, cancelled, token, callback,
                   counters>>

----------------------------------------------------------------------------
(* The user *)

\* abort_active: the flag, and then the callback registered on it.
Abort ==
    /\ pos \notin {"returned", "failed"}
    /\ ~cancelled
    /\ cancelled' = TRUE
    /\ callback' = (token = "open")
    /\ UNCHANGED <<convo, pos, job, attempt, recovered, compacting, token, retry,
                   events, counters>>

AbortCallback ==
    /\ callback
    /\ callback' = FALSE
    /\ token' = "aborted"
    /\ UNCHANGED <<convo, pos, job, attempt, recovered, compacting, cancelled,
                   retry, events, counters>>

\* abort_retry
AbortRetry ==
    /\ retry = "open"
    /\ retry' = "aborted"
    /\ UNCHANGED <<convo, pos, job, attempt, recovered, compacting, cancelled,
                   token, callback, events, counters>>

----------------------------------------------------------------------------
\* Steps the prompt coroutine takes by itself.
Runner ==
    \/ CompactionBegins \/ CompactionThrows \/ NothingToCompact \/ PrepareFinds
    \/ AppendCompaction \/ RebuildThrows
    \/ PreCompacts \/ PreThrows \/ PreSkips \/ StartAgent
    \/ DecideAborted \/ DecideOverflow \/ DecideRetry \/ DecideDone
    \/ BeginRetry \/ RetryElapses \/ RetryCancelled \/ ContinueAgent
    \/ Settles \/ Finishes \/ Fails

\* Steps that wait for a provider or a tool.
Provider ==
    \/ AgentTakesPrompt \/ AgentUsesTools \/ AgentAnswers
    \/ AgentStopsAfterTools \/ AgentFails \/ SummaryFails \/ SummaryArrives

User == StartPrompt \/ CompactNow \/ Abort \/ AbortRetry

Next == Runner \/ Provider \/ User \/ AbortCallback

Spec == Init /\ [][Next]_vars

\* The coroutines are scheduled; a provider owes an answer only to an abort.
FairSpec ==
    /\ Spec
    /\ WF_vars(Runner) /\ WF_vars(AbortCallback)
    /\ WF_vars(token = "aborted" /\ Provider)

----------------------------------------------------------------------------
(* Properties *)

Ended == pos \in {"returned", "failed"}
IsPrompt == prompts > 0 /\ job.reason # "manual"
Count(es) == Cardinality({i \in DOMAIN events : events[i] \in es})

Lifecycle ==
    {"agent_end", "agent_end_will_retry", "retry_start", "retry_end",
     "compaction_start", "compaction_end", "agent_settled", "session_end"}

TypeOK ==
    /\ log \in Seq([kind : Message \cup {"compaction"}, kept : Nat]) /\ WellFormed(log)
    /\ active \in Seq([at : 0 .. Len(log), kind : Message \cup {"summary"}])
    /\ applied \in 0 .. Len(log)
    /\ pos \in {"pre", "compact", "prepare", "summarize", "append", "start",
                "prompted", "agent", "decide", "begin_retry", "backoff",
                "continue", "settle", "finish", "threw", "returned", "failed"}
    /\ job \in [reason : {"none", "overflow", "threshold", "manual"},
                will_retry : BOOLEAN, pre : BOOLEAN]
    /\ attempt \in 0 .. MaxAttempts
    /\ recovered \in BOOLEAN /\ compacting \in BOOLEAN
    /\ cancelled \in BOOLEAN /\ callback \in BOOLEAN
    /\ token \in {"none", "open", "aborted"}
    /\ retry \in {"none", "open", "aborted"}
    /\ events \in Seq(Lifecycle)
    /\ prompts \in 0 .. MaxPrompts /\ rounds \in 0 .. MaxToolRounds

\* Every prompt, completed, cancelled or failed, settles exactly once, and
\* after that only session_end follows (run_prompt, run_prompt_inner).
SettledOnce ==
    IsPrompt /\ Ended =>
        /\ Count({"agent_settled"}) = 1
        /\ \A i \in DOMAIN events :
             events[i] = "agent_settled" =>
                 SubSeq(events, i + 1, Len(events)) \in {<<>>, <<"session_end">>}

\* A prompt runs the agent at most once for itself, once for each retry and
\* once after a compaction, however retries and overflows alternate.
RunsBounded ==
    Count({"agent_end", "agent_end_will_retry"}) <= MaxAttempts + 2

\* An agent_end that announces a retry is followed by that retry, unless the
\* user cancelled: will_retry_after_agent_end predicts run_prompt_inner.
AnnouncedRetryHappens ==
    \A i \in DOMAIN events :
        events[i] = "agent_end_will_retry" /\ i < Len(events) =>
            events[i + 1] = "retry_start" \/ cancelled

\* A retry that was announced to the client is reported over when the prompt
\* completes, unless it was cancelled or its answer had outgrown the context.
RetryReported ==
    pos = "finish" /\ IsPrompt /\ ~cancelled /\ Answer \notin Overflow =>
        \A i \in DOMAIN events : events[i] = "retry_start" =>
            \E j \in DOMAIN events : i < j /\ events[j] = "retry_end"

\* The comment in run_prompt_inner: the failed answer has left the active
\* context, so the agent can be continued after the backoff.
RetryCanContinue ==
    pos \in {"begin_retry", "backoff"} => active # <<>> /\ LastKind \notin Assistant

\* A retry keeps what the events promise of it: it takes place once announced,
\* it finds a context it can continue, and its end is reported.
RetriesGoThrough == AnnouncedRetryHappens /\ RetryCanContinue /\ RetryReported

WithoutErrors(messages) ==
    Select(messages, {i \in DOMAIN messages : messages[i].kind \notin StopError})

\* What build_context makes of the log is what the session works with, errors
\* aside, by the compaction it was last rebuilt from: appends, removals before
\* a retry and failing compactions lose no message and make none up.
ContextMatchesLog ==
    WithoutErrors(active) = WithoutErrors(ContextFrom(log, applied))

\* What a restart would rebuild is what the session works with, errors aside.
\* It fails where the rebuild after append_compaction throws (RebuildThrows).
RestartAgrees ==
    WithoutErrors(active) = WithoutErrors(BuildContext(log))

\* The rule of docs/mvp-implementation-spec.md for the context after a
\* compaction: the summary and the messages from firstKeptEntryId on.
NoMessageTwice ==
    \A i, j \in DOMAIN active : active[i] = active[j] => i = j

\* An abort ends the operation, wherever it finds it, even if the provider
\* would never answer by itself.
AbortEnds == cancelled ~> Ended
============================================================================
