----------------------------- MODULE RpcPrompt -----------------------------
(***************************************************************************)
(* One prompt over RPC (src/app.n run_rpc, rpc_run_prompt and              *)
(* rpc_prompt_worker) or in the interactive and print modes: who calls     *)
(* which method of the SessionStream, and in what order.                   *)
(*                                                                         *)
(*   runner  the prompt coroutine of src/agent/session.n: pushes the       *)
(*           operation's events, releases the busy slot, finishes or fails *)
(*   worker  writes every event it receives as a line to the client        *)
(*   main    the RPC command loop: queue commands push queue_update        *)
(*           events; `abort` and the end of input wait for the operation   *)
(***************************************************************************)
EXTENDS SessionStream, FiniteSets, SequencesExt

CONSTANTS
    runner, worker, main,
    NumEvents,      \* bound: events of the operation before agent_settled
    NumUpdates,     \* bound: queue updates pushed by main
    QUEUE_UPDATE,   \* event 0
    ERROR           \* the rpc_error line

ASSUME RpcPromptAssumption ==
    /\ {runner, worker, main} \subseteq Callers
    /\ runner # worker /\ runner # main /\ worker # main
    /\ NumEvents \in Nat /\ NumUpdates \in Nat
    /\ QUEUE_UPDATE = 0 /\ 0 .. NumEvents + 1 \subseteq Events
    /\ ERROR \notin Events \cup {SESSION_END}

VARIABLES
    rpos,       \* where the runner stands
    pushed,     \* the runner's events pushed so far: 1 .. pushed
    busy,       \* runner_t.busy
    wpos,       \* where the worker stands
    out,        \* the lines the worker has written
    mpos,       \* where main stands
    updates     \* queue updates pushed

roles == <<rpos, pushed, busy, wpos, out, mpos, updates>>
allVars == <<vars, roles>>

\* delivery_required says that the worker is the polling one of RPC.
PInit ==
    /\ events = <<>> /\ events_closed = FALSE
    /\ done_closes = 0 /\ delivery_closed = FALSE
    /\ terminal = FALSE /\ ended = FALSE /\ failure = FALSE
    /\ delivery_required \in BOOLEAN /\ delivery_marked = FALSE
    /\ pc = [c \in Callers |-> "idle"]
    /\ local = [c \in Callers |-> FALSE]
    /\ event = [c \in Callers |-> SESSION_END]
    /\ outcome = [c \in Callers |-> "none"]
    /\ rpos = "run" /\ pushed = 0 /\ busy = TRUE
    /\ wpos = "receive" /\ out = <<>>
    /\ mpos = "commands" /\ updates = 0

Idle(c) == pc[c] = "idle"

----------------------------------------------------------------------------
(* The prompt coroutine *)

\* push of the operation's next event; `to` is where the runner goes on.
RunnerPush(from, to) ==
    /\ rpos = from
    /\ PushBegin(runner, pushed + 1)
    /\ pushed' = pushed + 1
    /\ rpos' = to
    /\ UNCHANGED <<busy, wpos, out, mpos, updates>>

\* end_operation: the slot is free before the outcome is published.
RunnerReleases(from, to) ==
    /\ rpos = from /\ Idle(runner)
    /\ busy' = FALSE
    /\ rpos' = to
    /\ UNCHANGED <<vars, pushed, wpos, out, mpos, updates>>

\* agent_settled is pushed before the release when all went well, after it
\* when run_prompt_inner threw.
RunnerRuns == pushed < NumEvents /\ RunnerPush("run", "run")
RunnerSettles == RunnerPush("run", "settled") \/ RunnerReleases("settled", "finish")
RunnerThrew == RunnerReleases("run", "threw") \/ RunnerPush("threw", "fail")

RunnerFinishes ==
    /\ rpos = "finish"
    /\ FinishBegin(runner)
    /\ rpos' = "returned"
    /\ UNCHANGED <<pushed, busy, wpos, out, mpos, updates>>

RunnerFails ==
    /\ rpos = "fail"
    /\ FailBegin(runner)
    /\ rpos' = "returned"
    /\ UNCHANGED <<pushed, busy, wpos, out, mpos, updates>>

\* The steps of a method the runner is inside of.
RunnerInMethod ==
    /\ PushSend(runner) \/ FinishSend(runner) \/ FinishDone(runner) \/ end(runner)
    /\ UNCHANGED roles

----------------------------------------------------------------------------
(* The consumer *)

Write(line) == out' = Append(out, line)

\* One event is taken from the channel and written.
WorkerReceives ==
    /\ wpos = "receive"
    /\ recv(worker)
    /\ Write(Head(events))
    /\ wpos' = IF Head(events) = SESSION_END THEN "result" ELSE "receive"
    /\ UNCHANGED <<rpos, pushed, busy, mpos, updates>>

\* The channel is closed and drained.
WorkerSeesClose ==
    /\ wpos = "receive"
    /\ events = <<>> /\ events_closed
    /\ wpos' = "result"
    /\ UNCHANGED <<vars, rpos, pushed, busy, out, mpos, updates>>

\* try_recv found nothing; the worker goes on to ask is_terminal().
WorkerFindsNothing ==
    /\ delivery_required
    /\ wpos = "receive"
    /\ events = <<>> /\ ~events_closed
    /\ wpos' = "terminal?"
    /\ UNCHANGED <<vars, rpos, pushed, busy, out, mpos, updates>>

\* Mutant: a free operation slot is taken for a finished stream.
WorkerAsksIdle ==
    /\ wpos = "terminal?"
    /\ IF ~busy THEN Write(SESSION_END) /\ wpos' = "result"
                ELSE wpos' = "receive" /\ UNCHANGED out
    /\ UNCHANGED <<vars, rpos, pushed, busy, mpos, updates>>

WorkerAsksTerminal ==
    /\ wpos = "terminal?"
    /\ IF terminal THEN Write(SESSION_END) /\ wpos' = "result"
                   ELSE wpos' = "receive" /\ UNCHANGED out
    /\ UNCHANGED <<vars, rpos, pushed, busy, mpos, updates>>

WorkerCallsResult ==
    /\ wpos = "result"
    /\ ResultBegin(worker)
    /\ wpos' = "report"
    /\ UNCHANGED <<rpos, pushed, busy, out, mpos, updates>>

\* result() returned, or threw: then the error is the last line.
WorkerReports ==
    /\ wpos = "report" /\ Idle(worker)
    /\ IF outcome[worker] = "error" THEN Write(ERROR) ELSE UNCHANGED out
    /\ wpos' = IF delivery_required THEN "mark" ELSE "returned"
    /\ UNCHANGED <<vars, rpos, pushed, busy, mpos, updates>>

\* finish_rpc_delivery
WorkerMarks ==
    /\ wpos = "mark"
    /\ MarkBegin(worker)
    /\ wpos' = "returned"
    /\ UNCHANGED <<rpos, pushed, busy, out, mpos, updates>>

WorkerInMethod ==
    /\ ResultWait(worker) \/ ResultRead(worker) \/ MarkClose(worker) \/ end(worker)
    /\ UNCHANGED roles

----------------------------------------------------------------------------
(* The command loop *)

\* steer and follow_up end in emit_queue_update_for.
MainQueues ==
    /\ mpos = "commands" /\ updates < NumUpdates
    /\ PushBegin(main, QUEUE_UPDATE)
    /\ updates' = updates + 1
    /\ UNCHANGED <<rpos, pushed, busy, wpos, out, mpos>>

\* `abort` or the end of input: wait until the slot is free ...
MainWaitsIdle ==
    /\ mpos = "commands" /\ Idle(main)
    /\ ~busy
    /\ mpos' = "delivery"
    /\ UNCHANGED <<vars, rpos, pushed, busy, wpos, out, updates>>

\* Mutant: a free operation slot is all that main waits for.
MainWaitsDeliverySkips ==
    /\ mpos = "delivery"
    /\ mpos' = "leaving"
    /\ UNCHANGED <<vars, rpos, pushed, busy, wpos, out, updates>>

\* ... and then for the delivery of that operation's last line.
MainWaitsDelivery ==
    /\ mpos = "delivery"
    /\ IF delivery_required /\ ~delivery_marked
         THEN WaitDeliveryBegin(main)
         ELSE UNCHANGED vars
    /\ mpos' = "leaving"
    /\ UNCHANGED <<rpos, pushed, busy, wpos, out, updates>>

MainLeaves ==
    /\ mpos = "leaving" /\ Idle(main)
    /\ mpos' = "returned"
    /\ UNCHANGED <<vars, rpos, pushed, busy, wpos, out, updates>>

MainInMethod ==
    /\ PushSend(main) \/ WaitDelivery(main)
    /\ UNCHANGED roles

----------------------------------------------------------------------------
Runner ==
    \/ RunnerRuns \/ RunnerSettles \/ RunnerThrew
    \/ RunnerFinishes \/ RunnerFails \/ RunnerInMethod

Worker ==
    \/ WorkerReceives \/ WorkerSeesClose \/ WorkerFindsNothing
    \/ WorkerAsksTerminal \/ WorkerCallsResult \/ WorkerReports \/ WorkerMarks
    \/ WorkerInMethod

Main ==
    \/ MainQueues \/ MainWaitsIdle \/ MainWaitsDelivery \/ MainLeaves
    \/ MainInMethod

AllReturned ==
    /\ rpos = "returned" /\ wpos = "returned" /\ mpos = "returned"
    /\ \A c \in Callers : Idle(c)

\* The operation is over and every coroutine has returned.
Terminating == AllReturned /\ UNCHANGED allVars

PNext == Runner \/ Worker \/ Main \/ Terminating

PSpec == PInit /\ [][PNext]_allVars

\* Each of the three is a coroutine the runtime keeps scheduling.  The runner
\* decides by itself when the operation is over, so it does not stay in "run".
PFairSpec == PSpec /\ WF_allVars(Runner) /\ WF_allVars(Worker) /\ WF_allVars(Main)

----------------------------------------------------------------------------
(* Properties *)

TerminalLines == {SESSION_END, ERROR}

RpcTypeOK ==
    /\ TypeOK
    /\ rpos \in {"run", "settled", "threw", "finish", "fail", "returned"}
    /\ wpos \in {"receive", "terminal?", "result", "report", "mark", "returned"}
    /\ mpos \in {"commands", "delivery", "leaving", "returned"}
    /\ busy \in BOOLEAN
    /\ pushed \in 0 .. NumEvents + 1 /\ updates \in 0 .. NumUpdates
    /\ out \in Seq(Events \cup TerminalLines)

\* What the comments in run_rpc and abort_and_wait promise: main answers an
\* abort, or lets the process exit, only after the client was written the
\* operation's last line.
WaitersSeeLastLine ==
    delivery_required /\ mpos = "returned" => ToSet(out) \cap TerminalLines # {}

\* No event of the operation is lost: when session_end is written, so is
\* every event the runner pushed before it.
NoEventLost ==
    SESSION_END \in ToSet(out) => 1 .. pushed \subseteq ToSet(out)

\* The print mode's consumer, which blocks in recv, loses none.
NoEventLostInPrintMode == ~delivery_required => NoEventLost

\* The client sees exactly one terminal line and nothing after it, and is told
\* of success or failure as the stream ended.
LastLineMatchesOutcome ==
    /\ \A i \in 1 .. Len(out) : out[i] \in TerminalLines => i = Len(out)
    /\ wpos = "returned" => Len(out) > 0 /\ Last(out) \in TerminalLines
    /\ SESSION_END \in ToSet(out) => terminal
    /\ ERROR \in ToSet(out) => ended /\ ~terminal

\* Nobody is left waiting: the operation, its worker and an abort or an end
\* of input that waits for both come to an end.
EverybodyReturns == <>AllReturned
=============================================================================
