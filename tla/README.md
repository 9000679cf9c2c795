# Adou: a TLA+ verification project

Adou is a coding agent written in Nature: a program that sends a conversation to a language-model provider,
executes the tool calls the model asks for, and keeps the conversation in a session file that can be
branched, compacted and resumed. It runs in a terminal, as a print-mode command, as an RPC child process and
under a small session server.

Sections 1 and 2 are the inventory, 3 the modules and how they correspond to the code, 4 the runs, 5 bounds
and fairness, 6 the proofs, 7 the disagreements found, 8 what is not modelled, 9 open work. Paths without a
prefix are relative to the repository, so `src/agent/session.n` is the session runner.

## 1. Inventory

| component | source | state | operations |
|---|---|---|---|
| mutation queue | `src/tools/mutation_queue.n`; its users `src/tools/write.n` and the edit tool in `src/tools/shell_tools.n` | process-wide registry, one reference-counted lock per file key | acquire, release, read-modify-write of an edit, write |
| session stream | `src/agent/session_stream.n` | bounded event channel, `done` and `delivery_done` channels, terminal/ended/failure flags | push, finish, fail, end, result, recv, delivery handshake |
| RPC prompt delivery | `src/app.n` | one worker per prompt, the command loop | write each event as a line, abort, end of input |
| operation slot | `runner_t` of `src/agent/session.n` | `busy`, `active_stream`, `repository` | prompt, compact, tree navigation, bash, new session, session switch, abort |
| prompt run | `run_prompt`, `run_prompt_inner`, `run_compaction` of `src/agent/session.n` | active messages, retry attempt, overflow recovery, cancellation tokens | run the agent, retry with backoff, compact, settle |
| message queue | `queue_t` of `src/agent/types.n` | steering and follow-up queues, their visible copies | enqueue, restore, drain, mark delivered, publish |
| agent loop | `src/agent/loop.n` | context, new messages, tool calls in flight | turns, sequential, parallel and truncated tool execution |
| session log | `src/session/repository.n`, `src/session/jsonl.n` | JSONL file, tree of entries, leaf, labels | append, deferred first flush, load, navigate, compact, clone, fork |
| compaction | `src/compaction/*.n` | none | threshold, cut point, preparation, summary request |
| SQLite store | `src/storage/*.n` | tables of the same entries | the same operations in transactions |
| session server | `src/server/*.n` | instance table and file, child processes, pending requests | spawn, stop, rpc, subscribe, shutdown |
| assistant stream, providers | `src/ai/event_stream.n`, `abort.n`, `provider_retry.n`, `providers/*.n` | event channel, final message, cancellation tokens with callbacks, HTTP response | send with retries, push, end, result, abort |
| settings, credentials, trust | `src/config/*.n`, `native/auth_store.c` | JSON files shared by processes | locked read-modify-write, temporary file and rename |
| commands | `src/tools/command.n`, the bash tool in `src/tools/shell_tools.n` | child process of a command | run, timeout, abort |
| terminal | `native/term.c`, `src/tui/term.n`, `src/tui/session_view.n` | termios, O_NONBLOCK of the shared file description, keyboard modes, render lock | read, draw, suspend, external editor, quit |
| context resources, rest of the interface, export, SDK | `src/context`, `src/tui`, `src/session/export_*.n`, `src/sdk*.n` | presentation | sequential |

**How they interact.** A client (TUI, RPC loop, SDK) calls the session runner. A prompt takes the *operation
slot*, gets a *session stream*, and a coroutine (*prompt run*) starts the *agent loop* as often as retries and
compactions ask for. The loop drains the *message queue*, asks a provider, executes tools (mutating ones
through the *mutation queue*) and reports through its event stream; a listener appends every finished message
to the *session log*, and `forward_agent_stream` copies events to the session stream, where an RPC worker or a
print loop consumes them. Coroutines share memory under short mutex sections and run on several threads
(`docs/porting-plan.md`), so every stretch between two lock operations, channel operations or waits may
interleave with those of others.

**What is hard.** A lock entry deleted by its last user while another looks it up; outcome, acknowledgement
and end of a stream racing each other; an abort that falls between two steps of a prompt; retries and
compactions that undo each other's bounds; queue snapshots published late; tools that finish in any order; a
crash or a failed write in the middle of a record; a compaction on one branch of a session that has several;
one file description whose flags two threads change; a terminal given to the shell while a watcher redraws;
configuration files that several processes replace, with power loss; a child process that is stopped before
it has started, or exits with requests under way; callbacks of an abort that are registered too late.
`PROJECT.json` lists each of these hazards at its line.

## 2. What makes each component correct

| component | property |
|---|---|
| mutation queue | bodies on one file exclude each other, no edit is lost, an entry lives exactly as long as its users, every call returns |
| session stream | one outcome, decided once and reported alike; `done` closed once |
| RPC delivery | exactly one terminal line, in agreement with the outcome, before an abort or the end of input is answered; nobody waits for ever |
| operation slot | one operation at a time, an abort finds it, it ends on the repository it began with, every way out frees the slot |
| prompt run | settles once, runs boundedly often, does what it announces, works with the context its log gives, an abort ends it |
| message queue, agent loop | each message delivered once and in order, a request to the model is complete and equals what is persisted, tools joined |
| session log | what was appended is found again with its branch, nothing found is without its parent, forks keep branch and labels, the context can be built |
| terminal | a changed flag is owed by a call or could not be put back, the shell and the editor get a clean terminal, frames stay whole, a quit ends the process even if the writes of the way out stall or fail |
| configuration files | always a whole document, acknowledged changes survive a power loss, no update lost between processes, no lock kept, a newer token not overwritten |
| session server | a request is answered at most once and, when the child has died, at least once; no child survives a stop, whenever it comes |
| agent turn | an abort at any moment ends request, answer and command; an answer that was cut off and a command that the tool killed are reported as such |

## 3. Modules

Each module names the source of its definitions in its header and in `PROJECT.json` (`map`). A definition
has the source's name where there is one (`rechain_with_labels`, `require_delivery`); an operation that is
several steps long has one action per stretch. Definitions marked `Mutant:` are faults the properties are
known to detect; they are not part of any specification.

**MutationQueue** (`MCMutationQueue`, `MutationQueueProofs`). A process is a coroutine executing one mutating
tool call after another. `Begin` computes the key as `acquire` does (canonical if the file exists, textual
otherwise); `Spin`, `Mark`, `Publish` are `get_registry` with its unguarded flag; `EnterRegistry`, `LockEntry`
the rest of `acquire`; `ReadBase`, `OpenTruncate`, `Put`, `BodyThrows` the tool body; `UnlockEntry`, `DropUse`
`release`. A file's content is the set of edits in it.

**OneShot**, **SessionStream** (`SessionStreamProofs`). `SessionStream` has any number of callers inside any
methods; `OneShot` is the abstract promise, an outcome decided once and read alike by all readers, and
`SessionStream` implements it with terminal as *completed* and ended-without-terminal as *failed*.

**RpcPrompt** (`MCRpcPrompt`, `SessionStreamProofs`) composes the stream with the coroutines that really call
it: the prompt coroutine, the worker that writes the lines, and the command loop that queues messages, aborts
and exits. `delivery_required` distinguishes the polling RPC worker from the blocking consumer of print mode.

**OperationSlot** (`MCOperationSlot`, `OperationSlotProofs`). A constant set of calls with their kinds and
clients; every critical section of `runner_t.lock` and every call on a stream is an action. What an operation
does inside is one step here and PromptRun elsewhere. `ReplaceThrows` keeps the lock, as
`replace_repository` does when `build_context` throws.

**PromptRun** (`MCPromptRun`, `SessionProofs`). One prompt after the other, each from its pre-compaction to
`session_end`. A message of the context is its position in the log with its kind; token counts are free choices.
`Select(s, S)` of **Selection** is the part of a sequence at the positions in `S`, in ascending order;
`entry_messages` and the context without errors are such selections. The decisions of `run_prompt_inner` are
`DecideAborted`, `DecideOverflow`, `DecideRetry`, `DecideDone` in the code's order; cancellation is a flag, a token
registered with it and a callback still to be called, because `abort()` and `on_abort` are separate steps. The
repository may throw at every use: `PreThrows` and `DecideDone` in `should_threshold_compact`, `CompactionThrows` up
to the append, `RebuildThrows` in `build_context` after it, where the log has a compaction that the context has not.
`applied` is the compaction the context was last rebuilt from; it is a history variable and guards nothing.

**MessageQueue**, **AgentLoop** (`MCAgentLoop`, `AgentLoopProofs`). `MessageQueue` has the client and the forwarder as
two publishers of snapshots; `AgentLoop` extends it with the loop: delivery, request, stream, and the three
ways tool calls are executed. `context` is what the model is asked about and `log` what the listener
persisted; `finalized` is the length of the vector of that name, the calls that have an outcome.

**SessionLog** (`MCSessionLog`, `SessionProofs`). Memory of the manager (`entries`, `leaf`, `labels`, `session_flushed`,
`pending_lines`, `needs_separator`) and the file as a sequence of lines with a flag for a missing final
newline. An append (`Attempt`) is held back (`Hold`), stored (`Store`), throws after any part of its bytes
(`Refuse`) or ends with the process after any part (`Die`); a line that follows an unterminated one becomes
part of it and neither parses. `open` loads, `set_leaf` navigates, `append_compaction` is `run_compaction`
with the boundary and the cut of `src/compaction`, any valid cut standing for the one the token estimate
selects; `clone_active`, `fork_before` and `fork_to` write a new file and load it; `copy_stops` is each of them with
`write_new_file` throwing or the process ending in it, after any part of the bytes: the part stays among the
sessions, and what is opened later is that file. `path_to` is a recursive function over
the parents; the branch that a fork copies is a selection of the entries.

**Terminal** (`MCTerminal`, `TerminalProofs`). Four kinds of threads: the view (`ui`), other coroutines that redraw
(`Painters`), the answer to the keyboard negotiation (`input`) and the reader of the keyboard. A call of
`adou_term_write` or `adou_term_read` is `GetFlags`, `SetFlags` and `DoWrite` or `DoRead`, each with the outcomes
the kernel can give (bytes, a part, EAGAIN, an error); `After` is the loop of `terminal_t.write` around it. A call
that finds the flag cleared by another thread may sleep in the kernel (`Block`, `at = "blocked"`) with the mutex and
locks it holds. `PutBack` is the last `F_SETFL`, which is done or fails; `stuck` is a history variable that says the
flag is set because of such a failure. A text is a number of parts, a text of a few bytes one part. `Restore` ...
`Reentered` are `restore_terminal` and `reenter_terminal` with the render lock, `Mark` the texts that the view's
coroutine writes without it (the progress of a run, the cursor setting), `Bye` ... `Exit` the way out, with the
images and `MODIFY_OTHER_KEYS` turned off before the lock is taken. Whether images are shown and whether
modifyOtherKeys is on is left open: each text may be written or not.

**ConfigStore** (`MCConfigStore`, `ConfigStoreProofs`). A document is a function from entries to the task that
wrote each, a file a document with the task that created it (`by`: who still writes through a descriptor); a task is
one `save`, `save_token`, refresh, logout, or one of the calls that read before they lock. The steps are the
system calls of `adou_auth_lock` and `adou_auth_atomic_write`; `maybe` is what the name of the file may lead to
after a power loss (every file it led to since the directory was last synchronised). The lock has a process as
its owner, as `fcntl` locks do.

**Supervisor** (`MCSupervisor`, `OperationSlotProofs`). One instance: `finish_spawn` (`Start` ... `SetOnline`),
`rpc_process_t.send` (`Register`, `Write`, `Receive`), `pump_output`, `watch_exit` (`Reap` ... `OnExit`) and any
number of stops (`Stop`, `GetProcess`, `Dispose` ... `Kill`). Every section of a lock, every channel operation and
every signal is an action. The child is external: it may answer, answer badly, keep silent, ignore SIGTERM or die.
`pending` is a set: which of several requests with one id comes first is left open.

**AgentTurn** (`MCAgentTurn`, `AgentTurnProofs`). The loop's `stream_assistant`, a provider with its retries, and
the command of the bash tool. An abort takes the registered callbacks in one section and calls them afterwards;
`todo` has the steps of the callbacks each coroutine still has to run, because a callback runs in the coroutine that
calls it and takes locks of its own. The command exits with status 0 or another, dies by a signal of somebody else
(`signalled`) or by the tool's own (`killed`). AgentLoop and PromptRun take the answer as one step; this module
shows what that step relies on.

## 4. Runs

All properties named here hold, except in the last run. `session_log` has 865,209 distinct states, `prompt_run`
1,223,552, `terminal` 421,736, `agent_turn` 25,139. The type invariants are theorems (section 6), except
that of Supervisor (`ServerTypeOK`), of which the proofs need parts only; it can be added to its configuration.

| run | question | properties |
|---|---|---|
| `mutation_queue` | two coroutines edit and write one file, the first use of the queue racing | KeyExclusion, NoLostUpdate, CallsReturn; exclusion is claimed if one registry was published |
| `rpc_prompt` | one prompt over RPC or print mode with queue updates, abort or end of input | WaitersSeeLastLine, NoEventLostInPrintMode, LastLineMatchesOutcome (with exactly one terminal line), ImplementsOneShot, EverybodyReturns |
| `prompt_run` | one prompt on eight histories, with retries, compactions, tool rounds, failures and aborts | SettledOnce, RunsBounded, RetriesGoThrough (what is announced happens, is reported and can continue), ContextMatchesLog (by the compaction last taken over), AbortEnds |
| `operation_slot` | compaction, navigation, bash, new session, two switches (one to an unloadable session), abort from two clients | OneOperation, RunningIsActive, RepositoryStable, AbortLeavesIdle |
| `operation_slot_rpc` | two prompts and the other commands of one RPC client | CallsReturn |
| `agent_loop` | an answer with up to two calls in any mode, a second request, two queued messages, restore, abort, failures | QueuesExact (each message once and in order, the visible queues exact), RequestIsPersisted, RequestIsComplete, ToolsInOrder (tools joined, results in order), FollowUpsWhenDone; no deadlock |
| `session_log` | a session with branches, labels, compaction, fork, a failing or cut-off write of a record or of a copy and the process ending anywhere | LogSurvives (branches found again, no orphans), ForkKeepsPath |
| `terminal` | view, painter, reader and negotiation on one terminal that may stall or fail, with Ctrl+Z, editor and quit | FlagsRestored (O_NONBLOCK is owed by a call, or its put-back failed; where the terminal is given away, not owed by a drawer), ShellGetsTerminal, FramesWhole, QuitEnds (if no call blocks for ever) |
| `config_store` | two processes refresh one token, change and remove another entry; a failing call, a kill or a power loss | NeverTorn, NoLostUpdate, AckedDurable, LockNotLeaked, NewerTokenKept |
| `supervisor` | an instance, two commands (one followed by `get_state`), a stop, any child | OneAnswer, StopKills, RequestsReturn |
| `agent_turn` | one answer with two retries and two pieces of text, one command, an abort anywhere, a silent network | CommandTruth (a command the tool killed is reported so, whatever raced), CutTurnEnds, AbortEnds |
| `operation_slot_twice` | does the slot admit one prompt at a time? | OneOperation is violated (section 7) |

## 5. Bounds and fairness

- *MutationQueue*: two coroutines, four calls, one path. Deletion of an entry by its last user against a new
  user needs two coroutines and three calls; three coroutines with the racing first use are beyond five
  minutes, and the theorems cover any number once a registry is published.
- *RpcPrompt*: capacity 2 (128 in the code) with two events, `agent_settled`, two queue updates and
  `session_end`, so that producers meet a full channel.
- *PromptRun*: two attempts, one tool round, one prompt. A second prompt exceeds what can be explored (over 25
  million states); instead the prompt starts from the kinds of history an earlier one can leave behind it in the
  log: empty, ended in each way the next prompt tells apart, just compacted, compacted and continued.
- *AgentLoop*: `MaxTurns = 1` means that after one answer the model only fails, so a second request is still
  sent and checked; two calls suffice for results out of order and for an abort between calls.
- *OperationSlot*: every kind of call once, two switches; three prompts are the fewest that show the double
  release.
- *SessionLog*: four records, one fault in a write, one fork, and the process may end and restart as often as
  it likes. Four records give two branches with a compaction, a label on a fork, and a torn record followed
  by two more. Five are beyond five minutes with faults.
- *Terminal*: one painter besides the view, frames of two parts (short texts are taken whole), two EAGAINs before
  the budget (400 in the code) is used up. Two threads suffice for the flag race and for two frames; two parts for a
  mixed frame.
- *ConfigStore*: two processes, four tasks of four kinds, two entries, two temporary names (100 in the code), one
  fault. Two coroutines of one process and two of another are the smallest case in which coroutines share a
  lock while a process competes for it.
- *Supervisor*: two commands, the handshake and one refresh as sends, one stop; `InCap = 4` (128 in the code)
  has room for all of them, see section 7. `Id` gives every send an id of its own, as the generated ones have.
- *AgentTurn*: two retries, two pieces of text, a channel of one place, so that the provider meets a full
  channel; one command.

Fairness is weak fairness of coroutines the runtime keeps scheduling: in MutationQueue of each process's steps (a
body always returns or throws; nothing makes a coroutine call again); in RpcPrompt of runner, worker and command
loop (a prompt ends by itself in that model; that it does is PromptRun's question); in OperationSlot of calls and of
the end of an operation that was *aborted*, not of one that was left alone; in PromptRun of everything except the
provider's answer, which is owed only to an abort, and the user's own actions. `PromptRun!AbortEnds` justifies what
OperationSlot assumes of aborted operations, and `AgentTurn!AbortEnds` what PromptRun assumes of an aborted
provider. In Terminal it is strong fairness of each thread that draws or writes, since a lock that is free again and
again is granted in the end; the editor ends and somebody continues a stopped process; nobody has to read, draw or
quit. A blocked call (`Block`) is owed nothing: it returns when the terminal takes or has a byte, or never, and
`QuitEnds` is claimed of executions in which none stays blocked (`NoCallHangs`). In Supervisor it is weak fairness
of the server's coroutines and of the timers of `wait_done`, and SIGKILL ends the child; nothing else is asked of
it. In AgentTurn a closed response wakes its reader (`current.close()` in `close_response`), a request that was sent
returns (the HTTP client has a timeout, which `src/config/settings.n:53-55` lets a user set to 0, and then it need
not), SIGKILL ends the command; an open connection may be silent for ever and a command may run for ever. Safety
runs use no fairness. Deadlock is checked in `rpc_prompt` and `agent_loop`, where a final state stutters explicitly;
elsewhere the run ends when the bounded calls are used up.

## 6. Proofs

TLAPS checks every leaf of eight modules. The constants are arbitrary: any number of coroutines, processes,
prompts, turns, calls, messages, retries, faults. The assumptions are the named ASSUMEs of the modules, which
the runs evaluate. Every inductive invariant below was checked by TLC on the run's instance before it was proved.

- **MutationQueueProofs.** `TypeCorrect`; `KeyExclusionHolds` and `CountsExactHolds`, whether a registry is
  published before the calls or by the first of them; `FileExclusionHolds` and `NoLostUpdateHolds` in addition
  where no path is a symbolic link (`Canon[p] = p`). All speak of executions that publish one registry
  (`OneRegistry`): with two there is no exclusion (section 7). KeyExclusion is not inductive: that two bodies
  hold different keys needs that the body's coroutine owns the lock of the entry *found under its key*, hence
  that the entry was not deleted meanwhile, hence exact counts. `QueueInv` is that conjunction: RegistryShared,
  KeysResolved, EntriesFound, LocksOwned, CountsExact, KeysApart. It survives the racing first use because
  `published` only grows: until the first registry is there nobody is past `get_registry`, and whoever publishes
  another one ends the claim (`QueuePublish`, `OneRegistryBefore`). NoLostUpdate adds EditsCurrent, which is
  preserved because of FileExclusion.
- **SessionStreamProofs.** `TypeCorrect`, `DoneClosedOnceHolds`, `OneShotImplemented` for any callers and
  capacity. `StreamInv`: the duty to close `done` is taken on by the one caller that sets the first of
  `terminal` and `ended`, and nobody reads an outcome before. `OneShotImplemented` is a refinement: the
  initial state maps to an open outcome and each action to a decision, a report or a stutter. Every step of
  RpcPrompt is a step of SessionStream or leaves the stream alone, which carries the refinement over
  (`PromptIsOneShot`). `WaitersAlwaysSeeLastLine`, `LastLineIsTrue` and `PrintModeLosesNothing` need `RoleInv`
  (which caller may be inside which method, by where its coroutine stands), `OutInv` (what was written up to
  each position of the worker) and `SentInv` (every pushed event is written, in the channel or in the runner's
  hand, and only queue updates follow `session_end` in the channel).
- **OperationSlotProofs.** `TypeCorrect` for all calls; `OperationsExclude`, `RunningCanBeAborted`,
  `IdleSessionIsFree`, `RepositoryIsStable`, `AbortReturnsIdle` for every execution in which no operation begins
  between the two releases of a prompt (`NothingBetweenReleases`): that is exactly what goes wrong in section 7,
  and the code does not prevent it. Sessions without prompts are such executions (`PromptlessIsCalm`), hence
  those of the run. `SlotInv` says that a holder makes `busy` true, that there is one, that `active_stream` is
  the running one, and that the second release of a prompt finds the slot free. The module also has the theorems
  about the session server. `NoSecondAnswer`, for any ids, rests on `RequestInv`: a request waits for the pump
  or for the watcher, not for both, and for neither once it has an answer. `ExitForgetsNoRequest`, where no two
  requests have the same id, rests on `ExitInv`: the list is emptied in the section that marks the process
  exited, and a request that was registered is on the list, with the watcher, or answered. With equal ids it
  fails: `remove_pending` drops the other request too (section 7). `StopsLeaveNoChild` is the safety half of
  StopKills: a stop that has ended leaves a child that is dead or was sent SIGKILL, or one that `finish_spawn`
  will still find stopped or is disposing of. `StopInv` ties what a stop finds to where `finish_spawn` stands:
  without a process it is before `set_process`, and then the status stays STOPPED until it is tested, unless the
  child has died.
- **SessionProofs**, first part, on PromptRun. `ContextAlwaysMatches`: whatever is appended, retried and
  compacted, and wherever the repository throws, the working context is, errors aside, what `build_context` makes
  of the log by the compaction last taken over, which is the latest one unless the rebuild after the append threw
  (section 7). The context is rebuilt by
  filtering the log, and facts about a filter would need induction over sequences; with `Select` they need only
  that a finite set of numbers has a member of every rank (`RankExists`, from the least-number principle), so
  that a selection grows by exactly the appended message (`SelectAppend`, `BuildContextAppend`).
  `SettlesExactlyOnce` rests on `SettleInv` (at each position, whether `agent_settled` has been emitted, and
  where). `RunsAreBounded` rests on `RunInv`: each further run is paid for by an attempt or by the one recovery,
  and an attempt is never given back before the prompt stops running the agent. `RetriesAlwaysGoThrough` rests
  on `TurnInv` (at a decision that is not cancelled the answer is the last message of the log and of the
  context, and the one before it is no answer), `AnnounceInv` (an announced retry that is not cancelled waits at
  `DecideRetry` with its guard true) and `ReportInv` (while no attempts are counted every retry has been
  reported over; a recovery of the prompt's own follows an answer that had outgrown the context, and a
  compaction leaves that answer in the log).
- **SessionProofs**, second part, on SessionLog. `LogAlwaysSurvives`, `ClonesKeepTheirPath`, `LabelsAlwaysIndexed`,
  `LogTypesHold`, for any number of records, forks, failed writes, copies cut off and crashes at any byte.
  `LogSurvives` compares the values of `path_to` in memory and after a load. `LogInv` says it locally: the entries
  in memory, held back and in the file are one tree in which a record has one content and a smaller number than its
  children (`Sound`); what is in memory is in the file once the session is flushed, and no entry of memory has a
  parent in the file that memory has not (`Holds`); before the flush the entries are a chain and all of them are
  held back (`Chained`); a line without its newline is known as such unless an append has just torn it; and a file
  that nothing has torn has the parent of each record (`Closed`). A copy that was cut off is a first part of such a
  file, and a copy of all entries a first part of memory: `OrderInv` says that in memory a record stands behind its
  parent, and in a file that nothing has torn too, so that every first part has the parents of its records. That the
  two walks up then agree needs the existence of the recursive function (`WalkExists`, by the least-number
  principle) and one comparison of two walks (no induction theorem of the library applies). The written bytes are
  handled once: what parses after a whole or a partial batch is the batch, or all of it up to the torn line. For a
  fork, `CloneShape` describes the records that `rechain_with_labels` writes, and `CloneHas` that the branch of its
  last record is the old one without label records. `LabelIndex` needs that the last record about an entry decides
  its label, through appends and through the new label records of a fork. `LogTypesHold` rests on `LinesInv`: no
  record is twice in a file, however it was torn and written to again, because no line of a batch is one the file
  already has (`Apart`).
- **AgentLoopProofs.** `AskedIsPersisted`, `AskedIsComplete`, `ToolsAlwaysInOrder`, `FollowUpsWait`,
  `MessagesOnceInOrder`, `QueuesAlwaysExact`, for any number of turns, calls and queued messages. `LoopInv` has
  the types, where the loop over the calls stands (`CountInv`) and that a tool runs only where the loop waits
  for it; `PersistInv` says by which messages log and context differ at each position; `OrderInv` that the
  answer is the last message of the context while its calls are looked at; `CompleteInv` that every answer
  before the current one has all its results behind it, and so has the current one when the loop goes on;
  `LastInv` that the loop asks only behind a message that is no answer; `QueueInv`, `OriginInv` and `FollowInv`
  that one drain fills `pending` and a follow-up waits in it only behind an answer without calls, a closed batch
  or another follow-up. `OnceInv` accounts for every message ever queued: taken, waiting or handed back, once,
  and in the order it was queued within its kind; `MessagesOnceInOrder` needs nothing of the texts. `ShowInv`
  says that each visible queue ends with the texts of what waits, and that what stands before them are texts of
  messages the loop took and whose start has not been forwarded. `QueuesAlwaysExact` adds it under
  `DistinctTexts`, as `remove_visible` strikes off by text (`src/agent/types.n:193`, section 7); the run's
  messages have different texts as well.
- **AgentTurnProofs.** `CommandsReportedTruly`, `AbortedTurnEnds`, `ResultNeverThrows`. `QuietInv`:
  before an abort only the loop, because of a timeout, has a callback to run. `CommandInv`: a command the tool killed was
  sent its signal by one of these, which set the flag first that the report looks at; what is reported follows from
  that and from how the command ended. `AnswerInv` and
  `AskInv`: the last event is accepted once and before the stream ends, and the loop gets its stop reason, which
  after the mark is never a request for tools.
- **TerminalProofs.** `NonblockPutBack`, `FramesNeverMixed`, `ShellHasTerminal`. While O_NONBLOCK is set and no
  put-back has failed, some call that found it clear has still to put it back: `CallInv` says which calls may be
  under way at each label, so that such a call is the reader's or the negotiation's where the terminal is given
  away. That it is none at all there is false (section 7). `LockInv`: who writes a frame or the sequences of restore
  or reenter has the render lock, the first frame excepted. `AwayInv`: while the terminal is given away nobody is
  inside a frame, the modes are off and termios is the shell's.
- **ConfigStoreProofs.** `LockAlwaysReleased`, `NoUpdateLost`, `TokenKept` for all calls.
  `OwnTemp`: between O_EXCL and rename the temporary name leads to the caller's own file; `AllWhole`: nothing
  the name of the file leads to is still written to; `Alone`, `BaseInv`: without two coroutines of one process
  in the section, what is written was computed from the file as it is. `NeverTorn` and `AckedDurable` are
  proved twice, each time with the condition the code needs: `WholeUnderTheLock` as long as no two coroutines
  of one process were under the lock together (`~excused`), and `WholeAndDurable` for executions in which no
  fsync of the directory fails while another coroutine of that process is between O_EXCL and rename
  (`UnlinksNothing`). Neither can be dropped. After such a failure `native/auth_store.c:101` unlinks a
  temporary name that is no longer the caller's: with three coroutines of one process (which share the `fcntl`
  lock) a second has created that name again, a third creates it anew after the unlink, and the second renames
  the third's unwritten file over the configuration. The proof attempt found this; TLC shows it in 18 states
  with three tasks (refresh, logout, save) of one process and `MaxFaults = 1`. The run has two coroutines per
  process, where it cannot happen.

Every safety property and every action property of the passing runs is a theorem. Only model-checked are the
liveness properties (CallsReturn, EverybodyReturns, AbortEnds, QuitEnds, StopKills, RequestsReturn): liveness
under fairness and ENABLED are out of the prover's reach. `RequestsReturn` has a safety counterpart for distinct
ids only (`ExitForgetsNoRequest`), and `StopKills` has `StopsLeaveNoChild`. Some theorems carry a condition:
`OneRegistry` and `NothingBetweenReleases` exclude two races of the code (section 7), `UnlinksNothing` and
`~excused` one of its error paths and the shared `fcntl` lock, `DistinctTexts` and distinct ids equal messages
and requests.

## 7. Disagreements between the code and its documents

With a run (`operation_slot_twice`; quotations in `PROJECT.json`): `src/agent/session.n:974`: a prompt
releases the slot before `finish()` and again when its coroutine ends; a prompt started in between loses the
slot, so a third runs beside it and an abort does not find it.

Stated as a definition that no configuration lists; adding it to the INVARIANTS of the configuration named gives the
counterexample:

| definition | configuration | what happens |
|---|---|---|
| `NoEventLost` | `RpcPrompt.cfg` | `src/app.n:1438`: the RPC worker finds the channel empty, the prompt pushes `agent_settled` and finishes, the worker finds the stream terminal and writes `session_end`. The comment at `src/app.n:1436` says the worker can then "safely publish the canonical event itself"; the client never gets `agent_settled` |
| `NoMessageTwice` | `PromptRun.cfg` | `src/session/repository.n:1006`: the context after a compaction has `retainedTail` *and* the entries from `firstKeptEntryId` on, so every kept message is in it twice (already in the initial states whose history was compacted); `docs/mvp-implementation-spec.md:525` has the summary and the messages after `firstKeptEntryId` |
| `NotPendingOnceStarted` | `AgentLoop.cfg` | `src/agent/session.n:888`: a `queue_update` snapshot can be pushed after a newer one, so that a started message is pending again in what the consumer sees, against `docs/mvp-implementation-spec.md:437` |
| `AlwaysBuilds` | `SessionLog.cfg` | `src/agent/session.n:1273`: a compaction is prepared from all records of the file; after a navigation the kept entry may be on another branch, and that branch's context cannot be built any more |
| `NeverBlocks` | `Terminal.cfg` | `native/term.c:102`: `adou_term_read` takes no mutex, so a write that began before may put the flag back between its `F_SETFL` and its `read`, which then blocks. The comment at line 94 says "Read one chunk without blocking the Nature processor" |
| `ShellGetsBlocking` | `Terminal.cfg` | `native/term.c:107-123`: a read of the keyboard (or an answer to the keyboard negotiation, or a put-back that fails) has O_NONBLOCK set when Ctrl+Z stops the process, when the process exits or while an editor runs. The comment at lines 29-30 says that the flags are restored since "a leaked O_NONBLOCK would be inherited by editor children" |
| `QuitAlwaysEnds` (a PROPERTY) | `Terminal.cfg` | `native/term.c:63`: a write whose flag the reader's put-back (line 123) has cleared blocks in a terminal that takes no output, with the render lock and `terminal_write_mutex`; the way out waits for them. The comment at lines 32-33 says the caller sleeps "instead of blocking the whole processor" |
| `TextsWhole` | `Terminal.cfg` | `src/tui/session_view.n:1314`: the images are removed on the way out without the render lock, so that their sequences may fall between two parts of a painter's frame (no document asks for it; the modes are restored under the lock six lines later) |
| `DoneMeansExited` | `AgentTurn.cfg` | `src/tools/shell_tools.n:425`: a command that a signal of somebody else ended (it crashed, or was killed from outside) has exit code 0 and is reported as done. The branch at that line has a text for it, "Command exited with code %d (signal %d)", and is not reached |
| `RestartAgrees` | `PromptRun.cfg` | `src/agent/session.n:1304`: the compaction is in the log and `build_context` throws: the session goes on with the context it had, and a restart builds another (no document speaks of the case) |
| `SnapshotFresh` | `ConfigStore.cfg` | `src/config/auth.n:45-48`: `cached_root` reads the file, another coroutine replaces it and invalidates the snapshot, and `cached_root` marks the old content valid. The comment at lines 365-366 says "a successful write invalidates the snapshot so subsequent reads see the new state" |
| `NoLateText` | `AgentTurn.cfg` | `src/ai/event_stream.n:73`: `push` tests under the lock and sends after it, so one delta may be sent after the abort. The comment at lines 19-21 says that "once abort wins, that frame must not [...] append more text to the TUI" |

Observed while modelling, without a definition of their own:

- `src/tools/mutation_queue.n:22`: the key is canonical only if the file exists when the call begins; through
  a symbolic link to a file that is created meanwhile, two calls hold different keys for one file
  (`docs/mvp-implementation-spec.md:487` asks for one queue per file). The theorems assume no such link.
- `src/tools/mutation_queue.n:51`: `get_registry` tests and sets a plain flag. Two first users can publish two
  registries and then do not exclude each other, which `docs/pi-core-module-map.md:51` and a test in
  `tests/mutation_queue_test.n` rule out. The run includes these executions; exclusion is stated without them.
- `src/session/repository.n:1388`: an append that fails half way leaves a torn line without setting
  `needs_separator`; the next record is glued to it, both are skipped at reload, and everything below becomes
  an orphan, so that earlier history is missing from the context. LogSurvives excludes exactly this
  (`torn = "now"`).
- `src/session/repository.n:1363`: after a first flush that failed, the file exists, `O_EXCL` refuses it and
  nothing of the session is stored any more.
- `src/compaction/cut_point.n:44-50`: the cut walks back over entries without messages and may land on a label
  record; a fork drops label records, and the fork then has no context.
- `set_leaf` is not stored: after a restart the last record is the leaf, whatever branch was selected.
- `src/agent/session.n:1270`: `compacting` stays set when the repository throws in the middle of a compaction.
- `src/agent/types.n:193`: a delivered message is struck off the visible queue by its text, so of two equal
  texts the wrong entry may go; the run uses different texts.
- `src/agent/session.n:234`: `replace_repository` and `select_leaf` build the context with the lock held and
  without a catch; a session whose context cannot be built leaves the lock taken.
- `src/agent/session.n:1053`: an `abort_retry` between `auto_retry_start` and the registration of the retry
  token is lost; `1071`: with `retry_max_attempts = 0` an `auto_retry_end` comes without a start.
- Terminal. The first frame is drawn without the render lock; so are the marks of a run's progress, which fall
  between two parts of a painter's frame or into the shell's screen (`src/tui/session_view.n:620`, `713`, `3815`),
  and `MODIFY_OTHER_KEYS`, which a suspension does not turn off. While an editor runs, the reader still polls: it
  takes part of the input and sets O_NONBLOCK on the description the editor uses. If the terminal takes no output,
  the restore on the way out throws and raw mode stays on. The comment at `src/tui/session_view.n:2848-2850`
  describes a blocking reader, which it no longer is. A copy to the clipboard (`src/tui/session_view.n:5953-5960`)
  is written under the lock like a frame and has no action of its own.
- Configuration. `settings.save_to` and `trust.clear` read before they lock. Two coroutines of one process share
  the `fcntl` lock, and closing either descriptor releases it. A file that cannot be read counts as empty, and
  the next change drops every other entry. A refresh that finds its entry logged out stores the token all the
  same. A failing `fsync_parent` reports failure although the file was replaced. `remove_from_snapshot` marks
  the rest of an old snapshot valid. These excuse a loss in `NoLostUpdate` and are named there.
- Server. `finish_spawn` (`src/server/supervisor.n:112`) and `on_exit` test the status in one section and set it in
  another, and a start that fails sets EXITED without a test (97), so STOPPED may become ONLINE or EXITED,
  although no child runs. `watch_exit` does not close the input: a sender that waits for room there, with 128
  lines unread, waits for ever, which is why `RequestsReturn` is checked with room. A client may choose ids:
  two requests with one id get each other's answers, and `remove_pending` drops both. A stalled subscriber
  blocks `emit_line`. `upsert_instance` has no lock. A shutdown may exit while `finish_spawn` holds a child it
  has not attached.
- Agent turn. An abort during `send_once` takes effect when the request returns. The callbacks of finished
  commands stay registered, so that a later abort signals their process groups once more. 

## 8. Not modelled

The catalog, the requests of the providers, SSE and JSON parsing (input and output; only their outcomes appear; one
provider's control stands for all, which repeat it); drawing, editing and key decoding of the terminal
interface, context resources, export and SDK (sequential presentation); the four hooks of the agent loop and
the extension tables, which nothing in the repository sets; `next_turn_messages`; `loop.continue` except as a
step of PromptRun; migration, import and listing of sessions; SQLite, whose transactions are third-party
code; of the server the instances file, subscriptions, presence and the socket protocol; of the
configuration the merging of settings, `auth.reload`, and a throw of `mkdirs` or of the serializer under
the lock (`src/config/trust.n:234`, which keeps it); failures of `tcsetattr` and `tcflush` other than when
raw mode is entered. The small native helpers (Unicode, clipboard, file watching, peeking at standard input) keep
no state. Text, tokens, timestamps and usage are abstracted everywhere.

## 9. Open work

1. Migration of sessions with its truncation in place, and the instances file of the server.
2. `AlwaysBuilds` for sessions that are compacted only on the branch they were prepared from.
