--------------------------- MODULE OperationSlot ---------------------------
(***************************************************************************)
(* The operation slot of a session (src/agent/session.n): `busy` admits    *)
(* one operation at a time, `active_stream` names the one an abort would   *)
(* cancel.  Prompts, manual compactions, tree navigations with a summary   *)
(* and user bash commands run in coroutines of their own and give the slot *)
(* back when they end; session switches take it for their own duration.    *)
(*                                                                         *)
(* Each step is one critical section of runner_t.lock or one call on a     *)
(* stream.                                                                 *)
(***************************************************************************)
CONSTANTS
    Ops,        \* the calls made on the session
    Clients,    \* who makes them: the RPC loop, the TUI, users of the SDK
    Kind,       \* what each call is
    Owner,      \* who makes it
    Unloadable, \* switches to a session whose context cannot be built
    None        \* no operation

Kinds == {"prompt", "compact", "tree", "bash", "new", "replace", "abort"}

ASSUME SlotAssumption ==
    /\ Kind \in [Ops -> Kinds] /\ Owner \in [Ops -> Clients]
    /\ Unloadable \subseteq Ops
    /\ None \notin Ops

VARIABLES
    busy,           \* runner_t.busy
    active,         \* runner_t.active_stream
    repository,     \* the call that installed runner_t.repository
    held,           \* runner_t.lock is held by a call that has thrown
    pc,             \* where each call stands
    target,         \* the stream a call of abort_active has read
    cancelled       \* operations whose stream was aborted

slot == <<busy, active>>
vars == <<slot, repository, held, pc, target, cancelled>>

\* The operations with a coroutine and a stream.
Background == {"prompt", "compact", "tree", "bash"}
Streams == {o \in Ops : Kind[o] \in Background}

Init ==
    /\ busy = FALSE /\ active = None
    /\ repository = None /\ held = FALSE
    /\ pc = [o \in Ops |-> "ready"]
    /\ target = [o \in Ops |-> None]
    /\ cancelled = {}

\* Where a call has not returned yet, and where all is over.
Calling == {"signal", "wait", "want", "auth", "begun", "new"}
Over == {"rejected", "done"}

\* A client makes its calls one after the other.
MayCall(o) ==
    /\ pc[o] = "ready"
    /\ \A p \in Ops : Owner[p] = Owner[o] => pc[p] \notin Calling

Goto(o, l) == pc' = [pc EXCEPT ![o] = l]

\* end_operation
EndOperation == busy' = FALSE /\ active' = None

----------------------------------------------------------------------------
(* abort_and_wait, which compact_now calls first *)

AbortReads(o) ==
    /\ MayCall(o) /\ ~held
    /\ Kind[o] \in {"abort", "compact"}
    /\ target' = [target EXCEPT ![o] = active]
    /\ Goto(o, "signal")
    /\ UNCHANGED <<slot, repository, held, cancelled>>

\* Mutant: the wait without the signal.
AbortSignalsNothing(o) ==
    /\ pc[o] = "signal"
    /\ Goto(o, "wait")
    /\ UNCHANGED <<slot, repository, held, target, cancelled>>

AbortSignals(o) ==
    /\ pc[o] = "signal"
    /\ cancelled' = cancelled \cup ({target[o]} \ {None})
    /\ Goto(o, "wait")
    /\ UNCHANGED <<slot, repository, held, target>>

\* Mutant: whoever waits for the slot does not look at it.
AbortWaitsNot(o) ==
    /\ pc[o] = "wait" /\ ~held
    /\ Goto(o, IF Kind[o] = "compact" THEN "want" ELSE "done")
    /\ UNCHANGED <<slot, repository, held, target, cancelled>>

AbortWaits(o) ==
    /\ pc[o] = "wait" /\ ~held
    /\ ~busy
    /\ Goto(o, IF Kind[o] = "compact" THEN "want" ELSE "done")
    /\ UNCHANGED <<slot, repository, held, target, cancelled>>

----------------------------------------------------------------------------
(* Taking the slot *)

Wants(o) ==
    \/ pc[o] = "want"
    \/ MayCall(o) /\ Kind[o] \in {"prompt", "tree", "bash", "new", "replace"}

\* begin_operation, begin_prompt_operation, start_new_session_with_parent and
\* replace_repository throw.
Rejected(o) ==
    /\ Wants(o) /\ ~held
    /\ busy
    /\ Goto(o, "rejected")
    /\ UNCHANGED <<slot, repository, held, target, cancelled>>

Took(o) ==
    IF Kind[o] = "prompt" THEN "auth" ELSE IF Kind[o] = "new" THEN "new" ELSE "begun"

\* Mutant: the slot is tested but taken only when the stream is attached.
BeginChecksOnly(o) ==
    /\ Wants(o) /\ ~held
    /\ ~busy /\ Kind[o] # "replace"
    /\ Goto(o, Took(o))
    /\ UNCHANGED <<slot, repository, held, target, cancelled>>

Begin(o) ==
    /\ Wants(o) /\ ~held
    /\ ~busy /\ Kind[o] # "replace"
    /\ busy' = TRUE
    /\ Goto(o, Took(o))
    /\ UNCHANGED <<active, repository, held, target, cancelled>>

\* The credential is looked up without the lock.
Authenticated(o) ==
    /\ pc[o] = "auth" /\ ~held
    /\ Goto(o, "begun")
    /\ UNCHANGED <<slot, repository, held, target, cancelled>>

NoCredential(o) ==
    /\ pc[o] = "auth" /\ ~held
    /\ busy' = FALSE
    /\ Goto(o, "rejected")
    /\ UNCHANGED <<active, repository, held, target, cancelled>>

\* inspect_tree_target throws.
NoSuchEntry(o) ==
    /\ pc[o] = "begun" /\ ~held
    /\ Kind[o] = "tree"
    /\ EndOperation
    /\ Goto(o, "rejected")
    /\ UNCHANGED <<repository, held, target, cancelled>>

\* Mutant: the stream of the operation is not attached.
AttachForgotten(o) ==
    /\ pc[o] = "begun" /\ ~held
    /\ Goto(o, "running")
    /\ UNCHANGED <<slot, repository, held, target, cancelled>>

\* active_stream = stream, attach_stream; the coroutine starts.
Attach(o) ==
    /\ pc[o] = "begun" /\ ~held
    /\ active' = o
    /\ Goto(o, "running")
    /\ UNCHANGED <<busy, repository, held, target, cancelled>>

----------------------------------------------------------------------------
(* The operation's coroutine *)

\* run_prompt_inner releases the slot before it finishes the stream, and
\* run_prompt releases it again.
PromptReleases(o) ==
    /\ pc[o] = "running" /\ ~held
    /\ Kind[o] = "prompt"
    /\ EndOperation
    /\ Goto(o, "released")
    /\ UNCHANGED <<repository, held, target, cancelled>>

PromptFinishes(o) ==
    /\ pc[o] = "released"
    /\ Goto(o, "finished")
    /\ UNCHANGED <<slot, repository, held, target, cancelled>>

\* run_prompt's catch: the slot once, and then the stream.
PromptFails(o) ==
    /\ pc[o] = "running" /\ ~held
    /\ Kind[o] = "prompt"
    /\ EndOperation
    /\ Goto(o, "failing")
    /\ UNCHANGED <<repository, held, target, cancelled>>

PromptFailed(o) ==
    /\ pc[o] = "failing"
    /\ Goto(o, "done")
    /\ UNCHANGED <<slot, repository, held, target, cancelled>>

\* The other operations finish or fail their stream first.
StreamEnds(o) ==
    /\ pc[o] = "running"
    /\ Kind[o] \in Background \ {"prompt"}
    /\ Goto(o, "finished")
    /\ UNCHANGED <<slot, repository, held, target, cancelled>>

\* The last statement of the coroutine.
Releases(o) ==
    /\ pc[o] = "finished" /\ ~held
    /\ EndOperation
    /\ Goto(o, "done")
    /\ UNCHANGED <<repository, held, target, cancelled>>

----------------------------------------------------------------------------
(* Session switches *)

\* start_new_session_with_parent: the new file was written, or was not.
NewSession(o) ==
    /\ pc[o] = "new" /\ ~held
    /\ repository' = o
    /\ busy' = FALSE
    /\ Goto(o, "done")
    /\ UNCHANGED <<active, held, target, cancelled>>

NewSessionFails(o) ==
    /\ pc[o] = "new" /\ ~held
    /\ busy' = FALSE
    /\ Goto(o, "rejected")
    /\ UNCHANGED <<active, repository, held, target, cancelled>>

\* Mutant: the slot is not looked at.
ReplaceAlways(o) ==
    /\ Wants(o) /\ ~held
    /\ Kind[o] = "replace" /\ o \notin Unloadable
    /\ repository' = o
    /\ Goto(o, "done")
    /\ UNCHANGED <<slot, held, target, cancelled>>

\* replace_repository and select_leaf, all under the lock.
Replace(o) ==
    /\ Wants(o) /\ ~held
    /\ ~busy
    /\ Kind[o] = "replace" /\ o \notin Unloadable
    /\ repository' = o
    /\ Goto(o, "done")
    /\ UNCHANGED <<slot, held, target, cancelled>>

\* The error of build_context is not caught and leaves the lock taken.
ReplaceThrows(o) ==
    /\ Wants(o) /\ ~held
    /\ ~busy
    /\ Kind[o] = "replace" /\ o \in Unloadable
    /\ held' = TRUE
    /\ Goto(o, "rejected")
    /\ UNCHANGED <<slot, repository, target, cancelled>>

----------------------------------------------------------------------------
\* The end of an operation's own work, which only an abort makes certain.
Ends(o) == PromptReleases(o) \/ PromptFails(o) \/ StreamEnds(o)

\* Calls a client may make or not.
Calls(o) ==
    \/ AbortReads(o)
    \/ MayCall(o) /\ (Rejected(o) \/ Begin(o))
    \/ Replace(o) \/ ReplaceThrows(o)

\* What follows a call once it was made.
Continues(o) ==
    \/ AbortSignals(o) \/ AbortWaits(o)
    \/ pc[o] = "want" /\ (Rejected(o) \/ Begin(o))
    \/ Authenticated(o) \/ NoCredential(o) \/ NoSuchEntry(o) \/ Attach(o)
    \/ PromptFinishes(o) \/ PromptFailed(o) \/ Releases(o)
    \/ NewSession(o) \/ NewSessionFails(o)

Next == \E o \in Ops : Calls(o) \/ Continues(o) \/ Ends(o)

Spec == Init /\ [][Next]_vars

\* Coroutines are scheduled, and an aborted operation ends.
FairSpec ==
    /\ Spec
    /\ \A o \in Ops : WF_vars(Continues(o)) /\ WF_vars(o \in cancelled /\ Ends(o))

----------------------------------------------------------------------------
(* Properties *)

\* The operation has the session to itself.
Holding == {"auth", "begun", "running", "new"}

TypeOK ==
    /\ busy \in BOOLEAN /\ held \in BOOLEAN
    /\ active \in Streams \cup {None} /\ repository \in Ops \cup {None}
    /\ pc \in [Ops -> 
                 Calling \cup Over
                 \cup {"ready", "running", "released", "failing", "finished"}]
    /\ target \in [Ops -> Streams \cup {None}]
    /\ cancelled \subseteq Streams

\* The comment of begin_prompt_operation: the slot is reserved so that no two
\* callers pass the check.
OneOperation ==
    \A o, p \in Ops : pc[o] \in Holding /\ pc[p] \in Holding => o = p

\* abort_active finds the operation that runs (the comment of attach_stream).
RunningIsActive == \A o \in Ops : pc[o] = "running" => active = o

\* The comment of run_manual_compaction: no way an operation can end leaves
\* the session locked.
IdleIsFree ==
    (\A o \in Ops : pc[o] \in Over \cup {"ready"}) => ~busy /\ active = None

\* An operation ends on the repository it started on: no switch comes between
\* its steps (its messages go to runner.repository as it is at the time).
RepositoryStable ==
    [][repository' # repository =>
          \A o \in Ops : pc[o] \notin {"begun", "running"}]_vars

\* abort_and_wait returns when nothing runs (its comment: only after the
\* session becomes idle).
AbortLeavesIdle ==
    [][\A o \in Ops : pc[o] = "wait" /\ pc'[o] # "wait" =>
          \A p \in Ops : pc[p] # "running"]_vars

\* Every call returns, and every operation that was aborted ends.
CallsReturn ==
    \A o \in Ops :
        /\ pc[o] \in Calling ~> pc[o] \notin Calling
        /\ o \in cancelled ~> pc[o] \in Over
============================================================================
