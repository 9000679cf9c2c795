------------------------ MODULE OperationSlotProofs ------------------------
(***************************************************************************)
(* What the operation slot guarantees for any number of clients and calls. *)
(* A prompt releases the slot twice (run_prompt_inner, then run_prompt),   *)
(* and the second release can free the slot of the operation that came     *)
(* next.  Exclusion is proved for all executions in which no operation     *)
(* begins between the two releases of a prompt, among them all of those    *)
(* without prompts.                                                        *)
(*                                                                         *)
(* The second part is about the commands that reach a session through the  *)
(* session server (Supervisor), one process further away.                  *)
(***************************************************************************)
EXTENDS OperationSlot, Supervisor, SequenceTheorems, TLAPS

\* The calls that have reached a place are of a kind that can be there.
KindOK ==
    \A o \in Ops :
        /\ pc[o] \in {"signal", "wait"} => Kind[o] \in {"abort", "compact"}
        /\ pc[o] = "want" => Kind[o] = "compact"
        /\ pc[o] \in {"begun", "running", "finished"} => Kind[o] \in Background
        /\ pc[o] \in {"auth", "released", "failing"} => Kind[o] = "prompt"

TypeInv == TypeOK /\ KindOK

\* One step of call o, the disjuncts of Next named one by one.
StepOf(o) ==
    \/ AbortReads(o) \/ AbortSignals(o) \/ AbortWaits(o)
    \/ Rejected(o) \/ Begin(o) \/ Authenticated(o) \/ NoCredential(o)
    \/ NoSuchEntry(o) \/ Attach(o)
    \/ PromptReleases(o) \/ PromptFinishes(o) \/ PromptFails(o) \/ PromptFailed(o)
    \/ StreamEnds(o) \/ Releases(o)
    \/ NewSession(o) \/ NewSessionFails(o) \/ Replace(o) \/ ReplaceThrows(o)

\* Every step of the session is a step of one call (session.n, the operations
\* that take, hold or wait for the slot).
LEMMA NextIsStep ==
    ASSUME Next PROVE \E o \in Ops : StepOf(o)
BY DEF Next, Calls, Continues, Ends, StepOf

\* Every operation, prompts included, keeps the types.
LEMMA TypeStep ==
    ASSUME TypeInv, NEW o \in Ops, StepOf(o)
    PROVE  TypeInv'
<1> USE SlotAssumption DEF SlotAssumption, TypeInv, TypeOK, KindOK, slot, Calling, Over,
        Kinds, Background, Streams, Goto, EndOperation
<1>1. CASE AbortReads(o)
  BY <1>1 DEF AbortReads
<1>2. CASE AbortSignals(o)
  BY <1>2 DEF AbortSignals
<1>3. CASE AbortWaits(o)
  BY <1>3 DEF AbortWaits
<1>4. CASE Rejected(o)
  BY <1>4 DEF Rejected
<1>5. CASE Begin(o)
  BY <1>5 DEF Begin, Took, Wants
<1>6. CASE Authenticated(o)
  BY <1>6 DEF Authenticated
<1>7. CASE NoCredential(o)
  BY <1>7 DEF NoCredential
<1>8. CASE NoSuchEntry(o)
  BY <1>8 DEF NoSuchEntry
<1>9. CASE Attach(o)
  BY <1>9 DEF Attach
<1>10. CASE PromptReleases(o)
  BY <1>10 DEF PromptReleases
<1>11. CASE PromptFinishes(o)
  BY <1>11 DEF PromptFinishes
<1>12. CASE PromptFails(o)
  BY <1>12 DEF PromptFails
<1>13. CASE PromptFailed(o)
  BY <1>13 DEF PromptFailed
<1>14. CASE StreamEnds(o)
  BY <1>14 DEF StreamEnds
<1>15. CASE Releases(o)
  BY <1>15 DEF Releases
<1>16. CASE NewSession(o)
  BY <1>16 DEF NewSession
<1>17. CASE NewSessionFails(o)
  BY <1>17 DEF NewSessionFails
<1>18. CASE Replace(o)
  BY <1>18 DEF Replace
<1>19. CASE ReplaceThrows(o)
  BY <1>19 DEF ReplaceThrows
<1> QED
  BY <1>1, <1>2, <1>3, <1>4, <1>5, <1>6, <1>7, <1>8, <1>9, <1>10, <1>11, <1>12,
     <1>13, <1>14, <1>15, <1>16, <1>17, <1>18, <1>19 DEF StepOf

\* Types and places hold in every state of a session, prompts included.
LEMMA TypeInvHolds == Spec => []TypeInv
<1>1. Init => TypeInv
  BY SlotAssumption DEF SlotAssumption, Init, TypeInv, TypeOK, KindOK, Calling, Over, Streams
<1>2. TypeInv /\ [Next]_vars => TypeInv'
  <2>1. CASE Next
    BY <2>1, NextIsStep, TypeStep
  <2>2. CASE UNCHANGED vars
    BY <2>2 DEF vars, slot, TypeInv, TypeOK, KindOK
  <2> QED BY <2>1, <2>2
<1> QED BY <1>1, <1>2, PTL DEF Spec

\* The state of the slot keeps its types, whatever calls are made.
THEOREM TypeCorrect == Spec => []TypeOK
BY TypeInvHolds, PTL DEF TypeInv

----------------------------------------------------------------------------
\* The prompt has released the slot and will release it again.
Ending(p) == Kind[p] = "prompt" /\ pc[p] \in {"released", "finished"}

\* No operation takes the slot while a prompt is ending.
Calm == ~busy /\ busy' => \A p \in Ops : ~ Ending(p)
NothingBetweenReleases == [][Calm]_vars

\* The call has the slot.
Owns(o) ==
    \/ pc[o] \in {"auth", "begun", "running", "new"}
    \/ pc[o] = "finished" /\ Kind[o] # "prompt"

\* busy says that some call has the slot, and it is the only one; the stream
\* an abort finds is the one of the operation that has it; and the second
\* release of a prompt finds the slot free.
SlotInv ==
    /\ \A o \in Ops : Owns(o) => busy
    /\ \A o, p \in Ops : Owns(o) /\ Owns(p) => o = p
    /\ busy => \E o \in Ops : Owns(o)
    /\ \A o \in Ops : Owns(o) /\ pc[o] \in {"running", "finished"} => active = o
    /\ active # None => Owns(active) /\ pc[active] \in {"running", "finished"}
    /\ \A p \in Ops : Ending(p) => ~busy

\* The slot is taken by one and released by that one (begin_*_operation,
\* end_operation, replace_repository).
LEMMA SlotStep ==
    ASSUME TypeInv, SlotInv, Calm, NEW o \in Ops, StepOf(o)
    PROVE  SlotInv'
<1> USE SlotAssumption DEF SlotAssumption, TypeInv, TypeOK, KindOK, slot, Owns, Ending, SlotInv,
        Goto, Streams
<1>1. CASE AbortReads(o) \/ AbortSignals(o) \/ AbortWaits(o) \/ Rejected(o)
  <2>1. UNCHANGED slot
    BY <1>1 DEF AbortReads, AbortSignals, AbortWaits, Rejected
  <2>2. /\ pc[o] \in {"ready", "signal", "wait", "want"}
        /\ pc' = [pc EXCEPT ![o] = pc'[o]]
        /\ pc'[o] \in {"signal", "wait", "want", "done", "rejected"}
    BY <1>1 DEF AbortReads, AbortSignals, AbortWaits, Rejected, Wants, MayCall
  <2> QED BY <2>1, <2>2
<1>2. CASE Begin(o)
  <2>1. /\ ~busy /\ busy' /\ active' = active
        /\ pc' = [pc EXCEPT ![o] = Took(o)]
        /\ Took(o) \in {"auth", "begun", "new"}
    BY <1>2 DEF Begin, Took
  <2>2. active = None /\ \A p \in Ops : ~ Owns(p)
    BY <2>1
  <2>3. \A p \in Ops : ~ Ending(p)
    BY <2>1 DEF Calm
  <2> QED BY <2>1, <2>2, <2>3
<1>3. CASE Authenticated(o) \/ Attach(o)
  BY <1>3 DEF Authenticated, Attach
<1>4. CASE NoCredential(o)
  BY <1>4 DEF NoCredential
<1>5. CASE NoSuchEntry(o) \/ PromptReleases(o) \/ PromptFails(o)
  <2>1. Owns(o) /\ busy' = FALSE /\ active' = None
    BY <1>5 DEF NoSuchEntry, PromptReleases, PromptFails, EndOperation
  <2>2. /\ pc' = [pc EXCEPT ![o] = pc'[o]]
        /\ pc'[o] \in {"rejected", "released", "failing"}
    BY <1>5 DEF NoSuchEntry, PromptReleases, PromptFails
  <2> QED BY <2>1, <2>2
<1>6. CASE Releases(o)
  <2>1. pc[o] = "finished" /\ busy' = FALSE /\ active' = None /\ pc' = [pc EXCEPT ![o] = "done"]
    BY <1>6 DEF Releases, EndOperation
  <2>2. \A p \in Ops : p # o => ~ Owns(p)
    BY <2>1
  <2> QED BY <2>1, <2>2
<1>7. CASE PromptFinishes(o) \/ PromptFailed(o)
  BY <1>7 DEF PromptFinishes, PromptFailed
<1>8. CASE StreamEnds(o)
  BY <1>8 DEF StreamEnds
<1>9. CASE NewSession(o) \/ NewSessionFails(o)
  BY <1>9 DEF NewSession, NewSessionFails
<1>10. CASE Replace(o) \/ ReplaceThrows(o)
  BY <1>10 DEF Replace, ReplaceThrows, Wants, MayCall
<1> QED
  BY <1>1, <1>2, <1>3, <1>4, <1>5, <1>6, <1>7, <1>8, <1>9, <1>10 DEF StepOf

\* The slot invariant holds in every state of an execution in which nothing
\* begins between two releases.
LEMMA SlotInvHolds == Spec /\ NothingBetweenReleases => [](TypeInv /\ SlotInv)
<1>1. Init => SlotInv
  BY DEF Init, SlotInv, Owns, Ending
<1>2. TypeInv /\ SlotInv /\ [Next]_vars /\ [Calm]_vars => SlotInv'
  <2>1. CASE Next /\ Calm
    BY <2>1, NextIsStep, SlotStep
  <2>2. CASE UNCHANGED vars
    BY <2>2 DEF vars, slot, SlotInv, Owns, Ending
  <2> QED BY <2>1, <2>2
<1> QED BY <1>1, <1>2, TypeInvHolds, PTL DEF Spec, NothingBetweenReleases

\* A session in which nobody prompts is such an execution.
THEOREM PromptlessIsCalm ==
    ASSUME \A p \in Ops : Kind[p] # "prompt"
    PROVE  NothingBetweenReleases
<1>1. Calm
  BY DEF Calm, Ending
<1> QED BY <1>1, PTL DEF NothingBetweenReleases

\* begin_operation admits one operation at a time, for any number of clients
\* and whatever way the operations end.
THEOREM OperationsExclude == Spec /\ NothingBetweenReleases => []OneOperation
<1>1. SlotInv => OneOperation
  BY DEF SlotInv, OneOperation, Holding, Owns
<1> QED BY <1>1, SlotInvHolds, PTL

\* abort_active always finds the operation that runs.
THEOREM RunningCanBeAborted == Spec /\ NothingBetweenReleases => []RunningIsActive
<1>1. SlotInv => RunningIsActive
  BY DEF SlotInv, RunningIsActive, Owns
<1> QED BY <1>1, SlotInvHolds, PTL

\* No end of an operation leaves the session locked.
THEOREM IdleSessionIsFree == Spec /\ NothingBetweenReleases => []IdleIsFree
<1>1. TypeInv /\ SlotInv => IdleIsFree
  BY SlotAssumption DEF SlotAssumption, TypeInv, TypeOK, SlotInv, IdleIsFree, Owns, Over, Streams
<1> QED BY <1>1, SlotInvHolds, PTL

\* The repository is never replaced under an operation.
THEOREM RepositoryIsStable == Spec /\ NothingBetweenReleases => RepositoryStable
<1>1. TypeInv /\ SlotInv /\ [Next]_vars =>
        [repository' # repository =>
            \A o \in Ops : pc[o] \notin {"begun", "running"}]_vars
  <2> SUFFICES ASSUME TypeInv, SlotInv, Next, repository' # repository
               PROVE  \A o \in Ops : pc[o] \notin {"begun", "running"}
    OBVIOUS
  <2>1. PICK o \in Ops : StepOf(o)
    BY NextIsStep
  <2>2. NewSession(o) \/ Replace(o)
    BY <2>1 DEF StepOf, AbortReads, AbortSignals, AbortWaits, Rejected, Begin,
       Authenticated, NoCredential, NoSuchEntry, Attach, PromptReleases,
       PromptFinishes, PromptFails, PromptFailed, StreamEnds, Releases,
       NewSessionFails, ReplaceThrows
  <2>3. CASE NewSession(o)
    BY <2>3 DEF NewSession, SlotInv, Owns
  <2>4. CASE Replace(o)
    BY <2>4 DEF Replace, SlotInv, Owns
  <2> QED BY <2>2, <2>3, <2>4
<1> QED BY <1>1, SlotInvHolds, PTL DEF Spec, RepositoryStable

\* abort_and_wait returns only when no operation runs.
THEOREM AbortReturnsIdle == Spec /\ NothingBetweenReleases => AbortLeavesIdle
<1>1. TypeInv /\ SlotInv /\ [Next]_vars =>
        [\A o \in Ops : pc[o] = "wait" /\ pc'[o] # "wait" =>
            \A p \in Ops : pc[p] # "running"]_vars
  <2> SUFFICES ASSUME TypeInv, SlotInv, Next,
                      NEW q \in Ops, pc[q] = "wait", pc'[q] # "wait"
               PROVE  \A p \in Ops : pc[p] # "running"
    OBVIOUS
  <2>1. PICK o \in Ops : StepOf(o)
    BY NextIsStep
  <2>2. o = q
    <3>1. pc' = [pc EXCEPT ![o] = pc'[o]]
      BY <2>1 DEF StepOf, AbortReads, AbortSignals, AbortWaits, Rejected, Begin,
         Authenticated, NoCredential, NoSuchEntry, Attach, PromptReleases,
         PromptFinishes, PromptFails, PromptFailed, StreamEnds, Releases,
         NewSession, NewSessionFails, Replace, ReplaceThrows, Goto, TypeInv, TypeOK
    <3> QED BY <3>1 DEF TypeInv, TypeOK
  <2>3. AbortWaits(o)
    BY <2>1, <2>2 DEF StepOf, AbortReads, AbortSignals, Rejected, Begin, Wants,
       MayCall, Authenticated, NoCredential, NoSuchEntry, Attach, PromptReleases,
       PromptFinishes, PromptFails, PromptFailed, StreamEnds, Releases,
       NewSession, NewSessionFails, Replace, ReplaceThrows
  <2> QED BY <2>3 DEF AbortWaits, SlotInv, Owns
<1> QED BY <1>1, SlotInvHolds, PTL DEF Spec, AbortLeavesIdle

-----------------------------------------------------------------------------
(* The commands that go through the session server. *)

Unfinished == {"wait", "finish", "drain", "take"}

\* A request waits for an answer of the pump or of the watcher, not of both,
\* and for none before it is registered or when it has one.
RequestInv ==
    /\ result \in [Sends -> Seq({"ok", "bad", "exited"})]
    /\ send \in [Sends -> {"idle", "checked", "write", "wait", "ok", "error"}]
    /\ outq \in Seq(Sends \X {"ok", "bad"})
    /\ pending \subseteq Sends /\ taken \subseteq Sends /\ pending \cap taken = {}
    /\ \A s \in Sends :
         /\ send[s] \in {"idle", "checked"} => s \notin pending \cup taken /\ result[s] = <<>>
         /\ s \in pending \cup taken => result[s] = <<>>
         /\ Len(result[s]) <= 1

\* The requests registered are taken over when the process is marked exited,
\* and a request that was written is one of them or has its answer.
ExitInv ==
    /\ exited => pending = {}
    /\ watcher \in Unfinished => ~exited /\ taken = {}
    /\ watcher \notin Unfinished => exited
    /\ watcher \notin Unfinished \cup {"answer"} => taken = {}
    /\ \A s \in Sends : send[s] \in {"write", "wait"} =>
         s \in pending \cup taken \/ result[s] # <<>>

\* What the invariants speak of.
answers == <<outq, result, send, exited, pending, watcher, taken>>

\* The child, the stops and finish_spawn beside the handshake are of no
\* concern to the requests (rpc_process.n dispose, supervisor.n finish_spawn).
LEMMA OtherSteps ==
    ASSUME \/ ChildReads \/ ChildDies \/ PumpEnds
           \/ \E d \in Stops : Stop(d) \/ GetProcess(d)
           \/ \E d \in Disposers : Disposing(d)
           \/ StartFails \/ Start \/ SetProcess \/ HelloFails
           \/ Disposed \/ SetExited \/ HelloSucceeds
           \/ TestStarting \/ SetOnline
    PROVE  UNCHANGED answers
<1> USE DEF answers, proc, lines
<1>1. CASE ChildReads \/ ChildDies \/ PumpEnds
  BY <1>1 DEF ChildReads, ChildDies, PumpEnds
<1>2. CASE \E d \in Stops : Stop(d) \/ GetProcess(d)
  BY <1>2 DEF Stop, GetProcess, StopOnly
<1>3. CASE \E d \in Disposers : Disposing(d)
  BY <1>3 DEF Disposing, Dispose, Terminate, WaitDone,
     Timeout, Kill, StopOnly
<1>4. CASE \/ StartFails \/ Start \/ SetProcess \/ HelloFails
           \/ Disposed \/ SetExited \/ HelloSucceeds
           \/ TestStarting \/ SetOnline
  BY <1>4 DEF StartFails, Start, SetProcess, HelloFails,
     Disposed, SetExited, HelloSucceeds, TestStarting,
     SetOnline, SpawnerOnly
<1> QED BY <1>1, <1>2, <1>3, <1>4

\* Every way a request can go on, be answered or be given up keeps it waiting
\* for one answer (rpc_process.n send, dispatch_line and watch_exit).
LEMMA RequestStep ==
    ASSUME RequestInv, ServerNext PROVE RequestInv'
<1> USE DEF RequestInv, SendGoes
<1>1. CASE UNCHANGED answers
  BY <1>1 DEF answers
<1>2. ASSUME NEW s \in Sends, send[s] = "idle",
             send' = [send EXCEPT ![s] = "checked"] \/ send' = [send EXCEPT ![s] = "error"],
             UNCHANGED <<outq, result, pending, taken>>
      PROVE  RequestInv'
  BY <1>2
<1>3. ASSUME NEW c \in Commands, Accept(c) PROVE RequestInv'
  BY <1>2, <1>3 DEF Accept, Sends, proc, lines
<1>4. ASSUME NEW c \in Refreshing, Refresh(c) PROVE RequestInv'
  BY <1>2, <1>4 DEF Refresh, Sends, proc, lines
<1>5. ASSUME NEW s \in Sends, Register(s) PROVE RequestInv'
  BY <1>5 DEF Register, lines
<1>6. ASSUME NEW s \in Sends, Write(s) PROVE RequestInv'
  BY <1>6 DEF Write
<1>7. ASSUME NEW s \in Sends, Receive(s) PROVE RequestInv'
  BY <1>7 DEF Receive, proc, lines
<1>8. ASSUME NEW s \in Sends, NEW answer \in {"ok", "bad"}, ChildAnswers(s, answer)
      PROVE  RequestInv'
  BY <1>8 DEF ChildAnswers, proc
<1>9. CASE Dispatch
  <2>1. outq' \in Seq(Sends \X {"ok", "bad"}) /\ Head(outq) \in Sends \X {"ok", "bad"}
    BY <1>9, HeadTailProperties DEF Dispatch
  <2>2. UNCHANGED <<send, taken>>
    BY <1>9 DEF Dispatch
  <2>3. CASE UNCHANGED <<pending, result>>
    BY <2>1, <2>2, <2>3
  <2>4. ASSUME NEW s \in Matching(Head(outq)), pending' = pending \ {s},
               result' = [result EXCEPT ![s] = Append(@, Head(outq)[2])]
        PROVE  RequestInv'
    <3>1. s \in pending /\ result[s] = <<>> /\ Head(outq)[2] \in {"ok", "bad"}
      BY <2>1, <2>4 DEF Matching
    <3>2. result'[s] = <<Head(outq)[2]>> /\ Len(result'[s]) = 1
      BY <3>1, <2>4
    <3>3. \A t \in Sends \ {s} : result'[t] = result[t]
      BY <2>4
    <3>4. result' \in [Sends -> Seq({"ok", "bad", "exited"})]
      BY <3>1, <2>4
    <3>5. pending' \subseteq pending /\ s \notin pending' \cup taken'
      BY <3>1, <2>2, <2>4
    <3>6. send[s] \notin {"idle", "checked"}
      BY <3>1
    <3>7. ASSUME NEW t \in Sends
          PROVE  /\ send'[t] \in {"idle", "checked"} =>
                      t \notin pending' \cup taken' /\ result'[t] = <<>>
                 /\ t \in pending' \cup taken' => result'[t] = <<>>
                 /\ Len(result'[t]) <= 1
      <4>1. CASE t = s
        BY <4>1, <2>2, <3>2, <3>5, <3>6
      <4>2. CASE t # s
        BY <4>2, <2>2, <3>3, <3>5
      <4> QED BY <4>1, <4>2
    <3> HIDE DEF SendGoes
    <3> QED BY <2>1, <2>2, <3>1, <3>4, <3>5, <3>7
  <2> QED BY <1>9, <2>3, <2>4 DEF Dispatch
<1>10. CASE TakePending
  BY <1>10 DEF TakePending, WatcherOnly, lines
<1>11. CASE AnswerTaken
  <2>1. UNCHANGED <<outq, send, pending>> /\ taken' = {}
    BY <1>11 DEF AnswerTaken, WatcherOnly, lines, proc
  <2>2. result' = [s \in Sends |-> IF s \in taken THEN Append(result[s], "exited") ELSE result[s]]
    BY <1>11 DEF AnswerTaken
  <2>3. ASSUME NEW s \in Sends
        PROVE  /\ result'[s] \in Seq({"ok", "bad", "exited"}) /\ Len(result'[s]) <= 1
               /\ s \notin taken => result'[s] = result[s]
    <3>1. CASE s \in taken
      <4>1. result[s] = <<>> /\ result'[s] = Append(<<>>, "exited")
        BY <2>2, <3>1
      <4> QED BY <4>1, <3>1
    <3>2. CASE s \notin taken
      BY <2>2, <3>2
    <3> QED BY <3>1, <3>2
  <2>4. result' \in [Sends -> Seq({"ok", "bad", "exited"})]
    BY <2>2, <2>3
  <2>5. ASSUME NEW s \in Sends
        PROVE  /\ send'[s] \in {"idle", "checked"} =>
                    s \notin pending' \cup taken' /\ result'[s] = <<>>
               /\ s \in pending' \cup taken' => result'[s] = <<>>
    BY <2>1, <2>3
  <2> QED BY <2>1, <2>3, <2>4, <2>5
<1>12. CASE \/ Reap \/ Finish \/ Drained \/ CloseDone
            \/ OnExitCheck \/ OnExit
  BY <1>12 DEF Reap, Finish, Drained, CloseDone,
     OnExitCheck, OnExit, WatcherOnly, lines, proc
<1>13. CASE CheckStopped
  <2>1. Hello \in Sends
    BY DEF Hello, Sends
  <2> QED BY <1>2, <1>13, <2>1 DEF CheckStopped, SpawnerOnly, lines, proc
<1> QED BY OtherSteps, <1>1, <1>3, <1>4, <1>5, <1>6, <1>7, <1>8, <1>9, <1>10, <1>11, <1>12, <1>13
    DEF ServerNext, Pump, Watch, Spawn

\* A request waits for at most one answer at any time (rpc_process.n, the list
\* of pending requests and what watch_exit takes from it).
THEOREM RequestInvHolds == ServerSpec => []RequestInv
<1>1. ServerInit => RequestInv
  BY DEF ServerInit, RequestInv
<1>2. RequestInv /\ [ServerNext]_serverVars => RequestInv'
  <2>1. RequestInv /\ UNCHANGED serverVars => RequestInv'
    BY DEF RequestInv, serverVars, proc, lines
  <2> QED BY <2>1, RequestStep
<1> QED BY <1>1, <1>2, PTL DEF ServerSpec

\* Whatever the race between an answer of the child, its exit and a stop, a
\* result channel never gets a second value: the pump and the watcher do not
\* block on it (rpc_process.n dispatch_line and watch_exit).  Clients may
\* choose any ids, and several of them the same one.
THEOREM NoSecondAnswer == ServerSpec => []OneAnswer
<1>1. RequestInv => OneAnswer
  BY DEF RequestInv, OneAnswer
<1> QED BY <1>1, RequestInvHolds, PTL

DistinctIds == \A s, t \in Sends : Id[s] = Id[t] => s = t

\* No step forgets a request that is on its way, if it alone has its id.
LEMMA ExitStep ==
    ASSUME DistinctIds, RequestInv, ExitInv, ServerNext PROVE ExitInv'
<1> USE DEF ExitInv, Unfinished, SendGoes
<1> DEFINE sending == send \in [Sends -> {"idle", "checked", "write", "wait", "ok", "error"}]
<1>0. sending /\ pending \subseteq Sends
  BY DEF RequestInv
<1>1. CASE UNCHANGED answers
  BY <1>1 DEF answers
<1>2. ASSUME NEW s \in Sends, NEW to \in {"checked", "error", "ok"},
             send' = [send EXCEPT ![s] = to],
             UNCHANGED <<outq, result, exited, pending, watcher, taken>>
      PROVE  ExitInv'
  BY <1>0, <1>2
<1>3. ASSUME NEW c \in Commands, Accept(c) PROVE ExitInv'
  BY <1>2, <1>3 DEF Accept, Sends, proc, lines
<1>4. ASSUME NEW c \in Refreshing, Refresh(c) PROVE ExitInv'
  BY <1>2, <1>4 DEF Refresh, Sends, proc, lines
<1>5. ASSUME NEW s \in Sends, Register(s) PROVE ExitInv'
  <2>1. CASE exited \/ stopping
    BY <1>2, <1>5, <2>1 DEF Register, lines
  <2>2. CASE ~(exited \/ stopping)
    BY <1>0, <1>5, <2>2 DEF Register
  <2> QED BY <2>1, <2>2
<1>6. ASSUME NEW s \in Sends, Write(s) PROVE ExitInv'
  <2>1. UNCHANGED <<result, exited, watcher, taken>>
    BY <1>6 DEF Write
  <2>2. CASE stopping
    <3>1. send' = [send EXCEPT ![s] = "error"] /\ pending' = pending \ {s}
      BY <1>0, <1>6, <2>2 DEF Write, DistinctIds
    <3> QED BY <1>0, <2>1, <3>1
  <2>3. CASE ~stopping
    BY <1>0, <1>6, <2>1, <2>3 DEF Write
  <2> QED BY <2>2, <2>3
<1>7. ASSUME NEW s \in Sends, Receive(s) PROVE ExitInv'
  BY <1>2, <1>7 DEF Receive, proc, lines
<1>8. ASSUME NEW s \in Sends, NEW answer \in {"ok", "bad"}, ChildAnswers(s, answer)
      PROVE  ExitInv'
  BY <1>8 DEF ChildAnswers, proc
<1>9. CASE Dispatch
  <2>1. UNCHANGED <<send, taken, exited, watcher>>
    BY <1>9 DEF Dispatch
  <2>2. CASE UNCHANGED <<pending, result>>
    BY <2>1, <2>2
  <2>3. ASSUME NEW s \in Matching(Head(outq)), pending' = pending \ {s},
               result' = [result EXCEPT ![s] = Append(@, Head(outq)[2])]
        PROVE  ExitInv'
    <3>1. s \in Sends /\ result[s] = <<>> /\ result \in [Sends -> Seq({"ok", "bad", "exited"})]
      BY <2>3 DEF Matching, RequestInv
    <3>2. result'[s] = Append(<<>>, Head(outq)[2]) /\ result'[s] # <<>>
      BY <2>3, <3>1
    <3>3. \A t \in Sends \ {s} : result'[t] = result[t]
      BY <2>3, <3>1
    <3>4. ASSUME NEW t \in Sends, send'[t] \in {"write", "wait"}
          PROVE  t \in pending' \cup taken' \/ result'[t] # <<>>
      BY <2>1, <2>3, <3>2, <3>3, <3>4
    <3> QED BY <2>1, <2>3, <3>4
  <2> QED BY <1>9, <2>2, <2>3 DEF Dispatch
<1>10. CASE TakePending
  BY <1>10 DEF TakePending, WatcherGoes, WatcherOnly
<1>11. CASE AnswerTaken
  <2>1. UNCHANGED <<send, pending, exited>> /\ taken' = {} /\ watcher' = "done" /\ watcher = "answer"
    BY <1>11 DEF AnswerTaken, WatcherOnly, WatcherGoes, proc
  <2>2. result' = [s \in Sends |-> IF s \in taken THEN Append(result[s], "exited") ELSE result[s]]
    BY <1>11 DEF AnswerTaken
  <2>3. ASSUME NEW s \in Sends, send'[s] \in {"write", "wait"}
        PROVE  s \in pending' \cup taken' \/ result'[s] # <<>>
    <3>1. CASE s \in taken
      <4>1. result[s] = <<>>
        BY <3>1 DEF RequestInv
      <4>2. result'[s] = Append(<<>>, "exited")
        BY <2>2, <3>1, <4>1
      <4> QED BY <4>2
    <3>2. CASE s \notin taken
      BY <2>1, <2>2, <2>3, <3>2
    <3> QED BY <3>1, <3>2
  <2> QED BY <2>1, <2>3
<1>12. CASE \/ Reap \/ Finish \/ Drained \/ CloseDone
            \/ OnExitCheck \/ OnExit
  BY <1>12 DEF Reap, Finish, Drained, CloseDone, OnExitCheck,
     OnExit, WatcherGoes, WatcherOnly, proc
<1>13. CASE CheckStopped
  <2>1. Hello \in Sends
    BY DEF Hello, Sends
  <2>2. UNCHANGED <<outq, result, exited, pending, watcher, taken>>
    BY <1>13 DEF CheckStopped, SpawnerOnly, lines, proc
  <2> QED BY <1>1, <1>2, <1>13, <2>1, <2>2 DEF CheckStopped, answers
<1> QED BY OtherSteps, <1>1, <1>3, <1>4, <1>5, <1>6, <1>7, <1>8, <1>9, <1>10, <1>11, <1>12, <1>13
    DEF ServerNext, Pump, Watch, Spawn

\* When watch_exit has closed done (rpc_process.n:297) no request is left on
\* the list and every request that was registered has an answer to read.
AnsweredAtExit ==
    watcher \in {"check", "exit", "end"} =>
        /\ pending = {}
        /\ \A s \in Sends : send[s] \in {"write", "wait"} => result[s] # <<>>

\* The exit of the child forgets no request, also one that registers, is
\* answered or is written while watch_exit is at work (rpc_process.n send and
\* watch_exit), as long as no two requests have the same id.
THEOREM ExitForgetsNoRequest ==
    ASSUME DistinctIds PROVE ServerSpec => []AnsweredAtExit
<1>1. ServerInit => ExitInv
  BY DEF ServerInit, ExitInv, Unfinished
<1>2. RequestInv /\ ExitInv /\ [ServerNext]_serverVars => ExitInv'
  <2>1. ExitInv /\ UNCHANGED serverVars => ExitInv'
    BY DEF ExitInv, serverVars, proc
  <2> QED BY <2>1, ExitStep
<1>3. ExitInv => AnsweredAtExit
  BY DEF ExitInv, Unfinished, AnsweredAtExit
<1> QED BY <1>1, <1>2, <1>3, RequestInvHolds, PTL DEF ServerSpec

-----------------------------------------------------------------------------
(* The stops of an instance. *)

\* A child whose instance was stopped is dead, or SIGKILL was sent to it, or
\* finish_spawn still holds it and will see that the instance was stopped, or
\* is disposing of it.
LeavesNoChild ==
    \A d \in Stops : stop[d] = "end" =>
        \/ child # "runs" \/ killed
        \/ spawner \in {"attach", "check"} /\ status = "stopped"
        \/ spawner = "disposing" /\ stop[Spawner] \notin {"idle", "end"}

\* Which process a stop finds depends on where finish_spawn stands; the watcher
\* is through with a child that is dead; and a disposal that has ended saw the
\* process marked exited, waited for done, or sent SIGKILL.
StopInv ==
    /\ stop \in [Disposers -> {"idle", "get", "dispose", "term", "wait", "kill", "wait2", "end"}]
    /\ spawner = "start" => child = "none"
    /\ process \/ spawner \in {"start", "attach"} \/ child = "none"
    /\ exited \/ done => watcher # "wait"
    /\ watcher # "wait" => child = "dead"
    /\ spawner \in {"start", "attach", "check", "hello"} => stop[Spawner] = "idle"
    /\ spawner = "disposing" => stop[Spawner] # "idle"
    /\ stop[Spawner] # "get"
    /\ stop[Spawner] = "end" => child # "runs" \/ killed
    /\ \A d \in Disposers : stop[d] = "wait2" => killed
    /\ \A d \in Stops :
         /\ stop[d] # "idle" /\ spawner \in {"start", "attach", "check"} =>
              status = "stopped" \/ child = "dead"
         /\ stop[d] = "end" =>
              \/ child # "runs" \/ killed \/ spawner \in {"attach", "check"}
              \/ spawner = "disposing" /\ stop[Spawner] # "end"

\* What StopInv speaks of.
lifecycle == <<instance, kernel, exited, done, spawner, watcher, stop>>

\* The requests and their answers are of no concern to the stops.
LEMMA RequestSteps ==
    ASSUME \/ \E c \in Commands : Accept(c)
           \/ \E c \in Refreshing : Refresh(c)
           \/ \E s \in Sends : Register(s) \/ Write(s) \/ Receive(s)
           \/ ChildReads \/ Pump
           \/ \E s \in Sends, answer \in {"ok", "bad"} : ChildAnswers(s, answer)
    PROVE  UNCHANGED lifecycle
<1> USE DEF lifecycle, proc, closed
<1>1. CASE \E c \in Commands : Accept(c)
  BY <1>1 DEF Accept
<1>2. CASE \E c \in Refreshing : Refresh(c)
  BY <1>2 DEF Refresh
<1>3. CASE \E s \in Sends : Register(s) \/ Write(s) \/ Receive(s)
  BY <1>3 DEF Register, Write, Receive
<1>4. CASE ChildReads \/ Pump
  BY <1>4 DEF ChildReads, Pump, Dispatch, PumpEnds
<1>5. CASE \E s \in Sends, answer \in {"ok", "bad"} : ChildAnswers(s, answer)
  BY <1>5 DEF ChildAnswers
<1> QED BY <1>1, <1>2, <1>3, <1>4, <1>5

\* Whenever a stop comes, before the child is started, before set_process, or
\* during the handshake, its end leaves the child to nobody but finish_spawn
\* (supervisor.n stop and finish_spawn, rpc_process.n dispose).
LEMMA StopStep ==
    ASSUME StopInv, ServerNext PROVE StopInv'
<1> USE DEF StopInv
<1>1. Spawner \in Disposers /\ Stops \subseteq Disposers /\ Spawner \notin Stops
  BY SupervisorAssumption DEF SupervisorAssumption, Disposers
<1>2. CASE UNCHANGED lifecycle
  BY <1>2 DEF lifecycle, instance, kernel
<1>3. CASE ChildDies
  BY <1>3 DEF ChildDies, instance, proc, closed
<1>4. CASE Watch
  <2>1. UNCHANGED <<child, killed, spawner, stop, process>>
    BY <1>4 DEF Watch, Reap, Finish, Drained, TakePending, AnswerTaken, CloseDone,
       OnExitCheck, OnExit, WatcherOnly, instance, kernel
  <2>2. child = "dead" /\ watcher' # "wait"
    BY <1>4 DEF Watch, Reap, Finish, Drained, TakePending, AnswerTaken, CloseDone,
       OnExitCheck, OnExit, WatcherGoes
  <2> QED BY <2>1, <2>2
<1>5. ASSUME NEW d \in Stops, Stop(d) PROVE StopInv'
  BY <1>1, <1>5 DEF Stop, StopGoes, StopOnly, kernel, proc, closed
<1>6. ASSUME NEW d \in Stops, GetProcess(d) PROVE StopInv'
  BY <1>1, <1>6 DEF GetProcess, StopGoes, StopOnly, instance, kernel, proc, closed
<1>7. ASSUME NEW d \in Disposers, Disposing(d) PROVE StopInv'
  <2>1. /\ UNCHANGED <<status, process, child, exited, done, spawner, watcher>>
        /\ killed => killed'
    BY <1>7 DEF Disposing, Dispose, Terminate, WaitDone, Timeout, Kill, StopOnly,
       instance, kernel, proc, closed
  <2>2. PICK to \in {"term", "wait", "kill", "wait2", "end"} :
          /\ stop' = [stop EXCEPT ![d] = to]
          /\ stop[d] \in {"dispose", "term", "wait", "kill", "wait2"}
          /\ to = "wait2" => killed'
          /\ to = "end" => child = "dead" \/ killed'
    BY <1>7 DEF Disposing, Dispose, Terminate, WaitDone, Timeout, Kill, StopGoes, kernel
  <2> QED BY <1>1, <2>1, <2>2
<1>8. CASE Spawn
  <2>1. CASE CheckStopped
    BY <1>1, <2>1 DEF CheckStopped, SpawnerGoes, StopGoes, SpawnerOnly, instance, proc, closed
  <2>2. CASE HelloFails
    BY <1>1, <2>2 DEF HelloFails, SpawnerGoes, StopGoes, SpawnerOnly, instance, proc, closed
  <2>3. CASE Disposed
    BY <1>1, <2>3 DEF Disposed, SpawnerGoes, SpawnerOnly, instance, proc, closed
  <2>4. CASE Start
    BY <1>1, <2>4 DEF Start, SpawnerGoes, SpawnerOnly, instance, proc, closed
  <2>5. CASE SetProcess
    BY <1>1, <2>5 DEF SetProcess, SpawnerGoes, SpawnerOnly, proc, closed
  <2>6. CASE \/ StartFails \/ SetExited \/ HelloSucceeds \/ TestStarting \/ SetOnline
    BY <1>1, <2>6 DEF StartFails, SetExited, HelloSucceeds, TestStarting, SetOnline,
       SpawnerGoes, SpawnerOnly, instance, proc, closed
  <2> QED BY <1>8, <2>1, <2>2, <2>3, <2>4, <2>5, <2>6 DEF Spawn
<1> QED BY RequestSteps, <1>2, <1>3, <1>4, <1>5, <1>6, <1>7, <1>8 DEF ServerNext

\* No child survives its stop: when a stop has ended, the child is dead or was
\* sent SIGKILL, unless finish_spawn has not passed its test of the status yet
\* or is disposing of the child itself.  It is the safety half of StopKills.
THEOREM StopsLeaveNoChild == ServerSpec => []LeavesNoChild
<1>1. ServerInit => StopInv
  BY DEF ServerInit, StopInv, Disposers
<1>2. StopInv /\ [ServerNext]_serverVars => StopInv'
  <2>1. StopInv /\ UNCHANGED serverVars => StopInv'
    BY DEF StopInv, serverVars, instance, kernel, proc, closed
  <2> QED BY <2>1, StopStep
<1>3. StopInv => LeavesNoChild
  BY DEF StopInv, LeavesNoChild
<1> QED BY <1>1, <1>2, <1>3, PTL DEF ServerSpec
=============================================================================
