------------------------ MODULE SessionStreamProofs ------------------------
(***************************************************************************)
(* Proofs about SessionStream, for any callers, and about the three        *)
(* coroutines of RpcPrompt that call it.                                   *)
(***************************************************************************)
EXTENDS RpcPrompt, SequenceTheorems, TLAPS

\* The initial stream is open, empty and nobody's duty to close.
LEMMA StreamInit == Init => StreamInv
<1> SUFFICES ASSUME Init PROVE StreamInv
  OBVIOUS
<1> USE SessionStreamAssumption DEF SessionStreamAssumption, Init
<1>1. events \in Seq(Events \cup {SESSION_END}) /\ Len(events) <= Capacity
  OBVIOUS
<1>2. TypeOK
  BY <1>1 DEF TypeOK, PcSet
<1>3. \A c \in Callers : ~Closing(c) /\ pc[c] \notin {"resultRead", "endDone"}
  BY DEF Closing
<1> QED BY <1>2, <1>3 DEF StreamInv

\* One attempt to send moves one caller on and leaves the buffer within its
\* capacity (session_stream.n push and finish, the try_send loops).
LEMMA SendStep ==
    ASSUME StreamInv, NEW c \in Callers, NEW from, NEW next \in PcSet,
           NEW e \in Events \cup {SESSION_END}, TrySend(c, from, e, next),
           <<from, next>> \in {<<"pushSend", "idle">>, <<"finishSend", "finishDone">>}
    PROVE  StreamInv'
<1> USE DEF StreamInv, TypeOK, Closing, PcSet
<1>1. events' \in Seq(Events \cup {SESSION_END}) /\ Len(events') <= Capacity
  BY SessionStreamAssumption DEF TrySend, SessionStreamAssumption
<1>2. pc[c] = from /\ pc' = [pc EXCEPT ![c] = next]
  BY DEF TrySend, Goto
<1>3. UNCHANGED <<flags, events_closed, done_closes, delivery_closed, local,
                  event, outcome>>
  BY DEF TrySend
<1>4. \A d \in Callers : Closing(d)' <=> Closing(d)
  BY <1>2, <1>3
<1> QED BY <1>1, <1>2, <1>3, <1>4 DEF flags

\* StreamInv is inductive, whatever methods the callers call.
LEMMA StreamStep == StreamInv /\ [Next]_vars => StreamInv'
<1> SUFFICES ASSUME StreamInv, [Next]_vars PROVE StreamInv'
  OBVIOUS
<1> USE DEF StreamInv, TypeOK, Closing, PcSet, Goto, flags, channels, callers
<1>1. CASE UNCHANGED vars
  BY <1>1 DEF vars
<1>2. ASSUME NEW c \in Callers, push(c) PROVE StreamInv'
  <2>1. ASSUME NEW e \in Events, PushBegin(c, e) PROVE StreamInv'
    BY <2>1 DEF PushBegin
  <2>2. CASE PushSend(c)
    BY <2>2, SendStep DEF PushSend
  <2> QED BY <1>2, <2>1, <2>2 DEF push
<1>3. ASSUME NEW c \in Callers, finish(c) PROVE StreamInv'
  <2>1. CASE FinishBegin(c)
    BY <2>1 DEF FinishBegin
  <2>2. CASE FinishSend(c)
    BY <2>2, SendStep DEF FinishSend
  <2>3. CASE FinishDone(c)
    BY <2>3 DEF FinishDone
  <2> QED BY <1>3, <2>1, <2>2, <2>3 DEF finish
<1>4. ASSUME NEW c \in Callers, FailBegin(c) PROVE StreamInv'
  BY <1>4 DEF FailBegin
<1>5. ASSUME NEW c \in Callers, NEW from \in {"idle", "end"}, EndBegin(c, from)
      PROVE StreamInv'
  BY <1>5 DEF EndBegin
<1>6. ASSUME NEW c \in Callers, end(c) PROVE StreamInv'
  <2>1. CASE EndAgain(c)
    BY <2>1 DEF EndAgain
  <2>2. CASE EndEvents(c)
    BY <2>2 DEF EndEvents
  <2>3. CASE EndDone(c)
    BY <2>3 DEF EndDone
  <2> QED BY <1>5, <1>6, <2>1, <2>2, <2>3 DEF end
<1>7. ASSUME NEW c \in Callers, require_delivery(c) PROVE StreamInv'
  BY <1>7 DEF require_delivery
<1>8. ASSUME NEW c \in Callers, mark_delivery_done(c) \/ wait_delivery(c)
      PROVE StreamInv'
  <2>1. CASE MarkBegin(c)
    BY <2>1 DEF MarkBegin
  <2>2. CASE MarkClose(c)
    BY <2>2 DEF MarkClose
  <2>3. CASE wait_delivery(c)
    BY <2>3 DEF wait_delivery, WaitDeliveryBegin, WaitDelivery
  <2> QED BY <1>8, <2>1, <2>2, <2>3 DEF mark_delivery_done
<1>9. ASSUME NEW c \in Callers, result(c) PROVE StreamInv'
  BY <1>9 DEF result, ResultBegin, ResultWait, ResultRead
<1>10. ASSUME NEW c \in Callers, recv(c) PROVE StreamInv'
  BY <1>10, SessionStreamAssumption DEF recv, SessionStreamAssumption
<1> QED BY <1>1, <1>2, <1>3, <1>4, <1>5, <1>6, <1>7, <1>8, <1>9, <1>10 DEF Next

\* Every value keeps its type and the buffer its bound.
THEOREM TypeCorrect == Spec => []TypeOK
<1>1. StreamInv => TypeOK
  BY DEF StreamInv
<1> QED BY <1>1, StreamInit, StreamStep, PTL DEF Spec

\* For any number of callers and any order of their calls, done is closed at
\* most once (session_stream.n finish and end).
THEOREM DoneClosedOnceHolds == Spec => []DoneClosedOnce
<1>1. StreamInv => DoneClosedOnce
  BY DEF StreamInv, DoneClosedOnce
<1> QED BY <1>1, StreamInit, StreamStep, PTL DEF Spec

\* Every step of a method decides, reports the decision, or stutters
\* (session_stream.n finish, fail, end, result).
LEMMA OutcomeStep == StreamInv /\ [Next]_vars => [Outcome!Next]_Outcome!vars
<1> USE DEF Outcome!Init, Outcome!Next, Outcome!Decide, Outcome!Report
<1> SUFFICES ASSUME StreamInv, [Next]_vars PROVE [Outcome!Next]_Outcome!vars
  OBVIOUS
<1> USE DEF flags, channels, callers, Goto, Outcome!vars
<1>1. CASE UNCHANGED vars
  BY <1>1 DEF vars
<1>2. ASSUME NEW c \in Callers, push(c) \/ recv(c) \/ require_delivery(c)
               \/ mark_delivery_done(c) \/ wait_delivery(c) \/ FailBegin(c)
      PROVE UNCHANGED Outcome!vars
  BY <1>2 DEF push, PushBegin, PushSend, TrySend, recv, require_delivery,
     mark_delivery_done, MarkBegin, MarkClose, wait_delivery,
     WaitDeliveryBegin, WaitDelivery, FailBegin
<1>3. ASSUME NEW c \in Callers, finish(c) PROVE [Outcome!Next]_Outcome!vars
  BY <1>3 DEF finish, FinishBegin, FinishSend, FinishDone, TrySend, StreamInv, TypeOK
<1>4. ASSUME NEW c \in Callers, NEW from, EndBegin(c, from)
      PROVE [Outcome!Next]_Outcome!vars
  BY <1>4 DEF EndBegin, StreamInv, TypeOK
<1>5. ASSUME NEW c \in Callers, end(c) PROVE [Outcome!Next]_Outcome!vars
  BY <1>4, <1>5 DEF end, EndAgain, EndEvents, EndDone
<1>6. ASSUME NEW c \in Callers, result(c) PROVE [Outcome!Next]_Outcome!vars
  <2>1. CASE ResultBegin(c) \/ ResultWait(c)
    BY <2>1 DEF ResultBegin, ResultWait
  <2>2. CASE ResultRead(c)
    BY <2>2 DEF ResultRead, StreamInv, TypeOK
  <2> QED BY <1>6, <2>1, <2>2 DEF result
<1> QED BY <1>1, <1>2, <1>3, <1>4, <1>5, <1>6 DEF Next

\* The stream implements OneShot: its outcome is decided once, and every
\* result reports that decision.
THEOREM OneShotImplemented == Spec => ImplementsOneShot
<1>1. Init => Outcome!Init
  BY DEF Init, Outcome!Init
<1> QED BY <1>1, OutcomeStep, StreamInit, StreamStep, PTL
        DEF Spec, ImplementsOneShot, Outcome!Spec

-----------------------------------------------------------------------------
(* One prompt: who is where *)

\* The three coroutines call only their own methods, in their order: nobody
\* decides the outcome before the runner, and nobody acknowledges the delivery
\* before the worker has reported it.
RoleInv ==
    /\ rpos \in {"run", "threw"} => pushed <= NumEvents
    /\ pc[runner] \in {"idle", "pushSend", "finishSend", "finishDone", "end", "endEvents",
                       "endDone"}
    /\ pc[runner] \notin {"idle", "pushSend"} \/ terminal \/ ended => rpos = "returned"
    /\ pc[runner] = "pushSend" => rpos # "returned" /\ event[runner] = pushed
    /\ pc[runner] = "finishSend" => terminal
    /\ pc[worker] \in {"idle", "resultWait", "resultRead", "markClose", "end", "endEvents",
                       "endDone"}
    /\ pc[worker] \in {"resultWait", "resultRead"} => wpos = "report"
    /\ pc[worker] \in {"markClose", "end", "endEvents", "endDone"} => delivery_marked
    /\ pc[main] \in {"idle", "pushSend", "waitDelivery"}
    /\ pc[main] = "pushSend" => event[main] = QUEUE_UPDATE /\ mpos = "commands"
    /\ pc[main] = "waitDelivery" => mpos = "leaving"
    /\ events_closed \/ "endEvents" \in {pc[runner], pc[worker]} => ended
    /\ events_closed /\ pc[runner] = "finishSend" => wpos = "returned"
    /\ wpos = "terminal?" => delivery_required
    /\ delivery_closed => delivery_marked
    /\ delivery_marked => wpos = "returned"
    /\ (mpos = "leaving" /\ pc[main] = "idle") \/ mpos = "returned" =>
         (delivery_required => delivery_marked)

\* What the worker has written, by where it stands.
OutInv ==
    LET n == Len(out)
        body == \A i \in 1..n : i < n => out[i] \notin TerminalLines
    IN  /\ wpos \in {"receive", "terminal?"} => \A i \in 1..n : out[i] \notin TerminalLines
        /\ wpos \in {"result", "report"} =>
             /\ terminal => n > 0 /\ out[n] = SESSION_END /\ body
             /\ ~terminal => ended /\ \A i \in 1..n : out[i] \notin TerminalLines
        /\ wpos = "report" /\ pc[worker] = "idle" =>
             outcome[worker] = IF terminal THEN "context" ELSE "error"
        /\ wpos \in {"mark", "returned"} =>
             /\ n > 0 /\ body /\ (~terminal => ended)
             /\ out[n] = IF terminal THEN SESSION_END ELSE ERROR

\* Where the runner's events and session_end are.
SentInv ==
    /\ 1..pushed \subseteq ToSet(out) \cup ToSet(events)
                           \cup (IF pc[runner] = "pushSend" THEN {event[runner]} ELSE {})
    /\ SESSION_END \in ToSet(events) => terminal /\ pc[runner] # "finishSend"
    /\ terminal /\ pc[runner] # "finishSend" => SESSION_END \in ToSet(events) \cup ToSet(out)
    /\ \A i, j \in DOMAIN events :
         i < j /\ events[i] = SESSION_END => events[j] = QUEUE_UPDATE
    /\ ~delivery_required /\ SESSION_END \in ToSet(out) =>
         terminal /\ pc[runner] # "finishSend" /\ \A j \in DOMAIN events : events[j] = QUEUE_UPDATE

RpcInv == RpcTypeOK /\ StreamInv /\ RoleInv

\* What Append, Head and Tail do to the elements of a sequence.
LEMMA SetOfAppend ==
    ASSUME NEW S, NEW q \in Seq(S), NEW e \in S
    PROVE  ToSet(Append(q, e)) = ToSet(q) \cup {e}
<1>1. DOMAIN Append(q, e) = DOMAIN q \cup {Len(q) + 1} /\ Len(q) + 1 \notin DOMAIN q
  BY AppendProperties, LenProperties
<1>2. /\ \A i \in DOMAIN q : Append(q, e)[i] = q[i]
      /\ Append(q, e)[Len(q) + 1] = e
  BY AppendProperties, LenProperties
<1> QED BY <1>1, <1>2 DEF ToSet

LEMMA SetOfTail ==
    ASSUME NEW S, NEW q \in Seq(S), q # <<>>
    PROVE  ToSet(q) = ToSet(Tail(q)) \cup {Head(q)}
<1>1. Head(q) = q[1] /\ 1 \in DOMAIN q /\ DOMAIN q = 1..Len(q) /\ Len(q) \in Nat
  OBVIOUS
<1>2. DOMAIN Tail(q) = 1..Len(q) - 1 /\ \A i \in DOMAIN Tail(q) : Tail(q)[i] = q[i + 1]
  OBVIOUS
<1>3. \A i \in DOMAIN q : i = 1 \/ i - 1 \in DOMAIN Tail(q)
  BY <1>1, <1>2
<1>4. \A i \in DOMAIN Tail(q) : i + 1 \in DOMAIN q
  BY <1>1, <1>2
<1>5. \A i \in DOMAIN q : i = 1 \/ q[i] = Tail(q)[i - 1]
  BY <1>1, <1>2, <1>3
<1>6. ToSet(q) \subseteq ToSet(Tail(q)) \cup {Head(q)}
  BY <1>1, <1>3, <1>5 DEF ToSet
<1>7. ToSet(Tail(q)) \cup {Head(q)} \subseteq ToSet(q)
  BY <1>1, <1>2, <1>4 DEF ToSet
<1> QED BY <1>6, <1>7

\* Every step of the three is a step of some caller of the stream.
LEMMA PromptStepIsCall == ASSUME RpcTypeOK, RoleInv, [PNext]_allVars PROVE [Next]_vars
<1> USE RpcPromptAssumption DEF RpcPromptAssumption
<1>1. \A c \in {runner, worker, main} : c \in Callers
  OBVIOUS
<1>2. CASE Runner
  <2>1. ASSUME NEW from, NEW to, RunnerPush(from, to), from \in {"run", "threw"}
        PROVE  Next
    <3>1. pushed + 1 \in Events
      BY <2>1 DEF RunnerPush, RoleInv, RpcTypeOK
    <3> QED BY <1>1, <2>1, <3>1 DEF RunnerPush, Next, push
  <2>2. CASE RunnerFinishes \/ RunnerFails \/ RunnerInMethod
    BY <1>1, <2>2 DEF RunnerFinishes, RunnerFails, RunnerInMethod, Next, finish, push
  <2>3. ASSUME NEW from, NEW to, RunnerReleases(from, to) PROVE UNCHANGED vars
    BY <2>3 DEF RunnerReleases
  <2> QED BY <1>2, <2>1, <2>2, <2>3 DEF Runner, RunnerRuns, RunnerSettles, RunnerThrew
<1>3. CASE Worker
  <2>1. CASE WorkerReceives \/ WorkerCallsResult \/ WorkerMarks \/ WorkerInMethod
    BY <1>1, <2>1 DEF WorkerReceives, WorkerCallsResult, WorkerMarks, WorkerInMethod, Next,
                      result, mark_delivery_done
  <2>2. CASE WorkerSeesClose \/ WorkerFindsNothing \/ WorkerAsksTerminal \/ WorkerReports
    BY <2>2 DEF WorkerSeesClose, WorkerFindsNothing, WorkerAsksTerminal, WorkerReports
  <2> QED BY <1>3, <2>1, <2>2 DEF Worker
<1>4. CASE Main
  <2>1. CASE MainQueues
    <3>1. QUEUE_UPDATE \in Events
      OBVIOUS
    <3> QED BY <1>1, <2>1, <3>1 DEF MainQueues, Next, push
  <2>2. CASE MainWaitsDelivery \/ MainInMethod
    BY <1>1, <2>2 DEF MainWaitsDelivery, MainInMethod, Next, wait_delivery, push
  <2>3. CASE MainWaitsIdle \/ MainLeaves
    BY <2>3 DEF MainWaitsIdle, MainLeaves
  <2> QED BY <1>4, <2>1, <2>2, <2>3 DEF Main
<1> QED BY <1>2, <1>3, <1>4 DEF PNext, Terminating, allVars

LEMMA RpcTypeStep == ASSUME RpcTypeOK, StreamInv, RoleInv, [PNext]_allVars PROVE RpcTypeOK'
<1> USE RpcPromptAssumption DEF RpcPromptAssumption
<1>0. TypeOK'
  BY PromptStepIsCall, StreamStep DEF StreamInv
<1>1. ASSUME NEW line \in Events \cup TerminalLines, out' = Append(out, line)
      PROVE  out' \in Seq(Events \cup TerminalLines)
  BY <1>1, AppendProperties DEF RpcTypeOK
<1>2. CASE Runner
  <2>1. ASSUME NEW from \in {"run", "threw"}, NEW to \in {"run", "settled", "fail"},
               RunnerPush(from, to)
        PROVE  RpcTypeOK'
    BY <1>0, <2>1 DEF RunnerPush, RpcTypeOK, RoleInv
  <2>2. ASSUME NEW from, NEW to \in {"finish", "threw"}, RunnerReleases(from, to)
        PROVE  RpcTypeOK'
    BY <1>0, <2>2 DEF RunnerReleases, RpcTypeOK
  <2>3. CASE RunnerFinishes \/ RunnerFails \/ RunnerInMethod
    BY <1>0, <2>3 DEF RunnerFinishes, RunnerFails, RunnerInMethod, roles, RpcTypeOK
  <2> QED BY <1>2, <2>1, <2>2, <2>3 DEF Runner, RunnerRuns, RunnerSettles, RunnerThrew
<1>3. CASE Worker
  <2>1. CASE WorkerReceives
    <3>1. Head(events) \in Events \cup TerminalLines
      BY <2>1 DEF WorkerReceives, recv, RpcTypeOK, TypeOK, TerminalLines
    <3> QED BY <1>0, <1>1, <2>1, <3>1 DEF WorkerReceives, Write, RpcTypeOK
  <2>2. CASE WorkerAsksTerminal \/ WorkerReports
    BY <1>0, <1>1, <2>2 DEF WorkerAsksTerminal, WorkerReports, Write, RpcTypeOK, TerminalLines
  <2>3. CASE WorkerSeesClose \/ WorkerFindsNothing \/ WorkerCallsResult \/ WorkerMarks
             \/ WorkerInMethod
    BY <1>0, <2>3 DEF WorkerSeesClose, WorkerFindsNothing, WorkerCallsResult, WorkerMarks,
                      WorkerInMethod, roles, RpcTypeOK
  <2> QED BY <1>3, <2>1, <2>2, <2>3 DEF Worker
<1>4. CASE Main
  BY <1>0, <1>4 DEF Main, MainQueues, MainWaitsIdle, MainWaitsDelivery, MainLeaves, MainInMethod,
                    roles, RpcTypeOK
<1>5. CASE UNCHANGED allVars
  BY <1>0, <1>5 DEF allVars, roles, RpcTypeOK
<1> QED BY <1>2, <1>3, <1>4, <1>5 DEF PNext, Terminating

LEMMA RoleRunner == ASSUME RpcInv, OutInv, Runner PROVE RoleInv'
<1> USE RpcPromptAssumption DEF RpcPromptAssumption, RpcInv, RpcTypeOK, TypeOK, RoleInv, Goto
<1>1. {runner, worker, main} \subseteq Callers
  OBVIOUS
<1>2. ASSUME NEW from \in {"run", "threw"}, NEW to \in {"run", "settled", "fail"},
             RunnerPush(from, to), to = "run" => pushed < NumEvents
      PROVE  RoleInv'
  BY <1>1, <1>2 DEF RunnerPush, PushBegin, flags, channels
<1>3. ASSUME NEW from \in {"run", "settled"}, NEW to \in {"finish", "threw"},
             RunnerReleases(from, to), to = "threw" => from = "run"
      PROVE  RoleInv'
  BY <1>1, <1>3 DEF RunnerReleases, vars, flags, channels, callers
<1>4. CASE RunnerFinishes
  BY <1>1, <1>4 DEF RunnerFinishes, FinishBegin, channels
<1>5. CASE RunnerFails
  BY <1>1, <1>5 DEF RunnerFails, FailBegin, channels
<1>6. CASE PushSend(runner) /\ UNCHANGED roles
  BY <1>1, <1>6 DEF PushSend, TrySend, roles, flags
<1>7. CASE FinishSend(runner) /\ UNCHANGED roles
  BY <1>1, <1>7 DEF FinishSend, TrySend, roles, flags
<1>8. CASE FinishDone(runner) /\ UNCHANGED roles
  BY <1>1, <1>8 DEF FinishDone, roles, flags
<1>9. CASE end(runner) /\ UNCHANGED roles
  <2>1. CASE EndBegin(runner, "end")
    BY <1>1, <1>9, <2>1 DEF EndBegin, roles, channels
  <2>2. CASE EndAgain(runner)
    BY <1>1, <1>9, <2>2 DEF EndAgain, roles, flags, channels
  <2>3. CASE EndEvents(runner)
    <3>1. ended
      BY <1>1, <2>3 DEF EndEvents
    <3> QED BY <1>1, <1>9, <2>3, <3>1 DEF EndEvents, roles, flags
  <2>4. CASE EndDone(runner)
    BY <1>1, <1>9, <2>4 DEF EndDone, roles, flags
  <2> QED BY <1>9, <2>1, <2>2, <2>3, <2>4 DEF end
<1> QED BY <1>2, <1>3, <1>4, <1>5, <1>6, <1>7, <1>8, <1>9
        DEF Runner, RunnerRuns, RunnerSettles, RunnerThrew, RunnerInMethod

LEMMA RoleWorker == ASSUME RpcInv, OutInv, Worker PROVE RoleInv'
<1> USE RpcPromptAssumption DEF RpcPromptAssumption, RpcInv, RpcTypeOK, TypeOK, RoleInv, Goto
<1>1. {runner, worker, main} \subseteq Callers
  OBVIOUS
<1>2. CASE WorkerReceives
  BY <1>1, <1>2 DEF WorkerReceives, recv, flags, callers
<1>3. CASE WorkerSeesClose \/ WorkerFindsNothing \/ WorkerAsksTerminal \/ WorkerReports
  BY <1>1, <1>3 DEF WorkerSeesClose, WorkerFindsNothing, WorkerAsksTerminal, WorkerReports,
                    Idle, vars, flags, channels, callers
<1>4. CASE WorkerCallsResult
  BY <1>1, <1>4 DEF WorkerCallsResult, ResultBegin, flags, channels
<1>5. CASE WorkerMarks
  BY <1>1, <1>5 DEF WorkerMarks, MarkBegin, channels
<1>6. CASE (ResultWait(worker) \/ ResultRead(worker)) /\ UNCHANGED roles
  BY <1>1, <1>6 DEF ResultWait, ResultRead, roles, flags, channels
<1>7. CASE MarkClose(worker) /\ UNCHANGED roles
  BY <1>1, <1>7 DEF MarkClose, roles, flags
<1>8. CASE end(worker) /\ UNCHANGED roles
  <2>1. pc[worker] \in {"end", "endEvents", "endDone"} /\ wpos = "returned"
    BY <1>8 DEF end, EndBegin, EndAgain, EndEvents, EndDone
  <2>2. terminal \/ ended
    BY <2>1 DEF OutInv
  <2>3. CASE EndBegin(worker, "end")
    BY <1>1, <1>8, <2>1, <2>2, <2>3 DEF EndBegin, roles, channels
  <2>4. CASE EndAgain(worker)
    BY <1>1, <1>8, <2>4 DEF EndAgain, roles, flags, channels
  <2>5. CASE EndEvents(worker)
    BY <1>1, <1>8, <2>1, <2>5 DEF EndEvents, roles, flags
  <2>6. CASE EndDone(worker)
    BY <1>1, <1>8, <2>6 DEF EndDone, roles, flags
  <2> QED BY <1>8, <2>3, <2>4, <2>5, <2>6 DEF end
<1> QED BY <1>2, <1>3, <1>4, <1>5, <1>6, <1>7, <1>8 DEF Worker, WorkerInMethod

LEMMA RoleMain == ASSUME RpcInv, OutInv, Main PROVE RoleInv'
<1> USE RpcPromptAssumption DEF RpcPromptAssumption, RpcInv, RpcTypeOK, TypeOK, RoleInv, Goto
<1>1. {runner, worker, main} \subseteq Callers
  OBVIOUS
<1>2. CASE MainQueues
  BY <1>1, <1>2 DEF MainQueues, PushBegin, flags, channels
<1>3. CASE MainWaitsIdle \/ MainLeaves
  BY <1>1, <1>3 DEF MainWaitsIdle, MainLeaves, Idle, vars, flags, channels, callers
<1>4. CASE MainWaitsDelivery
  BY <1>1, <1>4 DEF MainWaitsDelivery, WaitDeliveryBegin, vars, flags, channels, callers
<1>5. CASE PushSend(main) /\ UNCHANGED roles
  BY <1>1, <1>5 DEF PushSend, TrySend, roles, flags
<1>6. CASE WaitDelivery(main) /\ UNCHANGED roles
  BY <1>1, <1>6 DEF WaitDelivery, roles, flags, channels
<1> QED BY <1>2, <1>3, <1>4, <1>5, <1>6 DEF Main, MainInMethod

\* The lines so far stay, and the new one is the last.
LEMMA NewLine ==
    ASSUME RpcTypeOK, NEW line \in Events \cup TerminalLines, out' = Append(out, line)
    PROVE  /\ Len(out) \in Nat /\ Len(out') = Len(out) + 1 /\ out'[Len(out')] = line
           /\ \A i \in 1..Len(out) : out'[i] = out[i]
           /\ \A i \in 1..Len(out') : i < Len(out') => i \in 1..Len(out)
           /\ ToSet(out') = ToSet(out) \cup {line}
<1> DEFINE S == Events \cup TerminalLines
<1>1. out \in Seq(S) /\ line \in S
  BY DEF RpcTypeOK
<1>2. Len(out) \in Nat /\ Len(out') = Len(out) + 1 /\ out'[Len(out) + 1] = line
      /\ \A i \in 1..Len(out) : out'[i] = out[i]
  BY <1>1, AppendProperties
<1>3. ToSet(out') = ToSet(out) \cup {line}
  BY <1>1, SetOfAppend
<1> QED BY <1>2, <1>3

\* A step of somebody else, or one that leaves the lines alone.
LEMMA OutSame ==
    ASSUME OutInv, UNCHANGED <<wpos, out>>, pc'[worker] = pc[worker],
           outcome'[worker] = outcome[worker],
           UNCHANGED terminal \/ (~terminal /\ ~ended), ended => ended'
    PROVE  OutInv'
BY DEF OutInv

LEMMA OutStep == ASSUME RpcInv, OutInv, SentInv, [PNext]_allVars PROVE OutInv'
<1> USE RpcPromptAssumption DEF RpcPromptAssumption, RpcInv
<1>1. {runner, worker, main} \subseteq Callers /\ runner # worker /\ main # worker
  OBVIOUS
<1>2. pc \in [Callers -> PcSet] /\ outcome \in [Callers -> {"none", "context", "error"}]
      /\ terminal \in BOOLEAN /\ ended \in BOOLEAN
  BY DEF RpcTypeOK, TypeOK
<1>3. CASE Runner
  <2> USE DEF Goto
  <2>1. ASSUME NEW from, NEW to, RunnerPush(from, to) PROVE OutInv'
    BY <1>1, <1>2, <2>1, OutSame DEF RunnerPush, PushBegin, flags
  <2>2. ASSUME NEW from, NEW to, RunnerReleases(from, to) PROVE OutInv'
    BY <2>2, OutSame DEF RunnerReleases, vars, flags, callers
  <2>3. CASE RunnerFinishes \/ RunnerFails
    BY <1>1, <1>2, <2>3, OutSame DEF RunnerFinishes, RunnerFails, FinishBegin, FailBegin
  <2>4. CASE RunnerInMethod
    BY <1>1, <1>2, <2>4, OutSame DEF RunnerInMethod, PushSend, FinishSend, TrySend, FinishDone, end,
         EndBegin, EndAgain, EndEvents, EndDone, roles, flags
  <2> QED BY <1>3, <2>1, <2>2, <2>3, <2>4 DEF Runner, RunnerRuns, RunnerSettles, RunnerThrew
<1>4. CASE WorkerReceives
  <2>1. events # <<>> /\ wpos = "receive" /\ UNCHANGED <<terminal, ended, pc>>
        /\ out' = Append(out, Head(events))
        /\ wpos' = IF Head(events) = SESSION_END THEN "result" ELSE "receive"
    BY <1>4 DEF WorkerReceives, recv, flags, callers, Write
  <2>2. Head(events) \in Events \cup {SESSION_END} /\ Head(events) \in ToSet(events)
    BY <2>1, SetOfTail DEF RpcTypeOK, TypeOK
  <2>3. Head(events) = SESSION_END => terminal
    BY <2>2 DEF SentInv
  <2> QED BY <2>1, <2>2, <2>3, NewLine, SessionStreamAssumption
          DEF OutInv, TerminalLines, SessionStreamAssumption
<1>5. CASE WorkerSeesClose
  <2>1. wpos = "receive" /\ wpos' = "result" /\ events = <<>> /\ events_closed
        /\ UNCHANGED <<out, terminal, ended>>
    BY <1>5 DEF WorkerSeesClose, vars, flags
  <2>2. \A i \in 1..Len(out) : out[i] \notin TerminalLines
    BY <2>1 DEF OutInv
  <2>3. SESSION_END \notin ToSet(out)
    <3>1. DOMAIN out = 1..Len(out)
      BY LenProperties DEF RpcTypeOK
    <3> QED BY <2>2, <3>1 DEF ToSet, TerminalLines
  <2>4. ToSet(events) = {}
    BY <2>1 DEF ToSet
  <2>5. ended /\ pc[runner] # "finishSend"
    BY <2>1 DEF RoleInv
  <2>6. ~terminal
    BY <2>3, <2>4, <2>5 DEF SentInv
  <2> QED BY <2>1, <2>2, <2>5, <2>6 DEF OutInv
<1>6. CASE WorkerFindsNothing
  BY <1>6 DEF WorkerFindsNothing, OutInv, vars, flags, callers
<1>7. CASE WorkerAsksTerminal
  <2>1. wpos = "terminal?" /\ UNCHANGED <<terminal, ended, pc>>
        /\ IF terminal THEN out' = Append(out, SESSION_END) /\ wpos' = "result"
                       ELSE wpos' = "receive" /\ UNCHANGED out
    BY <1>7 DEF WorkerAsksTerminal, Write, vars, flags, callers
  <2>2. SESSION_END \in Events \cup TerminalLines
    BY DEF TerminalLines
  <2> QED BY <2>1, <2>2, NewLine DEF OutInv
<1>8. CASE WorkerCallsResult
  <2>1. wpos = "result" /\ wpos' = "report" /\ UNCHANGED <<out, terminal, ended>>
        /\ pc' = [pc EXCEPT ![worker] = IF terminal THEN "resultRead" ELSE "resultWait"]
    BY <1>8 DEF WorkerCallsResult, ResultBegin, Goto, flags
  <2>2. pc'[worker] # "idle"
    BY <1>1, <1>2, <2>1
  <2> QED BY <2>1, <2>2 DEF OutInv
<1>9. CASE WorkerReports
  <2>1. /\ wpos = "report" /\ pc[worker] = "idle" /\ UNCHANGED <<terminal, ended>>
        /\ IF outcome[worker] = "error" THEN out' = Append(out, ERROR) ELSE UNCHANGED out
        /\ wpos' \in {"mark", "returned"}
    BY <1>9 DEF WorkerReports, Idle, Write, vars, flags
  <2>2. ERROR \in Events \cup TerminalLines
    BY DEF TerminalLines
  <2>3. CASE terminal
    BY <2>1, <2>3 DEF OutInv
  <2>4. CASE ~terminal
    <3>1. out' = Append(out, ERROR) /\ ended /\ \A i \in 1..Len(out) : out[i] \notin TerminalLines
      BY <2>1, <2>4 DEF OutInv
    <3>2. Len(out') > 0 /\ out'[Len(out')] = ERROR
          /\ \A i \in 1..Len(out') : i < Len(out') => out'[i] \notin TerminalLines
      BY <2>2, <3>1, NewLine
    <3>3. (\A i \in 1..Len(out) : i < Len(out) => out[i] \notin TerminalLines)'
      BY <3>2 DEF TerminalLines
    <3>4. ~terminal' /\ ended' /\ wpos' \notin {"receive", "terminal?", "result", "report"}
      BY <2>1, <2>4, <3>1
    <3> QED BY <3>2, <3>3, <3>4 DEF OutInv
  <2> QED BY <2>3, <2>4
<1>10. CASE WorkerMarks
  BY <1>10 DEF WorkerMarks, MarkBegin, OutInv
<1>11. CASE ResultRead(worker) /\ UNCHANGED roles
  <2>1. wpos = "report" /\ UNCHANGED <<out, wpos, terminal, ended>>
        /\ outcome'[worker] = IF terminal THEN "context" ELSE "error"
    BY <1>1, <1>2, <1>11 DEF ResultRead, roles, flags, RoleInv
  <2> QED BY <2>1 DEF OutInv
<1>12. CASE (ResultWait(worker) \/ MarkClose(worker) \/ end(worker)) /\ UNCHANGED roles
  <2>1. UNCHANGED <<out, wpos, terminal, outcome>> /\ (ended => ended')
    BY <1>12 DEF ResultWait, MarkClose, end, EndBegin, EndAgain, EndEvents, EndDone, roles, flags
  <2>2. wpos = "report" => pc'[worker] # "idle"
    BY <1>1, <1>2, <1>12 DEF ResultWait, MarkClose, end, EndBegin, EndAgain, EndEvents, EndDone,
                             Goto, RoleInv
  <2> QED BY <2>1, <2>2 DEF OutInv
<1>13. CASE Main
  <2> USE DEF Goto
  <2>1. CASE MainQueues \/ MainInMethod
    BY <1>1, <1>2, <2>1, OutSame DEF MainQueues, PushBegin, MainInMethod, PushSend, TrySend,
                                     WaitDelivery, roles, flags
  <2>2. CASE MainWaitsIdle \/ MainLeaves
    BY <2>2, OutSame DEF MainWaitsIdle, MainLeaves, vars, flags, callers
  <2>3. CASE MainWaitsDelivery
    BY <1>1, <1>2, <2>3, OutSame DEF MainWaitsDelivery, WaitDeliveryBegin, vars, flags, callers
  <2> QED BY <1>13, <2>1, <2>2, <2>3 DEF Main
<1>14. CASE UNCHANGED allVars
  BY <1>14, OutSame DEF allVars, roles, vars, flags, callers
<1> QED BY <1>3, <1>4, <1>5, <1>6, <1>7, <1>8, <1>9, <1>10, <1>11, <1>12, <1>13, <1>14
        DEF PNext, Terminating, Worker, WorkerInMethod

\* What the steps do to the events in the channel and on the way to it.
LEMMA SentSame ==
    ASSUME RpcTypeOK, SentInv, UNCHANGED <<events, pushed, terminal, delivery_required>>,
           ToSet(out') = ToSet(out) \/ (ToSet(out') = ToSet(out) \cup {ERROR})
             \/ (delivery_required /\ ToSet(out') = ToSet(out) \cup {SESSION_END}),
           pc'[runner] = pc[runner] \/ {pc[runner], pc'[runner]} \cap {"pushSend", "finishSend"} = {},
           event'[runner] = event[runner]
    PROVE  SentInv'
<1>1. ERROR # SESSION_END /\ SESSION_END \in {SESSION_END}
  BY RpcPromptAssumption DEF RpcPromptAssumption
<1>2. ToSet(out) \subseteq ToSet(out') /\ ToSet(events') = ToSet(events)
      /\ (SESSION_END \in ToSet(out') => SESSION_END \in ToSet(out) \/ delivery_required)
  BY <1>1
<1> QED BY <1>2 DEF SentInv

\* An event of one of the three goes into the channel.
LEMMA SentAppend ==
    ASSUME RpcTypeOK, SentInv, NEW e \in Events \cup {SESSION_END}, events' = Append(events, e),
           UNCHANGED <<pushed, terminal, delivery_required, out>>,
           e = QUEUE_UPDATE \/ SESSION_END \notin ToSet(events),
           e = QUEUE_UPDATE \/ delivery_required \/ SESSION_END \notin ToSet(out),
           e = SESSION_END => terminal /\ pc'[runner] # "finishSend",
           \/ pc'[runner] = pc[runner] /\ event'[runner] = event[runner] /\ e # SESSION_END
           \/ pc[runner] = "pushSend" /\ e = event[runner] /\ pc'[runner] = "idle" /\ ~terminal
           \/ pc[runner] = "finishSend" /\ e = SESSION_END
    PROVE  SentInv'
<1>1. ToSet(events') = ToSet(events) \cup {e}
  BY SetOfAppend DEF RpcTypeOK, TypeOK
<1>2. /\ DOMAIN events = 1..Len(events) /\ Len(events) \in Nat
      /\ DOMAIN events' = 1..Len(events) + 1 /\ events'[Len(events) + 1] = e
      /\ \A i \in DOMAIN events : events'[i] = events[i]
  BY AppendProperties, LenProperties DEF RpcTypeOK, TypeOK
<1>3. (\A i, j \in DOMAIN events : i < j /\ events[i] = SESSION_END => events[j] = QUEUE_UPDATE)'
  <2> SUFFICES ASSUME NEW i \in DOMAIN events', NEW j \in DOMAIN events', i < j,
                      events'[i] = SESSION_END
               PROVE  events'[j] = QUEUE_UPDATE
    OBVIOUS
  <2>1. i \in DOMAIN events /\ events[i] = SESSION_END
    BY <1>2
  <2>2. SESSION_END \in ToSet(events)
    BY <2>1 DEF ToSet
  <2>3. CASE j \in DOMAIN events
    BY <1>2, <2>1, <2>3 DEF SentInv
  <2>4. CASE j = Len(events) + 1
    BY <1>2, <2>2, <2>4
  <2> QED BY <1>2, <2>3, <2>4
<1>4. (\A j \in DOMAIN events : events[j] = QUEUE_UPDATE) /\ e = QUEUE_UPDATE =>
        (\A j \in DOMAIN events : events[j] = QUEUE_UPDATE)'
  BY <1>2
<1>5. (1..pushed \subseteq ToSet(out) \cup ToSet(events)
                           \cup (IF pc[runner] = "pushSend" THEN {event[runner]} ELSE {}))'
  BY <1>1 DEF SentInv
<1>6. (SESSION_END \in ToSet(events) => terminal /\ pc[runner] # "finishSend")'
  BY <1>1 DEF SentInv
<1>7. (terminal /\ pc[runner] # "finishSend" => SESSION_END \in ToSet(events) \cup ToSet(out))'
  BY <1>1 DEF SentInv
<1>8. (~delivery_required /\ SESSION_END \in ToSet(out) =>
         terminal /\ pc[runner] # "finishSend"
         /\ \A j \in DOMAIN events : events[j] = QUEUE_UPDATE)'
  BY <1>4 DEF SentInv
<1> QED BY <1>3, <1>5, <1>6, <1>7, <1>8 DEF SentInv

LEMMA SentRunner == ASSUME RpcInv, OutInv, SentInv, Runner PROVE SentInv'
<1> USE RpcPromptAssumption DEF RpcPromptAssumption, RpcInv, Goto
<1>1. /\ runner \in Callers /\ pc \in [Callers -> PcSet] /\ terminal \in BOOLEAN
      /\ event \in [Callers -> Events \cup {SESSION_END}] /\ pushed \in Nat
  BY DEF RpcTypeOK, TypeOK
<1>2. ASSUME NEW from, NEW to, RunnerPush(from, to) PROVE SentInv'
  <2>1. /\ pushed' = pushed + 1 /\ UNCHANGED <<events, out, terminal, delivery_required>>
        /\ ~terminal /\ pc[runner] = "idle" /\ pc'[runner] = "pushSend"
        /\ event'[runner] = pushed + 1
    BY <1>1, <1>2 DEF RunnerPush, PushBegin, flags, channels
  <2>2. 1..pushed' = 1..pushed \cup {pushed + 1}
    BY <1>1, <2>1
  <2> QED BY <2>1, <2>2 DEF SentInv
<1>3. ASSUME NEW from, NEW to, RunnerReleases(from, to) PROVE SentInv'
  BY <1>3, SentSame DEF RunnerReleases, vars, flags, channels, callers
<1>4. CASE RunnerFinishes
  <2>1. /\ ~terminal /\ pc[runner] = "idle" /\ pc'[runner] = "finishSend"
        /\ UNCHANGED <<events, out, pushed, delivery_required>>
    BY <1>1, <1>4 DEF RunnerFinishes, FinishBegin, channels
  <2> QED BY <2>1 DEF SentInv
<1>5. CASE RunnerFails
  BY <1>1, <1>5, SentSame DEF RunnerFails, FailBegin, channels
<1>6. CASE PushSend(runner) /\ UNCHANGED roles
  <2>1. /\ pc[runner] = "pushSend" /\ pc'[runner] = "idle"
        /\ UNCHANGED <<out, pushed, event, terminal, delivery_required>>
    BY <1>1, <1>6 DEF PushSend, TrySend, roles, flags
  <2>2. ~terminal /\ ~events_closed
    BY <1>1, <2>1 DEF RoleInv
  <2>3. events' = Append(events, event[runner]) /\ event[runner] # SESSION_END
    <3>1. event[runner] = pushed /\ pushed \in Events \cup {QUEUE_UPDATE}
      BY <2>1 DEF RoleInv, RpcTypeOK
    <3> QED BY <1>6, <2>2, <3>1, SessionStreamAssumption
            DEF PushSend, TrySend, SessionStreamAssumption
  <2>4. SESSION_END \notin ToSet(events) /\ (delivery_required \/ SESSION_END \notin ToSet(out))
    BY <2>2 DEF SentInv
  <2> QED BY <1>1, <2>1, <2>2, <2>3, <2>4, SentAppend
<1>7. CASE FinishSend(runner) /\ UNCHANGED roles
  <2>1. /\ pc[runner] = "finishSend" /\ pc'[runner] = "finishDone" /\ terminal
        /\ UNCHANGED <<out, pushed, event, terminal, delivery_required>>
    BY <1>1, <1>7 DEF FinishSend, TrySend, roles, flags, RoleInv
  <2>2. CASE ~events_closed
    <3>1. events' = Append(events, SESSION_END)
      BY <1>7, <2>2 DEF FinishSend, TrySend
    <3>2. SESSION_END \notin ToSet(events) /\ (delivery_required \/ SESSION_END \notin ToSet(out))
      BY <2>1 DEF SentInv
    <3> QED BY <2>1, <3>1, <3>2, SentAppend
  <2>3. CASE events_closed
    <3>1. UNCHANGED events /\ wpos = "returned"
      BY <1>7, <2>1, <2>3 DEF FinishSend, TrySend, RoleInv
    <3>2. Len(out) > 0 /\ out[Len(out)] = SESSION_END
      BY <2>1, <3>1 DEF OutInv
    <3>3. SESSION_END \in ToSet(out)
      <4>1. Len(out) \in DOMAIN out
        BY <3>2, LenProperties DEF RpcTypeOK
      <4> QED BY <3>2, <4>1 DEF ToSet
    <3>4. delivery_required
      BY <2>1, <3>3 DEF SentInv
    <3> QED BY <2>1, <3>1, <3>3, <3>4 DEF SentInv
  <2> QED BY <2>2, <2>3
<1>8. CASE FinishDone(runner) /\ UNCHANGED roles
  BY <1>1, <1>8, SentSame DEF FinishDone, roles, flags
<1>9. CASE end(runner) /\ UNCHANGED roles
  BY <1>1, <1>9, SentSame DEF end, EndBegin, EndAgain, EndEvents, EndDone, roles, flags, channels
<1> QED BY <1>2, <1>3, <1>4, <1>5, <1>6, <1>7, <1>8, <1>9
        DEF Runner, RunnerRuns, RunnerSettles, RunnerThrew, RunnerInMethod

LEMMA SentReceive == ASSUME RpcInv, SentInv, WorkerReceives PROVE SentInv'
<1>1. /\ events # <<>> /\ events' = Tail(events) /\ out' = Append(out, Head(events))
      /\ UNCHANGED <<pushed, terminal, delivery_required, pc, event>>
      /\ events \in Seq(Events \cup {SESSION_END}) /\ RpcTypeOK
  BY DEF WorkerReceives, recv, flags, callers, Write, RpcInv, RpcTypeOK, TypeOK
<1>2. ToSet(events) = ToSet(events') \cup {Head(events)}
  BY <1>1, SetOfTail
<1>3. ToSet(out') = ToSet(out) \cup {Head(events)}
  <2>1. Head(events) \in Events \cup TerminalLines
    BY <1>1 DEF TerminalLines
  <2> QED BY <1>1, <2>1, NewLine
<1>4. /\ Head(events) = events[1] /\ 1 \in DOMAIN events /\ DOMAIN events = 1..Len(events)
      /\ Len(events) \in Nat /\ DOMAIN events' = 1..Len(events) - 1
      /\ \A i \in DOMAIN events' : events'[i] = events[i + 1]
  BY <1>1
<1>5. \A i \in DOMAIN events' : i \in Nat /\ i + 1 \in DOMAIN events /\ 1 < i + 1
  BY <1>4
<1>6. (\A i, j \in DOMAIN events : i < j /\ events[i] = SESSION_END => events[j] = QUEUE_UPDATE)'
  <2> SUFFICES ASSUME NEW i \in DOMAIN events', NEW j \in DOMAIN events', i < j,
                      events'[i] = SESSION_END
               PROVE  events'[j] = QUEUE_UPDATE
    OBVIOUS
  <2>1. i + 1 < j + 1 /\ events[i + 1] = SESSION_END
    BY <1>4, <1>5
  <2> QED BY <1>4, <1>5, <2>1 DEF SentInv
<1>7. (~delivery_required /\ SESSION_END \in ToSet(out) =>
         terminal /\ pc[runner] # "finishSend"
         /\ \A j \in DOMAIN events : events[j] = QUEUE_UPDATE)'
  <2>1. CASE Head(events) = SESSION_END
    <3>1. terminal /\ pc[runner] # "finishSend"
      BY <1>2, <2>1 DEF SentInv
    <3>2. \A j \in DOMAIN events' : events'[j] = QUEUE_UPDATE
      BY <1>4, <1>5, <2>1 DEF SentInv
    <3> QED BY <1>1, <3>1, <3>2
  <2>2. CASE Head(events) # SESSION_END
    <3>1. SESSION_END \in ToSet(out') => SESSION_END \in ToSet(out)
      BY <1>3, <2>2
    <3> QED BY <1>1, <1>4, <1>5, <3>1 DEF SentInv
  <2> QED BY <2>1, <2>2
<1> QED BY <1>1, <1>2, <1>3, <1>6, <1>7 DEF SentInv

LEMMA SentStep == ASSUME RpcInv, OutInv, SentInv, [PNext]_allVars PROVE SentInv'
<1> USE RpcPromptAssumption DEF RpcPromptAssumption, RpcInv, Goto
<1>1. /\ {runner, worker, main} \subseteq Callers /\ worker # runner /\ main # runner
      /\ pc \in [Callers -> PcSet] /\ event \in [Callers -> Events \cup {SESSION_END}]
  BY DEF RpcTypeOK, TypeOK
<1>2. CASE Runner
  BY <1>2, SentRunner
<1>3. CASE WorkerReceives
  BY <1>3, SentReceive
<1>4. CASE WorkerAsksTerminal
  <2>1. /\ UNCHANGED <<events, pushed, terminal, delivery_required, pc, event>>
        /\ delivery_required /\ (UNCHANGED out \/ out' = Append(out, SESSION_END))
    BY <1>4 DEF WorkerAsksTerminal, Write, vars, flags, channels, callers, RoleInv
  <2>2. SESSION_END \in Events \cup TerminalLines
    BY DEF TerminalLines
  <2>3. ToSet(out') = ToSet(out) \/ ToSet(out') = ToSet(out) \cup {SESSION_END}
    BY <2>1, <2>2, NewLine
  <2> QED BY <2>1, <2>3, SentSame
<1>5. CASE WorkerReports
  <2>1. /\ UNCHANGED <<events, pushed, terminal, delivery_required, pc, event>>
        /\ UNCHANGED out \/ out' = Append(out, ERROR)
    BY <1>5 DEF WorkerReports, Write, vars, flags, channels, callers
  <2>2. ERROR \in Events \cup TerminalLines
    BY DEF TerminalLines
  <2>3. ToSet(out') = ToSet(out) \/ ToSet(out') = ToSet(out) \cup {ERROR}
    BY <2>1, <2>2, NewLine
  <2> QED BY <2>1, <2>3, SentSame
<1>6. CASE WorkerSeesClose \/ WorkerFindsNothing
  BY <1>6, SentSame DEF WorkerSeesClose, WorkerFindsNothing, vars, flags, channels, callers
<1>7. CASE WorkerCallsResult \/ WorkerMarks
  BY <1>1, <1>7, SentSame DEF WorkerCallsResult, WorkerMarks, ResultBegin, MarkBegin, flags,
                              channels
<1>8. CASE WorkerInMethod
  BY <1>1, <1>8, SentSame DEF WorkerInMethod, ResultWait, ResultRead, MarkClose, end, EndBegin,
       EndAgain, EndEvents, EndDone, roles, flags, channels
<1>9. CASE PushSend(main) /\ UNCHANGED roles
  <2>1. /\ pc'[runner] = pc[runner] /\ event[main] = QUEUE_UPDATE
        /\ UNCHANGED <<out, pushed, event, terminal, delivery_required>>
        /\ events' = Append(events, QUEUE_UPDATE) \/ UNCHANGED events
    BY <1>1, <1>9 DEF PushSend, TrySend, roles, flags, RoleInv
  <2>2. QUEUE_UPDATE \in Events /\ QUEUE_UPDATE # SESSION_END
    BY SessionStreamAssumption DEF SessionStreamAssumption
  <2>3. CASE UNCHANGED events
    BY <2>1, <2>3, SentSame
  <2>4. CASE events' = Append(events, QUEUE_UPDATE)
    BY <2>1, <2>2, <2>4, SentAppend
  <2> QED BY <2>1, <2>3, <2>4
<1>10. CASE MainQueues
  BY <1>1, <1>10, SentSame DEF MainQueues, PushBegin, flags, channels
<1>11. CASE MainWaitsIdle \/ MainLeaves
  BY <1>11, SentSame DEF MainWaitsIdle, MainLeaves, vars, flags, channels, callers
<1>12. CASE MainWaitsDelivery \/ (WaitDelivery(main) /\ UNCHANGED roles)
  BY <1>1, <1>12, SentSame DEF MainWaitsDelivery, WaitDeliveryBegin, WaitDelivery, roles, vars,
                               flags, channels, callers
<1>13. CASE UNCHANGED allVars
  BY <1>13, SentSame DEF allVars, roles, vars, flags, channels, callers
<1> QED BY <1>2, <1>3, <1>4, <1>5, <1>6, <1>7, <1>8, <1>9, <1>10, <1>11, <1>12, <1>13
        DEF PNext, Terminating, Worker, Main, MainInMethod

\* A prompt begins with an open stream, with or without a delivery to wait for.
LEMMA PromptInit == ASSUME PInit PROVE RpcInv /\ OutInv /\ SentInv
<1> USE RpcPromptAssumption DEF RpcPromptAssumption
<1>1. /\ rpos = "run" /\ pushed = 0 /\ busy = TRUE /\ wpos = "receive" /\ out = <<>>
      /\ mpos = "commands" /\ updates = 0 /\ events = <<>> /\ pc = [c \in Callers |-> "idle"]
      /\ ~terminal /\ ~ended /\ ~events_closed /\ ~delivery_closed /\ ~delivery_marked
  BY DEF PInit
<1>2. TypeOK
  <2>1. events \in Seq(Events \cup {SESSION_END}) /\ Len(events) <= Capacity
    BY <1>1, SessionStreamAssumption DEF SessionStreamAssumption
  <2> QED BY <2>1 DEF PInit, TypeOK, PcSet
<1>3. StreamInv
  <2>1. \A c \in Callers : ~Closing(c) /\ pc[c] \notin {"resultRead", "endDone"}
    BY <1>1 DEF Closing
  <2> QED BY <1>2, <2>1 DEF PInit, StreamInv
<1>4. RpcTypeOK
  BY <1>1, <1>2 DEF RpcTypeOK
<1>5. RoleInv
  BY <1>1 DEF RoleInv
<1>6. Len(out) = 0 /\ ToSet(out) = {} /\ ToSet(events) = {} /\ DOMAIN events = {}
  BY <1>1 DEF ToSet
<1>7. OutInv
  BY <1>1, <1>6 DEF OutInv
<1>8. SentInv
  BY <1>1, <1>6 DEF SentInv
<1> QED BY <1>3, <1>4, <1>5, <1>7, <1>8 DEF RpcInv

LEMMA PromptInvHolds == PSpec => [](RpcInv /\ OutInv /\ SentInv)
<1>1. RpcInv /\ OutInv /\ SentInv /\ [PNext]_allVars => (RpcInv /\ OutInv /\ SentInv)'
  <2> SUFFICES ASSUME RpcInv, OutInv, SentInv, [PNext]_allVars
               PROVE  RpcInv' /\ OutInv' /\ SentInv'
    OBVIOUS
  <2>1. RpcTypeOK' /\ StreamInv'
    BY RpcTypeStep, PromptStepIsCall, StreamStep DEF RpcInv
  <2>2. RoleInv'
    <3>1. CASE UNCHANGED allVars
      BY <3>1 DEF allVars, roles, vars, flags, channels, callers, RpcInv, RoleInv
    <3> QED BY <3>1, RoleRunner, RoleWorker, RoleMain DEF PNext, Terminating
  <2> QED BY <2>1, <2>2, OutStep, SentStep DEF RpcInv
<1> QED BY <1>1, PromptInit, PTL DEF PSpec

\* The stream of one prompt implements OneShot: what the worker is told by
\* result is what the runner's finish or fail decided.
THEOREM PromptIsOneShot == PSpec => ImplementsOneShot
<1>1. PInit => Outcome!Init
  BY DEF PInit, Outcome!Init
<1>2. RpcInv /\ [PNext]_allVars => [Outcome!Next]_Outcome!vars
  BY PromptStepIsCall, OutcomeStep DEF RpcInv
<1> QED BY <1>1, <1>2, PromptInvHolds, PTL DEF PSpec, ImplementsOneShot, Outcome!Spec

\* The prompt, its worker and the command loop keep their types, and no more is
\* ever pushed than the operation has events.
THEOREM PromptTypes == PSpec => []RpcTypeOK
<1>1. RpcInv => RpcTypeOK
  BY DEF RpcInv
<1> QED BY <1>1, PromptInvHolds, PTL

\* An abort is answered, and the process exits at the end of its input, only
\* after the client was written the operation's last line (abort_and_wait and
\* run_rpc), for any number of events and any capacity of the channel.
THEOREM WaitersAlwaysSeeLastLine == PSpec => []WaitersSeeLastLine
<1>1. RpcInv /\ OutInv => WaitersSeeLastLine
  <2> SUFFICES ASSUME RpcInv, OutInv, delivery_required, mpos = "returned"
               PROVE  ToSet(out) \cap TerminalLines # {}
    BY DEF WaitersSeeLastLine
  <2>1. wpos = "returned"
    BY DEF RpcInv, RoleInv
  <2>2. Len(out) > 0 /\ out[Len(out)] \in TerminalLines
    BY <2>1 DEF OutInv, TerminalLines
  <2>3. Len(out) \in DOMAIN out
    BY <2>2, LenProperties DEF RpcInv, RpcTypeOK
  <2> QED BY <2>2, <2>3 DEF ToSet
<1> QED BY <1>1, PromptInvHolds, PTL

\* In print mode every event the operation pushed is written before its
\* session_end, however full the channel was and whatever else was pushed.
THEOREM PrintModeLosesNothing == PSpec => []NoEventLostInPrintMode
<1>1. RpcInv /\ SentInv => NoEventLostInPrintMode
  <2> SUFFICES ASSUME RpcInv, SentInv, ~delivery_required, SESSION_END \in ToSet(out)
               PROVE  1..pushed \subseteq ToSet(out)
    BY DEF NoEventLostInPrintMode, NoEventLost
  <2>1. terminal /\ \A j \in DOMAIN events : events[j] = QUEUE_UPDATE
    BY DEF SentInv
  <2>2. pc[runner] # "pushSend"
    BY <2>1 DEF RpcInv, RoleInv
  <2>3. ToSet(events) \subseteq {QUEUE_UPDATE}
    BY <2>1 DEF ToSet
  <2>4. QUEUE_UPDATE \notin 1..pushed
    BY RpcPromptAssumption DEF RpcPromptAssumption
  <2> QED BY <2>2, <2>3, <2>4 DEF SentInv
<1> QED BY <1>1, PromptInvHolds, PTL

\* The client sees exactly one terminal line, as the last one, and it says how
\* the stream ended (rpc_prompt_worker, print mode).
THEOREM LastLineIsTrue == PSpec => []LastLineMatchesOutcome
<1>1. RpcInv /\ OutInv => LastLineMatchesOutcome
  <2> SUFFICES ASSUME RpcInv, OutInv PROVE LastLineMatchesOutcome
    OBVIOUS
  <2>0. /\ wpos \in {"receive", "terminal?", "result", "report", "mark", "returned"}
        /\ DOMAIN out = 1..Len(out) /\ Len(out) \in Nat /\ ERROR # SESSION_END
    BY LenProperties, RpcPromptAssumption DEF RpcInv, RpcTypeOK, RpcPromptAssumption
  <2>1. \A i \in 1..Len(out) : i < Len(out) => out[i] \notin TerminalLines
    BY <2>0 DEF OutInv
  <2>2. \A i \in 1..Len(out) : out[i] \in TerminalLines => i = Len(out)
    <3> SUFFICES ASSUME NEW i \in 1..Len(out), i # Len(out)
                 PROVE  out[i] \notin TerminalLines
      OBVIOUS
    <3>1. Len(out) \in Nat
      BY <2>0
    <3>2. i < Len(out)
      BY <3>1
    <3> QED BY <2>1, <3>2
  <2>3. wpos = "returned" => Len(out) > 0 /\ Last(out) \in TerminalLines
    BY DEF OutInv, Last, TerminalLines
  <2>4. ASSUME NEW i \in 1..Len(out), out[i] \in TerminalLines
        PROVE  out[i] = (IF terminal THEN SESSION_END ELSE ERROR) /\ (~terminal => ended)
    BY <2>0, <2>2, <2>4 DEF OutInv
  <2>5. SESSION_END \in ToSet(out) => terminal
    BY <2>0, <2>4 DEF ToSet, TerminalLines
  <2>6. ERROR \in ToSet(out) => ended /\ ~terminal
    BY <2>0, <2>4 DEF ToSet, TerminalLines
  <2> QED BY <2>2, <2>3, <2>5, <2>6 DEF LastLineMatchesOutcome
<1> QED BY <1>1, PromptInvHolds, PTL
=============================================================================
