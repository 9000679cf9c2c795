-------------------------- MODULE AgentTurnProofs --------------------------
(***************************************************************************)
(* What AgentTurn promises for any number of retries and texts and any     *)
(* room of the event channel.                                              *)
(***************************************************************************)
EXTENDS AgentTurn, TLAPS

\* Before the abort nobody runs a callback, except the loop that kills a
\* command because of its timeout.
QuietInv ==
    ~token =>
        /\ ~marked /\ ~cancelled
        /\ todo["provider"] = <<>> /\ todo["aborter"] = <<>>
        /\ todo["loop"] = <<>> \/ (todo["loop"] = <<"kill">> /\ timedOut)
        /\ killed => timedOut

\* The command runs while the loop is between its start and the report, and
\* what the tool reports follows from how it ended.
CommandInv ==
    /\ child = "none" <=> loop \notin {"onabort", "rekill", "wait", "reap", "report"}
                          /\ (loop = "ended" => outcome = "none")
    /\ outcome # "none" => loop = "ended"
    /\ loop = "report" \/ outcome # "none" => child # "runs"
    /\ child = "killed" => killed
    /\ timedOut => loop \in {"reap", "report", "ended"}
    /\ CommandTruth

\* The stop reasons an event may have.
EventInv ==
    /\ event.kind = "done" => event.stop \in {"stop", "toolUse", "aborted"}
    /\ event.kind = "error" => event.stop \in {"error", "aborted"}

\* The last event is accepted once, before the stream ends, and what the loop
\* gets is that event.
AnswerInv ==
    /\ ~terminal => final = "none" /\ ~cut
    /\ cut => final \in {"aborted", "error"}
    /\ prov = "push" /\ IsTerminal(event) => terminal
    /\ prov \in {"end", "close", "over"} \/ ended => terminal
    /\ answer # "none" => ended /\ answer = final
    /\ loop \in {"prepare", "execute", "onabort", "rekill", "wait", "reap", "report"}
       \/ child # "none" => answer = "toolUse"
    /\ loop # "failed"

\* The bounds of the counter of retries and of the list of callbacks: StepsOf
\* covers them all.
BoundInv ==
    /\ prov = "sleep" => retry < MaxRetries
    /\ Len(callbacks) <= IF loop \in {"ask", "register"} THEN 0
                         ELSE IF loop \in {"recheck", "recv", "result", "prepare", "execute",
                                           "onabort"} THEN 1 ELSE 2

TypeInv == TypeOK /\ EventInv /\ BoundInv

-----------------------------------------------------------------------------
(* Types *)

\* What a callback has to do is a list of steps.
LEMMA StepsType ==
    ASSUME NEW list \in Seq({"response", "child"})
    PROVE  /\ Steps("response") \in Seq(Cleanups) /\ Steps("child") \in Seq(Cleanups)
           /\ StepsOf(list) \in Seq(Cleanups)
<1>1. \A c \in {"response", "child"} : Steps(c) \in Seq(Cleanups)
  <2>1. \A x, y \in Cleanups : <<x>> \in Seq(Cleanups) /\ <<x, y>> \in Seq(Cleanups)
    OBVIOUS
  <2>2. "mark" \in Cleanups /\ "cancel" \in Cleanups /\ "kill" \in Cleanups
    BY DEF Cleanups
  <2> QED BY <2>1, <2>2 DEF Steps
<1>2. CASE list = <<>>
  BY <1>1, <1>2 DEF StepsOf
<1>3. CASE list # <<>> /\ Len(list) = 1
  BY <1>1, <1>3 DEF StepsOf
<1>4. CASE list # <<>> /\ Len(list) # 1
  <2>1. list[1] \in {"response", "child"} /\ list[2] \in {"response", "child"}
    BY <1>4
  <2>2. StepsOf(list) = Steps(list[1]) \o Steps(list[2])
    BY <1>4 DEF StepsOf
  <2> QED BY <1>1, <2>1, <2>2
<1> QED BY <1>1, <1>2, <1>3, <1>4

\* What is left to do gets shorter by the step that was done.
LEMMA TailType ==
    ASSUME NEW s \in Seq(Cleanups), s # <<>>
    PROVE  Tail(s) \in Seq(Cleanups) /\ <<"close">> \o Tail(s) \in Seq(Cleanups)
           /\ <<>> \o Tail(s) \in Seq(Cleanups)
BY DEF Cleanups

\* What a coroutine does next changes the list of its steps and no other.
LEMMA DoesType ==
    ASSUME todo \in [Actors -> Seq(Cleanups)], NEW a \in Actors, NEW s \in Seq(Cleanups),
           Does(a, s)
    PROVE  todo' \in [Actors -> Seq(Cleanups)]
BY DEF Does

\* The tokens and their callbacks keep the types.
LEMMA TypeAbort == ASSUME TypeInv, Abort PROVE TypeInv'
<1> USE DEF TypeInv, TypeOK, EventInv, BoundInv
<1>1. StepsOf(callbacks) \in Seq(Cleanups)
  BY StepsType
<1>2. todo' \in [Actors -> Seq(Cleanups)]
  BY <1>1, DoesType DEF Abort, Actors
<1>3. callbacks' = <<>> /\ Len(callbacks') = 0 /\ callbacks' \in Seq({"response", "child"})
  BY DEF Abort
<1> QED BY <1>2, <1>3 DEF Abort, stream, provider, command, history

LEMMA TypeCallback == ASSUME TypeInv, NEW a \in Actors, Callback(a) PROVE TypeInv'
<1> USE DEF TypeInv, TypeOK, EventInv, BoundInv
<1>1. todo[a] \in Seq(Cleanups)
  OBVIOUS
<1>2. CASE Mark(a)
  <2>1. todo' \in [Actors -> Seq(Cleanups)]
    BY <1>1, <1>2, TailType, DoesType DEF Mark, Idle
  <2> QED BY <2>1, <1>2 DEF Mark, stream, provider, command, history
<1>3. CASE Cancel(a)
  <2>1. todo' \in [Actors -> Seq(Cleanups)]
    BY <1>1, <1>3, TailType, DoesType DEF Cancel, Idle
  <2>2. cancelled' = TRUE /\ closer' = FALSE
        /\ UNCHANGED <<token, callbacks, marked, stream, events, provider, response, loop,
                       answer, command, killed, history>>
    BY <1>3 DEF Cancel
  <2>3. EventInv' /\ BoundInv'
    BY <2>2 DEF provider
  <2>4. TypeOK'
    <3>1. cancelled' \in BOOLEAN /\ closer' \in BOOLEAN
      BY <2>2
    <3>2. UNCHANGED <<token, callbacks, marked, events, response, loop, answer, killed>>
          /\ UNCHANGED stream /\ UNCHANGED provider /\ UNCHANGED command /\ UNCHANGED history
      BY <2>2
    <3> HIDE DEF TypeInv, EventInv, BoundInv
    <3>3. TypeOK
      BY DEF TypeInv
    <3> QED BY <2>1, <3>1, <3>2, <3>3 DEF stream, provider, command, history
  <2> QED BY <2>3, <2>4
<1>4. CASE CloseResponse(a)
  <2>1. todo' \in [Actors -> Seq(Cleanups)]
    BY <1>1, <1>4, TailType, DoesType DEF CloseResponse, Idle
  <2> QED BY <2>1, <1>4 DEF CloseResponse, tokens, stream, provider, command, history
<1>5. CASE TerminateProcess(a)
  <2>1. todo' \in [Actors -> Seq(Cleanups)]
    BY <1>1, <1>5, TailType, DoesType DEF TerminateProcess, Idle
  <2> QED BY <2>1, <1>5 DEF TerminateProcess, tokens, stream, provider, command, history
<1> QED BY <1>2, <1>3, <1>4, <1>5 DEF Callback

\* The provider keeps the types: the request and its retries.
LEMMA TypeProvider == ASSUME TypeInv, Provider PROVE TypeInv'
<1> USE TurnAssumption DEF TypeInv, TypeOK, EventInv, BoundInv
<1>1. CASE Begin
  BY <1>1 DEF Begin, ProvGoes, ProviderOnly, stream, history, command
<1>2. CASE SendWithRetry
  BY <1>2 DEF SendWithRetry, ProvGoes, ProviderOnly, stream, history, command
<1>3. CASE SendFails
  BY <1>3 DEF SendFails, ProvGoes, ProviderOnly, stream, history, command
<1>4. CASE SendOnce
  BY <1>4 DEF SendOnce, ProvGoes, ProviderOnly, stream, history, command
<1>5. CASE RegisterCloser
  <2>1. todo' \in [Actors -> Seq(Cleanups)] /\ closer' \in BOOLEAN
    <3>1. <<"close">> \in Seq(Cleanups)
      BY DEF Cleanups
    <3> QED BY <3>1, <1>5, DoesType DEF RegisterCloser, Actors
  <2> QED BY <2>1, <1>5 DEF RegisterCloser, ProvGoes, ProviderOnly, stream, history, command
<1>6. CASE Recheck
  BY <1>6 DEF Recheck, ProvGoes, ProviderOnly, stream, history, command
<1>7. CASE StatusOK
  <2>1. event' \in Events /\ EventInv'
    BY <1>7 DEF StatusOK, Event, Events, Stops
  <2> QED BY <2>1, <1>7 DEF StatusOK, ProvGoes, ProviderOnly, stream, history, command
<1>8. CASE StatusBad
  BY <1>8 DEF StatusBad, ProvGoes, ProviderOnly, stream, history, command
<1>9. CASE Sleep
  BY <1>9 DEF Sleep, ProvGoes, ProviderOnly, stream, history, command
<1>10. CASE Fail
  <2>1. event' \in Events /\ EventInv'
    BY <1>10 DEF Fail, Event, Events, Stops
  <2> QED BY <2>1, <1>10 DEF Fail, ProvGoes, ProviderOnly, stream, history, command
<1>11. CASE PushTest
  <2>1. event' \in Events /\ EventInv' /\ final' \in Stops
    BY <1>11 DEF PushTest, Event, Events, Stops, IsTerminal
  <2>2. prov' \in {"push", "end", "read"} /\ terminal' \in BOOLEAN /\ cut' \in BOOLEAN
    BY <1>11 DEF PushTest, After
  <2>3. UNCHANGED <<closer, todo, ended, closed, events, retry, chunks, response, late>>
        /\ ProviderOnly
    BY <1>11 DEF PushTest
  <2> QED BY <2>1, <2>2, <2>3 DEF ProviderOnly, command
<1>12. CASE PushSend
  <2>1. events' \in Seq(Events) /\ Len(events') <= Capacity
    BY <1>12 DEF PushSend
  <2> QED BY <2>1, <1>12 DEF PushSend, After, ProvGoes, ProviderOnly, stream, history, command
<1>13. CASE End
  BY <1>13 DEF End, ProvGoes, ProviderOnly, stream, history, command
<1>14. CASE CloseChannels
  BY <1>14 DEF CloseChannels, ProvGoes, ProviderOnly, stream, history, command
<1> QED BY <1>1, <1>2, <1>3, <1>4, <1>5, <1>6, <1>7, <1>8, <1>9, <1>10, <1>11, <1>12, <1>13,
           <1>14 DEF Provider

\* What arrives from the network keeps them.
LEMMA TypeNetwork == ASSUME TypeInv, Network PROVE TypeInv'
<1> USE TurnAssumption DEF TypeInv, TypeOK, EventInv, BoundInv
<1>1. CASE ReadText
  <2>1. event' \in Events /\ EventInv'
    BY <1>1 DEF ReadText, Event, Events, Stops
  <2> QED BY <2>1, <1>1 DEF ReadText, ProvGoes, ProviderOnly, stream, history, command
<1>2. CASE ReadFails
  BY <1>2 DEF ReadFails, ProvGoes, ProviderOnly, stream, history, command
<1>3. ASSUME NEW stop \in {"stop", "toolUse"}, ReadStop(stop) PROVE TypeInv'
  <2>1. event' \in Events /\ EventInv'
    BY <1>3 DEF ReadStop, Event, Events, Stops
  <2> QED BY <2>1, <1>3 DEF ReadStop, ProvGoes, ProviderOnly, stream, history, command
<1>4. ASSUME NEW retryable \in BOOLEAN, ErrorBody(retryable) PROVE TypeInv'
  <2>1. closer' \in BOOLEAN
    BY <1>4 DEF ErrorBody
  <2>2. prov' \in {"sleep", "fail"} /\ (prov' = "sleep" => retry < MaxRetries)
        /\ UNCHANGED <<todo, stream, events, retry, chunks, event, response, history>>
        /\ ProviderOnly
    BY <1>4 DEF ErrorBody, ProvGoes
  <2> QED BY <2>1, <2>2 DEF ProviderOnly, stream, history, command
<1> QED BY <1>1, <1>2, <1>3, <1>4 DEF Network

\* The loop keeps the types.
LEMMA TypeLoop == ASSUME TypeInv, Loop PROVE TypeInv'
<1> USE TurnAssumption DEF TypeInv, TypeOK, EventInv, BoundInv
<1>0. Steps("response") \in Seq(Cleanups) /\ Steps("child") \in Seq(Cleanups)
      /\ <<"kill">> \in Seq(Cleanups)
  BY StepsType DEF Steps
<1>1. CASE Ask
  BY <1>1 DEF Ask, LoopGoes, LoopOnly, stream, history, command
<1>2. CASE Register
  <2>1. todo' \in [Actors -> Seq(Cleanups)]
    BY <1>0, <1>2, DoesType DEF Register, OnAbort, Actors
  <2>2. callbacks' \in Seq({"response", "child"}) /\ Len(callbacks') <= 1
    BY <1>2 DEF Register, OnAbort, LoopGoes
  <2>3. loop' = "recheck" /\ LoopOnly /\ UNCHANGED <<events, prov, answer, command>>
    BY <1>2 DEF Register, LoopGoes
  <2> QED BY <2>1, <2>2, <2>3 DEF LoopOnly, stream, history, command
<1>3. CASE RecheckToken
  <2>1. todo' \in [Actors -> Seq(Cleanups)]
    BY <1>0, <1>3, DoesType DEF RecheckToken, Actors
  <2> QED BY <2>1, <1>3 DEF RecheckToken, LoopGoes, LoopOnly, stream, history, command
<1>4. CASE Recv
  <2>1. events' \in Seq(Events) /\ Len(events') <= Capacity
    BY <1>4 DEF Recv
  <2> QED BY <2>1, <1>4 DEF Recv, LoopGoes, LoopOnly, stream, history, command
<1>5. CASE Result
  BY <1>5 DEF Result, LoopGoes, LoopOnly, stream, history, command
<1>6. CASE Prepare
  BY <1>6 DEF Prepare, LoopGoes, LoopOnly, stream, history, command
<1>7. ASSUME NEW timed \in BOOLEAN, Execute(timed) PROVE TypeInv'
  BY <1>7 DEF Execute, LoopGoes, LoopOnly, stream, history, command
<1>8. CASE ExecuteFails
  BY <1>8 DEF ExecuteFails, LoopGoes, LoopOnly, stream, history, command
<1>9. CASE OnAbortKill
  <2>1. todo' \in [Actors -> Seq(Cleanups)]
    BY <1>0, <1>9, DoesType DEF OnAbortKill, OnAbort, Actors
  <2>2. callbacks' \in Seq({"response", "child"}) /\ Len(callbacks') <= 2
    BY <1>9 DEF OnAbortKill, OnAbort, LoopGoes
  <2>3. loop' = "rekill" /\ LoopOnly /\ UNCHANGED <<events, prov, answer, command>>
    BY <1>9 DEF OnAbortKill, LoopGoes
  <2> QED BY <2>1, <2>2, <2>3 DEF LoopOnly, stream, history, command
<1>10. CASE RecheckKill
  <2>1. todo' \in [Actors -> Seq(Cleanups)]
    BY <1>0, <1>10, DoesType DEF RecheckKill, Actors
  <2> QED BY <2>1, <1>10 DEF RecheckKill, LoopGoes, LoopOnly, stream, history, command
<1>11. CASE Finished
  BY <1>11 DEF Finished, LoopGoes, LoopOnly, stream, history, command
<1>12. CASE TimesOut
  <2>1. todo' \in [Actors -> Seq(Cleanups)]
    BY <1>0, <1>12, DoesType DEF TimesOut, Actors
  <2> QED BY <2>1, <1>12 DEF TimesOut, LoopGoes, LoopOnly, stream, history, command
<1>13. CASE Report
  <2>1. Outcome \in {"ok", "failed", "timed_out", "aborted"}
    BY Zenon DEF Outcome
  <2> QED BY <2>1, <1>13 DEF Report, LoopGoes, LoopOnly, stream, history, command
<1> QED BY <1>1, <1>2, <1>3, <1>4, <1>5, <1>6, <1>7, <1>8, <1>9, <1>10, <1>11, <1>12, <1>13 DEF
           Loop

LEMMA TypeChild == ASSUME TypeInv, ChildExits \/ ChildKilled PROVE TypeInv'
BY DEF TypeInv, TypeOK, EventInv, BoundInv, ChildExits, ChildKilled, tokens, stream, provider,
       history

LEMMA TypeInit == Init => TypeInv
<1> SUFFICES ASSUME Init PROVE TypeInv
  OBVIOUS
<1>1. event \in Events /\ EventInv
  BY DEF Init, Event, Events, Stops, EventInv
<1>2. todo \in [Actors -> Seq(Cleanups)] /\ callbacks \in Seq({"response", "child"})
      /\ events \in Seq(Events) /\ Len(events) = 0 /\ Len(callbacks) = 0
  BY DEF Init
<1>3. BoundInv
  BY <1>2 DEF Init, BoundInv
<1>4. retry \in 0..MaxRetries /\ chunks \in 0..MaxChunks /\ Len(events) <= Capacity
  BY TurnAssumption, <1>2 DEF Init
<1>5. final \in Stops /\ answer \in Stops
  BY DEF Init, Stops
<1>6. TypeOK
  BY <1>1, <1>2, <1>4, <1>5 DEF Init, TypeOK
<1> QED BY <1>1, <1>3, <1>6 DEF TypeInv

\* The types are kept by every step.
LEMMA TypeStep == ASSUME TypeInv, [Next]_vars PROVE TypeInv'
<1>1. CASE UNCHANGED vars
  BY <1>1 DEF TypeInv, TypeOK, EventInv, BoundInv, vars, tokens, stream, provider, command,
              history
<1>2. CASE Next
  <2>1. CASE Abort
    BY <2>1, TypeAbort
  <2>2. CASE \E a \in Actors : Callback(a)
    BY <2>2, TypeCallback
  <2>3. CASE Provider
    BY <2>3, TypeProvider
  <2>4. CASE Network
    BY <2>4, TypeNetwork
  <2>5. CASE Loop
    BY <2>5, TypeLoop
  <2>6. CASE ChildExits \/ ChildKilled
    BY <2>6, TypeChild
  <2> QED BY <1>2, <2>1, <2>2, <2>3, <2>4, <2>5, <2>6 DEF Next
<1> QED BY <1>1, <1>2

\* The channel never holds more than its room, the retries never exceed their
\* bound, and every variable keeps its type (ai/event_stream.n, send_with_retry).
THEOREM TurnTypes == Spec => []TypeOK
<1>1. TypeInv => TypeOK
  BY DEF TypeInv
<1> QED BY <1>1, TypeInit, TypeStep, PTL DEF Spec

-----------------------------------------------------------------------------
(* What the tool reports *)

\* Before the abort the only callback is the kill of a timeout.
LEMMA QuietStep == ASSUME TypeInv, QuietInv, [Next]_vars PROVE QuietInv'
<1> SUFFICES ASSUME ~token' PROVE QuietInv'
  BY DEF QuietInv
<1>0. todo \in [Actors -> Seq(Cleanups)]
  BY DEF TypeInv, TypeOK
<1>1. CASE UNCHANGED vars
  BY <1>1 DEF QuietInv, vars, tokens, command
<1>2. CASE Abort
  BY <1>2 DEF Abort
<1>3. ASSUME NEW a \in Actors, Callback(a) PROVE QuietInv'
  <2>1. UNCHANGED <<token, timedOut>>
    BY <1>3 DEF Callback, Mark, Cancel, CloseResponse, TerminateProcess, tokens, command
  <2>2. (todo[a] # <<>> /\ Head(todo[a]) # "kill") \/ TerminateProcess(a)
    BY <1>3 DEF Callback, Mark, Cancel, CloseResponse, Idle
  <2>3. todo[a] # <<>>
    BY <1>3 DEF Callback, Mark, Cancel, CloseResponse, TerminateProcess, Idle
  <2>4. a = "loop" /\ todo[a] = <<"kill">> /\ timedOut /\ ~token
    BY <2>1, <2>3 DEF QuietInv, Actors
  <2>5. Head(todo[a]) = "kill" /\ Tail(todo[a]) = <<>>
    BY <2>4
  <2>6. TerminateProcess(a)
    BY <2>2, <2>5
  <2>7. todo' = [todo EXCEPT !["loop"] = <<>>]
    BY <2>4, <2>5, <2>6 DEF TerminateProcess, Does
  <2>8. UNCHANGED <<marked, cancelled>>
    BY <2>6 DEF TerminateProcess, tokens
  <2> QED BY <1>0, <2>1, <2>4, <2>7, <2>8 DEF QuietInv, Actors
<1>4. CASE Provider
  <2>1. UNCHANGED <<token, marked, cancelled, killed, timedOut>>
    BY <1>4 DEF Provider, ProviderOnly, command, Begin, SendWithRetry, SendFails, SendOnce,
       RegisterCloser, Recheck, StatusOK, StatusBad, Sleep, Fail, PushTest, PushSend, End,
       CloseChannels
  <2>2. ~cancelled
    BY <2>1 DEF QuietInv
  <2>3. UNCHANGED todo
    BY <1>4, <2>2 DEF Provider, Begin, SendWithRetry, SendFails, SendOnce, RegisterCloser,
       Recheck, StatusOK, StatusBad, Sleep, Fail, PushTest, PushSend, End, CloseChannels
  <2> QED BY <2>1, <2>3 DEF QuietInv
<1>5. CASE Network
  <2>1. UNCHANGED <<token, marked, cancelled, killed, timedOut, todo>>
    BY <1>5 DEF Network, ReadText, ReadFails, ReadStop, ErrorBody, ProviderOnly, command
  <2> QED BY <2>1 DEF QuietInv
<1>6. CASE Loop
  <2>1. UNCHANGED <<token, marked, cancelled, killed>>
    BY <1>6 DEF Loop, LoopOnly, Ask, Register, RecheckToken, Recv, Result, Prepare, Execute,
       ExecuteFails, OnAbortKill, RecheckKill, Finished, TimesOut, Report
  <2>2. CASE TimesOut
    <3>1. todo' = [todo EXCEPT !["loop"] = <<"kill">>] /\ timedOut'
      BY <2>2 DEF TimesOut, Does
    <3> QED BY <1>0, <2>1, <3>1 DEF QuietInv, Actors
  <2>3. CASE ~TimesOut
    <3>1. UNCHANGED <<todo, timedOut>>
      BY <1>6, <2>1, <2>3 DEF Loop, OnAbort, command, Ask, Register, RecheckToken, Recv, Result,
         Prepare, Execute, ExecuteFails, OnAbortKill, RecheckKill, Finished, Report
    <3> QED BY <2>1, <3>1 DEF QuietInv
  <2> QED BY <2>2, <2>3
<1>7. CASE ChildExits \/ ChildKilled
  BY <1>7 DEF QuietInv, ChildExits, ChildKilled, tokens
<1> QED BY <1>1, <1>2, <1>3, <1>4, <1>5, <1>6, <1>7 DEF Next

\* The abort, its callbacks, the provider and the network leave the loop and
\* its command alone.
LEMMA LoopAlone ==
    ASSUME TypeInv, Abort \/ (\E a \in Actors : Callback(a)) \/ Provider \/ Network
    PROVE  UNCHANGED <<loop, answer, child, timer, timedOut, outcome>> /\ (killed => killed')
<1>1. CASE Abort
  BY <1>1 DEF Abort, command
<1>2. ASSUME NEW a \in Actors, Callback(a)
      PROVE  UNCHANGED <<loop, answer, child, timer, timedOut, outcome>> /\ (killed => killed')
  BY <1>2 DEF Callback, Mark, Cancel, CloseResponse, TerminateProcess, command
<1>3. CASE Provider
  BY <1>3 DEF Provider, ProviderOnly, command, Begin, SendWithRetry, SendFails, SendOnce,
     RegisterCloser, Recheck, StatusOK, StatusBad, Sleep, Fail, PushTest, PushSend, End,
     CloseChannels
<1>4. CASE Network
  BY <1>4 DEF Network, ReadText, ReadFails, ReadStop, ErrorBody, ProviderOnly, command
<1> QED BY <1>1, <1>2, <1>3, <1>4

\* What is reported of the command follows from how it ended.
LEMMA CommandStep == ASSUME TypeInv, QuietInv, CommandInv, [Next]_vars PROVE CommandInv'
<1> USE DEF CommandInv, CommandTruth
<1>1. CASE UNCHANGED vars
  BY <1>1 DEF vars, command
<1>2. CASE Abort \/ (\E a \in Actors : Callback(a)) \/ Provider \/ Network
  BY <1>2, LoopAlone
<1>3. CASE Loop
  <2>1. CASE Ask
    BY <2>1 DEF Ask, LoopGoes, LoopOnly, command
  <2>2. CASE Register
    BY <2>2 DEF Register, LoopGoes, LoopOnly, command
  <2>3. CASE RecheckToken
    BY <2>3 DEF RecheckToken, LoopGoes, LoopOnly, command
  <2>4. CASE Recv
    BY <2>4 DEF Recv, LoopGoes, LoopOnly, command, TypeInv, TypeOK
  <2>5. CASE Result
    BY <2>5 DEF Result, LoopGoes, LoopOnly, command, TypeInv, TypeOK
  <2>6. CASE Prepare
    BY <2>6 DEF Prepare, LoopGoes, LoopOnly, command
  <2>7. ASSUME NEW timed \in BOOLEAN, Execute(timed) PROVE CommandInv'
    BY <2>7 DEF Execute, LoopGoes, LoopOnly, command
  <2>8. CASE ExecuteFails
    BY <2>8 DEF ExecuteFails, LoopGoes, LoopOnly, command
  <2>9. CASE OnAbortKill
    BY <2>9 DEF OnAbortKill, LoopGoes, LoopOnly, command
  <2>10. CASE RecheckKill
    BY <2>10 DEF RecheckKill, LoopGoes, LoopOnly, command
  <2>11. CASE Finished
    BY <2>11 DEF Finished, LoopGoes, LoopOnly, command, TypeInv, TypeOK
  <2>12. CASE TimesOut
    BY <2>12 DEF TimesOut, LoopGoes, LoopOnly, command
  <2>13. CASE Report
    <3>1. loop = "report" /\ loop' = "ended" /\ UNCHANGED <<child, timer, timedOut, killed>>
      BY <2>13 DEF Report, LoopGoes, LoopOnly
    <3>2. outcome' \in {"ok", "failed", "timed_out", "aborted"}
      BY <2>13, Zenon DEF Report, Outcome
    <3>3. outcome' = "failed" => ~token /\ ~timedOut /\ child = "nonzero"
      BY <2>13, Zenon DEF Report, Outcome
    <3>4. outcome' = "ok" => ~token /\ ~timedOut /\ child # "nonzero"
      BY <2>13, Zenon DEF Report, Outcome
    <3>5. outcome' \in {"ok", "failed"} => child # "killed"
      BY <3>1, <3>3, <3>4 DEF QuietInv
    <3>6. outcome' = "ok" => child \in {"zero", "signalled"}
      BY <3>1, <3>4, <3>5 DEF TypeInv, TypeOK
    <3> QED BY <3>1, <3>2, <3>3, <3>5, <3>6
  <2> QED BY <1>3, <2>1, <2>2, <2>3, <2>4, <2>5, <2>6, <2>7, <2>8, <2>9, <2>10, <2>11, <2>12,
             <2>13 DEF Loop
<1>4. CASE ChildExits \/ ChildKilled
  BY <1>4 DEF ChildExits, ChildKilled
<1> QED BY <1>1, <1>2, <1>3, <1>4 DEF Next

\* A command that the tool has killed is reported as aborted or timed out, one
\* reported as failed had a status of its own, and one reported as done ended
\* with status 0 or by a signal that the tool has not sent.
THEOREM CommandsReportedTruly == Spec => []CommandTruth
<1>1. Init => TypeInv /\ QuietInv /\ CommandInv
  <2>1. Init => QuietInv
    BY DEF Init, QuietInv, Actors
  <2>2. Init => CommandInv
    BY DEF Init, CommandInv, CommandTruth
  <2> QED BY TypeInit, <2>1, <2>2
<1>2. TypeInv /\ QuietInv /\ CommandInv /\ [Next]_vars => (TypeInv /\ QuietInv /\ CommandInv)'
  BY TypeStep, QuietStep, CommandStep
<1>3. CommandInv => CommandTruth
  BY DEF CommandInv
<1> QED BY <1>1, <1>2, <1>3, PTL DEF Spec

-----------------------------------------------------------------------------
(* What the loop makes of the answer *)

\* The loop asks once: the provider has not started before.
AskInv == loop = "ask" => prov = "idle"

\* The provider and the network never take back the last event, and the loop
\* gets the stop reason of that event.
LEMMA AnswerStep ==
    ASSUME TypeInv, CommandInv, AskInv, AnswerInv, [Next]_vars
    PROVE  AnswerInv' /\ AskInv'
<1> USE DEF AnswerInv, AskInv
<1>1. CASE UNCHANGED vars
  BY <1>1 DEF vars, stream, provider, command, history, IsTerminal
<1>2. CASE Abort
  BY <1>2 DEF Abort, stream, provider, command, history, IsTerminal
<1>3. ASSUME NEW a \in Actors, Callback(a) PROVE AnswerInv' /\ AskInv'
  BY <1>3 DEF Callback, Mark, Cancel, CloseResponse, TerminateProcess, stream, provider,
     command,
              history, IsTerminal
<1>4. CASE Provider
  <2>1. CASE Begin
    BY <2>1 DEF Begin, ProvGoes, ProviderOnly, stream, command, history, IsTerminal
  <2>2. CASE SendWithRetry
    BY <2>2 DEF SendWithRetry, ProvGoes, ProviderOnly, stream, command, history, IsTerminal
  <2>3. CASE SendFails
    BY <2>3 DEF SendFails, ProvGoes, ProviderOnly, stream, command, history, IsTerminal
  <2>4. CASE SendOnce
    BY <2>4 DEF SendOnce, ProvGoes, ProviderOnly, stream, command, history, IsTerminal
  <2>5. CASE RegisterCloser
    BY <2>5 DEF RegisterCloser, ProvGoes, ProviderOnly, stream, command, history, IsTerminal
  <2>6. CASE Recheck
    BY <2>6 DEF Recheck, ProvGoes, ProviderOnly, stream, command, history, IsTerminal
  <2>7. CASE StatusOK
    BY <2>7 DEF StatusOK, ProvGoes, ProviderOnly, stream, command, history, IsTerminal
  <2>8. CASE StatusBad
    BY <2>8 DEF StatusBad, ProvGoes, ProviderOnly, stream, command, history, IsTerminal
  <2>9. CASE Sleep
    BY <2>9 DEF Sleep, ProvGoes, ProviderOnly, stream, command, history, IsTerminal
  <2>10. CASE Fail
    BY <2>10 DEF Fail, ProvGoes, ProviderOnly, stream, command, history, IsTerminal
  <2>11. CASE PushTest
    <3>1. UNCHANGED <<ended, loop, answer, child>>
      BY <2>11 DEF PushTest, ProviderOnly, command
    <3>2. CASE terminal \/ ended \/ (IsAborted /\ ~IsTerminal(event))
      BY <2>11, <3>1, <3>2 DEF PushTest, After
    <3>3. CASE ~terminal /\ ~ended /\ ~IsTerminal(event) /\ ~IsAborted
      <4>1. prov' = "push" /\ UNCHANGED <<terminal, final, cut, event>> /\ loop # "ask"
        BY <2>11, <3>3 DEF PushTest, IsTerminal
      <4> QED BY <3>1, <3>3, <4>1 DEF IsTerminal
    <3>4. CASE ~terminal /\ ~ended /\ IsTerminal(event)
      <4>1. prov' = "push" /\ terminal' /\ cut' = marked /\ answer = "none"
        BY <2>11, <3>4 DEF PushTest, IsTerminal, Event
      <4>2. marked => final' \in {"aborted", "error"}
        BY <2>11, <3>4 DEF PushTest, IsTerminal, Event, IsAborted, TypeInv, EventInv
      <4>3. loop \notin {"prepare", "execute", "onabort", "rekill", "wait", "reap", "report"}
            /\ child = "none" /\ loop \notin {"ask", "failed"}
        BY <2>11, <3>4, <4>1 DEF PushTest
      <4> QED BY <3>1, <3>4, <4>1, <4>2, <4>3
    <3> QED BY <3>2, <3>3, <3>4
  <2>12. CASE PushSend
    BY <2>12 DEF PushSend, ProvGoes, ProviderOnly, stream, command, history, IsTerminal, After
  <2>13. CASE End
    BY <2>13 DEF End, ProvGoes, ProviderOnly, stream, command, history, IsTerminal
  <2>14. CASE CloseChannels
    BY <2>14 DEF CloseChannels, ProvGoes, ProviderOnly, stream, command, history, IsTerminal
  <2> QED BY <1>4, <2>1, <2>2, <2>3, <2>4, <2>5, <2>6, <2>7, <2>8, <2>9, <2>10, <2>11, <2>12,
             <2>13, <2>14 DEF Provider
<1>5. CASE Network
  BY <1>5 DEF Network, ReadText, ReadFails, ReadStop, ErrorBody, ProvGoes, ProviderOnly, stream,
              command, history, IsTerminal
<1>6. CASE Loop
  <2>1. CASE Ask
    BY <2>1 DEF Ask, LoopGoes, LoopOnly, stream, command, history, IsTerminal, CommandInv
  <2>2. CASE Register
    BY <2>2 DEF Register, LoopGoes, LoopOnly, stream, command, history, IsTerminal
  <2>3. CASE RecheckToken
    BY <2>3 DEF RecheckToken, LoopGoes, LoopOnly, stream, command, history, IsTerminal
  <2>4. CASE Recv
    BY <2>4 DEF Recv, LoopGoes, LoopOnly, stream, command, history, IsTerminal, CommandInv
  <2>5. CASE Result
    BY <2>5 DEF Result, LoopGoes, LoopOnly, stream, command, history, IsTerminal, CommandInv
  <2>6. CASE Prepare
    BY <2>6 DEF Prepare, LoopGoes, LoopOnly, stream, command, history, IsTerminal
  <2>7. ASSUME NEW timed \in BOOLEAN, Execute(timed) PROVE AnswerInv' /\ AskInv'
    BY <2>7 DEF Execute, LoopGoes, LoopOnly, stream, command, history, IsTerminal
  <2>8. CASE ExecuteFails
    BY <2>8 DEF ExecuteFails, LoopGoes, LoopOnly, stream, command, history, IsTerminal
  <2>9. CASE OnAbortKill
    BY <2>9 DEF OnAbortKill, LoopGoes, LoopOnly, stream, command, history, IsTerminal
  <2>10. CASE RecheckKill
    BY <2>10 DEF RecheckKill, LoopGoes, LoopOnly, stream, command, history, IsTerminal
  <2>11. CASE Finished
    BY <2>11 DEF Finished, LoopGoes, LoopOnly, stream, command, history, IsTerminal
  <2>12. CASE TimesOut
    BY <2>12 DEF TimesOut, LoopGoes, LoopOnly, stream, command, history, IsTerminal
  <2>13. CASE Report
    BY <2>13 DEF Report, LoopGoes, LoopOnly, stream, command, history, IsTerminal
  <2> QED BY <1>6, <2>1, <2>2, <2>3, <2>4, <2>5, <2>6, <2>7, <2>8, <2>9, <2>10, <2>11, <2>12,
             <2>13 DEF Loop
<1>7. CASE ChildExits \/ ChildKilled
  BY <1>7 DEF ChildExits, ChildKilled, stream, provider, history, IsTerminal
<1> QED BY <1>1, <1>2, <1>3, <1>4, <1>5, <1>6, <1>7 DEF Next

LEMMA AnswerInvariant == Spec => [](CommandInv /\ AnswerInv)
<1> DEFINE Inv == TypeInv /\ QuietInv /\ CommandInv /\ AskInv /\ AnswerInv
<1>1. Init => Inv
  <2>1. Init => QuietInv
    BY DEF Init, QuietInv, Actors
  <2>2. Init => CommandInv /\ AskInv /\ AnswerInv
    BY DEF Init, CommandInv, CommandTruth, AskInv, AnswerInv, IsTerminal
  <2> QED BY TypeInit, <2>1, <2>2
<1>2. Inv /\ [Next]_vars => Inv'
  BY TypeStep, QuietStep, CommandStep, AnswerStep
<1>3. Inv => CommandInv /\ AnswerInv
  OBVIOUS
<1> QED BY <1>1, <1>2, <1>3, PTL DEF Spec

\* An answer accepted after the abort has reached the stream ends the turn:
\* the loop does not call its tools (push of ai/event_stream.n).
THEOREM AbortedTurnEnds == Spec => []CutTurnEnds
<1>1. CommandInv /\ AnswerInv => CutTurnEnds
  BY DEF CommandInv, AnswerInv, CutTurnEnds
<1> QED BY <1>1, AnswerInvariant, PTL

\* result() never throws for want of a last event: the provider ends the
\* stream only after one was accepted, aborted or not.
THEOREM ResultNeverThrows == Spec => [](loop # "failed" /\ (ended => terminal))
<1>1. AnswerInv => loop # "failed" /\ (ended => terminal)
  BY DEF AnswerInv
<1> QED BY <1>1, AnswerInvariant, PTL
=============================================================================
