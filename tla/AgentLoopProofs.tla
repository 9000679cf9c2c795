-------------------------- MODULE AgentLoopProofs --------------------------
(***************************************************************************)
(* What AgentLoop promises for any number of messages, turns and tool      *)
(* calls: what the model is asked about, the order of the results, where a *)
(* follow-up may come, and what the queues hold and show.                  *)
(***************************************************************************)
EXTENDS AgentLoop, SequenceTheorems, WellFoundedInduction, NaturalsInduction, TLAPS

Batch == {"truncated", "prepare", "record", "check", "launch", "wait", "results", "collect"}
Between == {"steer", "follow_up", "deliver", "ask"}

\* What a message in the context or the log may be.
AnyEntry ==
    {User(m) : m \in Msgs} \cup {Partial}
    \cup {Assistant(t) : t \in Nat} \cup {Result(t, i) : t \in Nat, i \in Nat}

AnyAnswer == [stop : {"stop", "length", "error", "aborted"}, calls : Nat]
CallStates == {"new", "failed", "ready", "running", "returned", "ended"}

\* As much of the types as the arguments need.
LoopTypes ==
    /\ log \in Seq(AnyEntry) /\ context \in Seq(AnyEntry)
    /\ answers \in Seq(AnyAnswer)
    /\ calls \in Seq(CallStates)
    /\ next \in Nat /\ finalized \in Nat
    /\ mode \in {"none", "sequential", "parallel"}
    /\ pc \in Batch \cup Between \cup Stopped \cup {"start", "stream", "turn_end"}
    /\ aborted \in BOOLEAN /\ more \in BOOLEAN
    /\ steering \in Seq(Msgs) /\ follow_up \in Seq(Msgs) /\ pending \in Seq(Msgs)
    /\ steered \in Seq(Msgs) /\ followed \in Seq(Msgs)

\* Where the loop over the calls stands.
CountInv ==
    /\ pc \in Batch =>
         /\ turn >= 1 /\ answers[turn].calls = Len(calls)
         /\ answers[turn].stop \notin {"error", "aborted"}
         /\ next \in 1..Len(calls) /\ finalized <= Len(calls)
    /\ pc = "truncated" => mode = "none" /\ finalized = next - 1
    /\ pc \in {"prepare", "record"} => mode # "none" /\ finalized = next - 1
    /\ pc = "record" => mode = "sequential"
    /\ pc = "check" => mode # "none" /\ finalized = next
    /\ pc \in {"launch", "wait", "results"} => mode = "parallel"
    /\ pc \in {"launch", "wait", "results", "collect"} =>
         finalized >= 1 /\ (finalized < Len(calls) => aborted)
    /\ pc \in {"launch", "wait"} => next = 1
    /\ pc = "results" => next <= finalized

\* How many results of the batch have been persisted.
Persisted ==
    IF mode = "parallel" /\ pc # "collect" THEN IF pc = "results" THEN next - 1 ELSE 0
                                            ELSE finalized

Results(t, n) == [k \in 1..n |-> Result(t, k)]

\* The log and the context differ by what is on its way from one to the other.
PersistInv ==
    /\ pc = "start" => context = <<User(Prompt)>> /\ log = <<>>
    /\ pc \in Between \cup {"turn_end"} => context = log
    /\ pc = "stream" => context = Append(log, Partial)
    /\ pc \in Batch => log = context \o Results(turn, Persisted)

\* A tool runs only where the loop waits for it.
RunningInv ==
    \A i \in DOMAIN calls : calls[i] = "running" =>
        \/ pc = "record" /\ i = next
        \/ pc = "wait"

\* While its calls are looked at, the answer is the last message of the context.
AnswerInv ==
    /\ pc \in Batch => context # <<>> /\ context[Len(context)] = Assistant(turn)
    /\ \A k \in DOMAIN log : log[k].role = "assistant" => log[k].of[1] \in 1..turn

Complete(k, t) ==
    /\ answers[t].stop \notin {"error", "aborted"}
    /\ Len(log) >= k + answers[t].calls
    /\ \A i \in 1..answers[t].calls : log[k + i] = Result(t, i)

\* The loop has done with the current answer and may ask again.
GoesOn == pc \in Between \cup {"stream"} \/ (pc = "turn_end" /\ ~aborted)

\* Every answer before the current one has all its results, and so has the
\* current one when the loop goes on.
CompleteInv ==
    \A k \in DOMAIN log, t \in 1..turn : log[k] = Assistant(t) =>
        /\ t < turn \/ GoesOn => Complete(k, t)
        /\ pc \in Batch /\ t = turn => k = Len(context)

\* The last message of the log is no answer when the loop is about to ask.
LastInv ==
    /\ pc \notin {"start", "failed"} => log # <<>>
    /\ pc \in {"turn_end", "steer", "follow_up"} /\ more => log[Len(log)].role # "assistant"
    /\ pc = "deliver" => pending # <<>> \/ log[Len(log)].role # "assistant"
    /\ pc = "ask" => log[Len(log)].role # "assistant"

\* A message behind which a follow-up may come.
DoneEntry(e) ==
    \/ e.role = "user" /\ e.of \in ToSet(followed)
    \/ e.role # "user" /\ (answers[e.of[1]].calls = 0 \/ e.of[1] \in closed)

\* What waits was queued, the two queues are apart, and one drain fills pending.
QueueInv ==
    /\ ToSet(steering) \subseteq ToSet(steered) /\ ToSet(follow_up) \subseteq ToSet(followed)
    /\ ToSet(pending) \subseteq ToSet(steered) \/ ToSet(pending) \subseteq ToSet(followed)
    /\ ToSet(steered) \cap ToSet(followed) = {} /\ Prompt \notin Queued

\* A message of the log is the prompt, was queued or belongs to an answer.
OriginInv ==
    \A k \in DOMAIN log :
        IF log[k].role = "user" THEN log[k].of \in Queued \cup {Prompt}
                                ELSE log[k].of[1] \in 1..turn

\* A follow-up waits to be delivered only behind a message that permits it.
FollowInv ==
    /\ pc \in {"turn_end", "steer", "follow_up"} /\ ~more =>
         log[Len(log)].role # "user" /\ DoneEntry(log[Len(log)])
    /\ pc = "deliver" /\ pending # <<>> /\ ToSet(pending) \subseteq ToSet(followed) =>
         DoneEntry(log[Len(log)])
    /\ pc = "start" => more
    /\ pc = "follow_up" => ~more
    /\ FollowUpsWhenDone

-----------------------------------------------------------------------------
(* Sequences *)

\* The results of the current batch, in the order of the calls.
LEMMA ResultsSeq ==
    ASSUME NEW t \in Nat, NEW n \in Nat
    PROVE  /\ Results(t, n) \in Seq(AnyEntry) /\ Len(Results(t, n)) = n
           /\ \A k \in 1..n : Results(t, n)[k] = Result(t, k)
<1>2. \A k \in 1..n : Result(t, k) \in AnyEntry
  BY DEF AnyEntry
<1>3. Results(t, n) \in [1..n -> AnyEntry]
  BY <1>2 DEF Results
<1>4. Results(t, n) \in Seq(AnyEntry)
  BY <1>3, SeqDef
<1>5. Len(Results(t, n)) = n
  BY <1>3, <1>4, LenProperties DEF Results
<1> QED BY <1>4, <1>5 DEF Results

\* One more result behind the first n.
LEMMA ResultsGrow ==
    ASSUME NEW t \in Nat, NEW n \in Nat, NEW s \in Seq(AnyEntry)
    PROVE  Append(s \o Results(t, n), Result(t, n + 1)) = s \o Results(t, n + 1)
<1>0. n + 1 \in Nat
  OBVIOUS
<1>1. Result(t, n + 1) \in AnyEntry
  BY <1>0 DEF AnyEntry
<1>r. Results(t, n + 1) \in Seq(AnyEntry) /\ Len(Results(t, n + 1)) = n + 1
      /\ \A k \in 1..n + 1 : Results(t, n + 1)[k] = Result(t, k)
  BY <1>0, ResultsSeq
<1>l. Len(s) \in Nat
  OBVIOUS
<1> DEFINE a == s \o Results(t, n)
           b == Append(a, Result(t, n + 1))
           c == s \o Results(t, n + 1)
<1>2. a \in Seq(AnyEntry) /\ Len(a) = Len(s) + n
  BY ResultsSeq, ConcatProperties
<1>3. b \in Seq(AnyEntry) /\ Len(b) = Len(s) + n + 1
  BY <1>1, <1>2, AppendProperties
<1>4. c \in Seq(AnyEntry) /\ Len(c) = Len(s) + n + 1
  <2> DEFINE u == Results(t, n + 1)
  <2>1. u \in Seq(AnyEntry) /\ Len(u) = n + 1
    BY <1>r
  <2> HIDE DEF u
  <2>2. s \o u \in Seq(AnyEntry) /\ Len(s \o u) = Len(s) + Len(u)
    BY <2>1, ConcatProperties
  <2> QED BY <1>l, <2>1, <2>2 DEF u
<1>5. ASSUME NEW i \in 1..Len(b) PROVE b[i] = c[i]
  <2>i. i \in Nat /\ 1 <= i /\ i <= Len(s) + n + 1
    BY <1>3, <1>l
  <2>0. c[i] = IF i <= Len(s) THEN s[i] ELSE Results(t, n + 1)[i - Len(s)]
    BY <1>3, <1>r, <1>l, ConcatProperties
  <2>1. CASE i <= Len(s) + n
    <3>0. i \in 1..Len(a)
      BY <1>2, <1>l, <2>i, <2>1
    <3>1. b[i] = a[i]
      <4> HIDE DEF a
      <4> QED BY <1>1, <1>2, <3>0, AppendProperties
    <3>2. a[i] = IF i <= Len(s) THEN s[i] ELSE Results(t, n)[i - Len(s)]
      <4>1. i \in 1..Len(s) + Len(Results(t, n)) /\ Results(t, n) \in Seq(AnyEntry)
        BY <1>l, <2>i, <2>1, ResultsSeq
      <4> QED BY <4>1, ConcatProperties
    <3>3. i > Len(s) => i - Len(s) \in 1..n /\ i - Len(s) \in 1..n + 1
      BY <1>l, <2>i, <2>1
    <3>4. i > Len(s) => Results(t, n)[i - Len(s)] = Result(t, i - Len(s))
                        /\ Results(t, n + 1)[i - Len(s)] = Result(t, i - Len(s))
      BY <3>3, <1>r, ResultsSeq
    <3> HIDE DEF a, b, c
    <3> QED BY <2>0, <2>i, <1>l, <3>1, <3>2, <3>4
  <2>2. CASE i = Len(s) + n + 1
    <3>1. b[i] = Result(t, n + 1)
      BY <1>1, <1>2, <2>2, AppendProperties
    <3>2. i - Len(s) = n + 1 /\ ~(i <= Len(s))
      BY <1>l, <2>2
    <3>3. Results(t, n + 1)[n + 1] = Result(t, n + 1)
      BY <1>0, <1>r
    <3> HIDE DEF a, b, c
    <3> QED BY <2>0, <3>1, <3>2, <3>3
  <2>3. i <= Len(s) + n \/ i = Len(s) + n + 1
    BY <2>i, <1>l
  <2> HIDE DEF a, b, c
  <2> QED BY <2>1, <2>2, <2>3
<1> HIDE DEF a, b, c
<1>6. b = c
  BY <1>3, <1>4, <1>5, SeqEqual
<1> QED BY <1>6 DEF a, b, c

\* Results behind the messages of s.
LEMMA ResultsBehind ==
    ASSUME NEW t \in Nat, NEW n \in Nat, NEW s \in Seq(AnyEntry)
    PROVE  /\ Len(s) \in Nat /\ Len(s \o Results(t, n)) = Len(s) + n
           /\ \A i \in 1..n : (s \o Results(t, n))[Len(s) + i] = Result(t, i)
<1> DEFINE r == Results(t, n)
<1>1. r \in Seq(AnyEntry) /\ Len(r) = n /\ \A i \in 1..n : r[i] = Result(t, i)
  BY ResultsSeq
<1> HIDE DEF r
<1>2. Len(s) \in Nat /\ Len(s \o r) = Len(s) + n
  <2>1. Len(s \o r) = Len(s) + Len(r)
    BY <1>1, ConcatProperties
  <2> QED BY <1>1, <2>1
<1>3. ASSUME NEW i \in 1..n PROVE (s \o r)[Len(s) + i] = Result(t, i)
  <2> DEFINE j == Len(s) + i
  <2>1. j \in 1..Len(s) + Len(r) /\ ~(j <= Len(s)) /\ j - Len(s) = i
    BY <1>1, <1>2
  <2> HIDE DEF j
  <2>2. (s \o r)[j] = r[j - Len(s)]
    BY <1>1, <2>1, ConcatProperties
  <2> QED BY <1>1, <2>1, <2>2 DEF j
<1> QED BY <1>2, <1>3 DEF r

LEMMA ResultsNone ==
    ASSUME NEW t \in Nat, NEW s \in Seq(AnyEntry)
    PROVE  s \o Results(t, 0) = s
BY ResultsSeq, EmptySeq, ConcatEmptySeq

\* A step that changes the state of a call keeps the calls a sequence.
LEMMA CallsExcept ==
    ASSUME NEW c \in Seq(CallStates), NEW i, NEW e \in CallStates
    PROVE  /\ [c EXCEPT ![i] = e] \in Seq(CallStates)
           /\ Len([c EXCEPT ![i] = e]) = Len(c)
<1>1. Len(c) \in Nat /\ c \in [1..Len(c) -> CallStates]
  BY LenProperties
<1>2. [c EXCEPT ![i] = e] \in [1..Len(c) -> CallStates]
  BY <1>1
<1>3. [c EXCEPT ![i] = e] \in Seq(CallStates)
  BY <1>1, <1>2, SeqDef
<1>4. DOMAIN [c EXCEPT ![i] = e] = 1..Len(c)
  BY <1>2
<1> QED BY <1>1, <1>3, <1>4, LenProperties

LEMMA CallsMap ==
    ASSUME NEW n \in Nat, NEW c \in [1..n -> CallStates]
    PROVE  c \in Seq(CallStates) /\ Len(c) = n
<1>1. c \in Seq(CallStates)
  BY SeqDef
<1> QED BY <1>1, LenProperties

-----------------------------------------------------------------------------
(* Types *)

\* The client and the forwarder touch the queues only.
LEMMA TypesOthers == ASSUME LoopTypes, Others PROVE LoopTypes'
<1> USE DEF LoopTypes, Others, lvars, batch
<1>1. CASE Forwarder
  BY <1>1 DEF Forwarder, MarkDelivered, ForwarderSnapshots, ForwarderPushes, ForwarderStarts,
              queues, history
<1>2. ASSUME NEW m \in Msgs, EnqueueSteering(m) PROVE LoopTypes'
  BY <1>2 DEF EnqueueSteering
<1>3. ASSUME NEW m \in Msgs, EnqueueFollowUp(m) PROVE LoopTypes'
  BY <1>3 DEF EnqueueFollowUp
<1>4. CASE Restore
  BY <1>4 DEF Restore
<1>5. CASE ClientSnapshots \/ ClientPushes
  BY <1>5 DEF ClientSnapshots, ClientPushes, queues, history
<1> QED BY <1>1, <1>2, <1>3, <1>4, <1>5 DEF Client

\* What the loop takes out of a queue, and what it leaves there.
LEMMA DrainTypes ==
    ASSUME NEW q \in Seq(Msgs), NEW m
    PROVE  /\ Drained(q, m) \in Seq(Msgs) /\ Remaining(q, m) \in Seq(Msgs)
           /\ ToSet(Drained(q, m)) \subseteq ToSet(q) /\ ToSet(Remaining(q, m)) \subseteq ToSet(q)
           /\ q # <<>> => Drained(q, m) # <<>>
<1>1. CASE q = <<>>
  BY <1>1 DEF Drained, Remaining, ToSet
<1>2. CASE q # <<>> /\ m = "all"
  BY <1>2 DEF Drained, Remaining, ToSet
<1>3. CASE q # <<>> /\ m # "all"
  <2>1. Drained(q, m) = <<Head(q)>> /\ Remaining(q, m) = Tail(q)
    BY <1>3 DEF Drained, Remaining
  <2>2. Head(q) = q[1] /\ 1 \in DOMAIN q /\ Head(q) \in Msgs
    BY <1>3
  <2>3. Tail(q) \in Seq(Msgs) /\ \A i \in DOMAIN Tail(q) : i + 1 \in DOMAIN q /\ Tail(q)[i] = q[i + 1]
    BY <1>3
  <2>4. ToSet(Drained(q, m)) \subseteq ToSet(q)
    BY <2>1, <2>2 DEF ToSet
  <2>5. ToSet(Remaining(q, m)) \subseteq ToSet(q)
    BY <2>1, <2>3 DEF ToSet
  <2> QED BY <2>1, <2>2, <2>3, <2>4, <2>5
<1> QED BY <1>1, <1>2, <1>3

\* Between the answers.
LEMMA TypesBetween ==
    ASSUME LoopTypes, RunPrompt \/ DrainSteering \/ DrainFollowUp \/ Deliver \/ DeliverFails
                      \/ Ask \/ StreamStarts \/ TurnEnd
    PROVE  LoopTypes'
<1> USE DEF LoopTypes, qvars, queues, history, batch, Stopped, Between
<1>1. CASE RunPrompt
  <2>1. User(Prompt) \in AnyEntry
    BY QueueAssumption DEF AnyEntry
  <2> QED BY <1>1, <2>1 DEF RunPrompt
<1>2. CASE DrainSteering
  BY <1>2, DrainTypes DEF DrainSteering, drain_steering
<1>3. CASE DrainFollowUp
  BY <1>3, DrainTypes DEF DrainFollowUp, drain_follow_up
<1>4. CASE Deliver
  <2>1. pending # <<>> /\ pending' = Tail(pending) /\ pending' \in Seq(Msgs)
        /\ Head(pending) \in Msgs
    BY <1>4 DEF Deliver, Announce
  <2>2. User(Head(pending)) \in AnyEntry
    BY <2>1 DEF AnyEntry
  <2> QED BY <1>4, <2>1, <2>2 DEF Deliver, Announce
<1>5. CASE DeliverFails
  <2>1. pending' \in Seq(Msgs)
    BY <1>5 DEF DeliverFails, Announce
  <2> QED BY <1>5, <2>1 DEF DeliverFails, Announce
<1>6. CASE Ask
  BY <1>6 DEF Ask
<1>7. CASE StreamStarts
  <2>1. Partial \in AnyEntry
    BY DEF AnyEntry
  <2> QED BY <1>7, <2>1 DEF StreamStarts
<1>8. CASE TurnEnd
  BY <1>8 DEF TurnEnd
<1> QED BY <1>1, <1>2, <1>3, <1>4, <1>5, <1>6, <1>7, <1>8

\* The answer.
LEMMA TypesAnswer ==
    ASSUME LoopTypes, NEW stop \in {"stop", "length", "error", "aborted"}, NEW n \in Nat,
           NEW m \in {"sequential", "parallel"}, StreamEnds(stop, n, m)
    PROVE  LoopTypes' /\ Len(calls') = n /\ turn' = turn + 1
<1> USE DEF LoopTypes
<1>1. turn \in Nat /\ turn + 1 \in Nat
  BY DEF turn
<1>2. Assistant(turn + 1) \in AnyEntry
  BY <1>1 DEF AnyEntry
<1>3. Front(context) \in Seq(AnyEntry)
  BY SubSeqProperties DEF Front
<1>4. context' \in Seq(AnyEntry) /\ log' \in Seq(AnyEntry)
  BY <1>2, <1>3, AppendProperties DEF StreamEnds
<1>5. [stop |-> stop, calls |-> n] \in AnyAnswer
  BY DEF AnyAnswer
<1>6. answers' \in Seq(AnyAnswer) /\ turn' = turn + 1
  BY <1>5, AppendProperties DEF StreamEnds, turn
<1>7. calls' \in Seq(CallStates) /\ Len(calls') = n
  BY CallsMap DEF StreamEnds, CallStates
<1>8. next' \in Nat /\ finalized' \in Nat /\ mode' \in {"none", "sequential", "parallel"}
      /\ pc' \in {"ended", "turn_end", "truncated", "prepare"} /\ more' \in BOOLEAN
      /\ UNCHANGED <<qvars, aborted>>
  BY DEF StreamEnds
<1>9. LoopTypes'
  BY <1>4, <1>6, <1>7, <1>8 DEF Batch, Stopped, qvars, queues, history
<1> QED BY <1>6, <1>7, <1>9

\* The loop over the calls.
LEMMA TypesBatch ==
    ASSUME LoopTypes, (\E i \in 1..MaxCalls, state \in {"ready", "failed"} : Prepare(i, state))
                      \/ TruncatedResult \/ Record \/ Check \/ Launch \/ Receive \/ Received
                      \/ ParallelResult \/ Collect \/ Tools \/ LoopFails \/ Abort
    PROVE  LoopTypes' /\ Len(calls') = Len(calls)
<1> USE DEF LoopTypes, qvars, queues, history, batch, Stopped, Batch
<1>0. turn \in Nat /\ \A i \in Nat : Result(turn, i) \in AnyEntry
  <2>1. turn \in Nat
    BY DEF turn
  <2> QED BY <2>1 DEF AnyEntry
<1>c. CallStates = {"new", "failed", "ready", "running", "returned", "ended"}
  BY DEF CallStates
<1>1. ASSUME NEW i \in 1..MaxCalls, NEW state \in {"ready", "failed"}, Prepare(i, state)
      PROVE  LoopTypes' /\ Len(calls') = Len(calls)
  <2>1. calls' \in Seq(CallStates) /\ Len(calls') = Len(calls)
    BY <1>1, <1>c, CallsExcept DEF Prepare
  <2> QED BY <1>1, <2>1 DEF Prepare
<1>2. CASE TruncatedResult
  <2>1. calls' \in Seq(CallStates) /\ Len(calls') = Len(calls)
    BY <1>2, <1>c, CallsExcept DEF TruncatedResult
  <2>2. log' \in Seq(AnyEntry)
    BY <1>0, <1>2, AppendProperties DEF TruncatedResult
  <2> QED BY <1>2, <2>1, <2>2 DEF TruncatedResult
<1>3. CASE Record
  <2>1. calls' \in Seq(CallStates) /\ Len(calls') = Len(calls)
    BY <1>3, <1>c, CallsExcept DEF Record
  <2>2. log' \in Seq(AnyEntry)
    BY <1>0, <1>3, AppendProperties DEF Record
  <2> QED BY <1>3, <2>1, <2>2 DEF Record
<1>4. CASE Check
  BY <1>4 DEF Check
<1>5. CASE Launch
  <2>1. Len(calls) \in Nat /\ DOMAIN calls = 1..Len(calls)
    BY LenProperties
  <2>2. \A i \in DOMAIN calls : calls[i] \in CallStates
    BY <2>1
  <2>3. calls' \in [1..Len(calls) -> CallStates]
    BY <1>5, <1>c, <2>1, <2>2 DEF Launch
  <2>4. calls' \in Seq(CallStates) /\ Len(calls') = Len(calls)
    BY <2>1, <2>3, CallsMap
  <2> QED BY <1>5, <2>4 DEF Launch
<1>6. CASE Receive
  <2>1. calls' \in Seq(CallStates) /\ Len(calls') = Len(calls)
    BY <1>6, <1>c, CallsExcept DEF Receive
  <2> QED BY <1>6, <2>1 DEF Receive
<1>7. CASE Received
  BY <1>7 DEF Received
<1>8. CASE ParallelResult
  <2>1. log' \in Seq(AnyEntry)
    BY <1>0, <1>8, AppendProperties DEF ParallelResult
  <2> QED BY <1>8, <2>1 DEF ParallelResult
<1>9. CASE Collect
  <2>1. context' = context \o Results(turn, finalized)
    BY <1>9 DEF Collect, Results
  <2>2. context' \in Seq(AnyEntry)
    BY <1>0, <2>1, ResultsSeq, ConcatProperties
  <2> QED BY <1>9, <2>2 DEF Collect
<1>10. CASE Tools
  <2>1. PICK i \in 1..MaxCalls, terminate \in BOOLEAN : ToolReturns(i, terminate)
    BY <1>10 DEF Tools
  <2>2. calls' \in Seq(CallStates) /\ Len(calls') = Len(calls)
    BY <2>1, <1>c, CallsExcept DEF ToolReturns
  <2> QED BY <2>1, <2>2 DEF ToolReturns
<1>11. CASE LoopFails
  BY <1>11 DEF LoopFails
<1>12. CASE Abort
  BY <1>12 DEF Abort
<1> QED BY <1>1, <1>2, <1>3, <1>4, <1>5, <1>6, <1>7, <1>8, <1>9, <1>10, <1>11, <1>12

LEMMA TypesInit == Init => LoopTypes
<1> SUFFICES ASSUME Init PROVE LoopTypes
  OBVIOUS
<1>1. User(Prompt) \in AnyEntry
  BY QueueAssumption DEF AnyEntry
<1>2. context = <<User(Prompt)>> /\ context \in Seq(AnyEntry)
  BY <1>1 DEF Init
<1>3. pc = "start" /\ log = <<>> /\ answers = <<>> /\ calls = <<>> /\ next = 1 /\ finalized = 0
      /\ mode = "none" /\ aborted = FALSE /\ more = TRUE
  BY DEF Init
<1>4. steering = <<>> /\ follow_up = <<>> /\ pending = <<>> /\ steered = <<>> /\ followed = <<>>
  BY DEF Init, QInit
<1>5. steering \in Seq(Msgs) /\ follow_up \in Seq(Msgs) /\ pending \in Seq(Msgs)
      /\ steered \in Seq(Msgs) /\ followed \in Seq(Msgs)
  BY <1>4, EmptySeq
<1>6. log \in Seq(AnyEntry) /\ answers \in Seq(AnyAnswer) /\ calls \in Seq(CallStates)
  BY <1>3, EmptySeq
<1>7. next \in Nat /\ finalized \in Nat /\ aborted \in BOOLEAN /\ more \in BOOLEAN
  BY <1>3
<1>8. pc \in {"start", "stream", "turn_end"} /\ mode \in {"none", "sequential", "parallel"}
  BY <1>3
<1> QED BY <1>2, <1>5, <1>6, <1>7, <1>8 DEF LoopTypes

\* The types are kept by every step.
LEMMA TypesStep == ASSUME LoopTypes, [Next]_vars PROVE LoopTypes'
<1>1. CASE UNCHANGED vars
  BY <1>1 DEF vars, lvars, qvars, queues, history, batch, LoopTypes
<1>2. CASE Step \/ StreamStarts \/ Tools \/ LoopFails \/ Abort
  <2>1. CASE Step
    BY <2>1, TypesBetween, TypesBatch DEF Step
  <2>2. CASE StreamStarts
    BY <2>2, TypesBetween
  <2>3. CASE Tools \/ LoopFails \/ Abort
    BY <2>3, TypesBatch
  <2> QED BY <1>2, <2>1, <2>2, <2>3
<1>3. CASE Answered
  <2>1. PICK stop \in {"stop", "length", "error", "aborted"}, n \in 0..MaxCalls,
             m \in {"sequential", "parallel"} : StreamEnds(stop, n, m)
    BY <1>3 DEF Answered
  <2>2. n \in Nat
    BY LoopAssumption
  <2> QED BY <2>1, <2>2, TypesAnswer
<1>4. CASE Others
  BY <1>4, TypesOthers
<1>5. CASE Over
  BY <1>1, <1>5 DEF Over
<1> QED BY <1>1, <1>2, <1>3, <1>4, <1>5 DEF Next

-----------------------------------------------------------------------------
(* The loop over the calls *)

LoopInv == LoopTypes /\ CountInv /\ RunningInv

LEMMA CountBetween ==
    ASSUME LoopInv, RunPrompt \/ DrainSteering \/ DrainFollowUp \/ Deliver \/ DeliverFails
                    \/ Ask \/ StreamStarts \/ TurnEnd \/ Others
    PROVE  CountInv' /\ RunningInv'
<1> USE DEF LoopInv, CountInv, RunningInv, batch, Batch, turn
<1>1. CASE RunPrompt
  BY <1>1 DEF RunPrompt
<1>2. CASE DrainSteering
  BY <1>2 DEF DrainSteering
<1>3. CASE DrainFollowUp
  BY <1>3 DEF DrainFollowUp
<1>4. CASE Deliver
  BY <1>4 DEF Deliver
<1>5. CASE DeliverFails
  BY <1>5 DEF DeliverFails
<1>6. CASE Ask
  BY <1>6 DEF Ask
<1>7. CASE StreamStarts
  BY <1>7 DEF StreamStarts
<1>8. CASE TurnEnd
  BY <1>8 DEF TurnEnd
<1>9. CASE Others
  BY <1>9 DEF Others, lvars
<1> QED BY <1>1, <1>2, <1>3, <1>4, <1>5, <1>6, <1>7, <1>8, <1>9

LEMMA CountAnswer ==
    ASSUME LoopInv, NEW stop \in {"stop", "length", "error", "aborted"}, NEW n \in Nat,
           NEW m \in {"sequential", "parallel"}, StreamEnds(stop, n, m)
    PROVE  CountInv' /\ RunningInv'
<1>1. LoopTypes' /\ Len(calls') = n /\ turn' = turn + 1 /\ turn \in Nat
  BY TypesAnswer DEF LoopInv, LoopTypes, turn
<1>2. answers'[turn'] = [stop |-> stop, calls |-> n]
  <2>1. answers \in Seq(AnyAnswer) /\ [stop |-> stop, calls |-> n] \in AnyAnswer
    BY DEF LoopInv, LoopTypes, AnyAnswer
  <2>2. answers' = Append(answers, [stop |-> stop, calls |-> n])
    BY DEF StreamEnds
  <2> QED BY <1>1, <2>1, <2>2, AppendProperties DEF turn
<1>3. answers'[turn'].stop = stop /\ answers'[turn'].calls = n
  BY <1>2
<1>4. RunningInv'
  BY DEF StreamEnds, RunningInv
<1>5. CountInv'
  <2>1. next' = 1 /\ finalized' = 0 /\ (pc' = "truncated" => mode' = "none" /\ n # 0)
        /\ (pc' = "prepare" => mode' # "none" /\ n # 0)
        /\ pc' \in {"ended", "turn_end", "truncated", "prepare"}
        /\ (pc' \in Batch => stop \notin {"error", "aborted"})
    BY DEF StreamEnds, Batch
  <2>2. CASE n = 0
    BY <2>1, <2>2 DEF CountInv, Batch
  <2>3. CASE n # 0
    <3>1. 1 \in 1..n /\ 0 <= n /\ 0 = 1 - 1 /\ turn + 1 >= 1
      BY <1>1, <2>3
    <3> QED BY <1>1, <1>3, <2>1, <3>1 DEF CountInv, Batch
  <2> QED BY <2>2, <2>3
<1> QED BY <1>4, <1>5

LEMMA CountBatch ==
    ASSUME LoopInv, (\E i \in 1..MaxCalls, state \in {"ready", "failed"} : Prepare(i, state))
                    \/ TruncatedResult \/ Record \/ Check \/ Launch \/ Receive \/ Received
                    \/ ParallelResult \/ Collect \/ Tools \/ LoopFails \/ Abort
    PROVE  CountInv' /\ RunningInv'
<1>0. Len(calls') = Len(calls) /\ Len(calls) \in Nat
      /\ DOMAIN calls = 1..Len(calls) /\ DOMAIN calls' = 1..Len(calls)
  <2>1. LoopTypes' /\ Len(calls') = Len(calls)
    BY TypesBatch DEF LoopInv
  <2> QED BY <2>1 DEF LoopInv, LoopTypes
<1>t. next \in Nat /\ finalized \in Nat /\ mode \in {"none", "sequential", "parallel"}
      /\ CountInv /\ RunningInv
  BY DEF LoopInv, LoopTypes
<1>a. answers' = answers /\ turn' = turn
  BY DEF Prepare, TruncatedResult, Record, Check, Launch, Receive, Received, ParallelResult,
         Collect, Tools, ToolReturns, LoopFails, Abort, turn
<1>1. ASSUME NEW i \in 1..MaxCalls, NEW state \in {"ready", "failed"}, Prepare(i, state)
      PROVE  CountInv' /\ RunningInv'
  <2>1. CountInv'
    BY <1>1, <1>0, <1>t, <1>a DEF Prepare, CountInv, Batch
  <2>2. RunningInv'
    BY <1>1, <1>0, <1>t DEF Prepare, RunningInv
  <2> QED BY <2>1, <2>2
<1>2. CASE TruncatedResult
  <2>1. CountInv'
    BY <1>2, <1>0, <1>t, <1>a DEF TruncatedResult, CountInv, Batch
  <2>2. RunningInv'
    BY <1>2, <1>0, <1>t DEF TruncatedResult, RunningInv
  <2> QED BY <2>1, <2>2
<1>3. CASE Record
  <2>1. CountInv'
    BY <1>3, <1>0, <1>t, <1>a DEF Record, CountInv, Batch
  <2>2. RunningInv'
    BY <1>3, <1>0, <1>t DEF Record, RunningInv
  <2> QED BY <2>1, <2>2
<1>4. CASE Check
  <2>1. CountInv'
    BY <1>4, <1>0, <1>t, <1>a DEF Check, CountInv, Batch
  <2>2. RunningInv'
    BY <1>4, <1>0, <1>t DEF Check, RunningInv
  <2> QED BY <2>1, <2>2
<1>5. CASE Launch
  <2>1. CountInv'
    BY <1>5, <1>0, <1>t, <1>a DEF Launch, CountInv, Batch
  <2>2. RunningInv'
    BY <1>5, <1>0, <1>t DEF Launch, RunningInv
  <2> QED BY <2>1, <2>2
<1>6. CASE Receive
  <2>1. CountInv'
    BY <1>6, <1>0, <1>t, <1>a DEF Receive, CountInv, Batch
  <2>2. RunningInv'
    BY <1>6, <1>0, <1>t DEF Receive, RunningInv
  <2> QED BY <2>1, <2>2
<1>7. CASE Received
  <2>1. CountInv'
    BY <1>7, <1>0, <1>t, <1>a DEF Received, batch, CountInv, Batch
  <2>2. RunningInv'
    BY <1>7, <1>0, <1>t DEF Received, batch, RunningInv
  <2> QED BY <2>1, <2>2
<1>8. CASE ParallelResult
  <2>1. CountInv'
    BY <1>8, <1>0, <1>t, <1>a DEF ParallelResult, CountInv, Batch
  <2>2. RunningInv'
    BY <1>8, <1>0, <1>t DEF ParallelResult, RunningInv
  <2> QED BY <2>1, <2>2
<1>9. CASE Collect
  <2>1. CountInv'
    BY <1>9, <1>0, <1>t, <1>a DEF Collect, batch, CountInv, Batch
  <2>2. RunningInv'
    BY <1>9, <1>0, <1>t DEF Collect, batch, RunningInv
  <2> QED BY <2>1, <2>2
<1>10. CASE Tools
  <2>1. CountInv'
    BY <1>10, <1>0, <1>t, <1>a DEF Tools, ToolReturns, CountInv, Batch
  <2>2. RunningInv'
    BY <1>10, <1>0, <1>t DEF Tools, ToolReturns, RunningInv
  <2> QED BY <2>1, <2>2
<1>11. CASE LoopFails
  <2>1. CountInv'
    BY <1>11, <1>0, <1>t, <1>a DEF LoopFails, batch, CountInv, Batch
  <2>2. RunningInv'
    BY <1>11, <1>0, <1>t DEF LoopFails, batch, RunningInv
  <2> QED BY <2>1, <2>2
<1>12. CASE Abort
  <2>1. CountInv'
    BY <1>12, <1>0, <1>t, <1>a DEF Abort, batch, CountInv, Batch
  <2>2. RunningInv'
    BY <1>12, <1>0, <1>t DEF Abort, batch, RunningInv
  <2> QED BY <2>1, <2>2
<1> QED BY <1>1, <1>2, <1>3, <1>4, <1>5, <1>6, <1>7, <1>8, <1>9, <1>10, <1>11, <1>12

LEMMA LoopInvStep == ASSUME LoopInv, [Next]_vars PROVE LoopInv'
<1>0. LoopTypes'
  BY TypesStep DEF LoopInv
<1>1. CASE UNCHANGED vars
  BY <1>0, <1>1 DEF vars, lvars, batch, LoopInv, CountInv, RunningInv, turn
<1>2. CASE Step \/ StreamStarts \/ Tools \/ LoopFails \/ Abort \/ Others
  <2>1. CASE Step
    BY <1>0, <2>1, CountBetween, CountBatch DEF Step, LoopInv
  <2>2. CASE StreamStarts \/ Others
    BY <1>0, <2>2, CountBetween DEF LoopInv
  <2>3. CASE Tools \/ LoopFails \/ Abort
    BY <1>0, <2>3, CountBatch DEF LoopInv
  <2> QED BY <1>2, <2>1, <2>2, <2>3
<1>3. CASE Answered
  <2>1. PICK stop \in {"stop", "length", "error", "aborted"}, n \in 0..MaxCalls,
             m \in {"sequential", "parallel"} : StreamEnds(stop, n, m)
    BY <1>3 DEF Answered
  <2>2. n \in Nat
    BY LoopAssumption
  <2> QED BY <1>0, <2>1, <2>2, CountAnswer DEF LoopInv
<1>5. CASE Over
  BY <1>1, <1>5 DEF Over
<1> QED BY <1>1, <1>2, <1>3, <1>5 DEF Next

LEMMA LoopInvInit == Init => LoopInv
<1>1. Init => CountInv /\ RunningInv
  BY DEF Init, CountInv, RunningInv, Batch
<1> QED BY <1>1, TypesInit DEF LoopInv

-----------------------------------------------------------------------------
(* The context and the log *)

\* The final message takes the place of the partial one.
LEMMA FrontOfAppend ==
    ASSUME NEW s \in Seq(AnyEntry), NEW e \in AnyEntry
    PROVE  Front(Append(s, e)) = s
<1> DEFINE f == Front(Append(s, e))
<1>1. Len(Append(s, e)) = Len(s) + 1 /\ Append(s, e) \in Seq(AnyEntry) /\ Len(s) \in Nat
      /\ \A i \in 1..Len(s) : Append(s, e)[i] = s[i]
  BY AppendProperties
<1>2. f = SubSeq(Append(s, e), 1, Len(s))
  BY <1>1 DEF Front
<1>3. f \in Seq(AnyEntry) /\ Len(f) = Len(s)
  BY <1>1, <1>2, SubSeqProperties
<1>4. \A i \in 1..Len(s) : f[i] = s[i]
  BY <1>1, <1>2, SubSeqProperties
<1> HIDE DEF f
<1>5. f = s
  BY <1>3, <1>4, SeqEqual
<1> QED BY <1>5 DEF f

\* Between the answers the context is the log.
LEMMA PersistBetween ==
    ASSUME LoopInv, PersistInv,
           RunPrompt \/ DrainSteering \/ DrainFollowUp \/ Deliver \/ DeliverFails
           \/ Ask \/ StreamStarts \/ TurnEnd \/ Others
    PROVE  PersistInv'
<1> USE DEF PersistInv, Between, Batch
<1>1. CASE RunPrompt
  <2>1. log' = <<User(Prompt)>> /\ context' = <<User(Prompt)>> /\ pc' = "steer"
    BY <1>1 DEF RunPrompt
  <2> QED BY <2>1
<1>2. CASE DrainSteering
  BY <1>2 DEF DrainSteering
<1>3. CASE DrainFollowUp
  BY <1>3 DEF DrainFollowUp
<1>4. CASE Deliver
  BY <1>4 DEF Deliver
<1>5. CASE DeliverFails
  BY <1>5 DEF DeliverFails
<1>6. CASE Ask
  BY <1>6 DEF Ask
<1>7. CASE StreamStarts
  BY <1>7 DEF StreamStarts
<1>8. CASE TurnEnd
  BY <1>8 DEF TurnEnd
<1>9. CASE Others
  BY <1>9 DEF Others, lvars, batch, turn, Persisted
<1> QED BY <1>1, <1>2, <1>3, <1>4, <1>5, <1>6, <1>7, <1>8, <1>9

\* The answer is put into both.
LEMMA PersistAnswer ==
    ASSUME LoopInv, PersistInv, NEW stop \in {"stop", "length", "error", "aborted"},
           NEW n \in Nat, NEW m \in {"sequential", "parallel"}, StreamEnds(stop, n, m)
    PROVE  PersistInv' /\ context' = log' /\ log' = Append(log, Assistant(turn + 1))
<1>1. LoopTypes' /\ turn' \in Nat
  BY TypesAnswer DEF LoopInv, LoopTypes, turn
<1>2. log' = Append(log, Assistant(turn + 1))
  BY DEF StreamEnds
<1>3. context' = log'
  <2>1. CASE pc = "ask"
    BY <2>1 DEF StreamEnds, PersistInv, Between
  <2>2. CASE pc = "stream"
    <3>1. Front(context) = log
      <4>1. Partial \in AnyEntry
        BY DEF AnyEntry
      <4>2. log \in Seq(AnyEntry) /\ context = Append(log, Partial)
        BY <2>2 DEF PersistInv, LoopInv, LoopTypes
      <4> QED BY <4>1, <4>2, FrontOfAppend
    <3> QED BY <2>2, <3>1 DEF StreamEnds
  <2> QED BY <2>1, <2>2 DEF StreamEnds
<1>4. Persisted' = 0 /\ pc' \notin {"start", "stream"}
  BY DEF StreamEnds, Persisted
<1>5. context' \o Results(turn', 0) = context'
  BY <1>1, ResultsNone DEF LoopTypes
<1>6. PersistInv'
  BY <1>3, <1>4, <1>5 DEF PersistInv
<1> QED BY <1>2, <1>3, <1>6

\* The results go into the log one by one, and into the context at the end.
LEMMA PersistBatch ==
    ASSUME LoopInv, PersistInv,
           (\E i \in 1..MaxCalls, state \in {"ready", "failed"} : Prepare(i, state))
           \/ TruncatedResult \/ Record \/ Check \/ Launch \/ Receive \/ Received
           \/ ParallelResult \/ Collect \/ Tools \/ LoopFails \/ Abort
    PROVE  PersistInv'
<1>0. context \in Seq(AnyEntry) /\ turn \in Nat /\ next \in Nat /\ finalized \in Nat
      /\ mode \in {"none", "sequential", "parallel"} /\ CountInv
  BY DEF LoopInv, LoopTypes, turn
<1>a. answers' = answers /\ turn' = turn
  BY DEF Prepare, TruncatedResult, Record, Check, Launch, Receive, Received, ParallelResult,
         Collect, Tools, ToolReturns, LoopFails, Abort, turn
\* It is enough to know how many results are persisted after the step.
<1>b. ASSUME UNCHANGED context, pc \in Batch, pc' \in Batch,
             \/ UNCHANGED log /\ Persisted' = Persisted
             \/ log' = Append(log, Result(turn, Persisted + 1)) /\ Persisted \in Nat
                /\ Persisted' = Persisted + 1
      PROVE  PersistInv'
  <2>1. log = context \o Results(turn, Persisted)
    BY <1>b DEF PersistInv
  <2>2. log' = context' \o Results(turn', Persisted')
    BY <1>0, <1>a, <1>b, <2>1, ResultsGrow
  <2> QED BY <1>b, <2>2 DEF PersistInv, Batch, Between
<1>1. ASSUME NEW i \in 1..MaxCalls, NEW state \in {"ready", "failed"}, Prepare(i, state)
      PROVE  PersistInv'
  <2>1. pc \in Batch /\ pc' \in Batch /\ UNCHANGED <<context, log>>
    BY <1>1 DEF Prepare, Batch
  <2>2. Persisted' = Persisted
    BY <1>1, <1>0 DEF Prepare, Persisted, CountInv, Batch
  <2> QED BY <1>b, <2>1, <2>2
<1>2. CASE TruncatedResult
  <2>1. pc \in Batch /\ pc' \in Batch /\ UNCHANGED context /\ Persisted = next - 1 /\ next >= 1
    BY <1>2, <1>0 DEF TruncatedResult, Batch, Persisted, CountInv
  <2>2. Persisted' = next
    BY <1>2, <1>0 DEF TruncatedResult, Persisted, CountInv, Batch
  <2>3. log' = Append(log, Result(turn, next))
    BY <1>2 DEF TruncatedResult
  <2>4. next = Persisted + 1 /\ Persisted \in Nat
    BY <1>0, <2>1
  <2> QED BY <1>b, <2>1, <2>2, <2>3, <2>4
<1>3. CASE Record
  <2>1. pc \in Batch /\ pc' \in Batch /\ UNCHANGED context /\ Persisted = next - 1 /\ next >= 1
    BY <1>3, <1>0 DEF Record, Batch, Persisted, CountInv
  <2>2. Persisted' = next
    BY <1>3, <1>0 DEF Record, Persisted, CountInv, Batch
  <2>3. log' = Append(log, Result(turn, next))
    BY <1>3 DEF Record
  <2>4. next = Persisted + 1 /\ Persisted \in Nat
    BY <1>0, <2>1
  <2> QED BY <1>b, <2>1, <2>2, <2>3, <2>4
<1>4. CASE Check
  <2>1. pc \in Batch /\ pc' \in Batch /\ UNCHANGED <<context, log>>
    BY <1>4 DEF Check, Batch
  <2>2. Persisted' = Persisted
    BY <1>4, <1>0 DEF Check, Persisted, CountInv, Batch
  <2> QED BY <1>b, <2>1, <2>2
<1>5. CASE Launch
  <2>1. pc \in Batch /\ pc' \in Batch /\ UNCHANGED <<context, log>>
    BY <1>5 DEF Launch, Batch
  <2>2. Persisted' = Persisted
    BY <1>5, <1>0 DEF Launch, Persisted, CountInv, Batch
  <2> QED BY <1>b, <2>1, <2>2
<1>6. CASE Receive
  <2>1. pc \in Batch /\ pc' \in Batch /\ UNCHANGED <<context, log>>
    BY <1>6 DEF Receive, Batch
  <2>2. Persisted' = Persisted
    BY <1>6, <1>0 DEF Receive, Persisted, CountInv, Batch
  <2> QED BY <1>b, <2>1, <2>2
<1>7. CASE Received
  <2>1. pc \in Batch /\ pc' \in Batch /\ UNCHANGED <<context, log>>
    BY <1>7 DEF Received, batch, Batch
  <2>2. Persisted' = Persisted
    BY <1>7, <1>0 DEF Received, batch, Persisted, CountInv, Batch
  <2> QED BY <1>b, <2>1, <2>2
<1>8. CASE ParallelResult
  <2>1. pc \in Batch /\ pc' \in Batch /\ UNCHANGED context /\ Persisted = next - 1 /\ next >= 1
    BY <1>8, <1>0 DEF ParallelResult, Batch, Persisted, CountInv
  <2>2. Persisted' = next
    BY <1>8, <1>0 DEF ParallelResult, Persisted, CountInv, Batch
  <2>3. log' = Append(log, Result(turn, next))
    BY <1>8 DEF ParallelResult
  <2>4. next = Persisted + 1 /\ Persisted \in Nat
    BY <1>0, <2>1
  <2> QED BY <1>b, <2>1, <2>2, <2>3, <2>4
<1>9. CASE Collect
  <2>1. pc = "collect" /\ pc' = "turn_end" /\ UNCHANGED log
        /\ context' = context \o Results(turn, finalized)
    BY <1>9 DEF Collect, Results
  <2>2. log = context \o Results(turn, finalized)
    BY <2>1 DEF PersistInv, Batch, Persisted
  <2> QED BY <2>1, <2>2 DEF PersistInv, Batch, Between
<1>10. CASE Tools \/ Abort
  <2>1. UNCHANGED <<pc, context, log, mode, next, finalized>>
    BY <1>10 DEF Tools, ToolReturns, Abort, batch
  <2> QED BY <1>a, <2>1 DEF PersistInv, Persisted
<1>11. CASE LoopFails
  BY <1>11 DEF LoopFails, PersistInv, Batch, Between
<1> QED BY <1>1, <1>2, <1>3, <1>4, <1>5, <1>6, <1>7, <1>8, <1>9, <1>10, <1>11

LEMMA PersistStep == ASSUME LoopInv, PersistInv, [Next]_vars PROVE PersistInv'
<1>1. CASE UNCHANGED vars
  BY <1>1 DEF vars, lvars, batch, PersistInv, Persisted, turn
<1>2. CASE Step \/ StreamStarts \/ Tools \/ LoopFails \/ Abort \/ Others
  <2>1. CASE Step
    BY <2>1, PersistBetween, PersistBatch DEF Step
  <2>2. CASE StreamStarts \/ Others
    BY <2>2, PersistBetween
  <2>3. CASE Tools \/ LoopFails \/ Abort
    BY <2>3, PersistBatch
  <2> QED BY <1>2, <2>1, <2>2, <2>3
<1>3. CASE Answered
  <2>1. PICK stop \in {"stop", "length", "error", "aborted"}, n \in 0..MaxCalls,
             m \in {"sequential", "parallel"} : StreamEnds(stop, n, m)
    BY <1>3 DEF Answered
  <2>2. n \in Nat
    BY LoopAssumption
  <2> QED BY <2>1, <2>2, PersistAnswer
<1>5. CASE Over
  BY <1>1, <1>5 DEF Over
<1> QED BY <1>1, <1>2, <1>3, <1>5 DEF Next

LEMMA PersistInit == Init => PersistInv
BY DEF Init, PersistInv, Batch, Between

\* The model is asked about exactly what the session file holds, with any
\* number of turns, calls and queued messages (run_loop, stream_assistant).
THEOREM AskedIsPersisted == Spec => []RequestIsPersisted
<1>1. LoopInv /\ PersistInv /\ [Next]_vars => LoopInv' /\ PersistInv'
  BY LoopInvStep, PersistStep
<1>2. PersistInv => RequestIsPersisted
  BY DEF PersistInv, RequestIsPersisted, Between
<1> QED BY LoopInvInit, PersistInit, <1>1, <1>2, PTL DEF Spec

-----------------------------------------------------------------------------
(* The order of the results *)

\* A message is persisted behind the others.
LEMMA LogGrows ==
    ASSUME LoopTypes, NEW e \in AnyEntry, log' = Append(log, e)
    PROVE  /\ Len(log) \in Nat /\ Len(log') = Len(log) + 1
           /\ DOMAIN log = 1..Len(log) /\ DOMAIN log' = 1..Len(log) + 1
           /\ \A k \in DOMAIN log : log'[k] = log[k]
           /\ log'[Len(log) + 1] = e
BY AppendProperties, LenProperties DEF LoopTypes

\* A result is persisted when those before it are, right behind them.
LEMMA ResultStep ==
    ASSUME LoopInv, PersistInv, TruncatedResult \/ Record \/ ParallelResult
    PROVE  /\ pc \in Batch /\ UNCHANGED <<context, answers, turn>> /\ pc' \in Batch
           /\ next \in Nat /\ turn \in Nat /\ Result(turn, next) \in AnyEntry
           /\ log' = Append(log, Result(turn, next)) /\ Len(log) = Len(context) + next - 1
           /\ Len(context) \in Nat /\ next >= 1
           /\ \A k \in 1..Len(context) : k \in DOMAIN log /\ log[k] = context[k]
<1>1. pc \in Batch /\ UNCHANGED <<context, answers>> /\ pc' \in Batch
      /\ log' = Append(log, Result(turn, next))
  BY DEF TruncatedResult, Record, ParallelResult, Batch
<1>2. next \in Nat /\ turn \in Nat /\ context \in Seq(AnyEntry) /\ CountInv
  BY DEF LoopInv, LoopTypes, turn
<1>3. Persisted = next - 1 /\ next >= 1
  <2>1. CASE TruncatedResult
    BY <1>2, <2>1 DEF TruncatedResult, Persisted, CountInv, Batch
  <2>2. CASE Record
    BY <1>2, <2>2 DEF Record, Persisted, CountInv, Batch
  <2>3. CASE ParallelResult
    BY <1>2, <2>3 DEF ParallelResult, Persisted, CountInv, Batch
  <2> QED BY <2>1, <2>2, <2>3
<1>4. log = context \o Results(turn, next - 1) /\ next - 1 \in Nat
  BY <1>1, <1>2, <1>3 DEF PersistInv
<1>5. Len(Results(turn, next - 1)) = next - 1 /\ Results(turn, next - 1) \in Seq(AnyEntry)
  BY <1>2, <1>4, ResultsSeq
<1>6. Len(log) = Len(context) + next - 1 /\ Len(context) \in Nat
      /\ \A k \in 1..Len(context) : log[k] = context[k]
  BY <1>2, <1>4, <1>5, ConcatProperties
<1>7. DOMAIN log = 1..Len(log)
  BY LenProperties DEF LoopInv, LoopTypes
<1>8. Result(turn, next) \in AnyEntry
  BY <1>2 DEF AnyEntry
<1> QED BY <1>1, <1>2, <1>3, <1>6, <1>7, <1>8 DEF turn

OrderInv == AnswerInv /\ ResultsInOrder

\* A step that persists nothing and adds no answer.
LEMMA OrderSame ==
    ASSUME OrderInv, UNCHANGED <<log, answers>>, UNCHANGED context \/ pc' \notin Batch,
           pc' \in Batch => pc \in Batch
    PROVE  OrderInv'
BY DEF OrderInv, AnswerInv, ResultsInOrder, turn, Assistant

\* A message behind the others keeps their order; a result must have its answer
\* at the right distance.
LEMMA OrderKept ==
    ASSUME LoopTypes, ResultsInOrder, NEW e \in AnyEntry, log' = Append(log, e),
           e.role = "result" => /\ Len(log) + 1 - e.of[2] \in DOMAIN log
                                /\ Len(log) + 1 > e.of[2]
                                /\ log[Len(log) + 1 - e.of[2]] = Assistant(e.of[1])
    PROVE  ResultsInOrder'
<1> SUFFICES ASSUME NEW k \in DOMAIN log', log'[k].role = "result"
             PROVE  k > log'[k].of[2] /\ log'[k - log'[k].of[2]] = Assistant(log'[k].of[1])
  BY DEF ResultsInOrder, Assistant
<1>1. CASE k \in DOMAIN log
  <2>1. log'[k] = log[k] /\ k \in Nat /\ DOMAIN log = 1..Len(log) /\ Len(log) \in Nat
    BY <1>1, LogGrows
  <2>2. k > log[k].of[2] /\ log[k - log[k].of[2]] = Assistant(log[k].of[1])
    BY <1>1, <2>1 DEF ResultsInOrder
  <2>3. log[k].of[2] \in Nat
    <3>1. log[k] \in AnyEntry
      BY <1>1, <2>1 DEF LoopTypes
    <3> QED BY <2>1, <3>1 DEF AnyEntry, User, Partial, Assistant, Result
  <2>4. k - log[k].of[2] \in DOMAIN log
    BY <1>1, <2>1, <2>2, <2>3
  <2> QED BY <2>1, <2>2, <2>4, LogGrows
<1>2. CASE k = Len(log) + 1
  <2>1. log'[k] = e /\ \A j \in DOMAIN log : log'[j] = log[j]
    BY <1>2, LogGrows
  <2>2. e.role = "result"
    BY <2>1
  <2>3. log'[Len(log) + 1 - e.of[2]] = Assistant(e.of[1]) /\ Len(log) + 1 > e.of[2]
    BY <2>1, <2>2
  <2>4. log'[k].of[2] = e.of[2] /\ log'[k].of[1] = e.of[1]
    BY <2>1
  <2>n. Len(log) \in Nat /\ e.of[2] \in Nat
    BY <2>2, LogGrows DEF AnyEntry, User, Partial, Assistant, Result
  <2>i. k - log'[k].of[2] = Len(log) + 1 - e.of[2]
    BY <1>2, <2>4, <2>n
  <2>5. log'[k - log'[k].of[2]] = Assistant(log'[k].of[1])
    BY <2>3, <2>4, <2>i
  <2> QED BY <1>2, <2>3, <2>4, <2>5, Zenon
<1>3. k \in DOMAIN log \/ k = Len(log) + 1
  <2>1. Len(log) \in Nat /\ DOMAIN log = 1..Len(log) /\ DOMAIN log' = 1..Len(log) + 1
    BY LogGrows
  <2> QED BY <2>1
<1> QED BY <1>1, <1>2, <1>3

LEMMA AnswersKept ==
    ASSUME LoopTypes, NEW e \in AnyEntry, log' = Append(log, e),
           \A k \in DOMAIN log : log[k].role = "assistant" => log[k].of[1] \in 1..turn,
           e.role = "assistant" => e.of[1] \in 1..turn', turn \in Nat, turn' \in Nat,
           turn <= turn'
    PROVE  \A k \in DOMAIN log' : log'[k].role = "assistant" => log'[k].of[1] \in 1..turn'
<1> SUFFICES ASSUME NEW k \in DOMAIN log', log'[k].role = "assistant"
             PROVE  log'[k].of[1] \in 1..turn'
  OBVIOUS
<1>1. CASE k \in DOMAIN log
  <2>1. log[k].of[1] \in 1..turn /\ log'[k] = log[k]
    BY <1>1, LogGrows
  <2> QED BY <2>1
<1>2. CASE k = Len(log) + 1
  <2>1. log'[k] = e
    BY <1>2, LogGrows
  <2> QED BY <2>1
<1>3. k \in DOMAIN log \/ k = Len(log) + 1
  <2>1. Len(log) \in Nat /\ DOMAIN log = 1..Len(log) /\ DOMAIN log' = 1..Len(log) + 1
    BY LogGrows
  <2> QED BY <2>1
<1> QED BY <1>1, <1>2, <1>3

LEMMA OrderUser ==
    ASSUME LoopTypes, OrderInv, NEW m \in Msgs, log' = Append(log, User(m)), UNCHANGED answers,
           pc' \notin Batch
    PROVE  OrderInv'
<1>1. User(m) \in AnyEntry /\ User(m).role = "user"
  BY DEF AnyEntry, User
<1>2. ResultsInOrder'
  BY <1>1, OrderKept DEF OrderInv
<1>3. turn \in Nat /\ turn' = turn
  BY DEF LoopTypes, turn
<1>4. AnswerInv'
  <2>1. \A k \in DOMAIN log' : log'[k].role = "assistant" => log'[k].of[1] \in 1..turn'
    BY <1>1, <1>3, AnswersKept DEF OrderInv, AnswerInv
  <2> QED BY <2>1 DEF AnswerInv
<1> QED BY <1>2, <1>4 DEF OrderInv

LEMMA OrderResult ==
    ASSUME LoopInv, PersistInv, OrderInv, TruncatedResult \/ Record \/ ParallelResult
    PROVE  OrderInv'
<1> DEFINE e == Result(turn, next)
<1>1. e.role = "result" /\ e.of[1] = turn /\ e.of[2] = next /\ e \in AnyEntry
  BY ResultStep DEF Result
<1>2. LoopTypes /\ turn \in Nat /\ turn' = turn /\ log' = Append(log, e)
  BY ResultStep DEF LoopInv
<1>3. context # <<>> /\ context[Len(context)] = Assistant(turn)
  BY ResultStep DEF OrderInv, AnswerInv
<1>4. Len(context) \in 1..Len(context)
  BY <1>3, EmptySeq DEF LoopInv, LoopTypes
<1>5. log[Len(context)] = Assistant(turn) /\ Len(context) \in DOMAIN log
  BY <1>3, <1>4, ResultStep
<1>6. Len(log) + 1 - next = Len(context) /\ next < Len(log) + 1
  <2>1. Len(log) = Len(context) + next - 1 /\ next \in Nat /\ Len(context) \in Nat
    BY ResultStep
  <2> QED BY <1>4, <2>1
<1> HIDE DEF e
<1>7. AnswerInv'
  <2>1. pc' \in Batch => context' # <<>> /\ context'[Len(context')] = Assistant(turn')
    BY <1>3, ResultStep
  <2>2. \A k \in DOMAIN log' : log'[k].role = "assistant" => log'[k].of[1] \in 1..turn'
    BY <1>1, <1>2, AnswersKept DEF OrderInv, AnswerInv
  <2> QED BY <2>1, <2>2 DEF AnswerInv
<1>8. ResultsInOrder'
  BY <1>1, <1>2, <1>5, <1>6, OrderKept DEF OrderInv
<1> QED BY <1>7, <1>8 DEF OrderInv

LEMMA OrderAnswer ==
    ASSUME LoopInv, PersistInv, OrderInv, NEW stop \in {"stop", "length", "error", "aborted"},
           NEW n \in Nat, NEW m \in {"sequential", "parallel"}, StreamEnds(stop, n, m)
    PROVE  OrderInv'
<1> DEFINE e == Assistant(turn + 1)
<1>1. LoopTypes /\ turn \in Nat /\ turn + 1 \in Nat /\ turn' = turn + 1
  BY TypesAnswer DEF LoopInv, LoopTypes, turn
<1>2. e \in AnyEntry /\ e.role = "assistant" /\ e.of[1] = turn + 1
  BY <1>1 DEF AnyEntry, Assistant
<1>3. log' = Append(log, e) /\ context' = log'
  BY PersistAnswer
<1> HIDE DEF e
<1>4. ResultsInOrder'
  BY <1>1, <1>2, <1>3, OrderKept DEF OrderInv
<1>5. AnswerInv'
  <2>1. \A k \in DOMAIN log' : log'[k].role = "assistant" => log'[k].of[1] \in 1..turn'
    BY <1>1, <1>2, <1>3, AnswersKept DEF OrderInv, AnswerInv
  <2>2. log' # <<>> /\ log'[Len(log')] = e
    <3>1. log \in Seq(AnyEntry) /\ log' = Append(log, e) /\ e \in AnyEntry
      BY <1>1, <1>2, <1>3 DEF LoopTypes
    <3>2. Len(log') = Len(log) + 1
      BY <3>1, AppendProperties
    <3> QED BY <3>1, <3>2, AppendProperties
  <2> QED BY <1>1, <1>3, <2>1, <2>2 DEF AnswerInv, e
<1> QED BY <1>4, <1>5 DEF OrderInv

LEMMA OrderStep == ASSUME LoopInv, PersistInv, OrderInv, [Next]_vars PROVE OrderInv'
<1>1. CASE UNCHANGED vars
  BY <1>1, OrderSame DEF vars, lvars
<1>2. CASE RunPrompt
  BY <1>2, OrderUser, QueueAssumption DEF RunPrompt, LoopInv, Batch
<1>3. CASE Deliver
  <2>1. Head(pending) \in Msgs
    BY <1>3 DEF Deliver, Announce, LoopInv, LoopTypes
  <2> QED BY <1>3, <2>1, OrderUser DEF Deliver, LoopInv, Batch
<1>4. CASE TruncatedResult \/ Record \/ ParallelResult
  BY <1>4, OrderResult
<1>5. CASE Answered
  <2>1. PICK stop \in {"stop", "length", "error", "aborted"}, n \in 0..MaxCalls,
             m \in {"sequential", "parallel"} : StreamEnds(stop, n, m)
    BY <1>5 DEF Answered
  <2>2. n \in Nat
    BY LoopAssumption
  <2> QED BY <2>1, <2>2, OrderAnswer
<1>6. CASE DrainSteering \/ DrainFollowUp \/ DeliverFails \/ Ask \/ TurnEnd \/ StreamStarts
  BY <1>6, OrderSame DEF DrainSteering, DrainFollowUp, DeliverFails, Ask, TurnEnd, StreamStarts,
                         Batch
<1>7. CASE (\E i \in 1..MaxCalls, state \in {"ready", "failed"} : Prepare(i, state))
           \/ Check \/ Launch \/ Receive \/ Received
  BY <1>7, OrderSame DEF Prepare, Check, Launch, Receive, Received, Batch
<1>8. CASE Collect \/ LoopFails
  BY <1>8, OrderSame DEF Collect, LoopFails, Batch
<1>9. CASE Tools \/ Abort \/ Others
  BY <1>9, OrderSame DEF Tools, ToolReturns, Abort, Others, lvars
<1>10. CASE Over
  BY <1>1, <1>10 DEF Over
<1> QED BY <1>1, <1>2, <1>3, <1>4, <1>5, <1>6, <1>7, <1>8, <1>9, <1>10 DEF Next, Step

LEMMA OrderInit == Init => OrderInv
BY DEF Init, OrderInv, AnswerInv, ResultsInOrder, Batch

\* However many calls an answer has and in whatever order their tools finish,
\* all are joined and the results are persisted in the order of the calls,
\* right behind the answer (execute_sequential, execute_parallel).
THEOREM ToolsAlwaysInOrder == Spec => []ToolsInOrder
<1>1. LoopInv /\ PersistInv /\ OrderInv /\ [Next]_vars => LoopInv' /\ PersistInv' /\ OrderInv'
  BY LoopInvStep, PersistStep, OrderStep
<1>2. LoopInv /\ OrderInv => ToolsInOrder
  BY DEF LoopInv, RunningInv, ToolsJoined, OrderInv, ToolsInOrder
<1> QED BY LoopInvInit, PersistInit, OrderInit, <1>1, <1>2, PTL DEF Spec

-----------------------------------------------------------------------------
(* Answers and their results *)

\* The entries of the log can be told apart.
LEMMA EntriesDiffer ==
    ASSUME NEW t, NEW u, NEW i, NEW m
    PROVE  /\ Assistant(t) # Result(u, i) /\ Assistant(t) # User(m)
           /\ Assistant(t) = Assistant(u) => t = u
           /\ Assistant(t).role = "assistant" /\ Assistant(t).of[1] = t
BY DEF Assistant, Result, User

\* An answer with all its results keeps them.
LEMMA CompleteKept ==
    ASSUME LoopTypes, UNCHANGED log \/ (\E e \in AnyEntry : log' = Append(log, e)),
           UNCHANGED answers \/ (\E a \in AnyAnswer : answers' = Append(answers, a)),
           NEW k \in DOMAIN log, NEW t \in 1..turn, Complete(k, t)
    PROVE  Complete(k, t)'
<1>1. answers'[t] = answers[t] /\ answers[t].calls \in Nat
  <2>1. answers \in Seq(AnyAnswer) /\ t \in 1..Len(answers) /\ answers[t] \in AnyAnswer
    BY DEF LoopTypes, turn
  <2>2. answers'[t] = answers[t]
    BY <2>1, AppendProperties
  <2> QED BY <2>1, <2>2 DEF AnyAnswer
<1>2. Len(log) \in Nat /\ DOMAIN log = 1..Len(log) /\ Len(log') \in Nat /\ Len(log') >= Len(log)
      /\ \A j \in 1..Len(log) : log'[j] = log[j]
  <2>1. log \in Seq(AnyEntry)
    BY DEF LoopTypes
  <2>2. CASE UNCHANGED log
    BY <2>1, <2>2
  <2>3. CASE \E e \in AnyEntry : log' = Append(log, e)
    BY <2>1, <2>3, AppendProperties
  <2> QED BY <2>2, <2>3
<1>3. k \in Nat /\ k >= 1 /\ k + answers[t].calls <= Len(log)
  BY <1>1, <1>2 DEF Complete
<1>4. \A i \in 1..answers[t].calls : k + i \in 1..Len(log) /\ log[k + i] = Result(t, i)
  BY <1>1, <1>2, <1>3 DEF Complete
<1>5. \A i \in 1..answers[t].calls : log'[k + i] = Result(t, i)
  BY <1>2, <1>4
<1>6. Len(log') >= k + answers'[t].calls
  BY <1>1, <1>2, <1>3
<1>7. answers'[t].stop \notin {"error", "aborted"}
  BY <1>1 DEF Complete
<1> QED BY <1>1, <1>5, <1>6, <1>7 DEF Complete

\* A step that adds no answer, to the log or to the answers.
LEMMA CompleteSame ==
    ASSUME LoopTypes, CompleteInv, UNCHANGED answers, UNCHANGED context \/ pc' \notin Batch,
           UNCHANGED log \/ (\E e \in AnyEntry : log' = Append(log, e) /\ e.role # "assistant"),
           GoesOn' => GoesOn \/ log = <<>>, pc' \in Batch => pc \in Batch
    PROVE  CompleteInv'
<1> SUFFICES ASSUME NEW k \in DOMAIN log', NEW t \in 1..turn', log'[k] = Assistant(t)
             PROVE  /\ t < turn' \/ GoesOn' => Complete(k, t)'
                    /\ pc' \in Batch /\ t = turn' => k = Len(context')
  BY DEF CompleteInv, Assistant
<1>1. turn' = turn
  BY DEF turn
<1>2. k \in DOMAIN log /\ log[k] = Assistant(t)
  <2>1. CASE UNCHANGED log
    BY <2>1
  <2>2. ASSUME NEW e \in AnyEntry, log' = Append(log, e), e.role # "assistant"
        PROVE  k \in DOMAIN log /\ log[k] = Assistant(t)
    <3>1. k \in DOMAIN log \/ k = Len(log) + 1
      BY <2>2, LogGrows
    <3>2. k # Len(log) + 1
      <4>1. log'[Len(log) + 1] = e
        BY <2>2, LogGrows
      <4> QED BY <2>2, <4>1, EntriesDiffer
    <3>3. log'[k] = log[k]
      BY <2>2, <3>1, <3>2, LogGrows
    <3> QED BY <3>1, <3>2, <3>3
  <2> QED BY <2>1, <2>2
<1>3. log # <<>>
  BY <1>2
<1>4. t < turn \/ GoesOn => Complete(k, t)
  BY <1>1, <1>2 DEF CompleteInv
<1>5. t < turn' \/ GoesOn' => Complete(k, t)'
  BY <1>1, <1>2, <1>3, <1>4, CompleteKept
<1>6. pc' \in Batch /\ t = turn' => k = Len(context')
  BY <1>1, <1>2 DEF CompleteInv
<1> QED BY <1>5, <1>6

\* All the results are there when the batch is collected, unless it was aborted.
LEMMA CompleteCollect ==
    ASSUME LoopInv, PersistInv, OrderInv, CompleteInv, Collect
    PROVE  CompleteInv'
<1> SUFFICES ASSUME NEW k \in DOMAIN log, NEW t \in 1..turn, log[k] = Assistant(t)
             PROVE  t < turn \/ ~aborted => Complete(k, t)'
  BY DEF Collect, CompleteInv, Assistant, GoesOn, Batch, Between, turn, batch
<1>1. LoopTypes /\ CountInv /\ turn \in Nat /\ finalized \in Nat /\ pc = "collect"
      /\ UNCHANGED <<log, answers, aborted>>
  BY DEF LoopInv, LoopTypes, turn, Collect
<1>2. t < turn => Complete(k, t)
  BY DEF CompleteInv
<1>3. t < turn => Complete(k, t)'
  BY <1>1, <1>2, CompleteKept
<1>4. ASSUME t = turn, ~aborted PROVE Complete(k, t)
  <2>1. k = Len(context)
    BY <1>1, <1>4 DEF CompleteInv, Batch
  <2>2. log = context \o Results(turn, finalized)
    BY <1>1 DEF PersistInv, Batch, Persisted
  <2>3. answers[t].calls = Len(calls) /\ finalized = answers[t].calls
        /\ answers[t].stop \notin {"error", "aborted"}
    BY <1>1, <1>4 DEF CountInv, Batch, LoopTypes
  <2>4. context \in Seq(AnyEntry) /\ Len(context) \in Nat
    BY <1>1 DEF LoopTypes
  <2>6. Len(log) = Len(context) + finalized
    BY <1>1, <2>2, <2>4, ResultsBehind
  <2>7. \A i \in 1..finalized : log[k + i] = Result(t, i)
    BY <1>1, <1>4, <2>1, <2>2, <2>4, ResultsBehind
  <2>8. Len(log) >= k + answers[t].calls
    BY <1>1, <2>1, <2>3, <2>4, <2>6
  <2> QED BY <2>3, <2>7, <2>8 DEF Complete
<1>5. t = turn /\ ~aborted => Complete(k, t)'
  BY <1>1, <1>4, CompleteKept
<1>6. t < turn \/ t = turn
  BY <1>1
<1> QED BY <1>3, <1>5, <1>6

\* A new answer comes when all the others have their results.
LEMMA CompleteAnswer ==
    ASSUME LoopInv, PersistInv, OrderInv, CompleteInv,
           NEW stop \in {"stop", "length", "error", "aborted"}, NEW n \in Nat,
           NEW m \in {"sequential", "parallel"}, StreamEnds(stop, n, m)
    PROVE  CompleteInv'
<1> DEFINE e == Assistant(turn + 1)
           a == [stop |-> stop, calls |-> n]
<1>1. LoopTypes /\ turn \in Nat /\ turn' = turn + 1
  BY TypesAnswer DEF LoopInv, LoopTypes, turn
<1>2. e \in AnyEntry /\ a \in AnyAnswer
  BY <1>1 DEF AnyEntry, AnyAnswer
<1>3. log' = Append(log, e) /\ answers' = Append(answers, a) /\ context' = log'
  BY PersistAnswer DEF StreamEnds
<1>4. Len(log') = Len(log) + 1 /\ Len(log) \in Nat /\ log'[Len(log) + 1] = e
      /\ DOMAIN log = 1..Len(log) /\ DOMAIN log' = 1..Len(log) + 1
      /\ \A k \in DOMAIN log : log'[k] = log[k]
  BY <1>1, <1>2, <1>3, LogGrows
<1>5. GoesOn
  BY DEF StreamEnds, GoesOn, Between
<1> HIDE DEF e
<1> SUFFICES ASSUME NEW k \in DOMAIN log', NEW t \in 1..turn', log'[k] = Assistant(t)
             PROVE  /\ t < turn' \/ GoesOn' => Complete(k, t)'
                    /\ pc' \in Batch /\ t = turn' => k = Len(context')
  BY DEF CompleteInv, Assistant
<1>6. CASE k \in DOMAIN log
  <2>1. log[k] = Assistant(t) /\ t \in 1..turn
    BY <1>4, <1>6, EntriesDiffer DEF OrderInv, AnswerInv
  <2>2. Complete(k, t)
    BY <1>5, <1>6, <2>1 DEF CompleteInv
  <2>3. Complete(k, t)'
    BY <1>1, <1>2, <1>3, <1>6, <2>1, <2>2, CompleteKept
  <2>4. t # turn'
    BY <1>1, <2>1
  <2> QED BY <2>3, <2>4
<1>7. CASE k = Len(log) + 1
  <2>1. t = turn'
    BY <1>1, <1>4, <1>7, EntriesDiffer DEF e
  <2>2. k = Len(context')
    BY <1>3, <1>4, <1>7
  <2>3. ASSUME GoesOn' PROVE Complete(k, t)'
    <3>1. n = 0 /\ stop \notin {"error", "aborted"}
      BY <2>3 DEF GoesOn, StreamEnds, Between
    <3>2. answers'[t] = a
      <4>1. answers \in Seq(AnyAnswer) /\ t = Len(answers) + 1
        BY <1>1, <2>1 DEF LoopTypes, turn
      <4> QED BY <1>2, <1>3, <4>1, AppendProperties
    <3>3. answers'[t].stop = stop /\ answers'[t].calls = 0
      BY <3>1, <3>2
    <3>4. Len(log') >= k + 0 /\ 1..0 = {}
      BY <1>4, <1>7
    <3> QED BY <3>1, <3>3, <3>4 DEF Complete
  <2>4. ~(t < turn')
    BY <1>1, <2>1
  <2> QED BY <2>1, <2>2, <2>3, <2>4
<1> QED BY <1>4, <1>6, <1>7

LEMMA CompleteStep ==
    ASSUME LoopInv, PersistInv, OrderInv, CompleteInv, [Next]_vars
    PROVE  CompleteInv'
<1> USE DEF LoopInv
<1>1. CASE UNCHANGED <<pc, log, context, answers, aborted>>
  BY <1>1, CompleteSame DEF GoesOn
<1>2. ASSUME NEW m \in Msgs, pc \in {"start", "deliver"}, log' = Append(log, User(m)),
             UNCHANGED answers, pc' \in Between
      PROVE  CompleteInv'
  <2>1. User(m) \in AnyEntry /\ User(m).role # "assistant"
    BY DEF AnyEntry, User
  <2>2. pc = "start" => log = <<>>
    BY DEF PersistInv
  <2>3. pc = "deliver" => GoesOn
    BY DEF GoesOn, Between
  <2>4. pc' \notin Batch
    BY <1>2 DEF Between, Batch
  <2> QED BY <1>2, <2>1, <2>2, <2>3, <2>4, CompleteSame
<1>3. CASE RunPrompt
  BY <1>2, <1>3, QueueAssumption DEF RunPrompt, Between
<1>4. CASE Deliver
  <2>1. Head(pending) \in Msgs
    BY <1>4 DEF Deliver, Announce, LoopTypes
  <2> QED BY <1>2, <1>4, <2>1 DEF Deliver, Between
<1>5. CASE TruncatedResult \/ Record \/ ParallelResult
  <2>1. Result(turn, next) \in AnyEntry /\ log' = Append(log, Result(turn, next))
    BY <1>5, ResultStep
  <2>2. Result(turn, next).role # "assistant"
    BY DEF Result
  <2>3. UNCHANGED <<context, answers>> /\ pc \in Batch /\ pc' \in Batch
    BY <1>5 DEF TruncatedResult, Record, ParallelResult, Batch
  <2>4. ~GoesOn'
    BY <2>3 DEF GoesOn, Between, Batch
  <2> QED BY <2>1, <2>2, <2>3, <2>4, CompleteSame
<1>6. CASE Answered
  <2>1. PICK stop \in {"stop", "length", "error", "aborted"}, n \in 0..MaxCalls,
             m \in {"sequential", "parallel"} : StreamEnds(stop, n, m)
    BY <1>6 DEF Answered
  <2>2. n \in Nat
    BY LoopAssumption
  <2> QED BY <2>1, <2>2, CompleteAnswer
<1>7. CASE DrainSteering \/ DrainFollowUp \/ DeliverFails \/ Ask \/ TurnEnd \/ StreamStarts
  BY <1>7, CompleteSame DEF DrainSteering, DrainFollowUp, DeliverFails, Ask, TurnEnd,
                            StreamStarts, Batch, Between, GoesOn
<1>8. CASE (\E i \in 1..MaxCalls, state \in {"ready", "failed"} : Prepare(i, state))
           \/ Check \/ Launch \/ Received
  BY <1>8, CompleteSame DEF Prepare, Check, Launch, Received, Batch, Between, GoesOn
<1>9. CASE Collect
  BY <1>9, CompleteCollect
<1>10. CASE LoopFails
  BY <1>10, CompleteSame DEF LoopFails, Batch, Between, GoesOn
<1>11. CASE Abort
  BY <1>11, CompleteSame DEF Abort, GoesOn
<1>12. CASE UNCHANGED vars \/ Tools \/ Receive \/ Others \/ Over
  BY <1>1, <1>12 DEF vars, Over, Tools, ToolReturns, Receive, Others, lvars
<1> QED BY <1>3, <1>4, <1>5, <1>6, <1>7, <1>8, <1>9, <1>10, <1>11, <1>12 DEF Next, Step

LEMMA CompleteInit == Init => CompleteInv
BY DEF Init, CompleteInv

-----------------------------------------------------------------------------
(* What the loop asks about last *)

\* A step that leaves the log alone.
LEMMA LastSame ==
    ASSUME LastInv, UNCHANGED log, pc' \in {"start", "failed"} \/ log # <<>>,
           pc' \in {"turn_end", "steer", "follow_up"} /\ more' =>
             pc \in {"turn_end", "steer", "follow_up"} /\ more,
           pc' = "deliver" =>
             \/ pending' # <<>>
             \/ pc \in {"turn_end", "steer", "follow_up"} /\ more
             \/ pc = "deliver" /\ pending = <<>>,
           pc' = "ask" => pc = "ask" \/ (pc = "deliver" /\ pending = <<>>)
    PROVE  LastInv'
BY DEF LastInv

\* A step that adds a message to it.
LEMMA LastAppend ==
    ASSUME LoopTypes, NEW e \in AnyEntry, log' = Append(log, e),
           e.role # "assistant" \/ pc' \notin {"turn_end", "steer", "follow_up", "deliver", "ask"}
             \/ (pc' = "turn_end" /\ ~more')
    PROVE  LastInv'
<1>1. log' # <<>> /\ log'[Len(log')] = e
  BY LogGrows
<1> QED BY <1>1 DEF LastInv

LEMMA LastStep ==
    ASSUME LoopInv, PersistInv, OrderInv, LastInv, [Next]_vars
    PROVE  LastInv'
<1> USE DEF LoopInv
<1>1. ASSUME NEW m \in Msgs, log' = Append(log, User(m)) PROVE LastInv'
  <2>1. User(m) \in AnyEntry /\ User(m).role # "assistant"
    BY DEF AnyEntry, User
  <2> QED BY <1>1, <2>1, LastAppend
<1>2. CASE RunPrompt
  BY <1>1, <1>2, QueueAssumption DEF RunPrompt
<1>3. CASE Deliver
  <2>1. Head(pending) \in Msgs
    BY <1>3 DEF Deliver, Announce, LoopTypes
  <2> QED BY <1>1, <1>3, <2>1 DEF Deliver
<1>4. CASE TruncatedResult \/ Record \/ ParallelResult
  <2>1. Result(turn, next) \in AnyEntry /\ log' = Append(log, Result(turn, next))
    BY <1>4, ResultStep
  <2>2. Result(turn, next).role # "assistant"
    BY DEF Result
  <2> QED BY <2>1, <2>2, LastAppend
<1>5. CASE Answered
  <2>1. PICK stop \in {"stop", "length", "error", "aborted"}, n \in 0..MaxCalls,
             m \in {"sequential", "parallel"} : StreamEnds(stop, n, m)
    BY <1>5 DEF Answered
  <2>2. log' = Append(log, Assistant(turn + 1)) /\ ~more'
        /\ pc' \in {"ended", "turn_end", "truncated", "prepare"}
    BY <2>1 DEF StreamEnds
  <2>3. Assistant(turn + 1) \in AnyEntry
    <3>1. turn + 1 \in Nat
      BY DEF LoopTypes, turn
    <3> QED BY <3>1 DEF AnyEntry
  <2> QED BY <2>2, <2>3, LastAppend
<1>6. CASE Collect
  <2>1. turn \in Nat /\ finalized \in Nat /\ finalized >= 1 /\ context \in Seq(AnyEntry)
    BY <1>6 DEF Collect, CountInv, LoopTypes, turn
  <2>2. log = context \o Results(turn, finalized)
    BY <1>6 DEF PersistInv, Collect, Batch, Persisted
  <2>4. Len(context) \in Nat /\ Len(log) = Len(context) + finalized
    BY <2>1, <2>2, ResultsBehind
  <2>5. log[Len(log)] = Result(turn, finalized)
    <3>1. finalized \in 1..finalized
      BY <2>1
    <3>2. \A i \in 1..finalized : log[Len(context) + i] = Result(turn, i)
      BY <2>1, <2>2, ResultsBehind
    <3> QED BY <2>4, <3>1, <3>2
  <2>6. log # <<>>
    BY <2>1, <2>4
  <2> QED BY <1>6, <2>5, <2>6 DEF LastInv, Collect, Result
<1>7. CASE DrainSteering \/ DrainFollowUp \/ Ask
  BY <1>7, LastSame DEF DrainSteering, DrainFollowUp, Ask, LastInv, qvars
<1>8. CASE DeliverFails \/ TurnEnd \/ StreamStarts \/ LoopFails
  BY <1>8, LastSame DEF DeliverFails, TurnEnd, StreamStarts, LoopFails, LastInv
<1>9. CASE (\E i \in 1..MaxCalls, state \in {"ready", "failed"} : Prepare(i, state))
           \/ Check \/ Launch \/ Receive \/ Received
  BY <1>9, LastSame DEF Prepare, Check, Launch, Receive, Received, LastInv
<1>10. CASE UNCHANGED vars \/ Tools \/ Abort \/ Over
  BY <1>10, LastSame DEF vars, qvars, lvars, Over, Tools, ToolReturns, Abort, LastInv
<1>11. CASE Others
  <2>1. UNCHANGED pending
    BY <1>11 DEF Others, Client, EnqueueSteering, EnqueueFollowUp, Restore, ClientSnapshots,
                 ClientPushes, Forwarder, MarkDelivered, ForwarderSnapshots, ForwarderPushes,
                 ForwarderStarts
  <2> QED BY <1>11, <2>1 DEF Others, lvars, LastInv
<1> QED BY <1>2, <1>3, <1>4, <1>5, <1>6, <1>7, <1>8, <1>9, <1>10, <1>11 DEF Next, Step

LEMMA LastInit == Init => LastInv
BY DEF Init, LastInv

\* However a batch is cut short by an abort, a request has every answer of its
\* context with all of its results behind it, no failed answer, and no answer at
\* its end (run_loop, execute_sequential, execute_parallel).
THEOREM AskedIsComplete == Spec => []RequestIsComplete
<1> DEFINE I == LoopInv /\ PersistInv /\ OrderInv /\ CompleteInv /\ LastInv
<1>1. Init => I
  BY LoopInvInit, PersistInit, OrderInit, CompleteInit, LastInit
<1>2. I /\ [Next]_vars => I'
  BY LoopInvStep, PersistStep, OrderStep, CompleteStep, LastStep
<1>3. I => RequestIsComplete
  <2> SUFFICES ASSUME I, pc = "ask" PROVE RequestIsComplete
    BY DEF RequestIsComplete
  <2>1. context = log /\ GoesOn
    BY DEF PersistInv, GoesOn, Between
  <2>3. Last(context).role # "assistant"
    BY <2>1 DEF LastInv, Last
  <2>4. \A k \in DOMAIN context : \A t \in 1..turn : context[k] = Assistant(t) => Complete(k, t)
    BY <2>1 DEF CompleteInv
  <2> QED BY <2>1, <2>3, <2>4 DEF RequestIsComplete, Complete
<1> QED BY <1>1, <1>2, <1>3, PTL DEF Spec

-----------------------------------------------------------------------------
(* Queued messages *)

LEMMA SetAppend ==
    ASSUME NEW q \in Seq(Msgs), NEW m \in Msgs
    PROVE  ToSet(Append(q, m)) = ToSet(q) \cup {m}
<1>1. DOMAIN Append(q, m) = DOMAIN q \cup {Len(q) + 1} /\ Len(q) + 1 \notin DOMAIN q
  BY AppendProperties, LenProperties
<1>2. /\ \A i \in DOMAIN q : Append(q, m)[i] = q[i]
      /\ Append(q, m)[Len(q) + 1] = m
  BY AppendProperties, LenProperties
<1> QED BY <1>1, <1>2 DEF ToSet

LEMMA SetTail ==
    ASSUME NEW q \in Seq(Msgs), q # <<>>
    PROVE  Head(q) \in ToSet(q) /\ Head(q) \in Msgs /\ ToSet(Tail(q)) \subseteq ToSet(q)
<1>1. Head(q) = q[1] /\ 1 \in DOMAIN q /\ Head(q) \in Msgs
  OBVIOUS
<1>2. \A i \in DOMAIN Tail(q) : i + 1 \in DOMAIN q /\ Tail(q)[i] = q[i + 1]
  OBVIOUS
<1> QED BY <1>1, <1>2 DEF ToSet

LEMMA SetEmpty == ASSUME NEW q \in Seq(Msgs), q # <<>> PROVE ToSet(q) # {}
BY SetTail

\* The messages that were queued stay queued, and a new one is new.
LEMMA QueuedGrows ==
    ASSUME LoopTypes, [Next]_vars
    PROVE  /\ ToSet(steered) \subseteq ToSet(steered') /\ ToSet(followed) \subseteq ToSet(followed')
           /\ Queued \subseteq Queued'
           /\ \A m \in ToSet(followed') : m \in ToSet(followed) \/ m \notin Queued \cup {Prompt}
           /\ UNCHANGED <<steered, followed>> \/ Others
<1>1. CASE UNCHANGED history
  <2>1. UNCHANGED <<steered, followed>>
    BY <1>1 DEF history
  <2> QED BY <2>1 DEF Queued
<1>2. CASE Others /\ ~UNCHANGED history
  <2>1. PICK m \in Msgs : \/ m \notin Queued \cup {Prompt} /\ steered' = Append(steered, m)
                             /\ UNCHANGED followed
                          \/ m \notin Queued \cup {Prompt} /\ followed' = Append(followed, m)
                             /\ UNCHANGED steered
                          \/ UNCHANGED <<steered, followed>>
    <3>1. CASE Forwarder
      BY <1>2, <3>1 DEF Forwarder, MarkDelivered, ForwarderSnapshots, ForwarderPushes,
                        ForwarderStarts
    <3>2. CASE \E m \in Msgs : EnqueueSteering(m) \/ EnqueueFollowUp(m)
      BY <3>2 DEF EnqueueSteering, EnqueueFollowUp
    <3>3. CASE Restore \/ ClientSnapshots \/ ClientPushes
      BY <3>3, QueueAssumption DEF Restore, ClientSnapshots, ClientPushes, history
    <3> QED BY <1>2, <3>1, <3>2, <3>3 DEF Others, Client
  <2>2. steered \in Seq(Msgs) /\ followed \in Seq(Msgs)
    BY DEF LoopTypes
  <2>3. \/ ToSet(steered') = ToSet(steered) \cup {m} /\ UNCHANGED followed
           /\ m \notin Queued \cup {Prompt}
        \/ ToSet(followed') = ToSet(followed) \cup {m} /\ UNCHANGED steered
           /\ m \notin Queued \cup {Prompt}
        \/ UNCHANGED <<steered, followed>>
    BY <2>1, <2>2, SetAppend
  <2> QED BY <1>2, <2>3 DEF Queued
<1>3. UNCHANGED history \/ Others
  <2>1. CASE UNCHANGED qvars
    BY <2>1 DEF qvars
  <2>2. CASE Step
    BY <2>1, <2>2 DEF Step, RunPrompt, DrainSteering, drain_steering, DrainFollowUp,
                 drain_follow_up, Deliver, DeliverFails, Announce, Ask, Prepare, TruncatedResult,
                 Record, Check, Launch, Receive, Received, ParallelResult, Collect, TurnEnd
  <2>3. CASE StreamStarts \/ Answered \/ Tools \/ LoopFails \/ Abort
    BY <2>1, <2>3 DEF StreamStarts, Answered, StreamEnds, Tools, ToolReturns, LoopFails, Abort
  <2>4. CASE Over \/ UNCHANGED vars
    BY <2>1, <2>4 DEF Over, vars
  <2> QED BY <2>2, <2>3, <2>4 DEF Next
<1> QED BY <1>1, <1>2, <1>3

LEMMA QueueStep == ASSUME LoopTypes, QueueInv, [Next]_vars PROVE QueueInv'
<1> USE DEF QueueInv
<1>t. /\ steering \in Seq(Msgs) /\ follow_up \in Seq(Msgs) /\ pending \in Seq(Msgs)
      /\ steered \in Seq(Msgs) /\ followed \in Seq(Msgs)
  BY DEF LoopTypes
<1>1. CASE UNCHANGED <<steering, follow_up, pending, steered, followed>>
  BY <1>1 DEF Queued
<1>2. CASE DrainSteering
  <2>1. /\ pending' = Drained(steering, SteeringMode)
        /\ steering' = Remaining(steering, SteeringMode)
        /\ UNCHANGED <<follow_up, steered, followed>>
    BY <1>2 DEF DrainSteering, drain_steering, history
  <2>2. ToSet(pending') \subseteq ToSet(steering) /\ ToSet(steering') \subseteq ToSet(steering)
    BY <1>t, <2>1, DrainTypes
  <2> QED BY <2>1, <2>2 DEF Queued
<1>3. CASE DrainFollowUp
  <2>1. /\ pending' = Drained(follow_up, FollowUpMode)
        /\ follow_up' = Remaining(follow_up, FollowUpMode)
        /\ UNCHANGED <<steering, steered, followed>>
    BY <1>3 DEF DrainFollowUp, drain_follow_up, history
  <2>2. ToSet(pending') \subseteq ToSet(follow_up) /\ ToSet(follow_up') \subseteq ToSet(follow_up)
    BY <1>t, <2>1, DrainTypes
  <2> QED BY <2>1, <2>2 DEF Queued
<1>4. CASE Deliver \/ DeliverFails
  <2>1. /\ pending # <<>> /\ pending' = Tail(pending)
        /\ UNCHANGED <<steering, follow_up, steered, followed>>
    BY <1>4 DEF Deliver, DeliverFails, Announce, queues, history
  <2>2. ToSet(pending') \subseteq ToSet(pending)
    BY <1>t, <2>1, SetTail
  <2> QED BY <2>1, <2>2 DEF Queued
<1>5. ASSUME NEW m \in Msgs, EnqueueSteering(m) PROVE QueueInv'
  <2>1. /\ ToSet(steering') = ToSet(steering) \cup {m} /\ ToSet(steered') = ToSet(steered) \cup {m}
        /\ m \notin Queued \cup {Prompt} /\ UNCHANGED <<follow_up, pending, followed>>
    BY <1>t, <1>5, SetAppend DEF EnqueueSteering
  <2> QED BY <2>1 DEF Queued
<1>6. ASSUME NEW m \in Msgs, EnqueueFollowUp(m) PROVE QueueInv'
  <2>1. /\ ToSet(follow_up') = ToSet(follow_up) \cup {m}
        /\ ToSet(followed') = ToSet(followed) \cup {m}
        /\ m \notin Queued \cup {Prompt} /\ UNCHANGED <<steering, pending, steered>>
    BY <1>t, <1>6, SetAppend DEF EnqueueFollowUp
  <2> QED BY <2>1 DEF Queued
<1>7. CASE Restore
  <2>1. steering' = <<>> /\ follow_up' = <<>> /\ UNCHANGED <<pending, steered, followed>>
    BY <1>7 DEF Restore
  <2>2. ToSet(<<>>) = {}
    BY DEF ToSet
  <2> QED BY <2>1, <2>2 DEF Queued
<1>8. CASE ClientSnapshots \/ ClientPushes \/ Forwarder
  BY <1>1, <1>8 DEF ClientSnapshots, ClientPushes, Forwarder, MarkDelivered, ForwarderSnapshots,
                    ForwarderPushes, ForwarderStarts, queues, history
<1>9. CASE Others
  BY <1>5, <1>6, <1>7, <1>8, <1>9 DEF Others, Client
<1>10. CASE UNCHANGED qvars
  BY <1>1, <1>10 DEF qvars, queues, history
<1>11. CASE Step
  BY <1>2, <1>3, <1>4, <1>10, <1>11 DEF Step, RunPrompt, Ask, Prepare, TruncatedResult, Record,
       Check, Launch, Receive, Received, ParallelResult, Collect, TurnEnd
<1>12. CASE StreamStarts \/ Answered \/ Tools \/ LoopFails \/ Abort
  BY <1>10, <1>12 DEF StreamStarts, Answered, StreamEnds, Tools, ToolReturns, LoopFails, Abort
<1>13. CASE Over \/ UNCHANGED vars
  BY <1>10, <1>13 DEF Over, vars
<1> QED BY <1>9, <1>11, <1>12, <1>13 DEF Next

LEMMA QueueInit == Init => QueueInv
BY DEF Init, QInit, QueueInv, Queued, ToSet

\* What can happen to the log and the answers in a step.
LEMMA LogCases ==
    ASSUME LoopInv, PersistInv, [Next]_vars
    PROVE  \/ UNCHANGED <<log, answers>>
           \/ (RunPrompt \/ Deliver) /\ UNCHANGED answers
              /\ \E m \in Msgs : log' = Append(log, User(m)) /\ User(m) \in AnyEntry
                                 /\ m = IF pc = "start" THEN Prompt ELSE Head(pending)
           \/ (TruncatedResult \/ Record \/ ParallelResult) /\ UNCHANGED answers
              /\ log' = Append(log, Result(turn, next)) /\ Result(turn, next) \in AnyEntry
              /\ turn \in Nat /\ turn >= 1 /\ pc' \in Batch
           \/ Answered /\ log' = Append(log, Assistant(turn + 1))
              /\ Assistant(turn + 1) \in AnyEntry /\ turn \in Nat /\ turn' = turn + 1
              /\ \E a \in AnyAnswer : answers' = Append(answers, a)
<1> USE DEF LoopInv
<1>1. CASE RunPrompt
  <2>1. User(Prompt) \in AnyEntry
    BY QueueAssumption DEF AnyEntry
  <2> QED BY <1>1, <2>1, QueueAssumption DEF RunPrompt
<1>2. CASE Deliver
  <2>1. Head(pending) \in Msgs
    BY <1>2 DEF Deliver, Announce, LoopTypes
  <2>2. User(Head(pending)) \in AnyEntry
    BY <2>1 DEF AnyEntry
  <2> QED BY <1>2, <2>1, <2>2 DEF Deliver
<1>3. CASE TruncatedResult \/ Record \/ ParallelResult
  <2>1. turn >= 1
    BY <1>3, ResultStep DEF CountInv
  <2> QED BY <1>3, <2>1, ResultStep
<1>4. CASE Answered
  <2>1. PICK stop \in {"stop", "length", "error", "aborted"}, n \in 0..MaxCalls,
             m \in {"sequential", "parallel"} : StreamEnds(stop, n, m)
    BY <1>4 DEF Answered
  <2>2. n \in Nat
    BY LoopAssumption
  <2>3. turn \in Nat /\ turn + 1 \in Nat
    BY DEF LoopTypes, turn
  <2>4. Assistant(turn + 1) \in AnyEntry
    BY <2>3 DEF AnyEntry
  <2>5. turn' = turn + 1
    BY <2>1, <2>2, TypesAnswer
  <2>6. log' = Append(log, Assistant(turn + 1))
        /\ answers' = Append(answers, [stop |-> stop, calls |-> n])
    BY <2>1 DEF StreamEnds
  <2>7. [stop |-> stop, calls |-> n] \in AnyAnswer
    BY <2>2 DEF AnyAnswer
  <2> QED BY <1>4, <2>3, <2>4, <2>5, <2>6, <2>7
<1>5. CASE DrainSteering \/ DrainFollowUp \/ DeliverFails \/ Ask \/ TurnEnd \/ StreamStarts
           \/ Check \/ Launch \/ Receive \/ Received \/ Collect \/ LoopFails \/ Abort
           \/ (\E i \in 1..MaxCalls, state \in {"ready", "failed"} : Prepare(i, state))
  BY <1>5 DEF DrainSteering, DrainFollowUp, DeliverFails, Ask, TurnEnd, StreamStarts, Check,
              Launch, Receive, Received, Collect, LoopFails, Abort, Prepare
<1>6. CASE Tools \/ Others \/ Over \/ UNCHANGED vars
  BY <1>6 DEF Tools, ToolReturns, Others, Over, vars, lvars
<1> QED BY <1>1, <1>2, <1>3, <1>4, <1>5, <1>6 DEF Next, Step

LEMMA OriginStep ==
    ASSUME LoopInv, PersistInv, QueueInv, OriginInv, [Next]_vars
    PROVE  OriginInv'
<1>0. LoopTypes /\ Queued \subseteq Queued'
  BY QueuedGrows DEF LoopInv
<1>1. turn \in Nat /\ turn' \in Nat /\ turn <= turn'
  <2>1. turn \in Nat
    BY <1>0 DEF LoopTypes, turn
  <2>2. turn' = turn \/ turn' = turn + 1
    BY LogCases DEF turn
  <2> QED BY <2>1, <2>2
<1>2. \A k \in DOMAIN log : IF log[k].role = "user" THEN log[k].of \in Queued' \cup {Prompt}
                                                    ELSE log[k].of[1] \in 1..turn'
  BY <1>0, <1>1 DEF OriginInv
<1>3. CASE UNCHANGED log
  BY <1>2, <1>3 DEF OriginInv
<1>4. ASSUME NEW e \in AnyEntry, log' = Append(log, e),
             IF e.role = "user" THEN e.of \in Queued' \cup {Prompt} ELSE e.of[1] \in 1..turn'
      PROVE  OriginInv'
  <2>1. \A k \in DOMAIN log' : (k \in DOMAIN log /\ log'[k] = log[k]) \/ log'[k] = e
    BY <1>0, <1>4, LogGrows
  <2> QED BY <1>2, <1>4, <2>1 DEF OriginInv
<1>5. ASSUME NEW m \in Msgs, RunPrompt \/ Deliver,
             log' = Append(log, User(m)) /\ User(m) \in AnyEntry
             /\ m = IF pc = "start" THEN Prompt ELSE Head(pending)
      PROVE  OriginInv'
  <2>1. pc = "start" \/ (pending # <<>> /\ pc # "start")
    BY <1>5 DEF RunPrompt, Deliver, Announce
  <2>3. m \in Queued \cup {Prompt}
    BY <1>0, <1>5, <2>1, SetTail DEF QueueInv, Queued, LoopTypes
  <2>4. User(m).role = "user" /\ User(m).of = m
    BY DEF User
  <2> QED BY <1>0, <1>4, <1>5, <2>3, <2>4
<1>6. CASE log' = Append(log, Result(turn, next)) /\ Result(turn, next) \in AnyEntry
           /\ turn >= 1
  <2>1. Result(turn, next).role = "result" /\ Result(turn, next).of[1] = turn
    BY DEF Result
  <2> QED BY <1>1, <1>4, <1>6, <2>1
<1>7. CASE log' = Append(log, Assistant(turn + 1)) /\ Assistant(turn + 1) \in AnyEntry
           /\ turn' = turn + 1
  <2>1. Assistant(turn + 1).role = "assistant" /\ Assistant(turn + 1).of[1] = turn + 1
    BY DEF Assistant
  <2> QED BY <1>1, <1>4, <1>7, <2>1
<1> QED BY <1>3, <1>5, <1>6, <1>7, LogCases

LEMMA OriginInit == Init => OriginInv
BY DEF Init, OriginInv

-----------------------------------------------------------------------------
(* Follow-ups *)

\* A message that permits a follow-up goes on doing so.
LEMMA DoneKept ==
    ASSUME LoopTypes, NEW e, DoneEntry(e), e.role # "user" => e.of[1] \in 1..turn,
           ToSet(followed) \subseteq ToSet(followed'), closed \subseteq closed',
           UNCHANGED answers \/ (\E a \in AnyAnswer : answers' = Append(answers, a))
    PROVE  DoneEntry(e)'
<1>1. e.role # "user" => answers'[e.of[1]] = answers[e.of[1]]
  BY AppendProperties DEF LoopTypes, turn
<1> QED BY <1>1 DEF DoneEntry

\* The log's part of FollowInv.
LEMMA FollowKept ==
    ASSUME LoopTypes, OriginInv, FollowUpsWhenDone, closed \subseteq closed',
           ToSet(followed) \subseteq ToSet(followed'),
           \A m \in ToSet(followed') : m \in ToSet(followed) \/ m \notin Queued \cup {Prompt},
           UNCHANGED answers \/ (\E a \in AnyAnswer : answers' = Append(answers, a)),
           UNCHANGED log \/ (\E e \in AnyEntry :
             /\ log' = Append(log, e)
             /\ e.role = "user" /\ e.of \in ToSet(followed') =>
                  log # <<>> /\ DoneEntry(log[Len(log)]))
    PROVE  FollowUpsWhenDone'
<1>0. /\ Len(log) \in Nat /\ DOMAIN log = 1..Len(log)
      /\ \A k \in DOMAIN log : k \in DOMAIN log' /\ log'[k] = log[k]
      /\ \A k \in DOMAIN log' : k \in DOMAIN log \/ (k = Len(log) + 1 /\ ~UNCHANGED log)
  <2>1. CASE UNCHANGED log
    BY <2>1, LenProperties DEF LoopTypes
  <2>2. CASE ~UNCHANGED log
    BY <2>2, LogGrows
  <2> QED BY <2>1, <2>2
<1>1. ASSUME NEW j \in DOMAIN log, NEW e, e = log[j], DoneEntry(e) PROVE DoneEntry(e)'
  BY <1>1, DoneKept DEF OriginInv
<1> SUFFICES ASSUME NEW k \in DOMAIN log', log'[k].role = "user", log'[k].of \in ToSet(followed')
             PROVE  k > 1 /\ \E e : e = log'[k - 1] /\ DoneEntry(e)'
  BY DEF FollowUpsWhenDone, DoneEntry
<1>2. CASE k \in DOMAIN log
  <2>1. log[k].role = "user" /\ log[k].of \in ToSet(followed)
    BY <1>0, <1>2 DEF OriginInv
  <2>2. k > 1 /\ DoneEntry(log[k - 1])
    BY <1>2, <2>1 DEF FollowUpsWhenDone, DoneEntry
  <2>3. k - 1 \in DOMAIN log
    BY <1>0, <1>2, <2>2
  <2>4. PICK e : e = log[k - 1]
    OBVIOUS
  <2>5. DoneEntry(e)'
    BY <1>1, <2>2, <2>3, <2>4
  <2> QED BY <1>0, <2>2, <2>3, <2>4, <2>5
<1>3. CASE k \notin DOMAIN log
  <2>1. k = Len(log) + 1 /\ ~UNCHANGED log
    BY <1>0, <1>3
  <2>2. PICK d \in AnyEntry : /\ log' = Append(log, d)
                              /\ d.role = "user" /\ d.of \in ToSet(followed') =>
                                   log # <<>> /\ DoneEntry(log[Len(log)])
    BY <2>1
  <2>3. log'[k] = d
    BY <2>1, <2>2, LogGrows
  <2>4. log # <<>> /\ DoneEntry(log[Len(log)])
    BY <2>2, <2>3
  <2>5. Len(log) \in DOMAIN log /\ k - 1 = Len(log) /\ k > 1
    BY <1>0, <2>1, <2>4, EmptySeq DEF LoopTypes
  <2>6. PICK e : e = log[Len(log)]
    OBVIOUS
  <2>7. DoneEntry(e)'
    BY <1>1, <2>4, <2>5, <2>6
  <2> QED BY <1>0, <2>5, <2>6, <2>7
<1> QED BY <1>2, <1>3

\* In a step that leaves the log alone its last message goes on permitting one.
LEMMA LastDoneKept ==
    ASSUME LoopTypes, OriginInv, log # <<>>, DoneEntry(log[Len(log)]), UNCHANGED <<log, answers>>,
           ToSet(followed) \subseteq ToSet(followed'), closed \subseteq closed'
    PROVE  DoneEntry(log[Len(log)])'
<1>1. PICK e : e = log[Len(log)]
  OBVIOUS
<1>2. Len(log) \in DOMAIN log
  BY EmptySeq DEF LoopTypes
<1>3. DoneEntry(e)'
  BY <1>1, <1>2, DoneKept DEF OriginInv
<1> QED BY <1>1, <1>3 DEF DoneEntry

LEMMA ClosedGrows == ASSUME [Next]_vars PROVE closed \subseteq closed'
<1>1. CASE Step
  BY <1>1 DEF Step, RunPrompt, DrainSteering, DrainFollowUp, Deliver, DeliverFails, Ask,
     Prepare,
              TruncatedResult, Record, Check, Launch, Receive, Received, ParallelResult, Collect,
              TurnEnd
<1>2. CASE ~Step
  BY <1>2 DEF Next, StreamStarts, Answered, StreamEnds, Tools, ToolReturns, LoopFails, Abort,
              Others, Over, vars, lvars
<1> QED BY <1>1, <1>2

\* pending holds follow-ups or steering messages, whatever is queued meanwhile.
LEMMA PendingKind ==
    ASSUME LoopTypes, QueueInv, QueueInv', pending # <<>>, Head(pending) \in ToSet(followed'),
           ToSet(steered) \subseteq ToSet(steered')
    PROVE  ToSet(pending) \subseteq ToSet(followed)
<1>1. Head(pending) \in ToSet(pending)
  BY SetTail DEF LoopTypes
<1>2. Head(pending) \notin ToSet(steered)
  BY DEF QueueInv
<1> QED BY <1>1, <1>2 DEF QueueInv

LEMMA FollowLogStep ==
    ASSUME LoopInv, PersistInv, LastInv, QueueInv, OriginInv, FollowInv, [Next]_vars
    PROVE  FollowUpsWhenDone'
<1>1. LoopTypes /\ FollowUpsWhenDone /\ QueueInv' /\ closed \subseteq closed'
  BY QueueStep, ClosedGrows DEF LoopInv, FollowInv
<1>2. /\ ToSet(steered) \subseteq ToSet(steered') /\ ToSet(followed) \subseteq ToSet(followed')
      /\ \A m \in ToSet(followed') : m \in ToSet(followed) \/ m \notin Queued \cup {Prompt}
  BY <1>1, QueuedGrows
<1>3. ASSUME NEW e \in AnyEntry, log' = Append(log, e), e.role # "user",
             UNCHANGED answers \/ (\E a \in AnyAnswer : answers' = Append(answers, a))
      PROVE  FollowUpsWhenDone'
  BY <1>1, <1>2, <1>3, FollowKept
<1>4. CASE UNCHANGED <<log, answers>>
  BY <1>1, <1>2, <1>4, FollowKept
<1>5. ASSUME NEW m \in Msgs, RunPrompt \/ Deliver, UNCHANGED answers,
             log' = Append(log, User(m)) /\ User(m) \in AnyEntry
             /\ m = IF pc = "start" THEN Prompt ELSE Head(pending)
      PROVE  FollowUpsWhenDone'
  <2>1. User(m).of = m
    BY DEF User
  <2>2. ASSUME m \in ToSet(followed') PROVE log # <<>> /\ DoneEntry(log[Len(log)])
    <3>1. pc # "start"
      BY <1>1, <1>5, <2>2 DEF QueueInv, Queued
    <3>2. pc = "deliver" /\ pending # <<>> /\ m = Head(pending)
      BY <1>5, <3>1 DEF RunPrompt, Deliver, Announce
    <3>3. ToSet(pending) \subseteq ToSet(followed)
      BY <1>1, <1>2, <2>2, <3>2, PendingKind
    <3> QED BY <3>2, <3>3 DEF FollowInv, LastInv
  <2> QED BY <1>1, <1>2, <1>5, <2>1, <2>2, FollowKept
<1>6. Result(turn, next).role # "user" /\ Assistant(turn + 1).role # "user"
  BY DEF Result, Assistant
<1> QED BY <1>3, <1>4, <1>5, <1>6, LogCases

LEMMA FollowStep ==
    ASSUME LoopInv, PersistInv, LastInv, QueueInv, OriginInv, FollowInv, [Next]_vars
    PROVE  FollowInv'
<1>1. FollowUpsWhenDone'
  BY FollowLogStep
<1>2. LoopTypes /\ QueueInv' /\ closed \subseteq closed'
  BY QueueStep, ClosedGrows DEF LoopInv
<1>3. ToSet(steered) \subseteq ToSet(steered') /\ ToSet(followed) \subseteq ToSet(followed')
  BY <1>2, QueuedGrows
<1>4. ASSUME UNCHANGED <<log, answers>>, pc \notin {"start", "failed"}, DoneEntry(log[Len(log)])
      PROVE  DoneEntry(log[Len(log)])'
  BY <1>2, <1>3, <1>4, LastDoneKept DEF LastInv
<1>5. ASSUME pc' \notin {"turn_end", "steer", "follow_up", "deliver", "start"} PROVE FollowInv'
  BY <1>1, <1>5 DEF FollowInv
<1>6. CASE UNCHANGED <<pc, log, answers, more, pending>>
  <2>1. ASSUME pc \in {"turn_end", "steer", "follow_up"}, ~more
        PROVE  log'[Len(log')].role # "user" /\ DoneEntry(log[Len(log)])'
    BY <1>4, <1>6, <2>1 DEF FollowInv
  <2>2. ASSUME pc = "deliver", pending # <<>>, ToSet(pending) \subseteq ToSet(followed')
        PROVE  DoneEntry(log[Len(log)])'
    <3>1. Head(pending) \in ToSet(followed')
      BY <1>2, <2>2, SetTail DEF LoopTypes
    <3>2. ToSet(pending) \subseteq ToSet(followed)
      BY <1>2, <1>3, <2>2, <3>1, PendingKind
    <3> QED BY <1>4, <1>6, <2>2, <3>2 DEF FollowInv
  <2>3. ~more' => ~more
    BY <1>6
  <2> QED BY <1>1, <1>6, <2>1, <2>2 DEF FollowInv
<1>7. CASE RunPrompt
  <2>1. pc' = "steer" /\ more'
    BY <1>7 DEF RunPrompt, FollowInv
  <2> QED BY <1>1, <2>1 DEF FollowInv
<1>8. CASE DrainSteering
  <2>1. /\ pending' = Drained(steering, SteeringMode) /\ pc = "steer"
        /\ pc' = IF more \/ pending' # <<>> THEN "deliver" ELSE "follow_up"
        /\ UNCHANGED <<log, answers, more, steered, followed>>
    BY <1>8 DEF DrainSteering, drain_steering, history
  <2>2. ASSUME pending' # <<>> PROVE ~(ToSet(pending') \subseteq ToSet(followed'))
    <3>1. pending' \in Seq(Msgs) /\ ToSet(pending') \subseteq ToSet(steering)
      BY <1>2, <2>1, DrainTypes DEF LoopTypes
    <3>2. ToSet(pending') # {}
      BY <2>2, <3>1, SetEmpty
    <3> QED BY <2>1, <3>1, <3>2 DEF QueueInv
  <2>3. ~more => log'[Len(log')].role # "user" /\ DoneEntry(log[Len(log)])'
    BY <1>4, <2>1 DEF FollowInv
  <2> QED BY <1>1, <2>1, <2>2, <2>3 DEF FollowInv
<1>9. CASE DrainFollowUp
  <2>1. pc = "follow_up" /\ pc' \in {"deliver", "ended"} /\ UNCHANGED <<log, answers>>
    BY <1>9 DEF DrainFollowUp
  <2>2. DoneEntry(log[Len(log)])'
    BY <1>4, <2>1 DEF FollowInv
  <2> QED BY <1>1, <2>1, <2>2 DEF FollowInv
<1>10. CASE Deliver
  <2>1. /\ pc' = "deliver" /\ pending # <<>> /\ pending' = Tail(pending)
        /\ log' = Append(log, User(Head(pending))) /\ UNCHANGED <<steered, followed>>
    BY <1>10 DEF Deliver, Announce, history
  <2>2. ASSUME pending' # <<>>, ToSet(pending') \subseteq ToSet(followed')
        PROVE  DoneEntry(log[Len(log)])'
    <3>1. pending \in Seq(Msgs) /\ Head(pending) \in Msgs /\ pending' \in Seq(Msgs)
          /\ Head(pending) \in ToSet(pending) /\ ToSet(pending') \subseteq ToSet(pending)
      BY <1>2, <2>1, SetTail DEF LoopTypes
    <3>2. ToSet(pending') # {}
      BY <2>2, <3>1, SetEmpty
    <3>3. ToSet(pending) \subseteq ToSet(followed)
      BY <2>1, <2>2, <3>1, <3>2 DEF QueueInv
    <3>4. User(Head(pending)) \in AnyEntry
      BY <3>1 DEF AnyEntry
    <3>5. log'[Len(log')] = User(Head(pending))
      BY <1>2, <2>1, <3>4, LogGrows
    <3>6. User(Head(pending)).role = "user" /\ User(Head(pending)).of = Head(pending)
      BY DEF User
    <3> QED BY <2>1, <3>1, <3>3, <3>5, <3>6 DEF DoneEntry
  <2> QED BY <1>1, <2>1, <2>2 DEF FollowInv
<1>11. CASE Answered
  <2>1. PICK stop \in {"stop", "length", "error", "aborted"}, n \in 0..MaxCalls,
             m \in {"sequential", "parallel"} : StreamEnds(stop, n, m)
    BY <1>11 DEF Answered
  <2>2. /\ log' = Append(log, Assistant(turn + 1))
        /\ answers' = Append(answers, [stop |-> stop, calls |-> n])
        /\ pc' \in {"ended", "turn_end", "truncated", "prepare"}
        /\ pc' = "turn_end" => n = 0
    BY <2>1 DEF StreamEnds
  <2>3. n \in Nat /\ turn \in Nat /\ turn + 1 \in Nat /\ answers \in Seq(AnyAnswer)
    BY <1>2, LoopAssumption DEF LoopTypes, turn
  <2>4. Assistant(turn + 1) \in AnyEntry
    BY <2>3 DEF AnyEntry
  <2>5. log'[Len(log')] = Assistant(turn + 1)
    BY <1>2, <2>2, <2>4, LogGrows
  <2>6. answers'[turn + 1].calls = n
    <3>1. [stop |-> stop, calls |-> n] \in AnyAnswer
      BY <2>3 DEF AnyAnswer
    <3>2. answers'[turn + 1] = [stop |-> stop, calls |-> n]
      BY <2>2, <2>3, <3>1, AppendProperties DEF turn
    <3> QED BY <3>2
  <2>7. Assistant(turn + 1).role = "assistant" /\ Assistant(turn + 1).of[1] = turn + 1
    BY DEF Assistant
  <2>8. n = 0 => log'[Len(log')].role # "user" /\ DoneEntry(log[Len(log)])'
    BY <2>5, <2>6, <2>7 DEF DoneEntry
  <2>9. pc' # "follow_up" /\ pc' # "deliver" /\ pc' # "start" /\ pc' # "steer"
    BY <2>2
  <2>10. pc' = "turn_end" => log'[Len(log')].role # "user" /\ DoneEntry(log[Len(log)])'
    BY <2>2, <2>8
  <2> QED BY <1>1, <2>9, <2>10 DEF FollowInv
<1>12. CASE Collect
  <2>1. turn \in Nat /\ finalized \in Nat /\ finalized >= 1 /\ context \in Seq(AnyEntry)
        /\ UNCHANGED log /\ pc' = "turn_end"
    BY <1>12 DEF Collect, CountInv, LoopInv, LoopTypes, turn
  <2>2. log = context \o Results(turn, finalized)
    BY <1>12 DEF PersistInv, Collect, Batch, Persisted
  <2>3. Len(context) \in Nat /\ Len(log) = Len(context) + finalized
        /\ \A i \in 1..finalized : log[Len(context) + i] = Result(turn, i)
    BY <2>1, <2>2, ResultsBehind
  <2>4. log'[Len(log')] = Result(turn, finalized)
    <3>1. finalized \in 1..finalized
      BY <2>1
    <3> QED BY <2>1, <2>3, <3>1
  <2>5. Result(turn, finalized).role = "result" /\ Result(turn, finalized).of[1] = turn
    BY DEF Result
  <2>6. ~more' => turn \in closed'
    BY <1>12 DEF Collect
  <2>7. ~more' => log'[Len(log')].role # "user" /\ DoneEntry(log[Len(log)])'
    BY <2>4, <2>5, <2>6 DEF DoneEntry
  <2> QED BY <1>1, <2>1, <2>7 DEF FollowInv
<1>13. CASE TurnEnd
  <2>1. pc = "turn_end" /\ pc' \in {"ended", "steer"} /\ UNCHANGED <<log, answers, more>>
    BY <1>13 DEF TurnEnd
  <2>2. ~more => log'[Len(log')].role # "user" /\ DoneEntry(log[Len(log)])'
    BY <1>4, <2>1 DEF FollowInv
  <2> QED BY <1>1, <2>1, <2>2 DEF FollowInv
<1>14. CASE DeliverFails \/ Ask \/ StreamStarts \/ LoopFails
  BY <1>5, <1>14 DEF DeliverFails, Ask, StreamStarts, LoopFails
<1>15. CASE (\E i \in 1..MaxCalls, state \in {"ready", "failed"} : Prepare(i, state))
            \/ TruncatedResult \/ Record \/ Check \/ Launch \/ Received \/ ParallelResult
  BY <1>5, <1>15 DEF Prepare, TruncatedResult, Record, Check, Launch, Received, ParallelResult
<1>16. CASE Tools \/ Receive \/ Abort \/ Over \/ UNCHANGED vars
  BY <1>6, <1>16 DEF Tools, ToolReturns, Receive, Abort, Over, vars, qvars, lvars
<1>17. CASE Others
  <2>1. UNCHANGED pending
    BY <1>17 DEF Others, Client, EnqueueSteering, EnqueueFollowUp, Restore, ClientSnapshots,
                 ClientPushes, Forwarder, MarkDelivered, ForwarderSnapshots, ForwarderPushes,
                 ForwarderStarts
  <2> QED BY <1>6, <1>17, <2>1 DEF Others, lvars
<1> QED BY <1>7, <1>8, <1>9, <1>10, <1>11, <1>12, <1>13, <1>14, <1>15, <1>16, <1>17
        DEF Next, Step

LEMMA FollowInit == Init => FollowInv
BY DEF Init, FollowInv, FollowUpsWhenDone

\* Whatever the client queues and whenever, a follow-up is put into the
\* conversation only where the agent would have stopped (run_loop).
THEOREM FollowUpsWait == Spec => []FollowUpsWhenDone
<1> DEFINE I == LoopInv /\ PersistInv /\ OrderInv /\ LastInv /\ QueueInv /\ OriginInv /\ FollowInv
<1>1. Init => I
  BY LoopInvInit, PersistInit, OrderInit, LastInit, QueueInit, OriginInit, FollowInit
<1>2. I /\ [Next]_vars => I'
  BY LoopInvStep, PersistStep, OrderStep, LastStep, QueueStep, OriginStep, FollowStep DEF
     LoopInv
<1>3. I => FollowUpsWhenDone
  BY DEF FollowInv
<1> QED BY <1>1, <1>2, <1>3, PTL DEF Spec

-----------------------------------------------------------------------------
(* The queues and what the user sees of them *)

\* Every step is a step of the queue or leaves it alone.
QueueAction ==
    \/ UNCHANGED qvars
    \/ \E m \in Msgs : EnqueueSteering(m) \/ EnqueueFollowUp(m)
    \/ Restore \/ ClientSnapshots \/ ClientPushes
    \/ drain_steering \/ drain_follow_up \/ Announce
    \/ MarkDelivered \/ ForwarderSnapshots \/ ForwarderPushes \/ ForwarderStarts

LEMMA NextIsQueueAction == ASSUME [Next]_vars PROVE QueueAction
<1> USE DEF QueueAction
<1>1. CASE Step
  BY <1>1 DEF Step, RunPrompt, DrainSteering, DrainFollowUp, Deliver, DeliverFails, Ask, Prepare,
     TruncatedResult, Record, Check, Launch, Receive, Received, ParallelResult, Collect, TurnEnd
<1>2. CASE StreamStarts \/ Answered \/ Tools \/ LoopFails \/ Abort
  BY <1>2 DEF StreamStarts, Answered, StreamEnds, Tools, ToolReturns, LoopFails, Abort
<1>3. CASE Others
  BY <1>3 DEF Others, Client, Forwarder
<1>4. CASE Over \/ UNCHANGED vars
  BY <1>4 DEF Over, vars
<1> QED BY <1>1, <1>2, <1>3, <1>4 DEF Next

LEMMA LeastOf ==
    ASSUME NEW T, T \subseteq Nat, T # {}
    PROVE  Min(T) \in T /\ \A m \in T : Min(T) <= m
<1>1. PICK x \in T : \A y \in T : ~ (<<y, x>> \in OpToRel(<, Nat))
  BY WFMin, NatLessThanWellFounded
<1>2. \A y \in T : y < x => <<y, x>> \in OpToRel(<, Nat)
  BY DEF OpToRel
<1>3. \A y \in T : ~(y < x)
  BY <1>1, <1>2, Zenon
<1>4. \A y \in T : x <= y
  BY <1>3
<1> QED BY <1>4 DEF Min

\* remove_visible takes out one entry with that text, or none if there is none.
LEMMA RemoveOne ==
    ASSUME NEW T, NEW s \in Seq(T), NEW e
    PROVE  \/ /\ RemoveFirst(s, e) = s
              /\ e \notin ToSet(s)
           \/ \E n \in DOMAIN s :
                /\ s[n] = e
                /\ RemoveFirst(s, e) \in Seq(T) /\ Len(RemoveFirst(s, e)) = Len(s) - 1
                /\ \A i \in 1..Len(s) - 1 :
                     RemoveFirst(s, e)[i] = IF i < n THEN s[i] ELSE s[i + 1]
<1>1. CASE ~ \E i \in 1..Len(s) : s[i] = e
  BY <1>1 DEF RemoveFirst, ToSet
<1>2. CASE \E i \in 1..Len(s) : s[i] = e
  <2> DEFINE I == {i \in 1..Len(s) : s[i] = e}
             n == Min(I)
  <2>1. n \in I
    <3>1. I \subseteq Nat /\ I # {}
      BY <1>2
    <3> QED BY <3>1, LeastOf
  <2>2. RemoveFirst(s, e) = SubSeq(s, 1, n - 1) \o SubSeq(s, n + 1, Len(s))
    <3>1. SelectInSeq(s, LAMBDA v : v = e) = n
      BY <1>2 DEF SelectInSeq
    <3> QED BY <1>2, <3>1 DEF RemoveFirst, RemoveAt
  <2> HIDE DEF n, I
  <2>3. n \in 1..Len(s) /\ s[n] = e /\ Len(s) \in Nat
    BY <2>1 DEF I
  <2>4. PICK a : a = SubSeq(s, 1, n - 1)
    OBVIOUS
  <2>5. PICK b : b = SubSeq(s, n + 1, Len(s))
    OBVIOUS
  <2>6. a \in Seq(T) /\ Len(a) = n - 1 /\ \A i \in 1..n - 1 : a[i] = s[i]
    BY <2>3, <2>4
  <2>7. b \in Seq(T) /\ Len(b) = Len(s) - n /\ \A i \in 1..Len(s) - n : b[i] = s[i + n]
    BY <2>3, <2>5
  <2>9. /\ a \o b \in Seq(T) /\ Len(a \o b) = Len(s) - 1
        /\ \A i \in 1..Len(s) - 1 : (a \o b)[i] = IF i < n THEN s[i] ELSE s[i + 1]
    <3>1. /\ a \o b \in Seq(T) /\ Len(a \o b) = Len(a) + Len(b)
          /\ \A i \in 1..Len(a) + Len(b) : (a \o b)[i] = IF i <= Len(a) THEN a[i] ELSE b[i - Len(a)]
      BY <2>6, <2>7, ConcatProperties
    <3>2. ASSUME NEW i \in 1..Len(s) - 1
          PROVE  (a \o b)[i] = IF i < n THEN s[i] ELSE s[i + 1]
      <4>1. CASE i < n
        BY <4>1, <3>1, <2>3, <2>6, <2>7
      <4>2. CASE ~(i < n)
        <5>1. i - (n - 1) \in 1..Len(s) - n /\ i - (n - 1) + n = i + 1 /\ ~(i <= n - 1)
          BY <4>2, <2>3
        <5>2. (a \o b)[i] = b[i - (n - 1)]
          BY <5>1, <3>1, <2>3, <2>6, <2>7
        <5> QED BY <4>2, <5>1, <5>2, <2>7
      <4> QED BY <4>1, <4>2
    <3>3. Len(a \o b) = Len(s) - 1
      BY <3>1, <2>3, <2>6, <2>7
    <3> QED BY <3>1, <3>2, <3>3, Zenon
  <2>10. RemoveFirst(s, e) = a \o b
    BY <2>2, <2>4, <2>5
  <2>8. n \in DOMAIN s
    BY <2>3
  <2> QED BY <2>3, <2>8, <2>9, <2>10
<1> QED BY <1>1, <1>2

\* The types one by one.
QueueTyped ==
    /\ steering \in Seq(Msgs) /\ follow_up \in Seq(Msgs) /\ pending \in Seq(Msgs)
    /\ starts \in Seq(Msgs) /\ started \in Seq(Msgs)
    /\ steered \in Seq(Msgs) /\ followed \in Seq(Msgs) /\ restored \in Seq(Seq(Msgs))
    /\ visible_steering \in Seq(Range(Text)) /\ visible_follow_up \in Seq(Range(Text))
    /\ client \in [at : {"idle", "snapshot", "push"}, snapshot : Updates]
    /\ forwarder \in [at : {"recv", "snapshot", "push", "start"}, msg : Msgs,
                      snapshot : Updates]
    /\ shown \in Updates

LEMMA TypedIsTypeOK == QueueTyped <=> QTypeOK
BY DEF QueueTyped, QTypeOK

LEMMA QueueTypesInit == Init => QueueTyped
<1> SUFFICES ASSUME Init PROVE QueueTyped
  OBVIOUS
<1> USE QueueAssumption DEF QueueAssumption, Init, QInit, QueueTyped, Empty, Updates
<1>1. <<Prompt>> \in Seq(Msgs)
  OBVIOUS
<1> QED BY <1>1

LEMMA TextsTyped == \A m \in Msgs : Text[m] \in Range(Text)
BY QueueAssumption DEF QueueAssumption, Range

LEMMA QueueTypesStep == ASSUME QueueTyped, [Next]_vars PROVE QueueTyped'
<1> USE DEF QueueTyped, queues, history
<1>u. /\ visible_snapshot \in Updates /\ Empty \in Updates
      /\ client.snapshot \in Updates /\ forwarder.snapshot \in Updates
  BY DEF visible_snapshot, Empty, Updates
<1>1. CASE UNCHANGED qvars
  BY <1>1 DEF qvars
<1> DEFINE C == [at : {"idle", "snapshot", "push"}, snapshot : Updates]
           F == [at : {"recv", "snapshot", "push", "start"}, msg : Msgs, snapshot : Updates]
<1>c. \A x \in {"idle", "snapshot", "push"} : [client EXCEPT !.at = x] \in C
  BY DEF C
<1>f. /\ \A x \in {"recv", "snapshot", "push", "start"} : [forwarder EXCEPT !.at = x] \in F
      /\ \A x \in {"recv", "snapshot", "push", "start"}, y \in Updates :
           [forwarder EXCEPT !.at = x, !.snapshot = y] \in F
  BY DEF F
<1>2. ASSUME NEW m \in Msgs, EnqueueSteering(m) PROVE QueueTyped'
  <2>1. client' \in C
    BY <1>2, <1>c, Zenon DEF EnqueueSteering
  <2>2. /\ steering' = Append(steering, m) /\ steered' = Append(steered, m)
        /\ visible_steering' = Append(visible_steering, Text[m])
        /\ UNCHANGED <<follow_up, visible_follow_up, pending, starts, forwarder, shown,
                       started, followed, restored>>
    BY <1>2, Zenon DEF EnqueueSteering
  <2> QED BY <2>1, <2>2, TextsTyped
<1>3. ASSUME NEW m \in Msgs, EnqueueFollowUp(m) PROVE QueueTyped'
  <2>1. client' \in C
    BY <1>3, <1>c, Zenon DEF EnqueueFollowUp
  <2>2. /\ follow_up' = Append(follow_up, m) /\ followed' = Append(followed, m)
        /\ visible_follow_up' = Append(visible_follow_up, Text[m])
        /\ UNCHANGED <<steering, visible_steering, pending, starts, forwarder, shown,
                       started, steered, restored>>
    BY <1>3, Zenon DEF EnqueueFollowUp
  <2> QED BY <2>1, <2>2, TextsTyped
<1>4. CASE Restore
  <2>1. client' \in C
    BY <1>4, <1>c, Zenon DEF Restore
  <2>2. /\ restored' = Append(restored, steering \o follow_up)
        /\ steering' = <<>> /\ follow_up' = <<>>
        /\ visible_steering' = <<>> /\ visible_follow_up' = <<>>
        /\ UNCHANGED <<pending, starts, forwarder, shown, started, steered, followed>>
    BY <1>4, Zenon DEF Restore
  <2> QED BY <2>1, <2>2
<1>5. CASE ClientSnapshots \/ ClientPushes
  <2>1. client' \in C
    <3>1. CASE ClientSnapshots
      BY <3>1, <1>u DEF ClientSnapshots, C
    <3>2. CASE ClientPushes
      BY <3>2, <1>c, Zenon DEF ClientPushes
    <3> QED BY <1>5, <3>1, <3>2
  <2>2. shown' \in Updates /\ UNCHANGED <<queues, pending, starts, forwarder, started, history>>
    BY <1>5, <1>u, Zenon DEF ClientSnapshots, ClientPushes
  <2> QED BY <2>1, <2>2
<1>6. CASE drain_steering
  BY <1>6, DrainTypes DEF drain_steering
<1>7. CASE drain_follow_up
  BY <1>7, DrainTypes DEF drain_follow_up
<1>8. CASE Announce
  BY <1>8, HeadTailProperties DEF Announce
<1>9. CASE MarkDelivered
  <2> DEFINE t == Text[Head(starts)]
  <2>1. /\ starts # <<>> /\ starts' = Tail(starts)
        /\ visible_steering' = RemoveFirst(visible_steering, t)
        /\ visible_follow_up' \in {visible_follow_up, RemoveFirst(visible_follow_up, t)}
        /\ UNCHANGED <<steering, follow_up, pending, client, shown, started, history>>
    BY <1>9 DEF MarkDelivered
  <2>2. \E at \in {"snapshot", "start"} :
           forwarder' = [forwarder EXCEPT !.msg = Head(starts), !.at = at]
    BY <1>9 DEF MarkDelivered
  <2>3. Head(starts) \in Msgs /\ Tail(starts) \in Seq(Msgs)
    BY <2>1, HeadTailProperties
  <2>4. /\ RemoveFirst(visible_steering, t) \in Seq(Range(Text))
        /\ RemoveFirst(visible_follow_up, t) \in Seq(Range(Text))
    <3> HIDE DEF t
    <3> QED BY RemoveOne
  <2> HIDE DEF t
  <2>5. forwarder' \in [at : {"recv", "snapshot", "push", "start"}, msg : Msgs,
                        snapshot : Updates]
    BY <2>2, <2>3
  <2> QED BY <2>1, <2>3, <2>4, <2>5
<1>10. CASE ForwarderSnapshots \/ ForwarderPushes
  BY <1>10, <1>u DEF ForwarderSnapshots, ForwarderPushes
<1>11. CASE ForwarderStarts
  <2>1. forwarder' \in F
    BY <1>11, <1>f, <1>u, Zenon DEF ForwarderStarts
  <2>2. /\ started' = Append(started, forwarder.msg)
        /\ UNCHANGED <<queues, pending, starts, client, shown, history>>
    BY <1>11, Zenon DEF ForwarderStarts
  <2> QED BY <2>1, <2>2
<1> QED BY NextIsQueueAction, <1>1, <1>2, <1>3, <1>4, <1>5, <1>6, <1>7, <1>8, <1>9, <1>10, <1>11
    DEF QueueAction

\* The queues, the visible queues and the two publishers keep their types.
THEOREM QueueTypes == Spec => []QTypeOK
BY QueueTypesInit, QueueTypesStep, TypedIsTypeOK, PTL DEF Spec

LEMMA ShiftOne ==
    ASSUME NEW T, NEW a \in Seq(T), NEW b \in Seq(T), b # <<>>
    PROVE  Append(a, Head(b)) \o Tail(b) = a \o b
<1>1. Head(b) \in T /\ Tail(b) \in Seq(T) /\ b = <<Head(b)>> \o Tail(b)
  OBVIOUS
<1>2. Append(a, Head(b)) = a \o <<Head(b)>> /\ <<Head(b)>> \in Seq(T)
  BY <1>1
<1> QED BY <1>1, <1>2, ConcatAssociative

LEMMA DrainSplits ==
    ASSUME NEW q \in Seq(Msgs), NEW m
    PROVE  Drained(q, m) \o Remaining(q, m) = q
<1>1. CASE q = <<>> \/ m = "all"
  BY <1>1 DEF Drained, Remaining
<1>2. CASE ~(q = <<>> \/ m = "all")
  <2>1. q = <<Head(q)>> \o Tail(q)
    BY <1>2
  <2> QED BY <1>2, <2>1 DEF Drained, Remaining
<1> QED BY <1>1, <1>2

LEMMA Associate ==
    ASSUME NEW a \in Seq(Msgs), NEW b \in Seq(Msgs), NEW c \in Seq(Msgs)
    PROVE  (a \o b) \o c = a \o (b \o c)
BY ConcatAssociative

LEMMA TakenTyped == ASSUME QueueTyped PROVE Taken \in Seq(Msgs)
BY DEF QueueTyped, Taken, Forwarding

\* The loop and the forwarder pass messages on without losing or reordering
\* one, and a drain puts the drained ones behind those taken before.
LEMMA TakenStep ==
    ASSUME QueueTyped, QueueAction
    PROVE  /\ drain_steering => Taken' = Taken \o Drained(steering, SteeringMode)
           /\ drain_follow_up => Taken' = Taken \o Drained(follow_up, FollowUpMode)
           /\ ~drain_steering /\ ~drain_follow_up => Taken' = Taken
<1>0. /\ started \in Seq(Msgs) /\ starts \in Seq(Msgs) /\ pending \in Seq(Msgs) /\ Forwarding \in Seq(Msgs)
      /\ forwarder \in [at : {"recv", "snapshot", "push", "start"}, msg : Msgs, snapshot : Updates]
  BY DEF QueueTyped, Forwarding
<1>1. Taken = started \o Forwarding \o starts \o pending /\ Taken' = started' \o Forwarding' \o starts' \o pending'
  BY DEF Taken
<1>2. ASSUME pending = <<>>, UNCHANGED <<started, starts, forwarder>>
      PROVE  pending' \in Seq(Msgs) => Taken' = Taken \o pending'
  <2>1. Taken = started \o Forwarding \o starts /\ Taken' = (started \o Forwarding \o starts) \o pending'
    BY <1>0, <1>1, <1>2 DEF Forwarding
  <2> QED BY <2>1
<1>3. ASSUME drain_steering PROVE Taken' = Taken \o Drained(steering, SteeringMode)
  BY <1>2, <1>3, DrainTypes DEF drain_steering, QueueTyped
<1>4. ASSUME drain_follow_up PROVE Taken' = Taken \o Drained(follow_up, FollowUpMode)
  BY <1>2, <1>4, DrainTypes DEF drain_follow_up, QueueTyped
<1>5. ASSUME UNCHANGED <<started, starts, forwarder, pending>> PROVE Taken' = Taken
  BY <1>1, <1>5 DEF Forwarding
<1>6. ASSUME Announce PROVE Taken' = Taken
  <2>1. /\ pending # <<>> /\ starts' = Append(starts, Head(pending)) /\ pending' = Tail(pending)
        /\ UNCHANGED <<started, forwarder>>
    BY <1>6 DEF Announce
  <2>2. started \o Forwarding \in Seq(Msgs)
    BY <1>0
  <2>3. Head(pending) \in Msgs /\ Tail(pending) \in Seq(Msgs)
    BY <1>0, <2>1, HeadTailProperties
  <2>4. starts' \o pending' = starts \o pending
    BY <1>0, <2>1, ShiftOne
  <2>5. starts' \in Seq(Msgs) /\ pending' \in Seq(Msgs) /\ Forwarding' = Forwarding
    BY <1>0, <2>1, <2>3 DEF Forwarding
  <2>6. Taken = (started \o Forwarding) \o (starts \o pending)
    <3> HIDE DEF Forwarding
    <3>1. started \o Forwarding \o starts \o pending = (started \o Forwarding) \o (starts \o pending)
      BY <1>0, <2>2, Associate
    <3> QED BY <3>1, <1>1
  <2>7. Taken' = (started \o Forwarding) \o (starts' \o pending')
    <3>1. (started \o Forwarding) \o starts' \o pending' = (started \o Forwarding) \o (starts' \o pending')
      BY <2>2, <2>5, Associate
    <3> QED BY <3>1, <1>1, <2>1, <2>5, Zenon
  <2> QED BY <2>4, <2>6, <2>7
<1>7. ASSUME MarkDelivered PROVE Taken' = Taken
  <2>1. /\ forwarder.at = "recv" /\ starts # <<>> /\ starts' = Tail(starts)
        /\ UNCHANGED <<started, pending>>
    BY <1>7 DEF MarkDelivered
  <2>2. forwarder'.at # "recv" /\ forwarder'.msg = Head(starts)
    BY <1>0, <1>7 DEF MarkDelivered
  <2>3. Forwarding = <<>> /\ Forwarding' = <<Head(starts)>>
    BY <2>1, <2>2 DEF Forwarding
  <2>4. started \o starts = Append(started, Head(starts)) \o Tail(starts)
    BY <1>0, <2>1, ShiftOne
  <2>5. Append(started, Head(starts)) = started \o <<Head(starts)>>
    <3>1. Head(starts) \in Msgs
      BY <1>0, <2>1, HeadTailProperties
    <3> QED BY <1>0, <3>1, AppendIsConcat
  <2>6. started \o <<>> = started
    BY <1>0
  <2> QED BY <1>1, <2>1, <2>3, <2>4, <2>5, <2>6
<1>8. ASSUME ForwarderSnapshots \/ ForwarderPushes PROVE Taken' = Taken
  <2>1. UNCHANGED <<started, starts, pending>> /\ forwarder'.msg = forwarder.msg
        /\ forwarder.at # "recv" /\ forwarder'.at # "recv"
    BY <1>0, <1>8 DEF ForwarderSnapshots, ForwarderPushes
  <2> QED BY <1>1, <2>1 DEF Forwarding
<1>9. ASSUME ForwarderStarts PROVE Taken' = Taken
  <2>1. /\ forwarder.at = "start" /\ forwarder'.at = "recv"
        /\ started' = Append(started, forwarder.msg) /\ UNCHANGED <<starts, pending>>
    BY <1>0, <1>9 DEF ForwarderStarts
  <2>2. Forwarding = <<forwarder.msg>> /\ Forwarding' = <<>>
    BY <2>1 DEF Forwarding
  <2>3. started' = started \o <<forwarder.msg>> /\ started' \o <<>> = started'
    BY <1>0, <2>1
  <2> QED BY <1>1, <2>1, <2>2, <2>3
<1>10. ASSUME ~drain_steering, ~drain_follow_up PROVE Taken' = Taken
  <2>1. CASE \E m \in Msgs : EnqueueSteering(m) \/ EnqueueFollowUp(m)
    BY <2>1, <1>5 DEF EnqueueSteering, EnqueueFollowUp
  <2>2. CASE UNCHANGED qvars \/ Restore \/ ClientSnapshots \/ ClientPushes
    BY <2>2, <1>5 DEF qvars, Restore, ClientSnapshots, ClientPushes
  <2> QED BY <1>6, <1>7, <1>8, <1>9, <1>10, <2>1, <2>2 DEF QueueAction
<1> QED BY <1>3, <1>4, <1>10

-----------------------------------------------------------------------------
(* Each message once and in order *)

LEMMA SetConcat ==
    ASSUME NEW a \in Seq(Msgs), NEW b \in Seq(Msgs)
    PROVE  a \o b \in Seq(Msgs) /\ ToSet(a \o b) = ToSet(a) \cup ToSet(b)
<1>1. /\ a \o b \in Seq(Msgs) /\ Len(a \o b) = Len(a) + Len(b)
      /\ \A i \in 1..Len(a) + Len(b) : (a \o b)[i] = IF i <= Len(a) THEN a[i] ELSE b[i - Len(a)]
  BY ConcatProperties
<1>2. Len(a) \in Nat /\ Len(b) \in Nat /\ DOMAIN a = 1..Len(a) /\ DOMAIN b = 1..Len(b)
      /\ DOMAIN (a \o b) = 1..Len(a) + Len(b)
  BY <1>1, LenProperties
<1>3. ToSet(a \o b) \subseteq ToSet(a) \cup ToSet(b)
  BY <1>1, <1>2 DEF ToSet
<1>4. ASSUME NEW i \in DOMAIN a PROVE a[i] \in ToSet(a \o b)
  BY <1>1, <1>2 DEF ToSet
<1>5. ASSUME NEW i \in DOMAIN b PROVE b[i] \in ToSet(a \o b)
  <2>1. Len(a) + i \in 1..Len(a) + Len(b) /\ (a \o b)[Len(a) + i] = b[i]
    BY <1>1, <1>2
  <2> QED BY <1>2, <2>1 DEF ToSet
<1>6. ToSet(a) \subseteq ToSet(a \o b) /\ ToSet(b) \subseteq ToSet(a \o b)
  BY <1>4, <1>5 DEF ToSet
<1> QED BY <1>1, <1>3, <1>6

\* The messages of A come in q before those of B.
Ahead(A, B, q) == \A k, l \in DOMAIN q : q[k] \in A /\ q[l] \in B => k < l

LEMMA OrderConcat ==
    ASSUME NEW a \in Seq(Msgs), NEW b \in Seq(Msgs), NEW q
    PROVE  InOrder(a \o b, q) <=> InOrder(a, q) /\ InOrder(b, q) /\ Ahead(ToSet(a), ToSet(b), q)
<1>1. /\ Len(a \o b) = Len(a) + Len(b)
      /\ \A i \in 1..Len(a) + Len(b) : (a \o b)[i] = IF i <= Len(a) THEN a[i] ELSE b[i - Len(a)]
  BY ConcatProperties
<1>2. /\ Len(a) \in Nat /\ Len(b) \in Nat /\ DOMAIN a = 1..Len(a) /\ DOMAIN b = 1..Len(b)
      /\ DOMAIN (a \o b) = 1..Len(a) + Len(b)
  BY <1>1, LenProperties
<1>3. ASSUME NEW i \in DOMAIN b
      PROVE  Len(a) + i \in DOMAIN (a \o b) /\ (a \o b)[Len(a) + i] = b[i]
  BY <1>1, <1>2
<1>4. ASSUME NEW i \in DOMAIN a
      PROVE  i \in DOMAIN (a \o b) /\ (a \o b)[i] = a[i]
  BY <1>1, <1>2
<1>5. ASSUME InOrder(a \o b, q)
      PROVE  InOrder(a, q) /\ InOrder(b, q) /\ Ahead(ToSet(a), ToSet(b), q)
  <2>1. InOrder(a, q)
    BY <1>4, <1>5 DEF InOrder
  <2>2. InOrder(b, q)
    <3>1. ASSUME NEW i \in DOMAIN b, NEW j \in DOMAIN b, i < j PROVE Len(a) + i < Len(a) + j
      BY <1>2, <3>1
    <3> QED BY <1>3, <1>5, <3>1 DEF InOrder
  <2>3. ASSUME NEW k \in DOMAIN q, NEW l \in DOMAIN q, q[k] \in ToSet(a), q[l] \in ToSet(b)
        PROVE  k < l
    <3>1. PICK i \in DOMAIN a : a[i] = q[k]
      BY <2>3 DEF ToSet
    <3>2. PICK j \in DOMAIN b : b[j] = q[l]
      BY <2>3 DEF ToSet
    <3>3. i < Len(a) + j
      BY <1>2
    <3> QED BY <1>3, <1>4, <1>5, <3>1, <3>2, <3>3 DEF InOrder
  <2> QED BY <2>1, <2>2, <2>3 DEF Ahead
<1>6. ASSUME InOrder(a, q), InOrder(b, q), Ahead(ToSet(a), ToSet(b), q),
             NEW i \in DOMAIN (a \o b), NEW j \in DOMAIN (a \o b),
             NEW k \in DOMAIN q, NEW l \in DOMAIN q,
             i < j, (a \o b)[i] = q[k], (a \o b)[j] = q[l]
      PROVE  k < l
  <2>1. CASE j <= Len(a)
    <3>1. i \in DOMAIN a /\ j \in DOMAIN a /\ a[i] = q[k] /\ a[j] = q[l]
      BY <1>1, <1>2, <1>6, <2>1
    <3> QED BY <1>6, <3>1 DEF InOrder
  <2>2. CASE i > Len(a)
    <3>1. /\ i - Len(a) \in DOMAIN b /\ j - Len(a) \in DOMAIN b /\ i - Len(a) < j - Len(a)
          /\ b[i - Len(a)] = q[k] /\ b[j - Len(a)] = q[l]
      BY <1>1, <1>2, <1>6, <2>2
    <3> QED BY <1>6, <3>1 DEF InOrder
  <2>3. CASE i <= Len(a) /\ ~(j <= Len(a))
    <3>1. i \in DOMAIN a /\ j - Len(a) \in DOMAIN b /\ a[i] = q[k] /\ b[j - Len(a)] = q[l]
      BY <1>1, <1>2, <1>6, <2>3
    <3>2. q[k] \in ToSet(a) /\ q[l] \in ToSet(b)
      BY <3>1 DEF ToSet
    <3> QED BY <1>6, <3>2 DEF Ahead
  <2>4. i \in Nat /\ j \in Nat
    BY <1>2
  <2> QED BY <1>2, <2>1, <2>2, <2>3, <2>4
<1> QED BY <1>5, <1>6 DEF InOrder

\* Messages of another queue may come anywhere.
LEMMA OrderForeign ==
    ASSUME NEW a \in Seq(Msgs), NEW b \in Seq(Msgs), NEW c \in Seq(Msgs), NEW q \in Seq(Msgs),
           ToSet(b) \cap ToSet(q) = {}, InOrder(a \o c, q)
    PROVE  InOrder((a \o b) \o c, q)
<1>1. InOrder(a, q) /\ InOrder(c, q) /\ Ahead(ToSet(a), ToSet(c), q)
  BY OrderConcat
<1>2. \A k \in DOMAIN q : q[k] \notin ToSet(b)
  BY DEF ToSet
<1>3. InOrder(b, q)
  BY <1>2 DEF InOrder, ToSet
<1>4. a \o b \in Seq(Msgs) /\ ToSet(a \o b) = ToSet(a) \cup ToSet(b)
  BY SetConcat
<1>5. InOrder(a \o b, q)
  BY <1>1, <1>2, <1>3, OrderConcat DEF Ahead
<1>6. Ahead(ToSet(a \o b), ToSet(c), q)
  BY <1>1, <1>2, <1>4 DEF Ahead
<1> QED BY <1>1, <1>4, <1>5, <1>6, OrderConcat

\* A new message is the last one of its queue.
LEMMA OrderGrows ==
    ASSUME NEW a \in Seq(Msgs), NEW q \in Seq(Msgs), NEW m \in Msgs,
           m \notin ToSet(a), m \notin ToSet(q), InOrder(a, q)
    PROVE  InOrder(a, Append(q, m)) /\ InOrder(Append(a, m), Append(q, m))
<1>1. /\ Len(q) \in Nat /\ DOMAIN q = 1..Len(q) /\ DOMAIN Append(q, m) = 1..Len(q) + 1
      /\ \A k \in 1..Len(q) : Append(q, m)[k] = q[k]
      /\ Append(q, m)[Len(q) + 1] = m
  BY LenProperties, AppendProperties
<1>2. \A i \in DOMAIN a : a[i] # m
  BY DEF ToSet
<1>3. ASSUME NEW i \in DOMAIN a, NEW k \in DOMAIN Append(q, m), Append(q, m)[k] = a[i]
      PROVE  k \in DOMAIN q /\ q[k] = a[i]
  BY <1>1, <1>2, <1>3
<1>4. InOrder(a, Append(q, m))
  BY <1>3 DEF InOrder
<1>5. <<m>> \in Seq(Msgs) /\ ToSet(<<m>>) = {m} /\ InOrder(<<m>>, Append(q, m))
  <2>1. <<m>> \in Seq(Msgs) /\ DOMAIN <<m>> = {1} /\ <<m>>[1] = m
    OBVIOUS
  <2>2. ~(1 < 1)
    OBVIOUS
  <2>3. ToSet(<<m>>) = {m}
    BY <2>1 DEF ToSet
  <2> QED BY <2>1, <2>2, <2>3 DEF InOrder
<1>6. Ahead(ToSet(a), {m}, Append(q, m))
  <2>1. ASSUME NEW k \in DOMAIN Append(q, m), NEW l \in DOMAIN Append(q, m),
               Append(q, m)[k] \in ToSet(a), Append(q, m)[l] = m
        PROVE  k < l
    <3>1. k \in 1..Len(q)
      BY <1>1, <2>1
    <3>2. l = Len(q) + 1
      <4>1. \A n \in 1..Len(q) : q[n] # m
        BY <1>1 DEF ToSet
      <4> QED BY <1>1, <2>1, <4>1
    <3> QED BY <1>1, <3>1, <3>2
  <2> QED BY <2>1 DEF Ahead
<1>7. Append(a, m) = a \o <<m>>
  BY AppendIsConcat
<1>8. InOrder(a \o <<m>>, Append(q, m))
  BY <1>4, <1>5, <1>6, OrderConcat
<1> QED BY <1>4, <1>7, <1>8

\* A message of q that is in order comes once.
LEMMA OrderOnce ==
    ASSUME NEW a \in Seq(Msgs), NEW b \in Seq(Msgs), NEW q \in Seq(Msgs), InOrder(a \o b, q),
           ToSet(b) \subseteq ToSet(q)
    PROVE  ToSet(a) \cap ToSet(b) = {} /\ \A i, j \in DOMAIN b : b[i] = b[j] => i = j
<1>0. Len(q) \in Nat /\ DOMAIN q = 1..Len(q) /\ Len(b) \in Nat /\ DOMAIN b = 1..Len(b)
  BY LenProperties
<1>1. InOrder(b, q) /\ Ahead(ToSet(a), ToSet(b), q)
  BY OrderConcat
<1>2. ASSUME NEW x \in ToSet(a), x \in ToSet(b) PROVE FALSE
  <2>1. PICK k \in DOMAIN q : q[k] = x
    BY <1>2 DEF ToSet
  <2>2. k < k
    BY <1>1, <1>2, <2>1 DEF Ahead
  <2> QED BY <1>0, <2>2
<1>3. ASSUME NEW i \in DOMAIN b, NEW j \in DOMAIN b, b[i] = b[j], i < j PROVE FALSE
  <2>1. PICK k \in DOMAIN q : q[k] = b[i]
    BY DEF ToSet
  <2>2. k < k
    BY <1>1, <1>3, <2>1 DEF InOrder
  <2> QED BY <1>0, <2>2
<1>4. ASSUME NEW i \in DOMAIN b, NEW j \in DOMAIN b, b[i] = b[j] PROVE i = j
  BY <1>0, <1>3, <1>4
<1> QED BY <1>2, <1>4

\* What a step does to the messages, one case per kind of step.
LEMMA MessageCases ==
    ASSUME QueueTyped, QueueAction
    PROVE  \/ \E m \in Msgs : /\ m \notin Queued \cup {Prompt}
                              /\ steering' = Append(steering, m) /\ steered' = Append(steered, m)
                              /\ UNCHANGED <<Taken, follow_up, followed, restored>>
           \/ \E m \in Msgs : /\ m \notin Queued \cup {Prompt}
                              /\ follow_up' = Append(follow_up, m) /\ followed' = Append(followed, m)
                              /\ UNCHANGED <<Taken, steering, steered, restored>>
           \/ /\ restored' = Append(restored, steering \o follow_up)
              /\ steering' = <<>> /\ follow_up' = <<>>
              /\ UNCHANGED <<Taken, steered, followed>>
           \/ /\ Taken' = Taken \o Drained(steering, SteeringMode)
              /\ steering' = Remaining(steering, SteeringMode)
              /\ UNCHANGED <<follow_up, steered, followed, restored>>
           \/ /\ Taken' = Taken \o Drained(follow_up, FollowUpMode)
              /\ follow_up' = Remaining(follow_up, FollowUpMode)
              /\ UNCHANGED <<steering, steered, followed, restored>>
           \/ UNCHANGED <<Taken, steering, follow_up, steered, followed, restored>>
<1>1. CASE drain_steering
  <2>1. /\ steering' = Remaining(steering, SteeringMode)
        /\ UNCHANGED <<follow_up, steered, followed, restored>>
    BY <1>1 DEF drain_steering, history
  <2> QED BY <1>1, <2>1, TakenStep
<1>2. CASE drain_follow_up
  <2>1. /\ follow_up' = Remaining(follow_up, FollowUpMode)
        /\ UNCHANGED <<steering, steered, followed, restored>>
    BY <1>2 DEF drain_follow_up, history
  <2> QED BY <1>2, <2>1, TakenStep
<1>3. CASE ~drain_steering /\ ~drain_follow_up
  <2>1. Taken' = Taken
    BY <1>3, TakenStep
  <2>2. CASE \E m \in Msgs : EnqueueSteering(m) \/ EnqueueFollowUp(m)
    BY <2>1, <2>2, Zenon DEF EnqueueSteering, EnqueueFollowUp
  <2>3. CASE Restore
    BY <2>1, <2>3, Zenon DEF Restore
  <2>4. CASE UNCHANGED qvars \/ ClientSnapshots \/ ClientPushes \/ Announce \/ MarkDelivered
             \/ ForwarderSnapshots \/ ForwarderPushes \/ ForwarderStarts
    <3>1. UNCHANGED <<steering, follow_up, steered, followed, restored>>
      BY <2>4, Zenon DEF qvars, ClientSnapshots, ClientPushes, Announce, MarkDelivered,
         ForwarderSnapshots, ForwarderPushes, ForwarderStarts, queues, history
    <3> QED BY <2>1, <3>1
  <2> QED BY <1>3, <2>2, <2>3, <2>4 DEF QueueAction
<1> QED BY <1>1, <1>2, <1>3

OnceInv == QueueTyped /\ QueueInv /\ ToSet(Taken) \subseteq Queued \cup {Prompt} /\ EachOnceInOrder

\* The parts of EachOnceInOrder, with sets in place of concatenations.
Waiting == ToSet(steering) \cup ToSet(follow_up)
HandedOnce ==
    \A r, t \in DOMAIN restored : \A i \in DOMAIN restored[r], j \in DOMAIN restored[t] :
         restored[r][i] = restored[t][j] => r = t /\ i = j

OnceParts ==
    /\ ToSet(Taken) \subseteq Queued \cup {Prompt}
    /\ Queued \subseteq ToSet(Taken) \cup Waiting \cup Back
    /\ Back \subseteq Queued \ (ToSet(Taken) \cup Waiting)
    /\ InOrder(Taken \o steering, steered) /\ InOrder(Taken \o follow_up, followed)
    /\ HandedOnce

LEMMA OnceByParts ==
    ASSUME QueueTyped, QueueInv PROVE OnceInv <=> OnceParts
<1>1. Taken \in Seq(Msgs) /\ steering \in Seq(Msgs) /\ follow_up \in Seq(Msgs)
  BY TakenTyped DEF QueueTyped
<1>2. ToSet(Taken \o steering) = ToSet(Taken) \cup ToSet(steering) /\ Taken \o steering \in Seq(Msgs)
  BY <1>1, SetConcat
<1>3. ToSet((Taken \o steering) \o follow_up) = ToSet(Taken) \cup ToSet(steering) \cup ToSet(follow_up)
  BY <1>1, <1>2, SetConcat
<1> QED BY <1>3 DEF OnceInv, OnceParts, EachOnceInOrder, QueueInv, HandedOnce, Waiting

LEMMA AppendBehind ==
    ASSUME NEW a \in Seq(Msgs), NEW b \in Seq(Msgs), NEW m \in Msgs
    PROVE  Append(a \o b, m) = a \o Append(b, m)
<1>1. <<m>> \in Seq(Msgs) /\ a \o b \in Seq(Msgs)
  OBVIOUS
<1>2. Append(a \o b, m) = (a \o b) \o <<m>> /\ Append(b, m) = b \o <<m>>
  BY <1>1, AppendIsConcat
<1> QED BY <1>1, <1>2, Associate

\* What is handed back is added to what was handed back before.
LEMMA BackGrows ==
    ASSUME QueueTyped, NEW x \in Seq(Msgs), restored' = Append(restored, x)
    PROVE  Back' = Back \cup ToSet(x)
<1>1. /\ restored \in Seq(Seq(Msgs)) /\ Len(restored) \in Nat /\ DOMAIN restored = 1..Len(restored)
      /\ DOMAIN restored' = 1..Len(restored) + 1
      /\ restored'[Len(restored) + 1] = x
      /\ \A i \in 1..Len(restored) : restored'[i] = restored[i]
  BY AppendProperties, LenProperties DEF QueueTyped
<1>2. ToSet(restored') = ToSet(restored) \cup {x}
  BY <1>1 DEF ToSet
<1> QED BY <1>2 DEF Back

\* What is handed back comes once, if it is in no queue afterwards.
LEMMA HandedGrows ==
    ASSUME QueueTyped, HandedOnce, NEW x \in Seq(Msgs), restored' = Append(restored, x),
           ToSet(x) \cap Back = {}, \A i, j \in DOMAIN x : x[i] = x[j] => i = j
    PROVE  HandedOnce'
<1>1. /\ restored \in Seq(Seq(Msgs)) /\ Len(restored) \in Nat /\ DOMAIN restored = 1..Len(restored)
      /\ DOMAIN restored' = 1..Len(restored) + 1
      /\ restored'[Len(restored) + 1] = x
      /\ \A i \in 1..Len(restored) : restored'[i] = restored[i]
  BY AppendProperties, LenProperties DEF QueueTyped
<1>2. ASSUME NEW r \in DOMAIN restored, NEW i \in DOMAIN restored[r] PROVE restored[r][i] \in Back
  <2>1. restored[r][i] \in ToSet(restored[r]) /\ restored[r] \in ToSet(restored)
    BY DEF ToSet
  <2> QED BY <2>1 DEF Back
<1>3. \A i \in DOMAIN x : x[i] \notin Back
  BY DEF ToSet
<1>4. ASSUME NEW r \in DOMAIN restored', NEW t \in DOMAIN restored',
             NEW i \in DOMAIN restored'[r], NEW j \in DOMAIN restored'[t],
             restored'[r][i] = restored'[t][j]
      PROVE  r = t /\ i = j
  <2>1. CASE r \in DOMAIN restored /\ t \in DOMAIN restored
    <3>1. restored'[r] = restored[r] /\ restored'[t] = restored[t]
      BY <1>1, <2>1
    <3> QED BY <1>4, <2>1, <3>1 DEF HandedOnce
  <2>2. CASE r \notin DOMAIN restored /\ t \notin DOMAIN restored
    <3>1. r = Len(restored) + 1 /\ t = Len(restored) + 1
      BY <1>1, <2>2
    <3>2. restored'[r] = x /\ restored'[t] = x
      BY <1>1, <3>1
    <3> QED BY <1>4, <3>1, <3>2
  <2>3. CASE r \in DOMAIN restored /\ t \notin DOMAIN restored
    <3>1. restored'[r] = restored[r] /\ restored'[t] = x
      BY <1>1, <2>3
    <3> QED BY <1>2, <1>3, <1>4, <2>3, <3>1
  <2>4. CASE r \notin DOMAIN restored /\ t \in DOMAIN restored
    <3>1. restored'[t] = restored[t] /\ restored'[r] = x
      BY <1>1, <2>4
    <3> QED BY <1>2, <1>3, <1>4, <2>4, <3>1
  <2> QED BY <2>1, <2>2, <2>3, <2>4
<1> QED BY <1>4 DEF HandedOnce

LEMMA ConcatOnce ==
    ASSUME NEW a \in Seq(Msgs), NEW b \in Seq(Msgs), ToSet(a) \cap ToSet(b) = {},
           \A i, j \in DOMAIN a : a[i] = a[j] => i = j,
           \A i, j \in DOMAIN b : b[i] = b[j] => i = j
    PROVE  \A i, j \in DOMAIN (a \o b) : (a \o b)[i] = (a \o b)[j] => i = j
<1>1. /\ Len(a) \in Nat /\ Len(b) \in Nat /\ DOMAIN a = 1..Len(a) /\ DOMAIN b = 1..Len(b)
      /\ DOMAIN (a \o b) = 1..Len(a) + Len(b)
      /\ \A i \in 1..Len(a) + Len(b) : (a \o b)[i] = IF i <= Len(a) THEN a[i] ELSE b[i - Len(a)]
  BY ConcatProperties, LenProperties
<1>2. \A i \in DOMAIN a, j \in DOMAIN b : a[i] # b[j]
  BY DEF ToSet
<1>3. ASSUME NEW i \in DOMAIN (a \o b), NEW j \in DOMAIN (a \o b), (a \o b)[i] = (a \o b)[j]
      PROVE  i = j
  <2>1. CASE i <= Len(a) /\ j <= Len(a)
    <3>1. i \in DOMAIN a /\ j \in DOMAIN a /\ a[i] = a[j]
      BY <1>1, <1>3, <2>1
    <3> QED BY <3>1
  <2>2. CASE ~(i <= Len(a)) /\ ~(j <= Len(a))
    <3>1. i - Len(a) \in DOMAIN b /\ j - Len(a) \in DOMAIN b /\ b[i - Len(a)] = b[j - Len(a)]
      BY <1>1, <1>3, <2>2
    <3>2. i - Len(a) = j - Len(a)
      BY <3>1
    <3> QED BY <1>1, <3>2
  <2>3. CASE i <= Len(a) /\ ~(j <= Len(a))
    <3>1. i \in DOMAIN a /\ j - Len(a) \in DOMAIN b /\ a[i] = b[j - Len(a)]
      BY <1>1, <1>3, <2>3
    <3> QED BY <1>2, <3>1
  <2>4. CASE ~(i <= Len(a)) /\ j <= Len(a)
    <3>1. j \in DOMAIN a /\ i - Len(a) \in DOMAIN b /\ a[j] = b[i - Len(a)]
      BY <1>1, <1>3, <2>4
    <3> QED BY <1>2, <3>1
  <2> QED BY <2>1, <2>2, <2>3, <2>4
<1> QED BY <1>3

\* A drain puts the first messages of a queue behind those taken before.
LEMMA DrainBehind ==
    ASSUME NEW s \in Seq(Msgs), NEW q \in Seq(Msgs), NEW m
    PROVE  /\ (s \o Drained(q, m)) \o Remaining(q, m) = s \o q
           /\ ToSet(s \o Drained(q, m)) = ToSet(s) \cup ToSet(Drained(q, m))
           /\ ToSet(q) = ToSet(Drained(q, m)) \cup ToSet(Remaining(q, m))
           /\ Drained(q, m) \in Seq(Msgs)
<1>1. PICK d \in Seq(Msgs) : d = Drained(q, m)
  BY DrainTypes
<1>2. PICK r \in Seq(Msgs) : r = Remaining(q, m)
  BY DrainTypes
<1>3. d \o r = q
  BY <1>1, <1>2, DrainSplits
<1>4. (s \o d) \o r = s \o (d \o r)
  BY Associate
<1>5. ToSet(s \o d) = ToSet(s) \cup ToSet(d) /\ ToSet(d \o r) = ToSet(d) \cup ToSet(r)
  BY SetConcat
<1> QED BY <1>1, <1>2, <1>3, <1>4, <1>5

\* Queueing, draining and handing back lose no message and repeat none.
LEMMA OncePartsStep ==
    ASSUME QueueTyped, QueueInv, OnceParts, QueueTyped', QueueInv', QueueAction
    PROVE  OnceParts'
<1>t. /\ Taken \in Seq(Msgs) /\ steering \in Seq(Msgs) /\ follow_up \in Seq(Msgs)
      /\ steered \in Seq(Msgs) /\ followed \in Seq(Msgs)
  BY TakenTyped DEF QueueTyped
<1>q. /\ ToSet(steering) \subseteq ToSet(steered) /\ ToSet(follow_up) \subseteq ToSet(followed)
      /\ ToSet(steered) \cap ToSet(followed) = {} /\ Prompt \notin Queued
      /\ Queued = ToSet(steered) \cup ToSet(followed)
  BY DEF QueueInv, Queued
<1>p. /\ ToSet(Taken) \subseteq Queued \cup {Prompt}
      /\ Queued \subseteq ToSet(Taken) \cup ToSet(steering) \cup ToSet(follow_up) \cup Back
      /\ Back \subseteq Queued \ (ToSet(Taken) \cup ToSet(steering) \cup ToSet(follow_up))
      /\ InOrder(Taken \o steering, steered) /\ InOrder(Taken \o follow_up, followed)
      /\ HandedOnce
  BY DEF OnceParts, Waiting
<1>g. ASSUME /\ ToSet(Taken') \subseteq Queued' \cup {Prompt}
             /\ Queued' \subseteq ToSet(Taken') \cup ToSet(steering') \cup ToSet(follow_up') \cup Back'
             /\ Back' \subseteq Queued' \ (ToSet(Taken') \cup ToSet(steering') \cup ToSet(follow_up'))
             /\ InOrder(Taken' \o steering', steered') /\ InOrder(Taken' \o follow_up', followed')
             /\ HandedOnce'
      PROVE  OnceParts'
  BY <1>g DEF OnceParts, Waiting
<1>b. restored' = restored => Back' = Back /\ HandedOnce' = HandedOnce
  BY DEF Back, HandedOnce
<1>1. ASSUME NEW m \in Msgs, m \notin Queued \cup {Prompt},
             steering' = Append(steering, m), steered' = Append(steered, m),
             UNCHANGED <<Taken, follow_up, followed, restored>>
      PROVE  OnceParts'
  <2>1. /\ ToSet(steering') = ToSet(steering) \cup {m} /\ ToSet(steered') = ToSet(steered) \cup {m}
        /\ Queued' = Queued \cup {m}
    BY <1>t, <1>q, <1>1, SetAppend DEF Queued
  <2>2. m \notin ToSet(Taken) /\ m \notin ToSet(steering) /\ m \notin ToSet(steered)
    BY <1>1, <1>p, <1>q
  <2>3. Taken \o steering \in Seq(Msgs) /\ m \notin ToSet(Taken \o steering)
    BY <1>t, <2>2, SetConcat
  <2>4. InOrder(Append(Taken \o steering, m), Append(steered, m))
    BY <1>t, <1>p, <2>2, <2>3, OrderGrows
  <2>5. InOrder(Taken' \o steering', steered')
    BY <1>t, <1>1, <2>4, AppendBehind
  <2>6. ToSet(Taken') = ToSet(Taken)
    BY <1>1 DEF ToSet
  <2> QED BY <1>1, <1>b, <1>p, <1>q, <1>g, <2>1, <2>2, <2>5, <2>6
<1>2. ASSUME NEW m \in Msgs, m \notin Queued \cup {Prompt},
             follow_up' = Append(follow_up, m), followed' = Append(followed, m),
             UNCHANGED <<Taken, steering, steered, restored>>
      PROVE  OnceParts'
  <2>1. /\ ToSet(follow_up') = ToSet(follow_up) \cup {m}
        /\ ToSet(followed') = ToSet(followed) \cup {m} /\ Queued' = Queued \cup {m}
    BY <1>t, <1>q, <1>2, SetAppend DEF Queued
  <2>2. m \notin ToSet(Taken) /\ m \notin ToSet(follow_up) /\ m \notin ToSet(followed)
    BY <1>2, <1>p, <1>q
  <2>3. Taken \o follow_up \in Seq(Msgs) /\ m \notin ToSet(Taken \o follow_up)
    BY <1>t, <2>2, SetConcat
  <2>4. InOrder(Append(Taken \o follow_up, m), Append(followed, m))
    BY <1>t, <1>p, <2>2, <2>3, OrderGrows
  <2>5. InOrder(Taken' \o follow_up', followed')
    BY <1>t, <1>2, <2>4, AppendBehind
  <2>6. ToSet(Taken') = ToSet(Taken)
    BY <1>2 DEF ToSet
  <2> QED BY <1>2, <1>b, <1>p, <1>q, <1>g, <2>1, <2>2, <2>5, <2>6
<1>o. /\ ToSet(Taken) \cap ToSet(steering) = {} /\ ToSet(Taken) \cap ToSet(follow_up) = {}
      /\ \A i, j \in DOMAIN steering : steering[i] = steering[j] => i = j
      /\ \A i, j \in DOMAIN follow_up : follow_up[i] = follow_up[j] => i = j
  BY <1>t, <1>q, <1>p, OrderOnce
<1>3. ASSUME restored' = Append(restored, steering \o follow_up),
             steering' = <<>>, follow_up' = <<>>, UNCHANGED <<Taken, steered, followed>>
      PROVE  OnceParts'
  <2>1. /\ steering \o follow_up \in Seq(Msgs)
        /\ ToSet(steering \o follow_up) = ToSet(steering) \cup ToSet(follow_up)
    BY <1>t, SetConcat
  <2>2. Back' = Back \cup ToSet(steering) \cup ToSet(follow_up)
    BY <1>3, <2>1, BackGrows
  <2>3. HandedOnce'
    <3>1. ToSet(steering) \cap ToSet(follow_up) = {}
      BY <1>q
    <3>2. \A i, j \in DOMAIN (steering \o follow_up) :
             (steering \o follow_up)[i] = (steering \o follow_up)[j] => i = j
      BY <1>t, <1>o, <3>1, ConcatOnce
    <3>3. ToSet(steering \o follow_up) \cap Back = {}
      BY <1>p, <2>1
    <3> QED BY <1>3, <1>p, <2>1, <3>2, <3>3, HandedGrows
  <2>4. /\ Queued' = Queued /\ ToSet(Taken') = ToSet(Taken) /\ ToSet(steering') = {} /\ ToSet(follow_up') = {}
    BY <1>3 DEF ToSet, Queued
  <2>5. InOrder(Taken' \o steering', steered') /\ InOrder(Taken' \o follow_up', followed')
    <3>1. InOrder(Taken, steered) /\ InOrder(Taken, followed)
      BY <1>t, <1>p, OrderConcat
    <3>2. Taken \o <<>> = Taken
      BY <1>t
    <3> QED BY <1>3, <3>1, <3>2
  <2> QED BY <1>p, <1>q, <1>o, <1>g, <2>2, <2>3, <2>4, <2>5
<1>4. ASSUME NEW q \in Seq(Msgs), NEW m
      PROVE  /\ (Taken \o Drained(q, m)) \o Remaining(q, m) = Taken \o q
             /\ ToSet(Taken \o Drained(q, m)) = ToSet(Taken) \cup ToSet(Drained(q, m))
             /\ ToSet(q) = ToSet(Drained(q, m)) \cup ToSet(Remaining(q, m))
             /\ Drained(q, m) \in Seq(Msgs)
  BY <1>t, DrainBehind
<1>5. ASSUME Taken' = Taken \o Drained(steering, SteeringMode),
             steering' = Remaining(steering, SteeringMode),
             UNCHANGED <<follow_up, steered, followed, restored>>
      PROVE  OnceParts'
  <2>1. /\ ToSet(Taken') = ToSet(Taken) \cup ToSet(Drained(steering, SteeringMode))
        /\ ToSet(steering) = ToSet(Drained(steering, SteeringMode)) \cup ToSet(steering')
        /\ Taken' \o steering' = Taken \o steering
        /\ Drained(steering, SteeringMode) \in Seq(Msgs)
    BY <1>t, <1>4, <1>5
  <2>2. InOrder(Taken' \o steering', steered')
    BY <1>p, <1>5, <2>1
  <2>3. ToSet(Drained(steering, SteeringMode)) \cap ToSet(followed) = {}
    BY <1>q, <2>1
  <2>4. InOrder(Taken' \o follow_up', followed')
    BY <1>t, <1>p, <1>5, <2>1, <2>3, OrderForeign
  <2>5. Queued' = Queued /\ follow_up' = follow_up
    BY <1>5 DEF Queued
  <2> QED BY <1>b, <1>5, <1>p, <1>q, <1>g, <2>1, <2>2, <2>4, <2>5
<1>6. ASSUME Taken' = Taken \o Drained(follow_up, FollowUpMode),
             follow_up' = Remaining(follow_up, FollowUpMode),
             UNCHANGED <<steering, steered, followed, restored>>
      PROVE  OnceParts'
  <2>1. /\ ToSet(Taken') = ToSet(Taken) \cup ToSet(Drained(follow_up, FollowUpMode))
        /\ ToSet(follow_up) = ToSet(Drained(follow_up, FollowUpMode)) \cup ToSet(follow_up')
        /\ Taken' \o follow_up' = Taken \o follow_up
        /\ Drained(follow_up, FollowUpMode) \in Seq(Msgs)
    BY <1>t, <1>4, <1>6
  <2>2. InOrder(Taken' \o follow_up', followed')
    BY <1>p, <1>6, <2>1
  <2>3. ToSet(Drained(follow_up, FollowUpMode)) \cap ToSet(steered) = {}
    BY <1>q, <2>1
  <2>4. InOrder(Taken' \o steering', steered')
    BY <1>t, <1>p, <1>6, <2>1, <2>3, OrderForeign
  <2>5. Queued' = Queued /\ steering' = steering
    BY <1>6 DEF Queued
  <2> QED BY <1>b, <1>6, <1>p, <1>q, <1>g, <2>1, <2>2, <2>4, <2>5
<1>7. ASSUME UNCHANGED <<Taken, steering, follow_up, steered, followed, restored>>
      PROVE  OnceParts'
  BY <1>7 DEF OnceParts, Waiting, Queued, Back, HandedOnce
<1> QED BY MessageCases, <1>1, <1>2, <1>3, <1>5, <1>6, <1>7

LEMMA OnceInit == Init => OnceInv
<1> SUFFICES ASSUME Init PROVE OnceInv
  OBVIOUS
<1>1. QueueTyped /\ QueueInv
  BY QueueTypesInit, QueueInit
<1>2. /\ starts = <<Prompt>> /\ started = <<>> /\ pending = <<>> /\ steering = <<>> /\ follow_up = <<>>
      /\ forwarder.at = "recv" /\ restored = <<>> /\ steered = <<>> /\ followed = <<>>
  BY DEF Init, QInit
<1>3. Taken = <<Prompt>> /\ Taken \in Seq(Msgs)
  <2>1. Forwarding = <<>>
    BY <1>2 DEF Forwarding
  <2>2. Prompt \in Msgs
    BY QueueAssumption DEF QueueAssumption
  <2> QED BY <1>2, <2>1, <2>2 DEF Taken
<1>4. /\ ToSet(<<>>) = {} /\ ToSet(Taken) = {Prompt}
  BY <1>3 DEF ToSet
<1>5. /\ Queued = {} /\ Waiting = {} /\ Back = {} /\ HandedOnce
  BY <1>2, <1>4 DEF Queued, Waiting, Back, HandedOnce
<1>6. \A s : InOrder(s, <<>>)
  BY DEF InOrder
<1>7. OnceParts
  BY <1>2, <1>4, <1>5, <1>6 DEF OnceParts
<1> QED BY <1>1, <1>7, OnceByParts

LEMMA OnceStep == ASSUME LoopTypes, OnceInv, [Next]_vars PROVE OnceInv'
<1>1. QueueTyped' /\ QueueInv'
  BY QueueTypesStep, QueueStep DEF OnceInv
<1>2. QueueAction
  BY NextIsQueueAction
<1>3. OnceParts'
  BY <1>1, <1>2, OncePartsStep, OnceByParts DEF OnceInv
<1>4. OnceInv' <=> OnceParts'
  BY <1>1, OnceByParts, PTL
<1> QED BY <1>3, <1>4

\* However the client's calls, the loop's drains and the forwarder's events
\* interleave, no queued message is lost, delivered twice, handed back twice or
\* both delivered and handed back, and each queue keeps its order (drain,
\* restore_all, drain_steering, drain_follow_up).
THEOREM MessagesOnceInOrder == Spec => []EachOnceInOrder
<1>1. Init => LoopTypes /\ OnceInv
  BY TypesInit, OnceInit
<1>2. LoopTypes /\ OnceInv /\ [Next]_vars => (LoopTypes /\ OnceInv)'
  BY TypesStep, OnceStep
<1>3. OnceInv => EachOnceInOrder
  BY DEF OnceInv
<1> QED BY <1>1, <1>2, <1>3, PTL DEF Spec

-----------------------------------------------------------------------------
(* What the user sees of the queues *)

\* remove_visible goes by text, so what follows is about messages that say
\* different things.
DistinctTexts == \A a, b \in Msgs : Text[a] = Text[b] => a = b

\* v ends with the texts of q, and starts with texts of messages of A.
Shows(v, q, A) ==
    /\ Len(q) <= Len(v)
    /\ \A i \in 1..Len(q) : v[Len(v) - Len(q) + i] = Text[q[i]]
    /\ \A i \in 1..Len(v) - Len(q) : \E m \in A : v[i] = Text[m]
    /\ \A i, j \in 1..Len(v) : v[i] = v[j] => i = j

\* The messages the loop took whose message_start has not reached the session.
OnTheWay == ToSet(starts) \cup ToSet(pending)
ShowInv ==
    /\ Shows(visible_steering, steering, OnTheWay \cap ToSet(steered))
    /\ Shows(visible_follow_up, follow_up, OnTheWay \cap ToSet(followed))

LEMMA ShowsMore ==
    ASSUME NEW v, NEW q, NEW A, NEW B, A \subseteq B, Shows(v, q, A) PROVE Shows(v, q, B)
BY DEF Shows

LEMMA ShowsNothing == ASSUME NEW A PROVE Shows(<<>>, <<>>, A)
BY DEF Shows

\* An entry says what a message of A or of q says.
LEMMA ShowsSource ==
    ASSUME NEW v \in Seq(Range(Text)), NEW q \in Seq(Msgs), NEW A, Shows(v, q, A),
           NEW i \in 1..Len(v)
    PROVE  \/ i <= Len(v) - Len(q) /\ \E m \in A : v[i] = Text[m]
           \/ i > Len(v) - Len(q) /\ \E m \in ToSet(q) : v[i] = Text[m]
<1>1. Len(v) \in Nat /\ Len(q) \in Nat /\ DOMAIN q = 1..Len(q) /\ Len(q) <= Len(v)
  BY LenProperties DEF Shows
<1>2. CASE i <= Len(v) - Len(q)
  <2>1. i \in 1..Len(v) - Len(q)
    BY <1>1, <1>2
  <2> QED BY <1>2, <2>1 DEF Shows
<1>3. CASE ~(i <= Len(v) - Len(q))
  <2>1. i - (Len(v) - Len(q)) \in 1..Len(q) /\ Len(v) - Len(q) + (i - (Len(v) - Len(q))) = i
    BY <1>1, <1>3
  <2>2. v[i] = Text[q[i - (Len(v) - Len(q))]]
    BY <2>1 DEF Shows
  <2>3. q[i - (Len(v) - Len(q))] \in ToSet(q)
    BY <1>1, <2>1 DEF ToSet
  <2>4. i > Len(v) - Len(q)
    BY <1>1, <1>3
  <2> QED BY <2>2, <2>3, <2>4
<1> QED BY <1>2, <1>3

\* queue_steering and queue_follow_up.
LEMMA ShowsAppend ==
    ASSUME DistinctTexts, NEW v \in Seq(Range(Text)), NEW q \in Seq(Msgs), NEW A \in SUBSET Msgs,
           Shows(v, q, A), NEW m \in Msgs, m \notin A, m \notin ToSet(q)
    PROVE  Shows(Append(v, Text[m]), Append(q, m), A)
<1> DEFINE w == Append(v, Text[m])
           r == Append(q, m)
<1>1. /\ Len(v) \in Nat /\ Len(q) \in Nat /\ Len(q) <= Len(v)
      /\ ToSet(q) \subseteq Msgs
  BY LenProperties DEF Shows, ToSet
<1>2. /\ Len(w) = Len(v) + 1 /\ w[Len(v) + 1] = Text[m]
      /\ \A i \in 1..Len(v) : w[i] = v[i]
      /\ Len(r) = Len(q) + 1 /\ r[Len(q) + 1] = m
      /\ \A i \in 1..Len(q) : r[i] = q[i]
  BY AppendProperties, TextsTyped
<1>3. ASSUME NEW i \in 1..Len(v) PROVE v[i] # Text[m]
  BY <1>1, ShowsSource DEF DistinctTexts
<1> HIDE DEF w, r
<1>4. \A i \in 1..Len(r) : w[Len(w) - Len(r) + i] = Text[r[i]]
  <2> SUFFICES ASSUME NEW i \in 1..Len(r) PROVE w[Len(w) - Len(r) + i] = Text[r[i]]
    OBVIOUS
  <2>1. CASE i \in 1..Len(q)
    <3>1. /\ Len(w) - Len(r) + i = Len(v) - Len(q) + i
          /\ Len(v) - Len(q) + i \in 1..Len(v)
      BY <1>1, <1>2, <2>1
    <3>2. v[Len(v) - Len(q) + i] = Text[q[i]]
      BY <2>1 DEF Shows
    <3>3. w[Len(v) - Len(q) + i] = v[Len(v) - Len(q) + i] /\ r[i] = q[i]
      BY <1>2, <2>1, <3>1
    <3> QED BY <3>1, <3>2, <3>3
  <2>2. CASE i \notin 1..Len(q)
    <3>1. i = Len(q) + 1 /\ Len(w) - Len(r) + i = Len(v) + 1
      BY <1>1, <1>2, <2>2
    <3> QED BY <1>2, <3>1
  <2> QED BY <2>1, <2>2
<1>5. \A i \in 1..Len(w) - Len(r) : \E x \in A : w[i] = Text[x]
  <2> SUFFICES ASSUME NEW i \in 1..Len(w) - Len(r) PROVE \E x \in A : w[i] = Text[x]
    OBVIOUS
  <2>1. i \in 1..Len(v) - Len(q) /\ i \in 1..Len(v)
    BY <1>1, <1>2
  <2> QED BY <1>2, <2>1 DEF Shows
<1>6. ASSUME NEW i \in 1..Len(w), NEW j \in 1..Len(w), w[i] = w[j] PROVE i = j
  <2>1. CASE i \in 1..Len(v) /\ j \in 1..Len(v)
    BY <1>2, <1>6, <2>1 DEF Shows
  <2>2. CASE i \notin 1..Len(v) /\ j \notin 1..Len(v)
    BY <1>1, <1>2, <2>2
  <2>3. CASE i \notin 1..Len(v) /\ j \in 1..Len(v)
    <3>1. i = Len(v) + 1
      BY <1>1, <1>2, <2>3
    <3> QED BY <1>2, <1>3, <1>6, <2>3, <3>1
  <2>4. CASE i \in 1..Len(v) /\ j \notin 1..Len(v)
    <3>1. j = Len(v) + 1
      BY <1>1, <1>2, <2>4
    <3> QED BY <1>2, <1>3, <1>6, <2>4, <3>1
  <2> QED BY <2>1, <2>2, <2>3, <2>4
<1>7. Len(r) <= Len(w)
  BY <1>1, <1>2
<1>8. Shows(w, r, A)
  BY <1>4, <1>5, <1>6, <1>7 DEF Shows
<1> QED BY <1>8 DEF w, r

\* drain: the drained messages are on their way, and still shown.
LEMMA ShowsDrain ==
    ASSUME NEW v \in Seq(Range(Text)), NEW d \in Seq(Msgs), NEW q \in Seq(Msgs), NEW A,
           Shows(v, d \o q, A)
    PROVE  Shows(v, q, A \cup ToSet(d))
<1>1. /\ Len(v) \in Nat /\ Len(q) \in Nat /\ Len(d) \in Nat /\ DOMAIN d = 1..Len(d)
      /\ Len(d \o q) = Len(d) + Len(q)
      /\ \A i \in 1..Len(d) + Len(q) : (d \o q)[i] = IF i <= Len(d) THEN d[i] ELSE q[i - Len(d)]
  BY LenProperties, ConcatProperties
<1>2. Len(d) + Len(q) <= Len(v)
  BY <1>1 DEF Shows
<1>3. ASSUME NEW i \in 1..Len(d) + Len(q)
      PROVE  v[Len(v) - (Len(d) + Len(q)) + i] = Text[(d \o q)[i]]
  BY <1>1 DEF Shows
<1>4. ASSUME NEW i \in 1..Len(q) PROVE v[Len(v) - Len(q) + i] = Text[q[i]]
  <2>1. /\ Len(d) + i \in 1..Len(d) + Len(q) /\ (d \o q)[Len(d) + i] = q[i]
        /\ Len(v) - (Len(d) + Len(q)) + (Len(d) + i) = Len(v) - Len(q) + i
    BY <1>1
  <2> QED BY <1>3, <2>1
<1>5. ASSUME NEW i \in 1..Len(v) - Len(q) PROVE \E m \in A \cup ToSet(d) : v[i] = Text[m]
  <2>1. CASE i <= Len(v) - (Len(d) + Len(q))
    <3>1. i \in 1..Len(v) - Len(d \o q)
      BY <1>1, <1>2, <2>1
    <3>2. \E m \in A : v[i] = Text[m]
      BY <3>1 DEF Shows
    <3> QED BY <3>2
  <2>2. CASE ~(i <= Len(v) - (Len(d) + Len(q)))
    <3> DEFINE k == i - (Len(v) - (Len(d) + Len(q)))
    <3>1. /\ k \in 1..Len(d) /\ k \in 1..Len(d) + Len(q)
          /\ Len(v) - (Len(d) + Len(q)) + k = i
      BY <1>1, <1>2, <2>2
    <3> HIDE DEF k
    <3>2. v[i] = Text[d[k]]
      <4>1. (d \o q)[k] = d[k]
        BY <1>1, <3>1
      <4> QED BY <1>3, <3>1, <4>1
    <3>3. d[k] \in ToSet(d)
      BY <1>1, <3>1 DEF ToSet
    <3> QED BY <3>2, <3>3
  <2> QED BY <2>1, <2>2
<1>6. \A i, j \in 1..Len(v) : v[i] = v[j] => i = j
  BY DEF Shows
<1>7. Len(q) <= Len(v)
  BY <1>1, <1>2
<1> QED BY <1>4, <1>5, <1>6, <1>7 DEF Shows

\* mark_delivered: the entry of a message that waits no longer is struck off.
LEMMA ShowsRemove ==
    ASSUME DistinctTexts, NEW v \in Seq(Range(Text)), NEW q \in Seq(Msgs), NEW A \in SUBSET Msgs,
           Shows(v, q, A), NEW h \in Msgs, h \notin ToSet(q)
    PROVE  Shows(RemoveFirst(v, Text[h]), q, A \ {h})
<1>1. /\ Len(v) \in Nat /\ Len(q) \in Nat /\ Len(q) <= Len(v) /\ DOMAIN v = 1..Len(v)
      /\ ToSet(q) \subseteq Msgs /\ ToSet(v) = {v[i] : i \in 1..Len(v)}
  BY LenProperties DEF Shows, ToSet
<1>s. /\ \A i \in 1..Len(q) : v[Len(v) - Len(q) + i] = Text[q[i]]
      /\ \A i \in 1..Len(v) - Len(q) : \E m \in A : v[i] = Text[m]
      /\ \A i, j \in 1..Len(v) : v[i] = v[j] => i = j
  BY DEF Shows
<1>2. ASSUME NEW i \in 1..Len(v) - Len(q), v[i] # Text[h] PROVE \E m \in A \ {h} : v[i] = Text[m]
  BY <1>2, <1>s
<1>3. CASE RemoveFirst(v, Text[h]) = v /\ Text[h] \notin ToSet(v)
  <2>1. ASSUME NEW i \in 1..Len(v) - Len(q) PROVE v[i] # Text[h]
    <3>1. i \in 1..Len(v)
      BY <1>1
    <3> QED BY <1>1, <1>3, <3>1
  <2> QED BY <1>1, <1>s, <1>2, <1>3, <2>1 DEF Shows
<1>4. ASSUME NEW n \in DOMAIN v, v[n] = Text[h], NEW w, w = RemoveFirst(v, Text[h]),
             Len(w) = Len(v) - 1,
             \A i \in 1..Len(v) - 1 : w[i] = IF i < n THEN v[i] ELSE v[i + 1]
      PROVE  Shows(w, q, A \ {h})
  <2>1. n \in 1..Len(v) - Len(q)
    <3>1. n \in 1..Len(v)
      BY <1>1
    <3>2. ~ \E m \in ToSet(q) : v[n] = Text[m]
      BY <1>1, <1>4 DEF DistinctTexts
    <3>3. n <= Len(v) - Len(q)
      BY <3>1, <3>2, ShowsSource
    <3> QED BY <1>1, <3>1, <3>3
  <2>2. Len(q) <= Len(w)
    BY <1>1, <1>4, <2>1
  <2>3. ASSUME NEW i \in 1..Len(q) PROVE w[Len(w) - Len(q) + i] = Text[q[i]]
    <3>1. /\ Len(w) - Len(q) + i \in 1..Len(v) - 1 /\ ~(Len(w) - Len(q) + i < n)
          /\ Len(w) - Len(q) + i + 1 = Len(v) - Len(q) + i
      BY <1>1, <1>4, <2>1
    <3>2. w[Len(w) - Len(q) + i] = v[Len(w) - Len(q) + i + 1]
      BY <1>4, <3>1
    <3> QED BY <1>s, <3>1, <3>2
  <2>4. ASSUME NEW i \in 1..Len(w) - Len(q) PROVE \E m \in A \ {h} : w[i] = Text[m]
    <3>1. PICK k \in 1..Len(v) - Len(q) : w[i] = v[k] /\ k # n
      <4>1. i \in 1..Len(v) - 1 /\ i \in 1..Len(v) - Len(q) /\ i + 1 \in 1..Len(v) - Len(q)
        BY <1>1, <1>4
      <4>2. CASE i < n
        BY <1>4, <4>1, <4>2, <2>1
      <4>3. CASE ~(i < n)
        <5>1. w[i] = v[i + 1] /\ i + 1 # n
          BY <1>1, <1>4, <4>1, <4>3, <2>1
        <5> QED BY <4>1, <5>1
      <4> QED BY <4>2, <4>3
    <3>2. k \in 1..Len(v) /\ n \in 1..Len(v)
      BY <1>1
    <3>3. v[k] # Text[h]
      BY <1>s, <1>4, <3>1, <3>2
    <3> QED BY <1>2, <3>1, <3>3
  <2>5. ASSUME NEW i \in 1..Len(w), NEW j \in 1..Len(w), w[i] = w[j] PROVE i = j
    <3> DEFINE up(k) == IF k < n THEN k ELSE k + 1
    <3>1. ASSUME NEW k \in 1..Len(w) PROVE w[k] = v[up(k)] /\ up(k) \in 1..Len(v)
      BY <1>1, <1>4
    <3>2. up(i) = up(j)
      <4>1. /\ w[i] = v[up(i)] /\ up(i) \in 1..Len(v)
            /\ w[j] = v[up(j)] /\ up(j) \in 1..Len(v)
        BY <3>1
      <4> HIDE DEF up
      <4> QED BY <1>s, <2>5, <4>1
    <3>3. i \in Nat /\ j \in Nat /\ n \in Nat
      BY <1>1
    <3> QED BY <3>2, <3>3
  <2> QED BY <2>2, <2>3, <2>4, <2>5 DEF Shows
<1>5. PICK w : w = RemoveFirst(v, Text[h])
  OBVIOUS
<1>6. \/ w = v /\ Text[h] \notin ToSet(v)
      \/ \E n \in DOMAIN v :
           /\ v[n] = Text[h] /\ Len(w) = Len(v) - 1
           /\ \A i \in 1..Len(v) - 1 : w[i] = IF i < n THEN v[i] ELSE v[i + 1]
  BY <1>5, RemoveOne
<1> QED BY <1>3, <1>4, <1>5, <1>6

\* Who was taken is not in a queue, and what the forwarder gets was taken.
LEMMA OnTheWayIsTaken ==
    ASSUME QueueTyped PROVE OnTheWay \subseteq ToSet(Taken)
<1>0. /\ started \in Seq(Msgs) /\ starts \in Seq(Msgs) /\ pending \in Seq(Msgs)
      /\ Forwarding \in Seq(Msgs)
  BY DEF QueueTyped, Forwarding
<1>1. started \o Forwarding \in Seq(Msgs)
  BY <1>0
<1>2. /\ started \o Forwarding \o starts \in Seq(Msgs)
      /\ ToSet(started \o Forwarding \o starts) = ToSet(started \o Forwarding) \cup ToSet(starts)
  BY <1>0, <1>1, SetConcat
<1>3. ToSet(Taken) = ToSet(started \o Forwarding \o starts) \cup ToSet(pending)
  BY <1>0, <1>2, SetConcat DEF Taken
<1> QED BY <1>2, <1>3 DEF OnTheWay

LEMMA SetHeadTail ==
    ASSUME NEW s \in Seq(Msgs), s # <<>> PROVE ToSet(s) = {Head(s)} \cup ToSet(Tail(s))
<1>1. /\ Head(s) \in Msgs /\ Tail(s) \in Seq(Msgs) /\ s = <<Head(s)>> \o Tail(s)
      /\ <<Head(s)>> \in Seq(Msgs)
  OBVIOUS
<1>2. ToSet(<<Head(s)>>) = {Head(s)}
  BY DEF ToSet
<1>3. ToSet(<<Head(s)>> \o Tail(s)) = ToSet(<<Head(s)>>) \cup ToSet(Tail(s))
  BY <1>1, SetConcat
<1> QED BY <1>1, <1>2, <1>3

\* Each step of the client, the loop and the forwarder keeps the visible queues
\* the texts of what is on its way and of what waits.
LEMMA ShowStep ==
    ASSUME DistinctTexts, OnceInv, ShowInv, QueueAction PROVE ShowInv'
<1>t. /\ steering \in Seq(Msgs) /\ follow_up \in Seq(Msgs) /\ pending \in Seq(Msgs)
      /\ starts \in Seq(Msgs) /\ steered \in Seq(Msgs) /\ followed \in Seq(Msgs)
      /\ visible_steering \in Seq(Range(Text)) /\ visible_follow_up \in Seq(Range(Text))
      /\ Taken \in Seq(Msgs)
  BY TakenTyped DEF OnceInv, QueueTyped
<1> DEFINE S == OnTheWay \cap ToSet(steered)
           F == OnTheWay \cap ToSet(followed)
<1>s. /\ S \in SUBSET Msgs /\ F \in SUBSET Msgs
      /\ Shows(visible_steering, steering, S) /\ Shows(visible_follow_up, follow_up, F)
      /\ OnTheWay \subseteq Msgs
  BY <1>t DEF ShowInv, OnTheWay, ToSet
<1>q. /\ ToSet(steering) \subseteq ToSet(steered) /\ ToSet(follow_up) \subseteq ToSet(followed)
      /\ ToSet(steered) \cap ToSet(followed) = {}
      /\ InOrder(Taken \o steering, steered) /\ InOrder(Taken \o follow_up, followed)
      /\ Queued = ToSet(steered) \cup ToSet(followed)
  BY DEF OnceInv, QueueInv, EachOnceInOrder, Queued
<1>o. ToSet(Taken) \cap ToSet(steering) = {} /\ ToSet(Taken) \cap ToSet(follow_up) = {}
  BY <1>t, <1>q, OrderOnce
<1>w. OnTheWay \subseteq ToSet(Taken) /\ ToSet(Taken) \subseteq Queued \cup {Prompt}
  BY OnTheWayIsTaken DEF OnceInv
<1>g. ASSUME Shows(visible_steering', steering', OnTheWay' \cap ToSet(steered')),
             Shows(visible_follow_up', follow_up', OnTheWay' \cap ToSet(followed'))
      PROVE  ShowInv'
  BY <1>g DEF ShowInv
<1> HIDE DEF S, F
<1>1. CASE UNCHANGED <<queues, starts, pending, steered, followed>>
  BY <1>1 DEF ShowInv, OnTheWay, queues
<1>2. ASSUME NEW m \in Msgs, EnqueueSteering(m) PROVE ShowInv'
  <2>1. /\ m \notin Queued \cup {Prompt} /\ steering' = Append(steering, m)
        /\ visible_steering' = Append(visible_steering, Text[m]) /\ steered' = Append(steered, m)
        /\ UNCHANGED <<follow_up, visible_follow_up, pending, starts, followed>>
    BY <1>2, Zenon DEF EnqueueSteering
  <2>2. m \notin S /\ m \notin ToSet(steering)
    BY <1>q, <2>1 DEF S
  <2>3. Shows(visible_steering', steering', S)
    BY <1>t, <1>s, <2>1, <2>2, ShowsAppend
  <2>4. ToSet(steered') = ToSet(steered) \cup {m} /\ OnTheWay' = OnTheWay
    BY <1>t, <2>1, SetAppend DEF OnTheWay
  <2>5. S \subseteq OnTheWay' \cap ToSet(steered')
    BY <2>4 DEF S
  <2>6. Shows(visible_steering', steering', OnTheWay' \cap ToSet(steered'))
    BY <2>3, <2>5, ShowsMore
  <2>7. Shows(visible_follow_up', follow_up', OnTheWay' \cap ToSet(followed'))
    BY <1>s, <2>1, <2>4 DEF F
  <2> QED BY <1>g, <2>6, <2>7
<1>3. ASSUME NEW m \in Msgs, EnqueueFollowUp(m) PROVE ShowInv'
  <2>1. /\ m \notin Queued \cup {Prompt} /\ follow_up' = Append(follow_up, m)
        /\ visible_follow_up' = Append(visible_follow_up, Text[m]) /\ followed' = Append(followed, m)
        /\ UNCHANGED <<steering, visible_steering, pending, starts, steered>>
    BY <1>3, Zenon DEF EnqueueFollowUp
  <2>2. m \notin F /\ m \notin ToSet(follow_up)
    BY <1>q, <2>1 DEF F
  <2>3. Shows(visible_follow_up', follow_up', F)
    BY <1>t, <1>s, <2>1, <2>2, ShowsAppend
  <2>4. ToSet(followed') = ToSet(followed) \cup {m} /\ OnTheWay' = OnTheWay
    BY <1>t, <2>1, SetAppend DEF OnTheWay
  <2>5. F \subseteq OnTheWay' \cap ToSet(followed')
    BY <2>4 DEF F
  <2>6. Shows(visible_follow_up', follow_up', OnTheWay' \cap ToSet(followed'))
    BY <2>3, <2>5, ShowsMore
  <2>7. Shows(visible_steering', steering', OnTheWay' \cap ToSet(steered'))
    BY <1>s, <2>1, <2>4 DEF S
  <2> QED BY <1>g, <2>6, <2>7
<1>4. CASE Restore
  <2>1. steering' = <<>> /\ follow_up' = <<>> /\ visible_steering' = <<>> /\ visible_follow_up' = <<>>
    BY <1>4, Zenon DEF Restore
  <2> QED BY <1>g, <2>1, ShowsNothing
<1>5. CASE drain_steering
  <2>1. /\ pending = <<>> /\ pending' = Drained(steering, SteeringMode)
        /\ steering' = Remaining(steering, SteeringMode)
        /\ UNCHANGED <<follow_up, visible_steering, visible_follow_up, starts, steered, followed>>
    BY <1>5 DEF drain_steering, history
  <2>2. /\ pending' \in Seq(Msgs) /\ steering' \in Seq(Msgs) /\ pending' \o steering' = steering
        /\ ToSet(pending') \subseteq ToSet(steering)
    BY <1>t, <2>1, DrainTypes, DrainSplits
  <2>3. OnTheWay' = OnTheWay \cup ToSet(pending')
    BY <2>1 DEF OnTheWay, ToSet
  <2>4. Shows(visible_steering, steering', S \cup ToSet(pending'))
    BY <1>t, <1>s, <2>2, ShowsDrain
  <2>5. S \cup ToSet(pending') \subseteq OnTheWay' \cap ToSet(steered')
    BY <1>q, <2>1, <2>2, <2>3 DEF S
  <2>6. Shows(visible_steering', steering', OnTheWay' \cap ToSet(steered'))
    BY <2>1, <2>4, <2>5, ShowsMore
  <2>7. F \subseteq OnTheWay' \cap ToSet(followed')
    BY <2>1, <2>3 DEF F
  <2>8. Shows(visible_follow_up', follow_up', OnTheWay' \cap ToSet(followed'))
    BY <1>s, <2>1, <2>7, ShowsMore
  <2> QED BY <1>g, <2>6, <2>8
<1>6. CASE drain_follow_up
  <2>1. /\ pending = <<>> /\ pending' = Drained(follow_up, FollowUpMode)
        /\ follow_up' = Remaining(follow_up, FollowUpMode)
        /\ UNCHANGED <<steering, visible_steering, visible_follow_up, starts, steered, followed>>
    BY <1>6 DEF drain_follow_up, history
  <2>2. /\ pending' \in Seq(Msgs) /\ follow_up' \in Seq(Msgs) /\ pending' \o follow_up' = follow_up
        /\ ToSet(pending') \subseteq ToSet(follow_up)
    BY <1>t, <2>1, DrainTypes, DrainSplits
  <2>3. OnTheWay' = OnTheWay \cup ToSet(pending')
    BY <2>1 DEF OnTheWay, ToSet
  <2>4. Shows(visible_follow_up, follow_up', F \cup ToSet(pending'))
    BY <1>t, <1>s, <2>2, ShowsDrain
  <2>5. F \cup ToSet(pending') \subseteq OnTheWay' \cap ToSet(followed')
    BY <1>q, <2>1, <2>2, <2>3 DEF F
  <2>6. Shows(visible_follow_up', follow_up', OnTheWay' \cap ToSet(followed'))
    BY <2>1, <2>4, <2>5, ShowsMore
  <2>7. S \subseteq OnTheWay' \cap ToSet(steered')
    BY <2>1, <2>3 DEF S
  <2>8. Shows(visible_steering', steering', OnTheWay' \cap ToSet(steered'))
    BY <1>s, <2>1, <2>7, ShowsMore
  <2> QED BY <1>g, <2>6, <2>8
<1>7. CASE Announce
  <2>1. /\ pending # <<>> /\ starts' = Append(starts, Head(pending)) /\ pending' = Tail(pending)
        /\ UNCHANGED <<steering, follow_up, visible_steering, visible_follow_up, steered, followed>>
    BY <1>7 DEF Announce, queues, history
  <2>2. /\ ToSet(starts') = ToSet(starts) \cup {Head(pending)}
        /\ ToSet(pending) = {Head(pending)} \cup ToSet(pending')
    BY <1>t, <2>1, SetAppend, SetHeadTail, SetTail
  <2>3. OnTheWay' = OnTheWay
    BY <2>2 DEF OnTheWay
  <2> QED BY <1>s, <1>g, <2>1, <2>3 DEF S, F
<1>8. CASE MarkDelivered
  <2> DEFINE h == Head(starts)
  <2>1. /\ starts # <<>> /\ starts' = Tail(starts)
        /\ visible_steering' = RemoveFirst(visible_steering, Text[h])
        /\ visible_follow_up' = IF Text[h] \in ToSet(visible_steering) THEN visible_follow_up
                                ELSE RemoveFirst(visible_follow_up, Text[h])
        /\ UNCHANGED <<steering, follow_up, pending, steered, followed>>
    BY <1>8 DEF MarkDelivered, history
  <2>2. /\ h \in Msgs /\ h \in ToSet(starts) /\ ToSet(starts) = {h} \cup ToSet(starts')
    BY <1>t, <2>1, SetTail, SetHeadTail
  <2> HIDE DEF h
  <2>3. h \notin ToSet(steering) /\ h \notin ToSet(follow_up)
    BY <1>o, <1>w, <2>2 DEF OnTheWay
  <2>4. OnTheWay \ {h} \subseteq OnTheWay'
    BY <2>1, <2>2 DEF OnTheWay
  <2>5. Shows(visible_steering', steering, S \ {h})
    BY <1>t, <1>s, <2>1, <2>2, <2>3, ShowsRemove
  <2>6. S \ {h} \subseteq OnTheWay' \cap ToSet(steered') /\ F \ {h} \subseteq OnTheWay' \cap ToSet(followed')
    BY <2>1, <2>4 DEF S, F
  <2>7. Shows(visible_steering', steering', OnTheWay' \cap ToSet(steered'))
    BY <2>1, <2>5, <2>6, ShowsMore
  <2>8. Shows(visible_follow_up', follow_up, F \ {h})
    <3>1. CASE Text[h] \in ToSet(visible_steering)
      <4>1. PICK i \in 1..Len(visible_steering) : visible_steering[i] = Text[h]
        BY <1>t, <3>1, LenProperties DEF ToSet
      <4>2. \E m \in S \cup ToSet(steering) : Text[m] = Text[h]
        BY <1>t, <1>s, <4>1, ShowsSource
      <4>3. S \cup ToSet(steering) \subseteq Msgs /\ S \cup ToSet(steering) \subseteq ToSet(steered)
        <5>1. ToSet(steering) \subseteq Msgs
          BY <1>t DEF ToSet
        <5>2. S \subseteq ToSet(steered)
          BY DEF S
        <5> QED BY <1>s, <1>q, <5>1, <5>2
      <4>4. h \in ToSet(steered)
        BY <2>2, <4>2, <4>3 DEF DistinctTexts
      <4>5. F \ {h} = F
        BY <1>q, <4>4 DEF F
      <4> QED BY <1>s, <2>1, <3>1, <4>5
    <3>2. CASE Text[h] \notin ToSet(visible_steering)
      BY <1>t, <1>s, <2>1, <2>2, <2>3, <3>2, ShowsRemove
    <3> QED BY <3>1, <3>2
  <2>9. Shows(visible_follow_up', follow_up', OnTheWay' \cap ToSet(followed'))
    BY <2>1, <2>6, <2>8, ShowsMore
  <2> QED BY <1>g, <2>7, <2>9
<1>9. CASE UNCHANGED qvars \/ ClientSnapshots \/ ClientPushes
           \/ ForwarderSnapshots \/ ForwarderPushes \/ ForwarderStarts
  BY <1>1, <1>9, Zenon DEF qvars, ClientSnapshots, ClientPushes, ForwarderSnapshots,
     ForwarderPushes, ForwarderStarts, history
<1> QED BY <1>2, <1>3, <1>4, <1>5, <1>6, <1>7, <1>8, <1>9 DEF QueueAction

LEMMA ShowInit == Init => ShowInv
<1> SUFFICES ASSUME Init PROVE ShowInv
  OBVIOUS
<1>1. /\ visible_steering = <<>> /\ visible_follow_up = <<>>
      /\ steering = <<>> /\ follow_up = <<>>
  BY DEF Init, QInit
<1> QED BY <1>1, ShowsNothing DEF ShowInv

\* With nothing on its way, what is shown is what waits.
LEMMA ShownIsQueued ==
    ASSUME NEW v \in Seq(Range(Text)), NEW q \in Seq(Msgs), Shows(v, q, {})
    PROVE  v = Texts(q)
<1>1. Len(v) \in Nat /\ Len(q) \in Nat /\ Len(q) <= Len(v) /\ DOMAIN q = 1..Len(q)
  BY LenProperties DEF Shows
<1>2. ~(Len(q) < Len(v))
  <2> SUFFICES ASSUME Len(q) < Len(v) PROVE FALSE
    OBVIOUS
  <2>1. 1 \in 1..Len(v) - Len(q)
    BY <1>1
  <2> QED BY <2>1 DEF Shows
<1>3. Len(v) = Len(q)
  BY <1>1, <1>2
<1>4. ASSUME NEW i \in 1..Len(q) PROVE v[i] = Text[q[i]]
  <2>1. v[Len(v) - Len(q) + i] = Text[q[i]]
    BY DEF Shows
  <2>2. Len(v) - Len(q) + i = i
    BY <1>1, <1>3
  <2> QED BY <2>1, <2>2
<1>5. v = [i \in 1..Len(v) |-> v[i]]
  BY LenProperties
<1>6. v = [i \in 1..Len(q) |-> Text[q[i]]]
  BY <1>3, <1>4, <1>5
<1> QED BY <1>1, <1>6 DEF Texts

\* The queues are exact and so is the user's view of them, for messages that
\* say different things (queue_t, mark_delivered, remove_visible): each message
\* once and in order, and at rest the visible queues say what waits.
THEOREM QueuesAlwaysExact == ASSUME DistinctTexts PROVE Spec => []QueuesExact
<1> DEFINE I == LoopTypes /\ OnceInv /\ ShowInv
<1>1. Init => I
  BY TypesInit, OnceInit, ShowInit
<1>2. I /\ [Next]_vars => I'
  BY TypesStep, OnceStep, ShowStep, NextIsQueueAction
<1>3. I => QueuesExact
  <2> SUFFICES ASSUME I, pending = <<>>, starts = <<>>
               PROVE  visible_steering = Texts(steering) /\ visible_follow_up = Texts(follow_up)
    BY DEF QueuesExact, VisibleIsQueued, OnceInv, visible_snapshot
  <2>1. OnTheWay \cap ToSet(steered) = {} /\ OnTheWay \cap ToSet(followed) = {}
    BY DEF OnTheWay, ToSet
  <2> QED BY <2>1, ShownIsQueued DEF ShowInv, OnceInv, QueueTyped
<1> QED BY <1>1, <1>2, <1>3, PTL DEF Spec
=============================================================================
