----------------------------- MODULE Supervisor -----------------------------
(***************************************************************************)
(* One instance of the session server and its child, `adou --mode rpc`     *)
(* (src/server/supervisor.n and rpc_process.n, and the requests "rpc" and  *)
(* "stop" of src/app.n).  Five kinds of coroutines share the instance: the *)
(* one that spawns the child and shakes hands with it, the pump of its     *)
(* output, the watcher of its exit, the clients' commands, and the stops   *)
(* (a stop request, or the server shutting down).                          *)
(*                                                                         *)
(* A send is one command on its way to the child: <<c, "call">> for the    *)
(* command of client c, <<c, "state">> for the get_state the server adds   *)
(* after a command that may change the session, and Hello for the          *)
(* handshake.  The child may die at any time, ignore its input, ignore     *)
(* SIGTERM and answer what it likes; SIGKILL ends it.  The lines it writes *)
(* that answer nothing (events) change nothing here and are left out, and  *)
(* the write to a subscriber is taken to return.                           *)
(***************************************************************************)
EXTENDS Naturals, Sequences

CONSTANTS
    Commands,   \* the clients' commands
    Refreshing, \* those after which the server asks for the state again
    Stops,      \* the coroutines that stop the instance
    Spawner,    \* the coroutine of finish_spawn
    Id,         \* the id of each send: a client may choose its own
    InCap       \* the room of the input channel (128 in the code)

Hello == <<Spawner, "state">>
Sends == {<<c, "call">> : c \in Commands} \cup {<<c, "state">> : c \in Refreshing \cup {Spawner}}
Disposers == Stops \cup {Spawner}

ASSUME SupervisorAssumption ==
    /\ Refreshing \subseteq Commands /\ Spawner \notin Commands \cup Stops
    /\ InCap \in Nat \ {0} /\ DOMAIN Id = Sends

VARIABLES
    status,     \* instance_t.status
    process,    \* instance_t.process is set
    child,      \* the child: "none", "runs" or "dead"
    killed,     \* SIGKILL was sent to it
    exited, stopping,   \* rpc_process_t: the child was reaped; dispose has closed the input
    pending,    \* rpc_process_t.pending, the sends that wait for an answer
    inq,        \* the input channel
    asked,      \* what the child has read and not answered
    outq,       \* the channel of the child's lines
    outClosed, outputDone, done,    \* three channels are closed: the lines, output_done, done
    result,     \* the values put on the result channel of each send
    send,       \* where each send stands
    spawner,    \* where finish_spawn stands
    watcher,    \* where watch_exit stands
    taken,      \* the requests watch_exit has taken and not answered
    stop        \* where each disposer stands

instance == <<status, process>>
proc == <<exited, stopping, pending>>
kernel == <<child, killed>>
lines == <<inq, asked, outq>>
closed == <<outClosed, outputDone, done>>
serverVars == <<instance, kernel, proc, lines, closed, result, send, spawner, watcher, taken, stop>>

ServerTypeOK ==
    /\ status \in {"starting", "online", "exited", "stopped"}
    /\ child \in {"none", "runs", "dead"}
    /\ {process, killed, exited, stopping, outClosed, outputDone, done} \subseteq BOOLEAN
    /\ pending \subseteq Sends /\ asked \subseteq Sends /\ taken \subseteq Sends
    /\ inq \in Seq(Sends) /\ Len(inq) <= InCap
    /\ outq \in Seq(Sends \X {"ok", "bad"})
    /\ result \in [Sends -> Seq({"ok", "bad", "exited"})]
    /\ send \in [Sends -> {"idle", "checked", "write", "wait", "ok", "error"}]
    /\ spawner \in {"start", "attach", "check", "hello", "test", "online",
                    "disposing", "failed", "exit", "end"}
    /\ watcher \in {"wait", "finish", "drain", "take", "answer", "done", "check", "exit", "end"}
    /\ stop \in [Disposers -> {"idle", "get", "dispose", "term", "wait", "kill", "wait2", "end"}]

ServerInit ==
    /\ status = "starting" /\ process = FALSE
    /\ child = "none" /\ killed = FALSE
    /\ exited = FALSE /\ stopping = FALSE /\ pending = {}
    /\ inq = <<>> /\ asked = {} /\ outq = <<>>
    /\ outClosed = FALSE /\ outputDone = FALSE /\ done = FALSE
    /\ result = [s \in Sends |-> <<>>]
    /\ send = [s \in Sends |-> "idle"]
    /\ spawner = "start" /\ watcher = "wait" /\ taken = {}
    /\ stop = [d \in Disposers |-> "idle"]

-----------------------------------------------------------------------------
(* One send: register, write, wait for the answer. *)

SendGoes(s, from, to) == send[s] = from /\ send' = [send EXCEPT ![s] = to]

\* The server checks the status, and only later sends.
Accept(c) ==
    /\ SendGoes(<<c, "call">>, "idle", IF status = "online" THEN "checked" ELSE "error")
    /\ UNCHANGED <<instance, kernel, proc, lines, closed, result, spawner, watcher, taken, stop>>

\* get_state after a command that may have changed the session.
Refresh(c) ==
    /\ send[<<c, "call">>] = "ok"
    /\ SendGoes(<<c, "state">>, "idle", "checked")
    /\ UNCHANGED <<instance, kernel, proc, lines, closed, result, spawner, watcher, taken, stop>>

Register(s) ==
    /\ IF exited \/ stopping
       THEN SendGoes(s, "checked", "error") /\ UNCHANGED pending
       ELSE SendGoes(s, "checked", "write") /\ pending' = pending \cup {s}
    /\ UNCHANGED <<instance, kernel, exited, stopping, lines, closed, result,
                   spawner, watcher, taken, stop>>

\* The line waits for room; a closed channel refuses it, and remove_pending
\* drops every request with that id.
Write(s) ==
    /\ IF stopping
       THEN /\ SendGoes(s, "write", "error")
            /\ pending' = {t \in pending : Id[t] # Id[s]}
            /\ UNCHANGED inq
       ELSE /\ Len(inq) < InCap
            /\ SendGoes(s, "write", "wait")
            /\ inq' = Append(inq, s)
            /\ UNCHANGED pending
    /\ UNCHANGED <<instance, kernel, exited, stopping, asked, outq, closed, result,
                   spawner, watcher, taken, stop>>

\* A command returns whatever the child answered; sync_summary throws at a bad
\* answer.
Accepted(s) == IF s[2] = "call" THEN {"ok", "bad"} ELSE {"ok"}

Receive(s) ==
    /\ result[s] # <<>>
    /\ SendGoes(s, "wait", IF Head(result[s]) \in Accepted(s) THEN "ok" ELSE "error")
    /\ UNCHANGED <<instance, kernel, proc, lines, closed, result, spawner, watcher, taken, stop>>

-----------------------------------------------------------------------------
(* The child, and the pipes of the process library. *)

ChildReads ==
    /\ child = "runs" /\ inq # <<>>
    /\ inq' = Tail(inq) /\ asked' = asked \cup {Head(inq)}
    /\ UNCHANGED <<instance, kernel, proc, outq, closed, result, send, spawner, watcher, taken, stop>>

\* A line the process library delivers too late is a line never written.
ChildAnswers(s, answer) ==
    /\ child = "runs" /\ s \in asked
    /\ asked' = asked \ {s}
    /\ outq' = Append(outq, <<s, answer>>)
    /\ UNCHANGED <<instance, kernel, proc, inq, closed, result, send, spawner, watcher, taken, stop>>

ChildDies ==
    /\ child = "runs" /\ child' = "dead"
    /\ UNCHANGED <<instance, killed, proc, lines, closed, result, send, spawner, watcher, taken, stop>>

-----------------------------------------------------------------------------
(* pump_output and watch_exit. *)

\* The requests that have the id of the line.
Matching(line) == {s \in pending : Id[s] = Id[line[1]]}

\* Mutant: the request that is answered stays registered.
DispatchKeeps ==
    /\ outq # <<>> /\ outq' = Tail(outq)
    /\ LET line == Head(outq)
       IN \/ Matching(line) = {} /\ UNCHANGED result
          \/ \E s \in Matching(line) : result' = [result EXCEPT ![s] = Append(@, line[2])]
    /\ UNCHANGED <<instance, kernel, proc, inq, asked, closed, send, spawner, watcher,
                   taken, stop>>

\* One of them is answered and taken off the list: the first, but which one
\* that is matters only if clients have chosen the same id.
Dispatch ==
    /\ outq # <<>> /\ outq' = Tail(outq)
    /\ LET line == Head(outq)
       IN \/ Matching(line) = {} /\ UNCHANGED <<pending, result>>
          \/ \E s \in Matching(line) :
               /\ pending' = pending \ {s}
               /\ result' = [result EXCEPT ![s] = Append(@, line[2])]
    /\ UNCHANGED <<instance, kernel, exited, stopping, inq, asked, closed, send, spawner,
                   watcher, taken, stop>>

PumpEnds ==
    /\ outClosed /\ outq = <<>> /\ ~outputDone
    /\ outputDone' = TRUE
    /\ UNCHANGED <<instance, kernel, proc, lines, outClosed, done, result, send,
                   spawner, watcher, taken, stop>>

WatcherGoes(from, to) == watcher = from /\ watcher' = to
WatcherOnly == UNCHANGED <<kernel, lines, send, spawner, stop>>

Reap ==
    /\ child = "dead" /\ WatcherGoes("wait", "finish")
    /\ WatcherOnly /\ UNCHANGED <<instance, proc, closed, result, taken>>

Finish ==
    /\ WatcherGoes("finish", "drain")
    /\ outClosed' = TRUE
    /\ WatcherOnly /\ UNCHANGED <<instance, proc, outputDone, done, result, taken>>

Drained ==
    /\ outputDone /\ WatcherGoes("drain", "take")
    /\ WatcherOnly /\ UNCHANGED <<instance, proc, closed, result, taken>>

\* Mutant: the requests are taken before the process is marked exited.
TakeUnmarked ==
    /\ WatcherGoes("take", "answer")
    /\ taken' = pending /\ pending' = {}
    /\ WatcherOnly /\ UNCHANGED <<instance, exited, stopping, closed, result>>

\* In one section: no request registers in between and is forgotten.
TakePending ==
    /\ WatcherGoes("take", "answer")
    /\ exited' = TRUE /\ taken' = pending /\ pending' = {}
    /\ WatcherOnly /\ UNCHANGED <<instance, stopping, closed, result>>

AnswerTaken ==
    /\ WatcherGoes("answer", "done")
    /\ result' = [s \in Sends |-> IF s \in taken THEN Append(result[s], "exited") ELSE result[s]]
    /\ taken' = {}
    /\ WatcherOnly /\ UNCHANGED <<instance, proc, closed>>

CloseDone ==
    /\ WatcherGoes("done", "check")
    /\ done' = TRUE
    /\ WatcherOnly /\ UNCHANGED <<instance, proc, outClosed, outputDone, result, taken>>

\* on_exit tests the status and sets it in two sections.
OnExitCheck ==
    /\ WatcherGoes("check", IF status = "stopped" THEN "end" ELSE "exit")
    /\ WatcherOnly /\ UNCHANGED <<instance, proc, closed, result, taken>>

OnExit ==
    /\ WatcherGoes("exit", "end")
    /\ status' = "exited"
    /\ WatcherOnly /\ UNCHANGED <<process, proc, closed, result, taken>>

Pump == Dispatch \/ PumpEnds
Watch == Reap \/ Finish \/ Drained \/ TakePending \/ AnswerTaken \/ CloseDone
            \/ OnExitCheck \/ OnExit

-----------------------------------------------------------------------------
(* dispose: close the input, SIGTERM, wait, SIGKILL, wait. *)

StopGoes(d, from, to) == stop[d] = from /\ stop' = [stop EXCEPT ![d] = to]
StopOnly == UNCHANGED <<lines, closed, result, send, spawner, watcher, taken>>

Dispose(d) ==
    /\ StopGoes(d, "dispose", IF exited THEN "end" ELSE "term")
    /\ stopping' = (stopping \/ ~exited)
    /\ StopOnly /\ UNCHANGED <<instance, kernel, exited, pending>>

\* SIGTERM allows the child to go, and does not force it: see ChildDies.
Terminate(d) ==
    /\ StopGoes(d, "term", "wait")
    /\ StopOnly /\ UNCHANGED <<instance, kernel, proc>>

WaitDone(d) ==
    /\ done
    /\ StopGoes(d, "wait", "end") \/ StopGoes(d, "wait2", "end")
    /\ StopOnly /\ UNCHANGED <<instance, kernel, proc>>

Timeout(d) ==
    /\ StopGoes(d, "wait", "kill") \/ StopGoes(d, "wait2", "end")
    /\ StopOnly /\ UNCHANGED <<instance, kernel, proc>>

Kill(d) ==
    /\ StopGoes(d, "kill", "wait2")
    /\ killed' = TRUE
    /\ StopOnly /\ UNCHANGED <<instance, child, proc>>

\* supervisor_t.stop, and the part of shutdown about this instance.
Stop(d) ==
    /\ StopGoes(d, "idle", "get")
    /\ status' = "stopped"
    /\ StopOnly /\ UNCHANGED <<process, kernel, proc>>

GetProcess(d) ==
    /\ StopGoes(d, "get", IF process THEN "dispose" ELSE "end")
    /\ StopOnly /\ UNCHANGED <<instance, kernel, proc>>

Disposing(d) == Dispose(d) \/ Terminate(d) \/ WaitDone(d) \/ Timeout(d) \/ Kill(d)

-----------------------------------------------------------------------------
(* finish_spawn. *)

SpawnerGoes(from, to) == spawner = from /\ spawner' = to
SpawnerOnly == UNCHANGED <<killed, proc, lines, closed, result, watcher, taken>>

StartFails ==
    /\ SpawnerGoes("start", "end")
    /\ status' = "exited"
    /\ SpawnerOnly /\ UNCHANGED <<process, child, send, stop>>

Start ==
    /\ SpawnerGoes("start", "attach")
    /\ child' = "runs"
    /\ SpawnerOnly /\ UNCHANGED <<instance, send, stop>>

SetProcess ==
    /\ SpawnerGoes("attach", "check")
    /\ process' = TRUE
    /\ SpawnerOnly /\ UNCHANGED <<status, child, send, stop>>

\* Mutant: finish_spawn does not look whether it was stopped meanwhile.
CheckNothing ==
    /\ SpawnerGoes("check", "hello")
    /\ SendGoes(Hello, "idle", "checked")
    /\ SpawnerOnly /\ UNCHANGED <<instance, child, stop>>

\* Stopped before there was a process to stop: the child is disposed here.
CheckStopped ==
    /\ IF status = "stopped"
       THEN /\ SpawnerGoes("check", "disposing")
            /\ StopGoes(Spawner, "idle", "dispose")
            /\ UNCHANGED send
       ELSE /\ SpawnerGoes("check", "hello")
            /\ SendGoes(Hello, "idle", "checked")
            /\ UNCHANGED stop
    /\ SpawnerOnly /\ UNCHANGED <<instance, child>>

\* The handshake failed: a bad answer or none.
HelloFails ==
    /\ send[Hello] = "error" /\ SpawnerGoes("hello", "failed")
    /\ StopGoes(Spawner, "idle", "dispose")
    /\ SpawnerOnly /\ UNCHANGED <<instance, child, send>>

Disposed ==
    /\ stop[Spawner] = "end"
    /\ \/ SpawnerGoes("disposing", "end")
       \/ SpawnerGoes("failed", IF status = "stopped" THEN "end" ELSE "exit")
    /\ SpawnerOnly /\ UNCHANGED <<instance, child, send, stop>>

SetExited ==
    /\ SpawnerGoes("exit", "end")
    /\ status' = "exited"
    /\ SpawnerOnly /\ UNCHANGED <<process, child, send, stop>>

HelloSucceeds ==
    /\ send[Hello] = "ok" /\ SpawnerGoes("hello", "test")
    /\ SpawnerOnly /\ UNCHANGED <<instance, child, send, stop>>

\* The status is tested and set in two sections.
TestStarting ==
    /\ SpawnerGoes("test", IF status = "starting" THEN "online" ELSE "end")
    /\ SpawnerOnly /\ UNCHANGED <<instance, child, send, stop>>

SetOnline ==
    /\ SpawnerGoes("online", "end")
    /\ status' = "online"
    /\ SpawnerOnly /\ UNCHANGED <<process, child, send, stop>>

Spawn == StartFails \/ Start \/ SetProcess \/ CheckStopped \/ HelloFails \/ Disposed
            \/ SetExited \/ HelloSucceeds \/ TestStarting \/ SetOnline

-----------------------------------------------------------------------------
ServerNext ==
    \/ \E c \in Commands : Accept(c)
    \/ \E c \in Refreshing : Refresh(c)
    \/ \E s \in Sends : Register(s) \/ Write(s) \/ Receive(s)
    \/ ChildReads \/ ChildDies
    \/ \E s \in Sends, answer \in {"ok", "bad"} : ChildAnswers(s, answer)
    \/ Pump \/ Watch \/ Spawn
    \/ \E d \in Stops : Stop(d) \/ GetProcess(d)
    \/ \E d \in Disposers : Disposing(d)

ServerSpec == ServerInit /\ [][ServerNext]_serverVars

\* Every coroutine of the server goes on, timers fire, and SIGKILL works.
\* Nothing else is asked of the child, and nobody has to call or to stop.
FairServerSpec ==
    /\ ServerSpec
    /\ \A s \in Sends : WF_serverVars(Register(s) \/ Write(s) \/ Receive(s))
    /\ WF_serverVars(Pump) /\ WF_serverVars(Watch) /\ WF_serverVars(Spawn)
    /\ \A d \in Stops : WF_serverVars(GetProcess(d))
    /\ \A d \in Disposers : WF_serverVars(Disposing(d))
    /\ WF_serverVars(killed /\ ChildDies)

-----------------------------------------------------------------------------
(* What the server relies on. *)

\* A result channel has room for one value, and the pump and the watcher put
\* their values there without waiting for the sender: whatever the race
\* between an answer of the child, its exit and a stop, no send gets two
\* values, so neither of the two is ever stuck on a channel.
OneAnswer == \A s \in Sends : Len(result[s]) <= 1

\* Whenever the stop comes, before the child is started, between its start
\* and set_process, or during the handshake, the child does not survive it;
\* and the stop returns, also when the child neither exits nor reads.
StopKills ==
    \A d \in Stops :
        (stop[d] # "idle") ~> (stop[d] = "end" /\ spawner # "start" /\ child # "runs")

\* Once the child is dead, no command waits for ever: each is answered by the
\* child's last lines, refused, or told of the exit.
RequestsReturn ==
    \A s \in Sends :
        (child = "dead" /\ send[s] # "idle") ~> (send[s] \in {"ok", "error"})
=============================================================================
