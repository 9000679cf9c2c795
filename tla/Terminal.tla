------------------------------ MODULE Terminal ------------------------------
(***************************************************************************)
(* The terminal of the interactive mode: native/term.c, src/tui/term.n and *)
(* the places of src/tui/session_view.n that read, write, leave and enter  *)
(* it.  The view's own coroutine ("ui") draws frames, hands the terminal   *)
(* to the shell (Ctrl+Z) or to an external editor and takes it back, and   *)
(* gives it back for good when it quits; watchers and the signal handler   *)
(* ("painters") redraw at any time; "input" answers the keyboard           *)
(* negotiation; "reader" polls the keyboard.                               *)
(*                                                                         *)
(* Standard input and output are the one open file description the shell   *)
(* passed on, so they share one O_NONBLOCK flag.  A step is one system     *)
(* call or what one lock section does between two of them; the write or    *)
(* read itself and the call that puts the flag back are one step, since    *)
(* the flag is the same before and after the former.                       *)
(***************************************************************************)
EXTENDS Naturals

CONSTANTS
    Painters,   \* coroutines that redraw besides the view's own
    Chunks,     \* how many writes a text may take
    StallLimit, \* TERM_WRITE_RETRY_LIMIT
    None        \* no lock owner

ASSUME TerminalAssumption ==
    /\ {"ui", "input", "reader"} \cap Painters = {}
    /\ None \notin Painters \cup {"ui", "input", "reader"}
    /\ Chunks \in Nat \ {0} /\ StallLimit \in Nat

Threads == Painters \cup {"ui", "input", "reader"}
Drawers == Painters \cup {"ui"}

VARIABLES
    nonblock,   \* O_NONBLOCK of the open file description
    stuck,      \* the flag is set because the call that was to clear it failed
    mutex,      \* owner of terminal_write_mutex
    call,       \* the native call or terminal_t.write each thread is in
    rlock,      \* owner of view_t.render_lock
    pc,         \* where each thread stands
    why,        \* why the view gives the terminal away
    restored,   \* terminal_t.restored, the opposite of terminal_t.active
    quitting,   \* view_t.quitting
    termios,    \* whose settings the terminal has
    modes,      \* the keyboard protocol or bracketed paste is on
    process     \* "runs", "stopped", "exited" or, with an error, "failed"

flags == <<nonblock, stuck, mutex>>
vars == <<flags, call, rlock, pc, why, restored, quitting, termios, modes, process>>

\* No call; the calls in progress say how far they are and what is left.
Call(text, left, stalled, at, was, got) ==
    [text |-> text, left |-> left, stalled |-> stalled, at |-> at, was |-> was, got |-> got]
Idle == Call("none", 0, 0, "idle", FALSE, "ok")
Failed == Call("none", 0, 0, "idle", FALSE, "error")

\* term.open has entered raw mode and turned the modes on.
Init ==
    /\ nonblock = FALSE /\ stuck = FALSE /\ mutex = None
    /\ call = [t \in Threads |-> Idle]
    /\ rlock = None
    /\ pc = [t \in Threads |-> IF t = "ui" THEN "first" ELSE "idle"]
    /\ why = "exit"
    /\ restored = FALSE /\ quitting = FALSE
    /\ termios = "raw" /\ modes = TRUE
    /\ process = "runs"

Runs == process = "runs"
Goto(t, l) == pc' = [pc EXCEPT ![t] = l]

\* Entering terminal_t.write or adou_term_read.  A text of a few bytes is taken
\* as a whole.
Start(t, text) ==
    LET parts == IF text \in {"keys", "mark", "read"} THEN 1 ELSE Chunks
    IN  call' = [call EXCEPT ![t] = Call(text, parts, 0, "get", FALSE, "ok")]

\* The call has returned, and its result is looked at once.
Done(t) == call' = [call EXCEPT ![t] = Idle]
Returned(t) == Runs /\ call[t].at = "idle"
Wrote(t) == Returned(t) /\ call[t].got = "ok"
Threw(t) == Returned(t) /\ call[t].got = "error"

----------------------------------------------------------------------------
(* adou_term_write and adou_term_read *)

\* pthread_mutex_lock, for a write only, and F_GETFL: a flag that is set is
\* left alone.
GetFlags(t) ==
    /\ Runs /\ call[t].at = "get"
    /\ t # "reader" => mutex = None
    /\ mutex' = IF t = "reader" THEN mutex ELSE t
    /\ call' = [call EXCEPT ![t] = Call(@.text, @.left, @.stalled,
                                        IF nonblock THEN "do" ELSE "set", nonblock, @.got)]
    /\ UNCHANGED <<nonblock, stuck, rlock, pc, why, restored, quitting, termios, modes, process>>

SetFlags(t) ==
    /\ Runs /\ call[t].at = "set"
    /\ nonblock' = TRUE
    /\ call' = [call EXCEPT ![t] = Call(@.text, @.left, @.stalled, "do", @.was, @.got)]
    /\ UNCHANGED <<stuck, mutex, rlock, pc, why, restored, quitting, termios, modes, process>>

\* write() or read() finds the flag cleared, because a call of another thread
\* has put it back in the meantime, and the terminal takes or has no byte: the
\* call sleeps in the kernel, with what its thread holds.
Block(t) ==
    /\ Runs /\ call[t].at = "do"
    /\ ~nonblock
    /\ call' = [call EXCEPT ![t].at = "blocked"]
    /\ UNCHANGED <<flags, rlock, pc, why, restored, quitting, termios, modes, process>>

\* What a text does to the modes once the terminal has seen enough of it.
ModesAfter(text, left) ==
    IF text = "enter" THEN TRUE
    ELSE IF text = "restore" /\ left = 0 THEN FALSE ELSE modes

\* What write() or read() may return: EAGAIN only without blocking.
Outcomes == {"ok", "error"} \cup (IF nonblock THEN {"again"} ELSE {})

\* Where the caller is after a call that returned `got` with `left` to write:
\* terminal_t.write goes on after a part and, up to its limit, after EAGAIN;
\* terminal_t.read sleeps and polls again.
After(t, got, left) ==
    LET again(stalled) == Call(call[t].text, left, stalled, "get", FALSE, "ok")
    IN  CASE got = "error" -> Failed
          [] got = "again" /\ t = "reader" -> again(0)
          [] got = "again" /\ t # "reader" ->
                IF call[t].stalled = StallLimit THEN Failed ELSE again(call[t].stalled + 1)
          [] got = "ok" -> IF t = "reader" \/ left = 0 THEN Idle ELSE again(0)

InSystemCall(t) == call[t].at \in {"do", "blocked"}

\* Mutant: the flag is only put back when bytes were transferred.
PutBackOnSuccess(t, got, done) ==
    /\ nonblock' = (nonblock /\ (call[t].was \/ got # "ok" \/ ~done))
    /\ stuck' = IF call[t].was THEN stuck ELSE nonblock /\ ~done

\* F_SETFL with the flags read at the start, unless the flag was set in them;
\* it is done or it fails.
PutBack(t, got, done) ==
    /\ nonblock' = (nonblock /\ (call[t].was \/ ~done))
    /\ stuck' = IF call[t].was THEN stuck ELSE nonblock /\ ~done

\* What the native function returns: that failure takes the place of any result.
Result(t, got, done) == IF call[t].was \/ done THEN got ELSE "error"

\* write() and the unlock.
DoWrite(t) ==
    /\ Runs /\ InSystemCall(t) /\ t # "reader"
    /\ \E got \in Outcomes, done \in BOOLEAN : \E n \in 1..call[t].left :
          LET left == IF got = "ok" THEN call[t].left - n ELSE call[t].left
          IN  /\ call' = [call EXCEPT ![t] = After(t, Result(t, got, done), left)]
              /\ modes' = IF got = "ok" THEN ModesAfter(call[t].text, left) ELSE modes
              /\ PutBack(t, got, done)
    /\ mutex' = None
    /\ UNCHANGED <<rlock, pc, why, restored, quitting, termios, process>>

\* read(): bytes, the end of the input, an error, or EAGAIN.
DoRead(t) ==
    /\ Runs /\ InSystemCall(t) /\ t = "reader"
    /\ \E got \in Outcomes, done \in BOOLEAN :
          /\ call' = [call EXCEPT ![t] = After(t, Result(t, got, done), call[t].left)]
          /\ PutBack(t, got, done)
    /\ UNCHANGED <<mutex, rlock, pc, why, restored, quitting, termios, modes, process>>

\* F_GETFL or the first F_SETFL fails: nothing was changed, nothing is put back.
FlagsFail(t) ==
    /\ Runs /\ call[t].at = "set"
    /\ mutex' = IF t = "reader" THEN mutex ELSE None
    /\ call' = [call EXCEPT ![t] = Failed]
    /\ UNCHANGED <<nonblock, stuck, rlock, pc, why, restored, quitting, termios, modes, process>>

----------------------------------------------------------------------------
(* The coroutines that read *)

\* read_terminal: the next read, unless the view quits.
Read ==
    /\ Wrote("reader") /\ pc["reader"] = "idle" /\ ~quitting
    /\ Start("reader", "read")
    /\ UNCHANGED <<flags, rlock, pc, why, restored, quitting, termios, modes, process>>

\* The end of the input or an error: the view is told and will quit.
ReadEnds ==
    /\ Returned("reader") /\ pc["reader"] = "idle" /\ Done("reader")
    /\ Goto("reader", "done")
    /\ UNCHANGED <<flags, rlock, why, restored, quitting, termios, modes, process>>

\* read_input: an answer to the keyboard negotiation turns modifyOtherKeys on
\* or off, which nothing here tells apart.
Answer ==
    /\ Returned("input") /\ pc["input"] = "idle"
    /\ pc["reader"] = "idle"
    /\ Start("input", "keys") /\ Goto("input", "answering")
    /\ UNCHANGED <<flags, rlock, why, restored, quitting, termios, modes, process>>

\* A failure is dropped.
Answered ==
    /\ Returned("input") /\ pc["input"] = "answering" /\ Done("input")
    /\ Goto("input", "idle")
    /\ UNCHANGED <<flags, rlock, why, restored, quitting, termios, modes, process>>

----------------------------------------------------------------------------
(* Frames *)

\* run_loop draws the first frame without the render lock.
FirstFrame ==
    /\ Runs /\ pc["ui"] = "first"
    /\ IF quitting THEN Goto("ui", "loop") /\ UNCHANGED call
       ELSE Start("ui", "frame") /\ Goto("ui", "drawn1")
    /\ UNCHANGED <<flags, rlock, why, restored, quitting, termios, modes, process>>

\* If it fails, run throws and the terminal is restored.
FirstDrawn ==
    /\ Returned("ui") /\ pc["ui"] = "drawn1" /\ Done("ui")
    /\ IF call["ui"].got = "ok" THEN Goto("ui", "loop") /\ UNCHANGED why
       ELSE Goto("ui", "bye") /\ why' = "failed"
    /\ UNCHANGED <<flags, rlock, restored, quitting, termios, modes, process>>

\* Where a drawer is between two frames.
Rest(t) == IF t = "ui" THEN "loop" ELSE "idle"

\* Mutant: write_terminal does not look whether the terminal was given away.
PaintRegardless(t) ==
    /\ Runs /\ pc[t] = Rest(t)
    /\ rlock = None /\ ~quitting
    /\ rlock' = t /\ Start(t, "frame") /\ Goto(t, "drawn")
    /\ UNCHANGED <<flags, why, restored, quitting, termios, modes, process>>

\* Mutant: redraw does not take the lock.
PaintUnlocked(t) ==
    /\ Runs /\ pc[t] = Rest(t)
    /\ ~quitting /\ ~restored
    /\ Start(t, "frame") /\ Goto(t, "drawn")
    /\ UNCHANGED <<flags, rlock, why, restored, quitting, termios, modes, process>>

\* redraw takes the render lock, write_terminal looks at the view's flags and
\* draws nothing while the view quits or the terminal is given away.
Paint(t) ==
    /\ Runs /\ pc[t] = Rest(t)
    /\ rlock = None
    /\ ~quitting /\ ~restored
    /\ rlock' = t /\ Start(t, "frame") /\ Goto(t, "drawn")
    /\ UNCHANGED <<flags, why, restored, quitting, termios, modes, process>>

\* A frame that failed is reported in the next one.
Painted(t) ==
    /\ Returned(t) /\ pc[t] = "drawn" /\ Done(t)
    /\ rlock' = IF rlock = t THEN None ELSE rlock
    /\ Goto(t, Rest(t))
    /\ UNCHANGED <<flags, why, restored, quitting, termios, modes, process>>

\* consume_stream marks the progress of a run at its start and at its end, and
\* the settings show or hide the cursor: short texts of the view's coroutine,
\* without the render lock and whether or not the terminal was given away.
\* The mark at the end is written even if the view quits, as its last one.
Mark ==
    /\ Runs /\ pc["ui"] = "loop"
    /\ Start("ui", "mark") /\ Goto("ui", IF quitting THEN "lastmark" ELSE "marking")
    /\ UNCHANGED <<flags, rlock, why, restored, quitting, termios, modes, process>>

\* A failure is dropped.
Marked ==
    /\ Returned("ui") /\ pc["ui"] \in {"marking", "lastmark"} /\ Done("ui")
    /\ Goto("ui", IF pc["ui"] = "marking" THEN "loop" ELSE "bye")
    /\ UNCHANGED <<flags, rlock, why, restored, quitting, termios, modes, process>>

----------------------------------------------------------------------------
(* Giving the terminal away and taking it back *)

\* suspend_terminal, open_external_editor
Leave(w) ==
    /\ Runs /\ pc["ui"] = "loop" /\ ~quitting
    /\ why' = w
    /\ Goto("ui", "restore")
    /\ UNCHANGED <<flags, call, rlock, restored, quitting, termios, modes, process>>

\* restore_terminal takes the render lock, terminal_t.restore writes unless
\* the terminal is restored already.
Restore ==
    /\ Runs /\ pc["ui"] = "restore"
    /\ rlock = None
    /\ IF restored
       THEN Goto("ui", "away") /\ UNCHANGED <<rlock, call>>
       ELSE rlock' = "ui" /\ Start("ui", "restore") /\ Goto("ui", "restoring")
    /\ UNCHANGED <<flags, why, restored, quitting, termios, modes, process>>

\* adou_term_restore_raw
Restored ==
    /\ Wrote("ui") /\ pc["ui"] = "restoring" /\ Done("ui")
    /\ termios' = "shell"
    /\ restored' = TRUE
    /\ rlock' = None
    /\ Goto("ui", "away")
    /\ UNCHANGED <<flags, why, quitting, modes, process>>

\* Mutant: a failure leaves the render lock taken.
RestoreFailsLocked ==
    /\ Threw("ui") /\ pc["ui"] = "restoring" /\ Done("ui")
    /\ IF why \in {"stop", "edit"} THEN Goto("ui", "loop") /\ UNCHANGED process
       ELSE Goto("ui", "gone") /\ process' = "failed"
    /\ why' = "exit"
    /\ UNCHANGED <<flags, rlock, restored, quitting, termios, modes>>

\* The sequences could not be written: the view goes on, or ends all the same.
RestoreFails ==
    /\ Threw("ui") /\ pc["ui"] = "restoring" /\ Done("ui")
    /\ rlock' = None
    /\ IF why \in {"stop", "edit"} THEN Goto("ui", "loop") /\ UNCHANGED process
       ELSE Goto("ui", "gone") /\ process' = "failed"
    /\ why' = "exit"
    /\ UNCHANGED <<flags, restored, quitting, termios, modes>>

\* kill(0, SIGTSTP) stops every thread of the process where it is.
Stop ==
    /\ Runs /\ pc["ui"] = "away" /\ why = "stop"
    /\ process' = "stopped"
    /\ Goto("ui", "reenter")
    /\ why' = "exit"
    /\ UNCHANGED <<flags, call, rlock, restored, quitting, termios, modes>>

Continue ==
    /\ process = "stopped"
    /\ process' = "runs"
    /\ UNCHANGED <<flags, call, rlock, pc, why, restored, quitting, termios, modes>>

\* The editor runs while the other coroutines go on.
Edit ==
    /\ Runs /\ pc["ui"] = "away" /\ why = "edit"
    /\ Goto("ui", "editing")
    /\ UNCHANGED <<flags, call, rlock, why, restored, quitting, termios, modes, process>>

\* The editor has ended, or could not be started.
Edited ==
    /\ Runs
    /\ pc["ui"] \in {"editing", "away"} /\ why = "edit"
    /\ Goto("ui", "reenter")
    /\ why' = "exit"
    /\ UNCHANGED <<flags, call, rlock, restored, quitting, termios, modes, process>>

\* reenter_terminal
Reenter ==
    /\ Runs /\ pc["ui"] = "reenter"
    /\ rlock = None
    /\ rlock' = "ui"
    /\ termios' = "raw"
    /\ restored' = FALSE
    /\ Start("ui", "enter") /\ Goto("ui", "entering")
    /\ UNCHANGED <<flags, why, quitting, modes, process>>

\* adou_term_enter_raw fails: the view goes on without the terminal.
ReenterFails ==
    /\ Runs /\ pc["ui"] = "reenter"
    /\ rlock = None
    /\ Goto("ui", "loop")
    /\ UNCHANGED <<flags, call, rlock, why, restored, quitting, termios, modes, process>>

Reentered ==
    /\ Returned("ui") /\ pc["ui"] = "entering" /\ Done("ui")
    /\ rlock' = None
    /\ Goto("ui", "loop")
    /\ UNCHANGED <<flags, why, restored, quitting, termios, modes, process>>

----------------------------------------------------------------------------
(* The end *)

\* A quit command, a signal, or the end of the input.
Quit ==
    /\ Runs /\ ~quitting
    /\ quitting' = TRUE
    /\ UNCHANGED <<flags, call, rlock, pc, why, restored, termios, modes, process>>

LoopEnds ==
    /\ Runs /\ pc["ui"] = "loop" /\ quitting
    /\ Goto("ui", "bye")
    /\ UNCHANGED <<flags, call, rlock, why, restored, quitting, termios, modes, process>>

\* restore_terminal_sync first removes the images, if there are any, and
\* turns modifyOtherKeys off, if it is on, without the lock; failures are dropped.
Bye ==
    /\ Runs /\ pc["ui"] = "bye"
    /\ \/ Start("ui", "images") /\ Goto("ui", "byeimages")
       \/ UNCHANGED call /\ Goto("ui", "byemodes")
    /\ UNCHANGED <<flags, rlock, why, restored, quitting, termios, modes, process>>

ByeImages ==
    /\ Returned("ui") /\ pc["ui"] = "byeimages" /\ Done("ui")
    /\ Goto("ui", "byemodes")
    /\ UNCHANGED <<flags, rlock, why, restored, quitting, termios, modes, process>>

ByeModes ==
    /\ Runs /\ pc["ui"] = "byemodes"
    /\ \/ Start("ui", "keys") /\ Goto("ui", "byekeys")
       \/ UNCHANGED call /\ Goto("ui", "restore")
    /\ UNCHANGED <<flags, rlock, why, restored, quitting, termios, modes, process>>

ByeKeys ==
    /\ Returned("ui") /\ pc["ui"] = "byekeys" /\ Done("ui")
    /\ Goto("ui", "restore")
    /\ UNCHANGED <<flags, rlock, why, restored, quitting, termios, modes, process>>

Exit ==
    /\ Runs /\ pc["ui"] = "away" /\ why \in {"exit", "failed"}
    /\ process' = IF why = "exit" THEN "exited" ELSE "failed"
    /\ Goto("ui", "gone")
    /\ UNCHANGED <<flags, call, rlock, why, restored, quitting, termios, modes>>

Native(t) ==
    GetFlags(t) \/ SetFlags(t) \/ Block(t) \/ DoWrite(t) \/ DoRead(t) \/ FlagsFail(t)

\* A call that blocks returns when the terminal takes or has a byte, or never.
Moves(t) == call[t].at # "blocked" /\ Native(t)

Frames(t) == Paint(t) \/ Painted(t)

\* What the view's coroutine does without being asked.
Lifecycle ==
    \/ FirstFrame \/ FirstDrawn \/ Marked
    \/ Restore \/ Restored \/ RestoreFails
    \/ Stop \/ Edit \/ Edited
    \/ Reenter \/ Reentered
    \/ LoopEnds \/ Bye \/ ByeImages \/ ByeModes \/ ByeKeys \/ Exit

Next ==
    \/ \E t \in Threads : Native(t)
    \/ \E t \in Drawers : Frames(t)
    \/ Lifecycle \/ ReenterFails \/ Mark \/ Continue \/ Quit
    \/ \E w \in {"stop", "edit"} : Leave(w)
    \/ Read \/ ReadEnds \/ Answer \/ Answered

\* A coroutine that can go on does, and one that waits for a lock gets it in
\* the end; the editor ends, and somebody continues a stopped process.
\* A call that blocks need not return, and nobody has to read, to draw, to
\* leave or to quit.
Fairness ==
    /\ SF_vars(Moves("ui") \/ Painted("ui") \/ Lifecycle)
    /\ \A t \in Painters : SF_vars(Moves(t) \/ Painted(t))
    /\ SF_vars(Moves("input"))
    /\ WF_vars(Continue)

Spec == Init /\ [][Next]_vars

FairSpec == Spec /\ Fairness

----------------------------------------------------------------------------
(* Properties *)

CallSet ==
    [text : {"none", "frame", "mark", "restore", "enter", "images", "keys", "read"},
     left : 0..Chunks, stalled : 0..StallLimit,
     at : {"idle", "get", "set", "do", "blocked"}, was : BOOLEAN, got : {"ok", "error"}]

TypeOK ==
    /\ nonblock \in BOOLEAN /\ stuck \in BOOLEAN /\ mutex \in Threads \cup {None}
    /\ call \in [Threads -> CallSet]
    /\ rlock \in Threads \cup {None}
    /\ pc \in [Threads -> {"first", "drawn1", "loop", "idle", "drawn", "answering",
                           "done", "restore", "restoring", "away", "editing", "reenter",
                           "entering", "marking", "lastmark", "bye", "byeimages",
                           "byemodes", "byekeys", "gone"}]
    /\ why \in {"exit", "failed", "stop", "edit"}
    /\ restored \in BOOLEAN /\ quitting \in BOOLEAN
    /\ termios \in {"raw", "shell"} /\ modes \in BOOLEAN
    /\ process \in {"runs", "stopped", "exited", "failed"}

\* The shell has the terminal (after Ctrl+Z, after a regular exit), or an editor.
GivenAway == process \in {"stopped", "exited"} \/ pc["ui"] = "editing"

\* A call that found the flag clear, set it and has not put it back.
Owes(t) == ~call[t].was /\ InSystemCall(t)

\* Whatever the calls of adou_term_write and of adou_term_read, which takes no
\* mutex, see of each other's changes, O_NONBLOCK never stays set by mistake:
\* it is set only while a call that found it clear has still to put it back, or
\* because putting it back failed; and when the terminal is given away the call
\* that owes it is one of the reader or of the keyboard negotiation, never a
\* drawer's.  This is not what the comment above adou_term_write wants: such a
\* call may be stopped, or its process end, before it puts the flag back.
FlagsRestored ==
    nonblock /\ ~stuck =>
        /\ \E t \in Threads : Owes(t)
        /\ GivenAway => \E t \in {"reader", "input"} : Owes(t)

\* The comment above adou_term_write: the flags are restored before returning,
\* since "a leaked O_NONBLOCK would be inherited by editor children".  It does
\* not hold: see FlagsRestored.
ShellGetsBlocking == GivenAway => ~nonblock

\* When the shell or an editor has the terminal, it has the shell's settings,
\* the keyboard protocol and bracketed paste are off and no text of the view
\* or of a painter is under way.
ShellGetsTerminal ==
    GivenAway =>
        /\ termios = "shell" /\ ~modes
        /\ \A t \in Drawers : call[t].text = "none"

\* A text of which the terminal has seen a part only.
InPart(t) == call[t].at # "idle" /\ call[t].left \in 1..(Chunks - 1)
Unfinished(t) == InPart(t) /\ call[t].text \in {"frame", "restore", "enter"}

\* Two frames, or a frame and the sequences of restore or reenter, are never
\* mixed up: while one is written in parts no part of another is written.
\* The first frame is drawn without the lock.  Of the texts that never take it
\* (the marks, the removal of the images, the answers of read_input) nothing
\* is said here.
FramesWhole ==
    \A t, u \in Drawers : t # u /\ Unfinished(t) /\ Unfinished(u) => pc["ui"] = "drawn1"

\* The same with the images, which are removed without the lock.  It does not
\* hold: their sequences may fall between two parts of a painter's frame.
TextsWhole ==
    LET parted == {t \in Drawers : Unfinished(t) \/ (InPart(t) /\ call[t].text = "images")}
    IN  \A t, u \in parted : t # u => pc["ui"] = "drawn1"

\* No native call blocks for ever, with the mutex, the render lock or the
\* processor it runs on.
NoCallHangs == \A t \in Threads : []<>(call[t].at # "blocked")

\* Once the view quits the process ends, even if every write of the way out
\* stalls to its limit or fails: no error path keeps a lock.  It does take that
\* no call which finds O_NONBLOCK cleared blocks for ever.
QuitEnds == NoCallHangs => (quitting ~> process \in {"exited", "failed"})

\* Without that it does not hold: a write of the way out may be such a call.
QuitAlwaysEnds == quitting ~> process \in {"exited", "failed"}

\* The comment above adou_term_read: "Read one chunk without blocking the
\* Nature processor"; the one above adou_term_write says that its caller
\* sleeps "instead of blocking the whole processor".  It does not hold: a read
\* and a write that overlap clear each other's flag.
NeverBlocks == \A t \in Threads : call[t].at # "blocked"
=============================================================================
