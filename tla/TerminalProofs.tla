--------------------------- MODULE TerminalProofs ---------------------------
(***************************************************************************)
(* What Terminal promises for any number of coroutines that redraw, any    *)
(* number of writes a text may take and any limit of retries.              *)
(***************************************************************************)
EXTENDS Terminal, TLAPS

\* The labels at which a drawer waits for a write of its own.
Writing == {"drawn1", "drawn", "marking", "lastmark", "restoring", "entering", "byeimages",
            "byekeys"}

\* What a drawer writes at each of them.
TextAt(l) == CASE l \in {"drawn1", "drawn"} -> "frame"
               [] l \in {"marking", "lastmark"} -> "mark"
               [] l = "restoring" -> "restore"
               [] l = "entering" -> "enter"
               [] l = "byeimages" -> "images"
               [] l = "byekeys" -> "keys"

\* A call in progress is the one its thread has made, and a drawer that waits
\* for none has none.
CallInv ==
    /\ \A t \in Threads :
          /\ call[t].at = "idle" => call[t].text = "none"
          /\ call[t].at # "idle" => call[t].left >= 1
          /\ call[t].at = "set" => ~call[t].was
    /\ \A t \in Drawers :
          /\ pc[t] \notin Writing => call[t] = Idle
          /\ pc[t] \in Writing => call[t].at = "idle" \/ call[t].text = TextAt(pc[t])
    /\ \A t \in Painters : pc[t] \in {"idle", "drawn"}
    /\ call["input"].text \in {"none", "keys"}
    /\ call["reader"].text \in {"none", "read"}

TypeInv == TypeOK /\ CallInv

\* Whoever writes a frame or the sequences of restore or reenter has the
\* render lock; the first frame is the exception.
LockInv == \A t \in Drawers : pc[t] \in {"drawn", "restoring", "entering"} => rlock = t

\* While the terminal is given away it is in the shell's hands.
AwayInv ==
    /\ restored => /\ termios = "shell" /\ ~modes
                   /\ \A t \in Drawers :
                        pc[t] \notin {"first", "drawn1", "drawn", "restoring", "entering"}
    /\ pc["ui"] \in {"away", "editing", "reenter"} => restored
    /\ process = "stopped" => pc["ui"] = "reenter"
    /\ process = "exited" => pc["ui"] = "gone" /\ restored
    /\ pc["ui"] = "restoring" /\ call["ui"].at = "idle" /\ call["ui"].got = "ok" => ~modes

-----------------------------------------------------------------------------
(* Types, and the calls in progress *)

\* The results of a call that has returned.
LEMMA IdleType ==
    /\ Idle \in CallSet /\ Idle.text = "none" /\ Idle.at = "idle" /\ Idle.got = "ok"
    /\ ~Idle.was
    /\ Failed \in CallSet /\ Failed.text = "none" /\ Failed.at = "idle" /\ Failed.got = "error"
    /\ ~Failed.was
BY TerminalAssumption DEF Idle, Failed, Call, CallSet

\* What terminal_t.write and terminal_t.read do with the result of a native
\* call: they return, or they go on with the same text and something left.
LEMMA AfterCall ==
    ASSUME TypeInv, NEW t \in Threads, NEW got \in {"ok", "error", "again"},
           NEW left \in 0..Chunks, got # "ok" => left >= 1
    PROVE  LET a == After(t, got, left)
           IN  /\ a \in CallSet
               /\ \/ a = Failed
                  \/ a = Idle /\ got = "ok" /\ (t = "reader" \/ left = 0)
                  \/ a.at = "get" /\ a.text = call[t].text /\ a.left >= 1 /\ ~a.was
<1> USE TerminalAssumption
<1>1. call[t] \in CallSet /\ call[t].stalled \in 0..StallLimit
      /\ call[t].text \in {"none", "frame", "mark", "restore", "enter", "images", "keys", "read"}
  BY DEF TypeInv, TypeOK, CallSet
<1> DEFINE again(stalled) == Call(call[t].text, left, stalled, "get", FALSE, "ok")
<1>2. \A stalled \in 0..StallLimit :
        /\ again(stalled) \in CallSet /\ again(stalled).at = "get"
        /\ again(stalled).text = call[t].text /\ again(stalled).left = left
        /\ ~again(stalled).was
  BY <1>1 DEF Call, CallSet
<1> HIDE DEF again
<1>3. CASE got = "error"
  BY <1>3, IdleType DEF After
<1>4. CASE got = "again" /\ t = "reader"
  <2>1. After(t, got, left) = again(0)
    BY <1>4 DEF After, again
  <2> QED BY <1>2, <1>4, <2>1
<1>5. CASE got = "again" /\ t # "reader" /\ call[t].stalled = StallLimit
  BY <1>5, IdleType DEF After
<1>6. CASE got = "again" /\ t # "reader" /\ call[t].stalled # StallLimit
  <2>1. After(t, got, left) = again(call[t].stalled + 1) /\ call[t].stalled + 1 \in 0..StallLimit
    BY <1>1, <1>6 DEF After, again
  <2> QED BY <1>2, <1>6, <2>1
<1>7. CASE got = "ok" /\ (t = "reader" \/ left = 0)
  BY <1>7, IdleType DEF After
<1>8. CASE got = "ok" /\ ~(t = "reader" \/ left = 0)
  <2>1. After(t, got, left) = again(0)
    BY <1>8 DEF After, again
  <2> QED BY <1>2, <1>8, <2>1
<1> QED BY <1>3, <1>4, <1>5, <1>6, <1>7, <1>8

\* What a native call of one thread does: it changes that call only, which
\* returns or goes on with its text, and the modes only by the text it writes.
NativeEffect(t) ==
    /\ call' = [call EXCEPT ![t] = call'[t]] /\ call'[t] \in CallSet
    /\ call[t].at # "idle"
    /\ \/ call'[t].at = "idle" /\ call'[t].text = "none"
       \/ /\ call'[t].at # "idle" /\ call'[t].text = call[t].text /\ call'[t].left >= 1
          /\ call'[t].at = "set" => ~call'[t].was
      /\ nonblock' \in BOOLEAN /\ stuck' \in BOOLEAN /\ mutex' \in Threads \cup {None} /\ modes' \in BOOLEAN
    /\ call[t].text \notin {"enter", "restore"} => modes' = modes
    /\ call[t].text = "restore" =>
          /\ modes' => modes
          /\ call'[t].at = "idle" /\ call'[t].got = "ok" => ~modes'
    /\ UNCHANGED <<rlock, pc, why, restored, quitting, termios, process>>

\* The call that DoWrite and DoRead leave is one that AfterCall describes.
LEMMA NativeMoves == ASSUME TypeInv, NEW t \in Threads, Native(t) PROVE NativeEffect(t)
<1> USE TerminalAssumption
<1>0. /\ call \in [Threads -> CallSet] /\ call[t] \in CallSet
      /\ nonblock \in BOOLEAN /\ stuck \in BOOLEAN /\ modes \in BOOLEAN /\ mutex \in Threads \cup {None}
      /\ call[t].at # "idle" => call[t].left >= 1
      /\ call[t].left \in 0..Chunks
      /\ call[t].at = "set" => ~call[t].was
  BY DEF TypeInv, TypeOK, CallInv, CallSet
<1>1. CASE GetFlags(t)
  <2>1. call'[t] = Call(call[t].text, call[t].left, call[t].stalled,
                        IF nonblock THEN "do" ELSE "set", nonblock, call[t].got)
    BY <1>0, <1>1 DEF GetFlags
  <2> QED BY <1>0, <1>1, <2>1 DEF GetFlags, NativeEffect, Call, CallSet
<1>2. CASE SetFlags(t)
  BY <1>0, <1>2 DEF SetFlags, NativeEffect, Call, CallSet
<1>3. CASE FlagsFail(t)
  BY <1>0, <1>3, IdleType DEF FlagsFail, NativeEffect
<1>4. CASE Block(t)
  <2>1. call' = [call EXCEPT ![t].at = "blocked"] /\ call[t].at = "do"
    BY <1>4 DEF Block
  <2>2. call'[t] = [call[t] EXCEPT !.at = "blocked"] /\ call' = [call EXCEPT ![t] = call'[t]]
    BY <1>0, <2>1
  <2>3. call'[t] \in CallSet /\ call'[t].text = call[t].text /\ call'[t].left = call[t].left
        /\ call'[t].at = "blocked"
    BY <1>0, <2>2 DEF CallSet
  <2> QED BY <1>0, <1>4, <2>1, <2>2, <2>3 DEF Block, NativeEffect, flags
<1>5. CASE DoWrite(t)
  <2>1. PICK got \in Outcomes, done \in BOOLEAN : \E n \in 1..call[t].left :
          LET left == IF got = "ok" THEN call[t].left - n ELSE call[t].left
          IN  /\ call' = [call EXCEPT ![t] = After(t, Result(t, got, done), left)]
              /\ modes' = IF got = "ok" THEN ModesAfter(call[t].text, left) ELSE modes
              /\ PutBack(t, got, done)
    BY <1>5 DEF DoWrite
  <2>2. PICK n \in 1..call[t].left :
          LET left == IF got = "ok" THEN call[t].left - n ELSE call[t].left
          IN  /\ call' = [call EXCEPT ![t] = After(t, Result(t, got, done), left)]
              /\ modes' = IF got = "ok" THEN ModesAfter(call[t].text, left) ELSE modes
              /\ PutBack(t, got, done)
    BY <2>1
  <2> DEFINE left == IF got = "ok" THEN call[t].left - n ELSE call[t].left
  <2> DEFINE res == Result(t, got, done)
  <2>3. InSystemCall(t) /\ t # "reader" /\ call[t].at # "idle"
    BY <1>5 DEF DoWrite, InSystemCall
  <2>4. left \in 0..Chunks /\ (got # "ok" => left >= 1) /\ got \in {"ok", "error", "again"}
    BY <1>0, <2>3 DEF Outcomes
  <2>5. /\ call' = [call EXCEPT ![t] = After(t, res, left)]
        /\ modes' = IF got = "ok" THEN ModesAfter(call[t].text, left) ELSE modes
        /\ PutBack(t, got, done)
    BY <2>2
  <2>6. res \in {"ok", "error", "again"} /\ (res = got \/ res = "error")
    BY <2>4 DEF Result
  <2>7. res = "ok" => got = "ok"
    BY <2>6
  <2>8. CASE res # "error"
    <3>1. res # "ok" => left >= 1
      BY <2>4, <2>6, <2>8
    <3>2. /\ modes' \in BOOLEAN /\ nonblock' \in BOOLEAN /\ stuck' \in BOOLEAN /\ mutex' = None
          /\ call[t].text \notin {"enter", "restore"} => modes' = modes
          /\ call[t].text = "restore" => (modes' => modes) /\ (res = "ok" /\ left = 0 => ~modes')
      BY <1>0, <1>5, <2>5, <2>7 DEF PutBack, ModesAfter, DoWrite
    <3> HIDE DEF left, res
    <3>3. /\ After(t, res, left) \in CallSet
          /\ \/ After(t, res, left) = Failed
             \/ After(t, res, left) = Idle /\ res = "ok" /\ left = 0
             \/ /\ After(t, res, left).at = "get" /\ After(t, res, left).text = call[t].text
                /\ After(t, res, left).left >= 1 /\ ~After(t, res, left).was
      BY <2>3, <2>4, <2>6, <3>1, AfterCall
    <3>4. call'[t] = After(t, res, left) /\ call' = [call EXCEPT ![t] = call'[t]]
      BY <1>0, <2>5
    <3> QED BY <1>5, <2>3, <3>2, <3>3, <3>4, IdleType DEF NativeEffect, DoWrite
  <2>9. CASE res = "error"
    <3> HIDE DEF left, res
    <3>1. After(t, res, left) = Failed
      BY <2>9 DEF After
    <3> QED BY <2>3, <2>4, <2>5, <3>1, <1>0, <1>5, IdleType
            DEF NativeEffect, DoWrite, PutBack, ModesAfter
  <2> QED BY <2>8, <2>9
<1>6. CASE DoRead(t)
  <2>1. PICK got \in Outcomes, done \in BOOLEAN :
          /\ call' = [call EXCEPT ![t] = After(t, Result(t, got, done), call[t].left)]
          /\ PutBack(t, got, done)
    BY <1>6 DEF DoRead
  <2> DEFINE res == Result(t, got, done)
  <2>2. res \in {"ok", "error", "again"} /\ call[t].at # "idle" /\ call[t].left >= 1
    BY <1>0, <1>6 DEF Outcomes, DoRead, InSystemCall, Result
  <2>3. nonblock' \in BOOLEAN /\ stuck' \in BOOLEAN /\ mutex' = mutex /\ modes' = modes
    BY <1>0, <1>6, <2>1 DEF PutBack, DoRead
  <2>4. call[t].text \in {"none", "read"}
    BY <1>6 DEF DoRead, TypeInv, CallInv
  <2> HIDE DEF res
  <2>5. call'[t] = After(t, res, call[t].left) /\ call' = [call EXCEPT ![t] = call'[t]]
    BY <1>0, <2>1 DEF res
  <2> QED BY <1>0, <1>6, <2>2, <2>3, <2>4, <2>5, AfterCall, IdleType DEF NativeEffect, DoRead
<1> QED BY <1>1, <1>2, <1>3, <1>4, <1>5, <1>6 DEF Native

\* Native calls keep the types.
LEMMA TypeNative == ASSUME TypeInv, NEW t \in Threads, Native(t) PROVE TypeInv'
<1>1. NativeEffect(t)
  BY NativeMoves
<1>2. TypeOK'
  BY <1>1 DEF NativeEffect, TypeInv, TypeOK
<1>3. \A u \in Threads : u # t => call'[u] = call[u]
  BY <1>1 DEF NativeEffect, TypeInv, TypeOK
<1>4. call[t].at # "idle" /\ call[t] # Idle
  BY <1>1, IdleType DEF NativeEffect
<1>5. CallInv'
  BY <1>1, <1>3, <1>4, IdleType DEF NativeEffect, TypeInv, CallInv, Threads, Drawers
<1> QED BY <1>2, <1>5 DEF TypeInv

\* A call that begins has something to transfer.
LEMMA StartCall ==
    ASSUME TypeInv, NEW t \in Threads, NEW text \in {"frame", "mark", "restore", "enter", "images", "keys", "read"},
           Start(t, text)
    PROVE  /\ call' \in [Threads -> CallSet]
           /\ call'[t].at = "get" /\ call'[t].text = text /\ call'[t].left >= 1
           /\ \A u \in Threads : u # t => call'[u] = call[u]
<1> USE TerminalAssumption
<1>1. Call(text, 1, 0, "get", FALSE, "ok") \in CallSet
      /\ Call(text, Chunks, 0, "get", FALSE, "ok") \in CallSet
  BY DEF Call, CallSet
<1>2. call \in [Threads -> CallSet]
  BY DEF TypeInv, TypeOK
<1>3. PICK parts \in {1, Chunks} :
        call' = [call EXCEPT ![t] = Call(text, parts, 0, "get", FALSE, "ok")]
  BY DEF Start
<1>4. Call(text, parts, 0, "get", FALSE, "ok") \in CallSet
  BY <1>1
<1> QED BY <1>2, <1>3, <1>4 DEF Call

\* A call whose result was looked at is no call.
LEMMA DoneCall ==
    ASSUME TypeInv, NEW t \in Threads, Done(t)
    PROVE  /\ call' \in [Threads -> CallSet] /\ call'[t] = Idle
           /\ \A u \in Threads : u # t => call'[u] = call[u]
BY IdleType DEF Done, TypeInv, TypeOK

\* So do the coroutines that read.
LEMMA TypeReaders ==
    ASSUME TypeInv, Read \/ ReadEnds \/ Answer \/ Answered
    PROVE  TypeInv'
<1> USE TerminalAssumption DEF TypeInv, TypeOK, CallInv, Goto, Threads, Drawers, flags
<1>1. CASE Read
  BY <1>1, StartCall DEF Read
<1>2. CASE ReadEnds
  BY <1>2, DoneCall, IdleType DEF ReadEnds
<1>3. CASE Answered
  BY <1>3, DoneCall, IdleType DEF Answered
<1>4. CASE Answer
  BY <1>4, StartCall DEF Answer
<1> QED BY <1>1, <1>2, <1>3, <1>4

\* And the frames.
LEMMA TypeFrames == ASSUME TypeInv, NEW t \in Drawers, Frames(t) PROVE TypeInv'
<1> USE TerminalAssumption DEF TypeInv, TypeOK, CallInv, Goto, Threads, Drawers, flags
<1>1. CASE Paint(t)
  BY <1>1, StartCall DEF Paint, Writing, TextAt
<1>2. CASE Painted(t)
  BY <1>2, DoneCall, IdleType DEF Painted, Rest, Writing
<1> QED BY <1>1, <1>2 DEF Frames

\* The steps of the view's coroutine that nobody else takes.
UiStep == Lifecycle \/ ReenterFails \/ Mark \/ \E w \in {"stop", "edit"} : Leave(w)

\* And the view's own coroutine, on every way in and out.
LEMMA TypeUi == ASSUME TypeInv, UiStep PROVE TypeInv'
<1> USE TerminalAssumption DEF TypeInv, TypeOK, CallInv, Goto, Threads, Drawers, flags, Writing
<1>1. CASE FirstFrame
  BY <1>1, StartCall DEF FirstFrame, TextAt
<1>2. CASE FirstDrawn
  BY <1>2, DoneCall, IdleType DEF FirstDrawn
<1>3. CASE Restore
  BY <1>3, StartCall DEF Restore, TextAt
<1>4. CASE Restored
  BY <1>4, DoneCall, IdleType DEF Restored
<1>5. CASE RestoreFails
  BY <1>5, DoneCall, IdleType DEF RestoreFails
<1>6. CASE Stop \/ Edit \/ Edited
  BY <1>6 DEF Stop, Edit, Edited
<1>7. CASE Reenter
  <2>1. /\ call' \in [Threads -> CallSet]
        /\ call'["ui"].at = "get" /\ call'["ui"].text = "enter" /\ call'["ui"].left >= 1
        /\ \A u \in Threads : u # "ui" => call'[u] = call[u]
    BY <1>7, StartCall DEF Reenter
  <2>2. TextAt("entering") = "enter"
    BY DEF TextAt
  <2>3. pc' = [pc EXCEPT !["ui"] = "entering"] /\ restored' \in BOOLEAN /\ termios' = "raw"
    BY <1>7 DEF Reenter
  <2>4. TypeOK'
    BY <1>7, <2>1, <2>3 DEF Reenter
  <2>5. CallInv'
    BY <2>1, <2>2, <2>3
  <2> QED BY <2>4, <2>5
<1>8. CASE Reentered
  BY <1>8, DoneCall, IdleType DEF Reentered
<1>9. CASE LoopEnds \/ Exit \/ ReenterFails
  BY <1>9 DEF LoopEnds, Exit, ReenterFails
<1>10. CASE Bye
  <2>1. TextAt("byeimages") = "images"
    BY DEF TextAt
  <2>2. CASE Start("ui", "images") /\ Goto("ui", "byeimages")
    BY <1>10, <2>1, <2>2, StartCall DEF Bye
  <2>3. CASE UNCHANGED call /\ Goto("ui", "byemodes")
    BY <1>10, <2>3 DEF Bye
  <2> QED BY <1>10, <2>2, <2>3 DEF Bye
<1>13. CASE ByeModes
  <2>1. TextAt("byekeys") = "keys"
    BY DEF TextAt
  <2>2. CASE Start("ui", "keys") /\ Goto("ui", "byekeys")
    BY <1>13, <2>1, <2>2, StartCall DEF ByeModes
  <2>3. CASE UNCHANGED call /\ Goto("ui", "restore")
    BY <1>13, <2>3 DEF ByeModes
  <2> QED BY <1>13, <2>2, <2>3 DEF ByeModes
<1>14. CASE Mark
  <2>1. TextAt("marking") = "mark" /\ TextAt("lastmark") = "mark"
    BY DEF TextAt
  <2> QED BY <1>14, <2>1, StartCall DEF Mark
<1>11. CASE ByeKeys \/ ByeImages \/ Marked
  BY <1>11, DoneCall, IdleType DEF ByeKeys, ByeImages, Marked
<1>12. ASSUME NEW w \in {"stop", "edit"}, Leave(w) PROVE TypeInv'
  BY <1>12 DEF Leave
<1> QED
  BY <1>1, <1>2, <1>3, <1>4, <1>5, <1>6, <1>7, <1>8, <1>9, <1>10, <1>11, <1>12, <1>13, <1>14
  DEF UiStep, Lifecycle

\* Who may take a step.
LEMMA NextIsStep ==
    ASSUME Next
    PROVE  \/ \E t \in Threads : Native(t)
           \/ \E t \in Drawers : Frames(t)
           \/ UiStep
           \/ Read \/ ReadEnds \/ Answer \/ Answered
           \/ Continue \/ Quit
BY DEF Next, UiStep

\* The types and the calls in progress are an invariant.
LEMMA TypeInvHolds == Spec => []TypeInv
<1>1. Init => TypeInv
  <2> SUFFICES ASSUME Init PROVE TypeInv
    OBVIOUS
  <2> USE TerminalAssumption DEF Init
  <2>1. nonblock \in BOOLEAN /\ stuck \in BOOLEAN /\ restored \in BOOLEAN /\ quitting \in BOOLEAN
        /\ modes \in BOOLEAN
    OBVIOUS
  <2>2. call \in [Threads -> CallSet] /\ \A t \in Threads : call[t] = Idle
    BY IdleType
  <2>3. pc \in [Threads -> {"first", "idle"}] /\ \A t \in Painters : pc[t] = "idle"
    BY DEF Threads
  <2>4. TypeOK
    BY <2>1, <2>2, <2>3 DEF TypeOK
  <2>5. CallInv
    BY <2>2, <2>3, IdleType DEF CallInv, Threads, Drawers, Writing
  <2> QED BY <2>4, <2>5 DEF TypeInv
<1>2. TypeInv /\ [Next]_vars => TypeInv'
  <2> SUFFICES ASSUME TypeInv, [Next]_vars PROVE TypeInv'
    OBVIOUS
  <2>1. CASE Continue \/ Quit \/ UNCHANGED vars
    <3>0. quitting' \in BOOLEAN /\ process' \in {"runs", "stopped", "exited", "failed"}
      BY <2>1 DEF Continue, Quit, vars, TypeInv, TypeOK
    <3>1. TypeOK'
      BY <2>1, <3>0 DEF Continue, Quit, vars, flags, TypeInv, TypeOK
    <3>2. UNCHANGED <<call, pc>>
      BY <2>1 DEF Continue, Quit, vars
    <3>3. CallInv'
      BY <3>2 DEF TypeInv, CallInv
    <3> QED BY <3>1, <3>3 DEF TypeInv
  <2> QED BY <2>1, NextIsStep, TypeNative, TypeFrames, TypeUi, TypeReaders
<1> QED BY <1>1, <1>2, PTL DEF Spec

\* The variables of the terminal keep their types: no write is retried more
\* often than TERM_WRITE_RETRY_LIMIT, and none goes on after its last byte.
THEOREM TerminalTypes == Spec => []TypeOK
BY TypeInvHolds, PTL DEF TypeInv

-----------------------------------------------------------------------------
(* O_NONBLOCK *)

\* Somebody owes the flag.
FlagOwed == nonblock /\ ~stuck => \E t \in Threads : Owes(t)

\* No step takes away the last call that is to put the flag back, unless it
\* puts it back or fails to.
LEMMA FlagsStep ==
    ASSUME TypeInv, FlagOwed, Next PROVE FlagOwed'
<1> USE TerminalAssumption
<1>0. nonblock \in BOOLEAN /\ stuck \in BOOLEAN /\ call \in [Threads -> CallSet]
  BY DEF TypeInv, TypeOK
<1>1. ASSUME nonblock' = nonblock, stuck' = stuck,
             \A t \in Threads : call[t].at # "idle" => call'[t] = call[t]
      PROVE  FlagOwed'
  BY <1>1 DEF FlagOwed, Owes, InSystemCall
<1>2. ASSUME NEW t \in Threads, Native(t) PROVE FlagOwed'
  <2>1. \A u \in Threads : u # t => call'[u] = call[u]
    BY <1>0, <1>2, NativeMoves DEF NativeEffect
  <2>2. CASE GetFlags(t) \/ FlagsFail(t)
    <3>1. ~InSystemCall(t) /\ nonblock' = nonblock /\ stuck' = stuck
      BY <2>2 DEF GetFlags, FlagsFail, InSystemCall
    <3> QED BY <2>1, <3>1 DEF FlagOwed, Owes, InSystemCall
  <2>3. CASE SetFlags(t)
    <3>1. call'[t].at = "do" /\ call'[t].was = call[t].was /\ ~call[t].was
      BY <1>0, <2>3 DEF SetFlags, Call, TypeInv, CallInv
    <3> QED BY <3>1 DEF FlagOwed, Owes, InSystemCall
  <2>4. CASE Block(t)
    BY <1>0, <2>4 DEF Block, FlagOwed, flags
  <2>5. CASE DoWrite(t) \/ DoRead(t)
    <3>1. \E got \in Outcomes, done \in BOOLEAN : PutBack(t, got, done)
      BY <2>5 DEF DoWrite, DoRead
    <3>2. CASE call[t].was
      <4>1. nonblock' = nonblock /\ stuck' = stuck
        BY <1>0, <3>1, <3>2 DEF PutBack
      <4> QED BY <2>1, <3>2, <4>1 DEF FlagOwed, Owes, InSystemCall
    <3>3. CASE ~call[t].was
      <4>1. nonblock' => stuck'
        BY <1>0, <3>1, <3>3 DEF PutBack
      <4> QED BY <4>1 DEF FlagOwed
    <3> QED BY <3>2, <3>3
  <2> QED BY <1>2, <2>2, <2>3, <2>4, <2>5 DEF Native
<1>3. ASSUME NEW t \in Drawers, Frames(t) PROVE FlagOwed'
  <2>1. t \in Threads /\ (pc[t] \notin Writing => call[t].at = "idle")
    BY IdleType DEF TypeInv, CallInv, Drawers, Threads
  <2>2. CASE Paint(t)
    BY <1>1, <2>1, <2>2, StartCall DEF Paint, Rest, Writing, flags
  <2>3. CASE Painted(t)
    BY <1>1, <2>1, <2>3, DoneCall DEF Painted, Returned, flags
  <2> QED BY <1>3, <2>2, <2>3 DEF Frames
<1>4. CASE UiStep
  <2>1. "ui" \in Threads /\ (pc["ui"] \notin Writing => call["ui"].at = "idle")
    BY IdleType DEF TypeInv, CallInv, Drawers, Threads
  <2>2. nonblock' = nonblock /\ stuck' = stuck
    BY <1>4 DEF UiStep, Lifecycle, FirstFrame, FirstDrawn, Restore, Restored, RestoreFails, Stop,
         Edit, Edited, Reenter, Reentered, LoopEnds, Bye, ByeImages, ByeModes,
        ByeKeys, Mark, Marked, Exit, ReenterFails, Leave, flags
  <2>3. CASE call' = call
    BY <1>1, <2>2, <2>3
  <2>4. CASE Done("ui") /\ Returned("ui")
    BY <1>1, <2>1, <2>2, <2>4, DoneCall DEF Returned
  <2>5. CASE /\ \E text \in {"frame", "mark", "restore", "enter", "images", "keys"} : Start("ui", text)
             /\ pc["ui"] \notin Writing
    BY <1>1, <2>1, <2>2, <2>5, StartCall
  <2> QED
    BY <1>4, <2>3, <2>4, <2>5
    DEF UiStep, Lifecycle, FirstFrame, FirstDrawn, Restore, Restored, RestoreFails, Stop, Edit,
        Edited, Reenter, Reentered, LoopEnds, Bye, ByeImages, ByeModes,
        ByeKeys, Mark, Marked, Exit, ReenterFails, Leave, Wrote, Threw,
        Writing
<1>5. CASE Read \/ ReadEnds \/ Answer \/ Answered
  <2>1. {"reader", "input"} \subseteq Threads
    BY DEF Threads
  <2> QED BY <1>1, <1>5, <2>1, StartCall, DoneCall
          DEF Read, ReadEnds, Answer, Answered, Wrote, Returned, flags
<1>6. CASE Continue \/ Quit
  BY <1>1, <1>6 DEF Continue, Quit, flags
<1> QED BY <1>2, <1>3, <1>4, <1>5, <1>6, NextIsStep

-----------------------------------------------------------------------------
(* Frames *)

\* The render lock is held by whoever draws.
LEMMA LockStep == ASSUME TypeInv, LockInv, Next PROVE LockInv'
<1> USE TerminalAssumption DEF LockInv, Drawers
<1>0. DOMAIN pc = Threads /\ pc = [t \in Threads |-> pc[t]]
      /\ "ui" \in Threads /\ Painters \subseteq Threads
      /\ \A t \in Painters : pc[t] \in {"idle", "drawn"}
  BY DEF TypeInv, TypeOK, CallInv, Threads
<1>1. CASE UNCHANGED <<pc, rlock>>
  BY <1>1
<1>2. ASSUME NEW t \in Drawers, Frames(t) PROVE LockInv'
  <2>1. CASE Paint(t)
    BY <1>0, <2>1 DEF Paint, Goto
  <2>2. CASE Painted(t)
    BY <1>0, <2>2 DEF Painted, Goto, Rest
  <2> QED BY <1>2, <2>1, <2>2 DEF Frames
<1>3. CASE UiStep
  <2>1. CASE rlock' = rlock /\ pc' = [pc EXCEPT !["ui"] = pc'["ui"]]
             /\ pc'["ui"] \notin {"drawn", "restoring", "entering"}
    BY <1>0, <2>1
  <2>2. CASE rlock = None /\ rlock' = "ui" /\ pc' = [pc EXCEPT !["ui"] = pc'["ui"]]
    BY <1>0, <2>2
  <2>3. CASE rlock = "ui" /\ pc' = [pc EXCEPT !["ui"] = pc'["ui"]]
             /\ pc'["ui"] \notin {"drawn", "restoring", "entering"}
    BY <1>0, <2>3
  <2> QED
    BY <1>0, <1>3, <2>1, <2>2, <2>3
    DEF UiStep, Lifecycle, FirstFrame, FirstDrawn, Restore, Restored, RestoreFails, Stop, Edit,
        Edited, Reenter, Reentered, LoopEnds, Bye, ByeImages, ByeModes,
        ByeKeys, Mark, Marked, Exit, ReenterFails, Leave, Goto
<1>4. CASE Read \/ ReadEnds \/ Answer \/ Answered
  <2>1. rlock' = rlock /\ \A t \in Drawers : pc'[t] = pc[t]
    BY <1>0, <1>4 DEF Read, ReadEnds, Answered, Answer, Goto
  <2> QED BY <2>1
<1>5. ASSUME NEW t \in Threads, Native(t) PROVE LockInv'
  BY <1>1, <1>5, NativeMoves DEF NativeEffect
<1> QED BY <1>1, <1>2, <1>3, <1>4, <1>5, NextIsStep DEF Continue, Quit

\* The render lock is an invariant.
LEMMA LockInvHolds == Spec => []LockInv
<1>1. Init => LockInv
  BY TerminalAssumption DEF Init, LockInv, Drawers, Threads
<1>2. TypeInv /\ LockInv /\ [Next]_vars => LockInv'
  BY LockStep DEF vars, LockInv
<1> QED BY <1>1, <1>2, TypeInvHolds, PTL DEF Spec

\* Two frames, or a frame and the sequences of restore or reenter, are never
\* mixed up, however many coroutines redraw and however many writes a frame
\* takes; only the first frame of the view is drawn without the lock.
THEOREM FramesNeverMixed == Spec => []FramesWhole
<1>1. TypeInv /\ LockInv => FramesWhole
  <2> SUFFICES ASSUME TypeInv, LockInv, NEW t \in Drawers, NEW u \in Drawers, t # u,
                      Unfinished(t), Unfinished(u)
               PROVE  pc["ui"] = "drawn1"
    BY DEF FramesWhole
  <2>1. ASSUME NEW v \in Drawers, Unfinished(v)
        PROVE  pc[v] \in {"drawn1", "drawn", "restoring", "entering"}
    <3>1. call[v].at # "idle" /\ call[v] # Idle /\ v \in Threads
      BY <2>1, IdleType DEF Unfinished, InPart, TypeInv, CallInv, Threads, Drawers
    <3>2. pc[v] \in Writing /\ call[v].text = TextAt(pc[v]) /\ call[v].text \in {"frame", "restore", "enter"}
      BY <2>1, <3>1 DEF TypeInv, CallInv, Unfinished, InPart
    <3> QED BY <3>2 DEF TextAt, Writing
  <2>2. pc[t] = "drawn1" \/ pc[u] = "drawn1"
    BY <2>1 DEF LockInv
  <2>3. \A v \in Painters : pc[v] # "drawn1"
    BY DEF TypeInv, CallInv
  <2> QED BY <2>2, <2>3 DEF Drawers
<1> QED BY <1>1, TypeInvHolds, LockInvHolds, PTL

-----------------------------------------------------------------------------
(* Who has the terminal *)

\* A native call of anybody but the view writes no sequence that turns the
\* modes on or off, and the view writes them at two places only.
LEMMA TextsOfModes ==
    ASSUME TypeInv, NEW t \in Threads, call[t].text \in {"enter", "restore"}
    PROVE  t = "ui" /\ pc["ui"] = IF call[t].text = "enter" THEN "entering" ELSE "restoring"
<1>1. t \in Drawers /\ call[t].at # "idle" /\ call[t] # Idle
  BY IdleType DEF TypeInv, CallInv, Threads, Drawers
<1>2. pc[t] \in Writing /\ call[t].text = TextAt(pc[t])
  BY <1>1 DEF TypeInv, CallInv
<1>3. pc[t] = IF call[t].text = "enter" THEN "entering" ELSE "restoring"
  BY <1>2 DEF TextAt, Writing
<1>4. t \notin Painters
  BY <1>3 DEF TypeInv, CallInv
<1> QED BY <1>1, <1>3, <1>4 DEF Drawers

\* Native calls leave the terminal with whoever has it.
LEMMA AwayNative == ASSUME TypeInv, AwayInv, NEW t \in Threads, Native(t) PROVE AwayInv'
<1>1. NativeEffect(t) /\ modes \in BOOLEAN
  BY NativeMoves DEF TypeInv, TypeOK
<1>2. \A u \in Threads : u # t => call'[u] = call[u]
  BY <1>1 DEF NativeEffect, TypeInv, TypeOK
<1>3. restored => modes' = modes
  BY <1>1, TextsOfModes DEF NativeEffect, AwayInv, Drawers
<1>4. pc["ui"] = "restoring" /\ t # "ui" => modes' = modes
  BY <1>1, TextsOfModes DEF NativeEffect
<1>5. pc["ui"] = "restoring" /\ t = "ui" => call[t].text = "restore"
  BY <1>1 DEF NativeEffect, TypeInv, CallInv, Drawers, Writing, TextAt
<1>6. "ui" \in Threads
  BY DEF Threads
<1>7. (pc["ui"] = "restoring" /\ call["ui"].at = "idle" /\ call["ui"].got = "ok" => ~modes)'
  <2>1. CASE t = "ui"
    BY <1>1, <1>5, <2>1 DEF NativeEffect
  <2>2. CASE t # "ui"
    BY <1>1, <1>2, <1>4, <1>6, <2>2 DEF NativeEffect, AwayInv
  <2> QED BY <2>1, <2>2
<1> QED BY <1>1, <1>3, <1>7 DEF NativeEffect, AwayInv

\* The view gives the terminal away only after the sequences were written and
\* takes it back before it writes.
LEMMA AwayUi == ASSUME TypeInv, LockInv, AwayInv, UiStep PROVE AwayInv'
<1> USE TerminalAssumption DEF AwayInv, Goto, Runs, Returned, Wrote, Threw, Drawers, flags
<1>0. /\ pc = [t \in Threads |-> pc[t]] /\ "ui" \in Threads /\ Painters \subseteq Threads
      /\ \A t \in Painters : pc[t] \in {"idle", "drawn"}
      /\ process \in {"runs", "stopped", "exited", "failed"}
  BY DEF TypeInv, TypeOK, CallInv, Threads
<1>1. CASE FirstFrame
  <2>1. \A t \in Painters : pc'[t] = pc[t]
    BY <1>0, <1>1 DEF FirstFrame
  <2>2. pc'["ui"] \in {"loop", "drawn1"} /\ ~restored
    BY <1>0, <1>1 DEF FirstFrame
  <2> QED BY <1>0, <1>1, <2>1, <2>2 DEF FirstFrame
<1>2. CASE FirstDrawn
  BY <1>0, <1>2 DEF FirstDrawn
<1>3. CASE Restore
  <2>1. CASE restored
    BY <1>0, <1>3, <2>1 DEF Restore
  <2>2. CASE ~restored
    BY <1>0, <1>3, <2>2, StartCall DEF Restore
  <2> QED BY <2>1, <2>2
<1>4. CASE Restored
  <2>1. \A t \in Painters : pc[t] # "drawn"
    BY <1>0, <1>4 DEF Restored, LockInv
  <2>2. ~modes' /\ termios' = "shell" /\ restored' /\ process' = "runs"
    BY <1>4 DEF Restored
  <2>3. pc' = [pc EXCEPT !["ui"] = "away"]
    BY <1>4 DEF Restored
  <2> QED BY <1>0, <2>1, <2>2, <2>3
<1>5. CASE RestoreFails
  BY <1>0, <1>5 DEF RestoreFails
<1>6. CASE Stop \/ Edit \/ Edited
  BY <1>0, <1>6 DEF Stop, Edit, Edited
<1>7. CASE Reenter
  <2>1. ~restored' /\ process' = "runs" /\ pc' = [pc EXCEPT !["ui"] = "entering"]
    BY <1>7 DEF Reenter
  <2> QED BY <1>0, <2>1
<1>8. CASE Reentered
  BY <1>0, <1>8 DEF Reentered
<1>9. CASE LoopEnds \/ Exit \/ ReenterFails
  BY <1>0, <1>9 DEF LoopEnds, Exit, ReenterFails
<1>10. CASE Bye \/ ByeImages \/ ByeModes \/ ByeKeys \/ Mark \/ Marked
  BY <1>0, <1>10 DEF Bye, ByeImages, ByeModes, ByeKeys, Mark, Marked
<1>11. ASSUME NEW w \in {"stop", "edit"}, Leave(w) PROVE AwayInv'
  BY <1>0, <1>11 DEF Leave
<1> QED
  BY <1>1, <1>2, <1>3, <1>4, <1>5, <1>6, <1>7, <1>8, <1>9, <1>10, <1>11
  DEF UiStep, Lifecycle

\* Everybody else draws nothing while the terminal is given away.
LEMMA AwayStep == ASSUME TypeInv, LockInv, AwayInv, Next PROVE AwayInv'
<1> USE TerminalAssumption
<1>0. /\ pc = [t \in Threads |-> pc[t]] /\ "ui" \in Threads /\ Painters \subseteq Threads
      /\ {"ui", "input", "reader"} \subseteq Threads
  BY DEF TypeInv, TypeOK, Threads
<1>1. ASSUME NEW t \in Drawers, Frames(t) PROVE AwayInv'
  <2>0. t \in Threads
    BY <1>0 DEF Drawers
  <2>1. CASE Paint(t)
    <3>1. ~restored /\ pc' = [pc EXCEPT ![t] = "drawn"] /\ (t = "ui" => pc["ui"] = "loop")
          /\ \A u \in Threads : u # t => call'[u] = call[u]
      BY <2>0, <2>1, StartCall DEF Paint, Goto, Rest
    <3> QED BY <1>0, <2>0, <2>1, <3>1 DEF Paint, AwayInv
  <2>2. CASE Painted(t)
    <3>1. pc[t] = "drawn" /\ pc' = [pc EXCEPT ![t] = Rest(t)]
          /\ \A u \in Threads : u # t => call'[u] = call[u]
      BY <2>0, <2>2, DoneCall DEF Painted, Goto
    <3> QED BY <1>0, <2>0, <2>2, <3>1 DEF Painted, AwayInv, Rest
  <2> QED BY <1>1, <2>1, <2>2 DEF Frames
<1>2. CASE Read \/ ReadEnds \/ Answer \/ Answered
  <2>1. \A t \in Drawers : pc'[t] = pc[t] /\ call'[t] = call[t]
    BY <1>0, <1>2, StartCall, DoneCall DEF Read, ReadEnds, Answered, Answer, Goto, Drawers
  <2>2. UNCHANGED <<restored, termios, modes, process>>
    BY <1>2 DEF Read, ReadEnds, Answered, Answer
  <2> QED BY <2>1, <2>2 DEF AwayInv, Drawers
<1>3. CASE Continue \/ Quit
  BY <1>3 DEF Continue, Quit, AwayInv
<1> QED BY <1>1, <1>2, <1>3, AwayNative, AwayUi, NextIsStep

\* Who has the terminal is an invariant.
LEMMA AwayInvHolds == Spec => []AwayInv
<1>1. Init => AwayInv
  BY TerminalAssumption DEF Init, AwayInv, Threads
<1>2. TypeInv /\ LockInv /\ AwayInv /\ [Next]_vars => AwayInv'
  <2> SUFFICES ASSUME AwayInv, UNCHANGED vars PROVE AwayInv'
    BY AwayStep
  <2> QED BY DEF vars, AwayInv
<1> QED BY <1>1, <1>2, TypeInvHolds, LockInvHolds, PTL DEF Spec

\* No drawer is in a call while the terminal is given away.
LEMMA NobodyDraws ==
    ASSUME TypeInv, AwayInv, GivenAway PROVE restored /\ \A t \in Drawers : call[t] = Idle
<1>1. restored /\ pc["ui"] \in {"reenter", "gone", "editing"}
  BY DEF AwayInv, GivenAway
<1>2. \A t \in Drawers : pc[t] \notin Writing
  BY <1>1 DEF AwayInv, TypeInv, CallInv, Drawers, Writing
<1> QED BY <1>1, <1>2 DEF TypeInv, CallInv

\* When the shell or an editor has the terminal it has it whole: after Ctrl+Z,
\* while an editor runs and after a regular exit, whatever the other coroutines
\* were drawing when the view gave it away.
THEOREM ShellHasTerminal == Spec => []ShellGetsTerminal
<1>1. TypeInv /\ AwayInv => ShellGetsTerminal
  <2> SUFFICES ASSUME TypeInv, AwayInv, GivenAway
               PROVE  termios = "shell" /\ ~modes /\ \A t \in Drawers : call[t].text = "none"
    BY DEF ShellGetsTerminal
  <2> QED BY NobodyDraws, IdleType DEF AwayInv
<1> QED BY <1>1, TypeInvHolds, AwayInvHolds, PTL

-----------------------------------------------------------------------------
(* Who owes the flag *)

\* O_NONBLOCK is set only while a call that found it clear has still to put it
\* back or because putting it back failed, though the read takes no mutex; and
\* while the terminal is given away no call of a drawer owes it.  A read may.
THEOREM NonblockPutBack == Spec => []FlagsRestored
<1>1. Init => FlagOwed
  BY DEF Init, FlagOwed
<1>2. TypeInv /\ FlagOwed /\ [Next]_vars => FlagOwed'
  <2> SUFFICES ASSUME FlagOwed, UNCHANGED vars PROVE FlagOwed'
    BY FlagsStep
  <2> QED BY DEF vars, flags, FlagOwed, Owes, InSystemCall
<1>3. TypeInv /\ AwayInv /\ FlagOwed => FlagsRestored
  <2> SUFFICES ASSUME TypeInv, AwayInv, nonblock, ~stuck, \E t \in Threads : Owes(t)
               PROVE  GivenAway => \E t \in {"reader", "input"} : Owes(t)
    BY DEF FlagOwed, FlagsRestored
  <2>1. PICK t \in Threads : Owes(t)
    OBVIOUS
  <2>2. GivenAway => t \notin Drawers
    BY <2>1, NobodyDraws, IdleType DEF Owes, InSystemCall
  <2> QED BY <2>1, <2>2 DEF Threads, Drawers
<1> QED BY <1>1, <1>2, <1>3, TypeInvHolds, AwayInvHolds, PTL DEF Spec
=============================================================================
