------------------------- MODULE ConfigStoreProofs -------------------------
(***************************************************************************)
(* What ConfigStore promises for any number of processes, coroutines,      *)
(* entries, temporary names and faults.                                    *)
(***************************************************************************)
EXTENDS ConfigStore, TLAPS

Section == {"locked", "read", "created", "filled", "renamed"}
Unwritten == {"ready", "lock", "locked", "read", "created"}

\* The types, and what each label says of the variables of its task.
NameInv ==
    \A t \in Tasks :
        /\ pc[t] \in {"ready", "lock", "locked", "read"} => name[t] = 0
        /\ pc[t] \in {"created", "filled", "renamed"} => name[t] \in 1..Attempts

TypeInv == TypeOK /\ NameInv

\* Who is between O_EXCL and rename finds under its name the file it has
\* created, and in it, once written, the whole document.
OwnTemp ==
    \A t \in Tasks :
        /\ pc[t] \in {"created", "filled"} => Temp(t) # Nothing /\ Temp(t).by = t
        /\ pc[t] = "filled" => Temp(t).doc = NewDoc(t) /\ Temp(t).synced

\* What the name of the file leads to, or may lead to after a power loss, is
\* whole and on the disk, and no descriptor that is still written to leads there.
Whole(f) == f.doc # Torn /\ f.synced /\ \A t \in Tasks : pc[t] \in Unwritten => f.by # t
AllWhole == Whole(file) /\ \A m \in maybe : Whole(m)

\* A write fails after its rename, that is, the directory cannot be opened or
\* synchronised, only while no other coroutine of its process is between
\* O_EXCL and rename: what the unlink at the end of adou_auth_atomic_write
\* removes is then nobody's file.
UnlinksNothing ==
    \A t, u \in Tasks :
        pc[t] = "renamed" /\ pc'[t] = "failed" /\ Proc[u] = Proc[t]
            => pc[u] \notin {"created", "filled"}

\* One coroutine in the section, and it has the lock.
Alone ==
    \A t \in Tasks :
        pc[t] \in Section => owner = Proc[t] /\ \A u \in Tasks : pc[u] \in Section => u = t

\* What is about to be written was computed from the file as it is, and a
\* refresh found there the token it started from, or none.
BaseInv ==
    \A t \in Tasks : pc[t] \in {"read", "created", "filled"} =>
        /\ Kind[t] # "late" => base[t] = file.doc
        /\ Kind[t] = "refresh" /\ IsOAuth(base[t][Key[t]]) => base[t][Key[t]] = prev[t]

\* As long as no update may have been lost.
UpdateInv == ~excused => Alone /\ OwnTemp /\ AllWhole /\ BaseInv /\ file.doc = want

\* The replacements are counted, and no name that a synchronised directory
\* has given up comes back.
RevInv ==
    \A t \in Tasks :
        /\ pc[t] \in Unwritten \cup {"filled"} => rev[t] = 0
        /\ pc[t] \in {"renamed", "invalidate", "done"} => rev[t] <= file.rev
        /\ pc[t] \in {"invalidate", "done"} => \A m \in maybe : rev[t] <= m.rev

-----------------------------------------------------------------------------
(* Types *)

\* The steps of one call, and those of a process as a whole.
TaskStep(t) == Step(t) \/ ReadFails(t) \/ WriteFails(t)
ProcStep(p) == CacheMiss(p) \/ CacheFill(p) \/ Kill(p)

\* The document a call computes is a document.
LEMMA NewDocType == ASSUME TypeInv, NEW t \in Tasks PROVE NewDoc(t) \in Docs
BY StoreAssumption DEF TypeInv, TypeOK, NewDoc, Docs

\* What writing through a descriptor does to a file: its owner and its number
\* stay, and it is whole if it was written to.
LEMMA WrittenFile ==
    ASSUME TypeInv, NEW t \in Tasks, NEW f \in Files
    PROVE  LET w == Written(t, f)
           IN  /\ w \in Files /\ w.by = f.by /\ w.rev = f.rev
               /\ f.by = t => w.doc = NewDoc(t) /\ w.synced
               /\ f.by # t => w = f
BY NewDocType, StoreAssumption DEF Written, Files

\* A name that leads nowhere stays that way.
LEMMA WrittenNothing ==
    ASSUME NEW t \in Tasks PROVE Written(t, Nothing) = Nothing
BY DEF Written

\* The temporary file of a call that has created one.
LEMMA TempType ==
    ASSUME TypeInv, NEW t \in Tasks, pc[t] \in {"created", "filled", "renamed"}
    PROVE  name[t] \in 1..Attempts /\ Temp(t) \in Files \cup {Nothing}
BY StoreAssumption DEF TypeInv, TypeOK, NameInv, Temp

\* Every call of read_root and of atomic_write keeps the types.
LEMMA TypeTask == ASSUME TypeInv, NEW t \in Tasks, TaskStep(t) PROVE TypeInv'
<1> USE StoreAssumption DEF TypeInv, NameInv, TypeOK, At, Goto, End, Over, disk, tasks,
        snapshot, history
<1> Empty \in Docs /\ Parsed \in Docs
  BY DEF Empty, Parsed, Docs, Files
<1>1. CASE Ask(t)
  <2>1. cached[Proc[t]][Key[t]] \in Tasks \cup {None, Old}
    BY DEF Docs
  <2>2. CASE End(t, "done")
    BY <1>1, <2>2 DEF Ask
  <2>3. CASE Goto(t, "lock") /\ prev' = [prev EXCEPT ![t] = cached[Proc[t]][Key[t]]]
             /\ UNCHANGED <<base, name>>
    BY <1>1, <2>1, <2>3 DEF Ask
  <2> QED BY <1>1, <2>2, <2>3 DEF Ask
<1>2. CASE ReadEarly(t)
  BY <1>2 DEF ReadEarly
<1>3. CASE Lock(t)
  BY <1>3 DEF Lock, Locks
<1>4. ASSUME NEW doc \in Docs, At(t, "locked"), Found(t, doc), excused' \in BOOLEAN,
             faults' \in 0..MaxFaults
      PROVE  TypeInv'
  <2>1. CASE Goto(t, "read") /\ base' = [base EXCEPT ![t] = doc]
             /\ UNCHANGED <<owner, cached, valid, prev, name>>
    BY <1>4, <2>1 DEF Found
  <2>2. CASE End(t, "done") /\ Released(t) /\ DropFromSnapshot(t)
    <3>1. cached' \in [Procs -> Docs] /\ valid' \in [Procs -> BOOLEAN]
      <4>1. [cached[Proc[t]] EXCEPT ![Key[t]] = None] \in Docs
        BY DEF Docs
      <4>2. CASE UNCHANGED <<cached, valid>>
        BY <4>2
      <4>3. CASE /\ cached' = [cached EXCEPT ![Proc[t]][Key[t]] = None]
                 /\ valid' = [valid EXCEPT ![Proc[t]] = TRUE]
        BY <4>1, <4>3
      <4> QED BY <2>2, <4>2, <4>3 DEF DropFromSnapshot
    <3> QED BY <1>4, <2>2, <3>1 DEF Found, Released
  <2> QED BY <1>4, <2>1, <2>2 DEF Found
<1>5. CASE Read(t)
  BY <1>4, <1>5 DEF Read
<1>6. CASE ReadFails(t)
  BY <1>4, <1>6 DEF ReadFails
<1>7. CASE Create(t)
  BY <1>7 DEF Create, Fresh, Files
<1>8. CASE Fill(t)
  <2>1. \A f \in Files : Written(t, f) \in Files
    BY WrittenFile
  <2>2. file' \in Files /\ maybe' \subseteq Files
    BY <1>8, <2>1 DEF Fill
  <2>3. temp' \in [Procs -> [1..Attempts -> Files \cup {Nothing}]]
    BY <1>8, <2>1, WrittenNothing DEF Fill
  <2> QED BY <1>8, <2>2, <2>3 DEF Fill
<1>9. CASE Rename(t)
  <2>1. file' \in Files
    BY <1>9, TempType DEF Rename, Files
  <2>2. want' \in Docs
    BY <1>9, NewDocType DEF Rename, Docs
  <2> QED BY <1>9, <2>1, <2>2, TempType DEF Rename, Files
<1>10. CASE SyncParent(t)
  BY <1>10 DEF SyncParent, Released
<1>11. CASE WriteFails(t)
  BY <1>11 DEF WriteFails, Released, Unlinked
<1>12. CASE RenameFails(t)
  BY <1>12 DEF RenameFails, Released
<1>13. CASE Invalidate(t)
  BY <1>13 DEF Invalidate
<1> QED
  BY <1>1, <1>2, <1>3, <1>5, <1>6, <1>7, <1>8, <1>9, <1>10, <1>11, <1>12, <1>13
  DEF TaskStep, Step

\* So does the end of processes, by a kill or a power loss.
LEMMA TypeDie ==
    ASSUME TypeInv, NEW P \in SUBSET Procs, faults < MaxFaults, Die(P),
           file' \in Files, maybe' \subseteq Files, temp' = temp, want' \in Docs, rev' = rev,
           excused' = excused
    PROVE  TypeInv'
<1> USE StoreAssumption DEF TypeInv, NameInv, TypeOK, Over
<1> Empty \in Docs
  BY DEF Empty, Docs
<1>1. valid' \in [Procs -> BOOLEAN]
  BY DEF Die
<1>2. pc' \in [Tasks -> Over \cup {"ready", "lock", "locked", "read", "created", "filled",
                                  "renamed", "invalidate"}]
  BY DEF Die
<1>3. base' \in [Tasks -> Docs] /\ prev' \in [Tasks -> Tasks \cup {None, Old}]
      /\ name' \in [Tasks -> 0..Attempts]
  BY DEF Die
<1>4. cached' \in [Procs -> Docs] /\ filling' \in [Procs -> Docs \cup {Torn, Nothing}]
  BY DEF Die
<1>5. NameInv'
  BY DEF Die
<1>6. owner' \in Procs \cup {None} /\ alive' \subseteq Procs /\ faults' \in 0..MaxFaults
  BY DEF Die
<1> QED BY <1>1, <1>2, <1>3, <1>4, <1>5, <1>6

\* The snapshot of a process, and its end, keep the types.
LEMMA TypeProc == ASSUME TypeInv, NEW p \in Procs, ProcStep(p) PROVE TypeInv'
<1> USE StoreAssumption DEF disk, tasks, snapshot, history
<1>1. CASE CacheMiss(p)
  BY <1>1 DEF CacheMiss, TypeInv, NameInv, TypeOK, Files
<1>2. CASE CacheFill(p)
  BY <1>2 DEF CacheFill, TypeInv, NameInv, TypeOK
<1>3. CASE Kill(p)
  BY <1>3, TypeDie DEF Kill, TypeInv, TypeOK
<1> QED BY <1>1, <1>2, <1>3 DEF ProcStep

\* A power loss leaves a file of some kind.
LEMMA TypePower == ASSUME TypeInv, PowerLoss PROVE TypeInv'
<1>1. PICK m \in maybe :
        /\ file' = IF m.synced THEN m
                   ELSE [doc |-> Torn, synced |-> FALSE, rev |-> m.rev, by |-> m.by]
        /\ maybe' = {file'}
  BY DEF PowerLoss
<1>2. file' \in Files
  BY <1>1 DEF TypeInv, TypeOK, Files
<1>3. want' \in Docs
  BY <1>2 DEF PowerLoss, TypeInv, TypeOK, Files
<1> QED BY <1>1, <1>2, <1>3, TypeDie DEF PowerLoss

\* Every step is one of a call, of a process, or a power loss.
LEMMA NextIsStep ==
    ASSUME Next
    PROVE  (\E t \in Tasks : TaskStep(t)) \/ (\E p \in Procs : ProcStep(p)) \/ PowerLoss
BY DEF Next, TaskStep, ProcStep

\* The types hold at the start.
LEMMA TypeInit == Init => TypeInv
<1> SUFFICES ASSUME Init PROVE TypeInv
  OBVIOUS
<1> USE StoreAssumption DEF Init
<1> Empty \in Docs /\ Initial \in Docs
  BY DEF Empty, Initial, Docs
<1>1. file \in Files /\ maybe \subseteq Files
  BY DEF Files
<1>2. valid \in [Procs -> BOOLEAN] /\ excused \in BOOLEAN
  OBVIOUS
<1>3. temp \in [Procs -> [1..Attempts -> Files \cup {Nothing}]]
  OBVIOUS
<1>4. base \in [Tasks -> Docs] /\ prev \in [Tasks -> Tasks \cup {None, Old}]
      /\ cached \in [Procs -> Docs] /\ filling \in [Procs -> Docs \cup {Torn, Nothing}]
  OBVIOUS
<1>5. pc \in [Tasks -> {"ready"}] /\ name \in [Tasks -> {0}] /\ rev \in [Tasks -> {0}]
  OBVIOUS
<1> QED BY <1>1, <1>2, <1>3, <1>4, <1>5 DEF TypeInv, TypeOK, NameInv, Over

\* The types are an invariant.
LEMMA TypeInvHolds == Spec => []TypeInv
<1>1. TypeInv /\ [Next]_vars => TypeInv'
  <2> SUFFICES ASSUME TypeInv, [Next]_vars PROVE TypeInv'
    OBVIOUS
  <2>1. CASE Next
    BY <2>1, NextIsStep, TypeTask, TypeProc, TypePower
  <2>2. CASE UNCHANGED vars
    BY <2>2 DEF vars, disk, tasks, snapshot, history, TypeInv, TypeOK, NameInv, Over
  <2> QED BY <2>1, <2>2
<1> QED BY TypeInit, <1>1, PTL DEF Spec

\* The variables of the store keep their types, whatever fails: a document is
\* read, computed and stored whole or marked as torn, never anything else.
THEOREM StoreTypes == Spec => []TypeOK
BY TypeInvHolds, PTL DEF TypeInv

-----------------------------------------------------------------------------
(* The lock *)

\* A step of one call leaves what the other calls know alone.
LEMMA OthersStay ==
    ASSUME TypeInv, NEW t \in Tasks, TaskStep(t), NEW u \in Tasks, u # t
    PROVE  /\ pc'[u] = pc[u] /\ base'[u] = base[u] /\ prev'[u] = prev[u]
           /\ name'[u] = name[u] /\ rev'[u] = rev[u] /\ alive' = alive
BY DEF TaskStep, Step, TypeInv, TypeOK, Ask, ReadEarly, Lock, Read, ReadFails, Found, Create, Fill,
       Rename, SyncParent, WriteFails, RenameFails, Invalidate, Goto, End, disk, tasks, snapshot,
       history

\* The label a call goes to, and what becomes of the lock.
LEMMA LockMoves ==
    ASSUME TypeInv, NEW t \in Tasks, TaskStep(t)
    PROVE  \/ Lock(t) /\ pc'[t] \in {"read", "locked"} /\ owner' = Proc[t] /\ Proc[t] \in alive
           \/ pc[t] \notin Section /\ pc'[t] \notin Section /\ owner' = owner
           \/ pc[t] \in Section /\ pc'[t] \in Section /\ owner' = owner
           \/ pc[t] \in Section /\ pc'[t] \notin Section
              /\ owner' = IF owner = Proc[t] THEN None ELSE owner
<1> USE DEF TypeInv, TypeOK, At, Goto, End, Section, Released, disk, tasks, snapshot, history
<1>1. CASE Lock(t)
  BY <1>1 DEF Lock, Locks
<1>2. CASE Ask(t) \/ ReadEarly(t) \/ Invalidate(t)
  BY <1>2 DEF Ask, ReadEarly, Invalidate
<1>3. CASE Read(t) \/ ReadFails(t)
  BY <1>3 DEF Read, ReadFails, Found
<1>4. CASE Create(t) \/ Fill(t) \/ Rename(t)
  BY <1>4 DEF Create, Fill, Rename
<1>5. CASE SyncParent(t) \/ WriteFails(t) \/ RenameFails(t)
  BY <1>5 DEF SyncParent, WriteFails, RenameFails
<1> QED BY <1>1, <1>2, <1>3, <1>4, <1>5 DEF TaskStep, Step

\* The snapshot changes neither a call nor the lock; the calls of a process
\* that ends are dead unless they were over.
LEMMA DieMoves ==
    ASSUME TypeInv, NEW P \in SUBSET Procs, Die(P), NEW t \in Tasks
    PROVE  /\ Proc[t] \notin P => /\ pc'[t] = pc[t] /\ base'[t] = base[t]
                                  /\ prev'[t] = prev[t] /\ name'[t] = name[t]
           /\ Proc[t] \in P => pc'[t] \in Over /\ (pc'[t] = "dead" \/ pc'[t] = pc[t])
           /\ alive' = alive \ P
           /\ owner' = IF owner \in P THEN None ELSE owner
BY DEF Die, Over

LEMMA LockKept == TypeInv /\ LockNotLeaked /\ [Next]_vars => LockNotLeaked'
<1> SUFFICES ASSUME TypeInv, LockNotLeaked, [Next]_vars PROVE LockNotLeaked'
  OBVIOUS
<1>1. ASSUME NEW t \in Tasks, TaskStep(t) PROVE LockNotLeaked'
  <2>1. alive' = alive
    BY <1>1 DEF TaskStep, Step, Ask, ReadEarly, Lock, Read, ReadFails, Found, Create, Fill,
       Rename, SyncParent, WriteFails, RenameFails, Invalidate
  <2> QED BY <1>1, <2>1, OthersStay, LockMoves, StoreAssumption DEF LockNotLeaked, Section
<1>2. ASSUME NEW P \in SUBSET Procs, Die(P) PROVE LockNotLeaked'
  <2>1. CASE owner' = None
    BY <2>1 DEF LockNotLeaked
  <2>2. CASE owner' # None
    <3>1. owner' = owner /\ owner \notin P /\ alive' = alive \ P
      BY <1>2, <2>2 DEF Die
    <3>2. PICK t \in Tasks : Proc[t] = owner
              /\ pc[t] \in {"locked", "read", "created", "filled", "renamed"}
      BY <2>2, <3>1 DEF LockNotLeaked
    <3>3. pc'[t] = pc[t]
      BY <1>2, <3>1, <3>2, DieMoves
    <3> QED BY <2>2, <3>1, <3>2, <3>3 DEF LockNotLeaked
  <2> QED BY <2>1, <2>2
<1>3. CASE UNCHANGED <<owner, pc, alive>>
  BY <1>3 DEF LockNotLeaked
<1>4. ASSUME NEW p \in Procs, ProcStep(p) PROVE LockNotLeaked'
  BY <1>2, <1>3, <1>4 DEF ProcStep, CacheMiss, CacheFill, Kill, tasks
<1>5. CASE PowerLoss
  BY <1>2, <1>5 DEF PowerLoss
<1> QED BY <1>1, <1>3, <1>4, <1>5, NextIsStep DEF vars, tasks

\* The lock is never leaked: whatever ends a call of auth.n, trust.n or
\* settings.n, the process that has the lock runs and one of its coroutines is
\* on the way to adou_auth_unlock.
THEOREM LockAlwaysReleased == Spec => []LockNotLeaked
<1>1. Init => LockNotLeaked
  BY DEF Init, LockNotLeaked
<1> QED BY <1>1, LockKept, TypeInvHolds, PTL DEF Spec

-----------------------------------------------------------------------------
(* Replacements and their numbers *)

\* Writing through a descriptor changes neither which replacement a file is
\* nor who has created it.
LEMMA FillFiles ==
    ASSUME TypeInv, NEW t \in Tasks, Fill(t)
    PROVE  /\ file' = Written(t, file) /\ maybe' = {Written(t, m) : m \in maybe}
           /\ file \in Files /\ \A m \in maybe : m \in Files
           /\ file'.rev = file.rev /\ \A m \in maybe' : \E n \in maybe : m.rev = n.rev
<1>1. file \in Files /\ \A m \in maybe : m \in Files
  BY DEF TypeInv, TypeOK
<1>2. file' = Written(t, file) /\ maybe' = {Written(t, m) : m \in maybe}
  BY DEF Fill
<1>3. \A f \in Files : Written(t, f).rev = f.rev
  BY WrittenFile
<1> QED BY <1>1, <1>2, <1>3

\* The numbers stay right through every step of a call.
LEMMA RevTask == ASSUME TypeInv, RevInv, NEW t \in Tasks, TaskStep(t) PROVE RevInv'
<1> SUFFICES ASSUME NEW u \in Tasks
             PROVE  /\ pc'[u] \in Unwritten \cup {"filled"} => rev'[u] = 0
                    /\ pc'[u] \in {"renamed", "invalidate", "done"} => rev'[u] <= file'.rev
                    /\ pc'[u] \in {"invalidate", "done"} => \A m \in maybe' : rev'[u] <= m.rev
  BY DEF RevInv
<1> USE DEF TypeInv, TypeOK, RevInv, At, Goto, End, Unwritten, disk, tasks, snapshot, history
<1>0. file.rev \in Nat /\ (\A m \in maybe : m.rev \in Nat) /\ rev[u] \in Nat
  BY DEF Files
<1>1. CASE Ask(t) \/ ReadEarly(t) \/ Lock(t) \/ Invalidate(t)
  BY <1>0, <1>1 DEF Ask, ReadEarly, Lock, Locks, Invalidate
<1>2. CASE Read(t) \/ ReadFails(t)
  BY <1>0, <1>2 DEF Read, ReadFails, Found
<1>3. CASE Create(t) \/ WriteFails(t) \/ RenameFails(t)
  BY <1>0, <1>3 DEF Create, WriteFails, RenameFails
<1>4. CASE Fill(t)
  BY <1>0, <1>4, FillFiles DEF Fill
<1>5. CASE Rename(t)
  <2>1. /\ pc' = [pc EXCEPT ![t] = "renamed"] /\ rev' = [rev EXCEPT ![t] = file.rev + 1]
        /\ file'.rev = file.rev + 1 /\ maybe' = maybe \cup {file'}
    BY <1>5 DEF Rename
  <2> QED BY <1>0, <2>1
<1>6. CASE SyncParent(t)
  BY <1>0, <1>6 DEF SyncParent
<1> QED BY <1>1, <1>2, <1>3, <1>4, <1>5, <1>6 DEF TaskStep, Step

\* The numbers stay right when processes end: who was between the rename and
\* its return is dead.
LEMMA RevDie ==
    ASSUME TypeInv, RevInv, NEW P \in SUBSET Procs, Die(P), rev' = rev,
           \/ UNCHANGED <<file, maybe>>
           \/ P = Procs /\ \E m \in maybe : file'.rev = m.rev /\ maybe' = {file'}
    PROVE  RevInv'
<1> USE DEF RevInv, Unwritten, Over
<1>1. CASE UNCHANGED <<file, maybe>>
  BY <1>1, DieMoves
<1>2. CASE P = Procs /\ \E m \in maybe : file'.rev = m.rev /\ maybe' = {file'}
  <2>1. \A t \in Tasks : Proc[t] \in P
    BY <1>2, StoreAssumption
  <2> QED BY <1>2, <2>1, DieMoves
<1> QED BY <1>1, <1>2

\* The numbers are right in every reachable state.
LEMMA RevInvHolds == Spec => []RevInv
<1>1. Init => RevInv
  BY DEF Init, RevInv, Unwritten
<1>2. TypeInv /\ RevInv /\ [Next]_vars => RevInv'
  <2> SUFFICES ASSUME TypeInv, RevInv, [Next]_vars PROVE RevInv'
    OBVIOUS
  <2>1. CASE \E t \in Tasks : TaskStep(t)
    BY <2>1, RevTask
  <2>2. ASSUME NEW p \in Procs, ProcStep(p) PROVE RevInv'
    <3>1. CASE Kill(p)
      BY <3>1, RevDie DEF Kill, disk, history
    <3>2. CASE CacheMiss(p) \/ CacheFill(p)
      BY <3>2 DEF CacheMiss, CacheFill, RevInv, disk, tasks, history
    <3> QED BY <2>2, <3>1, <3>2 DEF ProcStep
  <2>3. CASE PowerLoss
    <3>1. \E m \in maybe : file'.rev = m.rev /\ maybe' = {file'}
      BY <2>3 DEF PowerLoss
    <3> QED BY <2>3, <3>1, RevDie DEF PowerLoss
  <2>4. CASE UNCHANGED vars
    BY <2>4 DEF vars, disk, tasks, history, RevInv
  <2> QED BY <2>1, <2>2, <2>3, <2>4, NextIsStep
<1> QED BY <1>1, <1>2, TypeInvHolds, PTL DEF Spec

-----------------------------------------------------------------------------
(* The file is whole *)

\* The temporary file of a call that writes is touched by no other call of its
\* process: the names differ while both exist.
LEMMA TempStays ==
    ASSUME TypeInv, OwnTemp, NEW t \in Tasks, TaskStep(t), UnlinksNothing,
           NEW u \in Tasks, u # t, pc[u] \in {"created", "filled"}
    PROVE  temp'[Proc[u]][name[u]] = Temp(u)
<1> USE StoreAssumption
<1>0. /\ Proc[t] \in Procs /\ Proc[u] \in Procs /\ name[u] \in 1..Attempts
      /\ temp \in [Procs -> [1..Attempts -> Files \cup {Nothing}]]
      /\ Temp(u) = temp[Proc[u]][name[u]]
  BY DEF TypeInv, TypeOK, NameInv, Temp
<1>1. Temp(u) # Nothing /\ Temp(u).by = u
  BY DEF OwnTemp
<1>2. ASSUME NEW i \in 1..Attempts, NEW f, temp' = [temp EXCEPT ![Proc[t]][i] = f],
             Proc[u] # Proc[t] \/ name[u] # i
      PROVE  temp'[Proc[u]][name[u]] = Temp(u)
  BY <1>0, <1>2
<1>3. CASE Create(t)
  BY <1>0, <1>1, <1>2, <1>3 DEF Create
<1>4. CASE Fill(t)
  <2>1. temp'[Proc[u]][name[u]] \in {Temp(u), Written(t, Temp(u))}
    BY <1>0, <1>4 DEF Fill
  <2>2. Temp(u) \in Files
    BY <1>0, <1>1
  <2> QED BY <1>1, <2>1, <2>2, WrittenFile
<1>5. ASSUME pc[t] \in {"created", "filled"}
      PROVE  name[t] \in 1..Attempts /\ (Proc[u] # Proc[t] \/ name[u] # name[t])
  BY <1>0, <1>1, <1>5 DEF OwnTemp, Temp, TypeInv, NameInv
<1>6. CASE Rename(t)
  BY <1>2, <1>5, <1>6 DEF Rename, At
<1>7. CASE WriteFails(t)
  <2>1. CASE pc[t] = "read"
    BY <1>0, <1>7, <2>1 DEF WriteFails, Unlinked, TypeInv, NameInv
  <2>2. CASE pc[t] \in {"created", "filled"}
    BY <1>0, <1>2, <1>5, <1>7, <2>2 DEF WriteFails, Unlinked
  <2>3. CASE pc[t] = "renamed"
    <3>1. pc'[t] = "failed" /\ name[t] \in 1..Attempts
      BY <1>7, <2>3 DEF WriteFails, End, Goto, TypeInv, TypeOK, NameInv
    <3>2. Proc[u] # Proc[t]
      BY <2>3, <3>1 DEF UnlinksNothing
    <3> QED BY <1>0, <1>2, <1>7, <3>1, <3>2 DEF WriteFails, Unlinked
  <2> QED BY <1>7, <2>1, <2>2, <2>3 DEF WriteFails
<1>8. CASE temp' = temp
  BY <1>0, <1>8
<1> QED BY <1>3, <1>4, <1>6, <1>7, <1>8 DEF TaskStep, Step, Ask, ReadEarly, Lock, Read, ReadFails,
           Found, SyncParent, RenameFails, Invalidate, disk

\* A call that writes keeps its own temporary file, too.
LEMMA OwnTempTask ==
    ASSUME TypeInv, OwnTemp, NEW t \in Tasks, TaskStep(t), UnlinksNothing PROVE OwnTemp'
<1> USE StoreAssumption
<1>1. ASSUME NEW u \in Tasks, u # t, pc'[u] \in {"created", "filled"}
      PROVE  /\ temp'[Proc[u]][name'[u]] = Temp(u) /\ NewDoc(u)' = NewDoc(u) /\ pc'[u] = pc[u]
  BY <1>1, OthersStay, TempStays DEF NewDoc
<1>2. ASSUME pc'[t] \in {"created", "filled"}
      PROVE  Create(t) \/ Fill(t)
  BY <1>2 DEF TaskStep, Step, Ask, ReadEarly, Lock, Read, ReadFails, Found, Rename,
       SyncParent, WriteFails, RenameFails, Invalidate, Goto, End, TypeInv, TypeOK
<1>3. CASE Create(t)
  <2>1. temp'[Proc[t]][name'[t]] = Fresh(t) /\ pc'[t] = "created"
    BY <1>3 DEF Create, Goto, TypeInv, TypeOK
  <2>2. Fresh(t) \in Files /\ Fresh(t).by = t
    BY DEF Fresh, Files
  <2> QED BY <1>1, <2>1, <2>2 DEF OwnTemp, Temp
<1>4. CASE Fill(t)
  <2>1. Temp(t) \in Files /\ Temp(t).by = t /\ name[t] \in 1..Attempts
    BY <1>4, TempType DEF OwnTemp, Fill, At
  <2>2. temp'[Proc[t]][name'[t]] = Written(t, Temp(t)) /\ NewDoc(t)' = NewDoc(t)
    BY <1>4, <2>1 DEF Fill, Temp, NewDoc, TypeInv, TypeOK
  <2>3. Written(t, Temp(t)).by = t /\ Written(t, Temp(t)) \in Files
        /\ Written(t, Temp(t)).doc = NewDoc(t) /\ Written(t, Temp(t)).synced
    BY <2>1, WrittenFile
  <2> QED BY <1>1, <2>2, <2>3 DEF OwnTemp, Temp
<1>5. CASE pc'[t] \notin {"created", "filled"}
  BY <1>1, <1>5 DEF OwnTemp, Temp
<1> QED BY <1>2, <1>3, <1>4, <1>5

\* No call makes the file anything but whole: what it renames is its own, and
\* what it writes through its descriptor is not the file.
LEMMA WholeTask ==
    ASSUME TypeInv, OwnTemp, AllWhole, NEW t \in Tasks, TaskStep(t) PROVE AllWhole'
<1>1. \A u \in Tasks : pc'[u] \in Unwritten => pc[u] \in Unwritten
  BY DEF TaskStep, Step, Ask, ReadEarly, Lock, Locks, Read, ReadFails, Found, Create, Fill, Rename,
       SyncParent, WriteFails, RenameFails, Invalidate, Goto, End, At, TypeInv, TypeOK, Unwritten,
       tasks
<1>2. ASSUME NEW f, Whole(f) PROVE Whole(f)'
  BY <1>1, <1>2 DEF Whole
<1>3. CASE Fill(t)
  <2>1. pc[t] \in Unwritten
    BY <1>3 DEF Fill, At, Unwritten
  <2>2. ASSUME NEW f \in Files, Whole(f) PROVE Written(t, f) = f
    BY <2>1, <2>2, WrittenFile DEF Whole
  <2>3. file' = file /\ maybe' = maybe
    BY <1>3, <2>2, FillFiles DEF AllWhole
  <2> QED BY <1>2, <2>3 DEF AllWhole, Whole
<1>4. CASE Rename(t)
  <2>1. /\ Temp(t).doc = NewDoc(t) /\ Temp(t).synced /\ Temp(t).by = t
        /\ maybe' = maybe \cup {file'} /\ pc'[t] = "renamed"
        /\ file' = [doc |-> Temp(t).doc, synced |-> Temp(t).synced, rev |-> file.rev + 1,
                    by |-> Temp(t).by]
    BY <1>4 DEF Rename, OwnTemp, At, Goto, TypeInv, TypeOK
  <2>2. NewDoc(t) # Torn
    BY NewDocType, StoreAssumption
  <2>3. Whole(file)'
    BY <2>1, <2>2 DEF Whole, Unwritten
  <2> QED BY <1>2, <2>1, <2>3 DEF AllWhole, Whole
<1>5. CASE file' = file /\ maybe' \subseteq maybe \cup {file}
  BY <1>2, <1>5 DEF AllWhole, Whole
<1> QED BY <1>3, <1>4, <1>5 DEF TaskStep, Step, Ask, ReadEarly, Lock, Read, ReadFails, Found, Create,
           SyncParent, WriteFails, RenameFails, Invalidate, disk

\* Neither a kill nor a power loss tears the file.
LEMMA WholeDie ==
    ASSUME TypeInv, OwnTemp, AllWhole, NEW P \in SUBSET Procs, Die(P), temp' = temp,
           \/ UNCHANGED <<file, maybe>>
           \/ \E m \in maybe : file' = m /\ maybe' = {file'}
    PROVE  OwnTemp' /\ AllWhole'
<1>1. \A t \in Tasks : /\ pc'[t] \in Unwritten => pc[t] \in Unwritten
                       /\ pc'[t] \in {"created", "filled"} =>
                              pc'[t] = pc[t] /\ base'[t] = base[t] /\ name'[t] = name[t]
  BY DieMoves DEF Unwritten, Over
<1>2. OwnTemp'
  BY <1>1 DEF OwnTemp, Temp, NewDoc
<1>3. AllWhole'
  BY <1>1 DEF AllWhole, Whole
<1> QED BY <1>2, <1>3

\* The file stays whole and every call keeps its temporary file through any
\* step in which no late failure unlinks the file of another coroutine.
LEMMA WholeStep ==
    ASSUME TypeInv, OwnTemp, AllWhole, Next, UnlinksNothing PROVE OwnTemp' /\ AllWhole'
<1>1. CASE \E t \in Tasks : TaskStep(t)
  BY <1>1, OwnTempTask, WholeTask
<1>2. ASSUME NEW p \in Procs, ProcStep(p) PROVE OwnTemp' /\ AllWhole'
  <2>1. CASE Kill(p)
    BY <2>1, WholeDie DEF Kill, disk
  <2>2. CASE CacheMiss(p) \/ CacheFill(p)
    BY <2>2 DEF CacheMiss, CacheFill, OwnTemp, AllWhole, Whole, Temp, NewDoc, disk, tasks
  <2> QED BY <1>2, <2>1, <2>2 DEF ProcStep
<1>3. CASE PowerLoss
  <2>1. \E m \in maybe : file' = m /\ maybe' = {file'}
    BY <1>3 DEF PowerLoss, AllWhole, Whole
  <2> QED BY <1>3, <2>1, WholeDie DEF PowerLoss
<1> QED BY <1>1, <1>2, <1>3, NextIsStep

\* At the start the file is whole and nobody writes.
LEMMA WholeInit == Init => OwnTemp /\ AllWhole
<1> SUFFICES ASSUME Init PROVE OwnTemp /\ AllWhole
  OBVIOUS
<1>1. Initial # Torn
  BY StoreAssumption DEF Initial, Docs
<1> QED BY <1>1, StoreAssumption DEF Init, OwnTemp, AllWhole, Whole

\* atomic_io.n: "A crash mid-write can never leave a truncated settings.json
\* or trust.json behind".  With any number of coroutines in any number of
\* processes, and with kills, power losses and failing calls anywhere, the
\* file is whole and what was acknowledged is durable, as long as no fsync of
\* the directory fails while another coroutine of that process writes: line 101
\* of auth_store.c then unlinks a name that is no longer the caller's.
THEOREM WholeAndDurable ==
    Spec /\ [][UnlinksNothing]_vars => [](NeverTorn /\ AckedDurable)
<1>1. TypeInv /\ OwnTemp /\ AllWhole /\ [Next]_vars /\ [UnlinksNothing]_vars
        => (OwnTemp /\ AllWhole)'
  <2>1. CASE UNCHANGED vars
    BY <2>1 DEF vars, disk, tasks, OwnTemp, AllWhole, Whole, Temp, NewDoc
  <2>2. CASE ~UNCHANGED vars
    BY <2>2, WholeStep
  <2> QED BY <2>1, <2>2
<1>2. TypeInv /\ AllWhole /\ RevInv => NeverTorn /\ AckedDurable
  BY DEF AllWhole, Whole, RevInv, NeverTorn, AckedDurable, TypeInv, TypeOK, Files
<1> QED BY <1>1, <1>2, WholeInit, TypeInvHolds, RevInvHolds, PTL DEF Spec

-----------------------------------------------------------------------------
(* No update is lost *)

\* An excuse is never taken back.
LEMMA ExcuseStays == Next /\ TypeInv => (excused => excused')
BY NextIsStep DEF TaskStep, ProcStep, Step, Ask, ReadEarly, Lock, Read, ReadFails, Found, Create,
   Fill, Rename, SyncParent, WriteFails, RenameFails, Invalidate, CacheMiss, CacheFill, Kill,
   PowerLoss, history, TypeInv, TypeOK

\* The lock is granted to one coroutine at a time, unless two are of one process.
LEMMA AloneTask ==
    ASSUME TypeInv, Alone, NEW t \in Tasks, TaskStep(t), ~excused' PROVE Alone'
<1>1. Lock(t) => \A u \in Tasks : pc[u] \notin Section
  <2>1. Lock(t) => owner = None
    BY DEF Lock
  <2>2. \A u \in Tasks : Proc[u] # None
    BY StoreAssumption
  <2> QED BY <2>1, <2>2 DEF Alone
<1>2. \A u \in Tasks : u # t => pc'[u] = pc[u]
  BY OthersStay
<1> QED BY <1>1, <1>2, LockMoves DEF Alone

\* Under the lock a document is computed from the file that is still there.
LEMMA BaseTask ==
    ASSUME TypeInv, Alone, AllWhole, OwnTemp, BaseInv, NEW t \in Tasks, TaskStep(t), ~excused'
    PROVE  BaseInv'
<1> USE DEF TypeInv, TypeOK, At, Goto, End, disk, tasks, snapshot, history
<1>1. ASSUME file'.doc = file.doc,
             pc'[t] \in {"read", "created", "filled"} =>
                /\ Kind[t] # "late" => base'[t] = file.doc
                /\ Kind[t] = "refresh" /\ IsOAuth(base'[t][Key[t]])
                      => base'[t][Key[t]] = prev'[t]
      PROVE  BaseInv'
  BY <1>1, OthersStay DEF BaseInv
<1>2. CASE Ask(t) \/ ReadEarly(t) \/ Invalidate(t)
  BY <1>1, <1>2 DEF Ask, ReadEarly, Invalidate
<1>3. CASE Lock(t)
  BY <1>1, <1>3 DEF Lock
<1>4. CASE Read(t)
  <2>1. Parsed = file.doc /\ file' = file
    BY <1>4 DEF Parsed, AllWhole, Whole, Read, Found
  <2>2. CASE pc'[t] = "read"
    <3>1. ~Keeps(t, file.doc) /\ base'[t] = file.doc /\ prev'[t] = prev[t]
      BY <1>4, <2>1, <2>2 DEF Read, Found
    <3>2. Kind[t] = "refresh" /\ IsOAuth(file.doc[Key[t]]) => file.doc[Key[t]] = prev[t]
      BY <3>1 DEF Keeps
    <3> QED BY <1>1, <2>1, <3>1, <3>2
  <2>3. CASE pc'[t] # "read"
    BY <1>1, <1>4, <2>1, <2>3 DEF Read, Found
  <2> QED BY <2>2, <2>3
<1>5. CASE ReadFails(t)
  BY <1>5 DEF ReadFails
<1>6. CASE Create(t)
  BY <1>1, <1>6 DEF Create, BaseInv
<1>7. CASE Fill(t)
  <2>1. file' = file
    BY <1>7, WrittenFile DEF Fill, AllWhole, Whole, Unwritten
  <2> QED BY <1>1, <1>7, <2>1 DEF Fill, BaseInv
<1>8. CASE Rename(t)
  <2>1. \A u \in Tasks : pc'[u] \notin {"read", "created", "filled"}
    BY <1>8 DEF Rename, Alone, Section
  <2> QED BY <2>1 DEF BaseInv
<1>9. CASE SyncParent(t) \/ WriteFails(t) \/ RenameFails(t)
  <2>1. file' = file /\ pc'[t] \in {"invalidate", "failed"}
    BY <1>9 DEF SyncParent, WriteFails, RenameFails
  <2> QED BY <1>1, <2>1
<1> QED BY <1>2, <1>3, <1>4, <1>5, <1>6, <1>7, <1>8, <1>9 DEF TaskStep, Step

\* So the file is what the replacements made of each entry.
LEMMA WantTask ==
    ASSUME TypeInv, Alone, AllWhole, OwnTemp, BaseInv, file.doc = want,
           NEW t \in Tasks, TaskStep(t), ~excused'
    PROVE  file'.doc = want'
<1> USE DEF TypeInv, TypeOK, disk, history
<1>1. CASE Fill(t)
  <2>1. file' = file
    BY <1>1, WrittenFile DEF Fill, AllWhole, Whole, Unwritten, At
  <2> QED BY <1>1, <2>1 DEF Fill
<1>2. CASE Rename(t)
  <2>1. base[t] = want
    BY <1>2 DEF Rename, BaseInv, At
  <2>2. file'.doc = NewDoc(t)
    BY <1>2 DEF Rename, OwnTemp, At
  <2>3. [want EXCEPT ![Key[t]] = NewDoc(t)[Key[t]]] = NewDoc(t)
    BY <2>1, StoreAssumption DEF NewDoc, Docs
  <2> QED BY <1>2, <2>2, <2>3 DEF Rename
<1>3. CASE UNCHANGED <<file, want>>
  BY <1>3
<1> QED BY <1>1, <1>2, <1>3 DEF TaskStep, Step, Ask, ReadEarly, Lock, Read, ReadFails, Found, Create,
           SyncParent, WriteFails, RenameFails, Invalidate

\* Processes that end leave the rest of the argument as it is.
LEMMA UpdateDie ==
    ASSUME TypeInv, Alone, BaseInv, NEW P \in SUBSET Procs, Die(P), P = Procs \/ file' = file
    PROVE  Alone' /\ BaseInv'
<1>1. \A t \in Tasks : pc'[t] \in Section => Proc[t] \notin P
  BY DieMoves DEF Section, Over
<1>2. Alone'
  BY <1>1, DieMoves DEF Alone
<1>3. BaseInv'
  BY <1>1, DieMoves, StoreAssumption DEF BaseInv, Section
<1> QED BY <1>2, <1>3

\* The whole invariant is kept by every step.
LEMMA UpdateStep == ASSUME TypeInv, UpdateInv, Next PROVE UpdateInv'
<1> SUFFICES ASSUME ~excused' PROVE (Alone /\ OwnTemp /\ AllWhole /\ BaseInv /\ file.doc = want)'
  BY DEF UpdateInv
<1>1. Alone /\ OwnTemp /\ AllWhole /\ BaseInv /\ file.doc = want
  BY ExcuseStays DEF UpdateInv
<1>2. UnlinksNothing
  BY <1>1 DEF UnlinksNothing, Alone, Section
<1>3. OwnTemp' /\ AllWhole'
  BY <1>1, <1>2, WholeStep
<1>4. CASE \E t \in Tasks : TaskStep(t)
  BY <1>1, <1>3, <1>4, AloneTask, BaseTask, WantTask
<1>5. ASSUME NEW p \in Procs, ProcStep(p) PROVE (Alone /\ BaseInv /\ file.doc = want)'
  <2>1. CASE Kill(p)
    BY <1>1, <2>1, UpdateDie DEF Kill, disk, history
  <2>2. CASE CacheMiss(p) \/ CacheFill(p)
    BY <1>1, <2>2 DEF CacheMiss, CacheFill, Alone, BaseInv, disk, tasks, history
  <2> QED BY <1>5, <2>1, <2>2 DEF ProcStep
<1>6. CASE PowerLoss
  <2>1. file'.doc # Torn
    BY <1>3 DEF AllWhole, Whole
  <2>2. want' = file'.doc
    BY <1>6, <2>1 DEF PowerLoss
  <2> QED BY <1>1, <1>3, <1>6, <2>2, UpdateDie DEF PowerLoss
<1> QED BY <1>3, <1>4, <1>5, <1>6, NextIsStep

\* The inductive invariant behind the theorems that follow.
LEMMA UpdateInvHolds == Spec => []UpdateInv
<1>1. Init => UpdateInv
  <2> SUFFICES ASSUME Init PROVE UpdateInv
    OBVIOUS
  <2> QED BY WholeInit DEF Init, UpdateInv, Alone, BaseInv, Section
<1>2. TypeInv /\ UpdateInv /\ [Next]_vars => UpdateInv'
  <2> SUFFICES ASSUME TypeInv, UpdateInv, UNCHANGED vars PROVE UpdateInv'
    BY UpdateStep
  <2> QED BY DEF vars, disk, tasks, history, UpdateInv, Alone, BaseInv, OwnTemp, AllWhole, Whole,
             Temp, NewDoc
<1> QED BY <1>1, <1>2, TypeInvHolds, PTL DEF Spec

\* The read-modify-write of auth.save, remove, modify_credential, trust.save
\* and set_many loses no update of another process, for any number of
\* processes and calls, failing writes, kills and power losses included.
THEOREM NoUpdateLost == Spec => []NoLostUpdate
BY UpdateInvHolds, PTL DEF UpdateInv, NoLostUpdate

\* Without two coroutines of one process under the lock together, the file is
\* whole and what was acknowledged is durable, also when the directory cannot
\* be synchronised.
THEOREM WholeUnderTheLock == Spec => [](~excused => NeverTorn /\ AckedDurable)
<1>1. TypeInv /\ UpdateInv /\ RevInv => (~excused => NeverTorn /\ AckedDurable)
  BY DEF UpdateInv, AllWhole, Whole, RevInv, NeverTorn, AckedDurable, TypeInv, TypeOK, Files
<1> QED BY <1>1, TypeInvHolds, UpdateInvHolds, RevInvHolds, PTL

\* save_refreshed_token never replaces a token that another process has stored
\* since the refresh began: two processes that refresh the same token do not
\* throw away the refresh token the provider issued last.
THEOREM TokenKept == Spec => NewerTokenKept
<1>1. UpdateInv /\ [Next]_vars =>
        [\A t \in Tasks :
            (/\ Kind[t] = "refresh" /\ pc[t] = "filled" /\ pc'[t] = "renamed"
             /\ ~excused /\ IsOAuth(file.doc[Key[t]]))
            => file.doc[Key[t]] = prev[t]]_vars
  BY DEF UpdateInv, BaseInv
<1> QED BY <1>1, UpdateInvHolds, PTL DEF Spec, NewerTokenKept
=============================================================================
