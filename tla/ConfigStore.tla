---------------------------- MODULE ConfigStore ----------------------------
(***************************************************************************)
(* A configuration file shared by several processes: auth.json, trust.json *)
(* and settings.json are all read, locked and replaced through             *)
(* native/auth_store.c (src/config/auth.n, oauth.n, trust.n, settings.n    *)
(* and atomic_io.n).  A task is one call that changes the file, made by a  *)
(* coroutine of some process: a login, a logout, a token refresh, a trust  *)
(* decision, a change of the settings.  auth.n also keeps a snapshot of    *)
(* the file in memory.                                                     *)
(*                                                                         *)
(* The fcntl lock belongs to the process: it keeps other processes out,    *)
(* and whichever coroutine releases it releases it for all.  A process may *)
(* be killed at any step, and the machine may lose its power: then what    *)
(* was not synchronised is gone.  All kinds of calls share the one file of *)
(* the model; in the code each file has some of them.                      *)
(***************************************************************************)
EXTENDS Naturals

CONSTANTS
    Procs,      \* the processes
    Tasks,      \* the calls that change the file
    Keys,       \* its entries: providers, directories, settings
    Proc,       \* the process of a task
    Kind,       \* what the task is
    Key,        \* the entry it changes
    Attempts,   \* how many names a temporary file may have (100 in the code)
    MaxFaults,  \* bound: kills and power losses
    None, Old,  \* no entry; the token stored at the start
    Torn,       \* the content of a file that is not complete
    Nothing     \* no file, nothing read

\* "save": auth.save, trust.save and set_many; "login": save_token;
\* "late": settings.save_to and trust.clear, which read before they lock.
Kinds == {"save", "login", "refresh", "remove", "late"}

Docs == [Keys -> Tasks \cup {None, Old}]
Files == [doc : Docs \cup {Torn}, synced : BOOLEAN, rev : Nat, by : Tasks \cup {None}]

ASSUME StoreAssumption ==
    /\ Proc \in [Tasks -> Procs] /\ Kind \in [Tasks -> Kinds] /\ Key \in [Tasks -> Keys]
    /\ Attempts \in Nat /\ MaxFaults \in Nat
    /\ None \notin Tasks \cup Procs /\ Old \notin Tasks \cup {None}
    /\ Torn \notin Docs \cup {Nothing} /\ Nothing \notin Docs \cup Files

VARIABLES
    file,       \* what the name of the file leads to
    maybe,      \* what it may lead to after a power loss
    temp,       \* the temporary files of each process
    owner,      \* the process that has the lock
    pc,         \* where each task stands
    base,       \* the content the task has read
    prev,       \* the access token a refresh started from
    name,       \* the temporary file of the task
    cached, valid,  \* cached_auth_root and auth_cache_valid of each process
    filling,    \* the content a call of cached_root has read and not yet stored
    alive,      \* the processes that run
    faults,     \* how many faults there were
    want,       \* history: the entries as the replacements of the file left them
    rev,        \* history: the replacement each task made
    excused     \* history: an update may have been lost, see NoLostUpdate

tasks == <<pc, base, prev, name>>
snapshot == <<cached, valid, filling>>
disk == <<file, maybe, temp>>
history == <<want, rev, excused>>
vars == <<disk, owner, tasks, snapshot, alive, faults, history>>

Empty == [k \in Keys |-> None]
Initial == [k \in Keys |-> Old]

Init ==
    /\ file = [doc |-> Initial, synced |-> TRUE, rev |-> 0, by |-> None]
    /\ maybe = {file}
    /\ temp = [p \in Procs |-> [i \in 1..Attempts |-> Nothing]]
    /\ owner = None
    /\ pc = [t \in Tasks |-> "ready"]
    /\ base = [t \in Tasks |-> Empty] /\ prev = [t \in Tasks |-> None]
    /\ name = [t \in Tasks |-> 0]
    /\ cached = [p \in Procs |-> Empty] /\ valid = [p \in Procs |-> FALSE]
    /\ filling = [p \in Procs |-> Nothing]
    /\ alive = Procs /\ faults = 0
    /\ want = Initial /\ rev = [t \in Tasks |-> 0] /\ excused = FALSE

At(t, l) == pc[t] = l /\ Proc[t] \in alive
Goto(t, l) == pc' = [pc EXCEPT ![t] = l]

\* A call is over, and what it knew with it.
End(t, l) ==
    /\ Goto(t, l)
    /\ base' = [base EXCEPT ![t] = Empty] /\ prev' = [prev EXCEPT ![t] = None]
    /\ name' = [name EXCEPT ![t] = 0]

\* Asking for the lock: at once, or after what comes before it.
Locks(t) == At(t, "lock") \/ (At(t, "ready") /\ Kind[t] \in {"save", "login", "remove"})

IsOAuth(v) == v = Old \/ (v \in Tasks /\ Kind[v] \in {"login", "refresh"})

----------------------------------------------------------------------------
(* The snapshot *)

\* Who looks at the snapshot: refresh_if_needed, before it asks for a token.
Reader(p) == \E t \in Tasks : Proc[t] = p /\ Kind[t] = "refresh" /\ At(t, "ready")

\* cached_root reads the file if there is no valid snapshot ...
CacheMiss(p) ==
    /\ Reader(p) /\ ~valid[p] /\ filling[p] = Nothing
    /\ filling' = [filling EXCEPT ![p] = file.doc]
    /\ UNCHANGED <<disk, owner, tasks, cached, valid, alive, faults, history>>

\* ... and marks the snapshot as valid: what it has read, or, if that cannot
\* be parsed, the snapshot there was.
CacheFill(p) ==
    /\ p \in alive /\ filling[p] # Nothing
    /\ cached' = [cached EXCEPT ![p] = IF filling[p] = Torn THEN @ ELSE filling[p]]
    /\ valid' = [valid EXCEPT ![p] = TRUE]
    /\ filling' = [filling EXCEPT ![p] = Nothing]
    /\ UNCHANGED <<disk, owner, tasks, alive, faults, history>>

----------------------------------------------------------------------------
(* Before the lock *)

\* refresh_if_needed looks at the snapshot: without a token nothing is done.
\* The request for a new one goes out before the lock is taken.
Ask(t) ==
    /\ At(t, "ready") /\ Kind[t] = "refresh"
    /\ valid[Proc[t]]
    /\ LET v == cached[Proc[t]][Key[t]]
       IN  IF IsOAuth(v)
           THEN Goto(t, "lock") /\ prev' = [prev EXCEPT ![t] = v] /\ UNCHANGED <<base, name>>
           ELSE End(t, "done")
    /\ UNCHANGED <<disk, owner, snapshot, alive, faults, history>>

\* read_root, read_raw, read_object: a file that cannot be parsed is empty.
Parsed == IF file.doc = Torn THEN Empty ELSE file.doc

\* settings.save_to and trust.clear read the file without the lock.
ReadEarly(t) ==
    /\ At(t, "ready") /\ Kind[t] = "late"
    /\ base' = [base EXCEPT ![t] = Parsed]
    /\ Goto(t, "lock")
    /\ UNCHANGED <<disk, owner, prev, name, snapshot, alive, faults, history>>

----------------------------------------------------------------------------
(* adou_auth_lock, read_root *)

\* Mutant: the lock file is opened but the lock is not waited for.
LockIgnored(t) ==
    /\ Locks(t)
    /\ owner' = Proc[t]
    /\ excused' = (excused \/ owner = Proc[t])
    /\ Goto(t, IF Kind[t] = "late" THEN "read" ELSE "locked")
    /\ UNCHANGED <<disk, base, prev, name, snapshot, alive, faults, want, rev>>

\* F_SETLKW: granted to every coroutine of the process that has it.
Lock(t) ==
    /\ Locks(t)
    /\ owner \in {None, Proc[t]}
    /\ owner' = Proc[t]
    /\ excused' = (excused \/ owner = Proc[t])
    /\ Goto(t, IF Kind[t] = "late" THEN "read" ELSE "locked")
    /\ UNCHANGED <<disk, base, prev, name, snapshot, alive, faults, want, rev>>

\* adou_auth_unlock
Released(t) == owner' = IF owner = Proc[t] THEN None ELSE owner

\* Mutant: a refresh stores its token whatever it finds.
KeepsAnyway(t, doc) == Kind[t] = "remove" /\ doc[Key[t]] = None

\* The calls that find nothing to change: a logout without an entry, a
\* refresh that finds another token than the one it started from.
Keeps(t, doc) ==
    \/ Kind[t] = "remove" /\ doc[Key[t]] = None
    \/ Kind[t] = "refresh" /\ IsOAuth(doc[Key[t]]) /\ doc[Key[t]] # prev[t]

\* remove_from_snapshot
DropFromSnapshot(t) ==
    IF Kind[t] = "remove" /\ cached[Proc[t]][Key[t]] # None
    THEN /\ cached' = [cached EXCEPT ![Proc[t]][Key[t]] = None]
         /\ valid' = [valid EXCEPT ![Proc[t]] = TRUE]
    ELSE UNCHANGED <<cached, valid>>

\* Whoever keeps the document as it is releases the lock and returns.
Found(t, doc) ==
    /\ IF Keeps(t, doc)
       THEN End(t, "done") /\ Released(t) /\ DropFromSnapshot(t)
       ELSE /\ Goto(t, "read") /\ base' = [base EXCEPT ![t] = doc]
            /\ UNCHANGED <<owner, cached, valid, prev, name>>
    /\ UNCHANGED <<disk, filling, alive, want, rev>>

\* read_root
Read(t) == At(t, "locked") /\ Found(t, Parsed) /\ UNCHANGED <<faults, excused>>

\* A file that cannot be read counts as empty.
ReadFails(t) ==
    /\ At(t, "locked") /\ faults < MaxFaults
    /\ Found(t, Empty)
    /\ excused' = TRUE /\ faults' = faults + 1

----------------------------------------------------------------------------
(* adou_auth_atomic_write *)

NewDoc(t) == [base[t] EXCEPT ![Key[t]] = IF Kind[t] = "remove" THEN None ELSE t]
Temp(t) == temp[Proc[t]][name[t]]
Fresh(t) == [doc |-> Torn, synced |-> FALSE, rev |-> 0, by |-> t]

\* The descriptor of t leads to the file that t has created, whatever name
\* that file has by now.
Written(t, f) ==
    IF f # Nothing /\ f.by = t
    THEN [doc |-> NewDoc(t), synced |-> TRUE, rev |-> f.rev, by |-> t] ELSE f

\* Mutant: O_TRUNC instead of O_EXCL.
CreateAny(t) ==
    /\ At(t, "read")
    /\ temp' = [temp EXCEPT ![Proc[t]][1] = Fresh(t)]
    /\ name' = [name EXCEPT ![t] = 1]
    /\ Goto(t, "created")
    /\ UNCHANGED <<file, maybe, owner, base, prev, snapshot, alive, faults, history>>

\* The first free name, with O_EXCL.
Create(t) ==
    /\ At(t, "read")
    /\ \E i \in 1..Attempts :
          /\ temp[Proc[t]][i] = Nothing
          /\ \A j \in 1..(i - 1) : temp[Proc[t]][j] # Nothing
          /\ temp' = [temp EXCEPT ![Proc[t]][i] = Fresh(t)]
          /\ name' = [name EXCEPT ![t] = i]
    /\ Goto(t, "created")
    /\ UNCHANGED <<file, maybe, owner, base, prev, snapshot, alive, faults, history>>

\* write until all is written, fsync and close: nobody sees the file between.
Fill(t) ==
    /\ At(t, "created")
    /\ file' = Written(t, file)
    /\ maybe' = {Written(t, m) : m \in maybe}
    /\ temp' = [temp EXCEPT ![Proc[t]] = [i \in 1..Attempts |-> Written(t, @[i])]]
    /\ Goto(t, "filled")
    /\ UNCHANGED <<owner, base, prev, name, snapshot, alive, faults, history>>

\* rename
Rename(t) ==
    /\ At(t, "filled") /\ Temp(t) # Nothing
    /\ file' = [doc |-> Temp(t).doc, synced |-> Temp(t).synced, rev |-> file.rev + 1,
                by |-> Temp(t).by]
    /\ maybe' = maybe \cup {file'}
    /\ temp' = [temp EXCEPT ![Proc[t]][name[t]] = Nothing]
    /\ want' = [want EXCEPT ![Key[t]] = NewDoc(t)[Key[t]]]
    /\ rev' = [rev EXCEPT ![t] = file.rev + 1]
    /\ excused' = (excused \/ (Kind[t] = "late" /\ base[t] # file.doc))
    /\ Goto(t, "renamed")
    /\ UNCHANGED <<owner, base, prev, name, snapshot, alive, faults>>

\* Mutant: the directory is not synchronised.
SyncParentSkipped(t) ==
    /\ At(t, "renamed")
    /\ Goto(t, "invalidate") /\ Released(t)
    /\ UNCHANGED <<disk, base, prev, name, snapshot, alive, faults, history>>

\* fsync_parent, and the lock is released.
SyncParent(t) ==
    /\ At(t, "renamed")
    /\ maybe' = {file}
    /\ Goto(t, "invalidate") /\ Released(t)
    /\ UNCHANGED <<file, temp, base, prev, name, snapshot, alive, faults, history>>

Unlinked(t) == IF name[t] = 0 THEN temp ELSE [temp EXCEPT ![Proc[t]][name[t]] = Nothing]

\* Mutant: a failed write leaves the descriptor of the lock open.
WriteFailsLocked(t) ==
    /\ Proc[t] \in alive /\ faults < MaxFaults
    /\ pc[t] \in {"read", "created", "filled", "renamed"}
    /\ temp' = Unlinked(t)
    /\ End(t, "failed")
    /\ faults' = faults + 1
    /\ UNCHANGED <<file, maybe, owner, snapshot, alive, history>>

\* One of the calls above fails: the temporary name is removed, the lock is
\* released and the error thrown, also after the rename.
WriteFails(t) ==
    /\ Proc[t] \in alive /\ faults < MaxFaults
    /\ pc[t] \in {"read", "created", "filled", "renamed"}
    /\ temp' = Unlinked(t)
    /\ End(t, "failed") /\ Released(t)
    /\ faults' = faults + 1
    /\ UNCHANGED <<file, maybe, snapshot, alive, history>>

\* A coroutine that fails after its rename unlinks a name that another one
\* of its process may have taken: the rename of that one finds no file.
RenameFails(t) ==
    /\ At(t, "filled") /\ Temp(t) = Nothing
    /\ End(t, "failed") /\ Released(t)
    /\ UNCHANGED <<disk, snapshot, alive, faults, history>>

\* invalidate_auth_cache, and the call returns; trust.n and settings.n keep no
\* snapshot.
Invalidate(t) ==
    /\ At(t, "invalidate")
    /\ valid' = [valid EXCEPT ![Proc[t]] = @ /\ Kind[t] = "late"]
    /\ End(t, "done")
    /\ UNCHANGED <<disk, owner, cached, filling, alive, faults, history>>

----------------------------------------------------------------------------
(* Faults *)

Over == {"done", "failed", "dead"}
\* What the processes P knew is gone.
Die(P) ==
    /\ alive' = alive \ P /\ faults' = faults + 1
    /\ owner' = IF owner \in P THEN None ELSE owner
    /\ pc' = [t \in Tasks |-> IF Proc[t] \in P /\ pc[t] \notin Over THEN "dead" ELSE pc[t]]
    /\ base' = [t \in Tasks |-> IF Proc[t] \in P THEN Empty ELSE base[t]]
    /\ prev' = [t \in Tasks |-> IF Proc[t] \in P THEN None ELSE prev[t]]
    /\ name' = [t \in Tasks |-> IF Proc[t] \in P THEN 0 ELSE name[t]]
    /\ cached' = [p \in Procs |-> IF p \in P THEN Empty ELSE cached[p]]
    /\ valid' = [p \in Procs |-> valid[p] /\ p \notin P]
    /\ filling' = [p \in Procs |-> IF p \in P THEN Nothing ELSE filling[p]]

\* A process is killed: the kernel drops its lock, its files stay.
Kill(p) ==
    /\ p \in alive /\ faults < MaxFaults
    /\ Die({p})
    /\ UNCHANGED <<disk, history>>

\* The power fails: the name leads to some file it led to since the directory
\* was synchronised, and data that was not synchronised is lost.
PowerLoss ==
    /\ faults < MaxFaults /\ alive # {}
    /\ Die(Procs)
    /\ \E m \in maybe :
          /\ file' = IF m.synced THEN m
                     ELSE [doc |-> Torn, synced |-> FALSE, rev |-> m.rev, by |-> m.by]
          /\ maybe' = {file'}
    /\ want' = IF file'.doc = Torn THEN want ELSE file'.doc
    /\ UNCHANGED <<temp, rev, excused>>

Step(t) ==
    \/ Ask(t) \/ ReadEarly(t) \/ Lock(t) \/ Read(t)
    \/ Create(t) \/ Fill(t) \/ Rename(t) \/ SyncParent(t)
    \/ RenameFails(t) \/ Invalidate(t)

Next ==
    \/ \E t \in Tasks : Step(t) \/ ReadFails(t) \/ WriteFails(t)
    \/ \E p \in Procs : CacheMiss(p) \/ CacheFill(p) \/ Kill(p)
    \/ PowerLoss

Spec == Init /\ [][Next]_vars

----------------------------------------------------------------------------
(* Properties *)

TypeOK ==
    /\ file \in Files /\ maybe \subseteq Files
    /\ temp \in [Procs -> [1..Attempts -> Files \cup {Nothing}]]
    /\ owner \in Procs \cup {None}
    /\ pc \in [Tasks -> Over \cup {"ready", "lock", "locked", "read", "created", "filled",
                                 "renamed", "invalidate"}]
    /\ base \in [Tasks -> Docs] /\ prev \in [Tasks -> Tasks \cup {None, Old}]
    /\ name \in [Tasks -> 0..Attempts]
    /\ cached \in [Procs -> Docs] /\ valid \in [Procs -> BOOLEAN]
    /\ filling \in [Procs -> Docs \cup {Torn, Nothing}]
    /\ alive \subseteq Procs /\ faults \in 0..MaxFaults
    /\ want \in Docs /\ rev \in [Tasks -> Nat] /\ excused \in BOOLEAN

\* atomic_io.n: "A crash mid-write can never leave a truncated settings.json
\* or trust.json behind": whoever opens the file, at any time and after any
\* kill or power loss, finds a whole document.
NeverTorn == file.doc # Torn

\* The lock spans the whole read-modify-write of auth.save, remove,
\* modify_credential, trust.save and set_many: every entry is what the last
\* change of that entry made it, whatever other processes changed meanwhile.
\* Three things excuse a loss: two coroutines of one process had the lock
\* together, a task that reads before it locks has replaced a newer file, or
\* the file could not be read and was taken to be empty.
NoLostUpdate == excused \/ file.doc = want

\* Write, fsync, rename and fsync of the directory: once a call has returned
\* successfully no power loss takes its change back.
AckedDurable ==
    \A t \in Tasks : pc[t] = "done" => \A m \in maybe : m.rev >= rev[t] /\ m.synced

\* Two processes that refresh the same token: the one that comes second finds
\* a token it did not start from and keeps it, so that the refresh token the
\* provider issued last is not thrown away.
NewerTokenKept ==
    [][\A t \in Tasks :
          (/\ Kind[t] = "refresh" /\ pc[t] = "filled" /\ pc'[t] = "renamed"
           /\ ~excused /\ IsOAuth(file.doc[Key[t]]))
          => file.doc[Key[t]] = prev[t]]_vars

\* Nobody waits for a lock that is not going to be released: whatever way a
\* call ends, a failed write and a kill included, the process that has the
\* lock runs, and one of its coroutines is on the way to the unlock.
LockNotLeaked ==
    owner # None =>
        /\ owner \in alive
        /\ \E t \in Tasks : Proc[t] = owner
              /\ pc[t] \in {"locked", "read", "created", "filled", "renamed"}

\* The comment above modify_credential: "a successful write invalidates the
\* snapshot so subsequent reads see the new state".
SnapshotFresh ==
    \A t \in Tasks : pc[t] = "done" /\ rev[t] = file.rev /\ rev[t] > 0 /\ valid[Proc[t]]
        => cached[Proc[t]] = file.doc
=============================================================================
