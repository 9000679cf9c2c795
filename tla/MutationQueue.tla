--------------------------- MODULE MutationQueue ---------------------------
(***************************************************************************)
(* The per-file mutation queue of the write and edit tools                 *)
(* (src/tools/mutation_queue.n) and the two critical sections that run     *)
(* under it (src/tools/write.n, src/tools/shell_tools.n).                  *)
(*                                                                         *)
(* A coroutine that runs a mutating tool resolves its path to a key,       *)
(* obtains the process-wide registry, finds or creates the key's entry and *)
(* counts itself a user of it, takes the entry's lock, runs the tool body, *)
(* unlocks, obtains the registry again and gives its use up; the last user *)
(* deletes the entry.  One action is one stretch of code between two       *)
(* places where another coroutine can be observed: a mutex, the unguarded  *)
(* flag of get_registry, or a system call on the file.                     *)
(***************************************************************************)
EXTENDS FiniteSets, Integers

CONSTANTS
    Procs,          \* coroutines that execute a mutating tool call
    Paths,          \* the absolute paths tool calls name (after clean)
    Canon,          \* Canon[p]: what realpath(p) is when p exists
    Entries,        \* addresses of entry_t objects
    Registries,     \* addresses of registry_t objects
    WarmStart,      \* a registry was published before these calls
    MaxCalls,       \* bound: tool calls begun (a turn has finitely many)
    None            \* the null reference

ASSUME MutationQueueAssumption ==
    /\ IsFiniteSet(Procs)
    /\ Paths # {}
    /\ Canon \in [Paths -> Paths]
    /\ \A p \in Paths : Canon[Canon[p]] = Canon[p]
    /\ None \notin Procs \cup Paths \cup Entries \cup Registries
    /\ WarmStart \in BOOLEAN
    /\ Registries # {}
    /\ MaxCalls \in Nat

VARIABLES
    pc,             \* pc[c]: where coroutine c stands
    tool,           \* "edit" or "write"
    path,           \* the resolved path of c's call
    key,            \* the key acquire computed for c
    entry,          \* the entry_t c holds a reference to
    reg,            \* the registry_t get_registry returned to c last
    base,           \* what the edit tool read of its file
    calls,          \* tool calls begun
    global_registry,
    registry_init_busy,
    entries,        \* entries[r][k]: registry r's map
    users,          \* entry_t.users
    holder,         \* owner of entry_t.lock
    exists,         \* the canonical paths that exist on disk
    content,        \* content[f]: whose changes file f contains
    published       \* history: the registries made global so far

queueVars == <<global_registry, registry_init_busy, entries, users, holder, published>>
fileVars == <<exists, content>>
callVars == <<tool, path, key, entry, reg, base, calls>>
vars == <<pc, callVars, queueVars, fileVars>>

\* The files on disk, each by its canonical path.
Files == {Canon[p] : p \in Paths}

\* The program counters of one tool call.
BodyPcs == {"read", "open", "put", "unlock"}
PcSet == BodyPcs \cup {"idle", "acqSpin", "acqMark", "acqPublish", "enter",
                       "lock", "relSpin", "relMark", "relPublish", "drop"}

\* c has the entry's lock: from acquire's return to release's first line.
InCritical(c) == pc[c] \in BodyPcs

Init ==
    /\ pc = [c \in Procs |-> "idle"]
    /\ tool = [c \in Procs |-> "write"]
    /\ path = [c \in Procs |-> None]
    /\ key = [c \in Procs |-> None]
    /\ entry = [c \in Procs |-> None]
    /\ reg = [c \in Procs |-> None]
    /\ base = [c \in Procs |-> {}]
    /\ calls = 0
    /\ global_registry =
         IF WarmStart THEN CHOOSE r \in Registries : TRUE ELSE None
    /\ registry_init_busy = 0
    /\ entries = [r \in Registries |-> [k \in Paths |-> None]]
    /\ users = [e \in Entries |-> 0]
    /\ holder = [e \in Entries |-> None]
    /\ exists \in SUBSET Files
    /\ content = [f \in Files |-> {}]
    /\ published = {global_registry} \ {None}

----------------------------------------------------------------------------
(* acquire *)

\* canonicalize_existing(resolved), or resolved itself when realpath fails.
KeyOf(p) == IF Canon[p] \in exists THEN Canon[p] ELSE p

\* A tool call begins: the path is resolved to its key, once.
Begin(c, t, p) ==
    /\ pc[c] = "idle"
    /\ calls < MaxCalls
    /\ calls' = calls + 1
    /\ tool' = [tool EXCEPT ![c] = t]
    /\ path' = [path EXCEPT ![c] = p]
    /\ key' = [key EXCEPT ![c] = KeyOf(p)]
    /\ pc' = [pc EXCEPT ![c] = "acqSpin"]
    /\ UNCHANGED <<entry, reg, base, queueVars, fileVars>>

\* get_registry, first part: yield until nobody is initialising.
Spin(c, from, to) ==
    /\ pc[c] = from
    /\ registry_init_busy = 0
    /\ pc' = [pc EXCEPT ![c] = to]
    /\ UNCHANGED <<callVars, queueVars, fileVars>>

\* Second part: claim the flag, a plain store, and look for a registry.
Mark(c, from, publish, done) ==
    /\ pc[c] = from
    /\ IF global_registry # None
         THEN /\ registry_init_busy' = 0
              /\ reg' = [reg EXCEPT ![c] = global_registry]
              /\ pc' = [pc EXCEPT ![c] = done]
         ELSE /\ registry_init_busy' = 1
              /\ pc' = [pc EXCEPT ![c] = publish]
              /\ UNCHANGED reg
    /\ UNCHANGED <<tool, path, key, entry, base, calls, global_registry,
                   entries, users, holder, published, fileVars>>

\* A registry address no coroutine refers to: the allocator's choice.
FreshRegistry(r) ==
    /\ r # global_registry
    /\ \A c \in Procs : reg[c] # r

\* Third part: nobody had one, so make an empty registry the global one.
Publish(c, from, done) ==
    /\ pc[c] = from
    /\ \E r \in Registries :
         /\ FreshRegistry(r)
         /\ global_registry' = r
         /\ published' = published \cup {r}
         /\ reg' = [reg EXCEPT ![c] = r]
         /\ entries' = [entries EXCEPT ![r] = [k \in Paths |-> None]]
    /\ registry_init_busy' = 0
    /\ pc' = [pc EXCEPT ![c] = done]
    /\ UNCHANGED <<tool, path, key, entry, base, calls, users, holder,
                   fileVars>>

\* An entry address no coroutine and no registry refers to.
FreshEntry(e) ==
    /\ \A c \in Procs : entry[c] # e
    /\ \A r \in Registries, k \in Paths : entries[r][k] # e

\* Under registry.lock: find or insert the key's entry, count one more user.
EnterRegistry(c) ==
    /\ pc[c] = "enter"
    /\ \E e \in Entries :
         /\ IF entries[reg[c]][key[c]] # None
              THEN /\ e = entries[reg[c]][key[c]]
                   /\ users' = [users EXCEPT ![e] = @ + 1]
                   /\ UNCHANGED holder
              ELSE /\ FreshEntry(e)
                   /\ users' = [users EXCEPT ![e] = 1]
                   /\ holder' = [holder EXCEPT ![e] = None]
         /\ entries' = [entries EXCEPT ![reg[c]][key[c]] = e]
         /\ entry' = [entry EXCEPT ![c] = e]
    /\ pc' = [pc EXCEPT ![c] = "lock"]
    /\ UNCHANGED <<tool, path, key, reg, base, calls, global_registry,
                   registry_init_busy, published, fileVars>>

\* Mutant: the lock is taken without waiting for its owner.
LockEntryBarges(c) ==
    /\ pc[c] = "lock"
    /\ holder' = [holder EXCEPT ![entry[c]] = c]
    /\ pc' = [pc EXCEPT ![c] = IF tool[c] = "edit" THEN "read" ELSE "open"]
    /\ UNCHANGED <<callVars, global_registry, registry_init_busy, entries,
                   users, published, fileVars>>

\* entry.lock.lock() returns; the tool body starts.
LockEntry(c) ==
    /\ pc[c] = "lock"
    /\ holder[entry[c]] = None
    /\ holder' = [holder EXCEPT ![entry[c]] = c]
    /\ pc' = [pc EXCEPT ![c] = IF tool[c] = "edit" THEN "read" ELSE "open"]
    /\ UNCHANGED <<callVars, global_registry, registry_init_busy, entries,
                   users, published, fileVars>>

----------------------------------------------------------------------------
(* The tool bodies: execute_edit_locked reads first, both end in           *)
(* execute_without_lock.  An error or an abort leaves for the release.     *)

File(c) == Canon[path[c]]

ReadBase(c) ==
    /\ pc[c] = "read"
    /\ File(c) \in exists
    /\ base' = [base EXCEPT ![c] = content[File(c)]]
    /\ pc' = [pc EXCEPT ![c] = "open"]
    /\ UNCHANGED <<tool, path, key, entry, reg, calls, queueVars, fileVars>>

\* fs.open(O_CREAT | O_TRUNC)
OpenTruncate(c) ==
    /\ pc[c] = "open"
    /\ exists' = exists \cup {File(c)}
    /\ content' = [content EXCEPT ![File(c)] = {}]
    /\ pc' = [pc EXCEPT ![c] = "put"]
    /\ UNCHANGED <<callVars, queueVars>>

\* write_at: an edit writes what it read with its own change applied.
Put(c) ==
    /\ pc[c] = "put"
    /\ content' = [content EXCEPT
                     ![File(c)] = IF tool[c] = "edit" THEN base[c] \cup {c}
                                                      ELSE {c}]
    /\ pc' = [pc EXCEPT ![c] = "unlock"]
    /\ UNCHANGED <<callVars, queueVars, exists>>

\* A failed open or write, or throw_if_aborted, before the body is through.
BodyThrows(c) ==
    /\ pc[c] \in BodyPcs \ {"unlock"}
    /\ pc' = [pc EXCEPT ![c] = "unlock"]
    /\ UNCHANGED <<callVars, queueVars, fileVars>>

----------------------------------------------------------------------------
(* release *)

\* Mutant: release forgets entry.lock.unlock().
UnlockEntryForgotten(c) ==
    /\ pc[c] = "unlock"
    /\ pc' = [pc EXCEPT ![c] = "relSpin"]
    /\ UNCHANGED <<callVars, queueVars, fileVars>>

\* entry.lock.unlock()
UnlockEntry(c) ==
    /\ pc[c] = "unlock"
    /\ holder' = [holder EXCEPT ![entry[c]] = None]
    /\ pc' = [pc EXCEPT ![c] = "relSpin"]
    /\ UNCHANGED <<callVars, global_registry, registry_init_busy, entries,
                   users, published, fileVars>>

\* release's registry section, when `last` says that the entry goes.
DropUseWhen(c, last) ==
    LET r == reg[c]
        e == entry[c]
    IN  /\ pc[c] = "drop"
        /\ users' = [users EXCEPT ![e] = @ - 1]
        /\ entries' = IF last /\ entries[r][key[c]] = e
                        THEN [entries EXCEPT ![r][key[c]] = None]
                        ELSE entries
        /\ entry' = [entry EXCEPT ![c] = None]
        /\ reg' = [reg EXCEPT ![c] = None]
        /\ key' = [key EXCEPT ![c] = None]
        /\ path' = [path EXCEPT ![c] = None]
        /\ tool' = [tool EXCEPT ![c] = "write"]
        /\ base' = [base EXCEPT ![c] = {}]
        /\ pc' = [pc EXCEPT ![c] = "idle"]
        /\ UNCHANGED <<calls, global_registry, registry_init_busy, holder,
                       published, fileVars>>

\* Mutant: every release deletes the key's entry.
DropUseAlways(c) == DropUseWhen(c, TRUE)

\* Under registry.lock: one user less; the last one deletes the entry, if it
\* is still the one the registry has for the key.
DropUse(c) == DropUseWhen(c, users[entry[c]] = 1)

----------------------------------------------------------------------------
(* acquire and release, each a sequence of steps of one coroutine. *)
acquire(c) ==
    \/ \E t \in {"edit", "write"}, p \in Paths : Begin(c, t, p)
    \/ Spin(c, "acqSpin", "acqMark")
    \/ Mark(c, "acqMark", "acqPublish", "enter")
    \/ Publish(c, "acqPublish", "enter")
    \/ EnterRegistry(c)
    \/ LockEntry(c)

body(c) ==
    \/ ReadBase(c)
    \/ OpenTruncate(c)
    \/ Put(c)
    \/ BodyThrows(c)

release(c) ==
    \/ UnlockEntry(c)
    \/ Spin(c, "relSpin", "relMark")
    \/ Mark(c, "relMark", "relPublish", "drop")
    \/ Publish(c, "relPublish", "drop")
    \/ DropUse(c)

Next == \E c \in Procs : acquire(c) \/ body(c) \/ release(c)

\* The scheduler runs every coroutine that can run.  No order is assumed
\* among the waiters of a lock: a turn has finitely many calls.
Fairness ==
    \A c \in Procs : WF_vars(pc[c] # "idle" /\ (acquire(c) \/ body(c) \/ release(c)))

Spec == Init /\ [][Next]_vars
FairSpec == Spec /\ Fairness

----------------------------------------------------------------------------
(* Properties *)

TypeOK ==
    /\ pc \in [Procs -> PcSet]
    /\ \A c \in Procs : pc[c] # "idle" => path[c] \in Paths /\ key[c] \in Paths
    /\ tool \in [Procs -> {"edit", "write"}]
    /\ path \in [Procs -> Paths \cup {None}]
    /\ key \in [Procs -> Paths \cup {None}]
    /\ entry \in [Procs -> Entries \cup {None}]
    /\ reg \in [Procs -> Registries \cup {None}]
    /\ base \in [Procs -> SUBSET Procs]
    /\ calls \in 0 .. MaxCalls
    /\ global_registry \in Registries \cup {None}
    /\ registry_init_busy \in {0, 1}
    /\ entries \in [Registries -> [Paths -> Entries \cup {None}]]
    /\ users \in [Entries -> Int]
    /\ holder \in [Entries -> Procs \cup {None}]
    /\ exists \subseteq Paths
    /\ content \in [Files -> SUBSET Procs]

\* get_registry's first users did not race each other.
OneRegistry == \A r, s \in published : r = s

\* Two tool bodies never run under the same key at once, however acquire,
\* release and the deletion of a key's entry by its last user interleave
\* (mutation_queue.n acquire and release), if one registry was published.
KeyExclusion ==
    OneRegistry => \A c, d \in Procs :
        c # d /\ InCritical(c) /\ InCritical(d) => key[c] # key[d]

\* What the tools need of the queue: no two bodies on the same file on disk.
FileExclusion ==
    \A c, d \in Procs :
        c # d /\ InCritical(c) /\ InCritical(d) => File(c) # File(d)

\* What an edit is about to write was computed from what the file contains.
EditsCurrent ==
    \A c \in Procs :
        pc[c] = "open" /\ tool[c] = "edit" => base[c] = content[File(c)]

\* The comment in edit_executor_t.execute: an edit never writes over a
\* change made since it read the file, so no replacement set is lost, if one
\* registry was published.
NoLostUpdate == OneRegistry => EditsCurrent

\* KeyExclusion's inductive strengthening, as long as one registry was
\* published at most: every call past acqMark uses that registry, and before it
\* is published none is past it; a call that counts as a user finds its own
\* entry under its key, counts are exact, no two keys share an entry, and the
\* tool body's coroutine owns the entry's lock.
HasEntry(c) == pc[c] \in BodyPcs \cup {"lock", "relSpin", "relMark", "drop"}

RegistryShared ==
    /\ published = {global_registry} \ {None}
    /\ \A c \in Procs :
         /\ pc[c] # "relPublish"
         /\ HasEntry(c) \/ pc[c] = "enter" =>
              reg[c] = global_registry /\ global_registry # None

KeysResolved ==
    \A c \in Procs : pc[c] # "idle" => key[c] \in {path[c], Canon[path[c]]}

EntriesFound ==
    \A c \in Procs :
        IF HasEntry(c)
          THEN entry[c] # None /\ entries[global_registry][key[c]] = entry[c]
          ELSE entry[c] = None

LocksOwned == \A c \in Procs : InCritical(c) => holder[entry[c]] = c

\* The registry does not leak: an entry counts the calls that refer to it.
CountsExact ==
    \A e \in Entries : users[e] = Cardinality({c \in Procs : entry[c] = e})

KeysApart ==
    global_registry # None => \A k, l \in Paths :
        entries[global_registry][k] = entries[global_registry][l] =>
            k = l \/ entries[global_registry][k] = None

QueueInv ==
    /\ RegistryShared
    /\ KeysResolved
    /\ EntriesFound
    /\ LocksOwned
    /\ CountsExact
    /\ KeysApart

\* Every call that starts comes back: nobody waits for ever on an entry that
\* was deleted, or on a lock whose owner is gone.
CallsReturn == \A c \in Procs : pc[c] = "acqSpin" ~> pc[c] = "idle"
=============================================================================
